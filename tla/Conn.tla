--------------------------------- MODULE Conn ---------------------------------
(***************************************************************************)
(* One end of a multiplexed connection (net/conn.hpp): caller threads that *)
(* send a request and block for the frame with the same message id, one    *)
(* reader thread that decodes and distributes inbound frames, and a thread *)
(* that shuts the connection down.  The peer is external: it answers each  *)
(* request once, may send frames of its own and may close at any moment.   *)
(*                                                                         *)
(* An inbound frame is its message id, its payload length and the request  *)
(* it answers: tag <<c, n>> is the n-th request of caller c, None a frame  *)
(* that was not asked for.  On Windows, the platform of the build, closing *)
(* a socket ends a recv that is blocked on it.                             *)
(***************************************************************************)
EXTENDS Naturals, Sequences, FiniteSets

CONSTANTS
    Caller,         \* threads that call request()
    MsgId,          \* message ids
    IdOf,           \* the message id a caller uses
    Payload,        \* payload lengths, in bytes, of the frames nobody asked for
    kMaxPending,    \* capacity of the map of pending requests
    MaxRequests,    \* bound: requests of a caller
    MaxEvents,      \* bound: frames the peer sends unasked
    None

ASSUME ConnAssumption ==
    /\ IdOf \in [Caller -> MsgId]
    /\ Payload \subseteq Nat
    /\ kMaxPending \in Nat /\ MaxRequests \in [Caller -> Nat] /\ MaxEvents \in Nat
    /\ None \notin Caller

VARIABLES
    at,         \* at[c]: where request() of caller c stands
    sent,       \* sent[c]: the number of the caller's current or last request
    pending,    \* pending_: message id -> the caller whose Pending it holds
    done,       \* done[c]: the flag of the caller's Pending
    response,   \* response[c]: the frame in the caller's Pending
    result,     \* result[c]: what the last request() of the caller returned
    dead,       \* dead_
    stop,       \* stop_
    sock,       \* s_ is open
    reader,     \* where read_loop stands
    frame,      \* the frame the reader has received
    closing,    \* where shutdown() stands
    inbox,      \* frames on their way to this end
    outbox,     \* requests the peer has not answered
    peer,       \* the peer has the connection open
    events      \* number of unasked frames the peer has sent

vars == <<at, sent, pending, done, response, result, dead, stop, sock, reader,
          frame, closing, inbox, outbox, peer, events>>

calls == <<at, sent, done, response, result>>
ends == <<dead, stop, sock, reader, frame, closing>>
wire == <<inbox, outbox, peer, events>>

Call == UNION {{c} \X (1 .. MaxRequests[c]) : c \in Caller}

(* Every answer has a field: six bytes of header and at least one of value. *)
AnswerLength == 7

Frame == [msg_id : MsgId, plen : Payload \cup {AnswerLength}, tag : Call \cup {None}]

ASSUME NoneAssumption == None \notin Call /\ None \notin Frame

Init ==
    /\ at = [c \in Caller |-> "idle"]
    /\ sent = [c \in Caller |-> 0]
    /\ pending = [i \in MsgId |-> None]
    /\ done = [c \in Caller |-> FALSE]
    /\ response = [c \in Caller |-> None]
    /\ result = [c \in Caller |-> None]
    /\ dead = FALSE /\ stop = FALSE /\ sock = TRUE
    /\ reader = "recv" /\ frame = None /\ closing = "no"
    /\ inbox = <<>> /\ outbox = {} /\ peer = TRUE /\ events = 0

Size == Cardinality({i \in MsgId : pending[i] # None})

(* Somebody reads what the peer sends; the rest is not kept in the model. *)
heard == peer /\ sock /\ reader \in {"recv", "match", "handler"}

-----------------------------------------------------------------------------
(* request()                                                               *)

(* The unlocked look at dead_ and s_ with which request() begins. *)
request(c) ==
    /\ at[c] = "idle" /\ sent[c] < MaxRequests[c]
    /\ sent' = [sent EXCEPT ![c] = @ + 1]
    /\ IF dead \/ ~sock
       THEN /\ result' = [result EXCEPT ![c] = None]
            /\ UNCHANGED at
       ELSE /\ at' = [at EXCEPT ![c] = "checked"]
            /\ UNCHANGED result
    /\ UNCHANGED <<pending, done, response, ends, wire>>

(* The first locked region, when the map is full and when it is not. *)
refused(c) ==
    /\ at[c] = "checked" /\ Size >= kMaxPending
    /\ at' = [at EXCEPT ![c] = "idle"]
    /\ result' = [result EXCEPT ![c] = None]
    /\ UNCHANGED <<sent, pending, done, response, ends, wire>>

registered(c) ==
    /\ at[c] = "checked" /\ Size < kMaxPending
    /\ at' = [at EXCEPT ![c] = "registered"]
    /\ pending' = [pending EXCEPT ![IdOf[c]] = c]
    /\ UNCHANGED <<sent, done, response, result, ends, wire>>

(* send_frame looks at s_ and dead_ once more, now that the request is     *)
(* registered.                                                             *)
write_check_omitted(c) ==
    /\ at[c] = "registered"
    /\ at' = [at EXCEPT ![c] = "writing"]
    /\ UNCHANGED <<sent, pending, done, response, result, ends, wire>>

write_check(c) ==
    /\ at[c] = "registered"
    /\ at' = [at EXCEPT ![c] = IF dead \/ ~sock THEN "unsent" ELSE "writing"]
    /\ UNCHANGED <<sent, pending, done, response, result, ends, wire>>

(* The bytes go out as one frame (the writers exclude each other); an      *)
(* error comes only from a connection that either end has closed.          *)
write(c) ==
    /\ at[c] = "writing"
    /\ \/ /\ sock
          /\ at' = [at EXCEPT ![c] = "waiting"]
          /\ outbox' = IF heard THEN outbox \cup {<<c, sent[c]>>} ELSE outbox
       \/ /\ ~peer \/ ~sock
          /\ at' = [at EXCEPT ![c] = "unsent"]
          /\ UNCHANGED outbox
    /\ UNCHANGED <<sent, pending, done, response, result, ends, inbox, peer, events>>

(* The failure path: completes and erases whatever is under the id. *)
unsent(c) ==
    /\ at[c] = "unsent"
    /\ at' = [at EXCEPT ![c] = "idle"]
    /\ result' = [result EXCEPT ![c] = None]
    /\ pending' = [pending EXCEPT ![IdOf[c]] = None]
    /\ done' = [d \in Caller |-> d # c /\ (done[d] \/ d = pending[IdOf[c]])]
    /\ response' = [response EXCEPT ![c] = None]
    /\ UNCHANGED <<sent, ends, wire>>

(* The wait ends; the entry under the id is erased, whoever's it is. *)
woken_keeps_entry(c) ==
    /\ at[c] = "waiting" /\ done[c]
    /\ at' = [at EXCEPT ![c] = "idle"]
    /\ result' = [result EXCEPT ![c] = response[c]]
    /\ done' = [done EXCEPT ![c] = FALSE]
    /\ response' = [response EXCEPT ![c] = None]
    /\ UNCHANGED <<sent, pending, ends, wire>>

woken(c) ==
    /\ at[c] = "waiting" /\ done[c]
    /\ at' = [at EXCEPT ![c] = "idle"]
    /\ result' = [result EXCEPT ![c] = response[c]]
    /\ pending' = [pending EXCEPT ![IdOf[c]] = None]
    /\ done' = [done EXCEPT ![c] = FALSE]
    /\ response' = [response EXCEPT ![c] = None]
    /\ UNCHANGED <<sent, ends, wire>>

-----------------------------------------------------------------------------
(* read_loop()                                                             *)

(* encode_frame adds 26 bytes to the payload; decode_frame refuses less    *)
(* than 31, so a payload of fewer than five bytes does not arrive.         *)
encode_frame(plen) == plen + 26
decode_frame(n) == n >= 31

(* recv_frame delivers the next frame, or nothing: end of stream, a socket *)
(* closed by shutdown(), or a frame that decode_frame refuses.             *)
recv_frame ==
    /\ reader = "recv" /\ ~stop /\ sock /\ inbox # <<>>
    /\ decode_frame(encode_frame(Head(inbox).plen))
    /\ frame' = Head(inbox)
    /\ inbox' = Tail(inbox)
    /\ reader' = "match"
    /\ UNCHANGED <<calls, pending, dead, stop, sock, closing, outbox, peer, events>>

read_loop_ends_at_eof_only ==
    /\ reader = "recv" /\ inbox = <<>> /\ ~peer
    /\ reader' = "leaving"
    /\ UNCHANGED <<calls, pending, dead, stop, sock, frame, closing, wire>>

(* The loop goes on when recv_frame has delivered nothing. *)
read_loop_unchecked ==
    /\ reader = "recv"
    /\ \/ stop
       \/ ~sock
       \/ inbox = <<>> /\ ~peer
       \/ inbox # <<>> /\ ~decode_frame(encode_frame(Head(inbox).plen))
    /\ reader' = IF stop THEN "leaving" ELSE "match"
    /\ inbox' = <<>> /\ outbox' = {}
    /\ UNCHANGED <<calls, pending, dead, stop, sock, frame, closing, peer, events>>

read_loop_ends ==
    /\ reader = "recv"
    /\ \/ stop
       \/ ~sock
       \/ inbox = <<>> /\ ~peer
       \/ inbox # <<>> /\ ~decode_frame(encode_frame(Head(inbox).plen))
    /\ reader' = "leaving"
    /\ inbox' = <<>> /\ outbox' = {}
    /\ UNCHANGED <<calls, pending, dead, stop, sock, frame, closing, peer, events>>

(* The locked look into the map; the entry stays until its caller wakes. *)
match_in_order ==
    /\ reader = "match"
    /\ \E i \in MsgId :
          LET c == pending[i]
          IN  /\ c # None
              /\ response' = [response EXCEPT ![c] = frame]
              /\ done' = [done EXCEPT ![c] = TRUE]
    /\ reader' = "recv"
    /\ frame' = None
    /\ UNCHANGED <<at, sent, result, pending, dead, stop, sock, closing, wire>>

match ==
    /\ reader = "match"
    /\ LET c == pending[frame.msg_id]
       IN  IF c # None
           THEN /\ response' = [response EXCEPT ![c] = frame]
                /\ done' = [done EXCEPT ![c] = TRUE]
                /\ reader' = "recv"
           ELSE /\ reader' = "handler"
                /\ UNCHANGED <<response, done>>
    /\ frame' = None
    /\ UNCHANGED <<at, sent, result, pending, dead, stop, sock, closing, wire>>

(* on_unsolicited_ runs on this thread; nothing is read until it returns. *)
on_unsolicited ==
    /\ reader = "handler"
    /\ reader' = "recv"
    /\ UNCHANGED <<calls, pending, dead, stop, sock, frame, closing, wire>>

(* resolve_pending(nullopt), under the lock. *)
resolve_pending_only_clears ==
    /\ pending' = [i \in MsgId |-> None]
    /\ UNCHANGED <<response, done>>

resolve_pending ==
    LET failed == {pending[i] : i \in MsgId}
    IN  /\ response' = [c \in Caller |-> IF c \in failed THEN None ELSE response[c]]
        /\ done' = [c \in Caller |-> done[c] \/ c \in failed]
        /\ pending' = [i \in MsgId |-> None]

set_dead ==
    /\ reader = "leaving"
    /\ dead' = TRUE
    /\ reader' = "dead"
    /\ UNCHANGED <<calls, pending, stop, sock, frame, closing, wire>>

reader_resolves ==
    /\ reader = "dead"
    /\ resolve_pending
    /\ reader' = "ended"
    /\ UNCHANGED <<at, sent, result, dead, stop, sock, frame, closing, wire>>

-----------------------------------------------------------------------------
(* shutdown(): later calls return at once.  stop_ and s_ are set one after *)
(* the other, but both only make the reader leave.                         *)

shutdown ==
    /\ closing = "no"
    /\ stop' = TRUE /\ sock' = FALSE
    /\ closing' = "resolve"
    /\ inbox' = <<>> /\ outbox' = {}
    /\ UNCHANGED <<calls, pending, dead, reader, frame, peer, events>>

shutdown_resolves ==
    /\ closing = "resolve"
    /\ resolve_pending
    /\ closing' = "join"
    /\ UNCHANGED <<at, sent, result, dead, stop, sock, reader, frame, wire>>

join ==
    /\ closing = "join" /\ reader = "ended"
    /\ closing' = "closed"
    /\ UNCHANGED <<calls, pending, dead, stop, sock, reader, frame, wire>>

-----------------------------------------------------------------------------
(* The peer, external.                                                     *)

peer_answers ==
    /\ peer
    /\ \E q \in outbox :
          /\ outbox' = outbox \ {q}
          /\ inbox' = Append(inbox, [msg_id |-> IdOf[q[1]], plen |-> AnswerLength, tag |-> q])
    /\ UNCHANGED <<calls, pending, ends, peer, events>>

peer_sends ==
    /\ heard /\ events < MaxEvents
    /\ events' = events + 1
    /\ \E i \in MsgId, n \in Payload :
          /\ \A c \in Caller : IdOf[c] # i
          /\ inbox' = Append(inbox, [msg_id |-> i, plen |-> n, tag |-> None])
    /\ UNCHANGED <<calls, pending, ends, outbox, peer>>

peer_closes ==
    /\ peer
    /\ peer' = FALSE
    /\ outbox' = {}
    /\ UNCHANGED <<calls, pending, ends, inbox, events>>

-----------------------------------------------------------------------------
caller_step(c) ==
    \/ request(c) \/ refused(c) \/ registered(c) \/ write_check(c)
    \/ write(c) \/ unsent(c) \/ woken(c)

reader_step ==
    recv_frame \/ read_loop_ends \/ match \/ on_unsolicited \/ set_dead \/ reader_resolves

shutdown_step == shutdown_resolves \/ join

(* With no request in progress the connection may rest. *)
at_rest == (\A c \in Caller : at[c] = "idle") /\ UNCHANGED vars

Next ==
    \/ \E c \in Caller : caller_step(c)
    \/ reader_step
    \/ shutdown \/ shutdown_step
    \/ peer_answers \/ peer_sends \/ peer_closes
    \/ at_rest

Spec == Init /\ [][Next]_vars

(* Threads are scheduled; handlers return; a peer that holds a connection  *)
(* open answers what it was asked.  Nobody has to call request(), to close *)
(* or to shut down.                                                        *)
FairSpec ==
    /\ Spec
    /\ \A c \in Caller : WF_vars(refused(c) \/ registered(c) \/ write_check(c)
                                 \/ write(c) \/ unsent(c) \/ woken(c))
    /\ WF_vars(reader_step)
    /\ WF_vars(shutdown_step)
    /\ WF_vars(peer_answers)

-----------------------------------------------------------------------------
InProgress == {"registered", "writing", "waiting", "unsent"}

(* The types; and read_loop dereferences a frame only where recv_frame has *)
(* delivered one, whatever made it stop reading.                           *)
TypeOK ==
    /\ at \in [Caller -> {"idle", "checked"} \cup InProgress]
    /\ sent \in [Caller -> Nat]
    /\ \A c \in Caller : sent[c] <= MaxRequests[c]
    /\ pending \in [MsgId -> Caller \cup {None}]
    /\ done \in [Caller -> BOOLEAN]
    /\ response \in [Caller -> Frame \cup {None}]
    /\ result \in [Caller -> Frame \cup {None}]
    /\ dead \in BOOLEAN /\ stop \in BOOLEAN /\ sock \in BOOLEAN /\ peer \in BOOLEAN
    /\ reader \in {"recv", "match", "handler", "leaving", "dead", "ended"}
    /\ frame \in Frame \cup {None}
    /\ reader = "match" => frame # None
    /\ closing \in {"no", "resolve", "join", "closed"}
    /\ inbox \in Seq(Frame)
    /\ outbox \subseteq Call
    /\ events \in 0 .. MaxEvents

(* The callers use ids of their own. *)
DistinctIds == \A c, d \in Caller : IdOf[c] = IdOf[d] => c = d

(* The connection is over: the reader has left read_loop, or shutdown()    *)
(* has resolved what was pending.                                          *)
Disconnected == reader = "ended" \/ closing \in {"join", "closed"}

(* conn.hpp: "a pending request completes as failed on disconnect".  A     *)
(* request that registers itself while the reader or shutdown() resolves   *)
(* the pending ones is not overlooked: nobody who waits after a disconnect *)
(* waits for a Pending that is not done.                                   *)
NoneBlockedAfterDisconnect ==
    DistinctIds /\ Disconnected => \A c \in Caller : at[c] = "waiting" => done[c]

(* Correlation by message id, with ids used again for later requests: what *)
(* request() returns is the answer to this very request, or a failure.     *)
AnsweredByItsOwnReply ==
    \A c \in Caller :
        at[c] = "idle" /\ result[c] # None => result[c].tag = <<c, sent[c]>>

(* The map of pending requests stays within its capacity and holds only    *)
(* requests in progress: disconnects, failed writes and answers leave no   *)
(* entry behind that would use up the capacity.                            *)
PendingIsInProgress ==
    /\ Size <= kMaxPending
    /\ \A i \in MsgId :
          pending[i] # None => at[pending[i]] \in InProgress /\ IdOf[pending[i]] = i

(* conn.hpp: request() blocks "until the matching response arrives (or the *)
(* connection dies)": under every schedule it returns.                     *)
EveryRequestReturns == \A c \in Caller : at[c] # "idle" ~> at[c] = "idle"

(* shutdown() joins the reader and returns. *)
ShutdownReturns == closing = "resolve" ~> closing = "closed"
===============================================================================
