------------------------------ MODULE ConnProofs ------------------------------
(***************************************************************************)
(* Conn for any number of callers, message ids and frames: the types, that *)
(* nobody is left waiting after a disconnect, that an entry of the pending *)
(* table belongs to a request in progress, and, when callers have ids of   *)
(* their own, that what request() returns is the answer to this request.   *)
(*                                                                         *)
(* NoneBlockedAfterDisconnect is not inductive: a caller that is still     *)
(* writing when the pending requests are resolved waits afterwards.  The   *)
(* invariant says where the entry of a caller is from the moment it        *)
(* registers, and that whoever passed the second look at dead_ and s_      *)
(* before the disconnect was resolved by it.                               *)
(***************************************************************************)
EXTENDS Conn, FiniteSetTheorems, Integers, TLAPS

(* Sequences.                                                               *)
LEMMA SeqEmpty ==
    ASSUME NEW S
    PROVE  <<>> \in Seq(S) /\ Len(<<>>) = 0 /\ \A q \in Seq(S) : q # <<>> => Len(q) > 0
  OBVIOUS

LEMMA SeqLen ==
    ASSUME NEW S, NEW q \in Seq(S)
    PROVE  Len(q) \in Nat /\ DOMAIN q = 1 .. Len(q)
  OBVIOUS

LEMMA SeqAppend ==
    ASSUME NEW S, NEW q \in Seq(S), NEW e \in S
    PROVE  /\ Append(q, e) \in Seq(S) /\ Len(Append(q, e)) = Len(q) + 1
           /\ \A i \in 1 .. Len(q) : Append(q, e)[i] = q[i]
           /\ Append(q, e)[Len(q) + 1] = e
  OBVIOUS

LEMMA SeqHeadTail ==
    ASSUME NEW S, NEW q \in Seq(S), q # <<>>
    PROVE  /\ Head(q) \in S /\ Tail(q) \in Seq(S) /\ Len(Tail(q)) = Len(q) - 1
           /\ \A i \in 1 .. Len(Tail(q)) : Tail(q)[i] = q[i + 1]
  OBVIOUS

(* What the argument needs to know of the variables. *)
Shape ==
    /\ at \in [Caller -> {"idle", "checked"} \cup InProgress]
    /\ pending \in [MsgId -> Caller \cup {None}]
    /\ done \in [Caller -> BOOLEAN]

(* A registered caller is in the map, or its request is completed. *)
Entered ==
    \A c \in Caller :
        at[c] \in {"registered", "writing", "waiting"} => done[c] \/ pending[IdOf[c]] = c

(* dead_ and s_ are set before the pending requests are resolved. *)
Announced ==
    /\ reader \in {"dead", "ended"} => dead
    /\ closing # "no" => ~sock

(* After a disconnect everybody who went on to write is completed. *)
Completed ==
    Disconnected => \A c \in Caller : at[c] \in {"writing", "waiting"} => done[c]

ConnInv == Shape /\ Entered /\ Announced /\ Completed

(* resolve_pending completes every caller that has its entry in the map. *)
LEMMA ResolvePending ==
    ASSUME ConnInv, resolve_pending
    PROVE  /\ pending' \in [MsgId -> Caller \cup {None}]
           /\ done' \in [Caller -> BOOLEAN]
           /\ \A c \in Caller :
                 at[c] \in {"registered", "writing", "waiting"} => done'[c]
<1>1. pending' \in [MsgId -> Caller \cup {None}] /\ done' \in [Caller -> BOOLEAN]
  BY Zenon DEF ConnInv, Shape, resolve_pending
<1>2. ASSUME NEW c \in Caller, at[c] \in {"registered", "writing", "waiting"}
      PROVE  done'[c]
  <2>1. done[c] \/ pending[IdOf[c]] = c
    BY <1>2, Zenon DEF ConnInv, Entered
  <2>2. IdOf[c] \in MsgId
    BY Zenon, ConnAssumption
  <2>3. done'[c] = (done[c] \/ c \in {pending[i] : i \in MsgId})
    BY Zenon DEF resolve_pending
  <2>4. QED
    BY Zenon, <2>1, <2>2, <2>3
<1>3. QED
  BY Zenon, <1>1, <1>2

LEMMA ConnInit == Init => ConnInv
BY Zenon DEF Init, ConnInv, Shape, Entered, Announced, Completed, Disconnected

(* A step of a caller. *)
LEMMA CallerStep ==
    ASSUME DistinctIds, ConnInv, NEW c \in Caller, caller_step(c)
    PROVE  ConnInv'
<1> USE ConnAssumption
<1>1. CASE request(c)
  BY <1>1, Zenon DEF request, ConnInv, Shape, Entered, Announced, Completed, Disconnected, InProgress, ends
<1>2. CASE refused(c)
  BY <1>2, Zenon DEF refused, ConnInv, Shape, Entered, Announced, Completed, Disconnected, InProgress, ends
<1>3. CASE registered(c)
  <2>1. Shape'
    BY <1>3, Zenon DEF registered, ConnInv, Shape, InProgress
  <2>2. Entered'
    BY <1>3, Zenon DEF registered, ConnInv, Shape, Entered, InProgress, DistinctIds
  <2>3. Announced' /\ Completed'
    BY <1>3, Zenon DEF registered, ConnInv, Shape, Announced, Completed, Disconnected, InProgress, ends
  <2>4. QED
    BY <2>1, <2>2, <2>3, Zenon DEF ConnInv
<1>4. CASE write_check(c)
  BY <1>4, Zenon DEF write_check, ConnInv, Shape, Entered, Announced, Completed, Disconnected, InProgress,
              ends
<1>5. CASE write(c)
  BY <1>5, Zenon DEF write, ConnInv, Shape, Entered, Announced, Completed, Disconnected, InProgress, ends
<1>6. CASE unsent(c)
  <2>1. Shape'
    BY <1>6, Zenon DEF unsent, ConnInv, Shape, InProgress
  <2>2. Entered'
    BY <1>6, Zenon DEF unsent, ConnInv, Shape, Entered, InProgress, DistinctIds
  <2>3. Announced' /\ Completed'
    BY <1>6, Zenon DEF unsent, ConnInv, Shape, Announced, Completed, Disconnected, InProgress, ends
  <2>4. QED
    BY <2>1, <2>2, <2>3, Zenon DEF ConnInv
<1>7. CASE woken(c)
  <2>1. Shape'
    BY <1>7, Zenon DEF woken, ConnInv, Shape, InProgress
  <2>2. Entered'
    BY <1>7, Zenon DEF woken, ConnInv, Shape, Entered, InProgress, DistinctIds
  <2>3. Announced' /\ Completed'
    BY <1>7, Zenon DEF woken, ConnInv, Shape, Announced, Completed, Disconnected, InProgress, ends
  <2>4. QED
    BY <2>1, <2>2, <2>3, Zenon DEF ConnInv
<1>8. QED
  BY <1>1, <1>2, <1>3, <1>4, <1>5, <1>6, <1>7, Zenon DEF caller_step

(* A step of the reader. *)
LEMMA ReaderStep ==
    ASSUME ConnInv, reader_step
    PROVE  ConnInv'
<1> USE DEF ConnInv, Shape, Entered, Announced, Completed, Disconnected, calls
<1>1. CASE recv_frame
  BY <1>1, Zenon DEF recv_frame
<1>2. CASE read_loop_ends
  BY <1>2, Zenon DEF read_loop_ends
<1>3. CASE match
  BY <1>3, Zenon DEF match
<1>4. CASE on_unsolicited
  BY <1>4, Zenon DEF on_unsolicited
<1>5. CASE set_dead
  BY <1>5, Zenon DEF set_dead
<1>6. CASE reader_resolves
  BY <1>6, ResolvePending, Zenon DEF reader_resolves
<1>7. QED
  BY <1>1, <1>2, <1>3, <1>4, <1>5, <1>6, Zenon DEF reader_step

(* A step of shutdown() or of the peer. *)
LEMMA OtherStep ==
    ASSUME ConnInv,
           shutdown \/ shutdown_step \/ peer_answers \/ peer_sends \/ peer_closes \/ UNCHANGED vars
    PROVE  ConnInv'
<1> USE DEF ConnInv, Shape, Entered, Announced, Completed, Disconnected, calls
<1>1. CASE shutdown
  BY <1>1, Zenon DEF shutdown
<1>2. CASE shutdown_resolves
  BY <1>2, ResolvePending, Zenon DEF shutdown_resolves
<1>3. CASE join
  BY <1>3, Zenon DEF join
<1>4. CASE peer_answers \/ peer_sends \/ peer_closes
  BY <1>4 DEF peer_answers, peer_sends, peer_closes, ends
<1>5. CASE UNCHANGED vars
  BY <1>5, Zenon DEF vars
<1>6. QED
  BY <1>1, <1>2, <1>3, <1>4, <1>5, Zenon DEF shutdown_step

(* Nobody announces a disconnect after resolving the pending requests. *)
LEMMA AnnouncedNext ==
    ASSUME Announced, [Next]_vars
    PROVE  Announced'
<1> USE DEF Announced
<1>1. ASSUME NEW c \in Caller, caller_step(c) PROVE Announced'
  BY <1>1 DEF caller_step, request, refused, registered, write_check, write, unsent, woken, ends
<1>2. CASE reader_step
  BY <1>2 DEF reader_step, recv_frame, read_loop_ends, match, on_unsolicited, set_dead,
              reader_resolves
<1>3. CASE shutdown \/ shutdown_step
  BY <1>3 DEF shutdown, shutdown_step, shutdown_resolves, join
<1>4. CASE peer_answers \/ peer_sends \/ peer_closes \/ UNCHANGED vars
  BY <1>4 DEF peer_answers, peer_sends, peer_closes, vars, ends
<1>5. QED
  BY <1>1, <1>2, <1>3, <1>4, Zenon DEF Next, at_rest

(* conn.hpp promises that a pending request completes on disconnect: with  *)
(* ids of their own, no caller of request() is left waiting after the      *)
(* reader has ended or shutdown() has resolved, at whatever moment of      *)
(* their requests that happened.                                           *)
THEOREM NobodyLeftWaiting == Spec => []NoneBlockedAfterDisconnect
<1>1. CASE DistinctIds
  <2>1. ConnInv /\ [Next]_vars => ConnInv'
    BY <1>1, CallerStep, ReaderStep, OtherStep, Zenon DEF Next, at_rest
  <2>2. ConnInv => NoneBlockedAfterDisconnect
    BY Zenon DEF ConnInv, Completed, NoneBlockedAfterDisconnect
  <2>3. QED
    BY <2>1, <2>2, ConnInit, PTL DEF Spec
<1>2. CASE ~DistinctIds
  <2>1. NoneBlockedAfterDisconnect
    BY <1>2, Zenon DEF NoneBlockedAfterDisconnect
  <2>2. QED
    BY <2>1, PTL
<1>3. QED
  BY Zenon, <1>1, <1>2

-----------------------------------------------------------------------------
(* Types.                                                                  *)

(* A caller that is not idle has asked at least once. *)
Asked == \A c \in Caller : at[c] # "idle" => sent[c] > 0

TypeInv == TypeOK /\ Asked

LEMMA TypeInit == Init => TypeInv
<1> SUFFICES ASSUME Init PROVE TypeInv
  BY Zenon
<1>1. inbox \in Seq(Frame) /\ events \in 0 .. MaxEvents
  BY ConnAssumption, SeqEmpty DEF Init
<1>2. \A c \in Caller : sent[c] <= MaxRequests[c]
  BY ConnAssumption DEF Init
<1>3. QED
  BY <1>1, <1>2, Zenon DEF Init, TypeInv, TypeOK, Asked, InProgress

LEMMA TypeCaller ==
    ASSUME TypeInv, NEW c \in Caller, caller_step(c)
    PROVE  TypeInv'
<1> USE ConnAssumption DEF TypeInv, TypeOK, Asked, InProgress, ends, wire
<1>1. CASE request(c)
  <2>1. /\ sent' \in [Caller -> Nat] /\ sent'[c] > 0
        /\ \A d \in Caller : sent'[d] <= MaxRequests[d]
        /\ \A d \in Caller : d # c => sent'[d] = sent[d]
    BY <1>1 DEF request
  <2>2. at' \in [Caller -> {"idle", "checked"} \cup InProgress] /\ \A d \in Caller : d # c => at'[d] = at[d]
    BY <1>1, Zenon DEF request
  <2>3. Asked'
    BY <2>1, <2>2, Zenon
  <2>4. UNCHANGED <<pending, dead, stop, sock, reader, frame, closing, inbox, outbox, peer, events>>
    BY <1>1, Zenon DEF request
  <2>5. done' \in [Caller -> BOOLEAN] /\ response' \in [Caller -> Frame \cup {None}]
        /\ result' \in [Caller -> Frame \cup {None}]
    BY <1>1, Zenon DEF request
  <2>6. QED
    BY <2>1, <2>2, <2>3, <2>4, <2>5, ZenonT(60)
<1>2. CASE refused(c)
  BY <1>2 DEF refused
<1>3. CASE registered(c)
  BY <1>3 DEF registered
<1>4. CASE write_check(c)
  BY <1>4 DEF write_check
<1>5. CASE write(c)
  <2>1. <<c, sent[c]>> \in Call
    <3>1. sent[c] \in Nat /\ MaxRequests[c] \in Nat /\ sent[c] <= MaxRequests[c] /\ sent[c] > 0
      BY <1>5, Zenon DEF write
    <3>2. sent[c] \in 1 .. MaxRequests[c]
      BY <3>1
    <3>3. <<c, sent[c]>> \in {c} \X (1 .. MaxRequests[c])
      BY <3>2, Zenon
    <3>4. QED
      BY <3>3, Zenon DEF Call
  <2>2. outbox' \subseteq Call
    <3>1. outbox' = outbox \/ outbox' = outbox \cup {<<c, sent[c]>>}
      BY <1>5, Zenon DEF write
    <3>2. QED
      BY <2>1, <3>1, Zenon
  <2>3. at' \in [Caller -> {"idle", "checked"} \cup InProgress] /\ Asked'
    BY <1>5, Zenon DEF write
  <2>4. UNCHANGED <<sent, pending, done, response, result, ends, inbox, peer, events>>
    BY <1>5, Zenon DEF write
  <2>5. QED
    BY <2>2, <2>3, <2>4, ZenonT(60)
<1>6. CASE unsent(c)
  BY <1>6 DEF unsent
<1>7. CASE woken(c)
  BY <1>7 DEF woken
<1>8. QED
  BY <1>1, <1>2, <1>3, <1>4, <1>5, <1>6, <1>7, Zenon DEF caller_step

LEMMA TypeReader ==
    ASSUME TypeInv, reader_step
    PROVE  TypeInv'
<1> USE DEF TypeInv, TypeOK, Asked, calls, wire
<1>1. CASE recv_frame
  BY <1>1, NoneAssumption, SeqHeadTail DEF recv_frame
<1>2. CASE read_loop_ends
  BY <1>2, SeqEmpty, Zenon DEF read_loop_ends
<1>3. CASE match
  BY <1>3, Zenon DEF match
<1>4. CASE on_unsolicited
  BY <1>4, Zenon DEF on_unsolicited
<1>5. CASE set_dead
  BY <1>5, Zenon DEF set_dead
<1>6. CASE reader_resolves
  BY <1>6, Zenon DEF reader_resolves, resolve_pending
<1>7. QED
  BY <1>1, <1>2, <1>3, <1>4, <1>5, <1>6, Zenon DEF reader_step

LEMMA TypeOther ==
    ASSUME TypeInv,
           shutdown \/ shutdown_step \/ peer_answers \/ peer_sends \/ peer_closes \/ UNCHANGED vars
    PROVE  TypeInv'
<1> USE DEF TypeInv, TypeOK, Asked, calls, ends, wire
<1>1. CASE shutdown
  BY <1>1, SeqEmpty, Zenon DEF shutdown
<1>2. CASE shutdown_resolves
  BY <1>2, Zenon DEF shutdown_resolves, resolve_pending
<1>3. CASE join
  BY <1>3, Zenon DEF join
<1>4. CASE peer_answers
  <2>1. PICK q \in outbox :
          /\ outbox' = outbox \ {q}
          /\ inbox' = Append(inbox, [msg_id |-> IdOf[q[1]], plen |-> AnswerLength, tag |-> q])
    BY <1>4, Zenon DEF peer_answers
  <2>2. [msg_id |-> IdOf[q[1]], plen |-> AnswerLength, tag |-> q] \in Frame
    BY ConnAssumption DEF Frame, Call
  <2>3. inbox' \in Seq(Frame)
    BY Zenon, <2>1, <2>2, SeqAppend
  <2>4. QED
    BY <1>4, <2>1, <2>3, Zenon DEF peer_answers
<1>5. CASE peer_sends
  <2>1. PICK i \in MsgId, n \in Payload :
          inbox' = Append(inbox, [msg_id |-> i, plen |-> n, tag |-> None])
    BY <1>5, Zenon DEF peer_sends
  <2>2. [msg_id |-> i, plen |-> n, tag |-> None] \in Frame
    BY Zenon DEF Frame
  <2>3. inbox' \in Seq(Frame)
    BY Zenon, <2>1, <2>2, SeqAppend
  <2>4. events' \in 0 .. MaxEvents
    BY <1>5, ConnAssumption DEF peer_sends
  <2>5. QED
    BY <1>5, <2>3, <2>4 DEF peer_sends
<1>6. CASE peer_closes
  BY <1>6, Zenon DEF peer_closes
<1>7. CASE UNCHANGED vars
  BY <1>7 DEF vars
<1>8. QED
  BY <1>1, <1>2, <1>3, <1>4, <1>5, <1>6, <1>7, Zenon DEF shutdown_step

LEMMA TypeNext == TypeInv /\ [Next]_vars => TypeInv'
BY TypeCaller, TypeReader, TypeOther, Zenon DEF Next, at_rest

LEMMA TypeInvariant == Spec => []TypeInv
BY TypeInit, TypeNext, PTL DEF Spec

(* The state of the connection keeps its type. *)
THEOREM ConnTyped == Spec => []TypeOK
<1>1. TypeInv => TypeOK
  BY Zenon DEF TypeInv
<1>2. QED
  BY <1>1, TypeInvariant, PTL

-----------------------------------------------------------------------------
(* Whose entry is in the map.                                              *)

Occupied == {i \in MsgId : pending[i] # None}

EntryInv ==
    /\ \A i \in MsgId : pending[i] # None => at[pending[i]] \in InProgress /\ IdOf[pending[i]] = i
    /\ IsFiniteSet(Occupied) /\ Cardinality(Occupied) <= kMaxPending

LEMMA EntryCaller ==
    ASSUME TypeInv, EntryInv, NEW c \in Caller, caller_step(c)
    PROVE  /\ \A i \in MsgId :
                 pending'[i] # None => at'[pending'[i]] \in InProgress /\ IdOf[pending'[i]] = i
           /\ registered(c) \/ Occupied' \subseteq Occupied
<1> USE ConnAssumption DEF TypeInv, TypeOK, EntryInv, InProgress, Occupied
<1>1. CASE request(c)
  BY <1>1, Zenon DEF request
<1>2. CASE refused(c)
  BY <1>2, Zenon DEF refused
<1>3. CASE registered(c)
  BY <1>3 DEF registered
<1>4. CASE write_check(c)
  BY <1>4, Zenon DEF write_check
<1>5. CASE write(c)
  <2>1. pending' = pending
    BY <1>5, Zenon DEF write
  <2>2. \A d \in Caller : at[d] \in InProgress => at'[d] \in InProgress
    <3>1. at' = [at EXCEPT ![c] = "waiting"] \/ at' = [at EXCEPT ![c] = "unsent"]
      BY <1>5, Zenon DEF write
    <3>2. QED
      BY <3>1
  <2>3. ASSUME NEW i \in MsgId, pending'[i] # None
        PROVE  at'[pending'[i]] \in InProgress /\ IdOf[pending'[i]] = i
    <3>1. /\ pending[i] \in Caller /\ pending'[i] = pending[i]
          /\ at[pending[i]] \in InProgress /\ IdOf[pending[i]] = i
      BY <2>1, <2>3, Zenon
    <3>2. QED
      BY <2>2, <3>1, Zenon
  <2>4. Occupied' = Occupied
    BY <2>1, Zenon
  <2>5. QED
    BY <2>3, <2>4, Zenon
<1>6. CASE unsent(c)
  BY <1>6, Zenon DEF unsent
<1>7. CASE woken(c)
  BY <1>7, Zenon DEF woken
<1>8. QED
  BY <1>1, <1>2, <1>3, <1>4, <1>5, <1>6, <1>7, Zenon DEF caller_step

(* Everybody else leaves the entries alone or removes all of them. *)
LEMMA EntryOther ==
    ASSUME reader_step \/ shutdown \/ shutdown_step \/ peer_answers \/ peer_sends \/ peer_closes
           \/ UNCHANGED vars
    PROVE  at' = at /\ (pending' = pending \/ pending' = [i \in MsgId |-> None])
<1>1. CASE reader_step
  BY <1>1, Zenon DEF reader_step, recv_frame, read_loop_ends, match, on_unsolicited, set_dead,
              reader_resolves, resolve_pending, calls
<1>2. CASE shutdown \/ shutdown_step
  BY <1>2, Zenon DEF shutdown, shutdown_step, shutdown_resolves, join, resolve_pending, calls
<1>3. CASE peer_answers \/ peer_sends \/ peer_closes \/ UNCHANGED vars
  BY <1>3, Zenon DEF peer_answers, peer_sends, peer_closes, vars, calls
<1>4. QED
  BY Zenon, <1>1, <1>2, <1>3

LEMMA EntryNext ==
    ASSUME TypeInv, EntryInv, [Next]_vars
    PROVE  EntryInv'
<1>1. ASSUME Occupied' \subseteq Occupied
      PROVE  IsFiniteSet(Occupied') /\ Cardinality(Occupied') <= kMaxPending
  <2>1. IsFiniteSet(Occupied') /\ Cardinality(Occupied') <= Cardinality(Occupied)
    BY <1>1, FS_Subset, Zenon DEF EntryInv
  <2>2. Cardinality(Occupied') \in Nat /\ Cardinality(Occupied) \in Nat
    BY <2>1, FS_CardinalityType, Zenon DEF EntryInv
  <2>3. QED
    BY <2>1, <2>2, ConnAssumption DEF EntryInv
<1>2. ASSUME NEW c \in Caller, registered(c)
      PROVE  IsFiniteSet(Occupied') /\ Cardinality(Occupied') <= kMaxPending
  <2>1. Occupied' = Occupied \cup {IdOf[c]}
    <3>1. IdOf[c] \in MsgId /\ c # None
      BY Zenon, ConnAssumption
    <3>2. pending'[IdOf[c]] = c /\ \A i \in MsgId : i # IdOf[c] => pending'[i] = pending[i]
      BY <1>2, <3>1, Zenon DEF registered, TypeInv, TypeOK
    <3>3. QED
      BY <3>1, <3>2, Zenon DEF Occupied
  <2>2. Cardinality(Occupied) < kMaxPending
    BY <1>2, Zenon DEF registered, Size, Occupied
  <2>3. /\ IsFiniteSet(Occupied')
        /\ \/ Cardinality(Occupied') = Cardinality(Occupied)
           \/ Cardinality(Occupied') = Cardinality(Occupied) + 1
    BY <2>1, FS_AddElement, Zenon DEF EntryInv
  <2>4. Cardinality(Occupied) \in Nat
    BY FS_CardinalityType, Zenon DEF EntryInv
  <2>5. QED
    BY <2>2, <2>3, <2>4, ConnAssumption
<1>3. ASSUME NEW c \in Caller, caller_step(c) PROVE EntryInv'
  BY <1>1, <1>2, <1>3, EntryCaller, Zenon DEF EntryInv
<1>4. ASSUME at' = at, pending' = pending \/ pending' = [i \in MsgId |-> None] PROVE EntryInv'
  <2>1. Occupied' \subseteq Occupied
    BY <1>4, Zenon DEF Occupied
  <2>2. QED
    BY <1>1, <1>4, <2>1, Zenon DEF EntryInv
<1>5. QED
  BY <1>3, <1>4, EntryOther, Zenon DEF Next, at_rest

LEMMA EntryInit == Init => EntryInv
<1> SUFFICES ASSUME Init PROVE EntryInv
  BY Zenon
<1>1. Occupied = {}
  BY Zenon DEF Init, Occupied
<1>2. Cardinality(Occupied) <= kMaxPending
  BY <1>1, FS_EmptySet, ConnAssumption
<1>3. QED
  BY <1>1, <1>2, FS_EmptySet, Zenon DEF Init, EntryInv

(* The capacity of the map is for requests in progress only, whatever ids  *)
(* the callers use: every way a request ends, and every way the connection *)
(* ends, erases its entry.                                                 *)
THEOREM PendingInProgress == Spec => []PendingIsInProgress
<1>1. TypeInv /\ EntryInv /\ [Next]_vars => EntryInv'
  BY Zenon, EntryNext
<1>2. EntryInv => PendingIsInProgress
  BY Zenon DEF EntryInv, PendingIsInProgress, Size, Occupied
<1>3. QED
  BY <1>1, <1>2, EntryInit, TypeInvariant, PTL DEF Spec

-----------------------------------------------------------------------------
(* Which answers are on their way.                                         *)

(* The caller of the request q waits for its answer. *)
Awaited(q) == at[q[1]] = "waiting" /\ q[2] = sent[q[1]] /\ ~done[q[1]]

(* The caller of q was told that the connection is over, and asks no more. *)
Late(q) == ~sock /\ (at[q[1]] = "idle" \/ (at[q[1]] = "waiting" /\ q[2] = sent[q[1]]))

(* An answer has the id of its caller, another frame the id of nobody. *)
Addressed(f) ==
    /\ f.tag # None => f.msg_id = IdOf[f.tag[1]]
    /\ f.tag = None => \A c \in Caller : IdOf[c] # f.msg_id

(* Nothing is on its way to an end that does not read.  *)
Quiet == ~sock \/ reader \in {"leaving", "dead", "ended"} => inbox = <<>> /\ outbox = {}

(* Each request is answered once: one of the peer, the wire and the reader *)
(* has its answer, and its caller still waits.                             *)
Flight ==
    /\ \A q \in outbox : Awaited(q)
    /\ \A i \in DOMAIN inbox :
          /\ Addressed(inbox[i])
          /\ inbox[i].tag # None => Awaited(inbox[i].tag) /\ inbox[i].tag \notin outbox
    /\ \A i, j \in DOMAIN inbox : inbox[i].tag # None /\ inbox[i].tag = inbox[j].tag => i = j

Held ==
    /\ reader # "match" => frame = None
    /\ frame # None =>
          /\ Addressed(frame)
          /\ frame.tag # None =>
                /\ Awaited(frame.tag) \/ Late(frame.tag)
                /\ frame.tag \notin outbox
                /\ \A i \in DOMAIN inbox : inbox[i].tag # frame.tag

(* What a caller has in its Pending. *)
Own ==
    \A c \in Caller :
        /\ response[c] # None => at[c] = "waiting" /\ response[c].tag = <<c, sent[c]>>
        /\ sock /\ reader # "ended" /\ done[c] => at[c] = "waiting"

CorrelationInv == Quiet /\ Flight /\ Held /\ Own /\ AnsweredByItsOwnReply

CorrelationAll == TypeInv /\ EntryInv /\ Announced /\ CorrelationInv

LEMMA CallPairs ==
    ASSUME NEW q \in Call
    PROVE  q[1] \in Caller /\ q = <<q[1], q[2]>> /\ q # None
<1>1. PICK c \in Caller : q \in {c} \X (1 .. MaxRequests[c])
  BY Zenon DEF Call
<1>2. QED
  BY <1>1, NoneAssumption

(* The frames on the wire are typed. *)
LEMMA FramesTyped ==
    ASSUME TypeInv
    PROVE  /\ \A i \in DOMAIN inbox : inbox[i] \in Frame /\ inbox[i].tag \in Call \cup {None}
           /\ frame # None => frame.msg_id \in MsgId /\ frame.tag \in Call \cup {None}
           /\ outbox \subseteq Call
<1>1. \A f \in Frame : f.msg_id \in MsgId /\ f.tag \in Call \cup {None}
  BY Zenon DEF Frame
<1>2. \A i \in DOMAIN inbox : inbox[i] \in Frame
  BY DEF TypeInv, TypeOK
<1>3. QED
  BY <1>1, <1>2, Zenon DEF TypeInv, TypeOK

(* Answers stay on their way while their callers go on waiting for them. *)
LEMMA FlightKept ==
    ASSUME TypeInv, Flight, UNCHANGED <<inbox, outbox>>,
           \A q \in Call : Awaited(q) => Awaited(q)'
    PROVE  Flight'
BY FramesTyped, Zenon DEF Flight, Addressed

LEMMA HeldKept ==
    ASSUME TypeInv, Held, UNCHANGED <<inbox, outbox, frame, reader>>,
           \A q \in Call : Awaited(q) \/ Late(q) => Awaited(q)' \/ Late(q)'
    PROVE  Held'
BY FramesTyped, Zenon DEF Held, Addressed

(* A caller that does not wait has no answer on its way. *)
LEMMA CallerKeeps ==
    ASSUME TypeInv, NEW c \in Caller,
           \A d \in Caller \ {c} : at'[d] = at[d] /\ sent'[d] = sent[d] /\ done'[d] = done[d],
           sock' = sock,
           \/ at[c] \notin {"idle", "waiting"}
           \/ at[c] = "idle" /\ (sock \/ at'[c] = "idle")
           \/ at[c] = "waiting" /\ done[c] /\ at'[c] = "idle"
    PROVE  /\ \A q \in Call : Awaited(q) => Awaited(q)'
           /\ \A q \in Call : Awaited(q) \/ Late(q) => Awaited(q)' \/ Late(q)'
BY CallPairs, Zenon DEF Awaited, Late

LEMMA CorrelationCaller ==
    ASSUME DistinctIds, CorrelationAll, NEW c \in Caller, caller_step(c)
    PROVE  CorrelationInv'
<1> USE DEF CorrelationAll, CorrelationInv, ends, wire
<1>t. /\ at \in [Caller -> {"idle", "checked"} \cup InProgress] /\ sent \in [Caller -> Nat]
      /\ done \in [Caller -> BOOLEAN] /\ response \in [Caller -> Frame \cup {None}]
      /\ result \in [Caller -> Frame \cup {None}]
  BY Zenon DEF TypeInv, TypeOK
<1>q. ASSUME UNCHANGED <<inbox, outbox, sock, reader>> PROVE Quiet'
  BY <1>q, Zenon DEF Quiet
<1>k. ASSUME UNCHANGED <<inbox, outbox, frame, reader, sock>>,
             \A d \in Caller \ {c} : at'[d] = at[d] /\ sent'[d] = sent[d] /\ done'[d] = done[d],
             \/ at[c] \notin {"idle", "waiting"}
             \/ at[c] = "idle" /\ (sock \/ at'[c] = "idle")
             \/ at[c] = "waiting" /\ done[c] /\ at'[c] = "idle"
      PROVE  Quiet' /\ Flight' /\ Held'
  BY Zenon, <1>k, <1>q, CallerKeeps, FlightKept, HeldKept
<1>1. CASE request(c)
  <2>1. Quiet' /\ Flight' /\ Held'
    BY <1>1, <1>k, <1>t, Zenon DEF request
  <2>2. Own' /\ AnsweredByItsOwnReply'
    BY <1>1, <1>t, Zenon DEF request, Own, AnsweredByItsOwnReply
  <2>3. QED
    BY Zenon, <2>1, <2>2
<1>2. CASE refused(c)
  <2>1. Quiet' /\ Flight' /\ Held'
    BY <1>2, <1>k, <1>t, Zenon DEF refused
  <2>2. Own' /\ AnsweredByItsOwnReply'
    BY <1>2, <1>t, Zenon DEF refused, Own, AnsweredByItsOwnReply
  <2>3. QED
    BY Zenon, <2>1, <2>2
<1>3. CASE registered(c)
  <2>1. Quiet' /\ Flight' /\ Held'
    BY <1>3, <1>k, <1>t, Zenon DEF registered
  <2>2. Own' /\ AnsweredByItsOwnReply'
    BY <1>3, <1>t, Zenon DEF registered, Own, AnsweredByItsOwnReply
  <2>3. QED
    BY Zenon, <2>1, <2>2
<1>4. CASE write_check(c)
  <2>1. Quiet' /\ Flight' /\ Held'
    BY <1>4, <1>k, <1>t, Zenon DEF write_check
  <2>2. Own' /\ AnsweredByItsOwnReply'
    BY <1>4, <1>t, Zenon DEF write_check, Own, AnsweredByItsOwnReply
  <2>3. QED
    BY Zenon, <2>1, <2>2
<1>5. CASE write(c)
  <2>1. Own' /\ AnsweredByItsOwnReply'
    BY <1>5, <1>t, Zenon DEF write, Own, AnsweredByItsOwnReply
  <2>2. CASE outbox' = outbox
    <3>1. Quiet' /\ Flight' /\ Held'
      BY <1>5, <1>k, <1>t, <2>2, Zenon DEF write
    <3>2. QED
      BY Zenon, <2>1, <3>1
  <2>3. CASE heard /\ outbox' = outbox \cup {<<c, sent[c]>>} /\ at' = [at EXCEPT ![c] = "waiting"]
    <3>1. /\ at[c] = "writing" /\ at'[c] = "waiting" /\ ~done[c] /\ sock
          /\ UNCHANGED <<sent, done, sock, reader, frame, inbox>>
      BY <1>5, <1>t, <2>3, Zenon DEF write, Own, heard
    <3>2. /\ \A q \in Call : Awaited(q) => Awaited(q)'
          /\ \A q \in Call : Awaited(q) \/ Late(q) => Awaited(q)' /\ q # <<c, sent[c]>>
      BY <1>t, <2>3, <3>1, CallPairs DEF Awaited, Late
    <3>3. Awaited(<<c, sent[c]>>)'
      BY <1>t, <3>1, Zenon DEF Awaited
    <3>4. Quiet'
      BY <2>3, <3>1, Zenon DEF Quiet, heard
    <3>5. Flight'
      BY <2>3, <3>1, <3>2, <3>3, FramesTyped, Zenon DEF Flight, Addressed
    <3>6. Held'
      BY <2>3, <3>1, <3>2, FramesTyped, Zenon DEF Held, Addressed
    <3>7. QED
      BY Zenon, <2>1, <3>4, <3>5, <3>6
  <2>4. QED
    BY <1>5, <2>2, <2>3, Zenon DEF write
<1>6. CASE unsent(c)
  <2>1. \A d \in Caller \ {c} : at'[d] = at[d] /\ sent'[d] = sent[d] /\ done'[d] = done[d]
    BY <1>6, <1>t, ConnAssumption DEF unsent, EntryInv, DistinctIds
  <2>2. Quiet' /\ Flight' /\ Held'
    BY <1>6, <1>k, <2>1, Zenon DEF unsent
  <2>3. Own' /\ AnsweredByItsOwnReply'
    BY <1>6, <1>t, <2>1 DEF unsent, Own, AnsweredByItsOwnReply
  <2>4. QED
    BY Zenon, <2>2, <2>3
<1>7. CASE woken(c)
  <2>1. Quiet' /\ Flight' /\ Held'
    BY <1>7, <1>k, <1>t, Zenon DEF woken
  <2>2. Own' /\ AnsweredByItsOwnReply'
    BY <1>7, <1>t, Zenon DEF woken, Own, AnsweredByItsOwnReply
  <2>3. QED
    BY Zenon, <2>1, <2>2
<1>8. QED
  BY <1>1, <1>2, <1>3, <1>4, <1>5, <1>6, <1>7, Zenon DEF caller_step

(* The reader hands an answer to the caller that waits for it. *)
LEMMA MatchOwn ==
    ASSUME DistinctIds, CorrelationAll, frame # None, NEW c \in Caller,
           pending[frame.msg_id] = c
    PROVE  at[c] = "waiting" /\ frame.tag = <<c, sent[c]>>
<1>1. frame.msg_id \in MsgId /\ frame.tag \in Call \cup {None}
  BY FramesTyped, Zenon DEF CorrelationAll
<1>2. at[c] \in InProgress /\ IdOf[c] = frame.msg_id
  BY <1>1, ConnAssumption, Zenon DEF CorrelationAll, EntryInv
<1>3. frame.tag # None /\ frame.msg_id = IdOf[frame.tag[1]]
  BY <1>2, Zenon DEF CorrelationAll, CorrelationInv, Held, Addressed
<1>4. /\ frame.tag[1] \in Caller /\ frame.tag = <<frame.tag[1], frame.tag[2]>>
  BY Zenon, <1>1, <1>3, CallPairs
<1>5. frame.tag[1] = c
  BY <1>2, <1>3, <1>4, Zenon DEF DistinctIds
<1>6. Awaited(frame.tag) \/ Late(frame.tag)
  BY <1>3, Zenon DEF CorrelationAll, CorrelationInv, Held
<1>7. QED
  BY <1>2, <1>4, <1>5, <1>6, Zenon DEF Awaited, Late, InProgress

LEMMA CorrelationReader ==
    ASSUME DistinctIds, CorrelationAll, reader_step
    PROVE  CorrelationInv'
<1> USE DEF CorrelationAll, CorrelationInv, calls, wire
<1>t. /\ at \in [Caller -> {"idle", "checked"} \cup InProgress] /\ sent \in [Caller -> Nat]
      /\ done \in [Caller -> BOOLEAN] /\ response \in [Caller -> Frame \cup {None}]
      /\ inbox \in Seq(Frame)
  BY Zenon DEF TypeInv, TypeOK
<1>a. ASSUME UNCHANGED <<at, sent, done, sock>>
      PROVE  \A q : (Awaited(q)' <=> Awaited(q)) /\ (Late(q)' <=> Late(q))
  BY <1>a, Zenon DEF Awaited, Late
<1>1. CASE recv_frame
  <2>1. /\ reader = "recv" /\ sock /\ inbox # <<>> /\ reader' = "match"
        /\ frame' = inbox[1] /\ inbox' = Tail(inbox)
        /\ UNCHANGED <<at, sent, done, response, result, outbox, sock>>
    BY <1>1 DEF recv_frame
  <2>2. 1 \in DOMAIN inbox /\ \A i \in DOMAIN inbox' : i + 1 \in DOMAIN inbox /\ i + 1 # 1 /\ inbox'[i] = inbox[i + 1]
    BY <1>t, <2>1, SeqHeadTail, SeqLen, SeqEmpty
  <2>3. Quiet' /\ Own' /\ AnsweredByItsOwnReply'
    BY <2>1, Zenon DEF Quiet, Own, AnsweredByItsOwnReply
  <2>4. Flight'
    <3>1. \A i, j \in DOMAIN inbox' : i + 1 = j + 1 => i = j
      BY <1>t, <2>1, SeqHeadTail, SeqLen
    <3>2. \A q \in outbox' : Awaited(q)'
      BY <1>a, <2>1, Zenon DEF Flight
    <3>3. ASSUME NEW i \in DOMAIN inbox'
          PROVE  /\ Addressed(inbox'[i])
                 /\ inbox'[i].tag # None => Awaited(inbox[i].tag)' /\ inbox'[i].tag \notin outbox'
      BY <1>a, <2>1, <2>2, Zenon DEF Flight
    <3>4. \A i, j \in DOMAIN inbox' : inbox'[i].tag # None /\ inbox'[i].tag = inbox'[j].tag => i = j
      BY <2>2, <3>1 DEF Flight
    <3>5. QED
      BY <3>2, <3>3, <3>4, Zenon DEF Flight, Addressed
  <2>5. Held'
    BY <1>a, <2>1, <2>2, Zenon DEF Flight, Held, Addressed
  <2>6. QED
    BY Zenon, <2>3, <2>4, <2>5
<1>2. CASE read_loop_ends
  <2>1. /\ inbox' = <<>> /\ outbox' = {} /\ frame' = None
        /\ UNCHANGED <<at, sent, done, response, result, sock>>
        /\ reader = "recv" /\ reader' = "leaving"
    BY <1>2, Zenon DEF read_loop_ends, Held
  <2>2. DOMAIN inbox' = {}
    BY <2>1
  <2>3. Quiet' /\ Flight' /\ Held'
    BY <2>1, <2>2, Zenon DEF Quiet, Flight, Held
  <2>4. Own' /\ AnsweredByItsOwnReply'
    BY <2>1, Zenon DEF Own, AnsweredByItsOwnReply
  <2>5. QED
    BY Zenon, <2>3, <2>4
<1>3. CASE match
  <2>1. /\ reader = "match" /\ reader' \in {"recv", "handler"} /\ frame # None /\ frame' = None
        /\ UNCHANGED <<at, sent, result, inbox, outbox, sock>>
    BY <1>3, Zenon DEF match, TypeInv, TypeOK
  <2>2. Quiet' /\ Held' /\ AnsweredByItsOwnReply'
    BY <2>1, Zenon DEF Quiet, Held, AnsweredByItsOwnReply
  <2>3. CASE pending[frame.msg_id] = None
    <3>1. UNCHANGED <<response, done>>
      BY <1>3, <2>3, Zenon DEF match
    <3>2. Own'
      BY <2>1, <3>1, Zenon DEF Own
    <3>3. Flight'
      BY <1>a, <2>1, <3>1, FlightKept, Zenon
    <3>4. QED
      BY Zenon, <2>2, <3>2, <3>3
  <2>4. CASE pending[frame.msg_id] # None
    <3> DEFINE c == pending[frame.msg_id]
    <3>1. c \in Caller /\ response' = [response EXCEPT ![c] = frame] /\ done' = [done EXCEPT ![c] = TRUE]
      BY <1>3, <2>1, <2>4, FramesTyped, Zenon DEF match, TypeInv, TypeOK
    <3> HIDE DEF c
    <3>2. at[c] = "waiting" /\ frame.tag = <<c, sent[c]>>
      BY <2>1, <3>1, MatchOwn, Zenon DEF c
    <3>3. frame.tag # None
      <4>1. frame.tag \in Call \/ frame.tag = None
        BY <2>1, FramesTyped, Zenon
      <4>2. ASSUME frame.tag = None PROVE FALSE
        <5>1. frame.msg_id \in MsgId
          BY Zenon, <2>1, FramesTyped
        <5>2. \A d \in Caller : IdOf[d] # frame.msg_id
          BY <2>1, <4>2, Zenon DEF Held, Addressed
        <5>3. QED
          BY <2>4, <3>1, <5>1, <5>2, Zenon DEF EntryInv, c
      <4>3. QED
        BY Zenon, <4>2
    <3>4. Own'
      BY <1>t, <2>1, <3>1, <3>2, Zenon DEF Own
    <3>5. \A q \in Call : Awaited(q) /\ q # frame.tag => Awaited(q)'
      BY <1>t, <2>1, <3>1, <3>2, CallPairs DEF Awaited
    <3>6. Flight'
      BY <2>1, <3>3, <3>5, FramesTyped, Zenon DEF Flight, Held, Addressed
    <3>7. QED
      BY Zenon, <2>2, <3>4, <3>6
  <2>5. QED
    BY Zenon, <2>3, <2>4
<1>4. CASE on_unsolicited \/ set_dead
  <2>1. /\ UNCHANGED <<at, sent, done, response, result, inbox, outbox, sock, frame>>
        /\ \/ reader = "handler" /\ reader' = "recv"
           \/ reader = "leaving" /\ reader' = "dead"
    BY <1>4, Zenon DEF on_unsolicited, set_dead
  <2>2. Flight' /\ Held'
    BY <1>a, <2>1, Zenon DEF Flight, Held, Addressed
  <2>3. Quiet' /\ Own' /\ AnsweredByItsOwnReply'
    BY <2>1, Zenon DEF Quiet, Own, AnsweredByItsOwnReply
  <2>4. QED
    BY Zenon, <2>2, <2>3
<1>5. CASE reader_resolves
  <2>1. /\ inbox' = <<>> /\ outbox' = {} /\ frame' = None
        /\ UNCHANGED <<at, sent, result, sock>>
        /\ reader' = "ended"
        /\ \A c \in Caller : response'[c] \in {None, response[c]}
    BY <1>5, Zenon DEF reader_resolves, resolve_pending, Quiet, Held
  <2>2. DOMAIN inbox' = {}
    BY <2>1
  <2>3. Quiet' /\ Flight' /\ Held'
    BY <2>1, <2>2, Zenon DEF Quiet, Flight, Held
  <2>4. Own' /\ AnsweredByItsOwnReply'
    BY <2>1, Zenon DEF Own, AnsweredByItsOwnReply
  <2>5. QED
    BY Zenon, <2>3, <2>4
<1>6. QED
  BY <1>1, <1>2, <1>3, <1>4, <1>5, Zenon DEF reader_step

LEMMA CorrelationShutdown ==
    ASSUME CorrelationAll, shutdown \/ shutdown_step
    PROVE  CorrelationInv'
<1> USE DEF CorrelationAll, CorrelationInv, calls, wire
<1>1. CASE shutdown
  <2>1. /\ inbox' = <<>> /\ outbox' = {} /\ ~sock'
        /\ UNCHANGED <<at, sent, done, response, result, frame, reader>>
    BY <1>1, Zenon DEF shutdown
  <2>2. DOMAIN inbox' = {}
    BY <2>1
  <2>3. Quiet' /\ Flight' /\ Own' /\ AnsweredByItsOwnReply'
    BY <2>1, <2>2, Zenon DEF Quiet, Flight, Own, AnsweredByItsOwnReply
  <2>4. \A q : Awaited(q) \/ Late(q) => Awaited(q)' \/ Late(q)'
    BY <2>1, Zenon DEF Awaited, Late
  <2>5. Held'
    BY <2>1, <2>2, <2>4, Zenon DEF Held, Addressed
  <2>6. QED
    BY Zenon, <2>3, <2>5
<1>2. CASE shutdown_resolves
  <2>1. /\ inbox' = <<>> /\ outbox' = {} /\ inbox = <<>> /\ outbox = {} /\ ~sock /\ ~sock'
        /\ UNCHANGED <<at, sent, result, frame, reader>>
        /\ \A c \in Caller : response'[c] \in {None, response[c]}
    BY <1>2, Zenon DEF shutdown_resolves, resolve_pending, Quiet, Announced
  <2>2. DOMAIN inbox' = {}
    BY <2>1
  <2>3. Quiet' /\ Flight' /\ Own' /\ AnsweredByItsOwnReply'
    BY <2>1, <2>2, Zenon DEF Quiet, Flight, Own, AnsweredByItsOwnReply
  <2>4. \A q : Awaited(q) \/ Late(q) => Awaited(q)' \/ Late(q)'
    BY <2>1, Zenon DEF Awaited, Late
  <2>5. Held'
    BY Zenon, <2>1, <2>4, HeldKept
  <2>6. QED
    BY Zenon, <2>3, <2>5
<1>3. CASE join
  <2>1. /\ UNCHANGED <<at, sent, done, response, result, frame, reader, inbox, outbox, sock>>
    BY <1>3, Zenon DEF join
  <2>2. QED
    BY <2>1, Zenon DEF Quiet, Flight, Held, Own, AnsweredByItsOwnReply, Awaited, Late, Addressed
<1>4. QED
  BY <1>1, <1>2, <1>3, Zenon DEF shutdown_step

LEMMA CorrelationPeer ==
    ASSUME CorrelationAll, peer_answers \/ peer_sends \/ peer_closes \/ UNCHANGED vars
    PROVE  CorrelationInv'
<1> USE DEF CorrelationAll, CorrelationInv
<1>1. /\ UNCHANGED <<at, sent, done, response, result, sock, frame, reader>>
      /\ inbox \in Seq(Frame)
  BY Zenon DEF peer_answers, peer_sends, peer_closes, vars, calls, ends, TypeInv, TypeOK
<1>2. \A q : (Awaited(q)' <=> Awaited(q)) /\ (Late(q)' <=> Late(q))
  BY <1>1, Zenon DEF Awaited, Late
<1>3. Own' /\ AnsweredByItsOwnReply'
  BY <1>1, Zenon DEF Own, AnsweredByItsOwnReply
<1>4. ASSUME NEW f \in Frame, inbox' = Append(inbox, f), Addressed(f), outbox' \subseteq outbox,
             f.tag # None =>
                /\ f.tag \in outbox /\ f.tag \notin outbox'
      PROVE  Flight' /\ Held'
  <2> DEFINE n == Len(inbox) + 1
  <2>1. /\ n \notin DOMAIN inbox /\ DOMAIN inbox' = DOMAIN inbox \cup {n}
        /\ inbox'[n] = f /\ \A i \in DOMAIN inbox : inbox'[i] = inbox[i]
    BY <1>1, <1>4, SeqAppend, SeqLen
  <2> HIDE DEF n
  <2>2. \A q \in outbox' : Awaited(q)'
    BY <1>2, <1>4, Zenon DEF Flight
  <2>3. ASSUME NEW i \in DOMAIN inbox'
        PROVE  /\ Addressed(inbox'[i])
               /\ inbox'[i].tag # None => Awaited(inbox[i].tag)' /\ inbox'[i].tag \notin outbox'
    BY <1>2, <1>4, <2>1, Zenon DEF Flight
  <2>4. \A i \in DOMAIN inbox : inbox[i].tag # None => inbox[i].tag # f.tag
    BY <1>4, Zenon DEF Flight
  <2>5. \A i, j \in DOMAIN inbox' : inbox'[i].tag # None /\ inbox'[i].tag = inbox'[j].tag => i = j
    BY <2>1, <2>4, Zenon DEF Flight
  <2>6. Flight'
    BY <2>2, <2>3, <2>5, Zenon DEF Flight, Addressed
  <2>7. Held'
    BY <1>1, <1>2, <1>4, <2>1, Zenon DEF Held, Addressed
  <2>8. QED
    BY Zenon, <2>6, <2>7
<1>5. CASE peer_answers
  <2>1. PICK q \in outbox :
          /\ outbox' = outbox \ {q}
          /\ inbox' = Append(inbox, [msg_id |-> IdOf[q[1]], plen |-> AnswerLength, tag |-> q])
    BY <1>5, Zenon DEF peer_answers
  <2> DEFINE f == [msg_id |-> IdOf[q[1]], plen |-> AnswerLength, tag |-> q]
  <2>2. q \in Call /\ q # None /\ q[1] \in Caller
    BY Zenon, CallPairs, FramesTyped
  <2>3. f \in Frame /\ f.tag = q /\ f.msg_id = IdOf[q[1]]
    BY <2>2, ConnAssumption, Zenon DEF Frame
  <2> HIDE DEF f
  <2>4. Flight' /\ Held'
    BY <1>4, <2>1, <2>2, <2>3, Zenon DEF Addressed, f
  <2>5. Quiet'
    BY <1>1, <2>1, Zenon DEF Quiet
  <2>6. QED
    BY Zenon, <1>3, <2>4, <2>5
<1>6. CASE peer_sends
  <2>1. PICK i \in MsgId, n \in Payload :
          /\ \A c \in Caller : IdOf[c] # i
          /\ inbox' = Append(inbox, [msg_id |-> i, plen |-> n, tag |-> None])
    BY <1>6, Zenon DEF peer_sends
  <2> DEFINE f == [msg_id |-> i, plen |-> n, tag |-> None]
  <2>2. f \in Frame /\ f.tag = None /\ f.msg_id = i
    BY Zenon DEF Frame
  <2> HIDE DEF f
  <2>3. outbox' = outbox
    BY <1>6, Zenon DEF peer_sends
  <2>4. Flight' /\ Held'
    BY <1>4, <2>1, <2>2, <2>3, Zenon DEF Addressed, f
  <2>5. Quiet'
    BY <1>1, <1>6, Zenon DEF Quiet, peer_sends, heard
  <2>6. QED
    BY Zenon, <1>3, <2>4, <2>5
<1>7. CASE peer_closes \/ UNCHANGED vars
  <2>1. inbox' = inbox /\ outbox' \subseteq outbox
    BY <1>7, Zenon DEF peer_closes, vars
  <2>2. Quiet'
    BY <1>1, <2>1, Zenon DEF Quiet
  <2>3. Flight' /\ Held'
    BY <1>1, <1>2, <2>1, Zenon DEF Flight, Held, Addressed
  <2>4. QED
    BY Zenon, <1>3, <2>2, <2>3
<1>8. QED
  BY Zenon, <1>5, <1>6, <1>7

(* Message ids are used again, and answers may arrive while a disconnect is *)
(* being announced: with ids of their own, what request() returns to a      *)
(* caller is the answer to the request it has just made, or a failure.      *)
THEOREM OwnReply == ASSUME DistinctIds PROVE Spec => []AnsweredByItsOwnReply
<1>1. Init => CorrelationAll
  <2>1. Init => Quiet /\ Flight /\ Held /\ Own /\ AnsweredByItsOwnReply /\ Announced
    BY DEF Init, Quiet, Flight, Held, Own, AnsweredByItsOwnReply, Announced
  <2>2. QED
    BY <2>1, TypeInit, EntryInit, Zenon DEF CorrelationAll, CorrelationInv
<1>2. CorrelationAll /\ [Next]_vars => CorrelationInv'
  BY CorrelationCaller, CorrelationReader, CorrelationShutdown, CorrelationPeer, Zenon
  DEF Next, at_rest
<1>3. CorrelationAll /\ [Next]_vars => TypeInv' /\ EntryInv'
  BY TypeNext, EntryNext, Zenon DEF CorrelationAll
<1>4. CorrelationAll /\ [Next]_vars => Announced'
  BY AnnouncedNext, Zenon DEF CorrelationAll
<1>5. CorrelationAll => AnsweredByItsOwnReply
  BY Zenon DEF CorrelationAll, CorrelationInv
<1>6. QED
  BY <1>1, <1>2, <1>3, <1>4, <1>5, PTL DEF Spec, CorrelationAll
===============================================================================
