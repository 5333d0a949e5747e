------------------------------- MODULE Serving --------------------------------
(***************************************************************************)
(* A client's request on its way through the three processes: the handlers *)
(* of coordinator_main.cpp, the gateway's control thread and client        *)
(* threads (gateway_main.cpp) and the worker's control and request threads *)
(* (worker_main.cpp), over real messages, while attempts of                *)
(* EXECUTE_FAILOVER move the slot and processes die.  One service with one *)
(* slot; saves and coordinator restarts are in module Fabric.  A worker    *)
(* process is named by its boot; it listens on a port of its own, so the   *)
(* boot is also its address.                                               *)
(***************************************************************************)
EXTENDS Naturals, Sequences, FiniteSets

CONSTANTS
    Boot,          \* worker processes
    TargetOf,      \* the target of each worker process
    Withholds,     \* workers started with --withhold-activate
    Reconnects,    \* workers started with --reconnect
    Cut,           \* workers that a request tells to close their control socket
    Mortal,        \* workers that may die
    Home,          \* workers that REGISTER may name
    Gateways,      \* boot numbers of the gateway processes, started one after the other
    Client,        \* clients; each has a thread of the gateway for every request it sends
    RequestOf,     \* the request id that each client sends
    Replayable,    \* request ids whose policy allows another dispatch
    Attempt,       \* EXECUTE_FAILOVER handlers that may run at the same time
    MaxSends,      \* bound: how often a client sends its request
    MaxAttempts,   \* bound: calls of EXECUTE_FAILOVER
    None

ASSUME ServingAssumption == None \notin Boot /\ MaxAttempts \in Nat

Target == {TargetOf[b] : b \in Boot}
Request == {RequestOf[c] : c \in Client}

VARIABLES
    worker,     \* per process: life, active, linked (its control connection), readiness (to
                \* be published on it), mute (its next ACK is withheld)
    ctl,        \* per process: control frames on their way to it
    peer,       \* g_workers: the process whose HELLO was the last for the target
    facts,      \* the worker_boot of the target's published readiness
    gateway,    \* the live gateway: its boot, route map and control thread, or None
    pushed,     \* history: a HELLO handler has read a route to push to its gateway
    gates,      \* boots in g_gateways (no entry is ever erased)
    current,    \* the slot's assignment
    table,      \* the slot's entry in the coordinator's route table
    fenced,     \* fenced_boots
    record,     \* RequestTracker: the disposition of each request
    att,        \* per handler: where execute_plan is, and its locals
    calls,      \* calls of EXECUTE_FAILOVER so far
    client,     \* per client: where handle_client is, and its locals
    sends,      \* requests sent so far, per client
    orphan,     \* the AUTHORIZE_REQUEST handlers that run on though their gateway died
    unknown     \* history: requests that AUTHORIZE_RESULT was told were withheld

vars == <<worker, ctl, peer, facts, gateway, gates, pushed, current, table, fenced, record, att,
          calls,
          client, sends, orphan, unknown>>

idle == [step |-> "idle"]

Init ==
    /\ worker = [b \in Boot |-> [life |-> "new", active |-> FALSE, linked |-> FALSE,
                                 readiness |-> FALSE, mute |-> b \in Withholds]]
    /\ ctl = [b \in Boot |-> <<>>]
    /\ peer = [t \in Target |-> None]
    /\ facts = [t \in Target |-> None]
    /\ gateway = None
    /\ gates = {} /\ pushed = FALSE
    /\ current = None /\ table = None /\ fenced = {}
    /\ record = [r \in Request |-> None]
    /\ att = [k \in Attempt |-> idle]
    /\ calls = 0
    /\ client = [c \in Client |-> [at |-> "start"]]
    /\ sends = [c \in Client |-> 1]
    /\ orphan = {} /\ unknown = {}

(* An address is reachable over the control connection of its process. *)
reachable(b) == b # None /\ worker[b].linked

-----------------------------------------------------------------------------
(* Worker process                                                          *)

(* A connection begins with two frames, handled one after the other: HELLO   *)
(* and PUBLISH_READINESS.  With --reconnect a process that lives connects    *)
(* again when its connection broke, and keeps being active.                  *)
connect(b) ==
    /\ ~worker[b].linked
    /\ worker[b].life = "new" \/ (worker[b].life = "up" /\ b \in Reconnects)
    /\ worker' = [worker EXCEPT ![b].life = "up", ![b].linked = TRUE, ![b].readiness = TRUE]

hello(b) ==
    /\ connect(b)
    /\ peer' = [peer EXCEPT ![TargetOf[b]] = b]
    /\ UNCHANGED <<ctl, facts, gateway, gates, pushed, current, table, fenced, record, att,
                   calls, client, sends, unknown, orphan>>

send_registration(b) ==
    /\ worker[b].linked /\ worker[b].readiness
    /\ worker' = [worker EXCEPT ![b].readiness = FALSE]

publish_readiness(b) ==
    /\ send_registration(b)
    /\ facts' = [facts EXCEPT ![TargetOf[b]] = b]
    /\ UNCHANGED <<ctl, peer, gateway, gates, pushed, current, table, fenced, record, att, calls,
                   client, sends, unknown, orphan>>

answered(k, ok) == [att EXCEPT ![k].reply = ok]

ctrl_loop(b) ==
    /\ worker[b].linked /\ ctl[b] # <<>>
    /\ ctl' = [ctl EXCEPT ![b] = Tail(@)]
    /\ LET f == Head(ctl[b])
       IN  IF f.type = "FENCE_ASSIGNMENT"
           THEN worker' = [worker EXCEPT ![b].active = FALSE] /\ UNCHANGED att
           ELSE /\ worker' = [worker EXCEPT ![b].active = TRUE, ![b].mute = FALSE]
                /\ att' = IF worker[b].mute THEN att ELSE answered(f.from, TRUE)
    /\ UNCHANGED <<peer, facts, gateway, gates, pushed, current, table, fenced, record, calls,
                   client, sends, unknown, orphan>>

(* A connection breaks; the handlers that wait in Steps for an answer on it  *)
(* (to a worker: via its connection) are told.                               *)
disconnected_unnoticed(Steps, via) == att

disconnected(Steps, via) ==
    [k \in Attempt |->
        IF att[k].step \in Steps /\ (via # None => att[k].via = via) /\ att[k].reply = None
        THEN [att[k] EXCEPT !.reply = FALSE] ELSE att[k]]

(* The control connection of a worker breaks. *)
hung_up_keeps_frames(b) ==
    UNCHANGED ctl /\ att' = disconnected({"registering", "activating"}, b)

hung_up(b) ==
    /\ ctl' = [ctl EXCEPT ![b] = <<>>]
    /\ att' = disconnected({"registering", "activating"}, b)

(* An active worker closes its control socket when a request asks for it.    *)
link_breaks(b) ==
    /\ b \in Cut /\ worker[b].linked /\ worker[b].active
    /\ worker' = [worker EXCEPT ![b].linked = FALSE, ![b].readiness = FALSE]
    /\ hung_up(b)
    /\ UNCHANGED <<peer, facts, gateway, gates, pushed, current, table, fenced, record, calls,
                   client, sends, unknown, orphan>>

dies(b) ==
    /\ b \in Mortal /\ worker[b].life = "up"
    /\ worker' = [worker EXCEPT ![b] = [life |-> "dead", active |-> FALSE, linked |-> FALSE,
                                        readiness |-> FALSE, mute |-> FALSE]]
    /\ hung_up(b)
    /\ UNCHANGED <<peer, facts, gateway, gates, pushed, current, table, fenced, record, calls,
                   client, sends, unknown, orphan>>

(* What compute_on_worker gets back along a route: the result, if the        *)
(* process that listens there is active and is the boot the route permits,  *)
(* else a refusal or no connection; or an end of file, with the work done   *)
(* or not.                                                                   *)
serve_any_boot(r) ==
    {"withheld", IF worker[r.port].active THEN "computed" ELSE "refused"}

serve(r) ==
    {"withheld", IF worker[r.port].active /\ r.boot = r.port THEN "computed" ELSE "refused"}

-----------------------------------------------------------------------------
(* Gateway process                                                         *)

route_to(gen, b) == [generation |-> gen, boot |-> b, port |-> peer[TargetOf[b]]]

(* HELLO of a gateway.  The coordinator registers it, then reads its route,  *)
(* then sends it: three steps of the handler, under different locks.         *)
gateway_hello(g) ==
    /\ gateway = None /\ g \notin gates
    /\ gateway' = [boot |-> g, route |-> None, frames |-> <<>>, verifying |-> None,
                   push |-> [at |-> "registered"]]
    /\ gates' = gates \cup {g}
    /\ UNCHANGED <<worker, ctl, peer, facts, pushed, current, table, fenced, record, att, calls,
                   client, sends, unknown, orphan>>

read_route ==
    /\ gateway # None /\ gateway.push.at = "registered"
    /\ gateway' = [gateway EXCEPT !.push =
                      IF table = None THEN [at |-> "done"]
                      ELSE [at |-> "read", route |-> route_to(table.generation, table.boot)]]
    /\ pushed' = (pushed \/ table # None)
    /\ UNCHANGED <<worker, ctl, peer, facts, gates, current, table, fenced, record, att, calls,
                   client, sends, unknown, orphan>>

push_route ==
    /\ gateway # None /\ gateway.push.at = "read"
    /\ gateway' = [gateway EXCEPT !.push = [at |-> "done"],
                      !.frames = Append(@, [type |-> "INSTALL_ROUTE", from |-> None,
                                            route |-> gateway.push.route])]
    /\ UNCHANGED <<worker, ctl, peer, facts, gates, pushed, current, table, fenced, record, att,
                   calls,
                   client, sends, unknown, orphan>>

(* handle_client is between reading the request and answering it. *)
Flight == {"asked", "checked", "authorized", "sent", "returned"}

failed == [at |-> "answered", ok |-> FALSE, auth |-> None, by |-> None]

(* AUTHORIZE_REQUEST is being handled for a client of the live gateway.      *)
authorizing(c) == client[c].at \in {"asked", "checked"}

(* What the coordinator is doing for the gateway when it dies, it goes on    *)
(* doing: the answer is lost.                                                *)
left_running ==
    {[gateway |-> gateway.boot, at |-> client[c].at, request |-> RequestOf[c]] :
        c \in {d \in Client : authorizing(d)}}

gateway_dies ==
    /\ gateway # None
    /\ gateway' = None
    /\ att' = disconnected({"reg_routing", "routing", "verifying"}, None)
    /\ client' = [c \in Client |-> IF client[c].at \in Flight THEN failed ELSE client[c]]
    /\ orphan' = orphan \cup left_running
    /\ UNCHANGED <<worker, ctl, peer, facts, gates, pushed, current, table, fenced, record,
                   calls, sends, unknown>>

(* The entry replaces the one that is there, whatever their generations. *)
g_routes_emplace(route) == IF gateway.route = None THEN route ELSE gateway.route

g_routes_assign(route) == route

(* The control thread: INSTALL_ROUTE replaces the entry; VERIFY_SERVICE     *)
(* takes the first entry and waits for the worker.                         *)
control_thread ==
    /\ gateway # None /\ gateway.verifying = None /\ gateway.frames # <<>>
    /\ LET f == Head(gateway.frames)
           rest == Tail(gateway.frames)
       IN  \/ /\ f.type = "INSTALL_ROUTE"
              /\ gateway' = [gateway EXCEPT !.frames = rest, !.route = g_routes_assign(f.route)]
              /\ att' = IF f.from = None THEN att ELSE answered(f.from, TRUE)
           \/ /\ f.type = "VERIFY_SERVICE"
              /\ IF gateway.route = None
                 THEN /\ gateway' = [gateway EXCEPT !.frames = rest]
                      /\ att' = answered(f.from, FALSE)
                 ELSE /\ gateway' = [gateway EXCEPT !.frames = rest,
                                        !.verifying = [from |-> f.from, route |-> gateway.route]]
                      /\ UNCHANGED att
    /\ UNCHANGED <<worker, ctl, peer, facts, gates, pushed, current, table, fenced, record,
                   calls, client, sends, unknown, orphan>>

verify_through_route ==
    /\ gateway # None /\ gateway.verifying # None
    /\ \E out \in serve(gateway.verifying.route) :
          att' = answered(gateway.verifying.from, out = "computed")
    /\ gateway' = [gateway EXCEPT !.verifying = None]
    /\ UNCHANGED <<worker, ctl, peer, facts, gates, pushed, current, table, fenced, record,
                   calls, client, sends, unknown, orphan>>

-----------------------------------------------------------------------------
(* Client threads of the gateway, and the coordinator's handlers they call. *)
(* The calls of one gateway share one connection, whose handler runs them   *)
(* one at a time.                                                           *)

reply_failed(c) == client' = [client EXCEPT ![c] = failed]

retry_allowed(r) == r \in Replayable

(* The record of an earlier dispatch is replaced. *)
record_request(r) == record' = [record EXCEPT ![r] = "DISPATCHED"]

(* g_rpc_mutex: a gateway waits for the answer to one frame before the next. *)
rpc_free == \A c \in Client : ~authorizing(c)

(* AUTHORIZE_REQUEST: the assignment is read, the request's record is        *)
(* checked, and the record of this dispatch is made, under three locks.      *)
authorize_request(c) ==
    /\ gateway # None /\ client[c].at = "start" /\ rpc_free
    /\ IF current = None
       THEN reply_failed(c)
       ELSE client' = [client EXCEPT ![c] = [at |-> "asked", auth |-> current]]
    /\ UNCHANGED <<worker, ctl, peer, facts, gateway, gates, pushed, current, table, fenced,
                   record, att, calls, sends, unknown, orphan>>

replay_refused(r) == record[r] = "OUTCOME_UNKNOWN" /\ ~retry_allowed(r)

check_request(c) ==
    /\ client[c].at = "asked"
    /\ IF replay_refused(RequestOf[c])
       THEN reply_failed(c)
       ELSE client' = [client EXCEPT ![c].at = "checked"]
    /\ UNCHANGED <<worker, ctl, peer, facts, gateway, gates, pushed, current, table, fenced,
                   record, att, calls, sends, unknown, orphan>>

record_dispatch(c) ==
    /\ client[c].at = "checked"
    /\ client' = [client EXCEPT ![c].at = "authorized"]
    /\ record_request(RequestOf[c])
    /\ UNCHANGED <<worker, ctl, peer, facts, gateway, gates, pushed, current, table, fenced,
                   att, calls, sends, unknown, orphan>>

(* The same two steps for a gateway that is gone. *)
moves(o, stage) == orphan' = (orphan \ {o}) \cup {[o EXCEPT !.at = stage]}

orphan_check(o) ==
    /\ o.at = "asked"
    /\ moves(o, IF replay_refused(o.request) THEN "done" ELSE "checked")
    /\ UNCHANGED <<worker, ctl, peer, facts, gateway, gates, pushed, current, table, fenced,
                   record, att, calls, client, sends, unknown>>

orphan_record(o) ==
    /\ o.at = "checked"
    /\ moves(o, "done")
    /\ record_request(o.request)
    /\ UNCHANGED <<worker, ctl, peer, facts, gateway, gates, pushed, current, table, fenced,
                   att, calls, client, sends, unknown>>

orphan_step == \E o \in orphan : orphan_check(o) \/ orphan_record(o)

(* The route is read after the authorization, and not compared with it. *)
lookup_route(c) ==
    /\ client[c].at = "authorized"
    /\ IF gateway.route = None
       THEN reply_failed(c)
       ELSE client' = [client EXCEPT ![c] = [at |-> "sent", auth |-> client[c].auth,
                                             route |-> gateway.route]]
    /\ UNCHANGED <<worker, ctl, peer, facts, gateway, gates, pushed, current, table, fenced,
                   record, att,
                   calls, sends, unknown, orphan>>

compute_on_worker(c) ==
    /\ client[c].at = "sent"
    /\ \E out \in serve(client[c].route) :
          client' = [client EXCEPT ![c] = [at |-> "returned", auth |-> client[c].auth,
                                           by |-> client[c].route.port, out |-> out]]
    /\ UNCHANGED <<worker, ctl, peer, facts, gateway, gates, pushed, current, table, fenced,
                   record, att,
                   calls, sends, unknown, orphan>>

(* dispatch_allowed_locked, for an authorization of this epoch. *)
dispatch_allowed(auth) == current # None /\ current = auth /\ auth.boot \notin fenced

(* ... and the request is on record. *)
result_allowed(auth, r) == dispatch_allowed(auth) /\ record[r] # None

set_outcome_if_absent(r) ==
    record' = [record EXCEPT ![r] = IF @ = None THEN "OUTCOME_UNKNOWN" ELSE @]

set_outcome_unknown(r) == record' = [record EXCEPT ![r] = "OUTCOME_UNKNOWN"]

(* The answer to the client is successful only if the worker returned a      *)
(* result and the coordinator agrees to it.                                  *)
reply(c, res_ok) ==
    client' = [client EXCEPT ![c] =
                  IF res_ok /\ client[c].out = "computed"
                  THEN [failed EXCEPT !.ok = TRUE, !.auth = client[c].auth, !.by = client[c].by]
                  ELSE failed]

(* AUTHORIZE_RESULT: the outcome of a withheld response is unknown.          *)
authorize_result(c) ==
    LET r == RequestOf[c]
    IN  /\ client[c].at = "returned" /\ rpc_free
        /\ IF client[c].out = "withheld"
           THEN set_outcome_unknown(r) /\ reply(c, FALSE) /\ unknown' = unknown \cup {r}
           ELSE reply(c, result_allowed(client[c].auth, r)) /\ UNCHANGED <<record, unknown>>
        /\ UNCHANGED <<worker, ctl, peer, facts, gateway, gates, pushed, current, table, fenced,
                       att, calls, sends, orphan>>

(* A client that got no result sends its request again, with the same id.    *)
resend(c) ==
    /\ client[c].at = "answered" /\ ~client[c].ok /\ sends[c] < MaxSends
    /\ client' = [client EXCEPT ![c] = [at |-> "start"]]
    /\ sends' = [sends EXCEPT ![c] = @ + 1]
    /\ UNCHANGED <<worker, ctl, peer, facts, gateway, gates, pushed, current, table, fenced,
                   record, att, calls, unknown, orphan>>

-----------------------------------------------------------------------------
(* Coordinator: REGISTER                                                    *)

goes(k, step) == att' = [att EXCEPT ![k] = step]
returns(k) == goes(k, idle)

register(k, b) ==
    /\ att[k] = idle /\ current = None
    /\ peer[TargetOf[b]] # None
    /\ current' = [id |-> 1, boot |-> b, route_generation |-> 1]
    /\ LET via == peer[TargetOf[b]]
       IN  /\ att' = [att EXCEPT ![k] = [step |-> "registering", boot |-> b, via |-> via,
                                         reply |-> IF reachable(via) THEN None ELSE FALSE]]
           /\ ctl' = IF reachable(via)
                     THEN [ctl EXCEPT ![via] = Append(@, [type |-> "ACTIVATE_TARGET", from |-> k])]
                     ELSE ctl
    /\ UNCHANGED <<worker, peer, facts, gateway, gates, pushed, table, fenced, record, calls,
                   client, sends, unknown, orphan>>

First(S) == CHOOSE g \in S : \A h \in S : g <= h

(* The gateway with the least boot of all that ever connected is alive. *)
any_gateway_conn == gateway # None /\ gateway.boot = First(gates)

to_gateway(f) == gateway' = [gateway EXCEPT !.frames = Append(@, f)]

(* The answer to ACTIVATE is not looked at; without a gateway no route.     *)
register_route(k) ==
    LET b == att[k].boot
    IN  /\ att[k].step = "registering" /\ att[k].reply # None
        /\ IF any_gateway_conn
           THEN /\ to_gateway([type |-> "INSTALL_ROUTE", from |-> k, route |-> route_to(1, b)])
                /\ goes(k, [step |-> "reg_routing", boot |-> b, reply |-> None])
           ELSE returns(k) /\ UNCHANGED gateway
        /\ UNCHANGED <<worker, ctl, peer, facts, gates, pushed, current, table, fenced, record,
                       calls,
                       client, sends, unknown, orphan>>

(* RouteTable::install: a generation never goes back. *)
installed(gen, b) ==
    IF table = None \/ gen > table.generation THEN [generation |-> gen, boot |-> b] ELSE table

register_returns(k) ==
    /\ att[k].step = "reg_routing" /\ att[k].reply # None
    /\ table' = installed(1, att[k].boot)
    /\ returns(k)
    /\ UNCHANGED <<worker, ctl, peer, facts, gateway, gates, pushed, current, fenced, record,
                   calls, client, sends, unknown, orphan>>

-----------------------------------------------------------------------------
(* Coordinator: EXECUTE_FAILOVER                                            *)

eligible(t) == t # TargetOf[current.boot] /\ facts[t] # None /\ facts[t] \notin fenced

plan_failover(k, t) ==
    /\ att[k] = idle /\ current # None /\ calls < MaxAttempts
    /\ eligible(t)
    /\ calls' = calls + 1
    /\ goes(k, [step |-> "planned", old |-> current,
                new |-> [id |-> calls + 2, boot |-> facts[t],
                         route_generation |-> IF table = None THEN 2 ELSE table.generation + 1]])
    /\ UNCHANGED <<worker, ctl, peer, facts, gateway, gates, pushed, current, table, fenced,
                   record, client, sends, unknown, orphan>>

(* The first region of execute_plan: the plan is checked again. *)
begin(k) ==
    LET a == att[k]
        t == TargetOf[a.new.boot]
    IN  /\ a.step = "planned"
        /\ IF current = a.old /\ eligible(t) /\ facts[t] = a.new.boot
           THEN goes(k, [a EXCEPT !.step = "fencing"])
           ELSE returns(k)
        /\ UNCHANGED <<worker, ctl, peer, facts, gateway, gates, pushed, current, table, fenced,
                       record,
                       calls, client, sends, unknown, orphan>>

(* fence_old counts as applied whether or not anything was sent. *)
fence_old(k) ==
    LET a == att[k]
        via == peer[TargetOf[a.old.boot]]
    IN  /\ a.step = "fencing"
        /\ ctl' = IF reachable(via)
                  THEN [ctl EXCEPT ![via] = Append(@, [type |-> "FENCE_ASSIGNMENT"])] ELSE ctl
        /\ fenced' = fenced \cup {a.old.boot}
        /\ goes(k, [a EXCEPT !.step = "fenced"])
        /\ UNCHANGED <<worker, peer, facts, gateway, gates, pushed, current, table, record,
                       calls, client, sends, unknown, orphan>>

activate(k) ==
    LET a == att[k]
        via == peer[TargetOf[a.new.boot]]
    IN  /\ a.step = "fenced"
        /\ IF reachable(via)
           THEN /\ ctl' = [ctl EXCEPT ![via] =
                               Append(@, [type |-> "ACTIVATE_TARGET", from |-> k])]
                /\ goes(k, [step |-> "activating", old |-> a.old, new |-> a.new, via |-> via,
                            reply |-> None])
           ELSE returns(k) /\ UNCHANGED ctl
        /\ UNCHANGED <<worker, peer, facts, gateway, gates, pushed, current, table, fenced,
                       record, calls,
                       client, sends, unknown, orphan>>

(* The route goes to the gateway that said HELLO last. *)
install_route(k) ==
    LET a == att[k]
    IN  /\ a.step = "activating" /\ a.reply # None
        /\ IF a.reply /\ gateway # None
           THEN /\ to_gateway([type |-> "INSTALL_ROUTE", from |-> k,
                               route |-> route_to(a.new.route_generation, a.new.boot)])
                /\ goes(k, [step |-> "routing", old |-> a.old, new |-> a.new, reply |-> None])
           ELSE returns(k) /\ UNCHANGED gateway
        /\ UNCHANGED <<worker, ctl, peer, facts, gates, pushed, current, table, fenced, record,
                       calls, client, sends, unknown, orphan>>

(* ... and the verification to the gateway with the least boot. *)
verify(k) ==
    LET a == att[k]
    IN  /\ a.step = "routing" /\ a.reply # None
        /\ table' = IF a.reply THEN installed(a.new.route_generation, a.new.boot) ELSE table
        /\ IF a.reply /\ any_gateway_conn
           THEN /\ to_gateway([type |-> "VERIFY_SERVICE", from |-> k])
                /\ goes(k, [a EXCEPT !.step = "verifying", !.reply = None])
           ELSE returns(k) /\ UNCHANGED gateway
        /\ UNCHANGED <<worker, ctl, peer, facts, gates, pushed, current, fenced, record, calls,
                       client, sends, unknown, orphan>>

commit(k) ==
    LET a == att[k]
    IN  /\ a.step = "verifying" /\ a.reply # None
        /\ IF a.reply /\ current = a.old
           THEN current' = a.new /\ fenced' = fenced \cup {a.old.boot}
           ELSE UNCHANGED <<current, fenced>>
        /\ returns(k)
        /\ UNCHANGED <<worker, ctl, peer, facts, gateway, gates, pushed, table, record, calls,
                       client, sends, unknown, orphan>>

-----------------------------------------------------------------------------

client_step(c) ==
    \/ check_request(c) \/ record_dispatch(c)
    \/ lookup_route(c) \/ compute_on_worker(c) \/ authorize_result(c)
gateway_step == read_route \/ push_route \/ control_thread \/ verify_through_route
handler_step(k) ==
    \/ register_route(k) \/ register_returns(k)
    \/ begin(k) \/ fence_old(k) \/ activate(k) \/ install_route(k) \/ verify(k) \/ commit(k)

Next ==
    \/ \E b \in Boot : hello(b) \/ publish_readiness(b) \/ ctrl_loop(b) \/ link_breaks(b) \/ dies(b)
    \/ \E g \in Gateways : gateway_hello(g)
    \/ gateway_step \/ gateway_dies \/ orphan_step
    \/ \E c \in Client : authorize_request(c) \/ client_step(c) \/ resend(c)
    \/ \E k \in Attempt :
          \/ \E b \in Home : register(k, b)
          \/ \E t \in Target : plan_failover(k, t)
          \/ handler_step(k)

Spec == Init /\ [][Next]_vars

(* Threads of live processes run; nothing makes a worker or a gateway        *)
(* connect, a client send, a process die or a connection break.              *)
Fairness ==
    /\ \A b \in Boot : WF_vars(ctrl_loop(b))
    /\ WF_vars(gateway_step)
    /\ \A k \in Attempt : WF_vars(handler_step(k))

FairSpec == Spec /\ Fairness

-----------------------------------------------------------------------------
(* Properties                                                               *)

Assignment == [id : Nat, boot : Boot, route_generation : Nat]
Route == [generation : Nat, boot : Boot, port : Boot]

(* The types of the state the processes share through messages.              *)
TypeOK ==
    /\ peer \in [Target -> Boot \cup {None}] /\ facts \in [Target -> Boot \cup {None}]
    /\ current = None \/ current \in Assignment
    /\ table = None \/ table \in [generation : Nat, boot : Boot]
    /\ fenced \subseteq Boot
    /\ \A b \in Boot : worker[b].linked \/ worker[b].active => worker[b].life = "up"
    /\ \A b \in Boot : ~worker[b].linked => ctl[b] = <<>> /\ ~worker[b].readiness
    /\ gateway # None => gateway.boot \in gates /\ (gateway.route = None \/ gateway.route \in Route)
    /\ \A c \in Client : client[c].at \in Flight => gateway # None

(* A result that a client gets as successful was computed by the worker boot *)
(* that the coordinator had authorized for the request: handle_client reads  *)
(* the route after the authorization and never compares the two, so this     *)
(* rests on fencing, on the boot check of the worker and on the second       *)
(* authorization.  (With one handler of REGISTER or EXECUTE_FAILOVER at a    *)
(* time, and as long as no HELLO handler pushed a route: the gateway keeps   *)
(* whichever route arrives last.)                                            *)
AcceptedFromItsWorker ==
    ~pushed =>
       \A c \in Client : client[c].at = "answered" /\ client[c].ok =>
                           client[c].by = client[c].auth.boot

(* The same, whatever routes HELLO handlers pushed. *)
AcceptedFromItsWorkerAlways ==
    \A c \in Client : client[c].at = "answered" /\ client[c].ok =>
                        client[c].by = client[c].auth.boot

(* A cutover whose verification succeeded was verified through its own       *)
(* route: VERIFY_SERVICE names no route, and the gateway takes the first     *)
(* entry of its map.  (Under the same conditions.)                           *)
VerifiedThroughItsRoute ==
    ~pushed =>
       \A k \in Attempt : att[k].step = "verifying" /\ att[k].reply = TRUE /\ gateway # None =>
                            gateway.route = None \/ gateway.route.boot = att[k].new.boot

(* A gateway died while the coordinator was authorizing the request r. *)
Orphaned(r) == \E o \in orphan : o.request = r

(* A request whose outcome was reported as unknown is not dispatched again   *)
(* unless its policy allows it: AUTHORIZE_REQUEST looks at the record        *)
(* (retry_allowed) and replaces it under another lock, and the requests of   *)
(* a gateway are kept apart only by the gateway's own g_rpc_mutex.  (Unless  *)
(* a gateway died while the coordinator was authorizing the request: the     *)
(* handler it leaves behind runs beside the next gateway's.)                 *)
UnknownNotDispatchedAgain ==
    [][\A c \in Client :
          /\ client[c].at # "authorized" /\ client'[c].at = "authorized"
          /\ RequestOf[c] \in unknown \ Replayable
          => Orphaned(RequestOf[c])]_vars

(* A handler of REGISTER or EXECUTE_FAILOVER returns, or waits for a worker  *)
(* that withheld its acknowledgment: Conn::request has no timeout.           *)
EveryHandlerReturns ==
    \A k \in Attempt :
       att[k].step # "idle" ~> \/ att[k].step = "idle"
                              \/ /\ att[k].step \in {"registering", "activating"}
                                 /\ att[k].reply = None /\ att[k].via \in Withholds
===============================================================================
