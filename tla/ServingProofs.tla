---------------------------- MODULE ServingProofs -----------------------------
(***************************************************************************)
(* A request on its way through the three processes, for any number of     *)
(* workers, gateways, clients, requests and failovers.  Types and the      *)
(* tracker's promise hold for any number of handlers; that a result comes  *)
(* from the authorized worker is proved for one REGISTER or                *)
(* EXECUTE_FAILOVER handler at a time (SoleHandler), and until a HELLO     *)
(* handler pushes a route.                                                 *)
(***************************************************************************)
EXTENDS ServingInvariants, Integers, TLAPS

-----------------------------------------------------------------------------
(* Lemmas                                                                  *)

(* Sequences.                                                               *)
LEMMA SeqEmpty ==
    ASSUME NEW S
    PROVE  <<>> \in Seq(S) /\ Len(<<>>) = 0 /\ \A q \in Seq(S) : q # <<>> => Len(q) > 0
  OBVIOUS

LEMMA SeqLen ==
    ASSUME NEW S, NEW q \in Seq(S)
    PROVE  Len(q) \in Nat /\ DOMAIN q = 1 .. Len(q)
  OBVIOUS

LEMMA SeqElement ==
    ASSUME NEW S, NEW q \in Seq(S), NEW i \in 1 .. Len(q)
    PROVE  q[i] \in S
  OBVIOUS

LEMMA SeqAppend ==
    ASSUME NEW S, NEW q \in Seq(S), NEW e \in S
    PROVE  /\ Append(q, e) \in Seq(S) /\ Len(Append(q, e)) = Len(q) + 1
           /\ \A i \in 1 .. Len(q) : Append(q, e)[i] = q[i]
           /\ Append(q, e)[Len(q) + 1] = e
  OBVIOUS

LEMMA SeqHeadTail ==
    ASSUME NEW S, NEW q \in Seq(S), q # <<>>
    PROVE  /\ Head(q) \in S /\ Tail(q) \in Seq(S) /\ Len(Tail(q)) = Len(q) - 1
           /\ \A i \in 1 .. Len(Tail(q)) : Tail(q)[i] = q[i + 1]
  OBVIOUS

LEMMA Steps ==
    ASSUME NEW a \in Handler
    PROVE  /\ a.step = "idle" => a = idle
           /\ a.step = "registering" => a \in Registering
           /\ a.step = "reg_routing" => a \in RegRouting
           /\ a.step \in {"planned", "fencing", "fenced"} => a \in Planned
           /\ a.step = "activating" => a \in Activating
           /\ a.step \in {"routing", "verifying"} => a \in Routing
           /\ a.step \in {"idle", "registering", "reg_routing", "planned", "fencing", "fenced",
                          "activating", "routing", "verifying"}
  BY DEF Handler, idle, Registering, RegRouting, Planned, Activating, Routing

LEMMA Answered ==
    ASSUME NEW a \in Handler, NEW ok \in BOOLEAN
    PROVE  LET r == [a EXCEPT !.reply = ok]
           IN  /\ r \in Handler /\ r.step = a.step
               /\ a.step \in {"registering", "reg_routing"} => r.boot = a.boot
               /\ a.step \in {"registering", "activating"} => r.via = a.via
               /\ a.step \in {"planned", "fencing", "fenced", "activating", "routing", "verifying"}
                     => r.old = a.old /\ r.new = a.new
               /\ a.step \in {"registering", "reg_routing", "activating", "routing", "verifying"}
                     => r.reply = ok
  BY DEF Handler, idle, Registering, RegRouting, Planned, Activating, Routing, Reply

(* What changes the records, and what the check of a record rests on.       *)
LEMMA Records ==
    Next => \/ UNCHANGED <<record, unknown, orphan, client>>
            \/ gateway_dies \/ orphan_step
            \/ \E c \in Client : authorize_request(c) \/ client_step(c) \/ resend(c)
  <1> DEFINE U == UNCHANGED <<record, unknown, orphan, client>>
  <1>1. ASSUME NEW b \in Boot, hello(b) \/ publish_readiness(b) \/ ctrl_loop(b) \/ link_breaks(b) \/ dies(b)
        PROVE  U
    BY <1>1, Zenon DEF hello, publish_readiness, ctrl_loop, link_breaks, dies
  <1>2. ASSUME NEW g \in Gateways, gateway_hello(g)
        PROVE  U
    BY <1>2, Zenon DEF gateway_hello
  <1>3. CASE gateway_step
    BY <1>3, Zenon DEF gateway_step, read_route, push_route, control_thread, verify_through_route
  <1>5. ASSUME NEW k \in Attempt, NEW b \in Home, register(k, b)
        PROVE  U
    BY <1>5, Zenon DEF register
  <1>6. ASSUME NEW k \in Attempt, NEW t \in Target, plan_failover(k, t)
        PROVE  U
    BY <1>6, Zenon DEF plan_failover
  <1>7. ASSUME NEW k \in Attempt, handler_step(k)
        PROVE  U
    BY <1>7, Zenon DEF handler_step, register_route, register_returns, begin, fence_old, activate,
                install_route, verify, commit
  <1> HIDE DEF U
  <1> QED BY <1>1, <1>2, <1>3, <1>5, <1>6, <1>7, Zenon DEF Next, U

(* A step of one worker keeps the types of the workers' state.              *)
LEMMA WorkerStep ==
    ASSUME WorkersTyped, NEW b \in Boot, NEW w \in WorkerState, NEW q \in Seq(CtlFrame),
           worker' = [worker EXCEPT ![b] = w], ctl' = [ctl EXCEPT ![b] = q],
           w.linked \/ w.active => w.life = "up",
           ~w.linked => q = <<>> /\ ~w.readiness
    PROVE  WorkersTyped'
  BY Zenon DEF WorkersTyped

LEMMA SendTyped ==
    ASSUME WorkersTyped, NEW v \in Boot, worker[v].linked, NEW f \in CtlFrame,
           ctl' = [ctl EXCEPT ![v] = Append(@, f)], UNCHANGED worker
    PROVE  WorkersTyped'
  <1>1. Append(ctl[v], f) \in Seq(CtlFrame)
    BY SeqAppend, Zenon DEF WorkersTyped
  <1> QED BY <1>1, Zenon DEF WorkersTyped

(* The types of the workers' state.                                         *)
LEMMA WorkersTypedNext ==
    ASSUME TypeInv, [Next]_vars
    PROVE  WorkersTyped'
  <1>0. WorkersTyped
    BY Zenon DEF TypeInv
  <1>0b. ASSUME NEW b \in Boot
         PROVE  /\ worker[b] \in WorkerState /\ ctl[b] \in Seq(CtlFrame)
                /\ ctl[b] # <<>> => Tail(ctl[b]) \in Seq(CtlFrame)
                /\ worker = [worker EXCEPT ![b] = worker[b]] /\ ctl = [ctl EXCEPT ![b] = ctl[b]]
                /\ worker[b].linked \/ worker[b].active => worker[b].life = "up"
                /\ ~worker[b].linked => ctl[b] = <<>> /\ ~worker[b].readiness
    BY <1>0, SeqHeadTail, Zenon DEF WorkersTyped
  <1>0e. ASSUME NEW b \in Boot
         PROVE  reachable(peer[TargetOf[b]]) =>
                   peer[TargetOf[b]] \in Boot /\ worker[peer[TargetOf[b]]].linked
    BY Zenon DEF reachable, TypeInv, PeersTyped, Target
  <1>u. CASE UNCHANGED <<worker, ctl>>
    BY <1>0, <1>u, Zenon DEF WorkersTyped
  <1>1. ASSUME NEW b \in Boot, hello(b)
        PROVE  WorkersTyped'
    <2> DEFINE w == [worker[b] EXCEPT !.life = "up", !.linked = TRUE, !.readiness = TRUE]
    <2>1. w \in WorkerState /\ w.linked /\ w.life = "up"
      BY <1>0b, Zenon DEF WorkerState
    <2>2. worker' = [worker EXCEPT ![b] = w] /\ ctl' = ctl
      BY <1>1, <1>0, Zenon DEF hello, connect, WorkersTyped
    <2> HIDE DEF w
    <2> QED BY Zenon, <2>1, <2>2, <1>0, <1>0b, WorkerStep
  <1>2. ASSUME NEW b \in Boot, publish_readiness(b)
        PROVE  WorkersTyped'
    <2> DEFINE w == [worker[b] EXCEPT !.readiness = FALSE]
    <2>1. w \in WorkerState /\ w.linked = worker[b].linked /\ w.active = worker[b].active
          /\ w.life = worker[b].life /\ ~w.readiness
      BY <1>0b, Zenon DEF WorkerState
    <2>2. worker' = [worker EXCEPT ![b] = w] /\ ctl' = ctl
      BY <1>2, Zenon DEF publish_readiness, send_registration
    <2> HIDE DEF w
    <2> QED BY Zenon, <2>1, <2>2, <1>0, <1>0b, WorkerStep
  <1>3. ASSUME NEW b \in Boot, ctrl_loop(b)
        PROVE  WorkersTyped'
    <2>1. CASE Head(ctl[b]).type = "FENCE_ASSIGNMENT"
      <3> DEFINE w == [worker[b] EXCEPT !.active = FALSE]
      <3>1. w \in WorkerState /\ w.linked = worker[b].linked /\ w.life = worker[b].life
        BY <1>0b, Zenon DEF WorkerState
      <3>2. worker' = [worker EXCEPT ![b] = w] /\ ctl' = [ctl EXCEPT ![b] = Tail(ctl[b])]
            /\ worker[b].linked /\ ctl[b] # <<>>
        BY <1>3, <2>1, Zenon DEF ctrl_loop
      <3> HIDE DEF w
      <3> QED BY Zenon, <3>1, <3>2, <1>0, <1>0b, WorkerStep
    <2>2. CASE Head(ctl[b]).type # "FENCE_ASSIGNMENT"
      <3> DEFINE w == [worker[b] EXCEPT !.active = TRUE, !.mute = FALSE]
      <3>1. w \in WorkerState /\ w.linked = worker[b].linked /\ w.life = worker[b].life
        BY <1>0b, Zenon DEF WorkerState
      <3>2. worker' = [worker EXCEPT ![b] = w] /\ ctl' = [ctl EXCEPT ![b] = Tail(ctl[b])]
            /\ worker[b].linked /\ ctl[b] # <<>>
        BY <1>3, <2>2, <1>0, Zenon DEF ctrl_loop, WorkersTyped
      <3> HIDE DEF w
      <3> QED BY Zenon, <3>1, <3>2, <1>0, <1>0b, WorkerStep
    <2> QED BY Zenon, <2>1, <2>2
  <1>4. ASSUME NEW b \in Boot, link_breaks(b)
        PROVE  WorkersTyped'
    <2> DEFINE w == [worker[b] EXCEPT !.linked = FALSE, !.readiness = FALSE]
    <2>1. w \in WorkerState /\ ~w.linked /\ ~w.readiness /\ w.active = worker[b].active
          /\ w.life = worker[b].life
      BY <1>0b, Zenon DEF WorkerState
    <2>2. worker' = [worker EXCEPT ![b] = w] /\ ctl' = [ctl EXCEPT ![b] = <<>>]
      BY <1>4, <1>0, Zenon DEF link_breaks, hung_up, WorkersTyped
    <2>3. <<>> \in Seq(CtlFrame)
      BY Zenon, SeqEmpty
    <2> HIDE DEF w
    <2> QED BY Zenon, <2>1, <2>2, <2>3, <1>0, <1>0b, WorkerStep
  <1>5. ASSUME NEW b \in Boot, dies(b)
        PROVE  WorkersTyped'
    <2> DEFINE w == [life |-> "dead", active |-> FALSE, linked |-> FALSE, readiness |-> FALSE,
                     mute |-> FALSE]
    <2>1. w \in WorkerState /\ ~w.linked /\ ~w.readiness /\ ~w.active
      BY Zenon DEF WorkerState
    <2>2. worker' = [worker EXCEPT ![b] = w] /\ ctl' = [ctl EXCEPT ![b] = <<>>]
      BY <1>5, Zenon DEF dies, hung_up
    <2>3. <<>> \in Seq(CtlFrame)
      BY Zenon, SeqEmpty
    <2> HIDE DEF w
    <2> QED BY Zenon, <2>1, <2>2, <2>3, <1>0, WorkerStep
  <1>6. ASSUME NEW k \in Attempt, NEW b \in Home, register(k, b)
        PROVE  WorkersTyped'
    <2>1. [type |-> "ACTIVATE_TARGET", from |-> k] \in CtlFrame /\ b \in Boot
      BY NoneAssumption, Zenon DEF CtlFrame
    <2>3. CASE reachable(peer[TargetOf[b]])
      BY <1>6, <2>1, <2>3, <1>0, <1>0e, SendTyped, Zenon DEF register
    <2>4. CASE ~reachable(peer[TargetOf[b]])
      BY <1>6, <2>4, <1>u, Zenon DEF register
    <2> QED BY Zenon, <2>3, <2>4
  <1>7. ASSUME NEW k \in Attempt, fence_old(k)
        PROVE  WorkersTyped'
    <2>1. [type |-> "FENCE_ASSIGNMENT"] \in CtlFrame
      BY Zenon DEF CtlFrame
    <2>2. att[k].old.boot \in Boot
      <3>1. att[k] \in Planned
        BY <1>7, Steps, Zenon DEF fence_old, TypeInv, AssignmentsTyped
      <3> QED BY <3>1, Zenon DEF Planned, Assignment
    <2>3. CASE reachable(peer[TargetOf[att[k].old.boot]])
      BY <1>7, <2>1, <2>2, <2>3, <1>0, <1>0e, SendTyped, Zenon DEF fence_old
    <2>4. CASE ~reachable(peer[TargetOf[att[k].old.boot]])
      BY <1>7, <2>4, <1>u, Zenon DEF fence_old
    <2> QED BY Zenon, <2>3, <2>4
  <1>8. ASSUME NEW k \in Attempt, activate(k)
        PROVE  WorkersTyped'
    <2>1. [type |-> "ACTIVATE_TARGET", from |-> k] \in CtlFrame
      BY Zenon DEF CtlFrame
    <2>2. att[k].new.boot \in Boot
      <3>1. att[k] \in Planned
        BY <1>8, Steps, Zenon DEF activate, TypeInv, AssignmentsTyped
      <3> QED BY <3>1, Zenon DEF Planned, Assignment
    <2>3. CASE reachable(peer[TargetOf[att[k].new.boot]])
      BY <1>8, <2>1, <2>2, <2>3, <1>0, <1>0e, SendTyped, Zenon DEF activate
    <2>4. CASE ~reachable(peer[TargetOf[att[k].new.boot]])
      BY <1>8, <2>4, <1>u, Zenon DEF activate
    <2> QED BY Zenon, <2>3, <2>4
  <1> QED
    <2>1. CASE UNCHANGED vars
      BY <2>1, <1>u, Zenon DEF vars
    <2>2. CASE Next
      <3>1. ASSUME NEW g \in Gateways, gateway_hello(g) PROVE WorkersTyped'
        BY <3>1, <1>u, Zenon DEF gateway_hello
      <3>2. CASE gateway_step \/ gateway_dies \/ orphan_step
        BY <3>2, <1>u, Zenon DEF gateway_step, read_route, push_route, control_thread,
                          verify_through_route, gateway_dies, orphan_step, orphan_check, orphan_record
      <3>3. ASSUME NEW c \in Client, authorize_request(c) \/ client_step(c) \/ resend(c)
            PROVE  WorkersTyped'
        BY <3>3, <1>u, Zenon DEF client_step, authorize_request, check_request, record_dispatch,
                  lookup_route, compute_on_worker,
                          authorize_result, resend
      <3>4. ASSUME NEW k \in Attempt, NEW t \in Target, plan_failover(k, t) PROVE WorkersTyped'
        BY <3>4, <1>u, Zenon DEF plan_failover
      <3>5. ASSUME NEW k \in Attempt, handler_step(k) PROVE WorkersTyped'
        BY <3>5, <1>u, <1>7, <1>8, Zenon DEF handler_step, register_route, register_returns, begin,
                                      install_route, verify, commit
      <3> QED BY <2>2, <1>1, <1>2, <1>3, <1>4, <1>5, <1>6, <3>1, <3>2, <3>3, <3>4, <3>5, Zenon DEF Next
    <2> QED BY Zenon, <2>1, <2>2

(* Who has connected stays known.                                           *)
LEMMA PeersTypedNext ==
    ASSUME TypeInv, [Next]_vars
    PROVE  /\ PeersTyped'
           /\ \A b \in Boot : Known(b) => Known(b)'
  <1> USE ServingAssumption
  <1>0. PeersTyped /\ worker \in [Boot -> WorkerState]
    BY Zenon DEF TypeInv, WorkersTyped
  <1>0b. \A b \in Boot : TargetOf[b] \in Target
    BY Zenon DEF Target
  <1> DEFINE P == PeersTyped' /\ \A b \in Boot : Known(b) => Known(b)'
  <1>u. CASE UNCHANGED <<worker, peer, facts>>
    BY <1>0, <1>u, Zenon DEF PeersTyped, Known
  <1>1. ASSUME NEW b \in Boot, hello(b)
        PROVE  P
    <2>1. peer' = [peer EXCEPT ![TargetOf[b]] = b] /\ UNCHANGED facts
      BY <1>1, Zenon DEF hello
    <2>2. peer' \in [Target -> Boot \cup {None}] /\ \A x \in Boot : Known(x) => Known(x)'
      BY <2>1, <1>0, <1>0b, Zenon DEF PeersTyped, Known
    <2>3. Known(b)'
      BY <2>1, <1>0, <1>0b, Zenon DEF PeersTyped, Known
    <2>4. \A x \in Boot \ {b} : worker'[x] = worker[x]
      BY <1>1, <1>0, Zenon DEF hello, connect
    <2>5. \A x \in Boot : worker'[x].linked => Known(x)'
      BY <2>2, <2>3, <2>4, <1>0, Zenon DEF PeersTyped
    <2>6. \A t \in Target : facts[t] # None => facts[t] \in Boot /\ Known(facts[t])
      BY <1>0, Zenon DEF PeersTyped
    <2> QED BY <2>1, <2>2, <2>5, <2>6, <1>0, Zenon DEF PeersTyped
  <1>2. ASSUME NEW b \in Boot, publish_readiness(b)
        PROVE  P
    <2>1. facts' = [facts EXCEPT ![TargetOf[b]] = b] /\ UNCHANGED peer /\ worker[b].linked
      BY <1>2, Zenon DEF publish_readiness, send_registration
    <2>2. \A x \in Boot : worker'[x].linked = worker[x].linked
      BY <1>2, <1>0, Zenon DEF publish_readiness, send_registration, WorkerState
    <2> QED BY <2>1, <2>2, <1>0, <1>0b, Zenon DEF PeersTyped, Known
  <1>3. ASSUME NEW b \in Boot, ctrl_loop(b) \/ link_breaks(b) \/ dies(b)
        PROVE  P
    <2>1. UNCHANGED <<peer, facts>>
      BY <1>3, Zenon DEF ctrl_loop, link_breaks, dies
    <2>2. \A x \in Boot : worker'[x].linked => worker[x].linked
      <3>1. CASE ctrl_loop(b)
        BY <3>1, <1>0, Zenon DEF ctrl_loop, WorkerState
      <3>2. CASE link_breaks(b)
        BY <3>2, <1>0, Zenon DEF link_breaks, WorkerState
      <3>3. CASE dies(b)
        BY <3>3, <1>0, Zenon DEF dies, WorkerState
      <3> QED BY Zenon, <1>3, <3>1, <3>2, <3>3
    <2> QED BY <2>1, <2>2, <1>0, Zenon DEF PeersTyped, Known
  <1> HIDE DEF P
  <1>4. P
    <2>1. CASE UNCHANGED vars
      BY <2>1, <1>u, Zenon DEF vars, P
    <2>2. CASE Next
      <3>1. ASSUME NEW g \in Gateways, gateway_hello(g) PROVE P
        BY <3>1, <1>u, Zenon DEF gateway_hello, P
      <3>2. CASE gateway_step \/ gateway_dies \/ orphan_step
        BY <3>2, <1>u, Zenon DEF gateway_step, read_route, push_route, control_thread,
                          verify_through_route, gateway_dies, orphan_step, orphan_check, orphan_record, P
      <3>3. ASSUME NEW c \in Client, authorize_request(c) \/ client_step(c) \/ resend(c)
            PROVE  P
        BY <3>3, <1>u, Zenon DEF client_step, authorize_request, check_request, record_dispatch,
                  lookup_route, compute_on_worker,
                          authorize_result, resend, P
      <3>4. ASSUME NEW k \in Attempt, NEW t \in Target, plan_failover(k, t) PROVE P
        BY <3>4, <1>u, Zenon DEF plan_failover, P
      <3>5. ASSUME NEW k \in Attempt, handler_step(k) PROVE P
        BY <3>5, <1>u, Zenon DEF handler_step, register_route, register_returns, begin, fence_old,
                          activate, install_route, verify, commit, P
      <3>6. ASSUME NEW k \in Attempt, NEW b \in Home, register(k, b) PROVE P
        BY <3>6, <1>u, Zenon DEF register, P
      <3> QED BY <2>2, <1>1, <1>2, <1>3, <3>1, <3>2, <3>3, <3>4, <3>5, <3>6, Zenon DEF Next
    <2> QED BY Zenon, <2>1, <2>2
  <1> QED BY <1>4, Zenon DEF P

-----------------------------------------------------------------------------
(* The handlers                                                            *)

(* a is b, but for the reply it waits for. *)
SameHandler(a, b) ==
    /\ b.step = a.step
    /\ a.step \in {"registering", "reg_routing"} => b.boot = a.boot
    /\ a.step \in {"registering", "activating"} => b.via = a.via
    /\ InCutover(a) => b.old = a.old /\ b.new = a.new

(* Workers and the gateway give handlers their replies, and nothing else.   *)
Answers == att' \in [Attempt -> Handler] /\ \A k \in Attempt : SameHandler(att[k], att'[k])

LEMMA AnsweredAtt ==
    ASSUME att \in [Attempt -> Handler], NEW x, NEW ok \in BOOLEAN, att' = answered(x, ok)
    PROVE  Answers
  <1>1. ASSUME NEW k \in Attempt
        PROVE  att'[k] \in Handler /\ SameHandler(att[k], att'[k])
    <2>1. att'[k] = att[k] \/ att'[k] = [att[k] EXCEPT !.reply = ok]
      BY Zenon DEF answered
    <2>2. att[k] \in Handler
      BY Zenon
    <2>3. CASE att'[k] = att[k]
      BY <2>2, <2>3, Zenon DEF SameHandler
    <2>4. CASE att'[k] = [att[k] EXCEPT !.reply = ok]
      BY <2>2, <2>4, Answered DEF SameHandler, InCutover
    <2> QED BY Zenon, <2>1, <2>3, <2>4
  <1>2. att' = [k \in Attempt |-> att'[k]]
    BY Zenon DEF answered
  <1> QED BY <1>1, <1>2, Zenon DEF Answers

LEMMA HungUpAnswers ==
    ASSUME att \in [Attempt -> Handler], NEW S,
           att' = [k \in Attempt |-> IF k \in S THEN [att[k] EXCEPT !.reply = FALSE] ELSE att[k]]
    PROVE  Answers
  <1>1. ASSUME NEW k \in Attempt
        PROVE  att'[k] \in Handler /\ SameHandler(att[k], att'[k])
    <2>1. att'[k] = att[k] \/ att'[k] = [att[k] EXCEPT !.reply = FALSE]
      BY Zenon
    <2>2. att[k] \in Handler
      BY Zenon
    <2>3. CASE att'[k] = att[k]
      BY <2>2, <2>3, Zenon DEF SameHandler
    <2>4. CASE att'[k] = [att[k] EXCEPT !.reply = FALSE]
      BY <2>2, <2>4, Answered, Zenon DEF SameHandler, InCutover
    <2> QED BY Zenon, <2>1, <2>3, <2>4
  <1>2. att' = [k \in Attempt |-> att'[k]]
    BY Zenon
  <1> QED BY <1>1, <1>2, Zenon DEF Answers

LEMMA AnswerSteps ==
    ASSUME att \in [Attempt -> Handler]
    PROVE  /\ \A b \in Boot : ctrl_loop(b) \/ link_breaks(b) \/ dies(b) => Answers
           /\ control_thread \/ verify_through_route \/ gateway_dies => Answers
           /\ UNCHANGED att => Answers
  <1>0. CASE UNCHANGED att
    BY <1>0, Zenon DEF Answers, SameHandler
  <1>1. ASSUME NEW b \in Boot, ctrl_loop(b)
        PROVE  Answers
    <2>1. UNCHANGED att \/ att' = answered(Head(ctl[b]).from, TRUE)
      BY <1>1, Zenon DEF ctrl_loop
    <2> QED BY Zenon, <2>1, <1>0, AnsweredAtt
  <1>2. ASSUME NEW b \in Boot, hung_up(b)
        PROVE  Answers
    <2> DEFINE S == {k \in Attempt : att[k].step \in {"registering", "activating"}
                                    /\ att[k].via = b /\ att[k].reply = None}
    <2>1. att' = [k \in Attempt |-> IF k \in S THEN [att[k] EXCEPT !.reply = FALSE] ELSE att[k]]
      BY <1>2, ServingAssumption, Zenon DEF hung_up, disconnected
    <2> HIDE DEF S
    <2> QED BY Zenon, <2>1, HungUpAnswers
  <1>3. CASE gateway_dies
    <2> DEFINE S == {k \in Attempt : att[k].step \in {"reg_routing", "routing", "verifying"}
                                    /\ att[k].reply = None}
    <2>1. att' = [k \in Attempt |-> IF k \in S THEN [att[k] EXCEPT !.reply = FALSE] ELSE att[k]]
      BY <1>3, Zenon DEF gateway_dies, disconnected
    <2> HIDE DEF S
    <2> QED BY Zenon, <2>1, HungUpAnswers
  <1>4. CASE control_thread
    <2>1. \/ UNCHANGED att
          \/ \E ok \in BOOLEAN : att' = answered(Head(gateway.frames).from, ok)
      BY <1>4, Zenon DEF control_thread
    <2> QED BY Zenon, <2>1, <1>0, AnsweredAtt
  <1>5. CASE verify_through_route
    <2>1. \E ok \in BOOLEAN : att' = answered(gateway.verifying.from, ok)
      BY <1>5, Zenon DEF verify_through_route
    <2> QED BY Zenon, <2>1, AnsweredAtt
  <1> QED BY <1>0, <1>1, <1>2, <1>3, <1>4, <1>5, Zenon DEF link_breaks, dies

(* The coordinator's assignments change only in the handlers' own steps.    *)
LEMMA HandlersAssign ==
    ASSUME att \in [Attempt -> Handler], [Next]_vars
    PROVE  \/ Answers /\ UNCHANGED <<current, table, fenced, calls>>
           \/ \E k \in Attempt :
                 \/ \E b \in Home : register(k, b)
                 \/ \E t \in Target : plan_failover(k, t)
                 \/ handler_step(k)
  <1> DEFINE P == Answers /\ UNCHANGED <<current, table, fenced, calls>>
  <1>1. ASSUME NEW b \in Boot, hello(b) \/ publish_readiness(b)
        PROVE  P
    BY <1>1, AnswerSteps, Zenon DEF hello, publish_readiness
  <1>2. ASSUME NEW b \in Boot, ctrl_loop(b) \/ link_breaks(b) \/ dies(b)
        PROVE  P
    <2>1. Answers
      BY Zenon, <1>2, AnswerSteps
    <2> QED BY <1>2, <2>1, Zenon DEF ctrl_loop, link_breaks, dies
  <1>3. ASSUME NEW g \in Gateways, gateway_hello(g)
        PROVE  P
    BY <1>3, AnswerSteps, Zenon DEF gateway_hello
  <1>4. CASE read_route \/ push_route \/ orphan_step
    BY <1>4, AnswerSteps, Zenon DEF read_route, push_route, orphan_step, orphan_check, orphan_record
  <1>5. CASE control_thread \/ verify_through_route \/ gateway_dies
    <2>1. Answers
      BY Zenon, <1>5, AnswerSteps
    <2> QED BY <1>5, <2>1, Zenon DEF control_thread, verify_through_route, gateway_dies
  <1>6. ASSUME NEW c \in Client, authorize_request(c) \/ client_step(c) \/ resend(c)
        PROVE  P
    <2>1. UNCHANGED <<att, current, table, fenced, calls>>
      BY <1>6, Zenon DEF client_step, authorize_request, check_request, record_dispatch,
                  lookup_route, compute_on_worker,
                  authorize_result, resend
    <2> QED BY Zenon, <2>1, AnswerSteps
  <1>7. CASE UNCHANGED vars
    BY <1>7, AnswerSteps, Zenon DEF vars
  <1> HIDE DEF P
  <1>8. CASE Next
    BY <1>8, <1>1, <1>2, <1>3, <1>4, <1>5, <1>6, Zenon DEF Next, gateway_step, P
  <1> QED BY <1>7, <1>8, Zenon DEF P

(* What a handler does to the handlers when it goes to n.                   *)
LEMMA GoesTyped ==
    ASSUME TypeInv, [Next]_vars, NEW k \in Attempt, NEW n \in Handler, KnownHandler(n),
           att' = [att EXCEPT ![k] = n]
    PROVE  att' \in [Attempt -> Handler] /\ \A l \in Attempt : KnownHandler(att[l])'
  <1>1. \A a \in Handler : KnownHandler(a) => KnownHandler(a)'
    <2>1. ASSUME NEW a \in Handler, KnownHandler(a) PROVE KnownHandler(a)'
      <3>1. /\ a.step \in {"registering", "reg_routing"} => a.boot \in Boot
            /\ InCutover(a) => a.old.boot \in Boot /\ a.new.boot \in Boot
        BY Steps, Zenon DEF Registering, RegRouting, Planned, Activating, Routing, Assignment, InCutover
      <3> QED BY <2>1, <3>1, PeersTypedNext, Zenon DEF KnownHandler, InCutover
    <2> QED BY Zenon, <2>1
  <1>2. att' \in [Attempt -> Handler]
    BY Zenon DEF TypeInv, AssignmentsTyped
  <1>3. ASSUME NEW l \in Attempt PROVE KnownHandler(att[l])'
    <2>1. att'[l] \in Handler /\ KnownHandler(att'[l])
      BY <1>2, Zenon DEF TypeInv, AssignmentsTyped
    <2> QED BY <2>1, <1>1, Zenon DEF KnownHandler, Known, InCutover
  <1> QED BY Zenon, <1>2, <1>3

(* ... and what an answer does to them.                                     *)
LEMMA AnswersTyped ==
    ASSUME TypeInv, [Next]_vars, Answers, UNCHANGED <<current, table, fenced, calls>>
    PROVE  AssignmentsTyped'
  <1>1. \A l \in Attempt : KnownHandler(att[l])'
    <2>1. ASSUME NEW l \in Attempt PROVE KnownHandler(att[l])'
      <3>1. /\ att[l].step \in {"registering", "reg_routing"} => att[l].boot \in Boot
            /\ InCutover(att[l]) => att[l].old.boot \in Boot /\ att[l].new.boot \in Boot
        BY Steps DEF Registering, RegRouting, Planned, Activating, Routing, Assignment, InCutover,
                     TypeInv, AssignmentsTyped
      <3>2. KnownHandler(att[l]) /\ SameHandler(att[l], att'[l])
        BY Zenon DEF Answers, TypeInv, AssignmentsTyped
      <3> QED BY <3>1, <3>2, PeersTypedNext, Zenon DEF KnownHandler, InCutover, SameHandler
    <2> QED BY Zenon, <2>1
  <1>2. AssignmentsTyped
    BY Zenon DEF TypeInv
  <1>3. /\ current # None => current.boot \in Boot
        /\ table # None => table.boot \in Boot
    BY <1>2, Zenon DEF AssignmentsTyped, Assignment
  <1> QED BY <1>1, <1>2, <1>3, PeersTypedNext, Zenon DEF Answers, AssignmentsTyped

(* A handler's step keeps the types of the assignments.                     *)
LEMMA HandlerTyped ==
    ASSUME TypeInv, [Next]_vars, NEW k \in Attempt, NEW n \in Handler, KnownHandler(n),
           att' = [att EXCEPT ![k] = n],
           current' = current \/ (current' \in Assignment /\ Known(current'.boot)),
           table' = table \/ (table' \in [generation : Nat, boot : Boot] /\ Known(table'.boot)),
           fenced' \subseteq Boot, calls' \in Nat
    PROVE  AssignmentsTyped'
  <1>1. att' \in [Attempt -> Handler] /\ \A l \in Attempt : KnownHandler(att[l])'
    BY Zenon, GoesTyped
  <1>2. \A b \in Boot : Known(b) => Known(b)'
    BY Zenon, PeersTypedNext
  <1>3. current' \in Assignment \cup {None} /\ (current' # None => current'.boot \in Boot /\ Known(current'.boot))
    BY Zenon DEF TypeInv, AssignmentsTyped, Assignment
  <1>4. /\ table' \in [generation : Nat, boot : Boot] \cup {None}
        /\ table' # None => table'.boot \in Boot /\ Known(table'.boot)
    BY Zenon DEF TypeInv, AssignmentsTyped
  <1>5. (current # None => Known(current.boot))'
    BY <1>2, <1>3, Zenon DEF Known
  <1>6. (table # None => Known(table.boot))'
    BY <1>2, <1>4, Zenon DEF Known
  <1> QED BY <1>1, <1>3, <1>4, <1>5, <1>6, Zenon DEF AssignmentsTyped

LEMMA IdleKnown == idle \in Handler /\ KnownHandler(idle)
  BY Zenon DEF idle, Handler, KnownHandler, InCutover

LEMMA AssignmentsTypedNext ==
    ASSUME TypeInv, [Next]_vars
    PROVE  AssignmentsTyped'
  <1> USE ServingAssumption, NoneAssumption
  <1>0. AssignmentsTyped /\ att \in [Attempt -> Handler]
    BY Zenon DEF TypeInv, AssignmentsTyped
  <1>0b. fenced \subseteq Boot /\ calls \in Nat
    BY <1>0, Zenon DEF AssignmentsTyped
  <1>1. ASSUME NEW k \in Attempt, NEW b \in Home, register(k, b)
        PROVE  AssignmentsTyped'
    <2> DEFINE n == [step |-> "registering", boot |-> b, via |-> peer[TargetOf[b]],
                     reply |-> IF reachable(peer[TargetOf[b]]) THEN None ELSE FALSE]
    <2>1. /\ att' = [att EXCEPT ![k] = n]
          /\ current' = [id |-> 1, boot |-> b, route_generation |-> 1]
          /\ peer[TargetOf[b]] # None
          /\ UNCHANGED <<table, fenced, calls>>
      BY <1>1, Zenon DEF register
    <2>2. b \in Boot /\ peer[TargetOf[b]] \in Boot
      BY <2>1, Zenon DEF TypeInv, PeersTyped, Target
    <2>3. current' \in Assignment /\ Known(current'.boot)
      BY <2>1, <2>2, Zenon DEF Assignment, Known
    <2>4. n \in Handler
      BY <2>2, Zenon DEF Handler, Registering, Reply
    <2>5. KnownHandler(n)
      BY <2>1, Zenon DEF KnownHandler, InCutover, Known
    <2> HIDE DEF n
    <2> QED BY Zenon, <2>1, <2>3, <2>4, <2>5, <1>0b, HandlerTyped
  <1>2. ASSUME NEW k \in Attempt, NEW t \in Target, plan_failover(k, t)
        PROVE  AssignmentsTyped'
    <2> DEFINE n == [step |-> "planned", old |-> current,
                     new |-> [id |-> calls + 2, boot |-> facts[t],
                              route_generation |-> IF table = None THEN 2
                                                   ELSE table.generation + 1]]
    <2>1. /\ att' = [att EXCEPT ![k] = n]
          /\ UNCHANGED <<current, table, fenced>> /\ calls' = calls + 1
          /\ current # None /\ facts[t] # None
      BY <1>2, Zenon DEF plan_failover, goes, eligible
    <2>2. facts[t] \in Boot /\ Known(facts[t])
      BY <2>1, Zenon DEF TypeInv, PeersTyped
    <2>3. current \in Assignment /\ Known(current.boot)
      BY <2>1, <1>0, Zenon DEF AssignmentsTyped
    <2>4. (IF table = None THEN 2 ELSE table.generation + 1) \in Nat
      BY <1>0 DEF AssignmentsTyped
    <2>5. n \in Handler
      BY <2>2, <2>3, <2>4, <1>0b DEF Handler, Planned, Assignment
    <2>6. KnownHandler(n)
      BY <2>2, <2>3, Zenon DEF KnownHandler, InCutover
    <2>7. calls' \in Nat
      BY <2>1, <1>0b
    <2> HIDE DEF n
    <2> QED BY Zenon, <2>1, <2>5, <2>6, <2>7, <1>0b, HandlerTyped
  <1>3. ASSUME NEW k \in Attempt, NEW n \in Handler, KnownHandler(n), att' = [att EXCEPT ![k] = n],
               UNCHANGED <<current, table, calls>>, fenced' \subseteq Boot
        PROVE  AssignmentsTyped'
    BY Zenon, <1>3, <1>0b, HandlerTyped
  <1>3b. ASSUME NEW k \in Attempt, returns(k), UNCHANGED <<current, table, calls, fenced>>
         PROVE  AssignmentsTyped'
    BY <1>3, <1>3b, <1>0b, IdleKnown, Zenon DEF returns, goes
  <1>4. ASSUME NEW k \in Attempt, register_route(k)
        PROVE  AssignmentsTyped'
    <2> DEFINE n == [step |-> "reg_routing", boot |-> att[k].boot, reply |-> None]
    <2>1. /\ att[k].step = "registering" /\ (returns(k) \/ att' = [att EXCEPT ![k] = n])
          /\ UNCHANGED <<current, table, calls, fenced>>
      BY <1>4, Zenon DEF register_route, goes
    <2>2. att[k].boot \in Boot /\ Known(att[k].boot)
      BY <2>1, <1>0, Steps, Zenon DEF Registering, AssignmentsTyped, KnownHandler
    <2>3. n \in Handler
      BY <2>2, Zenon DEF Handler, RegRouting, Reply
    <2>4. KnownHandler(n)
      BY <2>2, Zenon DEF KnownHandler, InCutover
    <2> HIDE DEF n
    <2> QED BY Zenon, <2>1, <2>3, <2>4, <1>3, <1>3b, <1>0b
  <1>5. ASSUME NEW k \in Attempt, register_returns(k)
        PROVE  AssignmentsTyped'
    <2>1. att[k].boot \in Boot /\ Known(att[k].boot)
      BY <1>5, <1>0, Steps, Zenon DEF register_returns, RegRouting, AssignmentsTyped, KnownHandler
    <2>2. table' = table \/ (table' \in [generation : Nat, boot : Boot] /\ Known(table'.boot))
      BY <1>5, <2>1, Zenon DEF register_returns, installed
    <2> QED BY <1>5, <2>2, <1>0b, IdleKnown, HandlerTyped, Zenon DEF register_returns, returns, goes
  <1>6. ASSUME NEW k \in Attempt, InCutover(att[k])
        PROVE  /\ att[k].old \in Assignment /\ att[k].new \in Assignment
               /\ Known(att[k].old.boot) /\ Known(att[k].new.boot)
    <2>1. att[k] \in Handler /\ KnownHandler(att[k])
      BY <1>0, Zenon DEF AssignmentsTyped
    <2> QED BY <1>6, <2>1, Steps, Zenon DEF KnownHandler, InCutover, Planned, Activating, Routing
  <1>7. ASSUME NEW k \in Attempt, begin(k)
        PROVE  AssignmentsTyped'
    <2>0. InCutover(att[k]) /\ att[k] \in Planned
      BY <1>7, <1>0, Steps, Zenon DEF begin, InCutover
    <2> DEFINE n == [att[k] EXCEPT !.step = "fencing"]
    <2>1. /\ returns(k) \/ att' = [att EXCEPT ![k] = n]
          /\ UNCHANGED <<current, table, calls, fenced>>
      BY <1>7, Zenon DEF begin, goes
    <2>3. n \in Planned /\ n.old = att[k].old /\ n.new = att[k].new /\ n.step = "fencing"
      BY <2>0, Zenon DEF Planned
    <2> HIDE DEF n
    <2>4. n \in Handler /\ KnownHandler(n)
      BY <2>0, <2>3, <1>6, Zenon DEF KnownHandler, InCutover, Handler
    <2> QED BY Zenon, <2>1, <2>4, <1>3, <1>3b, <1>0b
  <1>8. ASSUME NEW k \in Attempt, fence_old(k)
        PROVE  AssignmentsTyped'
    <2>0. InCutover(att[k]) /\ att[k] \in Planned
      BY <1>8, <1>0, Steps, Zenon DEF fence_old, InCutover
    <2> DEFINE n == [att[k] EXCEPT !.step = "fenced"]
    <2>1. /\ att' = [att EXCEPT ![k] = n] /\ fenced' = fenced \cup {att[k].old.boot}
          /\ UNCHANGED <<current, table, calls>>
      BY <1>8, Zenon DEF fence_old, goes
    <2>2. fenced' \subseteq Boot
      BY <2>0, <2>1, <1>6, <1>0b, Zenon DEF Assignment
    <2>3. n \in Planned /\ n.old = att[k].old /\ n.new = att[k].new /\ n.step = "fenced"
      BY <2>0, Zenon DEF Planned
    <2> HIDE DEF n
    <2>4. n \in Handler /\ KnownHandler(n)
      BY <2>0, <2>3, <1>6, Zenon DEF KnownHandler, InCutover, Handler
    <2> QED BY Zenon, <2>1, <2>2, <2>4, <1>3
  <1>9. ASSUME NEW k \in Attempt, activate(k)
        PROVE  AssignmentsTyped'
    <2>0. InCutover(att[k])
      BY <1>9, Zenon DEF activate, InCutover
    <2> DEFINE n == [step |-> "activating", old |-> att[k].old, new |-> att[k].new,
                     via |-> peer[TargetOf[att[k].new.boot]], reply |-> None]
    <2>1. UNCHANGED <<current, table, calls, fenced>>
      BY <1>9, Zenon DEF activate
    <2>2. CASE ~reachable(peer[TargetOf[att[k].new.boot]])
      BY <1>9, <2>1, <2>2, <1>3b, Zenon DEF activate
    <2>3. CASE reachable(peer[TargetOf[att[k].new.boot]])
      <3>1. att' = [att EXCEPT ![k] = n]
        BY <1>9, <2>3, Zenon DEF activate, goes
      <3>2. peer[TargetOf[att[k].new.boot]] \in Boot
        <4>1. att[k].new.boot \in Boot /\ peer \in [Target -> Boot \cup {None}]
          BY <2>0, <1>6, Zenon DEF Assignment, TypeInv, PeersTyped
        <4>2. TargetOf[att[k].new.boot] \in Target
          BY <4>1, Zenon DEF Target
        <4> QED BY <4>1, <4>2, <2>3, Zenon DEF reachable
      <3>3. n \in Handler
        BY <2>0, <3>2, <1>6, Zenon DEF Handler, Activating, Reply
      <3>4. KnownHandler(n)
        BY <2>0, <1>6, Zenon DEF KnownHandler, InCutover
      <3> HIDE DEF n
      <3> QED BY Zenon, <2>1, <3>1, <3>3, <3>4, <1>3, <1>0b
    <2> QED BY Zenon, <2>2, <2>3
  <1>10. ASSUME NEW k \in Attempt, install_route(k)
         PROVE  AssignmentsTyped'
    <2>0. InCutover(att[k])
      BY <1>10, Zenon DEF install_route, InCutover
    <2> DEFINE n == [step |-> "routing", old |-> att[k].old, new |-> att[k].new, reply |-> None]
    <2>1. /\ returns(k) \/ att' = [att EXCEPT ![k] = n]
          /\ UNCHANGED <<current, table, calls, fenced>>
      BY <1>10, Zenon DEF install_route, goes
    <2>3. n \in Handler
      BY <2>0, <1>6, Zenon DEF Handler, Routing, Reply
    <2>4. KnownHandler(n)
      BY <2>0, <1>6, Zenon DEF KnownHandler, InCutover
    <2> HIDE DEF n
    <2> QED BY Zenon, <2>1, <2>3, <2>4, <1>3, <1>3b, <1>0b
  <1>11. ASSUME NEW k \in Attempt, verify(k)
         PROVE  AssignmentsTyped'
    <2>0. InCutover(att[k]) /\ att[k] \in Routing
      BY <1>11, <1>0, Steps, Zenon DEF verify, InCutover
    <2> DEFINE n == [att[k] EXCEPT !.step = "verifying", !.reply = None]
    <2>1. /\ att' = [att EXCEPT ![k] = idle] \/ att' = [att EXCEPT ![k] = n]
          /\ UNCHANGED <<current, calls, fenced>>
      BY <1>11, Zenon DEF verify, goes, returns
    <2>2. table' = table \/ (table' \in [generation : Nat, boot : Boot] /\ Known(table'.boot))
      <3>1. /\ att[k].new.route_generation \in Nat /\ att[k].new.boot \in Boot
            /\ Known(att[k].new.boot)
        BY <2>0, <1>6, Zenon DEF Assignment
      <3> QED BY <1>11, <3>1, Zenon DEF verify, installed
    <2>3. n \in Routing /\ n.old = att[k].old /\ n.new = att[k].new /\ n.step = "verifying"
      BY <2>0, Zenon DEF Routing, Reply
    <2> HIDE DEF n
    <2>4. n \in Handler /\ KnownHandler(n)
      BY <2>0, <2>3, <1>6, Zenon DEF KnownHandler, InCutover, Handler
    <2> QED BY Zenon, <2>1, <2>2, <2>4, <1>0b, IdleKnown, HandlerTyped
  <1>12. ASSUME NEW k \in Attempt, commit(k)
         PROVE  AssignmentsTyped'
    <2>0. InCutover(att[k])
      BY <1>12, Zenon DEF commit, InCutover
    <2>1. current' = current \/ (current' \in Assignment /\ Known(current'.boot))
      BY <1>12, <2>0, <1>6, Zenon DEF commit
    <2>2. fenced' \subseteq Boot
      BY <1>12, <2>0, <1>6, <1>0b, Zenon DEF commit, Assignment
    <2>3. att' = [att EXCEPT ![k] = idle] /\ UNCHANGED <<table, calls>>
      BY <1>12, Zenon DEF commit, returns, goes
    <2> QED BY Zenon, <2>1, <2>2, <2>3, <1>0b, IdleKnown, HandlerTyped
  <1> QED
    BY Zenon, <1>0, <1>1, <1>2, <1>4, <1>5, <1>7, <1>8, <1>9, <1>10, <1>11, <1>12, HandlersAssign,
       AnswersTyped DEF handler_step

-----------------------------------------------------------------------------
(* The gateway and its clients                                             *)

GatewayOK == gateway \in GatewayState \cup {None} /\ (gateway # None => gateway.boot \in gates)

LEMMA RouteTyped ==
    ASSUME TypeInv, NEW gen \in Nat, NEW b \in Boot, Known(b)
    PROVE  route_to(gen, b) \in Route
  <1>1. peer[TargetOf[b]] \in Boot
    BY Zenon DEF TypeInv, PeersTyped, Target, Known
  <1> QED BY <1>1, Zenon DEF route_to, Route

(* The coordinator sends the gateway a frame.                               *)
LEMMA ToGatewayTyped ==
    ASSUME TypeInv, gateway # None, NEW f \in GatewayFrame, to_gateway(f), UNCHANGED gates
    PROVE  GatewayOK' /\ gateway' # None
  <1>1. gateway \in GatewayState /\ gateway.boot \in gates
    BY Zenon DEF TypeInv, GatewayTyped
  <1>2. Append(gateway.frames, f) \in Seq(GatewayFrame)
    BY <1>1, SeqAppend, Zenon DEF GatewayState
  <1>3. gateway' \in GatewayState /\ gateway'.boot = gateway.boot
    BY <1>1, <1>2, Zenon DEF to_gateway, GatewayState
  <1> QED BY <1>1, <1>3, NoneAssumption, Zenon DEF GatewayOK

LEMMA GatewayOKNext ==
    ASSUME TypeInv, [Next]_vars
    PROVE  GatewayOK' /\ (gateway # None /\ ~gateway_dies => gateway' # None)
  <1> USE NoneAssumption
  <1> DEFINE P == GatewayOK' /\ (gateway # None /\ ~gateway_dies => gateway' # None)
  <1>0. gateway \in GatewayState \cup {None} /\ (gateway # None => gateway.boot \in gates)
    BY Zenon DEF TypeInv, GatewayTyped
  <1>u. CASE UNCHANGED <<gateway, gates>>
    BY <1>0, <1>u, Zenon DEF GatewayOK
  <1>1. ASSUME NEW g \in Gateways, gateway_hello(g)
        PROVE  P
    <2>1. gateway' = [boot |-> g, route |-> None, frames |-> <<>>, verifying |-> None,
                      push |-> [at |-> "registered"]]
          /\ gates' = gates \cup {g}
      BY <1>1, Zenon DEF gateway_hello
    <2>2. gateway' \in GatewayState
      BY <2>1, SeqEmpty, Zenon DEF GatewayState, Push
    <2> QED BY <2>1, <2>2, Zenon DEF GatewayOK
  <1>2. CASE read_route
    <2> DEFINE p == IF table = None THEN [at |-> "done"]
                    ELSE [at |-> "read", route |-> route_to(table.generation, table.boot)]
    <2>1. gateway \in GatewayState /\ gateway' = [gateway EXCEPT !.push = p] /\ UNCHANGED gates
      BY <1>2, <1>0, Zenon DEF read_route
    <2>2. p \in Push
      <3>1. CASE table = None
        BY <3>1, Zenon DEF Push
      <3>2. CASE table # None
        <4>1. route_to(table.generation, table.boot) \in Route
          BY <3>2, RouteTyped, Zenon DEF TypeInv, AssignmentsTyped
        <4> QED BY <3>2, <4>1, Zenon DEF Push
      <3> QED BY Zenon, <3>1, <3>2
    <2> HIDE DEF p
    <2>3. gateway' \in GatewayState /\ gateway'.boot = gateway.boot
      BY <2>1, <2>2, Zenon DEF GatewayState
    <2> QED BY <2>1, <2>3, <1>0 DEF GatewayOK
  <1>3. CASE push_route
    <2> DEFINE f == [type |-> "INSTALL_ROUTE", from |-> None, route |-> gateway.push.route]
    <2>1. gateway \in GatewayState /\ gateway.push.at = "read"
          /\ gateway' = [gateway EXCEPT !.push = [at |-> "done"], !.frames = Append(@, f)]
          /\ UNCHANGED gates
      BY <1>3, <1>0, Zenon DEF push_route
    <2>2. gateway.push \in Push /\ gateway.frames \in Seq(GatewayFrame)
      BY <2>1, Zenon DEF GatewayState
    <2>2b. gateway.push.route \in Route
      BY <2>1, <2>2, Zenon DEF Push
    <2>3. f \in GatewayFrame
      BY <2>2b, Zenon DEF GatewayFrame
    <2> HIDE DEF f
    <2>4. Append(gateway.frames, f) \in Seq(GatewayFrame)
      BY Zenon, <2>2, <2>3, SeqAppend
    <2>5. gateway' \in GatewayState /\ gateway'.boot = gateway.boot
      BY <2>1, <2>4, Zenon DEF GatewayState, Push
    <2> QED BY <2>1, <2>5, <1>0 DEF GatewayOK
  <1>4. CASE gateway_dies
    BY <1>4, Zenon DEF gateway_dies, GatewayOK
  <1>5. CASE control_thread
    <2>1. gateway \in GatewayState /\ gateway.frames # <<>> /\ UNCHANGED gates
      BY <1>5, <1>0, Zenon DEF control_thread
    <2>1b. gateway.frames \in Seq(GatewayFrame)
      BY <2>1, Zenon DEF GatewayState
    <2>2. Head(gateway.frames) \in GatewayFrame /\ Tail(gateway.frames) \in Seq(GatewayFrame)
      BY Zenon, <2>1, <2>1b, SeqHeadTail
    <2>3. /\ Head(gateway.frames).type = "INSTALL_ROUTE" => Head(gateway.frames).route \in Route
          /\ Head(gateway.frames).type = "VERIFY_SERVICE" => Head(gateway.frames).from \in Attempt
      BY <2>2, Zenon DEF GatewayFrame
    <2>4. CASE Head(gateway.frames).type = "INSTALL_ROUTE"
      <3>1. gateway' = [gateway EXCEPT !.frames = Tail(gateway.frames),
                                       !.route = Head(gateway.frames).route]
        BY <1>5, <2>4, Zenon DEF control_thread, g_routes_assign
      <3>2. gateway' \in GatewayState /\ gateway'.boot = gateway.boot
        BY <2>1, <2>2, <2>3, <2>4, <3>1, Zenon DEF GatewayState
      <3> QED BY <2>1, <3>2, <1>0, Zenon DEF GatewayOK
    <2>5. CASE Head(gateway.frames).type = "VERIFY_SERVICE"
      <3>1. CASE gateway.route = None
        <4>1. gateway' = [gateway EXCEPT !.frames = Tail(gateway.frames)]
          BY <1>5, <2>5, <3>1, Zenon DEF control_thread
        <4>2. gateway' \in GatewayState /\ gateway'.boot = gateway.boot
          BY <2>1, <2>2, <4>1, Zenon DEF GatewayState
        <4> QED BY <2>1, <4>2, <1>0, Zenon DEF GatewayOK
      <3>2. CASE gateway.route # None
        <4> DEFINE v == [from |-> Head(gateway.frames).from, route |-> gateway.route]
        <4>1. gateway' = [gateway EXCEPT !.frames = Tail(gateway.frames), !.verifying = v]
          BY <1>5, <2>5, <3>2, Zenon DEF control_thread
        <4>2. v \in [from : Attempt, route : Route]
          BY <2>1, <2>3, <2>5, <3>2, Zenon DEF GatewayState
        <4> HIDE DEF v
        <4>3. gateway' \in GatewayState /\ gateway'.boot = gateway.boot
          BY <2>1, <2>2, <4>1, <4>2, Zenon DEF GatewayState
        <4> QED BY <2>1, <4>3, <1>0, Zenon DEF GatewayOK
      <3> QED BY Zenon, <3>1, <3>2
    <2> QED BY <1>5, <2>4, <2>5, Zenon DEF control_thread
  <1>6. CASE verify_through_route
    <2>1. gateway \in GatewayState /\ gateway' = [gateway EXCEPT !.verifying = None]
          /\ UNCHANGED gates
      BY <1>6, <1>0, Zenon DEF verify_through_route
    <2>2. gateway' \in GatewayState /\ gateway'.boot = gateway.boot
      BY <2>1, Zenon DEF GatewayState
    <2> QED BY <2>1, <2>2, <1>0 DEF GatewayOK
  <1>7. ASSUME NEW k \in Attempt, register_route(k)
        PROVE  P
    <2>1. CASE ~any_gateway_conn
      BY <1>7, <2>1, <1>u, Zenon DEF register_route
    <2>2. CASE any_gateway_conn
      <3>1. att[k].boot \in Boot /\ Known(att[k].boot)
        BY <1>7, Steps, Zenon DEF register_route, Registering, TypeInv, AssignmentsTyped, KnownHandler
      <3>2. [type |-> "INSTALL_ROUTE", from |-> k, route |-> route_to(1, att[k].boot)]
               \in GatewayFrame
        BY <3>1, RouteTyped, Zenon DEF GatewayFrame
      <3> QED BY <1>7, <2>2, <3>2, ToGatewayTyped, Zenon DEF register_route, any_gateway_conn
    <2> QED BY Zenon, <2>1, <2>2
  <1>8. ASSUME NEW k \in Attempt, install_route(k)
        PROVE  P
    <2>1. CASE ~(att[k].reply /\ gateway # None)
      BY <1>8, <2>1, <1>u, Zenon DEF install_route
    <2>2. CASE att[k].reply /\ gateway # None
      <3>0. att[k] \in Activating /\ Known(att[k].new.boot)
        BY <1>8, Steps, Zenon DEF install_route, InCutover, TypeInv, AssignmentsTyped, KnownHandler
      <3>1. /\ att[k].new.boot \in Boot /\ Known(att[k].new.boot)
            /\ att[k].new.route_generation \in Nat
        BY <3>0, Zenon DEF Activating, Assignment
      <3>2. [type |-> "INSTALL_ROUTE", from |-> k,
             route |-> route_to(att[k].new.route_generation, att[k].new.boot)] \in GatewayFrame
        BY <3>1, RouteTyped, Zenon DEF GatewayFrame
      <3> QED BY <1>8, <2>2, <3>2, ToGatewayTyped, Zenon DEF install_route
    <2> QED BY Zenon, <2>1, <2>2
  <1>9. ASSUME NEW k \in Attempt, verify(k)
        PROVE  P
    <2>1. CASE ~(att[k].reply /\ any_gateway_conn)
      BY <1>9, <2>1, <1>u, Zenon DEF verify
    <2>2. CASE att[k].reply /\ any_gateway_conn
      <3>2. [type |-> "VERIFY_SERVICE", from |-> k] \in GatewayFrame
        BY Zenon DEF GatewayFrame
      <3> QED BY <1>9, <2>2, <3>2, ToGatewayTyped, Zenon DEF verify, any_gateway_conn
    <2> QED BY Zenon, <2>1, <2>2
  <1> HIDE DEF P
  <1>10. CASE UNCHANGED vars
    BY <1>10, <1>u, Zenon DEF vars, P
  <1>11. CASE Next
    <2>1. ASSUME NEW b \in Boot,
                 hello(b) \/ publish_readiness(b) \/ ctrl_loop(b) \/ link_breaks(b) \/ dies(b)
          PROVE  P
      BY <2>1, <1>u, Zenon DEF hello, publish_readiness, ctrl_loop, link_breaks, dies, P
    <2>2. ASSUME NEW c \in Client, authorize_request(c) \/ client_step(c) \/ resend(c)
          PROVE  P
      BY <2>2, <1>u, Zenon DEF client_step, authorize_request, check_request, record_dispatch,
                  lookup_route, compute_on_worker,
                        authorize_result, resend, P
    <2>2b. CASE orphan_step
      BY <2>2b, <1>u, Zenon DEF orphan_step, orphan_check, orphan_record, P
    <2>3. ASSUME NEW k \in Attempt, NEW b \in Home, register(k, b) PROVE P
      BY <2>3, <1>u, Zenon DEF register, P
    <2>4. ASSUME NEW k \in Attempt, NEW t \in Target, plan_failover(k, t) PROVE P
      BY <2>4, <1>u, Zenon DEF plan_failover, P
    <2>5. ASSUME NEW k \in Attempt, handler_step(k) PROVE P
      BY <2>5, <1>u, <1>7, <1>8, <1>9, Zenon DEF handler_step, register_returns, begin, fence_old,
                                          activate, commit, P
    <2> QED BY Zenon, <1>11, <1>1, <1>2, <1>3, <1>4, <1>5, <1>6, <2>1, <2>2, <2>2b, <2>3, <2>4, <2>5
            DEF Next, gateway_step, P
  <1> QED BY <1>10, <1>11, Zenon DEF P

(* A step of a client's thread, or of the handler that it waits for. *)
client_moves(c) ==
    \/ authorize_request(c) \/ check_request(c) \/ record_dispatch(c)
    \/ lookup_route(c) \/ compute_on_worker(c) \/ authorize_result(c) \/ resend(c)

(* Where a client's thread may go from x.                                   *)
LEMMA ClientSteps ==
    ASSUME TypeInv, [Next]_vars
    PROVE  \/ UNCHANGED client \/ gateway_dies
           \/ \E c \in Client : client_moves(c)
  <1> DEFINE U == UNCHANGED client
  <1>1. ASSUME NEW b \in Boot,
               hello(b) \/ publish_readiness(b) \/ ctrl_loop(b) \/ link_breaks(b) \/ dies(b)
        PROVE  U
    BY <1>1, Zenon DEF hello, publish_readiness, ctrl_loop, link_breaks, dies
  <1>2. ASSUME NEW g \in Gateways, gateway_hello(g) PROVE U
    BY <1>2, Zenon DEF gateway_hello
  <1>3. CASE gateway_step \/ orphan_step
    BY <1>3, Zenon DEF gateway_step, read_route, push_route, control_thread, verify_through_route,
                orphan_step, orphan_check, orphan_record
  <1>4. ASSUME NEW k \in Attempt, NEW b \in Home, register(k, b) PROVE U
    BY <1>4, Zenon DEF register
  <1>5. ASSUME NEW k \in Attempt, NEW t \in Target, plan_failover(k, t) PROVE U
    BY <1>5, Zenon DEF plan_failover
  <1>6. ASSUME NEW k \in Attempt, handler_step(k) PROVE U
    BY <1>6, Zenon DEF handler_step, register_route, register_returns, begin, fence_old, activate,
                install_route, verify, commit
  <1>7. CASE UNCHANGED vars
    BY <1>7, Zenon DEF vars
  <1> HIDE DEF U
  <1>8. CASE Next
    BY <1>8, <1>1, <1>2, <1>3, <1>4, <1>5, <1>6, Zenon DEF Next, client_step, client_moves, U
  <1> QED BY <1>7, <1>8, Zenon DEF U

LEMMA Stages ==
    ASSUME NEW x \in ClientState
    PROVE  /\ x.at \in {"asked", "checked", "authorized"} =>
                 x \in [at : {"asked", "checked", "authorized"}, auth : Assignment]
           /\ x.at = "sent" => x \in [at : {"sent"}, auth : Assignment, route : Route]
           /\ x.at = "returned" => x \in [at : {"returned"}, auth : Assignment, by : Boot,
                                         out : {"withheld", "computed", "refused"}]
           /\ x.at = "answered" => x \in [at : {"answered"}, ok : BOOLEAN,
                                         auth : Assignment \cup {None}, by : Boot \cup {None}]
           /\ x.at \in {"start", "asked", "checked", "authorized", "sent", "returned", "answered"}
  BY Zenon DEF ClientState

LEMMA FailedTyped == failed \in ClientState /\ failed.at = "answered" /\ failed.ok = FALSE
  BY Zenon DEF failed, ClientState

LEMMA GatewayTypedNext ==
    ASSUME TypeInv, [Next]_vars
    PROVE  GatewayTyped'
  <1>0. client \in [Client -> ClientState]
        /\ \A c \in Client : client[c].at \in Flight => gateway # None
    BY Zenon DEF TypeInv, GatewayTyped
  <1>1. GatewayOK' /\ (gateway # None /\ ~gateway_dies => gateway' # None)
    BY Zenon, GatewayOKNext
  <1>2. CASE gateway_dies
    <2>1. client' = [c \in Client |-> IF client[c].at \in Flight THEN failed ELSE client[c]]
      BY <1>2, Zenon DEF gateway_dies
    <2>2. client' \in [Client -> ClientState]
      BY Zenon, <2>1, <1>0, FailedTyped
    <2>3. \A c \in Client : client'[c].at \notin Flight
      BY <2>1, FailedTyped, Zenon DEF Flight
    <2> QED BY <1>1, <2>2, <2>3, Zenon DEF GatewayTyped, GatewayOK
  <1>3. ASSUME ~gateway_dies, UNCHANGED client
        PROVE  GatewayTyped'
    BY <1>3, <1>0, <1>1, Zenon DEF GatewayTyped, GatewayOK
  <1>4. ASSUME NEW c \in Client, NEW x \in ClientState, client' = [client EXCEPT ![c] = x],
               gateway # None \/ x.at \notin Flight, ~gateway_dies
        PROVE  GatewayTyped'
    BY <1>4, <1>0, <1>1, Zenon DEF GatewayTyped, GatewayOK
  <1>5. ASSUME NEW c \in Client, UNCHANGED gateway,
               client_moves(c)
        PROVE  \E x \in ClientState : /\ client' = [client EXCEPT ![c] = x]
                                      /\ gateway # None \/ x.at \notin Flight
    <2>1. CASE authorize_request(c)
      <3>1. gateway # None /\ (client' = [client EXCEPT ![c] = failed]
             \/ (current # None /\ client' = [client EXCEPT ![c] = [at |-> "asked", auth |-> current]]))
        BY <2>1, Zenon DEF authorize_request, reply_failed
      <3>2. current # None => [at |-> "asked", auth |-> current] \in ClientState
        BY Zenon DEF ClientState, TypeInv, AssignmentsTyped
      <3> QED BY Zenon, <3>1, <3>2, FailedTyped
    <2>1b. CASE check_request(c) \/ record_dispatch(c)
      <3> DEFINE x(at) == [client[c] EXCEPT !.at = at]
      <3>1. client[c].at \in {"asked", "checked"}
            /\ \/ client' = [client EXCEPT ![c] = failed]
               \/ client' = [client EXCEPT ![c] = x("checked")]
               \/ client' = [client EXCEPT ![c] = x("authorized")]
        BY <2>1b, Zenon DEF check_request, record_dispatch, reply_failed
      <3>2. gateway # None /\ client[c] \in [at : {"asked", "checked", "authorized"}, auth : Assignment]
        BY <3>1, <1>0, Stages, Zenon DEF Flight
      <3>3. x("checked") \in ClientState /\ x("authorized") \in ClientState
        BY <3>2, Zenon DEF ClientState
      <3> HIDE DEF x
      <3> QED BY Zenon, <3>1, <3>2, <3>3, FailedTyped
    <2>2. CASE lookup_route(c)
      <3> DEFINE x == [at |-> "sent", auth |-> client[c].auth, route |-> gateway.route]
      <3>1. client[c].at = "authorized" /\ (client' = [client EXCEPT ![c] = failed]
             \/ (gateway.route # None /\ client' = [client EXCEPT ![c] = x]))
        BY <2>2, Zenon DEF lookup_route, reply_failed
      <3>2. gateway # None /\ client[c].auth \in Assignment
        BY <3>1, <1>0, Stages, Zenon DEF Flight
      <3>3. gateway.route # None => gateway.route \in Route
        BY <3>2, Zenon DEF TypeInv, GatewayTyped, GatewayState
      <3>4. gateway.route # None => x \in ClientState
        BY <3>2, <3>3, Zenon DEF ClientState
      <3> QED BY Zenon, <3>1, <3>2, <3>4, FailedTyped
    <2>3. CASE compute_on_worker(c)
      <3>1. PICK o \in serve(client[c].route) :
               client' = [client EXCEPT ![c] = [at |-> "returned", auth |-> client[c].auth,
                                                by |-> client[c].route.port, out |-> o]]
        BY <2>3, Zenon DEF compute_on_worker
      <3>2. client[c].at = "sent" /\ gateway # None
            /\ client[c].auth \in Assignment /\ client[c].route \in Route
        BY <2>3, <1>0, Stages, Zenon DEF compute_on_worker, Flight
      <3>3. o \in {"withheld", "computed", "refused"} /\ client[c].route.port \in Boot
        BY <3>1, <3>2, Zenon DEF serve, Route
      <3>4. [at |-> "returned", auth |-> client[c].auth, by |-> client[c].route.port, out |-> o]
               \in ClientState
        BY <3>2, <3>3, Zenon DEF ClientState
      <3> QED BY Zenon, <3>1, <3>2, <3>4
    <2>4. CASE authorize_result(c)
      <3> DEFINE x == [failed EXCEPT !.ok = TRUE, !.auth = client[c].auth, !.by = client[c].by]
      <3>1. client[c].at = "returned" /\ (client' = [client EXCEPT ![c] = failed]
                                          \/ client' = [client EXCEPT ![c] = x])
        BY <2>4, Zenon DEF authorize_result, reply
      <3>2. client[c].auth \in Assignment /\ client[c].by \in Boot
        BY Zenon, <3>1, <1>0, Stages
      <3>3. x \in ClientState /\ x.at = "answered"
        BY <3>2, Zenon DEF ClientState, failed
      <3> HIDE DEF x
      <3> QED BY <3>1, <3>3, FailedTyped, Zenon DEF Flight
    <2>5. CASE resend(c)
      <3>1. [at |-> "start"] \in ClientState
        BY Zenon DEF ClientState
      <3> QED BY <2>5, <3>1, Zenon DEF resend, Flight
    <2> QED BY <1>5, <2>1, <2>1b, <2>2, <2>3, <2>4, <2>5, Zenon DEF client_moves
  <1>6. ASSUME NEW c \in Client,
               client_moves(c)
        PROVE  UNCHANGED gateway
    BY <1>6, Zenon DEF client_moves, authorize_request, check_request, record_dispatch, lookup_route,
                compute_on_worker, authorize_result, resend
  <1> QED BY Zenon, <1>2, <1>3, <1>4, <1>5, <1>6, ClientSteps

-----------------------------------------------------------------------------
(* Theorems about the types and the records                                *)

LEMMA TypeInit == Init => TypeInv
  <1> SUFFICES ASSUME Init PROVE TypeInv
    BY Zenon
  <1>1. WorkersTyped
    BY SeqEmpty DEF Init, WorkersTyped, WorkerState
  <1>2. PeersTyped
    BY <1>1, Zenon DEF Init, PeersTyped
  <1>3. AssignmentsTyped
    BY IdleKnown, Zenon DEF Init, AssignmentsTyped
  <1>4. GatewayTyped
    BY Zenon DEF Init, GatewayTyped, ClientState, Flight
  <1> QED BY <1>1, <1>2, <1>3, <1>4, Zenon DEF TypeInv

LEMMA TypeNext == TypeInv /\ [Next]_vars => TypeInv'
  BY WorkersTypedNext, PeersTypedNext, AssignmentsTypedNext, GatewayTypedNext, Zenon DEF TypeInv

LEMMA TypedAlways == Spec => []TypeInv
  BY TypeInit, TypeNext, PTL DEF Spec

(* The processes agree on the types of what they exchange; a process whose  *)
(* control connection is gone has no frames and no readiness on the way;    *)
(* and a client is between its authorization and its answer only while its  *)
(* gateway lives: for any number of processes, clients and handlers.        *)
THEOREM ServingTyped == Spec => []TypeOK
  <1>1. TypeInv => TypeOK
    <2> SUFFICES ASSUME TypeInv PROVE TypeOK
      BY Zenon
    <2>1. gateway # None => gateway.boot \in gates /\ (gateway.route = None \/ gateway.route \in Route)
      BY Zenon DEF TypeInv, GatewayTyped, GatewayState
    <2>2. \A c \in Client : client[c].at \in Flight => gateway # None
      BY Zenon DEF TypeInv, GatewayTyped
    <2> QED BY <2>1, <2>2, Zenon DEF TypeInv, WorkersTyped, PeersTyped, AssignmentsTyped, TypeOK
  <1> QED BY <1>1, TypedAlways, PTL

(* A client's own step changes only its own state.                          *)
LEMMA OwnStep ==
    ASSUME TypeInv, NEW c \in Client, client_moves(c)
    PROVE  /\ \A d \in Client \ {c} : client'[d] = client[d]
           /\ authorize_request(c) => client'[c] = failed
                                      \/ (client'[c] = [at |-> "asked", auth |-> current]
                                          /\ current # None)
           /\ check_request(c) => client'[c] = failed \/ client'[c] = [client[c] EXCEPT !.at = "checked"]
           /\ record_dispatch(c) => client'[c] = [client[c] EXCEPT !.at = "authorized"]
  <1>0. client \in [Client -> ClientState]
    BY Zenon DEF TypeInv, GatewayTyped
  <1>1. \E x : client' = [client EXCEPT ![c] = x]
    BY Zenon DEF client_moves, authorize_request, check_request, record_dispatch, lookup_route,
                 compute_on_worker, authorize_result, resend, reply, reply_failed
  <1>2. \A d \in Client \ {c} : client'[d] = client[d]
    BY Zenon, <1>0, <1>1
  <1> QED BY <1>0, <1>2, Zenon DEF authorize_request, check_request, record_dispatch, reply_failed

LEMMA RecordNext == TypeInv /\ RecordInv /\ [Next]_vars => RecordInv'
  <1> SUFFICES ASSUME TypeInv, RecordInv, [Next]_vars PROVE RecordInv'
    BY Zenon
  <1>0. client \in [Client -> ClientState]
    BY Zenon DEF TypeInv, GatewayTyped
  <1>0b. \A c \in Client : RequestOf[c] \in Request
    BY Zenon DEF Request
  <1>1. ASSUME UNCHANGED <<record, unknown>>, orphan' \subseteq OrphanState,
               \A x : Orphaned(x) => Orphaned(x)',
               \A c \in Client : client'[c].at = "checked" => client[c].at = "checked"
        PROVE  RecordInv'
    BY <1>1, Zenon DEF RecordInv
  <1>2. CASE UNCHANGED <<record, unknown, orphan, client>>
    BY <1>1, <1>2, Zenon DEF RecordInv, Orphaned
  <1>3. CASE gateway_dies
    <2>1. UNCHANGED <<record, unknown>> /\ orphan' = orphan \cup left_running
          /\ \A c \in Client : client'[c] = client[c] \/ client'[c] = failed
      BY <1>3, Zenon DEF gateway_dies
    <2>2. ASSUME NEW o \in left_running PROVE o \in OrphanState
      <3>1. gateway.boot \in Gateways
        BY <1>3, Zenon DEF gateway_dies, TypeInv, GatewayTyped, GatewayState
      <3>2. PICK c \in Client : /\ client[c].at \in {"asked", "checked"}
                               /\ o = [gateway |-> gateway.boot, at |-> client[c].at,
                                       request |-> RequestOf[c]]
        BY <2>2, Zenon DEF left_running, authorizing
      <3> QED BY <3>1, <3>2, <1>0b, Zenon DEF OrphanState
    <2> QED BY <1>1, <2>1, <2>2, FailedTyped, Zenon DEF RecordInv, Orphaned
  <1>4. ASSUME NEW o \in orphan, NEW stage \in {"checked", "done"}, moves(o, stage)
        PROVE  orphan' \subseteq OrphanState
               /\ Orphaned(o.request)' /\ \A x : Orphaned(x) => Orphaned(x)'
    <2> DEFINE q == [o EXCEPT !.at = stage]
    <2>1. q.request = o.request /\ q \in OrphanState
      BY Zenon DEF RecordInv, OrphanState
    <2>2. orphan' = (orphan \ {o}) \cup {q}
      BY <1>4, Zenon DEF moves
    <2> HIDE DEF q
    <2> QED BY <2>1, <2>2, Zenon DEF Orphaned, RecordInv
  <1>5. ASSUME NEW o \in orphan, orphan_check(o)
        PROVE  RecordInv'
    <2>1. \E stage \in {"checked", "done"} : moves(o, stage)
      BY <1>5, Zenon DEF orphan_check
    <2> QED BY <1>1, <1>4, <1>5, <2>1, Zenon DEF orphan_check
  <1>6. ASSUME NEW o \in orphan, orphan_record(o)
        PROVE  RecordInv'
    <2>1. /\ UNCHANGED <<unknown, client>> /\ record' = [record EXCEPT ![o.request] = "DISPATCHED"]
          /\ moves(o, "done")
      BY <1>6, Zenon DEF orphan_record, record_request
    <2>2. orphan' \subseteq OrphanState /\ o.request \in Request
          /\ Orphaned(o.request)' /\ \A x : Orphaned(x) => Orphaned(x)'
      BY <2>1, <1>4, Zenon DEF RecordInv, OrphanState
    <2> QED BY <2>1, <2>2, Zenon DEF RecordInv
  <1>7. ASSUME NEW c \in Client, check_request(c)
        PROVE  RecordInv'
    <2>1. /\ UNCHANGED <<record, unknown, orphan>>
          /\ client'[c] = failed \/ record[RequestOf[c]] # "OUTCOME_UNKNOWN" \/ RequestOf[c] \in Replayable
      BY <1>7, <1>0, Zenon DEF check_request, reply_failed, replay_refused, retry_allowed
    <2>2. \A d \in Client \ {c} : client'[d] = client[d]
      BY <1>7, OwnStep, Zenon DEF client_moves
    <2>3. \A d \in Client : client'[d].at = "checked" =>
             \/ client[d].at = "checked"
             \/ record[RequestOf[d]] # "OUTCOME_UNKNOWN" \/ RequestOf[d] \in Replayable
      BY <2>1, <2>2, FailedTyped, Zenon
    <2>4. \A x : Orphaned(x)' <=> Orphaned(x)
      BY <2>1, Zenon DEF Orphaned
    <2> QED BY <2>1, <2>3, <2>4, Zenon DEF RecordInv
  <1>8. ASSUME NEW c \in Client, record_dispatch(c)
        PROVE  RecordInv'
    <2>1. /\ UNCHANGED <<unknown, orphan>> /\ client[c].at = "checked"
          /\ record' = [record EXCEPT ![RequestOf[c]] = "DISPATCHED"]
      BY <1>8, Zenon DEF record_dispatch, record_request
    <2>2. client'[c].at = "authorized"
      <3>1. client[c] \in [at : {"asked", "checked", "authorized"}, auth : Assignment]
        BY Zenon, <2>1, <1>0, Stages
      <3> QED BY <1>8, <3>1, OwnStep, Zenon DEF client_moves
    <2>3. \A d \in Client : client'[d].at = "checked" => client[d].at = "checked"
      BY <1>8, <2>2, OwnStep, Zenon DEF client_moves
    <2> QED BY <2>1, <2>3, <1>0b, Zenon DEF RecordInv, Orphaned
  <1>9. ASSUME NEW c \in Client, authorize_result(c)
        PROVE  RecordInv'
    <2>1. /\ UNCHANGED orphan
          /\ \/ UNCHANGED <<record, unknown>>
             \/ /\ record' = [record EXCEPT ![RequestOf[c]] = "OUTCOME_UNKNOWN"]
                /\ unknown' = unknown \cup {RequestOf[c]}
      BY <1>9, Zenon DEF authorize_result, set_outcome_unknown
    <2>2. \A d \in Client : client[d].at # "checked"
      BY <1>9, Zenon DEF authorize_result, rpc_free, authorizing
    <2>3. client'[c].at = "answered"
      <3> DEFINE x == [failed EXCEPT !.ok = TRUE, !.auth = client[c].auth, !.by = client[c].by]
      <3>1. client' = [client EXCEPT ![c] = failed] \/ client' = [client EXCEPT ![c] = x]
        BY <1>9, Zenon DEF authorize_result, reply
      <3>2. x.at = "answered" /\ failed.at = "answered"
        BY Zenon DEF failed
      <3> HIDE DEF x
      <3> QED BY Zenon, <3>1, <3>2, <1>0
    <2>4. \A d \in Client \ {c} : client'[d] = client[d]
      BY <1>9, OwnStep, Zenon DEF client_moves
    <2>5. \A d \in Client : client'[d].at # "checked"
      BY <2>2, <2>3, <2>4
    <2> QED BY <2>1, <2>2, <2>5, <1>0b DEF RecordInv, Orphaned
  <1>10. ASSUME NEW c \in Client,
                authorize_request(c) \/ lookup_route(c) \/ compute_on_worker(c) \/ resend(c)
         PROVE  RecordInv'
    <2>1. UNCHANGED <<record, unknown, orphan>>
      BY <1>10, Zenon DEF authorize_request, lookup_route, compute_on_worker, resend
    <2>2. client'[c].at # "checked"
      <3>1. CASE authorize_request(c)
        <4>1. client'[c] = failed \/ client'[c] = [at |-> "asked", auth |-> current]
          BY <3>1, OwnStep, Zenon DEF client_moves
        <4> QED BY <4>1, FailedTyped
      <3>2. CASE lookup_route(c)
        <4>1. \/ client'[c] = failed
              \/ client'[c] = [at |-> "sent", auth |-> client[c].auth, route |-> gateway.route]
          BY <3>2, <1>0, Zenon DEF lookup_route, reply_failed
        <4> QED BY <4>1, FailedTyped
      <3>3. CASE compute_on_worker(c)
        BY <3>3, <1>0 DEF compute_on_worker
      <3>4. CASE resend(c)
        BY <3>4, <1>0 DEF resend
      <3> QED BY Zenon, <1>10, <3>1, <3>2, <3>3, <3>4
    <2>3. \A d \in Client : client'[d].at = "checked" => client[d].at = "checked"
      BY <1>10, <2>2, OwnStep, Zenon DEF client_moves
    <2> QED BY <1>1, <2>1, <2>3, Zenon DEF RecordInv, Orphaned
  <1>11. CASE UNCHANGED vars
    BY <1>2, <1>11, Zenon DEF vars
  <1> QED BY <1>2, <1>3, <1>5, <1>6, <1>7, <1>8, <1>9, <1>10, <1>11, Records, Zenon
          DEF orphan_step, client_step

(* A request whose outcome was reported as unknown is dispatched again only  *)
(* if its policy allows it, whichever clients send it and however often, and *)
(* whichever thread of the gateway reported it, unless a gateway died while  *)
(* the coordinator was authorizing the request.                              *)
THEOREM UnknownStaysUndispatched == Spec => UnknownNotDispatchedAgain
  <1>1. Init => RecordInv
    BY Zenon DEF Init, RecordInv
  <1>2. TypeInv /\ RecordInv /\ [Next]_vars =>
           [\A c \in Client :
               /\ client[c].at # "authorized" /\ client'[c].at = "authorized"
               /\ RequestOf[c] \in unknown \ Replayable
               => Orphaned(RequestOf[c])]_vars
    <2> SUFFICES ASSUME TypeInv, RecordInv, [Next]_vars, NEW c \in Client,
                        client[c].at # "authorized", client'[c].at = "authorized",
                        RequestOf[c] \in unknown \ Replayable
                 PROVE  Orphaned(RequestOf[c])
      BY Zenon
    <2>0. client \in [Client -> ClientState]
      BY Zenon DEF TypeInv, GatewayTyped
    <2>1. client'[c] # client[c] /\ client'[c] # failed
      BY FailedTyped, Zenon
    <2>2. PICK d \in Client : client_moves(d)
      <3>1. ~gateway_dies
        BY <2>1, Zenon DEF gateway_dies
      <3> QED BY Zenon, <2>1, <3>1, ClientSteps
    <2>3. d = c
      BY Zenon, <2>1, <2>2, OwnStep
    <2>4. CASE client[c].at = "checked"
      BY <2>4, Zenon DEF RecordInv
    <2>5. CASE client[c].at # "checked"
      <3>1. ~authorize_request(c)
        <4>1. authorize_request(c) =>
                 client'[c] = failed \/ client'[c] = [at |-> "asked", auth |-> current]
          BY Zenon, <2>2, <2>3, OwnStep
        <4> QED BY <2>1, <4>1
      <3>2. ~check_request(c)
        <4>1. ASSUME check_request(c) PROVE client[c].at = "asked"
          BY <4>1, Zenon DEF check_request
        <4>2. client[c].at = "asked" =>
                 client[c] \in [at : {"asked", "checked", "authorized"}, auth : Assignment]
          BY Zenon, <2>0, Stages
        <4> QED BY <4>1, <4>2, <2>1, <2>2, <2>3, OwnStep
      <3>3. ~record_dispatch(c)
        BY <2>5, Zenon DEF record_dispatch
      <3>4. ~lookup_route(c) /\ ~compute_on_worker(c) /\ ~resend(c)
        BY <2>0 DEF lookup_route, compute_on_worker, resend
      <3>5. ~authorize_result(c)
        <4> DEFINE x == [failed EXCEPT !.ok = TRUE, !.auth = client[c].auth, !.by = client[c].by]
        <4>1. authorize_result(c) =>
                 client' = [client EXCEPT ![c] = failed] \/ client' = [client EXCEPT ![c] = x]
          BY Zenon DEF authorize_result, reply
        <4>2. x.at = "answered" /\ failed.at = "answered"
          BY Zenon DEF failed
        <4> HIDE DEF x
        <4> QED BY Zenon, <4>1, <4>2, <2>0
      <3> QED BY <2>2, <2>3, <3>1, <3>2, <3>3, <3>4, <3>5, Zenon DEF client_moves
    <2> QED BY Zenon, <2>4, <2>5
  <1>3. Spec => []RecordInv
    BY <1>1, RecordNext, TypedAlways, PTL DEF Spec
  <1> QED BY <1>2, <1>3, TypedAlways, PTL DEF Spec, UnknownNotDispatchedAgain

-----------------------------------------------------------------------------
(* One handler at a time                                                   *)

(* A step of execute_plan before its commit.                                *)
LEMMA CutoverMoves ==
    ASSUME TypeInv, NEW k \in Attempt,
           begin(k) \/ fence_old(k) \/ activate(k) \/ install_route(k) \/ verify(k)
    PROVE  /\ InCutover(att[k]) /\ UNCHANGED <<current, calls, client>>
           /\ \/ att'[k] = idle
              \/ InCutover(att'[k]) /\ att'[k].old = att[k].old /\ att'[k].new = att[k].new
           /\ begin(k) => att'[k] = idle \/ (att'[k].step = "fencing" /\ current = att[k].old)
           /\ fence_old(k) => att'[k].step = "fenced"
           /\ activate(k) => att'[k] = idle \/ att'[k].step = "activating"
           /\ install_route(k) => att'[k] = idle \/ att'[k].step = "routing"
           /\ verify(k) => att'[k] = idle \/ att'[k].step = "verifying"
  <1>0. att \in [Attempt -> Handler]
    BY Zenon DEF TypeInv, AssignmentsTyped
  <1>1. CASE begin(k)
    <2>1. att[k] \in Planned
      BY <1>1, <1>0, Steps, Zenon DEF begin
    <2>2. /\ att[k].step = "planned" /\ UNCHANGED <<current, calls, client>>
          /\ \/ att'[k] = idle
             \/ att'[k] = [att[k] EXCEPT !.step = "fencing"] /\ current = att[k].old
      BY <1>1, <1>0, Zenon DEF begin, goes, returns
    <2>3. ~fence_old(k) /\ ~activate(k) /\ ~install_route(k) /\ ~verify(k)
      BY <2>2, Zenon DEF fence_old, activate, install_route, verify
    <2> QED BY <2>1, <2>2, <2>3, Zenon DEF InCutover, Planned
  <1>2. CASE fence_old(k)
    <2>1. att[k] \in Planned
      BY <1>2, <1>0, Steps, Zenon DEF fence_old
    <2>2. att'[k] = [att[k] EXCEPT !.step = "fenced"] /\ att[k].step = "fencing"
          /\ UNCHANGED <<current, calls, client>>
      BY <1>2, <1>0, Zenon DEF fence_old, goes
    <2>3. ~begin(k) /\ ~activate(k) /\ ~install_route(k) /\ ~verify(k)
      BY <2>2, Zenon DEF begin, activate, install_route, verify
    <2> QED BY <2>1, <2>2, <2>3, Zenon DEF InCutover, Planned
  <1>3. CASE activate(k)
    <2>1. att[k].step = "fenced" /\ UNCHANGED <<current, calls, client>>
          /\ \/ att'[k] = idle
             \/ att'[k] = [step |-> "activating", old |-> att[k].old, new |-> att[k].new,
                           via |-> peer[TargetOf[att[k].new.boot]], reply |-> None]
      BY <1>3, <1>0, Zenon DEF activate, goes, returns
    <2>3. ~begin(k) /\ ~fence_old(k) /\ ~install_route(k) /\ ~verify(k)
      BY <2>1, Zenon DEF begin, fence_old, install_route, verify
    <2> QED BY <2>1, <2>3 DEF InCutover
  <1>4. CASE install_route(k)
    <2>1. att[k].step = "activating" /\ UNCHANGED <<current, calls, client>>
          /\ \/ att'[k] = idle
             \/ att'[k] = [step |-> "routing", old |-> att[k].old, new |-> att[k].new,
                           reply |-> None]
      BY <1>4, <1>0, Zenon DEF install_route, goes, returns
    <2>3. ~begin(k) /\ ~fence_old(k) /\ ~activate(k) /\ ~verify(k)
      BY <2>1, Zenon DEF begin, fence_old, activate, verify
    <2> QED BY <2>1, <2>3 DEF InCutover
  <1>5. CASE verify(k)
    <2>0. att[k] \in Routing
      BY <1>5, <1>0, Steps, Zenon DEF verify
    <2>1. att[k].step = "routing" /\ UNCHANGED <<current, calls, client>>
          /\ \/ att'[k] = idle
             \/ att'[k] = [att[k] EXCEPT !.step = "verifying", !.reply = None]
      BY <1>5, <1>0, Zenon DEF verify, goes, returns
    <2>3. ~begin(k) /\ ~fence_old(k) /\ ~activate(k) /\ ~install_route(k)
      BY <2>1, Zenon DEF begin, fence_old, activate, install_route
    <2> QED BY <2>0, <2>1, <2>3, Zenon DEF InCutover, Routing
  <1> QED BY Zenon, <1>1, <1>2, <1>3, <1>4, <1>5

Waiting(c) == client[c].at \in Flight

(* The authorization of a client is the assignment it was given.            *)
LEMMA Authorizations ==
    ASSUME TypeInv, [Next]_vars, NEW c \in Client, Waiting(c)'
    PROVE  \/ Waiting(c) /\ client'[c].auth = client[c].auth
           \/ client'[c].auth = current /\ current # None /\ UNCHANGED current
  <1>0. client \in [Client -> ClientState]
    BY Zenon DEF TypeInv, GatewayTyped
  <1>1. CASE UNCHANGED client
    BY <1>1, Zenon DEF Waiting
  <1>2. CASE gateway_dies
    <2>1. client'[c] = client[c] \/ client'[c] = failed
      BY <1>2, Zenon DEF gateway_dies
    <2> QED BY <2>1, FailedTyped, Zenon DEF Waiting, Flight
  <1>3. ASSUME NEW d \in Client, d # c,
               client_moves(d)
        PROVE  Waiting(c) /\ client'[c].auth = client[c].auth
    <2>2. client'[c] = client[c]
      BY Zenon, <1>3, OwnStep
    <2> QED BY <2>2, Zenon DEF Waiting
  <1>4. CASE authorize_request(c)
    <2>1. \/ client'[c] = failed
          \/ client'[c] = [at |-> "asked", auth |-> current] /\ current # None
      BY <1>4, OwnStep, Zenon DEF client_moves
    <2>2. UNCHANGED current
      BY <1>4, Zenon DEF authorize_request
    <2> QED BY <2>1, <2>2, FailedTyped DEF Waiting, Flight
  <1>4b. CASE check_request(c) \/ record_dispatch(c)
    <2>1. client[c].at \in {"asked", "checked"}
      BY <1>4b, Zenon DEF check_request, record_dispatch
    <2>2. client[c] \in [at : {"asked", "checked", "authorized"}, auth : Assignment]
      BY Zenon, <2>1, <1>0, Stages
    <2>3. client'[c] = failed \/ client'[c].auth = client[c].auth
      BY <1>4b, <2>2, OwnStep, Zenon DEF client_moves
    <2> QED BY <2>1, <2>3, FailedTyped, Zenon DEF Waiting, Flight
  <1>5. CASE lookup_route(c)
    <2>1. client[c].at = "authorized" /\
          \/ client'[c] = failed
          \/ client'[c] = [at |-> "sent", auth |-> client[c].auth, route |-> gateway.route]
      BY <1>5, <1>0, Zenon DEF lookup_route, reply_failed
    <2> QED BY <2>1, FailedTyped DEF Waiting, Flight
  <1>6. CASE compute_on_worker(c)
    <2>1. client[c].at = "sent" /\ client'[c].auth = client[c].auth
      BY <1>6, <1>0 DEF compute_on_worker
    <2> QED BY <2>1, Zenon DEF Waiting, Flight
  <1>7. CASE authorize_result(c)
    <2> DEFINE x == [failed EXCEPT !.ok = TRUE, !.auth = client[c].auth, !.by = client[c].by]
    <2>1. client' = [client EXCEPT ![c] = failed] \/ client' = [client EXCEPT ![c] = x]
      BY <1>7, Zenon DEF authorize_result, reply
    <2>1b. x.at = "answered" /\ failed.at = "answered"
      BY Zenon DEF failed
    <2> HIDE DEF x
    <2>2. client'[c].at = "answered"
      BY Zenon, <2>1, <2>1b, <1>0
    <2> QED BY <2>2, Zenon DEF Waiting, Flight
  <1>8. CASE resend(c)
    <2>1. client'[c].at = "start"
      BY <1>8, <1>0, Zenon DEF resend
    <2> QED BY <2>1, Zenon DEF Waiting, Flight
  <1> QED BY <1>1, <1>2, <1>3, <1>4, <1>4b, <1>5, <1>6, <1>7, <1>8, ClientSteps, Zenon DEF client_moves

LEMMA FreshNext ==
    ASSUME SoleHandler, TypeInv, FreshInv, HandlerInv, [Next]_vars
    PROVE  FreshInv'
  <1>0. AssignmentsTyped /\ AssignmentsTyped' /\ calls \in Nat /\ calls' \in Nat
    BY AssignmentsTypedNext, Zenon DEF TypeInv, AssignmentsTyped
  <1>0b. att \in [Attempt -> Handler] /\ att' \in [Attempt -> Handler]
    BY <1>0, Zenon DEF AssignmentsTyped
  <1>0c. ASSUME NEW c \in Client, Waiting(c)'
         PROVE  /\ current # None /\ client'[c].auth.id <= calls + 1
                /\ \A k \in Attempt : InCutover(att[k]) => client'[c].auth.id <= calls
    BY <1>0c, Authorizations, Zenon DEF FreshInv, Waiting
  <1>0d. \A k \in Attempt : InCutover(att[k]) => att[k].new.id = calls + 1 /\ current.id <= calls
    BY Zenon DEF FreshInv
  <1>0e. current # None => current.id <= calls + 1
    BY Zenon DEF FreshInv
  <1>1. CASE Answers /\ UNCHANGED <<current, table, fenced, calls>>
    <2>1. ASSUME NEW k \in Attempt, InCutover(att'[k])
          PROVE  InCutover(att[k]) /\ att'[k].new = att[k].new
      BY <1>1, <2>1, Zenon DEF Answers, SameHandler, InCutover
    <2> QED BY <1>1, <2>1, <1>0c, <1>0d, <1>0e, Zenon DEF FreshInv, Waiting, InCutover
  <1>2. ASSUME NEW k \in Attempt, NEW b \in Home, register(k, b)
        PROVE  FreshInv'
    <2>1. /\ current = None /\ current' = [id |-> 1, boot |-> b, route_generation |-> 1]
          /\ UNCHANGED calls /\ att'[k].step = "registering"
      BY <1>2, <1>0b, Zenon DEF register
    <2>2. \A l \in Attempt : ~InCutover(att'[l])
      BY <2>1, Zenon DEF SoleHandler, InCutover
    <2> QED BY <2>1, <2>2, <1>0, <1>0c DEF FreshInv, Waiting, InCutover
  <1>3. ASSUME NEW k \in Attempt, NEW t \in Target, plan_failover(k, t)
        PROVE  FreshInv'
    <2>1. /\ current # None /\ UNCHANGED current /\ calls' = calls + 1
          /\ att'[k].new.id = calls + 2
      BY <1>3, <1>0b, Zenon DEF plan_failover, goes
    <2>2. \A l \in Attempt : att'[l].new.id = calls + 2
      BY <2>1, Zenon DEF SoleHandler
    <2>3. \A c \in Client : Waiting(c)' => client'[c].auth.id <= calls'
      BY Zenon, <2>1, <1>0c
    <2>4. \A c \in Client : Waiting(c)' => client'[c].auth.id <= calls' + 1
      <3>1. ASSUME NEW c \in Client, Waiting(c)' PROVE client'[c].auth.id \in Nat
        <4>1. client'[c] \in ClientState
          BY GatewayTypedNext, Zenon DEF GatewayTyped
        <4> QED BY <3>1, <4>1, Stages, Zenon DEF Waiting, Flight, Assignment
      <3> QED BY <2>3, <3>1, <1>0
    <2>5. current'.id <= calls' /\ current'.id <= calls' + 1
      BY <2>1, <1>0, <1>0e DEF AssignmentsTyped, Assignment
    <2>6. calls + 2 = calls' + 1
      BY <2>1, <1>0
    <2> QED BY <2>1, <2>2, <2>3, <2>4, <2>5, <2>6, Zenon DEF FreshInv, Waiting, InCutover
  <1>4. ASSUME NEW k \in Attempt, register_route(k) \/ register_returns(k)
        PROVE  FreshInv'
    <2>1. UNCHANGED <<current, calls>> /\ ~InCutover(att'[k])
      BY <1>4, <1>0b DEF register_route, register_returns, returns, goes, idle, InCutover
    <2>2. \A l \in Attempt : ~InCutover(att'[l])
      BY <2>1, Zenon DEF SoleHandler
    <2> QED BY <2>1, <2>2, <1>0c, <1>0e, Zenon DEF FreshInv, Waiting, InCutover
  <1>5. ASSUME NEW k \in Attempt,
               begin(k) \/ fence_old(k) \/ activate(k) \/ install_route(k) \/ verify(k)
        PROVE  FreshInv'
    <2>1. /\ InCutover(att[k]) /\ UNCHANGED <<current, calls, client>>
          /\ ~InCutover(att'[k]) \/ att'[k].new = att[k].new
      BY <1>5, CutoverMoves DEF idle, InCutover
    <2>2. \A l \in Attempt : InCutover(att'[l]) => att'[l].new.id = calls + 1
      BY <2>1, <1>0d, Zenon DEF SoleHandler
    <2> QED BY <2>1, <2>2, <1>0c, <1>0d, <1>0e, Zenon DEF FreshInv, Waiting, InCutover
  <1>6. ASSUME NEW k \in Attempt, commit(k)
        PROVE  FreshInv'
    <2>1. /\ InCutover(att[k]) /\ current' \in {current, att[k].new} /\ UNCHANGED calls
          /\ att'[k].step = "idle"
      BY <1>6, <1>0b, Zenon DEF commit, InCutover, returns, goes, idle
    <2>2. \A l \in Attempt : ~InCutover(att'[l])
      BY <2>1, Zenon DEF SoleHandler, InCutover
    <2>3. current' # None => current'.id <= calls + 1
      BY <2>1, <1>0, <1>0d, <1>0e
    <2>4. current # None => current' # None
      <3>1. att[k].new \in Assignment
        BY <2>1, <1>0b, Steps DEF InCutover, Planned, Activating, Routing
      <3> QED BY Zenon, <2>1, <3>1, NoneAssumption
    <2> QED BY <2>1, <2>2, <2>3, <2>4, <1>0c, Zenon DEF FreshInv, Waiting, InCutover
  <1> QED BY <1>1, <1>2, <1>3, <1>4, <1>5, <1>6, <1>0b, HandlersAssign, Zenon DEF handler_step

LEMMA HandlerNext ==
    ASSUME SoleHandler, TypeInv, HandlerInv, [Next]_vars
    PROVE  HandlerInv'
  <1> USE NoneAssumption
  <1>0. att \in [Attempt -> Handler] /\ att' \in [Attempt -> Handler]
    BY AssignmentsTypedNext, Zenon DEF TypeInv, AssignmentsTyped
  <1> DEFINE H(a, cur, fen) ==
        /\ a.step \in {"registering", "reg_routing"} => cur # None /\ a.boot = cur.boot
        /\ InCutover(a) => cur # None
        /\ a.step \in {"fencing", "fenced", "activating", "routing", "verifying"} => cur = a.old
        /\ a.step \in {"fenced", "activating", "routing", "verifying"} => a.old.boot \in fen
  <1>0b. \A l \in Attempt : H(att[l], current, fenced)
    BY Zenon DEF HandlerInv
  <1>0c. ASSUME NEW k \in Attempt, H(att'[k], current', fenced')
         PROVE  HandlerInv'
    BY <1>0c, Zenon DEF SoleHandler, HandlerInv, InCutover
  <1>0d. ASSUME NEW k \in Attempt, att'[k] = idle
         PROVE  HandlerInv'
    BY <1>0c, <1>0d DEF idle, InCutover
  <1>1. CASE Answers /\ UNCHANGED <<current, table, fenced, calls>>
    <2>1. ASSUME NEW k \in Attempt PROVE H(att'[k], current', fenced')
      BY <1>1, <1>0b DEF Answers, SameHandler, InCutover
    <2> QED BY <2>1, <1>0c, Zenon DEF HandlerInv
  <1>2. ASSUME NEW k \in Attempt, NEW b \in Home, register(k, b)
        PROVE  HandlerInv'
    <2>1. /\ current' = [id |-> 1, boot |-> b, route_generation |-> 1]
          /\ att'[k].step = "registering" /\ att'[k].boot = b
      BY <1>2, <1>0, Zenon DEF register
    <2>2. current' # None
      BY <2>1 DEF Assignment
    <2> QED BY <2>1, <2>2, <1>0c, Zenon DEF InCutover
  <1>3. ASSUME NEW k \in Attempt, NEW t \in Target, plan_failover(k, t)
        PROVE  HandlerInv'
    <2>1. current' # None /\ att'[k].step = "planned"
      BY <1>3, <1>0, Zenon DEF plan_failover, goes
    <2> QED BY Zenon, <2>1, <1>0c
  <1>4. ASSUME NEW k \in Attempt, register_route(k)
        PROVE  HandlerInv'
    <2>1. /\ att[k].step = "registering" /\ UNCHANGED current
          /\ att'[k] = idle \/ att'[k] = [step |-> "reg_routing", boot |-> att[k].boot, reply |-> None]
      BY <1>4, <1>0, Zenon DEF register_route, goes, returns
    <2> QED BY <2>1, <1>0b, <1>0c, <1>0d DEF InCutover
  <1>5. ASSUME NEW k \in Attempt, register_returns(k) \/ commit(k)
        PROVE  HandlerInv'
    BY <1>5, <1>0, <1>0d, Zenon DEF register_returns, commit, goes, returns
  <1>6. ASSUME NEW k \in Attempt,
               begin(k) \/ fence_old(k) \/ activate(k) \/ install_route(k) \/ verify(k)
        PROVE  HandlerInv'
    <2>1. CASE att'[k] = idle
      BY Zenon, <2>1, <1>0d
    <2>2. CASE att'[k] # idle
      <3>1. /\ InCutover(att[k]) /\ UNCHANGED current /\ InCutover(att'[k])
            /\ att'[k].old = att[k].old
        BY Zenon, <1>6, <2>2, CutoverMoves
      <3>2. current # None
        BY Zenon, <3>1, <1>0b
      <3>3. CASE begin(k)
        <4>1. att'[k].step = "fencing" /\ current = att[k].old
          BY Zenon, <2>2, <3>3, CutoverMoves
        <4> QED BY Zenon, <3>1, <3>2, <4>1, <1>0c
      <3>4. CASE fence_old(k)
        <4>1. att[k].step = "fencing" /\ fenced' = fenced \cup {att[k].old.boot}
          BY <3>4, Zenon DEF fence_old
        <4>2. att'[k].step = "fenced"
          BY Zenon, <3>4, CutoverMoves
        <4> QED BY Zenon, <3>1, <3>2, <4>1, <4>2, <1>0b, <1>0c
      <3>5. CASE activate(k) \/ install_route(k) \/ verify(k)
        <4>1. att[k].step \in {"fenced", "activating", "routing"} /\ UNCHANGED fenced
          BY <3>5, Zenon DEF activate, install_route, verify
        <4>2. att'[k].step \in {"activating", "routing", "verifying"}
          BY Zenon, <2>2, <3>5, CutoverMoves
        <4> QED BY Zenon, <3>1, <3>2, <4>1, <4>2, <1>0b, <1>0c
      <3> QED BY Zenon, <1>6, <3>3, <3>4, <3>5
    <2> QED BY Zenon, <2>1, <2>2
  <1> QED BY <1>1, <1>2, <1>3, <1>4, <1>5, <1>6, <1>0, HandlersAssign, Zenon DEF handler_step

-----------------------------------------------------------------------------
(* The acknowledgments of ACTIVATE                                         *)

NoActivation == \A b \in Boot : \A i \in DOMAIN ctl[b] : ctl[b][i].type # "ACTIVATE_TARGET"

Awaits(a) == a.step \in {"registering", "activating"} /\ a.reply = None

(* No ACTIVATE is on its way when the handler waits for no acknowledgment.  *)
LEMMA QuietLinks ==
    ASSUME SoleHandler, TypeInv, ActivationInv, NEW k \in Attempt, ~Awaits(att[k])
    PROVE  NoActivation
  <1> SUFFICES ASSUME NEW b \in Boot, NEW i \in DOMAIN ctl[b], ctl[b][i].type = "ACTIVATE_TARGET"
               PROVE  FALSE
    BY Zenon DEF NoActivation
  <1>1. ctl[b][i] \in CtlFrame
    BY SeqElement DEF TypeInv, WorkersTyped
  <1>2. ctl[b][i].from \in Attempt
    BY <1>1, Zenon DEF CtlFrame
  <1>3. Awaits(att[ctl[b][i].from])
    BY Zenon DEF ActivationInv, Awaits
  <1> QED BY <1>2, <1>3, Zenon DEF SoleHandler

(* The one ACTIVATE that a handler sends when none is on its way.           *)
LEMMA SendActivate ==
    ASSUME SoleHandler, TypeInv, NoActivation, NEW k \in Attempt, NEW v \in Boot,
           ctl' = [ctl EXCEPT ![v] = Append(@, [type |-> "ACTIVATE_TARGET", from |-> k])],
           Awaits(att'[k]), att'[k].via = v
    PROVE  ActivationInv'
  <1>0. ctl \in [Boot -> Seq(CtlFrame)] /\ [type |-> "ACTIVATE_TARGET", from |-> k] \in CtlFrame
    BY Zenon DEF TypeInv, WorkersTyped, CtlFrame
  <1>1. ASSUME NEW b \in Boot, b # v
        PROVE  \A i \in DOMAIN ctl'[b] : ctl'[b][i].type # "ACTIVATE_TARGET"
    BY <1>0, <1>1, Zenon DEF NoActivation
  <1> DEFINE q == ctl'[v]
             f == [type |-> "ACTIVATE_TARGET", from |-> k]
  <1>2. /\ DOMAIN q = 1 .. Len(ctl[v]) + 1 /\ q[Len(ctl[v]) + 1] = f
        /\ \A i \in 1 .. Len(ctl[v]) : q[i] = ctl[v][i]
    <2>1. q = Append(ctl[v], f) /\ ctl[v] \in Seq(CtlFrame)
      BY Zenon, <1>0
    <2> QED BY <2>1, <1>0, SeqAppend, SeqLen
  <1>3. \A i \in 1 .. Len(ctl[v]) : q[i].type # "ACTIVATE_TARGET"
    <2>1. DOMAIN ctl[v] = 1 .. Len(ctl[v])
      BY Zenon, <1>0, SeqLen
    <2> QED BY <1>2, <2>1 DEF NoActivation
  <1>3b. Len(ctl[v]) \in Nat
    BY Zenon, <1>0, SeqLen
  <1>4. \A i \in DOMAIN q : q[i].type = "ACTIVATE_TARGET" => i = Len(ctl[v]) + 1 /\ q[i].from = k
    BY <1>2, <1>3, <1>3b
  <1> HIDE DEF q
  <1>5. ASSUME NEW b \in Boot, NEW i \in DOMAIN ctl'[b], ctl'[b][i].type = "ACTIVATE_TARGET"
        PROVE  b = v /\ ctl'[b][i].from = k
    BY <1>1, <1>4, <1>5, Zenon DEF q
  <1>6. ASSUME NEW b \in Boot, NEW i \in DOMAIN ctl'[b], NEW j \in DOMAIN ctl'[b],
               ctl'[b][i].type = "ACTIVATE_TARGET", ctl'[b][j].type = "ACTIVATE_TARGET"
        PROVE  i = j
    BY <1>1, <1>4, <1>6 DEF q
  <1> QED BY <1>5, <1>6, Zenon DEF ActivationInv, Awaits

LEMMA ActivationNext ==
    ASSUME SoleHandler, TypeInv, ActivationInv, GatewayInv, [Next]_vars, ~pushed
    PROVE  ActivationInv'
  <1>0. att \in [Attempt -> Handler] /\ ctl \in [Boot -> Seq(CtlFrame)]
    BY Zenon DEF TypeInv, AssignmentsTyped, WorkersTyped
  <1>0b. ASSUME NEW k \in Attempt, ~Awaits(att[k]), UNCHANGED ctl
         PROVE  ActivationInv'
    BY <1>0b, QuietLinks DEF NoActivation, ActivationInv
  <1>u. CASE UNCHANGED <<ctl, att>>
    BY <1>u DEF ActivationInv
  <1>1. ASSUME NEW b \in Boot, ctrl_loop(b)
        PROVE  ActivationInv'
    <2>1. ctl[b] # <<>> /\ ctl' = [ctl EXCEPT ![b] = Tail(ctl[b])]
      BY <1>1, Zenon DEF ctrl_loop
    <2>2. ctl[b] \in Seq(CtlFrame) /\ Len(ctl[b]) \in Nat /\ Len(ctl[b]) > 0
          /\ DOMAIN ctl[b] = 1 .. Len(ctl[b]) /\ Head(ctl[b]) = ctl[b][1]
      BY <1>0, <2>1, SeqLen, SeqEmpty
    <2>3. /\ DOMAIN ctl'[b] = 1 .. Len(ctl[b]) - 1
          /\ \A i \in 1 .. Len(ctl[b]) - 1 : ctl'[b][i] = ctl[b][i + 1]
      <3>1. ctl'[b] = Tail(ctl[b])
        BY Zenon, <2>1, <1>0
      <3>2. Tail(ctl[b]) \in Seq(CtlFrame) /\ Len(Tail(ctl[b])) = Len(ctl[b]) - 1
            /\ \A i \in 1 .. Len(Tail(ctl[b])) : Tail(ctl[b])[i] = ctl[b][i + 1]
        BY Zenon, <2>1, <2>2, SeqHeadTail
      <3> QED BY Zenon, <3>1, <3>2, SeqLen
    <2>4. \A i \in DOMAIN ctl'[b] : i + 1 \in DOMAIN ctl[b] /\ i + 1 # 1 /\ ctl'[b][i] = ctl[b][i + 1]
      BY <2>2, <2>3
    <2>5. 1 \in DOMAIN ctl[b]
      BY <2>2
    <2>6. CASE Head(ctl[b]).type = "FENCE_ASSIGNMENT"
      <3>1. UNCHANGED att
        BY <1>1, <2>6, Zenon DEF ctrl_loop
      <3>2. ASSUME NEW x \in Boot, NEW i \in DOMAIN ctl'[x]
            PROVE  \E m \in DOMAIN ctl[x] : ctl'[x][i] = ctl[x][m] /\ m = IF x = b THEN i + 1 ELSE i
        BY Zenon, <2>1, <2>4, <1>0
      <3>3. ASSUME NEW x \in Boot, NEW i \in DOMAIN ctl'[x], ctl'[x][i].type = "ACTIVATE_TARGET"
            PROVE  LET a == att'[ctl'[x][i].from]
                   IN  a.step \in {"registering", "activating"} /\ a.via = x /\ a.reply = None
        BY <3>1, <3>2, <3>3 DEF ActivationInv
      <3>4. ASSUME NEW x \in Boot, NEW i \in DOMAIN ctl'[x], NEW j \in DOMAIN ctl'[x],
                   ctl'[x][i].type = "ACTIVATE_TARGET", ctl'[x][j].type = "ACTIVATE_TARGET"
            PROVE  i = j
        <4>1. i \in Int /\ j \in Int
          <5>1. x # b => DOMAIN ctl'[x] = 1 .. Len(ctl[x])
            BY Zenon, <2>1, <1>0, SeqLen
          <5> QED BY <5>1, <2>3
        <4>2. (IF x = b THEN i + 1 ELSE i) = (IF x = b THEN j + 1 ELSE j)
          BY <3>2, <3>4 DEF ActivationInv
        <4> QED BY <4>1, <4>2
      <3> QED BY <3>3, <3>4 DEF ActivationInv
    <2>7. CASE Head(ctl[b]).type # "FENCE_ASSIGNMENT"
      <3>1. ctl[b][1] \in CtlFrame /\ ctl[b][1].type = "ACTIVATE_TARGET"
        BY <2>2, <2>5, <2>7, SeqElement DEF CtlFrame
      <3>2. ctl[b][1].from \in Attempt
        BY <3>1, Zenon DEF CtlFrame
      <3>3. \A i \in DOMAIN ctl'[b] : ctl'[b][i].type # "ACTIVATE_TARGET"
        BY <2>4, <2>5, <3>1 DEF ActivationInv
      <3>4. ASSUME NEW x \in Boot, x # b, NEW i \in DOMAIN ctl[x], ctl[x][i].type = "ACTIVATE_TARGET"
            PROVE  FALSE
        <4>1. ctl[x][i] \in CtlFrame
          BY <1>0, SeqElement
        <4>2. ctl[x][i].from \in Attempt
          BY <3>4, <4>1, Zenon DEF CtlFrame
        <4>3. att[ctl[x][i].from].via = x /\ att[ctl[b][1].from].via = b
          BY <2>5, <3>1, <3>4, Zenon DEF ActivationInv
        <4> QED BY <3>2, <3>4, <4>2, <4>3, Zenon DEF SoleHandler
      <3>5. NoActivation'
        BY <2>1, <3>3, <3>4, <1>0, Zenon DEF NoActivation
      <3> QED BY <3>5 DEF NoActivation, ActivationInv
    <2> QED BY Zenon, <2>6, <2>7
  <1>2. ASSUME NEW b \in Boot, hung_up(b)
        PROVE  ActivationInv'
    <2>1. ctl'[b] = <<>> /\ \A x \in Boot \ {b} : ctl'[x] = ctl[x]
      BY <1>2, <1>0, Zenon DEF hung_up
    <2>2. DOMAIN ctl'[b] = {}
      BY <2>1
    <2>3. \A k \in Attempt : att[k].via # b => att'[k] = att[k]
      BY <1>2, ServingAssumption, Zenon DEF hung_up, disconnected
    <2>4. ASSUME NEW x \in Boot \ {b}, NEW i \in DOMAIN ctl[x], ctl[x][i].type = "ACTIVATE_TARGET"
          PROVE  att'[ctl[x][i].from] = att[ctl[x][i].from]
      <3>1. ctl[x][i] \in CtlFrame
        BY <1>0, SeqElement
      <3>2. ctl[x][i].from \in Attempt
        BY <2>4, <3>1, Zenon DEF CtlFrame
      <3>3. att[ctl[x][i].from].via = x
        BY <2>4, Zenon DEF ActivationInv
      <3> QED BY Zenon, <2>3, <3>2, <3>3
    <2> QED BY <2>1, <2>2, <2>4 DEF ActivationInv
  <1>3. CASE control_thread
    <2>1. gateway # None /\ gateway.frames # <<>> /\ UNCHANGED ctl
      BY <1>3, Zenon DEF control_thread
    <2>2. Waited(Head(gateway.frames)) /\ Head(gateway.frames) \in GatewayFrame
      <3>1. gateway.frames \in Seq(GatewayFrame)
        BY <2>1, Zenon DEF TypeInv, GatewayTyped, GatewayState
      <3> QED BY <2>1, <3>1, SeqHeadTail, Zenon DEF GatewayInv
    <2>3. Head(gateway.frames).from \in Attempt /\ ~Awaits(att[Head(gateway.frames).from])
      BY <2>2, Zenon DEF Waited, Awaits, GatewayFrame
    <2> QED BY Zenon, <2>1, <2>3, <1>0b
  <1>4. CASE verify_through_route
    <2>1. gateway # None /\ gateway.verifying # None /\ UNCHANGED ctl
      BY <1>4, Zenon DEF verify_through_route
    <2>2. gateway.verifying.from \in Attempt
      BY <2>1, Zenon DEF TypeInv, GatewayTyped, GatewayState
    <2>3. ~Awaits(att[gateway.verifying.from])
      BY <2>1, Zenon DEF GatewayInv, Awaits
    <2> QED BY Zenon, <2>1, <2>2, <2>3, <1>0b
  <1>5. CASE gateway_dies
    <2>1. UNCHANGED ctl
      BY <1>5, Zenon DEF gateway_dies
    <2>2. ASSUME NEW k \in Attempt, Awaits(att[k])
          PROVE  ActivationInv'
      <3>1. \A l \in Attempt : att'[l] = att[l]
        BY <1>5, <2>2, Zenon DEF gateway_dies, disconnected, SoleHandler, Awaits
      <3>2. att' = att
        BY <1>5, <3>1, <1>0, Zenon DEF gateway_dies, disconnected
      <3> QED BY Zenon, <2>1, <3>2, <1>u
    <2>3. CASE Attempt = {}
      <3>1. att' = att
        BY <1>5, <2>3, <1>0, Zenon DEF gateway_dies, disconnected
      <3> QED BY Zenon, <2>1, <3>1, <1>u
    <2> QED BY Zenon, <2>1, <2>2, <2>3, <1>0b
  <1>6. ASSUME NEW k \in Attempt, NEW b \in Home, register(k, b)
        PROVE  ActivationInv'
    <2> DEFINE via == peer[TargetOf[b]]
    <2>1. att[k] = idle /\ att' = [att EXCEPT ![k] = [step |-> "registering", boot |-> b, via |-> via,
                                         reply |-> IF reachable(via) THEN None ELSE FALSE]]
      BY <1>6, Zenon DEF register
    <2>2. ~Awaits(att[k])
      BY <2>1 DEF idle, Awaits
    <2>3. CASE ~reachable(via)
      BY <1>6, <2>2, <2>3, <1>0b, Zenon DEF register
    <2>4. CASE reachable(via)
      <3>1. via \in Boot
        BY <2>4, NoneAssumption, Zenon DEF reachable, TypeInv, PeersTyped, Target
      <3>2. ctl' = [ctl EXCEPT ![via] = Append(@, [type |-> "ACTIVATE_TARGET", from |-> k])]
        BY <1>6, <2>4, Zenon DEF register
      <3>3. Awaits(att'[k]) /\ att'[k].via = via
        BY <2>1, <2>4, <1>0, Zenon DEF Awaits
      <3> HIDE DEF via
      <3> QED BY Zenon, <2>2, <3>1, <3>2, <3>3, QuietLinks, SendActivate
    <2> QED BY Zenon, <2>3, <2>4
  <1>7. ASSUME NEW k \in Attempt, activate(k)
        PROVE  ActivationInv'
    <2> DEFINE via == peer[TargetOf[att[k].new.boot]]
    <2>1. att[k].step = "fenced"
      BY <1>7, Zenon DEF activate
    <2>2. ~Awaits(att[k])
      BY <2>1, Zenon DEF Awaits
    <2>3. CASE ~reachable(via)
      BY <1>7, <2>2, <2>3, <1>0b, Zenon DEF activate
    <2>4. CASE reachable(via)
      <3>0. att[k] \in Planned
        BY Zenon, <2>1, <1>0, Steps
      <3>1. via \in Boot
        BY <2>4, <3>0, Zenon DEF reachable, TypeInv, PeersTyped, Target, Planned, Assignment
      <3>2. /\ ctl' = [ctl EXCEPT ![via] = Append(@, [type |-> "ACTIVATE_TARGET", from |-> k])]
            /\ att' = [att EXCEPT ![k] = [step |-> "activating", old |-> att[k].old,
                                          new |-> att[k].new, via |-> via, reply |-> None]]
        BY <1>7, <2>4, Zenon DEF activate, goes
      <3>3. Awaits(att'[k]) /\ att'[k].via = via
        BY <3>2, <1>0, Zenon DEF Awaits
      <3> HIDE DEF via
      <3> QED BY Zenon, <2>2, <3>1, <3>2, <3>3, QuietLinks, SendActivate
    <2> QED BY Zenon, <2>3, <2>4
  <1>8. ASSUME NEW k \in Attempt, fence_old(k)
        PROVE  ActivationInv'
    <2>1. att[k].step = "fencing"
      BY <1>8, Zenon DEF fence_old
    <2>2. NoActivation
      BY <2>1, QuietLinks, Zenon DEF Awaits
    <2>3. NoActivation'
      <3> DEFINE via == peer[TargetOf[att[k].old.boot]]
      <3>1. CASE ~reachable(via)
        BY <1>8, <2>2, <3>1, Zenon DEF fence_old, NoActivation
      <3>2. CASE reachable(via)
        <4>0. att[k] \in Planned
          BY Zenon, <2>1, <1>0, Steps
        <4>1. via \in Boot
          BY <3>2, <4>0, Zenon DEF reachable, TypeInv, PeersTyped, Target, Planned, Assignment
        <4>2. ctl' = [ctl EXCEPT ![via] = Append(@, [type |-> "FENCE_ASSIGNMENT"])]
          BY <1>8, <3>2, Zenon DEF fence_old
        <4> HIDE DEF via
        <4>3. /\ ctl'[via] = Append(ctl[via], [type |-> "FENCE_ASSIGNMENT"])
              /\ \A x \in Boot \ {via} : ctl'[x] = ctl[x]
              /\ ctl[via] \in Seq(CtlFrame) /\ [type |-> "FENCE_ASSIGNMENT"] \in CtlFrame
          BY <4>1, <4>2, <1>0, Zenon DEF CtlFrame
        <4>4. /\ DOMAIN ctl[via] = 1 .. Len(ctl[via]) /\ Len(ctl[via]) \in Nat
              /\ DOMAIN ctl'[via] = 1 .. Len(ctl[via]) + 1
              /\ \A i \in 1 .. Len(ctl[via]) : ctl'[via][i] = ctl[via][i]
              /\ ctl'[via][Len(ctl[via]) + 1] = [type |-> "FENCE_ASSIGNMENT"]
          BY <4>3, SeqAppend, SeqLen
        <4>5. \A i \in DOMAIN ctl'[via] : ctl'[via][i].type # "ACTIVATE_TARGET"
          <5>1. \A i \in 1 .. Len(ctl[via]) : ctl'[via][i].type # "ACTIVATE_TARGET"
            BY <2>2, <4>1, <4>4, Zenon DEF NoActivation
          <5>2. ctl'[via][Len(ctl[via]) + 1].type # "ACTIVATE_TARGET"
            BY <4>4
          <5> QED BY <4>4, <5>1, <5>2
        <4> QED BY <2>2, <4>3, <4>5, Zenon DEF NoActivation
      <3> QED BY Zenon, <3>1, <3>2
    <2> QED BY <2>3 DEF NoActivation, ActivationInv
  <1>9. ASSUME NEW k \in Attempt,
               \/ register_route(k) \/ register_returns(k) \/ begin(k)
               \/ install_route(k) \/ verify(k) \/ commit(k)
        PROVE  ActivationInv'
    <2>1. ~Awaits(att[k]) /\ UNCHANGED ctl
      BY <1>9, Zenon DEF register_route, register_returns, begin, install_route, verify, commit, Awaits
    <2> QED BY Zenon, <2>1, <1>0b
  <1>10. ASSUME NEW k \in Attempt, NEW t \in Target, plan_failover(k, t)
         PROVE  ActivationInv'
    <2>1. ~Awaits(att[k]) /\ UNCHANGED ctl
      BY <1>10 DEF plan_failover, idle, Awaits
    <2> QED BY Zenon, <2>1, <1>0b
  <1>11. CASE UNCHANGED vars
    BY <1>11, <1>u, Zenon DEF vars
  <1>12. CASE Next
    <2>1. ASSUME NEW b \in Boot, hello(b) \/ publish_readiness(b)
          PROVE  ActivationInv'
      BY <2>1, <1>u, Zenon DEF hello, publish_readiness
    <2>2. ASSUME NEW b \in Boot, link_breaks(b) \/ dies(b)
          PROVE  ActivationInv'
      BY <2>2, <1>2, Zenon DEF link_breaks, dies
    <2>3. ASSUME NEW g \in Gateways, gateway_hello(g)
          PROVE  ActivationInv'
      BY <2>3, <1>u, Zenon DEF gateway_hello
    <2>4. CASE read_route \/ push_route \/ orphan_step
      BY <2>4, <1>u, Zenon DEF read_route, push_route, orphan_step, orphan_check, orphan_record
    <2>5. ASSUME NEW c \in Client, authorize_request(c) \/ client_step(c) \/ resend(c)
          PROVE  ActivationInv'
      BY <2>5, <1>u, Zenon DEF client_step, authorize_request, check_request, record_dispatch,
                  lookup_route, compute_on_worker,
                        authorize_result, resend
    <2> QED
      BY <1>12, <1>1, <1>3, <1>4, <1>5, <1>6, <1>7, <1>8, <1>9, <1>10, <2>1, <2>2, <2>3, <2>4, <2>5
      DEF Next, gateway_step, handler_step
  <1> QED BY Zenon, <1>11, <1>12

-----------------------------------------------------------------------------
(* The route of the gateway                                                *)

AwaitsGateway(a) == a.step \in {"reg_routing", "routing", "verifying"} /\ a.reply = None

RouteServes ==
    gateway.route # None =>
        current # None /\ (gateway.route.boot = current.boot \/ current.boot \in fenced)

(* Nothing is on its way to the gateway, or in its hands. *)
QuietGateway == gateway.push.at # "read" /\ gateway.frames = <<>> /\ gateway.verifying = None

(* ... which is so when the handler waits for no answer of the gateway.      *)
LEMMA GatewayQuiet ==
    ASSUME SoleHandler, TypeInv, GatewayInv, gateway # None, NEW k \in Attempt,
           ~AwaitsGateway(att[k])
    PROVE  QuietGateway /\ RouteServes
  <1>1. gateway \in GatewayState
    BY Zenon DEF TypeInv, GatewayTyped
  <1>2. gateway.frames = <<>>
    <2> SUFFICES ASSUME gateway.frames # <<>> PROVE FALSE
      BY Zenon
    <2>1. gateway.frames \in Seq(GatewayFrame)
      BY <1>1, Zenon DEF GatewayState
    <2>2. Head(gateway.frames) \in GatewayFrame /\ Waited(Head(gateway.frames))
      BY <2>1, SeqHeadTail, Zenon DEF GatewayInv
    <2>3. Head(gateway.frames).from \in Attempt /\ AwaitsGateway(att[Head(gateway.frames).from])
      BY <2>2, Zenon DEF Waited, AwaitsGateway, GatewayFrame
    <2> QED BY <2>3, Zenon DEF SoleHandler
  <1>3. gateway.verifying = None
    <2> SUFFICES ASSUME gateway.verifying # None PROVE FALSE
      BY Zenon
    <2>1. gateway.verifying.from \in Attempt
      BY <1>1, Zenon DEF GatewayState
    <2>2. AwaitsGateway(att[gateway.verifying.from])
      BY Zenon DEF GatewayInv, AwaitsGateway
    <2> QED BY <2>1, <2>2, Zenon DEF SoleHandler
  <1> QED BY <1>2, <1>3, Zenon DEF QuietGateway, RouteServes, GatewayInv

(* The gateway after a step of a handler that leaves it alone.              *)
LEMMA GatewayLeft ==
    ASSUME SoleHandler, NEW k \in Attempt, UNCHANGED gateway, QuietGateway, RouteServes',
           att'[k].step \in {"routing", "verifying"} =>
              gateway.route = None \/ gateway.route.boot = att'[k].new.boot
    PROVE  GatewayInv'
  <1>1. \A l \in Attempt : l = k
    BY Zenon DEF SoleHandler
  <1> QED BY <1>1, Zenon DEF GatewayInv, QuietGateway, RouteServes

(* ... and after one that sends it a frame.                                 *)
LEMMA GatewaySent ==
    ASSUME SoleHandler, TypeInv, gateway # None, NEW k \in Attempt, NEW f \in GatewayFrame,
           to_gateway(f), QuietGateway, RouteServes, UNCHANGED <<current, fenced>>, Waited(f)',
           att'[k].step \in {"routing", "verifying"} =>
              \/ att'[k].step = "routing" /\ att'[k].reply = None
              \/ gateway.route = None \/ gateway.route.boot = att'[k].new.boot
    PROVE  GatewayInv'
  <1>1. gateway \in GatewayState
    BY Zenon DEF TypeInv, GatewayTyped
  <1>2. gateway' = [gateway EXCEPT !.frames = Append(@, f)] /\ gateway.frames = <<>>
    BY Zenon DEF to_gateway, QuietGateway
  <1>3. /\ gateway'.push = gateway.push /\ gateway'.route = gateway.route
        /\ gateway'.verifying = gateway.verifying /\ gateway'.frames = Append(gateway.frames, f)
    BY <1>1, <1>2, Zenon DEF GatewayState
  <1>4. gateway'.frames = <<f>> /\ Head(<<f>>) = f
    BY <1>2, <1>3
  <1>5. \A l \in Attempt : l = k
    BY Zenon DEF SoleHandler
  <1>6. gateway'.frames = <<Head(gateway'.frames)>> /\ Waited(Head(gateway.frames))'
    BY <1>4, Zenon DEF Waited
  <1>7. \A l \in Attempt :
           \/ att'[l].step = "routing" /\ att'[l].reply = TRUE
           \/ att'[l].step = "verifying"
           => gateway'.route = None \/ gateway'.route.boot = att'[l].new.boot
    BY Zenon, <1>3, <1>5, NoneAssumption
  <1>8. RouteServes'
    BY <1>3, Zenon DEF RouteServes
  <1>9. gateway'.verifying = None /\ gateway'.push.at # "read"
    BY <1>3, Zenon DEF QuietGateway
  <1> QED BY <1>6, <1>7, <1>8, <1>9, Zenon DEF GatewayInv, RouteServes

(* A handler's own step.                                                    *)
LEMMA GatewayHandlerNext ==
    ASSUME SoleHandler, TypeInv, HandlerInv, GatewayInv, NEW k \in Attempt,
           \/ \E b \in Home : register(k, b)
           \/ \E t \in Target : plan_failover(k, t)
           \/ handler_step(k)
    PROVE  GatewayInv'
  <1> USE NoneAssumption
  <1>0. att \in [Attempt -> Handler]
    BY Zenon DEF TypeInv, AssignmentsTyped
  <1>0b. CASE gateway' = None
    BY <1>0b, Zenon DEF GatewayInv
  <1>n. ~AwaitsGateway(att[k])
    <2>1. (\E b \in Home : register(k, b)) \/ (\E t \in Target : plan_failover(k, t)) => att[k] = idle
      BY Zenon DEF register, plan_failover
    <2>2. register_route(k) => att[k].step = "registering"
      BY Zenon DEF register_route
    <2>3. register_returns(k) \/ verify(k) \/ commit(k) => att[k].reply # None
      BY Zenon DEF register_returns, verify, commit
    <2>4. begin(k) \/ fence_old(k) \/ activate(k) \/ install_route(k)
             => att[k].step \in {"planned", "fencing", "fenced", "activating"}
      BY Zenon DEF begin, fence_old, activate, install_route
    <2> QED BY <2>1, <2>2, <2>3, <2>4 DEF handler_step, AwaitsGateway, idle
  <1>q. gateway # None => QuietGateway /\ RouteServes
    BY Zenon, <1>n, GatewayQuiet
  <1>0c. ASSUME UNCHANGED gateway, att'[k].step \notin {"routing", "verifying"},
                gateway # None => RouteServes'
         PROVE  GatewayInv'
    BY Zenon, <1>0b, <1>0c, <1>q, GatewayLeft
  <1>0d. ASSUME UNCHANGED <<gateway, current>>, fenced \subseteq fenced'
         PROVE  gateway # None => RouteServes'
    BY <1>0d, <1>q, Zenon DEF RouteServes
  <1>1. ASSUME NEW b \in Home, register(k, b)
        PROVE  GatewayInv'
    <2>1. current = None /\ UNCHANGED gateway /\ att'[k].step = "registering"
      BY <1>1, <1>0, Zenon DEF register
    <2>2. gateway # None => RouteServes'
      BY <2>1, <1>q, Zenon DEF RouteServes
    <2> QED BY Zenon, <2>1, <2>2, <1>0c
  <1>2. ASSUME NEW t \in Target, plan_failover(k, t)
        PROVE  GatewayInv'
    <2>1. UNCHANGED <<gateway, current, fenced>> /\ att'[k].step = "planned"
      BY <1>2, <1>0, Zenon DEF plan_failover, goes
    <2> QED BY Zenon, <2>1, <1>0c, <1>0d
  <1>3. CASE begin(k)
    <2>1. UNCHANGED <<gateway, current, fenced>>
      BY <1>3, Zenon DEF begin
    <2>2. att'[k].step \in {"idle", "fencing"}
      BY <1>3, CutoverMoves DEF idle
    <2> QED BY Zenon, <2>1, <2>2, <1>0c, <1>0d
  <1>4. CASE fence_old(k)
    <2>1. UNCHANGED <<gateway, current>> /\ fenced \subseteq fenced'
      BY <1>4, Zenon DEF fence_old
    <2>2. att'[k].step = "fenced"
      BY Zenon, <1>4, CutoverMoves
    <2> QED BY Zenon, <2>1, <2>2, <1>0c, <1>0d
  <1>5. CASE activate(k)
    <2>1. UNCHANGED <<gateway, current, fenced>>
      BY <1>5, Zenon DEF activate
    <2>2. att'[k].step \in {"idle", "activating"}
      BY <1>5, CutoverMoves DEF idle
    <2> QED BY Zenon, <2>1, <2>2, <1>0c, <1>0d
  <1>6. CASE register_returns(k)
    <2>1. UNCHANGED <<gateway, current, fenced>> /\ att'[k].step = "idle"
      BY <1>6, <1>0, Zenon DEF register_returns, returns, goes, idle
    <2> QED BY Zenon, <2>1, <1>0c, <1>0d
  <1>7. CASE commit(k)
    <2>1. UNCHANGED gateway /\ att'[k].step = "idle" /\ att[k].step = "verifying"
      BY <1>7, <1>0, Zenon DEF commit, returns, goes, idle
    <2>2. CASE UNCHANGED <<current, fenced>>
      BY Zenon, <2>1, <2>2, <1>0c, <1>0d
    <2>3. CASE current' = att[k].new
      <3>1. att[k].new \in Assignment
        BY <2>1, <1>0, Steps DEF Routing
      <3>2. gateway # None => gateway.route = None \/ gateway.route.boot = att[k].new.boot
        BY <2>1, Zenon DEF GatewayInv
      <3>3. gateway # None => RouteServes'
        BY <2>1, <2>3, <3>1, <3>2, Zenon DEF RouteServes
      <3> QED BY Zenon, <2>1, <3>3, <1>0c
    <2> QED BY <1>7, <2>2, <2>3, Zenon DEF commit
  <1>8. CASE register_route(k)
    <2>1. UNCHANGED <<current, fenced>> /\ att[k].step = "registering"
      BY <1>8, Zenon DEF register_route
    <2>2. CASE ~any_gateway_conn
      <3>1. UNCHANGED gateway /\ att'[k].step = "idle"
        BY <1>8, <2>2, <1>0 DEF register_route, returns, goes, idle
      <3> QED BY Zenon, <2>1, <3>1, <1>0c, <1>0d
    <2>3. CASE any_gateway_conn
      <3>1. gateway # None
        BY <2>3, Zenon DEF any_gateway_conn
      <3>2. PICK f : f = [type |-> "INSTALL_ROUTE", from |-> k, route |-> route_to(1, att[k].boot)]
        BY Zenon
      <3>3. to_gateway(f) /\ att'[k] = [step |-> "reg_routing", boot |-> att[k].boot, reply |-> None]
        BY <1>8, <2>3, <3>2, <1>0, Zenon DEF register_route, goes
      <3>4. att[k].boot \in Boot /\ Known(att[k].boot)
        BY <2>1, Steps, Zenon DEF Registering, TypeInv, AssignmentsTyped, KnownHandler
      <3>5. f \in GatewayFrame
        BY <3>2, <3>4, RouteTyped, Zenon DEF GatewayFrame
      <3>6. Waited(f)'
        <4>1. f.from = k /\ f.type = "INSTALL_ROUTE" /\ f.route.boot = att[k].boot
          BY <3>2 DEF route_to
        <4>2. att'[k].step = "reg_routing" /\ att'[k].boot = att[k].boot /\ att'[k].reply = None
          BY <3>3
        <4> QED BY <4>1, <4>2, Zenon DEF Waited
      <3> QED BY <2>1, <3>1, <3>3, <3>5, <3>6, <1>q, GatewaySent
    <2> QED BY Zenon, <2>2, <2>3
  <1>9. CASE install_route(k)
    <2>1. UNCHANGED <<current, fenced>> /\ att[k].step = "activating"
      BY <1>9, Zenon DEF install_route
    <2>2. CASE ~(att[k].reply /\ gateway # None)
      <3>1. UNCHANGED gateway /\ att'[k].step = "idle"
        BY <1>9, <2>2, <1>0 DEF install_route, returns, goes, idle
      <3> QED BY Zenon, <2>1, <3>1, <1>0c, <1>0d
    <2>3. CASE att[k].reply /\ gateway # None
      <3>2. PICK f : f = [type |-> "INSTALL_ROUTE", from |-> k,
                          route |-> route_to(att[k].new.route_generation, att[k].new.boot)]
        BY Zenon
      <3>3. /\ to_gateway(f)
            /\ att'[k] = [step |-> "routing", old |-> att[k].old, new |-> att[k].new, reply |-> None]
        BY <1>9, <2>3, <3>2, <1>0, Zenon DEF install_route, goes
      <3>4. att[k] \in Activating /\ Known(att[k].new.boot)
        BY <2>1, Steps, Zenon DEF InCutover, TypeInv, AssignmentsTyped, KnownHandler
      <3>4b. /\ att[k].new.boot \in Boot /\ Known(att[k].new.boot)
             /\ att[k].new.route_generation \in Nat
        BY <3>4, Zenon DEF Activating, Assignment
      <3>5. f \in GatewayFrame
        BY <3>2, <3>4b, RouteTyped, Zenon DEF GatewayFrame
      <3>6. Waited(f)'
        <4>1. f.from = k /\ f.type = "INSTALL_ROUTE" /\ f.route.boot = att[k].new.boot
          BY <3>2 DEF route_to
        <4>2. att'[k].reply = None /\ att'[k].step = "routing" /\ att'[k].new = att[k].new
          BY <3>3
        <4> QED BY <4>1, <4>2 DEF Waited
      <3> QED BY <2>1, <2>3, <3>3, <3>5, <3>6, <1>q, GatewaySent
    <2> QED BY Zenon, <2>2, <2>3
  <1>10. CASE verify(k)
    <2>1. UNCHANGED <<current, fenced>> /\ att[k].step = "routing"
      BY <1>10, Zenon DEF verify
    <2>2. CASE ~(att[k].reply /\ any_gateway_conn)
      <3>1. UNCHANGED gateway /\ att'[k].step = "idle"
        BY <1>10, <2>2, <1>0 DEF verify, returns, goes, idle
      <3> QED BY Zenon, <2>1, <3>1, <1>0c, <1>0d
    <2>3. CASE att[k].reply /\ any_gateway_conn
      <3>1. gateway # None /\ att[k].reply # None
        BY <1>10, <2>3, Zenon DEF any_gateway_conn, verify
      <3>2. PICK f : f = [type |-> "VERIFY_SERVICE", from |-> k]
        BY Zenon
      <3>4. att[k] \in Routing
        BY Zenon, <2>1, <1>0, Steps
      <3>3. /\ to_gateway(f)
            /\ att'[k] = [att[k] EXCEPT !.step = "verifying", !.reply = None]
        BY <1>10, <2>3, <3>2, <1>0, Zenon DEF verify, goes
      <3>3b. att'[k].step = "verifying" /\ att'[k].reply = None /\ att'[k].new = att[k].new
        BY <3>3, <3>4, Zenon DEF Routing
      <3>4b. att[k].reply = TRUE
        BY <2>3, <3>1, <3>4, Zenon DEF Routing, Reply
      <3>5. f \in GatewayFrame
        BY <3>2, Zenon DEF GatewayFrame
      <3>6. Waited(f)'
        BY <3>2, <3>3b, Zenon DEF Waited
      <3>7. gateway.route = None \/ gateway.route.boot = att'[k].new.boot
        BY <2>1, <3>1, <3>3b, <3>4b, Zenon DEF GatewayInv
      <3> QED BY Zenon, <2>1, <3>1, <3>3, <3>5, <3>6, <3>7, <1>q, GatewaySent
    <2> QED BY Zenon, <2>2, <2>3
  <1> QED BY <1>1, <1>2, <1>3, <1>4, <1>5, <1>6, <1>7, <1>8, <1>9, <1>10, Zenon DEF handler_step

(* A worker's answer or hang-up is none of the gateway's.                   *)
LEMMA WorkerAnswers ==
    ASSUME TypeInv, ActivationInv, NEW b \in Boot, ctrl_loop(b) \/ link_breaks(b) \/ dies(b),
           NEW k \in Attempt
    PROVE  att'[k].step = att[k].step
           /\ (att[k].step \in {"reg_routing", "routing", "verifying"} => att'[k] = att[k])
  <1>0. att \in [Attempt -> Handler] /\ ctl[b] \in Seq(CtlFrame)
    BY Zenon DEF TypeInv, AssignmentsTyped, WorkersTyped
  <1>1. att'[k].step = att[k].step
    BY <1>0, AnswerSteps, Zenon DEF Answers, SameHandler
  <1>2. CASE link_breaks(b) \/ dies(b)
    BY <1>1, <1>2, ServingAssumption, Zenon DEF link_breaks, dies, hung_up, disconnected
  <1>3. CASE ctrl_loop(b)
    <2>1. CASE UNCHANGED att
      BY Zenon, <2>1
    <2>2. CASE ~UNCHANGED att
      <3>1. /\ ctl[b] # <<>> /\ Head(ctl[b]).type # "FENCE_ASSIGNMENT"
            /\ att' = answered(Head(ctl[b]).from, TRUE)
        BY <1>3, <2>2, Zenon DEF ctrl_loop
      <3>2. Head(ctl[b]) \in CtlFrame /\ Head(ctl[b]) = ctl[b][1] /\ 1 \in DOMAIN ctl[b]
        BY <3>1, <1>0, SeqHeadTail, SeqLen, SeqEmpty
      <3>3. ctl[b][1].type = "ACTIVATE_TARGET"
        BY <3>1, <3>2, Zenon DEF CtlFrame
      <3>4. att[ctl[b][1].from].step \in {"registering", "activating"}
        BY <3>2, <3>3, Zenon DEF ActivationInv
      <3> QED BY <1>0, <1>1, <3>1, <3>2, <3>4, Zenon DEF answered
    <2> QED BY Zenon, <2>1, <2>2
  <1> QED BY Zenon, <1>2, <1>3

LEMMA GatewayNext ==
    ASSUME SoleHandler, TypeInv, HandlerInv, ActivationInv, GatewayInv, [Next]_vars, ~pushed'
    PROVE  GatewayInv'
  <1> USE NoneAssumption
  <1>0. att \in [Attempt -> Handler] /\ att' \in [Attempt -> Handler]
    BY AssignmentsTypedNext, Zenon DEF TypeInv, AssignmentsTyped
  <1>0b. gateway # None => gateway \in GatewayState
    BY Zenon DEF TypeInv, GatewayTyped
  <1>u. CASE UNCHANGED <<gateway, att, current, fenced>>
    BY <1>u, Zenon DEF GatewayInv, Waited
  <1>1. ASSUME NEW b \in Boot, ctrl_loop(b) \/ link_breaks(b) \/ dies(b)
        PROVE  GatewayInv'
    <2>1. UNCHANGED <<gateway, current, fenced>>
      BY <1>1, Zenon DEF ctrl_loop, link_breaks, dies
    <2>2. \A k \in Attempt :
             /\ att'[k].step = att[k].step
             /\ att[k].step \in {"reg_routing", "routing", "verifying"} => att'[k] = att[k]
      BY Zenon, <1>1, WorkerAnswers
    <2>3. ASSUME gateway # None, gateway.frames # <<>>
          PROVE  gateway.frames = <<Head(gateway.frames)>> /\ Waited(Head(gateway.frames))'
      <3>1. Waited(Head(gateway.frames)) /\ Head(gateway.frames) \in GatewayFrame
        <4>1. gateway.frames \in Seq(GatewayFrame)
          BY <2>3, <1>0b, Zenon DEF GatewayState
        <4> QED BY <2>3, <4>1, SeqHeadTail, Zenon DEF GatewayInv
      <3>2. att[Head(gateway.frames).from].step \in {"reg_routing", "routing", "verifying"}
        BY <3>1, Zenon DEF Waited, GatewayFrame
      <3>3. att'[Head(gateway.frames).from] = att[Head(gateway.frames).from]
        BY <2>2, <3>1, <3>2, Zenon DEF Waited
      <3> QED BY <2>1, <2>3, <3>1, <3>3, Zenon DEF Waited, GatewayInv
    <2>4. ASSUME gateway # None, gateway.verifying # None
          PROVE  att'[gateway.verifying.from] = att[gateway.verifying.from]
      <3>1. gateway.verifying.from \in Attempt
        BY <2>4, <1>0b, Zenon DEF GatewayState
      <3> QED BY <2>2, <2>4, <3>1, Zenon DEF GatewayInv
    <2> QED BY <2>1, <2>2, <2>3, <2>4 DEF GatewayInv
  <1>2. ASSUME NEW g \in Gateways, gateway_hello(g)
        PROVE  GatewayInv'
    BY <1>2, Zenon DEF gateway_hello, GatewayInv
  <1>3. CASE read_route
    <2>1. /\ gateway \in GatewayState /\ gateway' = [gateway EXCEPT !.push = [at |-> "done"]]
          /\ UNCHANGED <<att, current, fenced>> /\ gateway # None
      BY <1>3, <1>0b, Zenon DEF read_route
    <2>2. /\ gateway'.push.at = "done" /\ gateway'.route = gateway.route
          /\ gateway'.verifying = gateway.verifying /\ gateway'.frames = gateway.frames
      BY <2>1, Zenon DEF GatewayState
    <2> QED BY <2>1, <2>2, Zenon DEF GatewayInv, Waited
  <1>4. CASE push_route
    BY <1>4, Zenon DEF push_route, GatewayInv
  <1>5. CASE gateway_dies
    BY <1>5, Zenon DEF gateway_dies, GatewayInv
  <1>6. CASE verify_through_route
    <2>1. /\ gateway \in GatewayState /\ gateway' = [gateway EXCEPT !.verifying = None]
          /\ UNCHANGED <<current, fenced>> /\ gateway # None /\ gateway.verifying # None
          /\ \E ok \in BOOLEAN : att' = answered(gateway.verifying.from, ok)
      BY <1>6, <1>0b, Zenon DEF verify_through_route
    <2>2. /\ gateway'.push = gateway.push /\ gateway'.route = gateway.route
          /\ gateway'.verifying = None /\ gateway'.frames = gateway.frames
      BY <2>1, Zenon DEF GatewayState
    <2>3. gateway.frames = <<>> /\ gateway.verifying.from \in Attempt
          /\ att[gateway.verifying.from].step = "verifying"
      BY <2>1, Zenon DEF GatewayInv, GatewayState
    <2>4. \A k \in Attempt : att[k].step = "verifying" /\ att'[k].new = att[k].new
      <3>1. Answers
        BY Zenon, <1>0, <1>6, AnswerSteps
      <3> QED BY <2>3, <3>1, Zenon DEF Answers, SameHandler, SoleHandler, InCutover
    <2>5. gateway.route # None => gateway'.route # None
      BY Zenon, <2>2
    <2> QED BY <2>1, <2>2, <2>3, <2>4, Zenon DEF GatewayInv
  <1>7. CASE control_thread
    <2> DEFINE f == Head(gateway.frames)
    <2>1. /\ gateway \in GatewayState /\ gateway # None /\ gateway.frames # <<>>
          /\ gateway.verifying = None /\ UNCHANGED <<current, fenced>>
      BY <1>7, <1>0b, Zenon DEF control_thread
    <2>1a. gateway.frames \in Seq(GatewayFrame)
      BY <2>1, Zenon DEF GatewayState
    <2>1b. gateway.push.at # "read" /\ gateway.frames = <<f>> /\ Waited(f)
      BY <2>1, Zenon DEF GatewayInv
    <2>2. f \in GatewayFrame /\ Tail(gateway.frames) = <<>> /\ Waited(f)
      <3>1. f \in GatewayFrame
        BY Zenon, <2>1, <2>1a, SeqHeadTail
      <3>2. \A x : Tail(<<x>>) = <<>>
        OBVIOUS
      <3> QED BY Zenon, <2>1b, <3>1, <3>2
    <2>2b. f.from \in Attempt /\ f.from # None /\ \A k \in Attempt : k = f.from
      BY <2>2, Zenon DEF Waited, SoleHandler
    <2>3. Answers
      BY Zenon, <1>0, <1>7, AnswerSteps
    <2>4. CASE f.type = "INSTALL_ROUTE"
      <3>1. gateway' = [gateway EXCEPT !.frames = <<>>, !.route = f.route]
        BY <1>7, <2>2, <2>4, Zenon DEF control_thread, g_routes_assign
      <3>2. /\ gateway'.push = gateway.push /\ gateway'.route = f.route
            /\ gateway'.verifying = None /\ gateway'.frames = <<>>
        BY <2>1, <3>1, Zenon DEF GatewayState
      <3>3. \/ att[f.from].step = "reg_routing" /\ f.route.boot = att[f.from].boot
            \/ att[f.from].step = "routing" /\ f.route.boot = att[f.from].new.boot
        BY <2>2, <2>4, Zenon DEF Waited
      <3>4. current # None /\ (f.route.boot = current.boot \/ current.boot \in fenced)
        BY <2>2b, <3>3, Zenon DEF HandlerInv, InCutover
      <3> HIDE DEF f
      <3>5. \A k \in Attempt : att'[k].step \in {"routing", "verifying"} => f.route.boot = att'[k].new.boot
        <4>1. SameHandler(att[f.from], att'[f.from])
          BY <2>2b, <2>3, Zenon DEF Answers
        <4>2. att'[f.from].step \in {"routing", "verifying"} => f.route.boot = att'[f.from].new.boot
          <5>1. CASE att[f.from].step = "reg_routing"
            BY <4>1, <5>1, Zenon DEF SameHandler
          <5>2. CASE att[f.from].step = "routing" /\ f.route.boot = att[f.from].new.boot
            BY <4>1, <5>2, Zenon DEF SameHandler, InCutover
          <5> QED BY Zenon, <5>1, <5>2, <3>3
        <4> QED BY <4>2, <2>2b, Zenon
      <3> QED BY <2>1, <2>1b, <3>2, <3>4, <3>5, Zenon DEF GatewayInv
    <2>5. CASE f.type = "VERIFY_SERVICE"
      <3>0. att[f.from].step = "verifying" /\ att[f.from].reply = None
        BY <2>2, <2>5, Zenon DEF Waited
      <3>1. \A k \in Attempt : /\ att[k].step = "verifying" /\ att'[k].new = att[k].new
                               /\ gateway.route = None \/ gateway.route.boot = att[k].new.boot
        BY <2>1, <2>2b, <2>3, <3>0, Zenon DEF Answers, SameHandler, InCutover, GatewayInv
      <3>2. CASE gateway.route = None
        <4>1. gateway' = [gateway EXCEPT !.frames = <<>>]
          BY <1>7, <2>2, <2>5, <3>2, Zenon DEF control_thread
        <4>2. /\ gateway'.push = gateway.push /\ gateway'.route = None
              /\ gateway'.verifying = None /\ gateway'.frames = <<>>
          BY <2>1, <3>2, <4>1, Zenon DEF GatewayState
        <4> HIDE DEF f
        <4> QED BY <2>1, <2>1b, <4>2, Zenon DEF GatewayInv
      <3>3. CASE gateway.route # None
        <4> DEFINE v == [from |-> f.from, route |-> gateway.route]
        <4>1. gateway' = [gateway EXCEPT !.frames = <<>>, !.verifying = v] /\ UNCHANGED att
          BY <1>7, <2>2, <2>5, <3>3, Zenon DEF control_thread
        <4>1b. v.from = f.from
          BY Zenon
        <4> HIDE DEF v
        <4>2. /\ gateway'.push = gateway.push /\ gateway'.route = gateway.route
              /\ gateway'.verifying = v /\ gateway'.frames = <<>>
          BY <2>1, <4>1, Zenon DEF GatewayState
        <4> HIDE DEF f
        <4> QED BY <2>1, <2>1b, <3>0, <3>1, <4>1, <4>1b, <4>2, Zenon DEF GatewayInv
      <3> QED BY Zenon, <3>2, <3>3
    <2> QED BY <1>7, <2>4, <2>5, Zenon DEF control_thread
  <1>8. CASE UNCHANGED vars
    BY <1>8, <1>u, Zenon DEF vars
  <1>9. CASE Next
    <2>1. ASSUME NEW b \in Boot, hello(b) \/ publish_readiness(b)
          PROVE  GatewayInv'
      BY <2>1, <1>u, Zenon DEF hello, publish_readiness
    <2>2. ASSUME NEW c \in Client, authorize_request(c) \/ client_step(c) \/ resend(c)
          PROVE  GatewayInv'
      <3>1. UNCHANGED <<gateway, att, current, fenced>>
        BY <2>2, Zenon DEF client_step, authorize_request, check_request, record_dispatch,
                  lookup_route, compute_on_worker,
                    authorize_result, resend
      <3> QED BY Zenon, <3>1, <1>u
    <2>2b. CASE orphan_step
      BY <2>2b, <1>u, Zenon DEF orphan_step, orphan_check, orphan_record
    <2>3. ASSUME NEW k \in Attempt,
                 \/ \E b \in Home : register(k, b)
                 \/ \E t \in Target : plan_failover(k, t)
                 \/ handler_step(k)
          PROVE  GatewayInv'
      BY Zenon, <2>3, GatewayHandlerNext
    <2> QED BY Zenon, <1>9, <1>1, <1>2, <1>3, <1>4, <1>5, <1>6, <1>7, <2>1, <2>2, <2>2b, <2>3
            DEF Next, gateway_step
  <1> QED BY Zenon, <1>8, <1>9

-----------------------------------------------------------------------------
(* The results of the clients                                              *)

(* An authorization that is not current does not become current again.      *)
LEMMA AuthorizationPasses ==
    ASSUME SoleHandler, TypeInv, FreshInv, [Next]_vars
    PROVE  /\ fenced \subseteq fenced'
           /\ \A c \in Client : Waiting(c) /\ client[c].auth = current' => client[c].auth = current
  <1>0. att \in [Attempt -> Handler] /\ calls \in Nat
    BY Zenon DEF TypeInv, AssignmentsTyped
  <1>1. CASE Answers /\ UNCHANGED <<current, table, fenced, calls>>
    BY Zenon, <1>1
  <1>2. ASSUME NEW k \in Attempt, NEW b \in Home, register(k, b)
        PROVE  UNCHANGED fenced /\ \A c \in Client : ~Waiting(c)
    BY <1>2, Zenon DEF register, FreshInv, Waiting
  <1>3. ASSUME NEW k \in Attempt, NEW t \in Target, plan_failover(k, t)
        PROVE  UNCHANGED <<current, fenced>>
    BY <1>3, Zenon DEF plan_failover
  <1>4. ASSUME NEW k \in Attempt,
               begin(k) \/ fence_old(k) \/ activate(k) \/ install_route(k) \/ verify(k)
        PROVE  UNCHANGED current /\ fenced \subseteq fenced'
    BY <1>4, Zenon DEF begin, fence_old, activate, install_route, verify
  <1>5. ASSUME NEW k \in Attempt, register_route(k) \/ register_returns(k)
        PROVE  UNCHANGED <<current, fenced>>
    BY <1>5, Zenon DEF register_route, register_returns
  <1>6. ASSUME NEW k \in Attempt, commit(k)
        PROVE  /\ fenced \subseteq fenced'
               /\ \A c \in Client : Waiting(c) /\ client[c].auth = current' =>
                                    client[c].auth = current
    <2>1. InCutover(att[k]) /\ fenced \subseteq fenced' /\ current' \in {current, att[k].new}
      BY <1>6, Zenon DEF commit, InCutover
    <2>2. \A c \in Client : Waiting(c) => client[c].auth # att[k].new
      BY <2>1, <1>0 DEF FreshInv, Waiting
    <2> QED BY Zenon, <2>1, <2>2
  <1> QED BY <1>1, <1>2, <1>3, <1>4, <1>5, <1>6, <1>0, HandlersAssign, Zenon DEF handler_step

LEMMA ClientNext ==
    ASSUME SoleHandler, TypeInv, FreshInv, GatewayInv, ClientInv, [Next]_vars
    PROVE  ClientInv'
  <1>0. client \in [Client -> ClientState]
    BY Zenon DEF TypeInv, GatewayTyped
  <1> DEFINE X(x, cur, fen) ==
        /\ x.at \in {"sent", "returned"} /\ x.auth = cur /\ x.auth.boot \notin fen =>
              /\ x.at = "sent" => x.route.boot = x.auth.boot
              /\ x.at = "returned" /\ x.out = "computed" => x.by = x.auth.boot
        /\ x.at = "answered" /\ x.ok => x.by = x.auth.boot
  <1>0b. \A c \in Client : X(client[c], current, fenced)
    BY Zenon DEF ClientInv
  <1>0c. ASSUME \A c \in Client : X(client'[c], current', fenced')
         PROVE  ClientInv'
    BY <1>0c, Zenon DEF ClientInv
  <1>1. ASSUME NEW c \in Client, client'[c] = client[c]
        PROVE  X(client'[c], current', fenced')
    BY <1>1, <1>0b, AuthorizationPasses, Zenon DEF Waiting, Flight
  <1>2. ASSUME NEW c \in Client, client'[c] = failed \/ client'[c].at \in {"start", "asked", "checked", "authorized"}
        PROVE  X(client'[c], current', fenced')
    BY Zenon, <1>2, FailedTyped
  <1> HIDE DEF X
  <1>3. CASE UNCHANGED client
    BY Zenon, <1>3, <1>1, <1>0c
  <1>4. CASE gateway_dies
    <2>1. \A c \in Client : client'[c] = client[c] \/ client'[c] = failed
      BY <1>4, Zenon DEF gateway_dies
    <2> QED BY Zenon, <2>1, <1>1, <1>2, <1>0c
  <1>5. ASSUME NEW c \in Client, X(client'[c], current', fenced'),
               \A d \in Client \ {c} : client'[d] = client[d]
        PROVE  ClientInv'
    BY Zenon, <1>5, <1>1, <1>0c
  <1>6. ASSUME NEW c \in Client, authorize_request(c) \/ check_request(c) \/ record_dispatch(c)
        PROVE  ClientInv'
    <2>1. \A d \in Client \ {c} : client'[d] = client[d]
      BY <1>6, OwnStep, Zenon DEF client_moves
    <2>2. client'[c] = failed \/ client'[c].at \in {"start", "asked", "checked", "authorized"}
      <3>1. CASE authorize_request(c)
        <4>1. client'[c] = failed \/ client'[c] = [at |-> "asked", auth |-> current]
          BY <3>1, OwnStep, Zenon DEF client_moves
        <4> QED BY <4>1
      <3>2. CASE check_request(c) \/ record_dispatch(c)
        <4>1. client[c].at \in {"asked", "checked"}
          BY <3>2, Zenon DEF check_request, record_dispatch
        <4>2. client[c] \in [at : {"asked", "checked", "authorized"}, auth : Assignment]
          BY Zenon, <4>1, <1>0, Stages
        <4> QED BY <3>2, <4>2, OwnStep, Zenon DEF client_moves
      <3> QED BY Zenon, <1>6, <3>1, <3>2
    <2> QED BY Zenon, <2>1, <2>2, <1>2, <1>5
  <1>7. ASSUME NEW c \in Client, resend(c)
        PROVE  ClientInv'
    <2>1. (\A d \in Client \ {c} : client'[d] = client[d]) /\ client'[c].at = "start"
      BY <1>7, <1>0, Zenon DEF resend
    <2> QED BY Zenon, <2>1, <1>2, <1>5
  <1>8. ASSUME NEW c \in Client, lookup_route(c)
        PROVE  ClientInv'
    <2>1. /\ \A d \in Client \ {c} : client'[d] = client[d]
          /\ client[c].at = "authorized" /\ UNCHANGED <<current, fenced>>
          /\ \/ client'[c] = failed
             \/ /\ gateway.route # None
                /\ client'[c] = [at |-> "sent", auth |-> client[c].auth, route |-> gateway.route]
      BY <1>8, <1>0, Zenon DEF lookup_route, reply_failed
    <2>2. gateway # None
      BY <2>1, Zenon DEF TypeInv, GatewayTyped, Flight
    <2>3. gateway.route # None => gateway.route.boot = current.boot \/ current.boot \in fenced
      BY <2>2, Zenon DEF GatewayInv
    <2>4. X(client'[c], current', fenced')
      BY <2>1, <2>3, <1>2 DEF X
    <2> QED BY Zenon, <2>1, <2>4, <1>5
  <1>9. ASSUME NEW c \in Client, compute_on_worker(c)
        PROVE  ClientInv'
    <2>1. PICK o \in serve(client[c].route) :
             client' = [client EXCEPT ![c] = [at |-> "returned", auth |-> client[c].auth,
                                              by |-> client[c].route.port, out |-> o]]
      BY <1>9, Zenon DEF compute_on_worker
    <2>2. /\ \A d \in Client \ {c} : client'[d] = client[d]
          /\ client[c].at = "sent" /\ UNCHANGED <<current, fenced>>
          /\ client'[c] = [at |-> "returned", auth |-> client[c].auth,
                           by |-> client[c].route.port, out |-> o]
      BY <1>9, <2>1, <1>0, Zenon DEF compute_on_worker
    <2>3. o = "computed" => client[c].route.boot = client[c].route.port
      BY Zenon DEF serve
    <2>4. X(client'[c], current', fenced')
      BY <2>2, <2>3, <1>0b DEF X
    <2> QED BY Zenon, <2>2, <2>4, <1>5
  <1>10. ASSUME NEW c \in Client, authorize_result(c)
         PROVE  ClientInv'
    <2> DEFINE x == [failed EXCEPT !.ok = TRUE, !.auth = client[c].auth, !.by = client[c].by]
    <2>1. /\ client[c].at = "returned"
          /\ \/ client' = [client EXCEPT ![c] = failed]
             \/ /\ client' = [client EXCEPT ![c] = x] /\ client[c].out = "computed"
                /\ client[c].auth = current /\ client[c].auth.boot \notin fenced
      BY <1>10, Zenon DEF authorize_result, reply, result_allowed, dispatch_allowed
    <2>2. x.at = "answered" /\ x.by = client[c].by /\ x.auth = client[c].auth
      BY Zenon DEF failed
    <2> HIDE DEF x
    <2>3. /\ \A d \in Client \ {c} : client'[d] = client[d]
          /\ \/ client'[c] = failed
             \/ /\ client'[c] = x /\ client[c].out = "computed"
                /\ client[c].auth = current /\ client[c].auth.boot \notin fenced
      BY Zenon, <2>1, <1>0
    <2>4. X(client'[c], current', fenced')
      BY <2>1, <2>2, <2>3, <1>0b, <1>2 DEF X
    <2> QED BY Zenon, <2>3, <2>4, <1>5
  <1> QED BY <1>3, <1>4, <1>6, <1>7, <1>8, <1>9, <1>10, ClientSteps, Zenon DEF client_moves

LEMMA PushedStays == [Next]_vars /\ ~pushed' => ~pushed
  <1> SUFFICES ASSUME [Next]_vars, pushed PROVE pushed'
    BY Zenon
  <1>1. CASE UNCHANGED pushed
    BY Zenon, <1>1
  <1>2. CASE read_route
    BY <1>2, Zenon DEF read_route
  <1>3. CASE UNCHANGED vars
    BY <1>3, Zenon DEF vars
  <1>4. CASE Next
    <2>1. ASSUME NEW b \in Boot,
                 hello(b) \/ publish_readiness(b) \/ ctrl_loop(b) \/ link_breaks(b) \/ dies(b)
          PROVE  UNCHANGED pushed
      BY <2>1, Zenon DEF hello, publish_readiness, ctrl_loop, link_breaks, dies
    <2>2. ASSUME NEW g \in Gateways, gateway_hello(g) PROVE UNCHANGED pushed
      BY <2>2, Zenon DEF gateway_hello
    <2>3. CASE push_route \/ control_thread \/ verify_through_route \/ gateway_dies \/ orphan_step
      BY <2>3, <1>1, Zenon DEF push_route, control_thread, verify_through_route, gateway_dies,
                        orphan_step, orphan_check, orphan_record
    <2>4. ASSUME NEW c \in Client, authorize_request(c) \/ client_step(c) \/ resend(c)
          PROVE  UNCHANGED pushed
      BY <2>4, Zenon DEF client_step, authorize_request, check_request, record_dispatch,
                  lookup_route, compute_on_worker,
                  authorize_result, resend
    <2>5. ASSUME NEW k \in Attempt, NEW b \in Home, register(k, b) PROVE UNCHANGED pushed
      BY <2>5, Zenon DEF register
    <2>6. ASSUME NEW k \in Attempt, NEW t \in Target, plan_failover(k, t) PROVE UNCHANGED pushed
      BY <2>6, Zenon DEF plan_failover
    <2>7. ASSUME NEW k \in Attempt, handler_step(k) PROVE UNCHANGED pushed
      BY <2>7, Zenon DEF handler_step, register_route, register_returns, begin, fence_old, activate,
                  install_route, verify, commit
    <2> QED BY <1>4, <1>1, <1>2, <2>1, <2>2, <2>3, <2>4, <2>5, <2>6, <2>7, Zenon DEF Next, gateway_step
  <1> QED BY Zenon, <1>3, <1>4

LEMMA RouteInit == Init => RouteInv
  <1> SUFFICES ASSUME Init PROVE RouteInv
    BY Zenon
  <1>1. FreshInv /\ HandlerInv
    BY Zenon DEF Init, FreshInv, HandlerInv, InCutover, idle, Flight
  <1>2. GatewayInv /\ ClientInv
    BY Zenon DEF Init, GatewayInv, ClientInv
  <1>3. ActivationInv
    BY DEF Init, ActivationInv
  <1> QED BY <1>1, <1>2, <1>3, Zenon DEF RouteInv

LEMMA RouteNext ==
    ASSUME SoleHandler
    PROVE  TypeInv /\ RouteInv /\ [Next]_vars => RouteInv'
  BY FreshNext, HandlerNext, ActivationNext, GatewayNext, ClientNext, PushedStays, Zenon DEF RouteInv

LEMMA RouteAlways ==
    ASSUME SoleHandler
    PROVE  Spec => [](TypeInv /\ RouteInv)
  BY TypeInit, TypeNext, RouteInit, RouteNext, PTL DEF Spec

(* With one handler at a time, as long as no HELLO handler pushed a route,  *)
(* and for any number of workers, gateways, clients and failovers: a result *)
(* that a client gets as successful was computed by the worker boot its     *)
(* authorization names.                                                     *)
THEOREM ResultFromItsWorker ==
    ASSUME SoleHandler
    PROVE  Spec => []AcceptedFromItsWorker
  <1>1. RouteInv => AcceptedFromItsWorker
    BY Zenon DEF RouteInv, ClientInv, AcceptedFromItsWorker
  <1> QED BY <1>1, RouteAlways, PTL
===============================================================================
