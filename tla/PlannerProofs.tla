---------------------------- MODULE PlannerProofs -----------------------------
(***************************************************************************)
(* What decides on a plan, for any number of targets, domains, handlers,   *)
(* events, reports and interleaved publications: the failback budget, the  *)
(* order of failure evidence, the hysteresis window, the choice of a       *)
(* candidate and the overlap of failure domains in every reachable state,  *)
(* types, and that no commit gives the slot to a fenced worker.            *)
(***************************************************************************)
EXTENDS Planner, SelectionProofs

-----------------------------------------------------------------------------
(* The failback budget                                                     *)

(* The handlers that passed the check of the budget and have not counted   *)
(* their attempt yet.                                                      *)
Committed(k) ==
    \/ h[k].step \in {"plan", "ended"}
    \/ h[k].step \in {"planned", "begun", "fenced"} /\ h[k].back

InFlight == {k \in Handler : Committed(k)}

(* A handler in a cutover has the locals of execute_plan. *)
HandlerShape ==
    /\ h = [k \in Handler |-> h[k]]
    /\ \A k \in Handler : h[k].step \in {"begun", "fenced"} =>
          h[k] = [step |-> h[k].step, back |-> h[k].back, old |-> h[k].old, new |-> h[k].new]

(* Attempts counted and attempts under way together stay within what the   *)
(* other handlers may have been granted beside the last one.               *)
BudgetInv ==
    /\ HandlerShape
    /\ failback_attempts \in Nat
    /\ failback_attempts + Cardinality(InFlight)
          <= Service.anti_flapping.max_auto_attempts + Cardinality(Handler) - 1

(* Sets of handlers are finite, and have at most as many as there are. *)
LEMMA InFlightFinite ==
    ASSUME NEW S \in SUBSET Handler
    PROVE  /\ IsFiniteSet(S) /\ Cardinality(S) \in Nat
           /\ Cardinality(S) <= Cardinality(Handler)
           /\ Cardinality(Handler) \in Nat /\ Cardinality(Handler) >= 1
<1>1. IsFiniteSet(Handler) /\ Handler # {}
  BY PlannerAssumption
<1>2. IsFiniteSet(S) /\ Cardinality(S) <= Cardinality(Handler)
  BY <1>1, FS_Subset
<1>3. Cardinality(S) \in Nat /\ Cardinality(Handler) \in Nat /\ Cardinality(Handler) # 0
  BY <1>1, <1>2, FS_CardinalityType, FS_EmptySet
<1>4. QED
  BY <1>2, <1>3

LEMMA BudgetInit == Init => BudgetInv
<1> SUFFICES ASSUME Init PROVE BudgetInv
  OBVIOUS
<1>1. HandlerShape
  BY DEF Init, HandlerShape, idle
<1>2. InFlight = {}
  BY DEF Init, InFlight, Committed, idle
<1>3. Cardinality(InFlight) = 0
  BY <1>2, FS_EmptySet
<1>4. QED
  BY <1>1, <1>3, InFlightFinite, PlannerAssumption DEF Init, BudgetInv

(* A step that grants no further attempt and counts none. *)
LEMMA BudgetKept ==
    ASSUME BudgetInv, HandlerShape', InFlight' \subseteq InFlight,
           failback_attempts' = failback_attempts
    PROVE  BudgetInv'
<1>1. IsFiniteSet(InFlight) /\ Cardinality(InFlight) \in Nat
  BY InFlightFinite DEF InFlight
<1>2. Cardinality(InFlight') <= Cardinality(InFlight) /\ Cardinality(InFlight') \in Nat
  BY <1>1, FS_Subset, FS_CardinalityType
<1>3. Cardinality(Handler) \in Nat /\ Service.anti_flapping.max_auto_attempts \in Nat
  BY InFlightFinite, PlannerAssumption
<1>4. QED
  BY <1>1, <1>2, <1>3 DEF BudgetInv

(* A handler that moves on without being granted an attempt. *)
LEMMA HandlerMoves ==
    ASSUME BudgetInv, NEW k \in Handler, NEW x, h' = [h EXCEPT ![k] = x],
           x.step \in {"plan", "ended"} => Committed(k),
           x.step \in {"planned", "begun", "fenced"} /\ x.back => Committed(k),
           x.step \in {"begun", "fenced"} =>
              x = [step |-> x.step, back |-> x.back, old |-> x.old, new |-> x.new],
           failback_attempts' = failback_attempts
    PROVE  BudgetInv'
<1>1. h = [j \in Handler |-> h[j]]
  BY DEF BudgetInv, HandlerShape
<1>2. h' = [j \in Handler |-> h'[j]] /\ h'[k] = x /\ \A j \in Handler \ {k} : h'[j] = h[j]
  BY <1>1
<1>3. HandlerShape'
  BY <1>2, Zenon DEF BudgetInv, HandlerShape
<1>4. InFlight' \subseteq InFlight
  BY <1>2, Zenon DEF InFlight, Committed
<1>5. QED
  BY <1>3, <1>4, BudgetKept

(* execute_failback grants an attempt only while the budget is not used up. *)
LEMMA AttemptGranted ==
    ASSUME BudgetInv, NEW k \in Handler, execute_failback(k)
    PROVE  BudgetInv'
<1>1. CASE evaluate_failback
  <2>1. h' = [h EXCEPT ![k] = [step |-> "plan"]] /\ failback_attempts' = failback_attempts
    BY <1>1 DEF execute_failback, slot
  <2>2. HandlerShape'
    BY <2>1 DEF BudgetInv, HandlerShape
  <2>3. failback_attempts < Service.anti_flapping.max_auto_attempts
    BY <1>1 DEF evaluate_failback, budget_left
  <2>4. /\ Cardinality(InFlight') <= Cardinality(Handler)
        /\ Cardinality(InFlight') \in Nat /\ Cardinality(Handler) \in Nat
    BY InFlightFinite DEF InFlight
  <2>5. QED
    BY <2>1, <2>2, <2>3, <2>4, PlannerAssumption DEF BudgetInv
<1>2. CASE ~evaluate_failback
  <2>1. h' = [h EXCEPT ![k] = idle] /\ failback_attempts' = failback_attempts
    BY <1>2 DEF execute_failback, slot
  <2>2. QED
    BY <2>1, HandlerMoves, Zenon DEF idle
<1>3. QED
  BY <1>1, <1>2

(* count_attempt moves an attempt from those under way to those counted, or *)
(* forgets the counted ones.                                                *)
LEMMA AttemptCounted ==
    ASSUME BudgetInv, NEW k \in Handler, count_attempt(k)
    PROVE  BudgetInv'
<1>1. h[k].step = "ended" /\ h' = [h EXCEPT ![k] = idle]
  BY DEF count_attempt
<1>2. HandlerShape'
  BY <1>1, Zenon DEF BudgetInv, HandlerShape, idle
<1>3. k \in InFlight /\ InFlight' = InFlight \ {k}
  BY <1>1, Zenon DEF InFlight, Committed, BudgetInv, HandlerShape, idle
<1>4. IsFiniteSet(InFlight) /\ Cardinality(InFlight) \in Nat
      /\ Cardinality(InFlight) <= Cardinality(Handler) /\ Cardinality(Handler) \in Nat
  BY InFlightFinite DEF InFlight
<1>5. Cardinality(InFlight') = Cardinality(InFlight) - 1
  BY Zenon, <1>3, <1>4, FS_RemoveElement
<1>6. failback_attempts' = 0 \/ failback_attempts' = failback_attempts + 1
  BY DEF count_attempt
<1>7. Cardinality(InFlight') \in Nat
  BY <1>3, <1>4, FS_RemoveElement, FS_CardinalityType
<1>8. QED
  BY <1>2, <1>4, <1>5, <1>6, <1>7, PlannerAssumption DEF BudgetInv

(* The other steps of a handler. *)
LEMMA HandlerStep ==
    ASSUME BudgetInv, NEW k \in Handler, handler_step(k)
    PROVE  BudgetInv'
<1>1. CASE plan_failover(k)
  BY <1>1, HandlerMoves, Zenon DEF plan_failover, slot
<1>2. CASE authorize_failback(k)
  BY <1>2, HandlerMoves, Zenon DEF authorize_failback
<1>3. CASE request_failback(k)
  BY <1>3, HandlerMoves, Zenon DEF request_failback, slot, idle
<1>4. CASE execute_failback(k)
  BY <1>4, AttemptGranted
<1>5. CASE plan_failback(k)
  BY <1>5, HandlerMoves, Zenon DEF plan_failback, slot, idle, Committed
<1>6. CASE begin(k)
  BY <1>6, HandlerMoves, Zenon DEF begin, ended, idle, Committed
<1>7. CASE fence(k)
  <2>1. h[k] = [step |-> "begun", back |-> h[k].back, old |-> h[k].old, new |-> h[k].new]
    BY <1>7 DEF fence, BudgetInv, HandlerShape
  <2> DEFINE x == [h[k] EXCEPT !.step = "fenced"]
  <2>2. x = [step |-> "fenced", back |-> h[k].back, old |-> h[k].old, new |-> h[k].new]
    BY <2>1
  <2>3. x.step = "fenced" /\ x.back = h[k].back
        /\ x = [step |-> x.step, back |-> x.back, old |-> x.old, new |-> x.new]
    BY <2>2
  <2>4. h' = [h EXCEPT ![k] = x] /\ h[k].step = "begun" /\ failback_attempts' = failback_attempts
    BY <1>7 DEF fence
  <2> HIDE DEF x
  <2>5. x.step \in {"planned", "begun", "fenced"} /\ x.back => Committed(k)
    BY <2>3, <2>4 DEF Committed
  <2>6. x.step \notin {"plan", "ended"}
    BY <2>3
  <2>7. QED
    BY Zenon, <2>3, <2>4, <2>5, <2>6, HandlerMoves
<1>8. CASE fails(k)
  BY <1>8, HandlerMoves, Zenon DEF fails, slot, ended, idle, Committed
<1>9. CASE commit(k)
  BY <1>9, HandlerMoves, Zenon DEF commit, ended, idle, Committed
<1>10. CASE count_attempt(k)
  BY <1>10, AttemptCounted
<1>11. QED
  BY <1>1, <1>2, <1>3, <1>4, <1>5, <1>6, <1>7, <1>8, <1>9, <1>10 DEF handler_step

(* Publications and the clock leave failback alone. *)
LEMMA OtherStep ==
    ASSUME BudgetInv, h' = h, failback_attempts' = failback_attempts
    PROVE  BudgetInv'
<1>1. HandlerShape' /\ InFlight' = InFlight
  BY Zenon DEF BudgetInv, HandlerShape, InFlight, Committed
<1>2. QED
  BY <1>1, BudgetKept

(* The anti-flapping budget of evaluate_failback and execute_failback: with *)
(* any number of handlers that evaluate, plan and execute under different   *)
(* locks, the counted attempts exceed the budget by less than the number of *)
(* handlers.                                                                *)
THEOREM Budget == Spec => []BudgetOverrun
<1>1. BudgetInv /\ [Next]_vars => BudgetInv'
  <2> SUFFICES ASSUME BudgetInv, [Next]_vars PROVE BudgetInv'
    OBVIOUS
  <2>1. CASE \E k \in Handler : handler_step(k)
    BY <2>1, HandlerStep
  <2>2. CASE tick \/ \E d \in Declaration : declare_domain(d[1], d[2])
    BY <2>2, OtherStep DEF tick, declare_domain, slot
  <2>3. CASE \E m \in Membership : publish_membership(m[1], m[2], m[3])
    BY <2>3, OtherStep DEF publish_membership, slot
  <2>4. CASE \E p \in Publisher : publish_readiness(p)
    BY <2>4, OtherStep, Zenon DEF publish_readiness, register_target, publish_candidate_facts,
       publish_candidate_state, publish_candidate_resources, slot
  <2>5. CASE \E e \in Event, q \in Report : publish_failure(e, q)
    BY <2>5, OtherStep DEF publish_failure, slot
  <2>6. CASE \E e \in Event : clear_failure(e)
    BY <2>6, OtherStep DEF clear_failure, slot
  <2>7. CASE UNCHANGED vars
    BY <2>7, OtherStep DEF vars, slot
  <2>8. QED
    BY <2>1, <2>2, <2>3, <2>4, <2>5, <2>6, <2>7 DEF Next
<1>2. BudgetInv => BudgetOverrun
  <2>1. Cardinality(InFlight) \in Nat /\ Cardinality(Handler) \in Nat
    BY InFlightFinite DEF InFlight
  <2>2. QED
    BY <2>1, PlannerAssumption DEF BudgetInv, BudgetOverrun
<1>3. QED
  BY <1>1, <1>2, BudgetInit, PTL DEF Spec

-----------------------------------------------------------------------------
(* Failure evidence                                                        *)

(* The order of what was received. *)
NotOlder(x, n) == x.seq > n.seq \/ (x.seq = n.seq /\ x.wall >= n.wall)

(* The store has nothing of an event only if nothing was reported, and what *)
(* it has is at least as new as every failure it was told of.               *)
EvidenceInv ==
    /\ receipt_seq \in Nat
    /\ events \in [Event -> EventRecord \cup {None}]
    /\ newest \in [Event -> Timestamp \cup {None}]
    /\ \A e \in Event : newest[e] # None => events[e] # None /\ NotOlder(events[e], newest[e])

(* EvidenceStore::publish never goes back, and does not ignore a failure    *)
(* that is newer than what it has.                                          *)
LEMMA PublishKeepsNewest ==
    ASSUME NEW old \in EventRecord \cup {None},
           NEW r \in [status : STRING, seq : Nat, wall : Nat],
           NEW n \in Timestamp, old # None, NotOlder(old, n)
    PROVE  NotOlder(publish(old, r), n)
<1> DEFINE x == [status |-> r.status, seq |-> r.seq, wall |-> r.wall,
                 cleared |-> r.status = "CLEARED"]
<1>1. old.seq \in Nat /\ old.wall \in Nat /\ n.seq \in Nat /\ n.wall \in Nat
  BY DEF EventRecord, Timestamp
<1>2. r.seq \in Nat /\ r.wall \in Nat /\ x.seq = r.seq /\ x.wall = r.wall
  OBVIOUS
<1>3. publish(old, r) = old \/ (publish(old, r) = x /\ newer(r, old))
  BY Zenon DEF publish
<1> HIDE DEF x
<1>4. newer(r, old) => NotOlder(x, n)
  BY <1>1, <1>2 DEF newer, NotOlder
<1>5. QED
  BY <1>3, <1>4

LEMMA PublishTakesFailure ==
    ASSUME NEW old \in EventRecord \cup {None},
           NEW r \in [status : STRING, seq : Nat, wall : Nat]
    PROVE  /\ publish(old, r) \in EventRecord
           /\ r.status # "CLEARED" => NotOlder(publish(old, r), r)
<1> DEFINE x == [status |-> r.status, seq |-> r.seq, wall |-> r.wall,
                 cleared |-> r.status = "CLEARED"]
<1>1. x \in EventRecord
  BY DEF EventRecord
<1>2. r.seq \in Nat /\ r.wall \in Nat /\ x.seq = r.seq /\ x.wall = r.wall
  OBVIOUS
<1>3. old # None => old \in EventRecord /\ old.seq \in Nat /\ old.wall \in Nat
  BY DEF EventRecord
<1>4. \/ publish(old, r) = x
      \/ /\ publish(old, r) = old /\ old # None
         /\ r.status # "CLEARED" => ~newer(r, old)
  BY Zenon DEF publish
<1> HIDE DEF x
<1>5. NotOlder(x, r)
  BY <1>2 DEF NotOlder
<1>6. old # None /\ ~newer(r, old) => NotOlder(old, r)
  BY <1>2, <1>3 DEF newer, NotOlder
<1>7. QED
  BY <1>1, <1>3, <1>4, <1>5, <1>6

(* The history notes the later of two moments. *)
LEMMA LaterIs ==
    ASSUME NEW n \in Timestamp \cup {None}, NEW r \in [status : STRING, seq : Nat, wall : Nat]
    PROVE  /\ later(n, r) \in Timestamp
           /\ \/ later(n, r) = n /\ n # None
              \/ later(n, r).seq = r.seq /\ later(n, r).wall = r.wall
<1>1. [seq |-> r.seq, wall |-> r.wall] \in Timestamp
  BY DEF Timestamp
<1>2. later(n, r) = [seq |-> r.seq, wall |-> r.wall] \/ (later(n, r) = n /\ n # None)
  BY Zenon DEF later
<1>3. QED
  BY <1>1, <1>2

LEMMA EvidenceReported ==
    ASSUME EvidenceInv, NEW e \in Event, NEW q \in Report, publish_failure(e, q)
    PROVE  EvidenceInv'
<1> DEFINE r == [q EXCEPT !.seq = IF q.seq = 0 THEN receipt_seq + 1 ELSE q.seq]
<1>1. q \in [status : STRING, seq : Nat, wall : Nat] /\ receipt_seq \in Nat
  BY PlannerAssumption DEF EvidenceInv
<1>2. r \in [status : STRING, seq : Nat, wall : Nat] /\ r.status = q.status
  BY <1>1
<1>3. /\ receipt_seq' \in Nat
      /\ events' = [events EXCEPT ![e] = publish(events[e], r)]
      /\ newest' = [newest EXCEPT ![e] = IF r.status = "CLEARED" THEN newest[e]
                                        ELSE later(newest[e], r)]
  BY <1>1, <1>2 DEF publish_failure
<1> HIDE DEF r
<1>4. events[e] \in EventRecord \cup {None} /\ newest[e] \in Timestamp \cup {None}
  BY DEF EvidenceInv
<1>5. /\ publish(events[e], r) \in EventRecord
      /\ r.status # "CLEARED" => NotOlder(publish(events[e], r), r)
      /\ newest[e] # None => NotOlder(publish(events[e], r), newest[e])
  BY <1>2, <1>4, PublishTakesFailure, PublishKeepsNewest DEF EvidenceInv
<1> DEFINE x == publish(events[e], r)
           n == IF r.status = "CLEARED" THEN newest[e] ELSE later(newest[e], r)
<1>6. n \in Timestamp \cup {None} /\ (n # None => NotOlder(x, n))
  <2>1. CASE r.status = "CLEARED"
    BY <1>4, <1>5, <2>1
  <2>2. CASE r.status # "CLEARED"
    <3>1. n = later(newest[e], r)
      BY <2>2
    <3>2. NotOlder(x, n)
      BY <1>2, <1>4, <1>5, <2>2, <3>1, LaterIs, Zenon DEF NotOlder
    <3>3. QED
      BY <1>2, <1>4, <3>1, <3>2, LaterIs
  <2>3. QED
    BY <2>1, <2>2
<1>7. x \in EventRecord /\ x # None
  BY <1>5, PlannerAssumption
<1> HIDE DEF x, n
<1>8. events' = [events EXCEPT ![e] = x] /\ newest' = [newest EXCEPT ![e] = n]
  BY <1>3, Zenon DEF x, n
<1>9. events' \in [Event -> EventRecord \cup {None}] /\ newest' \in [Event -> Timestamp \cup {None}]
  BY <1>6, <1>7, <1>8, Zenon DEF EvidenceInv
<1>10. /\ events'[e] = x /\ newest'[e] = n
       /\ \A d \in Event \ {e} : events'[d] = events[d] /\ newest'[d] = newest[d]
  BY <1>8 DEF EvidenceInv
<1>11. \A d \in Event : newest'[d] # None => events'[d] # None /\ NotOlder(events'[d], newest'[d])
  <2> SUFFICES ASSUME NEW d \in Event, newest'[d] # None
               PROVE  events'[d] # None /\ NotOlder(events'[d], newest'[d])
    OBVIOUS
  <2>1. CASE d = e
    BY <1>6, <1>7, <1>10, <2>1
  <2>2. CASE d # e
    BY <1>10, <2>2 DEF EvidenceInv
  <2>3. QED
    BY <2>1, <2>2
<1>12. QED
  BY <1>3, <1>9, <1>11 DEF EvidenceInv

LEMMA EvidenceCleared ==
    ASSUME EvidenceInv, NEW e \in Event, clear_failure(e)
    PROVE  EvidenceInv'
<1>1. events[e] \in EventRecord
  BY DEF EvidenceInv, clear_failure
<1> DEFINE x == [events[e] EXCEPT !.cleared = TRUE]
<1>2. x \in EventRecord /\ x.seq = events[e].seq /\ x.wall = events[e].wall
  BY <1>1, Zenon DEF EventRecord
<1>3. events' = [events EXCEPT ![e] = x] /\ receipt_seq' = receipt_seq /\ newest' = newest
  BY DEF clear_failure
<1> HIDE DEF x
<1>4. x # None
  BY <1>2, PlannerAssumption
<1>5. QED
  BY <1>1, <1>2, <1>3, <1>4, Zenon DEF EvidenceInv, NotOlder, clear_failure

(* EvidenceStore::publish: reports of an event may arrive in any order and  *)
(* number, be repeated, numbered by their sender or on receipt; what the    *)
(* store holds is never older than a failure it was told of.                *)
THEOREM NewestEvidence == Spec => []NewestFailureKept
<1>1. Init => EvidenceInv
  BY DEF Init, EvidenceInv
<1>2. EvidenceInv /\ [Next]_vars => EvidenceInv'
  <2> SUFFICES ASSUME EvidenceInv, [Next]_vars PROVE EvidenceInv'
    OBVIOUS
  <2>1. CASE \E e \in Event, q \in Report : publish_failure(e, q)
    BY <2>1, EvidenceReported
  <2>2. CASE \E e \in Event : clear_failure(e)
    BY <2>2, EvidenceCleared
  <2>3. CASE UNCHANGED evidence
    BY <2>3 DEF evidence, EvidenceInv
  <2>4. ASSUME NEW k \in Handler, handler_step(k) PROVE UNCHANGED evidence
    BY <2>4, Zenon DEF handler_step, plan_failover, authorize_failback, request_failback,
       execute_failback, plan_failback, begin, fence, fails, commit, count_attempt
  <2>5. ASSUME NEW p \in Publisher, publish_readiness(p) PROVE UNCHANGED evidence
    BY <2>5, Zenon DEF publish_readiness, register_target, publish_candidate_facts,
       publish_candidate_state, publish_candidate_resources
  <2>6. QED
    BY <2>1, <2>2, <2>3, <2>4, <2>5 DEF Next, vars, tick, declare_domain, publish_membership
<1>3. EvidenceInv => NewestFailureKept
  BY DEF EvidenceInv, NewestFailureKept, NotOlder
<1>4. QED
  BY <1>1, <1>2, <1>3, PTL DEF Spec

-----------------------------------------------------------------------------
(* The hysteresis window                                                   *)

(* Sequences.                                                               *)
LEMMA SeqEmpty ==
    ASSUME NEW S
    PROVE  <<>> \in Seq(S) /\ Len(<<>>) = 0 /\ \A q \in Seq(S) : q # <<>> => Len(q) > 0
  OBVIOUS

LEMMA SeqLen ==
    ASSUME NEW S, NEW q \in Seq(S)
    PROVE  Len(q) \in Nat /\ DOMAIN q = 1 .. Len(q)
  OBVIOUS

LEMMA SeqElement ==
    ASSUME NEW S, NEW q \in Seq(S), NEW i \in 1 .. Len(q)
    PROVE  q[i] \in S
  OBVIOUS

LEMMA SeqAppend ==
    ASSUME NEW S, NEW q \in Seq(S), NEW e \in S
    PROVE  /\ Append(q, e) \in Seq(S) /\ Len(Append(q, e)) = Len(q) + 1
           /\ \A i \in 1 .. Len(q) : Append(q, e)[i] = q[i]
           /\ Append(q, e)[Len(q) + 1] = e
  OBVIOUS

LEMMA SeqExcept ==
    ASSUME NEW S, NEW q \in Seq(S), NEW i \in 1 .. Len(q), NEW e \in S
    PROVE  [q EXCEPT ![i] = e] \in Seq(S)
  OBVIOUS

(* What PUBLISH_READINESS may carry, an entry of the candidate table, with   *)
(* facts about a worker of its target, and the rest of a handler.            *)
Payload == UNION {Readiness(t) : t \in Target}

Entry ==
    {x \in [target : Target, facts : {m.facts : m \in Payload} \cup {None},
            state : {m.state : m \in Payload} \cup {NoState},
            resources : {m.resources : m \in Payload} \cup {<<>>}] :
       x.facts # None => x.facts.boot \in BootsOf(x.target)}

Rest ==
    {r \in [step : {"facts", "state", "resources"}, target : Target, m : Payload] :
       r.m \in Readiness(r.target)}

(* Every target is registered once, and the handlers that publish for a     *)
(* target have registered it.                                               *)
Registered ==
    /\ targets \in Seq(Entry)
    /\ \A i, j \in DOMAIN targets : targets[i].target = targets[j].target => i = j
    /\ publishing \in [Publisher -> {idle} \cup Rest]
    /\ \A p \in Publisher : publishing[p].step # "idle" =>
          \E i \in DOMAIN targets : targets[i].target = publishing[p].target

(* A target has been ready since some moment that has passed, and its window *)
(* started then or later.                                                    *)
WindowInv ==
    /\ Registered
    /\ now \in Nat
    /\ ready_since \in [Target -> Nat \cup {None}]
    /\ steady \in [Target -> Nat \cup {None}]
    /\ \A t \in Target : steady[t] # None => steady[t] <= now
    /\ \A i \in DOMAIN targets :
          LET t == targets[i].target
          IN  targets[i].facts # None /\ targets[i].facts.ready =>
                 /\ ready_since[t] \in Nat /\ steady[t] \in Nat
                 /\ ready_since[t] >= steady[t]

(* What a handler that is under way has, and the entry find_target returns. *)
LEMMA UnderWay ==
    ASSUME Registered, NEW p \in Publisher, publishing[p].step # "idle"
    PROVE  LET r == publishing[p]
               i == index(targets, r.target)
           IN  /\ r \in Rest
               /\ r.step \in {"facts", "state", "resources"} /\ r.target \in Target
               /\ r.m \in Payload /\ r.m \in Readiness(r.target)
               /\ r = [step |-> r.step, target |-> r.target, m |-> r.m]
               /\ i \in DOMAIN targets /\ targets[i] \in Entry /\ targets[i].target = r.target
               /\ targets[i] = [target |-> targets[i].target, facts |-> targets[i].facts,
                                state |-> targets[i].state, resources |-> targets[i].resources]
<1> DEFINE r == publishing[p]
           i == index(targets, r.target)
<1>1. r \in Rest
  BY DEF Registered, idle
<1>2. /\ r.step \in {"facts", "state", "resources"} /\ r.target \in Target
      /\ r.m \in Payload /\ r.m \in Readiness(r.target)
      /\ r = [step |-> r.step, target |-> r.target, m |-> r.m]
  BY <1>1 DEF Rest
<1>3. i \in DOMAIN targets /\ targets[i].target = r.target
  BY Zenon DEF Registered, index
<1>4. targets[i] \in Entry
  BY <1>3, SeqLen, SeqElement DEF Registered
<1>5. targets[i] = [target |-> targets[i].target, facts |-> targets[i].facts,
                    state |-> targets[i].state, resources |-> targets[i].resources]
  BY <1>4 DEF Entry
<1>6. QED
  BY <1>1, <1>2, <1>3, <1>4, <1>5, Zenon

LEMMA WindowRegister ==
    ASSUME WindowInv, NEW p \in Publisher, NEW t \in Target, register_target(p, t)
    PROVE  WindowInv'
<1>1. UNCHANGED <<ready_since, steady, now>>
  BY DEF register_target
<1>2. PICK m \in Readiness(t) :
         publishing' = [publishing EXCEPT ![p] = [step |-> "facts", target |-> t, m |-> m]]
  BY Zenon DEF register_target
<1>3. [step |-> "facts", target |-> t, m |-> m] \in Rest
  BY DEF Rest, Payload
<1>4. /\ publishing' \in [Publisher -> {idle} \cup Rest]
      /\ publishing'[p].target = t
      /\ \A u \in Publisher \ {p} : publishing'[u] = publishing[u]
  BY <1>2, <1>3 DEF WindowInv, Registered
<1>5. CASE \E i \in DOMAIN targets : targets[i].target = t
  <2>1. targets' = targets
    BY <1>5 DEF register_target
  <2>2. \A u \in Publisher : publishing'[u].step # "idle" =>
           \E i \in DOMAIN targets' : targets'[i].target = publishing'[u].target
    <3> SUFFICES ASSUME NEW u \in Publisher, publishing'[u].step # "idle"
                 PROVE  \E i \in DOMAIN targets : targets[i].target = publishing'[u].target
      BY <2>1
    <3>1. CASE u = p
      BY <1>4, <1>5, <3>1
    <3>2. CASE u # p
      BY <1>4, <3>2 DEF WindowInv, Registered
    <3>3. QED
      BY <3>1, <3>2
  <2>3. Registered'
    BY <1>4, <2>1, <2>2, Zenon DEF WindowInv, Registered
  <2>4. QED
    BY <1>1, <2>1, <2>3, Zenon DEF WindowInv
<1>6. CASE ~ \E i \in DOMAIN targets : targets[i].target = t
  <2> DEFINE x == [target |-> t, facts |-> None, state |-> NoState, resources |-> <<>>]
             n == Len(targets)
  <2>1. targets' = Append(targets, x)
    BY <1>6 DEF register_target
  <2>2. x \in Entry /\ x.target = t /\ x.facts = None
    BY DEF Entry
  <2>3. targets \in Seq(Entry)
    BY DEF WindowInv, Registered
  <2> HIDE DEF x
  <2>4. /\ targets' \in Seq(Entry) /\ n \in Nat
        /\ DOMAIN targets = 1 .. n
        /\ DOMAIN targets' = 1 .. n + 1 /\ targets'[n + 1] = x
        /\ \A i \in 1 .. n : targets'[i] = targets[i]
    BY <2>1, <2>2, <2>3, SeqAppend, SeqLen
  <2> HIDE DEF n
  <2>5. \A i, j \in DOMAIN targets' : targets'[i].target = targets'[j].target => i = j
    BY <1>6, <2>2, <2>4, SMTT(30) DEF WindowInv, Registered
  <2>6. \A u \in Publisher : publishing'[u].step # "idle" =>
            \E i \in DOMAIN targets' : targets'[i].target = publishing'[u].target
    <3> SUFFICES ASSUME NEW u \in Publisher, publishing'[u].step # "idle"
                 PROVE  \E i \in DOMAIN targets' : targets'[i].target = publishing'[u].target
      OBVIOUS
    <3>1. CASE u = p
      <4>1. n + 1 \in DOMAIN targets' /\ targets'[n + 1].target = t
        BY <2>2, <2>4
      <4>2. QED
        BY <1>4, <3>1, <4>1
    <3>2. CASE u # p
      <4>1. PICK i \in DOMAIN targets : targets[i].target = publishing'[u].target
        BY <1>4, <3>2 DEF WindowInv, Registered
      <4>2. i \in DOMAIN targets' /\ targets'[i].target = publishing'[u].target
        BY <2>4, <4>1
      <4>3. QED
        BY <4>2
    <3>3. QED
      BY <3>1, <3>2
  <2>7. Registered'
    BY <1>4, <2>4, <2>5, <2>6 DEF Registered
  <2>8. \A i \in DOMAIN targets' : \/ i \in DOMAIN targets /\ targets'[i] = targets[i]
                                   \/ targets'[i].facts = None
    BY <2>2, <2>4
  <2>9. QED
    BY <1>1, <2>7, <2>8 DEF WindowInv
<1>7. QED
  BY <1>5, <1>6

(* A publication that replaces one entry and ends, or goes on. *)
LEMMA EntryReplaced ==
    ASSUME Registered, NEW p \in Publisher, publishing[p].step # "idle",
           NEW x \in Entry, x.target = publishing[p].target,
           targets' = [targets EXCEPT ![index(targets, publishing[p].target)] = x],
           NEW r \in {idle} \cup Rest, r.step # "idle" => r.target = publishing[p].target,
           publishing' = [publishing EXCEPT ![p] = r]
    PROVE  /\ Registered'
           /\ DOMAIN targets' = DOMAIN targets
           /\ \A i \in DOMAIN targets :
                 targets'[i] = IF targets[i].target = publishing[p].target THEN x ELSE targets[i]
<1> DEFINE t == publishing[p].target
<1>1. index(targets, t) \in DOMAIN targets /\ targets[index(targets, t)].target = t
  BY UnderWay
<1> HIDE DEF t
<1>2. \A i \in DOMAIN targets : targets[i].target = t <=> i = index(targets, t)
  BY <1>1 DEF Registered
<1>3. /\ DOMAIN targets' = DOMAIN targets
      /\ \A i \in DOMAIN targets :
            targets'[i] = IF targets[i].target = t THEN x ELSE targets[i]
  BY <1>1, <1>2 DEF Registered, t
<1>4. targets' \in Seq(Entry)
  BY <1>1, SeqLen, SeqExcept DEF Registered, t
<1>5. \A i \in DOMAIN targets : targets'[i].target = targets[i].target
  BY <1>3 DEF t
<1>6. \A i, j \in DOMAIN targets' : targets'[i].target = targets'[j].target => i = j
  BY <1>3, <1>5 DEF Registered
<1>7. /\ publishing' \in [Publisher -> {idle} \cup Rest] /\ publishing'[p] = r
      /\ \A u \in Publisher : u # p => publishing'[u] = publishing[u]
  BY DEF Registered
<1>8. \A u \in Publisher : publishing'[u].step # "idle" =>
         \E i \in DOMAIN targets' : targets'[i].target = publishing'[u].target
  <2> SUFFICES ASSUME NEW u \in Publisher, publishing'[u].step # "idle"
               PROVE  \E i \in DOMAIN targets' : targets'[i].target = publishing'[u].target
    OBVIOUS
  <2>1. PICK i \in DOMAIN targets : targets[i].target = publishing'[u].target
    <3>1. CASE u = p
      BY <1>1, <1>7, <3>1 DEF t
    <3>2. CASE u # p
      BY <1>7, <3>2 DEF Registered
    <3>3. QED
      BY <3>1, <3>2
  <2>2. i \in DOMAIN targets' /\ targets'[i].target = publishing'[u].target
    BY <1>3, <1>5, <2>1
  <2>3. QED
    BY <2>2
<1>9. QED
  BY <1>3, <1>4, <1>6, <1>7, <1>8 DEF Registered, t

(* A published entry that takes nothing from the window. *)
LEMMA WindowUntouched ==
    ASSUME WindowInv, NEW p \in Publisher, publishing[p].step # "idle", NEW x \in Entry,
           x.target = publishing[p].target,
           x.facts = targets[index(targets, publishing[p].target)].facts,
           targets' = [targets EXCEPT ![index(targets, publishing[p].target)] = x],
           NEW r \in {idle} \cup Rest, r.step # "idle" => r.target = publishing[p].target,
           publishing' = [publishing EXCEPT ![p] = r],
           UNCHANGED <<ready_since, steady, now>>
    PROVE  WindowInv'
<1> DEFINE t == publishing[p].target
<1>1. /\ Registered' /\ DOMAIN targets' = DOMAIN targets
      /\ \A i \in DOMAIN targets :
            targets'[i] = IF targets[i].target = t THEN x ELSE targets[i]
  BY EntryReplaced, Zenon DEF WindowInv
<1>2. index(targets, t) \in DOMAIN targets /\ targets[index(targets, t)].target = t
  BY UnderWay DEF WindowInv
<1> HIDE DEF t
<1>3. \A i \in DOMAIN targets : targets[i].target = t => i = index(targets, t)
  BY <1>2 DEF WindowInv, Registered
<1>4. \A i \in DOMAIN targets :
         targets'[i].target = targets[i].target /\ targets'[i].facts = targets[i].facts
  BY <1>1, <1>3 DEF t
<1>5. QED
  BY <1>1, <1>4 DEF WindowInv

LEMMA WindowState ==
    ASSUME WindowInv, NEW p \in Publisher,
           publish_candidate_state(p) \/ publish_candidate_resources(p)
    PROVE  WindowInv'
<1> DEFINE t == publishing[p].target
           i == index(targets, t)
<1>1. publishing[p].step \in {"state", "resources"}
  BY Zenon DEF publish_candidate_state, publish_candidate_resources
<1>2. publishing[p].step # "idle" /\ Registered
  BY <1>1 DEF WindowInv
<1>3. /\ publishing[p].target \in Target /\ publishing[p].m \in Payload
      /\ publishing[p].m \in Readiness(t)
      /\ publishing[p] = [step |-> publishing[p].step, target |-> t, m |-> publishing[p].m]
      /\ targets[i] \in Entry /\ targets[i].target = t /\ i \in DOMAIN targets
      /\ targets[i] = [target |-> targets[i].target, facts |-> targets[i].facts,
                       state |-> targets[i].state, resources |-> targets[i].resources]
  BY <1>2, UnderWay, Zenon
<1>4. CASE publish_candidate_state(p)
  <2> DEFINE x == [targets[i] EXCEPT !.state = publishing[p].m.state]
             r == [publishing[p] EXCEPT !.step = "resources"]
  <2>1. x \in Entry /\ x.target = t /\ x.facts = targets[i].facts
    BY <1>3 DEF Entry
  <2>2. r \in Rest /\ r.target = t
    BY <1>3 DEF Rest
  <2>3. /\ targets' = [targets EXCEPT ![i] = x] /\ publishing' = [publishing EXCEPT ![p] = r]
        /\ UNCHANGED <<ready_since, steady, now>>
    BY <1>4 DEF publish_candidate_state
  <2> HIDE DEF x, r
  <2>4. QED
    BY Zenon, <1>2, <2>1, <2>2, <2>3, WindowUntouched
<1>5. CASE publish_candidate_resources(p)
  <2> DEFINE x == [targets[i] EXCEPT !.resources = publishing[p].m.resources]
  <2>1. x \in Entry /\ x.target = t /\ x.facts = targets[i].facts
    BY <1>3 DEF Entry
  <2>2. /\ targets' = [targets EXCEPT ![i] = x] /\ publishing' = [publishing EXCEPT ![p] = idle]
        /\ UNCHANGED <<ready_since, steady, now>>
    BY <1>5 DEF publish_candidate_resources
  <2>3. idle.step = "idle"
    BY DEF idle
  <2> HIDE DEF x
  <2>4. QED
    BY Zenon, <1>2, <2>1, <2>2, <2>3, WindowUntouched
<1>6. QED
  BY <1>4, <1>5

LEMMA WindowFacts ==
    ASSUME WindowInv, NEW p \in Publisher, publish_candidate_facts(p)
    PROVE  WindowInv'
<1> DEFINE t == publishing[p].target
           i == index(targets, t)
           f == publishing[p].m.facts
           x == [targets[i] EXCEPT !.facts = f]
           r == [publishing[p] EXCEPT !.step = "state"]
<1>1. publishing[p].step = "facts" /\ Registered
  BY Zenon DEF publish_candidate_facts, WindowInv
<1>2. /\ t \in Target /\ publishing[p].m \in Payload /\ publishing[p].m \in Readiness(t)
      /\ publishing[p] = [step |-> publishing[p].step, target |-> t, m |-> publishing[p].m]
      /\ targets[i] \in Entry /\ targets[i].target = t /\ i \in DOMAIN targets
      /\ targets[i] = [target |-> targets[i].target, facts |-> targets[i].facts,
                       state |-> targets[i].state, resources |-> targets[i].resources]
  BY <1>1, UnderWay, Zenon
<1>3. f.boot \in BootsOf(t)
  BY <1>2 DEF BootsOf
<1>4. x \in Entry /\ x.target = t /\ x.facts = f
  BY <1>2, <1>3 DEF Entry
<1>5. r \in Rest /\ r.target = t
  BY <1>2 DEF Rest
<1>6. publishing' = [publishing EXCEPT ![p] = r] /\ now' = now
  BY Zenon DEF publish_candidate_facts
<1>7. CASE targets' = [targets EXCEPT ![i] = x]
           /\ ready_since' = [ready_since EXCEPT ![t] = window(t, f.ready)]
           /\ steady' = [steady EXCEPT ![t] = IF ~f.ready THEN None
                                            ELSE IF steady[t] = None THEN now ELSE steady[t]]
  <2> HIDE DEF x, r, f
  <2>1. /\ Registered' /\ DOMAIN targets' = DOMAIN targets
        /\ \A j \in DOMAIN targets :
              targets'[j] = IF targets[j].target = t THEN x ELSE targets[j]
    BY <1>1, <1>4, <1>5, <1>6, <1>7, EntryReplaced, Zenon
  <2> HIDE DEF i, t
  <2>2. /\ ready_since' \in [Target -> Nat \cup {None}]
        /\ steady' \in [Target -> Nat \cup {None}]
        /\ \A u \in Target : u # t => ready_since'[u] = ready_since[u] /\ steady'[u] = steady[u]
    BY <1>2, <1>7 DEF WindowInv, window
  <2>3. steady'[t] # None => steady'[t] <= now
    BY <1>2, <1>7 DEF WindowInv
  <2>4. f.ready => /\ ready_since'[t] \in Nat /\ steady'[t] \in Nat
                   /\ ready_since'[t] >= steady'[t]
    BY <1>2, <1>7 DEF WindowInv, window
  <2>5. \A j \in DOMAIN targets : targets[j].target \in Target
    <3>1. \A j \in DOMAIN targets : targets[j] \in Entry
      BY SeqLen, SeqElement DEF WindowInv, Registered
    <3>2. QED
      BY <3>1 DEF Entry
  <2>6. QED
    BY <1>4, <1>6, <2>1, <2>2, <2>3, <2>4, <2>5 DEF WindowInv
<1>8. CASE UNCHANGED candidates
  <2>1. targets = [j \in DOMAIN targets |-> targets[j]]
    BY SeqLen DEF WindowInv, Registered
  <2>2. targets' = [targets EXCEPT ![i] = targets[i]] /\ UNCHANGED <<ready_since, steady, now>>
    BY <1>6, <1>8, <2>1 DEF candidates
  <2> HIDE DEF r
  <2>3. QED
    BY Zenon, <1>1, <1>2, <1>5, <1>6, <2>2, WindowUntouched
<1>9. QED
  BY <1>7, <1>8, Zenon DEF publish_candidate_facts

LEMMA WindowStep == WindowInv /\ [Next]_vars => WindowInv'
<1> SUFFICES ASSUME WindowInv, [Next]_vars PROVE WindowInv'
  OBVIOUS
<1>1. ASSUME NEW p \in Publisher, publish_readiness(p) PROVE WindowInv'
  BY <1>1, WindowRegister, WindowFacts, WindowState, Zenon DEF publish_readiness
<1>2. CASE UNCHANGED <<candidates, publishing, now>>
  BY <1>2, Zenon DEF candidates, WindowInv, Registered
<1>3. CASE tick
  BY <1>3 DEF tick, candidates, WindowInv, Registered
<1>4. ASSUME NEW k \in Handler, handler_step(k)
      PROVE  UNCHANGED <<candidates, publishing, now>>
  BY <1>4, Zenon DEF handler_step, plan_failover, authorize_failback, request_failback,
     execute_failback, plan_failback, begin, fence, fails, commit, count_attempt
<1>5. ASSUME NEW e \in Event, clear_failure(e) PROVE UNCHANGED <<candidates, publishing, now>>
  BY <1>5 DEF clear_failure
<1>6. ASSUME NEW e \in Event, NEW q \in Report, publish_failure(e, q)
      PROVE  WindowInv'
  BY <1>6, Zenon DEF publish_failure, WindowInv, Registered
<1>7. QED
  BY <1>1, <1>2, <1>3, <1>4, <1>5, <1>6, Zenon DEF Next, vars, declare_domain, publish_membership

LEMMA WindowInit == Init => WindowInv
BY SeqEmpty DEF Init, WindowInv, Registered, idle

(* publish_candidate_facts: the hysteresis window that evaluate_failback    *)
(* measures never starts before the target became ready for the last time,  *)
(* so a target that was not ready in between has to wait again.             *)
THEOREM Window == Spec => []WindowWithinReadiness
<1>1. WindowInv => WindowWithinReadiness
  BY DEF WindowInv, WindowWithinReadiness
<1>2. QED
  BY <1>1, WindowInit, WindowStep, PTL DEF Spec
-----------------------------------------------------------------------------
(* The index of the service and the snapshot                               *)

(* Every target that is bound to the service is registered and has facts. *)
IndexInv ==
    /\ by_service \in Seq(Target)
    /\ \A i \in DOMAIN by_service :
          \E j \in DOMAIN targets : targets[j].target = by_service[i] /\ targets[j].facts # None

(* An entry stays where it is, and does not lose its facts. *)
TableKept ==
    \A j \in DOMAIN targets :
       /\ j \in DOMAIN targets' /\ targets'[j].target = targets[j].target
       /\ targets[j].facts # None => targets'[j].facts # None

LEMMA EntryTyped ==
    ASSUME Registered, NEW i \in DOMAIN targets
    PROVE  /\ targets[i].target \in Target
           /\ targets[i].facts # None => /\ targets[i].facts \in Facts
                                         /\ targets[i].facts.boot \in BootsOf(targets[i].target)
           /\ targets[i].resources \in Seq(Resource)
<1>1. targets[i] \in Entry
  BY SeqLen, SeqElement DEF Registered
<1>2. \A m \in Payload : m.facts \in Facts /\ m.resources \in Seq(Resource)
  BY PublicationAssumption DEF Payload
<1>3. <<>> \in Seq(Resource)
  BY SeqEmpty
<1>4. QED
  BY <1>1, <1>2, <1>3 DEF Entry

(* As long as the index stays it refers to the same entries. *)
LEMMA IndexKept ==
    ASSUME IndexInv, TableKept, by_service' = by_service
    PROVE  IndexInv'
BY DEF IndexInv, TableKept

(* A publication adds an entry or changes the one of its target. *)
LEMMA TableStep ==
    ASSUME WindowInv, NEW p \in Publisher, publish_readiness(p)
    PROVE  TableKept
<1>1. CASE \E t \in Target : register_target(p, t)
  <2>1. PICK t \in Target : register_target(p, t)
    BY <1>1
  <2>2. targets \in Seq(Entry)
    BY DEF WindowInv, Registered
  <2> DEFINE x == [target |-> t, facts |-> None, state |-> NoState, resources |-> <<>>]
  <2>3. x \in Entry
    BY DEF Entry
  <2>4. targets' = targets \/ targets' = Append(targets, x)
    BY <2>1 DEF register_target
  <2> HIDE DEF x
  <2>5. \A j \in DOMAIN targets : j \in DOMAIN targets' /\ targets'[j] = targets[j]
    <3>1. CASE targets' = targets
      BY <3>1
    <3>2. CASE targets' = Append(targets, x)
      <4>1. /\ DOMAIN targets = 1 .. Len(targets) /\ Len(targets) \in Nat
            /\ DOMAIN targets' = 1 .. Len(targets) + 1
            /\ \A j \in 1 .. Len(targets) : targets'[j] = targets[j]
        BY <2>2, <2>3, <3>2, SeqAppend, SeqLen
      <4>2. QED
        BY <4>1
    <3>3. QED
      BY <2>4, <3>1, <3>2
  <2>6. QED
    BY <2>5 DEF TableKept
<1>2. CASE ~ \E t \in Target : register_target(p, t)
  <2> DEFINE i == index(targets, publishing[p].target)
  <2>1. publishing[p].step # "idle" /\ Registered
    BY <1>2, Zenon DEF publish_readiness, publish_candidate_facts, publish_candidate_state,
       publish_candidate_resources, WindowInv
  <2>2. /\ publishing[p].m \in Payload /\ i \in DOMAIN targets
        /\ targets[i] = [target |-> targets[i].target, facts |-> targets[i].facts,
                         state |-> targets[i].state, resources |-> targets[i].resources]
    BY <2>1, UnderWay, Zenon
  <2>3. publishing[p].m.facts # None
    BY <2>2, PublicationAssumption, SMTT(30) DEF Payload
  <2>4. targets = [j \in DOMAIN targets |-> targets[j]]
    BY SeqLen DEF WindowInv, Registered
  <2> HIDE DEF i
  <2>5. CASE publish_candidate_facts(p)
    <3>1. targets' = targets \/ targets' = [targets EXCEPT ![i].facts = publishing[p].m.facts]
      BY <2>5, Zenon DEF publish_candidate_facts, candidates, i
    <3>2. QED
      BY <2>2, <2>3, <2>4, <3>1 DEF TableKept
  <2>6. CASE publish_candidate_state(p) \/ publish_candidate_resources(p)
    <3>1. \/ targets' = [targets EXCEPT ![i].state = publishing[p].m.state]
          \/ targets' = [targets EXCEPT ![i].resources = publishing[p].m.resources]
      BY <2>6 DEF publish_candidate_state, publish_candidate_resources, i
    <3>2. QED
      BY <2>2, <2>4, <3>1 DEF TableKept
  <2>7. QED
    BY <1>2, <2>5, <2>6 DEF publish_readiness
<1>3. QED
  BY <1>1, <1>2

LEMMA IndexStep ==
    ASSUME WindowInv, IndexInv, [Next]_vars
    PROVE  IndexInv'
<1>1. ASSUME NEW p \in Publisher, publish_candidate_facts(p) PROVE IndexInv'
  <2> DEFINE t == publishing[p].target
             i == index(targets, t)
             f == publishing[p].m.facts
  <2>1. TableKept
    BY <1>1, TableStep DEF publish_readiness
  <2>2. CASE by_service' = by_service
    BY <2>1, <2>2, IndexKept
  <2>3. CASE by_service' # by_service
    <3>1. by_service' = Append(by_service, t) /\ targets' = [targets EXCEPT ![i].facts = f]
      BY <1>1, <2>3, Zenon DEF publish_candidate_facts, candidates
    <3>2. publishing[p].step # "idle" /\ Registered
      BY <1>1, Zenon DEF publish_candidate_facts, WindowInv
    <3>3. /\ publishing[p].m \in Payload /\ t \in Target
          /\ i \in DOMAIN targets /\ targets[i].target = t
          /\ targets[i] = [target |-> targets[i].target, facts |-> targets[i].facts,
                           state |-> targets[i].state, resources |-> targets[i].resources]
      BY <3>2, UnderWay, Zenon
    <3>4. f # None
      BY <3>3, PublicationAssumption DEF Payload
    <3>5. targets = [j \in DOMAIN targets |-> targets[j]]
      BY SeqLen DEF WindowInv, Registered
    <3> HIDE DEF i, f, t
    <3>6. i \in DOMAIN targets' /\ targets'[i].target = t /\ targets'[i].facts # None
      BY <3>1, <3>3, <3>4, <3>5
    <3> DEFINE n == Len(by_service)
    <3>7. /\ by_service' \in Seq(Target) /\ n \in Nat /\ DOMAIN by_service = 1 .. n
          /\ DOMAIN by_service' = 1 .. n + 1 /\ by_service'[n + 1] = t
          /\ \A j \in 1 .. n : by_service'[j] = by_service[j]
      BY <3>1, <3>3, SeqAppend, SeqLen DEF IndexInv
    <3> HIDE DEF n
    <3>8. \A j \in DOMAIN by_service :
             \E m \in DOMAIN targets' : targets'[m].target = by_service[j] /\ targets'[m].facts # None
      BY <2>1 DEF IndexInv, TableKept
    <3>9. \A j \in DOMAIN by_service' : j \in DOMAIN by_service \/ j = n + 1
      BY <3>7
    <3>10. QED
      BY <3>6, <3>7, <3>8, <3>9 DEF IndexInv
  <2>4. QED
    BY <2>2, <2>3
<1>2. ASSUME NEW p \in Publisher, publish_readiness(p), ~publish_candidate_facts(p) PROVE IndexInv'
  <2>1. by_service' = by_service
    BY <1>2, Zenon DEF publish_readiness, register_target, publish_candidate_state,
       publish_candidate_resources
  <2>2. QED
    BY <1>2, <2>1, TableStep, IndexKept
<1>3. CASE UNCHANGED <<targets, by_service>>
  BY <1>3, Zenon DEF IndexInv
<1>4. ASSUME NEW k \in Handler, handler_step(k) PROVE UNCHANGED <<targets, by_service>>
  BY <1>4, Zenon DEF handler_step, plan_failover, authorize_failback, request_failback,
     execute_failback, plan_failback, begin, fence, fails, commit, count_attempt, candidates
<1>5. QED
  BY <1>1, <1>2, <1>3, <1>4, Zenon DEF Next, vars, candidates, tick, declare_domain,
     publish_membership, publish_failure, clear_failure

(* A snapshot has, at positions up to some limit, candidates of registered     *)
(* targets with facts.                                                         *)
LEMMA SnapshotEntries ==
    ASSUME Registered, IndexInv
    PROVE  /\ \E N \in Nat : DOMAIN snapshot_locked \subseteq 1 .. N
           /\ \A i \in DOMAIN snapshot_locked : \E j \in DOMAIN targets :
                 snapshot_locked[i] = candidate(targets[j]) /\ targets[j].facts # None
<1> DEFINE compatible == {i \in DOMAIN targets : targets[i].facts # None /\ targets[i].facts.compatible}
           entry == IF by_service # <<>>
                    THEN [i \in DOMAIN by_service |-> index(targets, by_service[i])]
                    ELSE [i \in compatible |-> i]
           admitted == {i \in DOMAIN entry : Cardinality({j \in DOMAIN entry : j < i}) < MaxCandidates}
<1>1. snapshot_locked = [i \in admitted |-> candidate(targets[entry[i]])]
  BY Zenon DEF snapshot_locked
<1>2. admitted \subseteq DOMAIN entry
  OBVIOUS
<1>3. \E N \in Nat : DOMAIN entry \subseteq 1 .. N
  <2>1. DOMAIN by_service = 1 .. Len(by_service) /\ Len(by_service) \in Nat
    BY SeqLen DEF IndexInv
  <2>2. compatible \subseteq 1 .. Len(targets) /\ Len(targets) \in Nat
    BY SeqLen DEF Registered
  <2> HIDE DEF compatible
  <2>3. DOMAIN entry = DOMAIN by_service \/ DOMAIN entry = compatible
    OBVIOUS
  <2>4. QED
    BY <2>1, <2>2, <2>3
<1>4. ASSUME NEW i \in DOMAIN entry
      PROVE  entry[i] \in DOMAIN targets /\ targets[entry[i]].facts # None
  <2>1. CASE by_service # <<>>
    <3>1. i \in DOMAIN by_service /\ entry[i] = index(targets, by_service[i])
      BY <1>4, <2>1
    <3>2. PICK j \in DOMAIN targets : targets[j].target = by_service[i] /\ targets[j].facts # None
      BY <3>1 DEF IndexInv
    <3>3. /\ index(targets, by_service[i]) \in DOMAIN targets
          /\ targets[index(targets, by_service[i])].target = by_service[i]
      BY <3>2 DEF index
    <3>4. index(targets, by_service[i]) = j
      BY <3>2, <3>3 DEF Registered
    <3>5. QED
      BY <3>1, <3>2, <3>4
  <2>2. CASE by_service = <<>>
    BY <1>4, <2>2
  <2>3. QED
    BY <2>1, <2>2
<1> HIDE DEF entry, admitted
<1>5. DOMAIN snapshot_locked = admitted
  BY <1>1
<1>6. \A i \in admitted : snapshot_locked[i] = candidate(targets[entry[i]])
  BY <1>1
<1>7. QED
  BY <1>2, <1>3, <1>4, <1>5, <1>6

(* The candidates of one target in a snapshot are the same. *)
LEMMA SnapshotOfOne ==
    ASSUME Registered, IndexInv
    PROVE  \A i, j \in DOMAIN snapshot_locked :
              snapshot_locked[i].target = snapshot_locked[j].target =>
                 snapshot_locked[i] = snapshot_locked[j]
<1>1. ASSUME NEW i \in DOMAIN targets, NEW j \in DOMAIN targets,
             candidate(targets[i]).target = candidate(targets[j]).target
      PROVE  candidate(targets[i]) = candidate(targets[j])
  <2>1. targets[i].target = targets[j].target
    BY <1>1 DEF candidate
  <2>2. QED
    BY <2>1 DEF Registered
<1>2. QED
  BY <1>1, SnapshotEntries

(* The comparator can compare what select sorts. *)
LEMMA SnapshotRanked ==
    ASSUME Registered, IndexInv, NEW ctx, NEW i \in Eligible(snapshot_locked, reg, ctx)
    PROVE  Ranked(snapshot_locked[i])
<1> DEFINE c == snapshot_locked[i]
<1>1. i \in DOMAIN snapshot_locked /\ hard_eligible(c, reg, ctx)
  BY DEF Eligible
<1>2. PICK j \in DOMAIN targets : c = candidate(targets[j]) /\ targets[j].facts # None
  BY <1>1, SnapshotEntries
<1>3. /\ targets[j].target \in Nat /\ targets[j].facts \in Facts
      /\ targets[j].resources \in Seq(Resource)
  BY <1>2, EntryTyped, SelectionAssumption
<1>4. /\ c.target = targets[j].target /\ c.boot = targets[j].facts.boot
      /\ c.resources = targets[j].resources
  BY <1>2 DEF candidate
<1> HIDE DEF c
<1>5. \A n \in DOMAIN c.resources : c.resources[n].amount \in Nat
  <2>1. \A n \in DOMAIN c.resources : c.resources[n] \in Resource
    BY <1>3, <1>4, SeqLen, SeqElement
  <2>2. QED
    BY <2>1 DEF Resource
<1>6. satisfies(c, Service.resources[1])
  BY <1>1, SelectionAssumption DEF hard_eligible
<1>7. rank(c) \in Int
  BY <1>5, <1>6, RankTyped
<1>8. c.target \in Nat /\ c.boot \in Nat
  BY <1>3, <1>4 DEF Facts
<1>9. QED
  BY <1>7, <1>8 DEF Ranked, c
LEMMA IndexInit == Init => IndexInv
BY SeqEmpty DEF Init, IndexInv

(* SelectionEngine::select: the plan does not depend on the order in which    *)
(* workers registered or were bound to the service, for any candidates,       *)
(* domains, failures and fences: the comparator orders any two workers, so    *)
(* that the stability of the sort never decides.                              *)
THEOREM SelectionOrder == Spec => []SelectionIgnoresOrder
<1>1. WindowInv /\ IndexInv => SelectionIgnoresOrder
  <2> SUFFICES ASSUME WindowInv, IndexInv,
                      NEW p \in Surjection(DOMAIN snapshot_locked, DOMAIN snapshot_locked)
               PROVE  select([i \in DOMAIN snapshot_locked |-> snapshot_locked[p[i]]], reg,
                             build_context(None))
                      = select(snapshot_locked, reg, build_context(None))
    BY DEF SelectionIgnoresOrder
  <2> DEFINE cs == snapshot_locked
             ctx == build_context(None)
  <2>1. Registered
    BY DEF WindowInv
  <2>2. PICK N \in Nat : DOMAIN cs \subseteq 1 .. N
    BY <2>1, SnapshotEntries
  <2>3. \A i \in Eligible(cs, reg, ctx) : Ranked(cs[i])
    BY <2>1, SnapshotRanked
  <2>4. \A i, j \in DOMAIN cs : cs[i].target = cs[j].target => cs[i] = cs[j]
    BY <2>1, SnapshotOfOne
  <2> HIDE DEF cs, ctx
  <2>5. select([i \in DOMAIN cs |-> cs[p[i]]], reg, ctx) = select(cs, reg, ctx)
    BY <2>2, <2>3, <2>4, OrderIgnored DEF cs
  <2>6. QED
    BY <2>5 DEF cs, ctx
<1>2. WindowInv /\ IndexInv /\ [Next]_vars => IndexInv'
  BY IndexStep
<1>3. QED
  BY <1>1, <1>2, WindowInit, IndexInit, WindowStep, PTL DEF Spec

-----------------------------------------------------------------------------
(* Failure domains                                                         *)

RegistryInv ==
    /\ reg = [decl |-> reg.decl, memb |-> reg.memb]
    /\ reg.decl \in [Domain -> Decl \cup {None}]

LEMMA RegistryStep ==
    ASSUME RegistryInv, [Next]_vars
    PROVE  RegistryInv'
<1>1. ASSUME NEW m \in Declaration, declare_domain(m[1], m[2]) PROVE RegistryInv'
  <2>1. m[1] \in Domain /\ m[2] \in Decl
    BY PublicationAssumption
  <2>2. reg' = reg \/ reg' = [reg EXCEPT !.decl[m[1]] = m[2]]
    BY <1>1 DEF declare_domain, declare
  <2>3. CASE reg' = reg
    BY <2>3 DEF RegistryInv
  <2>4. CASE reg' = [reg EXCEPT !.decl[m[1]] = m[2]]
    <3>1. reg' = [decl |-> [reg.decl EXCEPT ![m[1]] = m[2]], memb |-> reg.memb]
      BY <2>4 DEF RegistryInv
    <3>2. reg'.decl = [reg.decl EXCEPT ![m[1]] = m[2]] /\ reg'.memb = reg.memb
      BY <3>1
    <3>3. QED
      BY <2>1, <3>1, <3>2 DEF RegistryInv
  <2>5. QED
    BY <2>2, <2>3, <2>4
<1>2. ASSUME NEW m \in Membership, publish_membership(m[1], m[2], m[3]) PROVE RegistryInv'
  <2> DEFINE v == IF m[3] THEN "known" ELSE "unknown"
  <2>1. reg' = [reg EXCEPT !.memb[<<m[1], m[2]>>] = v]
    BY <1>2 DEF publish_membership, set_membership
  <2> HIDE DEF v
  <2>2. reg' = [decl |-> reg.decl, memb |-> [reg.memb EXCEPT ![<<m[1], m[2]>>] = v]]
    BY <2>1 DEF RegistryInv
  <2>3. reg'.decl = reg.decl /\ reg'.memb = [reg.memb EXCEPT ![<<m[1], m[2]>>] = v]
    BY <2>2
  <2>4. QED
    BY <2>2, <2>3 DEF RegistryInv
<1>3. CASE UNCHANGED reg
  BY <1>3 DEF RegistryInv
<1>4. ASSUME NEW k \in Handler, handler_step(k) PROVE UNCHANGED reg
  BY <1>4, Zenon DEF handler_step, plan_failover, authorize_failback, request_failback,
     execute_failback, plan_failback, begin, fence, fails, commit, count_attempt
<1>5. ASSUME NEW p \in Publisher, publish_readiness(p) PROVE UNCHANGED reg
  BY <1>5, Zenon DEF publish_readiness, register_target, publish_candidate_facts,
     publish_candidate_state, publish_candidate_resources
<1>6. QED
  BY <1>1, <1>2, <1>3, <1>4, <1>5, Zenon DEF Next, vars, tick, publish_failure, clear_failure

(* DomainRegistry::overlaps: with any declarations, in any order, cycles and   *)
(* undeclared parents included, it says that two targets overlap exactly if    *)
(* they have a declared domain in common among the ancestors of theirs, as     *)
(* long as there are no more domains than the rounds of ancestors_of (64).     *)
THEOREM Overlaps ==
    ASSUME IsFiniteSet(Domain), Cardinality(Domain) <= Guard
    PROVE  Spec => []OverlapsIsSharedAncestor
<1>1. Init => RegistryInv
  BY DEF Init, NoDomains, RegistryInv
<1>2. RegistryInv /\ [Next]_vars => RegistryInv'
  BY RegistryStep
<1>3. RegistryInv => OverlapsIsSharedAncestor
  <2> SUFFICES ASSUME RegistryInv PROVE OverlapsIsSharedAncestor
    OBVIOUS
  <2> DEFINE above == [t \in Target |-> {d \in declared(reg) : \A S \in SUBSET declared(reg) :
                  domains_of(reg, t) \cap declared(reg) \subseteq S /\ Closed(reg, S) => d \in S}]
  <2>1. WellDeclared(reg)
    BY DEF RegistryInv, WellDeclared, declared, Decl
  <2>2. \A t \in Target : above[t] = closure(reg, t)
    BY <2>1, ClosureIsLeast
  <2> HIDE DEF above
  <2>3. \A a, b \in Target : a # b =>
           overlaps(reg, a, b) = IF above[a] \cap above[b] # {} THEN TRUE
                                 ELSE IF any_unknown(reg, a) \/ any_unknown(reg, b) THEN None
                                 ELSE FALSE
    BY <2>2, Zenon DEF overlaps
  <2>4. QED
    BY <2>3, Zenon DEF OverlapsIsSharedAncestor, above, any_unknown, Closed
<1>4. QED
  BY <1>1, <1>2, <1>3, PTL DEF Spec
-----------------------------------------------------------------------------
(* The cutover's target                                                    *)

(* Where a handler is, and the target it moves the slot to, which it has     *)
(* found in a snapshot.                                                      *)
HandlerInv ==
    /\ HandlerShape
    /\ \A k \in Handler :
          /\ h[k].step \in {"idle", "evaluate", "execute", "plan", "planned", "begun", "fenced", "ended"}
          /\ h[k].step \in {"begun", "fenced"} => h[k].new.target \in Target

SlotInv ==
    /\ current.target \in Target /\ ids \in 0..MaxCutovers
    /\ last_transition \in 0..now
    /\ confirmed \subseteq Target

(* The candidate that begin validated is what its target's entry says now. *)
LEMMA RevalidatedEntry ==
    ASSUME Registered, IndexInv, NEW c, revalidated(c)
    PROVE  LET f == targets[index(targets, c.target)].facts
           IN  /\ c.target \in Target /\ c.target # current.target
               /\ f.ready /\ f.boot = c.boot
               /\ c.boot \in BootsOf(c.target) /\ c.boot \notin fenced
<1> DEFINE snap == snapshot_locked
           same == {i \in DOMAIN snap : snap[i].target = c.target /\ snap[i].boot = c.boot}
           first == CHOOSE i \in same : \A j \in same : i <= j
<1>1. same # {} /\ hard_eligible(snap[first], reg, build_context(None))
  BY Zenon DEF revalidated
<1>2. PICK N \in Nat : DOMAIN snap \subseteq 1 .. N
  BY SnapshotEntries
<1>3. first \in same
  <2>1. same \in SUBSET Nat
    BY <1>2
  <2> HIDE DEF same
  <2>2. \E i \in same : \A j \in same : i <= j
    BY <1>1, <2>1, LeastNatural
  <2>3. QED
    BY <2>2, Zenon
<1>4. first \in DOMAIN snap /\ snap[first].target = c.target /\ snap[first].boot = c.boot
  BY <1>3, Zenon
<1> HIDE DEF first, same
<1>5. PICK j \in DOMAIN targets : snap[first] = candidate(targets[j]) /\ targets[j].facts # None
  BY <1>4, SnapshotEntries
<1> HIDE DEF snap
<1>6. /\ targets[j].target = c.target /\ targets[j].facts.boot = c.boot
      /\ targets[j].facts.ready = snap[first].ready
  BY <1>4, <1>5, SMTT(30) DEF candidate
<1>7. index(targets, c.target) = j
  <2>1. /\ index(targets, c.target) \in DOMAIN targets
        /\ targets[index(targets, c.target)].target = c.target
    BY <1>6 DEF index
  <2>2. QED
    BY <1>6, <2>1 DEF Registered
<1>8. /\ snap[first].ready /\ snap[first].boot \notin fenced
      /\ snap[first].target # current.target
  BY <1>1 DEF hard_eligible, build_context
<1>9. targets[j].target \in Target /\ targets[j].facts.boot \in BootsOf(targets[j].target)
  BY <1>5, EntryTyped
<1>10. QED
  BY <1>4, <1>6, <1>7, <1>8, <1>9

(* A handler that moves on. *)
LEMMA HandlerGoes ==
    ASSUME HandlerInv, NEW k \in Handler, NEW x, h' = [h EXCEPT ![k] = x],
           x.step \in {"idle", "evaluate", "execute", "plan", "planned", "begun", "fenced", "ended"},
           x.step \in {"begun", "fenced"} =>
              /\ x = [step |-> x.step, back |-> x.back, old |-> x.old, new |-> x.new]
              /\ x.new.target \in Target
    PROVE  HandlerInv'
<1>1. h = [j \in Handler |-> h[j]]
  BY DEF HandlerInv, HandlerShape
<1>2. h' = [j \in Handler |-> h'[j]] /\ h'[k] = x /\ \A j \in Handler \ {k} : h'[j] = h[j]
  BY <1>1
<1>3. HandlerShape'
  BY <1>2, Zenon DEF HandlerInv, HandlerShape
<1>4. QED
  BY <1>2, <1>3, Zenon DEF HandlerInv

(* One that is not in a cutover afterwards. *)
LEMMA HandlerLeaves ==
    ASSUME HandlerInv, NEW k \in Handler, NEW x, h' = [h EXCEPT ![k] = x],
           x.step \in {"idle", "evaluate", "execute", "plan", "ended"}
    PROVE  HandlerInv'
<1>1. /\ x.step \in {"idle", "evaluate", "execute", "plan", "planned", "begun", "fenced", "ended"}
      /\ x.step \notin {"begun", "fenced"}
  OBVIOUS
<1>2. QED
  BY <1>1, HandlerGoes, Zenon

(* After its cutover a handler counts a failback attempt or is done. *)
LEMMA EndedIs ==
    ASSUME NEW k, NEW completed
    PROVE  ended(k, completed).step \in {"idle", "ended"}
BY DEF ended, idle

(* Every step of a handler leaves it where its locals belong. *)
LEMMA HandlerInvStep ==
    ASSUME Registered, IndexInv, HandlerInv, NEW k \in Handler, handler_step(k)
    PROVE  HandlerInv'
<1>1. CASE plan_failover(k)
  BY <1>1, HandlerGoes, Zenon DEF plan_failover
<1>2. CASE authorize_failback(k)
  BY <1>2, HandlerGoes, Zenon DEF authorize_failback
<1>3. CASE request_failback(k)
  <2>1. (IF evaluate_failback THEN [step |-> "execute"] ELSE idle).step \in {"idle", "execute"}
    BY DEF idle
  <2>2. QED
    BY <1>3, <2>1, HandlerLeaves, Zenon DEF request_failback
<1>4. CASE execute_failback(k)
  <2>1. (IF evaluate_failback THEN [step |-> "plan"] ELSE idle).step \in {"idle", "plan"}
    BY DEF idle
  <2>2. QED
    BY <1>4, <2>1, HandlerLeaves, Zenon DEF execute_failback
<1>5. CASE plan_failback(k)
  BY <1>5, HandlerGoes, Zenon DEF plan_failback, idle
<1>6. CASE begin(k)
  <2> DEFINE x == [step |-> "begun", back |-> h[k].back, old |-> current,
                   new |-> [id |-> ids + 1, target |-> h[k].to.target, boot |-> h[k].to.boot]]
  <2>1. CASE current.id = h[k].source.id /\ revalidated(h[k].to)
    <3>1. h' = [h EXCEPT ![k] = x]
      BY <1>6, <2>1, Zenon DEF begin
    <3>2. x.step = "begun" /\ x.new.target = h[k].to.target
          /\ x = [step |-> x.step, back |-> x.back, old |-> x.old, new |-> x.new]
      OBVIOUS
    <3>3. h[k].to.target \in Target
      BY <2>1, RevalidatedEntry
    <3> HIDE DEF x
    <3>4. QED
      BY <3>1, <3>2, <3>3, HandlerGoes, Zenon
  <2>2. CASE ~(current.id = h[k].source.id /\ revalidated(h[k].to))
    <3>1. h' = [h EXCEPT ![k] = ended(k, FALSE)]
      BY <1>6, <2>2, Zenon DEF begin
    <3>2. QED
      BY <3>1, EndedIs, HandlerLeaves, Zenon
  <2>3. QED
    BY <2>1, <2>2
<1>7. CASE fence(k)
  <2>1. /\ h[k] = [step |-> "begun", back |-> h[k].back, old |-> h[k].old, new |-> h[k].new]
        /\ h[k].new.target \in Target
    BY <1>7 DEF fence, HandlerInv, HandlerShape
  <2> DEFINE x == [h[k] EXCEPT !.step = "fenced"]
  <2>2. x = [step |-> "fenced", back |-> h[k].back, old |-> h[k].old, new |-> h[k].new]
    BY <2>1
  <2>3. /\ x.step = "fenced" /\ x.new = h[k].new
        /\ x = [step |-> x.step, back |-> x.back, old |-> x.old, new |-> x.new]
    BY <2>2
  <2>4. h' = [h EXCEPT ![k] = x]
    BY <1>7 DEF fence
  <2> HIDE DEF x
  <2>5. QED
    BY <2>1, <2>3, <2>4, HandlerGoes, Zenon
<1>8. CASE fails(k)
  BY <1>8, EndedIs, HandlerLeaves, Zenon DEF fails
<1>9. CASE commit(k)
  BY <1>9, EndedIs, HandlerLeaves, Zenon DEF commit
<1>10. CASE count_attempt(k)
  BY <1>10, HandlerGoes, Zenon DEF count_attempt, idle
<1>11. QED
  BY <1>1, <1>2, <1>3, <1>4, <1>5, <1>6, <1>7, <1>8, <1>9, <1>10 DEF handler_step

(* The conjunction is inductive. *)
PlanInv == WindowInv /\ IndexInv /\ HandlerInv /\ SlotInv

LEMMA PlanInit == Init => PlanInv
<1> SUFFICES ASSUME Init PROVE PlanInv
  OBVIOUS
<1>1. HandlerInv
  BY DEF Init, HandlerInv, HandlerShape, idle
<1>2. SlotInv
  <2>1. current.target = Home /\ confirmed = {} /\ ids = 0 /\ last_transition = 0 /\ now = 0
    BY Zenon DEF Init
  <2>2. Home \in Target /\ 0 \in 0..MaxCutovers /\ 0 \in 0..0
    BY PublicationAssumption
  <2>3. QED
    BY <2>1, <2>2, Zenon DEF SlotInv
<1>3. QED
  BY <1>1, <1>2, WindowInit, IndexInit DEF PlanInv

(* A handler moves the slot only to the target of its cutover. *)
LEMMA SlotOfHandler ==
    ASSUME PlanInv, NEW k \in Handler, handler_step(k)
    PROVE  SlotInv'
<1>1. confirmed' = confirmed /\ now' = now /\ now \in Nat /\ SlotInv
  BY Zenon DEF PlanInv, WindowInv, candidates, handler_step, plan_failover, authorize_failback,
     request_failback, execute_failback, plan_failback, begin, fence, fails, commit, count_attempt
<1>2. CASE begin(k)
  <2>1. current' = current /\ last_transition' = last_transition
    BY <1>2, Zenon DEF begin
  <2>2. ids' = ids \/ (ids < MaxCutovers /\ ids' = ids + 1)
    <3> DEFINE valid == current.id = h[k].source.id /\ revalidated(h[k].to)
    <3>1. (valid => ids < MaxCutovers) /\ ids' = IF valid THEN ids + 1 ELSE ids
      BY <1>2, Zenon DEF begin
    <3> HIDE DEF valid
    <3>2. QED
      BY <3>1, Zenon
  <2>3. ids' \in 0..MaxCutovers
    BY <1>1, <2>2, PublicationAssumption DEF SlotInv
  <2>4. QED
    BY <1>1, <2>1, <2>3, Zenon DEF SlotInv
<1>3. CASE commit(k)
  <2>1. h[k].new.target \in Target
    BY <1>3, Zenon DEF commit, PlanInv, HandlerInv
  <2>2. current' = h[k].new /\ ids' = ids /\ last_transition' = now
    BY <1>3, Zenon DEF commit
  <2>3. last_transition' \in 0..now
    BY <1>1, <2>2
  <2>4. QED
    BY <1>1, <2>1, <2>2, <2>3, Zenon DEF SlotInv
<1>4. CASE count_attempt(k)
  <2>1. /\ current' = current /\ ids' = ids
        /\ last_transition' = last_transition \/ last_transition' = now
    BY <1>4, Zenon DEF count_attempt
  <2>2. last_transition' \in 0..now
    BY <1>1, <2>1 DEF SlotInv
  <2>3. QED
    BY <1>1, <2>1, <2>2, Zenon DEF SlotInv
<1>5. CASE fence(k) \/ authorize_failback(k)
  BY <1>1, <1>5, Zenon DEF fence, authorize_failback, SlotInv
<1>6. CASE UNCHANGED slot
  BY <1>1, <1>6, Zenon DEF slot, SlotInv
<1>7. QED
  BY <1>2, <1>3, <1>4, <1>5, <1>6, Zenon DEF handler_step, plan_failover, request_failback,
     execute_failback, plan_failback, fails

(* A publication leaves the slot alone and confirms no failure. *)
LEMMA SlotOfPublication ==
    ASSUME SlotInv, NEW p \in Publisher, publish_readiness(p)
    PROVE  SlotInv'
<1>1. UNCHANGED <<slot, now>>
  BY Zenon DEF publish_readiness, register_target, publish_candidate_facts,
     publish_candidate_state, publish_candidate_resources
<1>2. confirmed' = confirmed \/ confirmed' = confirmed \ {publishing[p].target}
  BY Zenon DEF publish_readiness, register_target, publish_candidate_facts, candidates,
     publish_candidate_state, publish_candidate_resources
<1>3. QED
  BY <1>1, <1>2 DEF SlotInv, slot

(* No step of any thread breaks it. *)
LEMMA PlanStep == PlanInv /\ [Next]_vars => PlanInv'
<1> SUFFICES ASSUME PlanInv, [Next]_vars PROVE PlanInv'
  OBVIOUS
<1>1. WindowInv' /\ IndexInv'
  BY WindowStep, IndexStep DEF PlanInv
<1>2. ASSUME NEW k \in Handler, handler_step(k) PROVE HandlerInv' /\ SlotInv'
  BY <1>2, HandlerInvStep, SlotOfHandler DEF PlanInv, WindowInv
<1>3. ASSUME h' = h PROVE HandlerInv'
  BY <1>3, Zenon DEF PlanInv, HandlerInv, HandlerShape
<1>4. ASSUME NEW p \in Publisher, publish_readiness(p) PROVE HandlerInv' /\ SlotInv'
  <2>1. h' = h
    BY <1>4, Zenon DEF publish_readiness, register_target, publish_candidate_facts,
       publish_candidate_state, publish_candidate_resources
  <2>2. QED
    BY <1>3, <1>4, <2>1, SlotOfPublication DEF PlanInv
<1>5. CASE tick
  <2>1. h' = h /\ SlotInv'
    <3>1. UNCHANGED <<h, current, ids, last_transition, confirmed>> /\ now' = now + 1
      BY <1>5, Zenon DEF tick, candidates, slot
    <3>2. SlotInv /\ now \in Nat
      BY Zenon DEF PlanInv, WindowInv
    <3>3. last_transition \in 0..(now + 1)
      BY <3>2 DEF SlotInv
    <3>4. QED
      BY <3>1, <3>2, <3>3, Zenon DEF SlotInv
  <2>2. QED
    BY <1>1, <1>3, <2>1 DEF PlanInv
<1>6. ASSUME NEW e \in Event, NEW q \in Report, publish_failure(e, q)
      PROVE  HandlerInv' /\ SlotInv'
  <2>1. h' = h /\ UNCHANGED <<slot, now>>
    BY <1>6, Zenon DEF publish_failure
  <2>2. confirmed' = confirmed \/ confirmed' = confirmed \cup {EventTarget[e]}
    BY <1>6, Zenon DEF publish_failure
  <2>3. SlotInv'
    BY <2>1, <2>2, PublicationAssumption DEF SlotInv, PlanInv, slot
  <2>4. QED
    BY <1>3, <2>1, <2>3
<1>7. CASE UNCHANGED <<candidates, slot, now, h>>
  <2>1. SlotInv'
    BY <1>7, Zenon DEF candidates, slot, SlotInv, PlanInv
  <2>2. QED
    BY <1>1, <1>3, <1>7, <2>1 DEF PlanInv
<1>8. QED
  BY <1>1, <1>2, <1>4, <1>5, <1>6, <1>7, Zenon DEF Next, vars, declare_domain, publish_membership,
     clear_failure, PlanInv

(* The planner's state is typed: the index of the service refers to           *)
(* registered targets with facts, and the slot only moves to a target.        *)
THEOREM PlannerTyped == Spec => []TypeOK
<1>1. PlanInv => TypeOK
  <2> SUFFICES ASSUME PlanInv PROVE TypeOK
    OBVIOUS
  <2>1. \A i \in DOMAIN targets : targets[i].target \in Target
    BY EntryTyped DEF PlanInv, WindowInv
  <2>2. QED
    BY <2>1, Zenon DEF TypeOK, PlanInv, WindowInv, Registered, IndexInv, HandlerInv, SlotInv
<1>2. QED
  BY <1>1, PlanInit, PlanStep, PTL DEF Spec

(* A handler that has begun a cutover and not ended it. *)
Cutting(k) == h[k].step \in {"begun", "fenced"}

(* The cutover moves away from the current assignment to a worker that is    *)
(* not fenced and not the current one; or it has been overtaken, and then    *)
(* the worker that it fences is fenced already.                              *)
CutoverInv(k) ==
    LET old == h[k].old
        new == h[k].new
    IN  /\ new.boot \in BootsOf(new.target)
        /\ old.id \in Nat /\ old.id <= ids
        /\ new.id \in Nat /\ new.id <= ids /\ new.id # current.id
        /\ old.id = current.id => /\ old = current
                                  /\ new.boot \notin fenced /\ new.boot # current.boot
        /\ old.id # current.id => old.boot \in fenced

(* Ids of assignments are not used twice. *)
DistinctIds(j, k) ==
    /\ h[j].old.id # h[k].new.id
    /\ j # k => h[j].new.id # h[k].new.id

FenceInv ==
    /\ current.id \in Nat /\ current.id <= ids /\ current.boot \in BootsOf(current.target)
    /\ \A k \in Handler : Cutting(k) => CutoverInv(k)
    /\ \A j, k \in Handler : Cutting(j) /\ Cutting(k) => DistinctIds(j, k)

LEMMA FenceInit == Init => FenceInv
<1> SUFFICES ASSUME Init PROVE FenceInv
  OBVIOUS
<1>1. /\ current = [id |-> 0, target |-> Home, boot |-> HomeBoot] /\ ids = 0
      /\ \A k \in Handler : h[k].step = "idle"
  BY Zenon DEF Init, idle
<1>2. current.id = 0 /\ current.target = Home /\ current.boot = HomeBoot
  BY <1>1
<1>3. HomeBoot \in BootsOf(Home)
  BY Zenon DEF BootsOf
<1>4. 0 \in Nat /\ 0 <= 0
  OBVIOUS
<1>5. \A k \in Handler : ~Cutting(k)
  BY <1>1 DEF Cutting
<1>6. QED
  BY <1>1, <1>2, <1>3, <1>4, <1>5, Zenon DEF FenceInv

(* A handler that takes no step in a cutover, or leaves it. *)
LEMMA FenceKept ==
    ASSUME FenceInv, UNCHANGED <<current, fenced, ids>>,
           \A k \in Handler : Cutting(k)' =>
              Cutting(k) /\ h'[k].old = h[k].old /\ h'[k].new = h[k].new
    PROVE  FenceInv'
<1>1. ASSUME NEW k \in Handler, Cutting(k)' PROVE CutoverInv(k)'
  <2>1. CutoverInv(k) /\ h'[k].old = h[k].old /\ h'[k].new = h[k].new
    BY <1>1 DEF FenceInv
  <2>2. QED
    BY <2>1 DEF CutoverInv
<1>2. ASSUME NEW j \in Handler, NEW k \in Handler, Cutting(j)', Cutting(k)'
      PROVE  DistinctIds(j, k)'
  <2>1. DistinctIds(j, k)
    BY <1>2 DEF FenceInv
  <2>2. QED
    BY <1>2, <2>1 DEF DistinctIds
<1>3. QED
  BY <1>1, <1>2 DEF FenceInv

(* One handler leaves its cutover, or was in none. *)
LEMMA FenceLeft ==
    ASSUME FenceInv, HandlerShape, NEW k \in Handler, NEW x, h' = [h EXCEPT ![k] = x],
           x.step \notin {"begun", "fenced"}, UNCHANGED <<current, fenced, ids>>
    PROVE  FenceInv'
<1>1. h'[k] = x /\ \A j \in Handler \ {k} : h'[j] = h[j]
  BY DEF HandlerShape
<1>2. \A j \in Handler : Cutting(j)' =>
         Cutting(j) /\ h'[j].old = h[j].old /\ h'[j].new = h[j].new
  BY <1>1, Zenon DEF Cutting
<1>3. QED
  BY <1>2, FenceKept

(* A cutover begins with a new id, away from the current assignment. *)
LEMMA FenceBegin ==
    ASSUME PlanInv, FenceInv, NEW k \in Handler, begin(k)
    PROVE  FenceInv'
<1> DEFINE x == [step |-> "begun", back |-> h[k].back, old |-> current,
                 new |-> [id |-> ids + 1, target |-> h[k].to.target, boot |-> h[k].to.boot]]
<1>1. HandlerShape /\ ids \in Nat /\ current.target \in Target
  BY PublicationAssumption DEF PlanInv, HandlerInv, SlotInv
<1>2. CASE current.id = h[k].source.id /\ revalidated(h[k].to)
  <2>1. h' = [h EXCEPT ![k] = x] /\ ids' = ids + 1 /\ current' = current /\ fenced' = fenced
    BY <1>2, Zenon DEF begin
  <2>2. /\ h[k].to.target \in Target /\ h[k].to.target # current.target
        /\ h[k].to.boot \in BootsOf(h[k].to.target) /\ h[k].to.boot \notin fenced
    BY <1>2, RevalidatedEntry, Zenon DEF PlanInv, WindowInv
  <2>3. h[k].to.boot # current.boot
    BY <1>1, <2>2, BootAssumption DEF FenceInv
  <2>4. /\ x.old = current /\ x.new.id = ids + 1 /\ x.new.boot = h[k].to.boot
        /\ x.new.target = h[k].to.target
    OBVIOUS
  <2>5. h'[k] = x /\ \A j \in Handler \ {k} : h'[j] = h[j]
    BY <1>1, <2>1 DEF HandlerShape
  <2> HIDE DEF x
  <2>6. CutoverInv(k)'
    <3>1. /\ h'[k].old = current /\ h'[k].new.id = ids + 1
          /\ h'[k].new.boot = h[k].to.boot /\ h'[k].new.target = h[k].to.target
      BY <2>4, <2>5
    <3>2. ids + 1 # current.id /\ ids + 1 \in Nat /\ current.id \in Nat /\ current.id <= ids + 1
      BY <1>1 DEF FenceInv
    <3>3. /\ h'[k].new.boot \in BootsOf(h'[k].new.target)
          /\ h'[k].old.id \in Nat /\ h'[k].old.id <= ids'
          /\ h'[k].new.id \in Nat /\ h'[k].new.id <= ids' /\ h'[k].new.id # current'.id
      <4>1. ids + 1 <= ids + 1
        BY <1>1
      <4>2. QED
        BY <2>1, <2>2, <3>1, <3>2, <4>1, Zenon
    <3>4. /\ h'[k].old = current' /\ h'[k].new.boot \notin fenced'
          /\ h'[k].new.boot # current'.boot
      <4>1. current' = current /\ fenced' = fenced
        BY <2>1, Zenon
      <4>2. h[k].to.boot \notin fenced /\ h[k].to.boot # current.boot
        BY <2>2, <2>3, Zenon
      <4>3. h'[k].old = current /\ h'[k].new.boot = h[k].to.boot
        BY <3>1, Zenon
      <4>4. QED
        BY <4>1, <4>2, <4>3
    <3>5. QED
      BY <3>3, <3>4, Zenon DEF CutoverInv
  <2>7. \A j \in Handler \ {k} : Cutting(j)' =>
           /\ Cutting(j) /\ CutoverInv(j)'
           /\ h'[j] = h[j] /\ h[j].old.id <= ids /\ h[j].new.id <= ids
           /\ h[j].old.id \in Nat /\ h[j].new.id \in Nat
    <3> SUFFICES ASSUME NEW j \in Handler \ {k}, Cutting(j)'
                 PROVE  /\ Cutting(j) /\ CutoverInv(j)'
                        /\ h'[j] = h[j] /\ h[j].old.id <= ids /\ h[j].new.id <= ids
                        /\ h[j].old.id \in Nat /\ h[j].new.id \in Nat
      OBVIOUS
    <3>1. h'[j] = h[j] /\ Cutting(j)
      BY <2>5, Zenon DEF Cutting
    <3>2. CutoverInv(j)
      BY <3>1 DEF FenceInv
    <3>3. /\ h[j].old.id <= ids /\ h[j].new.id <= ids
          /\ h[j].old.id \in Nat /\ h[j].new.id \in Nat
      BY <3>2 DEF CutoverInv
    <3>4. /\ h'[j].old.id <= ids' /\ h'[j].new.id <= ids'
          /\ h'[j].old.id \in Nat /\ h'[j].new.id \in Nat
      <4> DEFINE o == h[j].old.id
      <4> DEFINE n == h[j].new.id
      <4>1. o \in Nat /\ n \in Nat /\ o <= ids /\ n <= ids
        BY <3>3, Zenon
      <4>2. h'[j].old.id = o /\ h'[j].new.id = n
        BY <3>1, Zenon
      <4> HIDE DEF o, n
      <4>3. o <= ids + 1 /\ n <= ids + 1
        BY <1>1, <4>1
      <4>4. QED
        BY <2>1, <4>1, <4>2, <4>3, Zenon
    <3>5. /\ h'[j].new.boot \in BootsOf(h'[j].new.target) /\ h'[j].new.id # current'.id
          /\ h'[j].old.id = current'.id =>
                /\ h'[j].old = current'
                /\ h'[j].new.boot \notin fenced' /\ h'[j].new.boot # current'.boot
          /\ h'[j].old.id # current'.id => h'[j].old.boot \in fenced'
      <4> DEFINE a == h[j]
      <4>1. /\ a.new.boot \in BootsOf(a.new.target) /\ a.new.id # current.id
            /\ a.old.id = current.id => /\ a.old = current
                                        /\ a.new.boot \notin fenced /\ a.new.boot # current.boot
            /\ a.old.id # current.id => a.old.boot \in fenced
        BY <3>2, Zenon DEF CutoverInv
      <4>2. h'[j] = a /\ current' = current /\ fenced' = fenced
        BY <2>1, <3>1
      <4> HIDE DEF a
      <4>3. QED
        BY <4>1, <4>2
    <3>6. CutoverInv(j)'
      BY <3>4, <3>5, Zenon DEF CutoverInv
    <3>7. QED
      BY <3>1, <3>3, <3>6
  <2>8. ASSUME NEW i \in Handler, NEW j \in Handler, Cutting(i)', Cutting(j)'
        PROVE  DistinctIds(i, j)'
    <3>1. h'[k].old.id <= ids /\ h'[k].old.id \in Nat /\ h'[k].new.id = ids + 1
      BY <2>4, <2>5 DEF FenceInv
    <3>2. CASE i # k /\ j # k
      <4>1. DistinctIds(i, j) /\ h'[i] = h[i] /\ h'[j] = h[j]
        BY <2>7, <2>8, <3>2 DEF FenceInv
      <4>2. QED
        BY <4>1 DEF DistinctIds
    <3>3. CASE i = k /\ j = k
      <4>1. h'[k].old.id # h'[k].new.id
        BY <1>1, <3>1
      <4>2. QED
        BY <3>3, <4>1 DEF DistinctIds
    <3>4. CASE i = k /\ j # k
      <4>1. DistinctIds(k, j)'
        <5>1. h'[j].new.id <= ids /\ h'[j].new.id \in Nat
          BY <2>7, <2>8, <3>4
        <5>2. h'[k].new.id # h'[j].new.id
          BY <1>1, <3>1, <5>1
        <5>3. h'[k].old.id # h'[j].new.id
          BY <2>4, <2>5, <2>7, <2>8, <3>4 DEF FenceInv, CutoverInv
        <5>4. QED
          BY <5>2, <5>3 DEF DistinctIds
      <4>2. QED
        BY <3>4, <4>1
    <3>5. CASE i # k /\ j = k
      <4>1. /\ h'[i].new.id <= ids /\ h'[i].new.id \in Nat
            /\ h'[i].old.id <= ids /\ h'[i].old.id \in Nat
        BY <2>7, <2>8, <3>5
      <4>2. h'[i].new.id # h'[k].new.id /\ h'[i].old.id # h'[k].new.id
        BY <1>1, <3>1, <4>1
      <4>3. QED
        BY <3>5, <4>2 DEF DistinctIds
    <3>6. QED
      BY <3>2, <3>3, <3>4, <3>5
  <2>9. current'.id \in Nat /\ current'.id <= ids' /\ current'.boot \in BootsOf(current'.target)
    BY <1>1, <2>1 DEF FenceInv
  <2>10. QED
    BY <2>6, <2>7, <2>8, <2>9, Zenon DEF FenceInv
<1>3. CASE ~(current.id = h[k].source.id /\ revalidated(h[k].to))
  <2>1. h' = [h EXCEPT ![k] = ended(k, FALSE)] /\ ids' = ids /\ current' = current /\ fenced' = fenced
    BY <1>3, Zenon DEF begin
  <2>2. ended(k, FALSE).step \notin {"begun", "fenced"}
    BY EndedIs
  <2>3. QED
    BY <1>1, <2>1, <2>2, FenceLeft, Zenon
<1>4. QED
  BY <1>2, <1>3

(* A fence hits the worker of the current assignment, or one that is fenced. *)
LEMMA FenceFences ==
    ASSUME FenceInv, HandlerShape, NEW k \in Handler, fence(k)
    PROVE  FenceInv'
<1>1. /\ h[k] = [step |-> "begun", back |-> h[k].back, old |-> h[k].old, new |-> h[k].new]
      /\ Cutting(k)
  BY DEF fence, HandlerShape, Cutting
<1> DEFINE x == [h[k] EXCEPT !.step = "fenced"]
<1>2. x.old = h[k].old /\ x.new = h[k].new
  BY <1>1
<1>3. /\ h' = [h EXCEPT ![k] = x] /\ current' = current /\ ids' = ids
      /\ fenced' = fenced \cup {h[k].old.boot}
  BY DEF fence
<1> HIDE DEF x
<1>4. h'[k] = x /\ \A j \in Handler \ {k} : h'[j] = h[j]
  BY <1>3 DEF HandlerShape
<1>5. \A j \in Handler : Cutting(j)' => Cutting(j) /\ h'[j].old = h[j].old /\ h'[j].new = h[j].new
  BY <1>1, <1>2, <1>4, Zenon DEF Cutting
<1>6. h[k].old.boot = current.boot \/ h[k].old.boot \in fenced
  BY <1>1, Zenon DEF FenceInv, CutoverInv
<1>7. ASSUME NEW j \in Handler, Cutting(j)' PROVE CutoverInv(j)'
  <2>1. CutoverInv(j) /\ h'[j].old = h[j].old /\ h'[j].new = h[j].new
    BY <1>5, <1>7, Zenon DEF FenceInv
  <2>2. h[j].old.id = current.id => h[j].new.boot \notin fenced'
    BY <1>3, <1>6, <2>1 DEF CutoverInv
  <2>3. h[j].old.id # current.id => h[j].old.boot \in fenced'
    BY <1>3, <2>1 DEF CutoverInv
  <2>4. QED
    BY <1>3, <2>1, <2>2, <2>3, Zenon DEF CutoverInv
<1>8. ASSUME NEW i \in Handler, NEW j \in Handler, Cutting(i)', Cutting(j)'
      PROVE  DistinctIds(i, j)'
  <2>1. DistinctIds(i, j)
    BY <1>5, <1>8 DEF FenceInv
  <2>2. QED
    BY <1>5, <1>8, <2>1 DEF DistinctIds
<1>9. QED
  BY <1>3, <1>7, <1>8 DEF FenceInv

(* The worker that a commit gives the slot is not fenced. *)
LEMMA CommitUnfenced ==
    ASSUME FenceInv, NEW k \in Handler, commit(k)
    PROVE  /\ h[k].old = current
           /\ current' = h[k].new /\ h[k].new.boot \in BootsOf(h[k].new.target)
           /\ h[k].new.id \in Nat /\ h[k].new.id <= ids
           /\ fenced' = fenced \cup {current.boot} /\ current'.boot \notin fenced'
<1>1. Cutting(k) /\ current.id = h[k].old.id /\ current' = h[k].new
      /\ fenced' = fenced \cup {h[k].old.boot}
  BY Zenon DEF commit, Cutting
<1>2. CutoverInv(k)
  BY <1>1 DEF FenceInv
<1>3. h[k].old = current /\ h[k].new.boot \notin fenced /\ h[k].new.boot # current.boot
  BY <1>1, <1>2 DEF CutoverInv
<1>4. QED
  BY <1>1, <1>2, <1>3 DEF CutoverInv

(* A commit overtakes the other cutovers from the same assignment. *)
LEMMA FenceCommit ==
    ASSUME FenceInv, HandlerShape, NEW k \in Handler, commit(k)
    PROVE  FenceInv'
<1>1. /\ h' = [h EXCEPT ![k] = ended(k, TRUE)] /\ ids' = ids /\ Cutting(k)
      /\ ended(k, TRUE).step \notin {"begun", "fenced"}
  BY EndedIs, Zenon DEF commit, Cutting
<1>2. h'[k] = ended(k, TRUE) /\ \A j \in Handler \ {k} : h'[j] = h[j]
  BY <1>1 DEF HandlerShape
<1>3. \A j \in Handler : Cutting(j)' => j # k /\ Cutting(j) /\ h'[j] = h[j]
  BY <1>1, <1>2, Zenon DEF Cutting
<1>4. ASSUME NEW j \in Handler, Cutting(j)' PROVE CutoverInv(j)'
  <2>1. CutoverInv(j) /\ h'[j] = h[j] /\ j # k
    BY <1>3, <1>4, Zenon DEF FenceInv
  <2>2. h[j].old.id # current'.id /\ h[j].new.id # current'.id
    <3>1. DistinctIds(j, k)
      BY <1>1, <1>3, <1>4 DEF FenceInv
    <3>2. QED
      BY <2>1, <3>1, CommitUnfenced DEF DistinctIds
  <2>3. h[j].old.boot \in fenced'
    <3>1. CASE h[j].old.id = current.id
      BY <2>1, <3>1, CommitUnfenced DEF CutoverInv
    <3>2. CASE h[j].old.id # current.id
      BY <2>1, <3>2, CommitUnfenced DEF CutoverInv
    <3>3. QED
      BY <3>1, <3>2
  <2>4. QED
    BY <1>1, <2>1, <2>2, <2>3, Zenon DEF CutoverInv
<1>5. current'.id \in Nat /\ current'.id <= ids' /\ current'.boot \in BootsOf(current'.target)
  BY <1>1, CommitUnfenced
<1>6. ASSUME NEW i \in Handler, NEW j \in Handler, Cutting(i)', Cutting(j)'
      PROVE  DistinctIds(i, j)'
  <2>1. DistinctIds(i, j)
    BY <1>3, <1>6 DEF FenceInv
  <2>2. QED
    BY <1>3, <1>6, <2>1 DEF DistinctIds
<1>7. QED
  BY <1>4, <1>5, <1>6 DEF FenceInv

LEMMA FenceHandler ==
    ASSUME PlanInv, FenceInv, NEW k \in Handler, handler_step(k)
    PROVE  FenceInv'
<1>1. HandlerShape
  BY DEF PlanInv, HandlerInv
<1>2. CASE plan_failover(k)
  BY <1>1, <1>2, FenceLeft, Zenon DEF plan_failover, slot
<1>3. CASE authorize_failback(k)
  BY <1>1, <1>3, FenceLeft, Zenon DEF authorize_failback
<1>4. CASE request_failback(k)
  BY <1>1, <1>4, FenceLeft, Zenon DEF request_failback, slot, idle
<1>5. CASE execute_failback(k)
  BY <1>1, <1>5, FenceLeft, Zenon DEF execute_failback, slot, idle
<1>6. CASE plan_failback(k)
  BY <1>1, <1>6, FenceLeft, Zenon DEF plan_failback, slot, idle
<1>7. CASE begin(k)
  BY <1>7, FenceBegin
<1>8. CASE fence(k)
  BY <1>1, <1>8, FenceFences
<1>9. CASE fails(k)
  <2>1. ended(k, FALSE).step \notin {"begun", "fenced"}
    BY EndedIs
  <2>2. QED
    BY <1>1, <1>9, <2>1, FenceLeft, Zenon DEF fails, slot
<1>10. CASE commit(k)
  BY <1>1, <1>10, FenceCommit
<1>11. CASE count_attempt(k)
  BY <1>1, <1>11, FenceLeft, Zenon DEF count_attempt, idle
<1>12. QED
  BY <1>2, <1>3, <1>4, <1>5, <1>6, <1>7, <1>8, <1>9, <1>10, <1>11 DEF handler_step

(* Publications, reports and the clock leave the slot and the handlers alone. *)
LEMMA FenceOther ==
    ASSUME [Next]_vars, ~ \E k \in Handler : handler_step(k)
    PROVE  UNCHANGED <<h, current, fenced, ids>>
BY Zenon DEF Next, vars, slot, tick, declare_domain, publish_membership, publish_readiness,
   register_target, publish_candidate_facts, publish_candidate_state,
   publish_candidate_resources, publish_failure, clear_failure

(* execute_plan: whatever handlers fence between the moment a cutover begins  *)
(* and the moment it commits, from plans of any age, and whatever is          *)
(* published and reported, no commit gives the slot to a fenced worker.       *)
THEOREM CommitsUnfenced == Spec => CommitsOntoUnfencedWorker
<1>1. PlanInv /\ FenceInv /\ [Next]_vars => FenceInv'
  <2> SUFFICES ASSUME PlanInv, FenceInv, [Next]_vars PROVE FenceInv'
    OBVIOUS
  <2>1. CASE \E k \in Handler : handler_step(k)
    BY <2>1, FenceHandler
  <2>2. CASE ~ \E k \in Handler : handler_step(k)
    BY <2>2, FenceOther, FenceKept, Zenon DEF Cutting
  <2>3. QED
    BY <2>1, <2>2
<1>2. FenceInv /\ [Next]_vars => [current' # current => current'.boot \notin fenced']_vars
  <2> SUFFICES ASSUME FenceInv, [Next]_vars, current' # current
               PROVE  current'.boot \notin fenced'
    OBVIOUS
  <2>1. PICK k \in Handler : handler_step(k)
    BY FenceOther, Zenon
  <2>2. commit(k)
    BY <2>1, Zenon DEF handler_step, plan_failover, authorize_failback, request_failback,
       execute_failback, plan_failback, begin, fence, fails, count_attempt, slot
  <2>3. QED
    BY <2>2, CommitUnfenced
<1>3. QED
  BY <1>1, <1>2, PlanInit, FenceInit, PlanStep, PTL DEF Spec, CommitsOntoUnfencedWorker
===============================================================================
