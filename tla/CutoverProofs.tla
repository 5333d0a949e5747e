----------------------------- MODULE CutoverProofs ----------------------------
(***************************************************************************)
(* What one attempt at a time can rely on, and what the file is good for,  *)
(* for every value of the constants.                                       *)
(***************************************************************************)
EXTENDS FabricProofs

(* The steps of checkpoint() and what they have to do with the record. *)
LEMMA RecordSteps ==
    ASSUME TypeInv, [Next]_vars, NEW b \in Attempt
    PROVE  \/ step'[b] = "record"
           \/ checkpoint(b) \/ save_snapshot(b) \/ save_file(b) \/ not_interrupted(b)
           \/ step'[b] = step[b] /\ (txn' = txn \/ \E a \in Attempt : a # b /\ execute_plan(a))
<1> USE DEF TypeInv, TypeOK
<1>1. ASSUME control_plane PROVE UNCHANGED <<step, txn>>
    BY <1>1, Zenon DEF control_plane, set_initial_assignment, install_route, set_cutover_barrier,
        clear_cutover_barrier, save_request, save_request_file, save_request_throws, localVars,
        txnVars
<1>2. ASSUME NEW a \in Attempt, NEW t \in Slot, NEW c \in Boot, plan_failover(a, t, c)
      PROVE  UNCHANGED <<step, txn>>
    BY <1>2 DEF plan_failover, txnVars
<1>3. ASSUME NEW a \in Attempt, execute_plan(a)
      PROVE  \/ \E x : step' = [step EXCEPT ![a] = x]
    BY <1>3, Zenon DEF execute_plan, validate, reject, checkpoint, save_snapshot, save_file, save_throws,
        interrupted, not_interrupted, fence_old, activate, cutover_route, operation_fails,
        superseded, commit, return, reach
<1>4. ASSUME execute_plan(b)
      PROVE  \/ step'[b] = "record"
             \/ checkpoint(b) \/ save_snapshot(b) \/ save_file(b) \/ not_interrupted(b)
    BY <1>4, Zenon DEF execute_plan, validate, reject, save_throws,
        interrupted, fence_old, activate, cutover_route, operation_fails,
        superseded, commit, return, reach
<1>5. CASE UNCHANGED vars
    BY <1>5, Zenon DEF vars
<1> HIDE DEF TypeInv, TypeOK
<1> QED
    BY <1>1, <1>2, <1>3, <1>4, <1>5 DEF Next, TypeInv, TypeOK

(* A record claims what its attempt has established. *)
LEMMA RecordMade ==
    ASSUME TypeInv, AttemptInv, NEW a \in Attempt, checkpoint(a)
    PROVE  MilestoneHolds(txn', fenced_boots, routes)
<1>1. at[a] \in CheckpointedMilestone
    BY Zenon DEF checkpoint
<1>2. /\ txn'.slot = plan[a].slot /\ txn'.milestone = at[a]
      /\ txn'.pending_assignment = new_assign[a] /\ txn'.source_assignment = old_assign[a]
    BY Zenon DEF checkpoint
<1> QED
    BY <1>1, <1>2, Zenon DEF AttemptInv, MilestoneHolds

(* Only checkpoint() and a commit change the record. *)
LEMMA RecordFrame ==
    ASSUME [Next]_vars
    PROVE  txn' = txn \/ txn' = None \/ \E a \in Attempt : checkpoint(a)
<1>1. ASSUME control_plane PROVE txn' = txn
    BY <1>1, Zenon DEF control_plane, set_initial_assignment, install_route, set_cutover_barrier,
        clear_cutover_barrier, save_request, save_request_file, save_request_throws, txnVars
<1>2. ASSUME NEW a \in Attempt, NEW t \in Slot, NEW c \in Boot, plan_failover(a, t, c)
      PROVE  txn' = txn
    BY <1>2, Zenon DEF plan_failover, txnVars
<1>3. ASSUME NEW a \in Attempt, execute_plan(a)
      PROVE  txn' = txn \/ txn' = None \/ checkpoint(a)
    BY <1>3, Zenon DEF execute_plan, validate, reject, save_snapshot, save_file, save_throws,
        interrupted, not_interrupted, fence_old, activate, cutover_route, operation_fails,
        superseded, commit, txnVars
<1>4. CASE UNCHANGED vars
    BY <1>4, Zenon DEF vars
<1> QED
    BY <1>1, <1>2, <1>3, <1>4, Zenon DEF Next

(* What a record claims stays true within an incarnation: boots stay       *)
(* fenced and routes do not fall behind.                                   *)
LEMMA RecordNext ==
    ASSUME RestartInv, RecordInv, [Next]_vars
    PROVE  RecordInv'
<1>t. TypeInv /\ TypeOK /\ AttemptInv
    BY DEF RestartInv, TypeInv
<1>1. ASSUME NEW t \in Transaction \cup {None}, MilestoneHolds(t, fenced_boots, routes)
      PROVE  MilestoneHolds(t, fenced_boots', routes')
    <2>1. t # None => t.slot \in Slot /\ t.pending_assignment \in Assignment
        BY DEF Transaction
    <2> QED
        BY <1>1, <1>t, <2>1, FencedGrows, RoutesGrow, Zenon DEF MilestoneHolds
<1>2. MilestoneHolds(txn', fenced_boots', routes')
    <2>1. TypeOK'
        BY <1>t, NextTyped DEF TypeInv
    <2>2. txn' \in Transaction \cup {None}
        BY <2>1, Zenon DEF TypeOK
    <2>3. MilestoneHolds(txn', fenced_boots, routes)
        BY <1>t, RecordFrame, RecordMade, Zenon DEF RecordInv, RecordedMilestoneHolds, MilestoneHolds
    <2> QED
        BY <1>1, <2>2, <2>3
<1>3. /\ Snapshot.txn = txn /\ Snapshot.fenced_boots = fenced_boots /\ Snapshot.routes = routes
      /\ MilestoneHolds(txn, fenced_boots, routes)
    BY Zenon DEF Snapshot, RecordInv, RecordedMilestoneHolds
<1>4. ASSUME NEW p \in Attempt \cup Saver, snap'[p] # None
      PROVE  MilestoneHolds(snap'[p].txn, snap'[p].fenced_boots, snap'[p].routes)
    BY <1>t, <1>3, <1>4, SnapshotFrame, Zenon DEF RecordInv
<1>5. disk' # None => MilestoneHolds(disk'.txn, disk'.fenced_boots, disk'.routes)
    BY <1>t, SnapshotFrame, Zenon DEF RecordInv, RecordedMilestoneHolds
<1> QED
    BY <1>2, <1>4, <1>5, Zenon DEF RecordInv, RecordedMilestoneHolds

(* A restart finds in the file what it needs to believe the record. *)
LEMMA RecordRestart ==
    ASSUME TypeInv, RecordInv, restart
    PROVE  RecordInv'
<1>1. disk \in PersistenceSnapshot /\ MilestoneHolds(disk.txn, disk.fenced_boots, disk.routes)
    BY Zenon DEF restart, TypeInv, TypeOK, RecordInv, RecordedMilestoneHolds
<1>2. disk.txn # None => disk.txn.slot \in Slot
    BY <1>1 DEF PersistenceSnapshot, Transaction
<1>3. ASSUME NEW s \in Slot, NEW a, RouteCovers(disk.routes[s], a)
      PROVE  RouteCovers(routes'[s], a)
    <2>1. disk.routes[s] \in RouteEntry \cup {None} /\ routes'[s] = LoadedRoute(disk.routes[s])
        BY <1>1, Zenon DEF restart, PersistenceSnapshot
    <2>2. disk.routes[s] # None =>
            routes'[s] # None /\ routes'[s].generation = disk.routes[s].generation
        BY <2>1, LoadedRouteFacts, Zenon
    <2> QED
        BY <1>3, <2>2, Zenon DEF RouteCovers
<1>4. MilestoneHolds(txn', fenced_boots', routes')
    <2>1. txn' = disk.txn /\ fenced_boots' = disk.fenced_boots
        BY Zenon DEF restart
    <2> QED
        BY <1>1, <1>2, <1>3, <2>1, Zenon DEF MilestoneHolds
<1>5. disk' = disk /\ \A p \in Attempt \cup Saver : snap'[p] = None
    BY Zenon DEF restart
<1> QED
    BY <1>1, <1>4, <1>5, Zenon DEF RecordInv, RecordedMilestoneHolds

(* Whatever attempts and SAVE requests race, and at whatever point the      *)
(* coordinator dies, the milestone that a transaction record names is not   *)
(* ahead of the fenced boots and of the routes it is saved and loaded with. *)
THEOREM RecordedMilestone == Spec => []RecordedMilestoneHolds
<1>1. Init => RecordInv
    BY Zenon DEF Init, RecordInv, RecordedMilestoneHolds, MilestoneHolds
<1>2. RestartInv /\ RecordInv /\ [Next \/ restart]_vars => RecordInv'
    BY RecordNext, RecordRestart DEF RestartInv
<1>3. RecordInv => RecordedMilestoneHolds
    BY DEF RecordInv
<1> QED
    BY <1>1, <1>2, <1>3, RestartInvariant, PTL DEF Spec

-----------------------------------------------------------------------------
(* The fencing checkpoint.                                                 *)

(* Without SAVE requests only the checkpoints of the attempt take and      *)
(* write snapshots.                                                        *)
LEMMA WriterSteps ==
    ASSUME SoleAttempt, Saver = {}, TypeInv, [Next]_vars, NEW b \in Attempt
    PROVE  save_snapshot(b) \/ save_file(b) \/ save_throws(b) \/ UNCHANGED <<snap, disk>>
<1>1. ASSUME control_plane PROVE UNCHANGED <<snap, disk>>
    BY <1>1, Zenon DEF control_plane, set_initial_assignment, install_route, set_cutover_barrier,
        clear_cutover_barrier
<1>2. ASSUME NEW a \in Attempt, NEW t \in Slot, NEW c \in Boot, plan_failover(a, t, c)
      PROVE  UNCHANGED <<snap, disk>>
    BY <1>2 DEF plan_failover
<1>3. ASSUME execute_plan(b)
      PROVE  save_snapshot(b) \/ save_file(b) \/ save_throws(b) \/ UNCHANGED <<snap, disk>>
    <2>1. CASE validate(b) \/ reject(b) \/ checkpoint(b) \/ interrupted(b) \/ not_interrupted(b)
        BY <2>1, Zenon DEF validate, reject, checkpoint, interrupted, not_interrupted
    <2>2. CASE fence_old(b) \/ activate(b) \/ cutover_route(b) \/ operation_fails(b)
        BY <2>2, Zenon DEF fence_old, activate, cutover_route, operation_fails
    <2>3. CASE superseded(b) \/ commit(b)
        BY <2>3, Zenon DEF superseded, commit
    <2> QED
        BY <1>3, <2>1, <2>2, <2>3 DEF execute_plan
<1>4. CASE UNCHANGED vars
    BY <1>4 DEF vars
<1> QED
    BY <1>1, <1>2, <1>3, <1>4 DEF Next, SoleAttempt

LEMMA DurableNext ==
    ASSUME SoleAttempt, Saver = {}, RestartInv, DurableInv, [Next]_vars
    PROVE  DurableInv'
<1> SUFFICES ASSUME NEW b \in Attempt, Checkpointing, old_assign'[b] # None,
                    at'[b] \in PastFencing
             PROVE  /\ step'[b] = "write" =>
                          snap'[b] # None /\ old_assign'[b].worker_boot \in snap'[b].fenced_boots
                    /\ \/ at'[b] = "OLD_ADMISSION_FENCED" /\ step'[b] \in {"saved", "passed"}
                       \/ at'[b] \in {"ACTIVATION_ACKNOWLEDGED", "ROUTE_INSTALLED"}
                       => disk' # None /\ old_assign'[b].worker_boot \in disk'.fenced_boots
    BY DEF DurableInv, PastFencing
<1> USE DEF PastFencing
<1>1. TypeInv /\ TypeOK /\ AttemptInv
    BY DEF RestartInv, TypeInv
<1>2. CASE save_snapshot(b)
    <2>1. snap'[b] = Snapshot /\ Snapshot \in PersistenceSnapshot /\ Snapshot.fenced_boots = fenced_boots
        BY <1>1, <1>2, SnapshotTyped, Zenon DEF save_snapshot, Snapshot, TypeOK
    <2>2. /\ UNCHANGED <<at, old_assign, disk>> /\ step'[b] = "write"
        BY <1>1, <1>2, Zenon DEF save_snapshot, TypeOK
    <2>3. old_assign[b].worker_boot \in fenced_boots
        BY <1>1, <2>2, Zenon DEF AttemptInv
    <2> QED
        BY <2>1, <2>2, <2>3, NoneAssumption, Zenon DEF DurableInv
<1>3. CASE save_file(b)
    <2>1. /\ UNCHANGED <<at, old_assign>> /\ step'[b] = "saved" /\ step[b] = "write"
          /\ disk' = snap[b]
        BY <1>1, <1>3 DEF save_file, TypeOK
    <2> QED
        BY <2>1, Zenon DEF DurableInv
<1>4. CASE UNCHANGED <<snap, disk>>
    <2>1. CASE validate(b)
        BY <1>1, <2>1, Zenon DEF validate, reach, TypeOK
    <2>2. CASE fence_old(b)
        BY <1>1, <2>2, Zenon DEF fence_old, reach, TypeOK
    <2>3. CASE activate(b)
        BY <1>1, <1>4, <2>3 DEF activate, reach, Proceeds, TypeOK, DurableInv
    <2>4. CASE cutover_route(b)
        BY <1>1, <1>4, <2>4, Zenon DEF cutover_route, reach, Proceeds, TypeOK, DurableInv
    <2>5. CASE SameLocals(b)
        <3>1. CASE step'[b] = "record" \/ step'[b] = step[b]
            BY <1>4, <2>5, <3>1, Zenon DEF SameLocals, DurableInv
        <3>2. CASE checkpoint(b)
            BY <1>1, <1>4, <2>5, <3>2 DEF SameLocals, DurableInv, checkpoint, TypeOK
        <3>3. CASE save_snapshot(b) \/ save_file(b)
            BY Zenon, <1>2, <1>3, <3>3
        <3>4. CASE not_interrupted(b)
            BY <1>1, <1>4, <2>5, <3>4, Zenon DEF SameLocals, DurableInv, not_interrupted, TypeOK
        <3> QED
            BY <1>1, <3>1, <3>2, <3>3, <3>4, RecordSteps
    <2> QED
        BY Zenon, <1>1, <2>1, <2>2, <2>3, <2>4, <2>5, AttemptSteps
<1>5. CASE save_throws(b)
    BY <1>1, <1>5, Zenon DEF save_throws, return, TypeOK
<1> QED
    BY Zenon, <1>1, <1>2, <1>3, <1>4, <1>5, WriterSteps

(* With checkpoints configured, one attempt at a time and no SAVE requests, *)
(* a replacement is activated only when the fencing of the worker it        *)
(* replaces is in the file, however often the coordinator was restarted.    *)
THEOREM FenceDurable ==
    ASSUME SoleAttempt, Saver = {}
    PROVE  Spec => []FenceDurableBeforeActivation
<1>1. Init => DurableInv
    BY Zenon DEF Init, DurableInv
<1>2. RestartInv /\ DurableInv /\ [Next]_vars => DurableInv'
    BY DurableNext
<1>3. restart => DurableInv'
    BY Zenon DEF restart, DurableInv
<1>4. DurableInv => FenceDurableBeforeActivation
    BY Zenon DEF DurableInv, FenceDurableBeforeActivation
<1> QED
    BY <1>1, <1>2, <1>3, <1>4, RestartInvariant, PTL DEF Spec
-----------------------------------------------------------------------------
(* The route of a commit.                                                  *)

(* REGISTER installs a route only for a slot that has none, of the first   *)
(* generation: a slot with a newer assignment has a newer route.           *)
LEMMA FirstRoute ==
    ASSUME TypeInv, MemoryInv, PositiveInv, NEW s \in Slot, install_route(s)
    PROVE  /\ routes[s] = None
           /\ routes' = [routes EXCEPT ![s] = RouteFor(current[s])]
           /\ RouteFor(current[s]) \in RouteEntry
           /\ RouteFor(current[s]).generation = 1
<1> DEFINE c == current[s]
<1>1. c \in Assignment /\ RouteCovers(routes[s], c) /\ <<s, Activated(c)>> \in committed
    BY Zenon DEF install_route, TypeInv, TypeOK, MemoryInv
<1>2. c.route_generation \in Nat /\ c.route_generation > 0
    <2>1. Activated(c).route_generation > 0
        BY <1>1, Zenon DEF PositiveInv
    <2> QED
        BY <1>1, <2>1, ActivatedFacts DEF Assignment
<1>3. RouteFor(c) \in RouteEntry /\ RouteFor(c).generation = c.route_generation
    BY <1>1, RouteForTyped, Zenon DEF RouteFor, TypeInv
<1>4. routes' = installed(s, RouteFor(c)) /\ routes' # routes
    BY Zenon DEF install_route
<1> HIDE DEF c
<1>5. routes[s] = None
    <2> SUFFICES ASSUME routes[s] # None PROVE FALSE
        OBVIOUS
    <2>1. routes[s] \in RouteEntry /\ routes[s].generation > 0
        BY Zenon DEF TypeInv, TypeOK, PositiveInv, PositiveRoutes
    <2>2. ~ (RouteFor(c).generation <= routes[s].generation)
        BY <1>4, Zenon DEF installed
    <2> QED
        BY <1>1, <1>2, <1>3, <2>1, <2>2 DEF RouteCovers, RouteEntry
<1>6. c.route_generation = 1
    BY <1>1, <1>2, <1>5 DEF RouteCovers
<1>7. routes' = [routes EXCEPT ![s] = RouteFor(c)]
    BY <1>4, <1>5, Zenon DEF installed
<1> QED
    BY <1>3, <1>5, <1>6, <1>7, Zenon DEF c

(* The gateway's acknowledged route replaces an older one of no newer epoch. *)
LEMMA OwnRoute ==
    ASSUME TypeInv, MemoryInv, OwnRouteInv, NEW a \in Attempt, cutover_route(a)
    PROVE  /\ plan[a].slot \in Slot /\ new_assign[a] \in Assignment
           /\ routes' = [routes EXCEPT ![plan[a].slot] = RouteFor(new_assign[a])]
           /\ RouteFor(new_assign[a]) \in RouteEntry
           /\ RouteFor(new_assign[a]).generation = new_assign[a].route_generation
           /\ new_assign[a].route_generation > 1
<1> DEFINE s == plan[a].slot
           n == RouteFor(new_assign[a])
<1>1. at[a] = "ACTIVATION_ACKNOWLEDGED" /\ routes' = installed(s, n)
    BY Zenon DEF cutover_route, Proceeds
<1>2. s \in Slot /\ new_assign[a] \in Assignment
    BY <1>1, RunningTyped, Zenon DEF CheckpointedMilestone
<1>3. /\ n \in RouteEntry /\ n.epoch = epoch
      /\ n.generation = new_assign[a].route_generation
    BY <1>2, RouteForTyped, Zenon DEF RouteFor, TypeInv
<1>4. /\ new_assign[a].route_generation > 1
      /\ routes[s] # None => routes[s].generation < new_assign[a].route_generation
    BY <1>1, Zenon DEF OwnRouteInv, HasOwnRoute, Running, CheckpointedMilestone
<1>5. routes[s] # None => routes[s] \in RouteEntry /\ routes[s].epoch <= epoch /\ epoch \in Epoch
    BY <1>2, Zenon DEF TypeInv, TypeOK, MemoryInv
<1> HIDE DEF s, n
<1>6. ~ (/\ routes[s] # None
         /\ n.generation <= routes[s].generation \/ n.epoch < routes[s].epoch)
    BY <1>2, <1>3, <1>4, <1>5 DEF RouteEntry, Assignment, Epoch
<1>7. routes' = [routes EXCEPT ![s] = n]
    BY <1>1, <1>6, Zenon DEF installed
<1> QED
    BY <1>2, <1>3, <1>4, <1>7, Zenon DEF s, n

LEMMA OwnRouteNext ==
    ASSUME SoleAttempt, RestartInv, PositiveInv, OwnRouteInv, [Next]_vars
    PROVE  OwnRouteInv'
<1> SUFFICES ASSUME NEW b \in Attempt, at'[b] # "idle" PROVE HasOwnRoute(b)'
    BY Zenon DEF OwnRouteInv, HasOwnRoute, Running, CheckpointedMilestone
<1>h. HasOwnRoute(b)
    BY DEF OwnRouteInv
<1>t. TypeInv /\ TypeOK /\ MemoryInv
    BY DEF RestartInv, TypeInv
<1>1. ASSUME NEW t \in Slot, NEW c \in Boot, plan_failover(b, t, c), at'[b] = "planned"
      PROVE  HasOwnRoute(b)'
    <2>1. /\ routes' = routes /\ plan'[b].slot = t
          /\ plan'[b].requested_route_generation =
                1 + (IF routes[t] # None THEN routes[t].generation ELSE 1)
        BY <1>1, <1>t, Zenon DEF plan_failover, route_gen_counter, TypeOK
    <2>2. routes[t] # None => routes[t].generation \in Nat /\ routes[t].generation > 0
        BY <1>t DEF TypeOK, RouteEntry, PositiveInv, PositiveRoutes
    <2>3. /\ plan'[b].requested_route_generation > 1
          /\ routes'[t] # None => routes'[t].generation < plan'[b].requested_route_generation
        BY <2>1, <2>2
    <2> QED
        BY <1>1, <2>1, <2>3, Zenon DEF HasOwnRoute, Running, CheckpointedMilestone
<1>2. CASE validate(b)
    <2>1. /\ at[b] = "planned" /\ at'[b] = "INTENT_ONLY" /\ UNCHANGED <<routes, plan>>
          /\ new_assign'[b].route_generation = plan[b].requested_route_generation
        BY <1>2, <1>t, Zenon DEF validate, reach, TypeOK
    <2> QED
        BY <1>h, <2>1, Zenon DEF HasOwnRoute
<1>3. CASE fence_old(b) \/ activate(b)
    <2>1. /\ at[b] \in {"INTENT_ONLY", "OLD_ADMISSION_FENCED"}
          /\ at'[b] \in {"OLD_ADMISSION_FENCED", "ACTIVATION_ACKNOWLEDGED"}
          /\ UNCHANGED <<routes, plan, new_assign>>
        BY <1>3, <1>t, Zenon DEF fence_old, activate, Proceeds, reach, TypeOK
    <2> QED
        BY <1>h, <2>1, Zenon DEF HasOwnRoute, Running, CheckpointedMilestone
<1>4. CASE cutover_route(b)
    <2>1. /\ at[b] = "ACTIVATION_ACKNOWLEDGED" /\ at'[b] = "ROUTE_INSTALLED"
          /\ UNCHANGED <<plan, new_assign>>
        BY <1>4, <1>t, Zenon DEF cutover_route, Proceeds, reach, TypeOK
    <2>2. /\ plan[b].slot \in Slot
          /\ routes'[plan[b].slot] = RouteFor(new_assign[b])
          /\ RouteFor(new_assign[b]) \in RouteEntry
        BY <1>4, <1>t, OwnRoute, Zenon DEF TypeOK
    <2>3. /\ RouteFor(new_assign[b]).generation = new_assign[b].route_generation
          /\ RouteFor(new_assign[b]).assignment = new_assign[b].id
          /\ RouteFor(new_assign[b]).permitted_boot = new_assign[b].worker_boot
        BY Zenon DEF RouteFor
    <2> QED
        BY <1>h, <2>1, <2>2, <2>3, NoneAssumption, Zenon DEF HasOwnRoute, Running, CheckpointedMilestone
<1>5. CASE SameLocals(b)
    <2>1. ASSUME routes'[plan[b].slot] = routes[plan[b].slot] PROVE HasOwnRoute(b)'
        BY <1>h, <1>5, <2>1, Zenon DEF SameLocals, HasOwnRoute, Running
    <2>2. CASE \E s \in Slot, c \in Boot : set_initial_assignment(s, c)
        BY <2>1, <2>2, Zenon DEF set_initial_assignment
    <2>3. ASSUME NEW s \in Slot, install_route(s) PROVE HasOwnRoute(b)'
        <3>1. /\ routes[s] = None /\ routes'[s].generation = 1
              /\ s # plan[b].slot => routes'[plan[b].slot] = routes[plan[b].slot]
            <4>1. plan[b].slot \in Slot
                BY <1>5, <1>t, Zenon DEF SameLocals, TypeInv, TypeOK, LocalsInv, FailoverPlan
            <4> QED
                BY <1>t, <2>3, <4>1, FirstRoute, ZenonT(60) DEF TypeOK
        <3>2. CASE s = plan[b].slot
            BY <1>h, <1>5, <3>1, <3>2, Zenon DEF SameLocals, HasOwnRoute, Running
        <3> QED
            BY <2>1, <3>1, <3>2
    <2>4. ASSUME NEW a \in Attempt, cutover_route(a) PROVE HasOwnRoute(b)'
        BY <1>4, <2>4, Zenon DEF SoleAttempt
    <2>5. CASE \E a \in Attempt : commit(a)
        BY <2>1, <2>5, Zenon DEF commit
    <2>6. CASE UNCHANGED memoryVars
        BY <2>1, <2>6, Zenon DEF memoryVars
    <2> QED
        BY <2>2, <2>3, <2>4, <2>5, <2>6, MemoryFrame, Zenon
<1> QED
    BY <1>1, <1>2, <1>3, <1>4, <1>5, <1>t, AttemptSteps, Zenon

LEMMA PositiveNext ==
    ASSUME RestartInv, PositiveInv, OwnRouteInv, [Next]_vars
    PROVE  PositiveInv'
<1>t. TypeInv /\ TypeOK /\ MemoryInv
    BY DEF RestartInv, TypeInv
<1>1. /\ disk' # None => PositiveRoutes(disk'.routes)
      /\ \A p \in Attempt \cup Saver : snap'[p] # None => PositiveRoutes(snap'[p].routes)
    <2>1. Snapshot.routes = routes
        BY Zenon DEF Snapshot
    <2> QED
        BY <1>t, <2>1, SnapshotFrame, Zenon DEF PositiveInv
<1>2. ASSUME NEW s \in Slot, NEW r \in RouteEntry, r.generation > 0,
             routes' = [routes EXCEPT ![s] = r]
      PROVE  PositiveRoutes(routes')
    BY <1>t, <1>2, Zenon DEF TypeOK, PositiveInv, PositiveRoutes
<1>3. ASSUME NEW s \in Slot, NEW b \in Boot, set_initial_assignment(s, b)
      PROVE  (\A c \in committed' : c[2].route_generation > 0) /\ PositiveRoutes(routes')
    <2>1. PICK a : /\ a.route_generation = 1
                   /\ committed' = committed \cup {<<s, a>>} /\ routes' = routes
        BY <1>3, Zenon DEF set_initial_assignment
    <2> QED
        BY <2>1 DEF PositiveInv
<1>4. ASSUME NEW s \in Slot, install_route(s)
      PROVE  (\A c \in committed' : c[2].route_generation > 0) /\ PositiveRoutes(routes')
    <2>1. 1 > 0 /\ committed' = committed
        BY <1>4 DEF install_route
    <2> QED
        BY <1>2, <1>4, <1>t, <2>1, FirstRoute, Zenon DEF PositiveInv
<1>5. ASSUME NEW a \in Attempt, cutover_route(a)
      PROVE  (\A c \in committed' : c[2].route_generation > 0) /\ PositiveRoutes(routes')
    <2>1. committed' = committed
        BY <1>5, Zenon DEF cutover_route, ghostVars
    <2>2. RouteFor(new_assign[a]).generation > 0
        BY <1>5, <1>t, OwnRoute DEF Assignment
    <2> QED
        BY <1>2, <1>5, <1>t, <2>1, <2>2, OwnRoute, Zenon DEF PositiveInv
<1>6. ASSUME NEW a \in Attempt, commit(a)
      PROVE  (\A c \in committed' : c[2].route_generation > 0) /\ PositiveRoutes(routes')
    <2>1. /\ at[a] = "ROUTE_INSTALLED" /\ routes' = routes
          /\ committed' = committed \cup {<<plan[a].slot, Activated(new_assign[a])>>}
        BY <1>6, Zenon DEF commit, Proceeds, Activated
    <2>2. new_assign[a] \in Assignment
        BY <1>t, <2>1, RunningTyped, Zenon DEF CheckpointedMilestone
    <2>3. new_assign[a].route_generation > 1
        BY <2>1, Zenon DEF OwnRouteInv, HasOwnRoute, Running, CheckpointedMilestone
    <2>4. Activated(new_assign[a]).route_generation > 0
        BY <2>2, <2>3, ActivatedFacts DEF Assignment
    <2> HIDE DEF Activated
    <2> QED
        BY <2>1, <2>4 DEF PositiveInv
<1>7. ASSUME UNCHANGED memoryVars
      PROVE  (\A c \in committed' : c[2].route_generation > 0) /\ PositiveRoutes(routes')
    BY <1>7, Zenon DEF memoryVars, PositiveInv
<1> QED
    BY <1>1, <1>3, <1>4, <1>5, <1>6, <1>7, MemoryFrame, Zenon DEF PositiveInv

LEMMA PositiveRestart ==
    ASSUME TypeInv, PositiveInv, restart
    PROVE  PositiveInv' /\ OwnRouteInv'
<1>1. disk \in PersistenceSnapshot /\ PositiveRoutes(disk.routes)
    BY Zenon DEF restart, TypeInv, TypeOK, PositiveInv
<1>2. PositiveRoutes(routes')
    BY <1>1, NoneAssumption DEF restart, LoadedRoute, PersistenceSnapshot, RouteEntry, PositiveRoutes
<1>3. OwnRouteInv'
    BY Zenon DEF restart, OwnRouteInv, HasOwnRoute, Running, CheckpointedMilestone
<1>4. PositiveInv'
    BY <1>2, Zenon DEF restart, PositiveInv
<1> QED
    BY <1>3, <1>4

(* With one attempt at a time a commit finds the route of its own           *)
(* replacement in the table, although execute_plan does not look at what    *)
(* RouteTable::install returned, and REGISTER installs routes meanwhile.    *)
THEOREM OwnRouteCommitted == ASSUME SoleAttempt PROVE Spec => CommitsWithItsRoute
<1> DEFINE I == RestartInv /\ PositiveInv /\ OwnRouteInv
           P == \A a \in Attempt : commit(a) =>
                   LET r == routes[plan[a].slot]
                   IN  /\ r # None
                       /\ r.assignment = new_assign[a].id
                       /\ r.permitted_boot = new_assign[a].worker_boot
<1>1. Init => PositiveInv /\ OwnRouteInv
    BY ZenonT(60) DEF Init, PositiveInv, PositiveRoutes, OwnRouteInv, HasOwnRoute, Running,
        CheckpointedMilestone
<1>2. I /\ [Next \/ restart]_vars => PositiveInv' /\ OwnRouteInv'
    BY PositiveNext, OwnRouteNext, PositiveRestart, Zenon DEF RestartInv
<1>3. I => [P]_vars
    BY Zenon DEF OwnRouteInv, HasOwnRoute, commit, Proceeds
<1> QED
    BY <1>1, <1>2, <1>3, RestartInvariant, PTL DEF Spec, CommitsWithItsRoute

-----------------------------------------------------------------------------
(* What decode() makes of the file.                                        *)

LEMMA IndexedNext ==
    ASSUME ~PlanUnassigned, TypeInv, IndexedInv, [Next]_vars
    PROVE  IndexedInv'
<1>t. TypeOK
    BY DEF TypeInv
<1>1. ASSUME NEW s \in Slot, NEW b \in Boot, set_initial_assignment(s, b)
      PROVE  /\ unindexed' = unindexed /\ slot_index' = slot_index \cup {s}
             /\ \A t \in Slot : t # s => current'[t] = current[t]
    BY <1>1, <1>t, Zenon DEF set_initial_assignment, TypeOK
<1>2. ASSUME NEW a \in Attempt, commit(a)
      PROVE  /\ unindexed' = unindexed /\ slot_index' = slot_index
             /\ \A t \in Slot : t \notin slot_index => current'[t] = current[t]
    <2>1. plan[a].slot \in slot_index
        BY <1>2, Zenon DEF IndexedInv, commit, Proceeds
    <2> QED
        BY <1>2, <1>t, <2>1, Zenon DEF commit, TypeOK
<1>3. unindexed' = unindexed
    <2>1. CASE \E s \in Slot : install_route(s)
        BY <2>1, Zenon DEF install_route, slotVars
    <2>2. CASE \E a \in Attempt : cutover_route(a)
        BY <2>2, Zenon DEF cutover_route, slotVars
    <2>3. CASE UNCHANGED memoryVars
        BY <2>3, Zenon DEF memoryVars
    <2> QED
        BY <1>1, <1>2, <2>1, <2>2, <2>3, MemoryFrame, Zenon
<1>4. /\ slot_index \subseteq slot_index'
      /\ \A t \in Slot : current'[t] # None => t \in slot_index'
    <2>1. CASE \E s \in Slot, b \in Boot : set_initial_assignment(s, b)
        BY <1>1, <2>1, Zenon DEF IndexedInv
    <2>2. CASE \E a \in Attempt : commit(a)
        BY <1>2, <2>2, Zenon DEF IndexedInv
    <2>3. CASE \E a \in Attempt : validate(a) \/ fence_old(a)
        BY <2>3, Zenon DEF validate, fence_old, slotVars, IndexedInv
    <2>4. CASE UNCHANGED authorityVars
        BY <2>4, Zenon DEF authorityVars, IndexedInv
    <2> QED
        BY <2>1, <2>2, <2>3, <2>4, AuthorityFrame, Zenon
<1>5. ASSUME NEW b \in Attempt, at'[b] # "idle" PROVE plan'[b].slot \in slot_index'
    <2>1. ASSUME NEW t \in Slot, NEW c \in Boot, plan_failover(b, t, c)
          PROVE  plan'[b].slot \in slot_index
        BY <1>t, <2>1, Zenon DEF plan_failover, TypeOK, IndexedInv
    <2>2. CASE validate(b) \/ fence_old(b) \/ activate(b) \/ cutover_route(b)
        <3>1. at[b] # "idle" /\ plan' = plan
            BY <2>2, Zenon DEF validate, fence_old, activate, cutover_route, Proceeds
        <3> QED
            BY <1>4, <3>1, Zenon DEF IndexedInv
    <2>3. CASE SameLocals(b)
        BY <1>4, <1>5, <2>3, Zenon DEF SameLocals, IndexedInv
    <2> QED
        BY <1>4, <1>5, <2>1, <2>2, <2>3, AttemptSteps, Zenon
<1> QED
    BY <1>3, <1>4, <1>5, Zenon DEF IndexedInv

(* A snapshot of indexed slots has the current assignment of a slot as its *)
(* only ACTIVE one: what commit() retires is not ACTIVE any more.          *)
LEMMA SnapshotDecodes == IndexedInv /\ MemoryInv => decodes(Snapshot)
<1> SUFFICES ASSUME IndexedInv, MemoryInv, NEW s \in Slot, NEW a \in ActiveIn(Snapshot, s)
             PROVE  a = current[s]
    BY Zenon DEF decodes
<1>1. /\ a.state = "ACTIVE"
      /\ a = current[s] \/ a \in history[s] \cup unindexed[s]
    BY Zenon DEF ActiveIn, Snapshot
<1> QED
    BY <1>1, Zenon DEF IndexedInv, MemoryInv

LEMMA LoadsNext ==
    ASSUME RestartInv, IndexedInv, LoadsInv, [Next]_vars
    PROVE  LoadsInv'
<1>1. TypeOK /\ MemoryInv
    BY DEF RestartInv, TypeInv
<1>2. decodes(Snapshot)
    BY <1>1, SnapshotDecodes
<1> QED
    BY <1>1, <1>2, SnapshotFrame, Zenon DEF LoadsInv, decodes

LEMMA LoadsRestart ==
    ASSUME LoadsInv, restart
    PROVE  IndexedInv' /\ LoadsInv'
<1>1. ASSUME NEW s \in Slot PROVE unindexed'[s] = {}
    BY Zenon DEF restart
<1>2. ASSUME NEW s \in Slot, current'[s] # None PROVE s \in slot_index'
    BY <1>2, Zenon DEF restart, LoadedCurrent, ActiveIn
<1>3. ASSUME NEW a \in Attempt PROVE at'[a] = "idle"
    BY Zenon DEF restart
<1>4. LoadsInv'
    BY Zenon DEF restart, LoadsInv, decodes
<1> QED
    BY <1>1, <1>2, <1>3, <1>4, Zenon DEF IndexedInv

(* As long as failovers are planned for assigned slots only, decode()      *)
(* accepts every file that save() writes, whatever attempts and SAVE       *)
(* requests race, and however often the coordinator was restarted.         *)
THEOREM FileLoads == ASSUME ~PlanUnassigned PROVE Spec => []SavedFileLoads
<1>1. Init => IndexedInv /\ LoadsInv
    BY ZenonT(60) DEF Init, IndexedInv, LoadsInv
<1>2. RestartInv /\ IndexedInv /\ LoadsInv /\ [Next \/ restart]_vars => (IndexedInv /\ LoadsInv)'
    BY IndexedNext, LoadsNext, LoadsRestart, Zenon DEF RestartInv
<1>3. LoadsInv => SavedFileLoads
    BY DEF LoadsInv, SavedFileLoads
<1> QED
    BY <1>1, <1>2, <1>3, RestartInvariant, PTL DEF Spec
===============================================================================
