----------------------------- MODULE FabricProofs -----------------------------
(***************************************************************************)
(* Safety of the fabric through any number of crashes and restarts, for    *)
(* every value of the constants.  First the types, and what a restart      *)
(* finds: the memory of the fabric and the snapshots taken of it stay      *)
(* consistent (MemoryInv and SnapshotInv).  Then what attempts have        *)
(* established, and the conjunction of all, RestartInv.                    *)
(***************************************************************************)
EXTENDS FabricInvariants, TLAPS

(* The fabric starts typed, with idle attempts. *)
LEMMA InitTyped == Init => TypeInv
BY ConstantAssumption DEF Init, TypeInv, TypeOK, LocalsInv, Milestone, CheckpointedMilestone, Epoch

(* A snapshot of a typed state is a snapshot. *)
LEMMA SnapshotTyped == TypeOK => Snapshot \in PersistenceSnapshot
BY DEF TypeOK, Snapshot, PersistenceSnapshot

(* RouteTable::install keeps a table of routes, given a route. *)
LEMMA InstalledTyped ==
    ASSUME TypeOK, NEW s \in Slot, NEW r \in RouteEntry
    PROVE  installed(s, r) \in [Slot -> RouteEntry \cup {None}]
BY DEF TypeOK, installed

(* The route of an assignment is a route entry. *)
LEMMA RouteForTyped ==
    ASSUME TypeOK, NEW a \in Assignment
    PROVE  RouteFor(a) \in RouteEntry
BY DEF TypeOK, RouteFor, RouteEntry, Assignment, Epoch

(* Returning from execute_plan leaves typed, empty locals. *)
LEMMA ReturnTyped ==
    ASSUME TypeInv, NEW a \in Attempt, return(a)
    PROVE  /\ at' \in [Attempt -> {"idle", "planned"} \cup CheckpointedMilestone]
           /\ step' \in [Attempt -> {"record", "snapshot", "write", "saved", "passed"}]
           /\ plan' \in [Attempt -> FailoverPlan \cup {None}]
           /\ old_assign' \in [Attempt -> Assignment \cup {None}]
           /\ new_assign' \in [Attempt -> Assignment \cup {None}]
           /\ LocalsInv'
BY DEF TypeInv, TypeOK, LocalsInv, return, CheckpointedMilestone

(* Every step of one incarnation keeps the types. *)
LEMMA NextTyped == TypeInv /\ [Next]_vars => TypeInv'
<1> SUFFICES ASSUME TypeInv, [Next]_vars PROVE TypeInv'
    OBVIOUS
<1> USE ConstantAssumption, NoneAssumption
<1>1. ASSUME NEW s \in Slot, NEW b \in Boot, set_initial_assignment(s, b) PROVE TypeInv'
    BY <1>1 DEF TypeInv, TypeOK, LocalsInv, set_initial_assignment, Assignment, AssignmentState,
        txnVars, localVars
<1>2. ASSUME NEW s \in Slot, install_route(s) PROVE TypeInv'
    <2>1. current[s] \in Assignment
        BY <1>2 DEF TypeInv, TypeOK, install_route
    <2>2. routes' \in [Slot -> RouteEntry \cup {None}]
        BY <1>2, <2>1, RouteForTyped, InstalledTyped DEF install_route, TypeInv
    <2> QED
        BY <1>2, <2>2 DEF TypeInv, TypeOK, LocalsInv, install_route, slotVars, txnVars, localVars
<1>3. ASSUME NEW m \in Milestone, set_cutover_barrier(m) PROVE TypeInv'
    BY <1>3 DEF TypeInv, TypeOK, LocalsInv, set_cutover_barrier, slotVars, localVars, ghostVars
<1>4. CASE clear_cutover_barrier
    BY <1>3, <1>4 DEF clear_cutover_barrier, Milestone
<1>5. ASSUME NEW p \in Saver, save_request(p) PROVE TypeInv'
    BY <1>5, SnapshotTyped, Zenon DEF TypeInv, TypeOK, LocalsInv, save_request, slotVars, txnVars,
        localVars, ghostVars
<1>6. ASSUME NEW p \in Saver, save_request_file(p) PROVE TypeInv'
    BY <1>6 DEF TypeInv, TypeOK, LocalsInv, save_request_file, slotVars, txnVars,
        localVars, ghostVars
<1>7. ASSUME NEW a \in Attempt, NEW s \in Slot, NEW b \in Boot, plan_failover(a, s, b)
      PROVE  TypeInv'
    <2>1. plan'[a] \in FailoverPlan
        BY <1>7 DEF TypeInv, TypeOK, plan_failover, FailoverPlan, RouteEntry, route_gen_counter
    <2> QED
        BY <1>7, <2>1 DEF TypeInv, TypeOK, LocalsInv, plan_failover, slotVars, txnVars, ghostVars,
            CheckpointedMilestone
<1>8. ASSUME NEW a \in Attempt, execute_plan(a) PROVE TypeInv'
    <2>1. CASE validate(a)
        <3>1. plan[a] \in FailoverPlan
            BY <2>1, Zenon DEF TypeInv, TypeOK, LocalsInv, validate
        <3>2. new_assign'[a] \in Assignment
            BY <2>1, <3>1 DEF TypeInv, TypeOK, validate, Assignment, AssignmentState, FailoverPlan,
                assignment_gen_counter
        <3> QED
            BY <2>1, <3>1, <3>2 DEF TypeInv, TypeOK, LocalsInv, validate, reach, FailoverPlan,
                slotVars, txnVars, ghostVars, CheckpointedMilestone
    <2>2. CASE reject(a)
        BY <2>2, ReturnTyped, Zenon DEF TypeInv, TypeOK, reject, slotVars, txnVars, ghostVars
    <2>3. CASE checkpoint(a)
        <3>1. /\ plan[a] \in FailoverPlan /\ new_assign[a] \in Assignment
              /\ old_assign[a] \in Assignment \cup {None}
            BY <2>3, Zenon DEF TypeInv, TypeOK, LocalsInv, checkpoint, CheckpointedMilestone
        <3>2. txn' \in Transaction
            BY <2>3, <3>1, Zenon DEF checkpoint, Transaction, FailoverPlan, Milestone
        <3> QED
            BY <2>3, <3>2, Zenon DEF TypeInv, TypeOK, LocalsInv, checkpoint, slotVars, ghostVars
    <2>4. CASE save_snapshot(a)
        BY <2>4, SnapshotTyped, Zenon DEF TypeInv, TypeOK, LocalsInv, save_snapshot, slotVars, txnVars,
            ghostVars
    <2>5. CASE save_file(a)
        BY <2>5, Zenon DEF TypeInv, TypeOK, LocalsInv, save_file, slotVars, txnVars, ghostVars
    <2>6. CASE save_throws(a)
        BY <2>6, ReturnTyped, Zenon DEF TypeInv, TypeOK, save_throws, slotVars, txnVars, ghostVars
    <2>7. CASE interrupted(a)
        BY <2>7, ReturnTyped, Zenon DEF TypeInv, TypeOK, interrupted, slotVars, txnVars, ghostVars
    <2>8. CASE fence_old(a)
        <3>1. fenced_boots' \in SUBSET Boot
            BY <2>8, Zenon DEF TypeInv, TypeOK, fence_old, Assignment
        <3> QED
            BY <2>8, <3>1, Zenon DEF TypeInv, TypeOK, LocalsInv, fence_old, Proceeds, reach, slotVars,
                txnVars, ghostVars, CheckpointedMilestone
    <2>9. CASE activate(a)
        BY <2>9, Zenon DEF TypeInv, TypeOK, LocalsInv, activate, Proceeds, reach, slotVars, txnVars,
            ghostVars, CheckpointedMilestone
    <2>10. CASE cutover_route(a)
        <3>1. plan[a] \in FailoverPlan /\ new_assign[a] \in Assignment
            BY <2>10, Zenon DEF TypeInv, TypeOK, LocalsInv, cutover_route, Proceeds, CheckpointedMilestone
        <3>2. routes' \in [Slot -> RouteEntry \cup {None}]
            BY <2>10, <3>1, RouteForTyped, InstalledTyped, Zenon DEF cutover_route, FailoverPlan, TypeInv
        <3> QED
            BY <2>10, <3>2 DEF TypeInv, TypeOK, LocalsInv, cutover_route, Proceeds, reach, slotVars,
                txnVars, ghostVars, CheckpointedMilestone
    <2>11. CASE operation_fails(a)
        BY <2>11, ReturnTyped, Zenon DEF TypeInv, TypeOK, operation_fails, slotVars, txnVars, ghostVars
    <2>12. CASE superseded(a)
        BY <2>12, ReturnTyped, Zenon DEF TypeInv, TypeOK, superseded, slotVars, txnVars, ghostVars
    <2>13. CASE commit(a)
        <3> DEFINE n == [new_assign[a] EXCEPT !.state = "ACTIVE"]
        <3>1. plan[a] \in FailoverPlan /\ new_assign[a] \in Assignment
            BY <2>13, Zenon DEF TypeInv, TypeOK, LocalsInv, commit, Proceeds, CheckpointedMilestone
        <3>2. n \in Assignment /\ n.authority_generation \in Nat
            BY <3>1 DEF Assignment, AssignmentState
        <3>3. plan[a].slot \in Slot
            BY <3>1, Zenon DEF FailoverPlan
        <3>4. Retired(a) \subseteq Assignment
            BY <3>3, SMTT(30) DEF TypeInv, TypeOK, Retired, Assignment, AssignmentState
        <3>5. fenced_boots' \in SUBSET Boot
            BY <2>13 DEF TypeInv, TypeOK, commit, Assignment
        <3>6. /\ current' \in [Slot -> Assignment \cup {None}]
              /\ history' \in [Slot -> SUBSET Assignment]
              /\ unindexed' \in [Slot -> SUBSET Assignment]
            BY <2>13, <3>2, <3>3, <3>4 DEF TypeInv, TypeOK, commit
        <3>7. committed' \in SUBSET (Slot \X Assignment) /\ fresh' \in SUBSET Slot
            BY <2>13, <3>2, <3>3 DEF TypeInv, TypeOK, commit
        <3>8. last_authority_gen' \in Nat /\ txn' = None
            BY <2>13, <3>2 DEF commit
        <3>9. return(a)
            BY <2>13 DEF commit
        <3> HIDE DEF n
        <3> QED
            BY <2>13, <3>5, <3>6, <3>7, <3>8, <3>9, ReturnTyped DEF TypeInv, TypeOK, commit
    <2>14. CASE not_interrupted(a)
        BY <2>14, Zenon DEF TypeInv, TypeOK, LocalsInv, not_interrupted, slotVars, txnVars, ghostVars
    <2> QED
        BY <1>8, <2>1, <2>2, <2>3, <2>4, <2>5, <2>6, <2>7, <2>8, <2>9, <2>10, <2>11, <2>12, <2>13, <2>14
        DEF execute_plan
<1>9. ASSUME NEW p \in Saver, save_request_throws(p) PROVE TypeInv'
    BY <1>9, Zenon DEF TypeInv, TypeOK, LocalsInv, save_request_throws, slotVars, txnVars,
        localVars, ghostVars
<1>10. CASE UNCHANGED vars
    BY <1>10, Zenon DEF TypeInv, TypeOK, LocalsInv, vars
<1> QED
    BY <1>1, <1>2, <1>3, <1>4, <1>5, <1>6, <1>7, <1>8, <1>9, <1>10 DEF Next, control_plane

(* What load() makes of one slot of a file is an assignment or nothing. *)
LEMMA LoadedTyped ==
    ASSUME NEW d \in PersistenceSnapshot, NEW s \in Slot
    PROVE  /\ LoadedCurrent(d, s) \in Assignment \cup {None}
           /\ LoadedCurrent(d, s) # None =>
                 \E a \in ActiveIn(d, s) : LoadedCurrent(d, s) = reconciled(d, a)
<1>1. ActiveIn(d, s) \subseteq Assignment
    BY DEF ActiveIn, PersistenceSnapshot
<1>2. ASSUME NEW a \in Assignment PROVE reconciled(d, a) \in Assignment
    BY DEF reconciled, Assignment, AssignmentState
<1>3. CASE ActiveIn(d, s) = {}
    BY <1>3 DEF LoadedCurrent
<1>4. CASE ActiveIn(d, s) # {}
    <2>1. PICK a \in ActiveIn(d, s) : a = CHOOSE x \in ActiveIn(d, s) : TRUE
        BY <1>4
    <2>2. LoadedCurrent(d, s) = reconciled(d, a)
        BY <1>4, <2>1 DEF LoadedCurrent
    <2> QED
        BY <1>1, <1>2, <2>2
<1> QED
    BY <1>3, <1>4

(* A route loaded from a file is a route. *)
LEMMA LoadedRouteTyped ==
    ASSUME NEW r \in RouteEntry \cup {None}
    PROVE  LoadedRoute(r) \in RouteEntry \cup {None}
BY DEF LoadedRoute, RouteEntry, dec_epoch

(* It keeps its generation, and its epoch is read as dec_epoch reads it. *)
LEMMA LoadedRouteFacts ==
    ASSUME NEW r \in RouteEntry
    PROVE  /\ r # None /\ LoadedRoute(r) # None
           /\ LoadedRoute(r).generation = r.generation
           /\ LoadedRoute(r).epoch = dec_epoch(r.epoch, r.epoch_boot)
<1>1. r # None
    BY NoneAssumption
<1> DEFINE l == [r EXCEPT !.epoch = dec_epoch(r.epoch, r.epoch_boot),
                          !.epoch_boot = dec_epoch(r.epoch_boot, r.epoch),
                          !.state = "REVALIDATION_REQUIRED"]
<1>2. LoadedRoute(r) = l
    BY <1>1, Zenon DEF LoadedRoute
<1>3. l \in RouteEntry
    BY DEF RouteEntry, dec_epoch
<1>4. l.generation = r.generation /\ l.epoch = dec_epoch(r.epoch, r.epoch_boot)
    BY DEF RouteEntry
<1> HIDE DEF l
<1> QED
    BY <1>1, <1>2, <1>3, <1>4, NoneAssumption

(* A restart from a file yields a typed state. *)
LEMMA RestartTyped == TypeInv /\ restart => TypeInv'
<1> SUFFICES ASSUME TypeInv, restart PROVE TypeInv'
    OBVIOUS
<1>1. disk \in PersistenceSnapshot
    BY Zenon DEF TypeInv, TypeOK, restart
<1>2. current' \in [Slot -> Assignment \cup {None}]
    BY <1>1, LoadedTyped, Zenon DEF restart
<1>3. /\ history' \in [Slot -> SUBSET Assignment]
      /\ unindexed' \in [Slot -> SUBSET Assignment]
      /\ slot_index' \in SUBSET Slot
    BY <1>1, Zenon DEF restart, PersistenceSnapshot
<1>4. routes' \in [Slot -> RouteEntry \cup {None}]
    BY <1>1, LoadedRouteTyped, Zenon DEF restart, PersistenceSnapshot
<1>5. /\ epoch' \in Epoch /\ last_authority_gen' \in Nat /\ assignment_counter' \in Nat
      /\ fenced_boots' \in SUBSET Boot
      /\ txn' \in Transaction \cup {None}
    BY <1>1 DEF restart, PersistenceSnapshot, dec_epoch, Epoch
<1>6. LocalsInv'
    BY Zenon DEF restart, LocalsInv, CheckpointedMilestone
<1> QED
    BY <1>2, <1>3, <1>4, <1>5, <1>6, Zenon DEF TypeInv, TypeOK, restart, Milestone

(* Type correctness through any number of incarnations, for all slots,     *)
(* boots, attempts, savers and bounds.                                     *)
THEOREM TypeCorrect == Spec => []TypeOK
<1>1. Init => TypeInv
    BY InitTyped
<1>2. TypeInv /\ [Next \/ restart]_vars => TypeInv'
    BY NextTyped, RestartTyped
<1>3. TypeInv => TypeOK
    BY DEF TypeInv
<1> QED
    BY <1>1, <1>2, <1>3, PTL DEF Spec

-----------------------------------------------------------------------------
(* Memory and snapshots                                                    *)

(* What assignments and routes are made of, and what authority is. *)
memoryVars == <<current, history, unindexed, routes, epoch, committed, fresh>>
authorityVars == <<current, history, slot_index, assignment_counter, fenced_boots, committed>>

-----------------------------------------------------------------------------
(* Facts about the operators.                                              *)

(* RouteTable::install never lowers the generation of a slot, whatever it  *)
(* is given.                                                               *)
LEMMA InstallCovers ==
    ASSUME TypeOK, NEW s \in Slot, NEW r \in RouteEntry, NEW t \in Slot, NEW a \in Assignment,
           RouteCovers(routes[t], a)
    PROVE  RouteCovers(installed(s, r)[t], a)
BY NoneAssumption DEF TypeOK, installed, RouteCovers, RouteEntry, Assignment

(* Given an entry of an epoch that is not older, the slot's route is at    *)
(* least as new as the entry afterwards, accepted or not.                  *)
LEMMA InstallReaches ==
    ASSUME TypeOK, NEW s \in Slot, NEW r \in RouteEntry,
           routes[s] # None => routes[s].epoch <= r.epoch
    PROVE  /\ installed(s, r)[s] \in RouteEntry
           /\ installed(s, r)[s].generation >= r.generation
           /\ installed(s, r)[s].epoch <= r.epoch
BY NoneAssumption DEF TypeOK, installed, RouteEntry, Epoch

(* Other slots keep their route. *)
LEMMA InstallFrame ==
    ASSUME TypeOK, NEW s \in Slot, NEW r \in RouteEntry, NEW t \in Slot, t # s
    PROVE  installed(s, r)[t] = routes[t]
BY DEF TypeOK, installed

(* An assignment keeps everything else when its state changes. *)
LEMMA ActivatedFacts ==
    ASSUME NEW a \in Assignment
    PROVE  /\ Activated(a) \in Assignment
           /\ Activated(a).state = "ACTIVE"
           /\ Activated(a).route_generation = a.route_generation
           /\ Activated(a).worker_boot = a.worker_boot
           /\ SameAssignment(Activated(a), a)
           /\ a.state = "ACTIVE" => Activated(a) = a
BY DEF Activated, Assignment, AssignmentState, SameAssignment

(* Reconciliation changes nothing but the state of an assignment. *)
LEMMA ReconciledFacts ==
    ASSUME NEW d, NEW a \in Assignment, a.state = "ACTIVE"
    PROVE  /\ reconciled(d, a).state \in {"ACTIVE", "REVALIDATION_REQUIRED"}
           /\ Activated(reconciled(d, a)) = a
           /\ reconciled(d, a).route_generation = a.route_generation
BY DEF Activated, reconciled, Assignment, AssignmentState

(* Snapshots stay good while more and more assignments are committed. *)
LEMMA SnapshotOKMonotone ==
    ASSUME NEW d, NEW C, NEW D, SnapshotOK(d, C), C \subseteq D
    PROVE  SnapshotOK(d, D)
BY DEF SnapshotOK

-----------------------------------------------------------------------------
(* The initial state.                                                      *)
LEMMA InitRestartInv == Init => RestartInv
<1> SUFFICES ASSUME Init PROVE RestartInv
    OBVIOUS
<1>1. TypeInv
    BY InitTyped
<1>2. MemoryInv /\ SnapshotInv
    BY DEF Init, MemoryInv, SnapshotInv
<1>3. AttemptInv /\ StaleSlotInv
    BY DEF Init, AttemptInv, StaleSlotInv, PastFencing, CheckpointedMilestone
<1> QED
    BY <1>1, <1>2, <1>3 DEF RestartInv

-----------------------------------------------------------------------------
(* Which steps of one incarnation touch what.                              *)

(* Only a first assignment, a route and a commit change assignments or     *)
(* routes.                                                                 *)
LEMMA MemoryFrame ==
    ASSUME [Next]_vars
    PROVE  \/ \E s \in Slot, b \in Boot : set_initial_assignment(s, b)
           \/ \E s \in Slot : install_route(s)
           \/ \E a \in Attempt : cutover_route(a) \/ commit(a)
           \/ UNCHANGED memoryVars
<1> USE DEF memoryVars, slotVars, ghostVars
<1>1. ASSUME control_plane
      PROVE  \/ \E s \in Slot, b \in Boot : set_initial_assignment(s, b)
             \/ \E s \in Slot : install_route(s)
             \/ UNCHANGED memoryVars
    <2>1. CASE (\E m \in Barriers : set_cutover_barrier(m)) \/ clear_cutover_barrier
        BY <2>1, Zenon DEF set_cutover_barrier, clear_cutover_barrier
    <2>2. ASSUME NEW p \in Saver, save_request(p) \/ save_request_file(p) \/ save_request_throws(p)
          PROVE  UNCHANGED memoryVars
        BY <2>2, Zenon DEF save_request, save_request_file, save_request_throws
    <2> QED
        BY <1>1, <2>1, <2>2, Zenon DEF control_plane
<1>2. ASSUME NEW a \in Attempt, NEW s \in Slot, NEW b \in Boot, plan_failover(a, s, b)
      PROVE  UNCHANGED memoryVars
    BY <1>2 DEF plan_failover
<1>3. ASSUME NEW a \in Attempt, execute_plan(a)
      PROVE  cutover_route(a) \/ commit(a) \/ UNCHANGED memoryVars
    <2>1. CASE validate(a) \/ reject(a) \/ checkpoint(a) \/ save_snapshot(a)
        BY <2>1, Zenon DEF validate, reject, checkpoint, save_snapshot
    <2>2. CASE save_file(a) \/ save_throws(a) \/ interrupted(a) \/ not_interrupted(a) \/ fence_old(a) \/ activate(a)
        BY <2>2, Zenon DEF save_file, save_throws, interrupted, not_interrupted, fence_old, activate
    <2>3. CASE operation_fails(a) \/ superseded(a)
        BY <2>3, Zenon DEF operation_fails, superseded
    <2> QED
        BY <1>3, <2>1, <2>2, <2>3 DEF execute_plan
<1>4. CASE UNCHANGED vars
    BY <1>4 DEF vars
<1> HIDE DEF memoryVars
<1> QED
    BY <1>1, <1>2, <1>3, <1>4 DEF Next

(* The steps that concern authority.                                       *)
LEMMA AuthorityFrame ==
    ASSUME [Next]_vars
    PROVE  \/ \E s \in Slot, b \in Boot : set_initial_assignment(s, b)
           \/ \E a \in Attempt : validate(a) \/ fence_old(a) \/ commit(a)
           \/ UNCHANGED authorityVars
<1> USE DEF authorityVars, slotVars, ghostVars
<1>1. ASSUME control_plane
      PROVE  \/ \E s \in Slot, b \in Boot : set_initial_assignment(s, b)
             \/ UNCHANGED authorityVars
    <2>1. CASE (\E m \in Barriers : set_cutover_barrier(m)) \/ clear_cutover_barrier
        BY <2>1, Zenon DEF set_cutover_barrier, clear_cutover_barrier
    <2>2. ASSUME NEW p \in Saver, save_request(p) \/ save_request_file(p) \/ save_request_throws(p)
          PROVE  UNCHANGED authorityVars
        BY <2>2, Zenon DEF save_request, save_request_file, save_request_throws
    <2>3. ASSUME NEW s \in Slot, install_route(s) PROVE UNCHANGED authorityVars
        BY <2>3, Zenon DEF install_route
    <2> QED
        BY <1>1, <2>1, <2>2, <2>3, Zenon DEF control_plane
<1>2. ASSUME NEW a \in Attempt, NEW s \in Slot, NEW b \in Boot, plan_failover(a, s, b)
      PROVE  UNCHANGED authorityVars
    BY <1>2, Zenon DEF plan_failover
<1>3. ASSUME NEW a \in Attempt, execute_plan(a)
      PROVE  validate(a) \/ fence_old(a) \/ commit(a) \/ UNCHANGED authorityVars
    <2>1. CASE reject(a) \/ checkpoint(a) \/ save_snapshot(a) \/ save_file(a)
        BY <2>1, Zenon DEF reject, checkpoint, save_snapshot, save_file
    <2>2. CASE save_throws(a) \/ interrupted(a) \/ not_interrupted(a) \/ activate(a)
        BY <2>2, Zenon DEF save_throws, interrupted, not_interrupted, activate
    <2>3. CASE cutover_route(a) \/ operation_fails(a) \/ superseded(a)
        BY <2>3, Zenon DEF cutover_route, operation_fails, superseded
    <2> QED
        BY <1>3, <2>1, <2>2, <2>3 DEF execute_plan
<1>4. CASE UNCHANGED vars
    BY <1>4 DEF vars
<1> HIDE DEF authorityVars
<1> QED
    BY <1>1, <1>2, <1>3, <1>4 DEF Next

(* committed only grows. *)
LEMMA CommittedGrows ==
    ASSUME [Next]_vars
    PROVE  committed \subseteq committed'
<1>1. CASE \E s \in Slot, b \in Boot : set_initial_assignment(s, b)
    BY <1>1 DEF set_initial_assignment
<1>2. CASE \E s \in Slot : install_route(s)
    BY <1>2 DEF install_route
<1>3. CASE \E a \in Attempt : cutover_route(a) \/ commit(a)
    BY <1>3 DEF cutover_route, commit, ghostVars
<1>4. CASE UNCHANGED memoryVars
    BY <1>4 DEF memoryVars
<1> QED
    BY <1>1, <1>2, <1>3, <1>4, MemoryFrame

-----------------------------------------------------------------------------
(* MemoryInv.                                                              *)
LEMMA MemoryNext == RestartInv /\ [Next]_vars => MemoryInv'
<1> SUFFICES ASSUME RestartInv, [Next]_vars PROVE MemoryInv'
    OBVIOUS
<1> USE NoneAssumption
<1>t. TypeOK /\ TypeInv /\ TypeInv'
    BY NextTyped DEF RestartInv, TypeInv
<1>1. ASSUME NEW s \in Slot, NEW b \in Boot, set_initial_assignment(s, b) PROVE MemoryInv'
    <2>1. current'[s] \in Assignment /\ current'[s].state = "ACTIVE" /\ current'[s].route_generation = 1
        BY <1>1, <1>t, Zenon DEF set_initial_assignment, TypeOK, Assignment, AssignmentState
    <2>2. <<s, Activated(current'[s])>> \in committed'
        BY <1>1, <1>t, <2>1, ActivatedFacts, Zenon DEF set_initial_assignment, TypeOK
    <2>3. RouteCovers(routes'[s], current'[s])
        BY <2>1 DEF RouteCovers
    <2>4. \A t \in Slot : t # s => current'[t] = current[t]
        BY <1>1, <1>t, Zenon DEF set_initial_assignment, TypeOK
    <2>5. committed \subseteq committed' /\ UNCHANGED <<history, unindexed, routes, epoch>>
        BY <1>1 DEF set_initial_assignment
    <2>6. ASSUME NEW t \in Slot, current'[t] # None
          PROVE  /\ current'[t].state \in {"ACTIVE", "REVALIDATION_REQUIRED"}
                 /\ <<t, Activated(current'[t])>> \in committed'
                 /\ RouteCovers(routes'[t], current'[t])
        BY <2>1, <2>2, <2>3, <2>4, <2>5, <2>6, Zenon DEF RestartInv, MemoryInv
    <2> QED
        BY <2>5, <2>6, Zenon DEF RestartInv, MemoryInv
<1>2. ASSUME NEW s \in Slot, NEW a \in Assignment, routes' = installed(s, RouteFor(a)),
             UNCHANGED <<current, history, unindexed, epoch, committed>>
      PROVE  MemoryInv'
    <2> DEFINE r == RouteFor(a)
    <2>1. r \in RouteEntry /\ r.epoch = epoch
        <3>1. r \in RouteEntry
            BY <1>t, RouteForTyped, Zenon
        <3>2. r.epoch = epoch
            BY DEF RouteFor
        <3> QED
            BY <3>1, <3>2, Zenon
    <2> HIDE DEF r
    <2>2. ASSUME NEW t \in Slot, NEW c \in Assignment, RouteCovers(routes[t], c)
          PROVE  RouteCovers(routes'[t], c)
        BY <1>2, <1>t, <2>1, <2>2, InstallCovers DEF r
    <2>3. ASSUME NEW t \in Slot, routes'[t] # None PROVE routes'[t].epoch <= epoch
        <3>1. CASE t = s
            BY <1>2, <1>t, <2>1, <3>1, InstallReaches, Zenon DEF r, RestartInv, MemoryInv
        <3>2. CASE t # s
            BY <1>2, <1>t, <2>1, <2>3, <3>2, InstallFrame, Zenon DEF r, RestartInv, MemoryInv
        <3> QED
            BY <3>1, <3>2
    <2>4. MemoryInv /\ \A t \in Slot : /\ current[t] # None => current[t] \in Assignment
                                     /\ unindexed[t] \subseteq Assignment
        BY <1>t, Zenon DEF RestartInv, TypeOK
    <2> QED
        BY <1>2, <2>2, <2>3, <2>4, Zenon DEF MemoryInv
<1>3. ASSUME NEW s \in Slot, install_route(s) PROVE MemoryInv'
    BY <1>2, <1>3, <1>t, Zenon DEF install_route, slotVars, TypeOK
<1>4. ASSUME NEW a \in Attempt, cutover_route(a) PROVE MemoryInv'
    <2>1. plan[a].slot \in Slot /\ new_assign[a] \in Assignment
        <3>1. at[a] \in CheckpointedMilestone /\ at[a] # "idle"
            BY <1>4, Zenon DEF cutover_route, Proceeds, CheckpointedMilestone
        <3>2. plan[a] \in FailoverPlan /\ new_assign[a] \in Assignment
            <4>1. plan[a] # None /\ new_assign[a] # None
                BY <3>1, <1>t, Zenon DEF TypeInv, LocalsInv
            <4>2. plan[a] \in FailoverPlan \cup {None} /\ new_assign[a] \in Assignment \cup {None}
                BY <1>t, Zenon DEF TypeOK
            <4> QED
                BY <4>1, <4>2, Zenon
        <3> QED
            BY <3>2, Zenon DEF FailoverPlan
    <2> QED
        BY <1>2, <1>4, <2>1, Zenon DEF cutover_route, slotVars, ghostVars
<1>5. ASSUME NEW a \in Attempt, commit(a) PROVE MemoryInv'
    <2> DEFINE s == plan[a].slot
               n == [new_assign[a] EXCEPT !.state = "ACTIVE"]
    <2>1. s \in Slot /\ new_assign[a] \in Assignment
        BY <1>5, <1>t DEF commit, Proceeds, TypeInv, TypeOK, LocalsInv, FailoverPlan,
            CheckpointedMilestone
    <2>2. n = Activated(new_assign[a])
        BY DEF Activated
    <2>3. /\ n \in Assignment /\ n.state = "ACTIVE" /\ Activated(n) = n
          /\ RouteCovers(routes[s], n)
        BY <1>5, <2>1, <2>2, ActivatedFacts
        DEF RestartInv, AttemptInv, commit, Proceeds, RouteCovers
    <2>4. \A c \in Retired(a) : c.state = "FENCED"
        BY <1>t, <2>1 DEF Retired, TypeOK, Assignment
    <2>5. committed' = committed \cup {<<s, n>>} /\ UNCHANGED <<routes, epoch>>
        BY <1>5 DEF commit
    <2>6. CASE s \in slot_index
        <3>1. /\ current' = [current EXCEPT ![s] = n]
              /\ history' = [history EXCEPT ![s] = @ \cup Retired(a)]
              /\ unindexed' = unindexed
            BY <1>5, <2>6 DEF commit
        <3> HIDE DEF s, n
        <3> QED
            BY <1>t, <2>1, <2>3, <2>4, <2>5, <3>1, Zenon DEF RestartInv, MemoryInv, TypeOK
    <2>7. CASE s \notin slot_index
        <3>1. /\ unindexed' = [unindexed EXCEPT ![s] = @ \cup {n}]
              /\ UNCHANGED <<current, history>>
            BY <1>5, <2>7 DEF commit
        <3> HIDE DEF s, n
        <3> QED
            BY <1>t, <2>1, <2>3, <2>5, <3>1, Zenon DEF RestartInv, MemoryInv, TypeOK
    <2> QED
        BY <2>6, <2>7
<1>6. CASE UNCHANGED memoryVars
    BY <1>6, Zenon DEF memoryVars, RestartInv, MemoryInv, RouteCovers
<1> QED
    BY <1>1, <1>3, <1>4, <1>5, <1>6, MemoryFrame

-----------------------------------------------------------------------------
(* SnapshotInv.                                                            *)

(* A file is written from a snapshot taken before, and a snapshot is taken *)
(* of the state as it is.                                                  *)
LEMMA SnapshotFrame ==
    ASSUME TypeOK, [Next]_vars
    PROVE  /\ \A p \in Attempt \cup Saver : snap'[p] \in {snap[p], Snapshot, None}
           /\ disk' = disk \/ \E p \in Attempt \cup Saver : disk' = snap[p]
<1> DEFINE P == /\ \A p \in Attempt \cup Saver : snap'[p] \in {snap[p], Snapshot, None}
                /\ disk' = disk \/ \E p \in Attempt \cup Saver : disk' = snap[p]
<1>0. ASSUME UNCHANGED <<snap, disk>> PROVE P
    BY <1>0
<1>1. ASSUME NEW p \in Attempt \cup Saver, snap' = [snap EXCEPT ![p] = Snapshot], disk' = disk
      PROVE  P
    BY <1>1 DEF TypeOK
<1>2. ASSUME NEW p \in Attempt \cup Saver, snap' = [snap EXCEPT ![p] = None],
             disk' = disk \/ disk' = snap[p]
      PROVE  P
    BY <1>2, Zenon DEF TypeOK
<1> HIDE DEF P
<1>3. ASSUME control_plane PROVE P
    <2>1. CASE \E t \in Slot, b \in Boot : set_initial_assignment(t, b)
        BY <1>0, <2>1 DEF set_initial_assignment
    <2>2. CASE \E t \in Slot : install_route(t)
        BY <1>0, <2>2 DEF install_route
    <2>3. CASE \E m \in Barriers : set_cutover_barrier(m)
        BY <1>0, <2>3 DEF set_cutover_barrier
    <2>4. CASE clear_cutover_barrier
        BY <1>0, <2>4 DEF set_cutover_barrier, clear_cutover_barrier
    <2>5. ASSUME NEW p \in Saver, save_request(p) PROVE P
        BY <1>1, <2>5, Zenon DEF save_request
    <2>6. ASSUME NEW p \in Saver, save_request_file(p) PROVE P
        BY <1>2, <2>6, Zenon DEF save_request_file
    <2>7. ASSUME NEW p \in Saver, save_request_throws(p) PROVE P
        BY <1>2, <2>7, Zenon DEF save_request_throws
    <2> QED
        BY <1>3, <2>1, <2>2, <2>3, <2>4, <2>5, <2>6, <2>7 DEF control_plane
<1>4. ASSUME NEW a \in Attempt, NEW t \in Slot, NEW b \in Boot, plan_failover(a, t, b) PROVE P
    BY <1>0, <1>4, Zenon DEF plan_failover
<1>5. ASSUME NEW a \in Attempt, execute_plan(a) PROVE P
    <2>1. CASE \/ validate(a) \/ reject(a) \/ checkpoint(a) \/ interrupted(a)
               \/ not_interrupted(a) \/ fence_old(a)
        BY <1>0, <2>1, Zenon DEF validate, reject, checkpoint, interrupted, not_interrupted, fence_old
    <2>2. CASE activate(a) \/ cutover_route(a) \/ operation_fails(a) \/ superseded(a) \/ commit(a)
        BY <1>0, <2>2, Zenon DEF activate, cutover_route, operation_fails, superseded, commit
    <2>3. CASE save_snapshot(a)
        BY <1>1, <2>3, Zenon DEF save_snapshot
    <2>4. CASE save_file(a)
        BY <1>2, <2>4, Zenon DEF save_file
    <2>5. CASE save_throws(a)
        BY <1>2, <2>5, Zenon DEF save_throws
    <2> QED
        BY <1>5, <2>1, <2>2, <2>3, <2>4, <2>5 DEF execute_plan
<1>6. CASE UNCHANGED vars
    BY <1>0, <1>6 DEF vars
<1> QED
    BY <1>3, <1>4, <1>5, <1>6, Zenon DEF Next, P

(* A snapshot of a good state is a good snapshot. *)
LEMMA SnapshotGood == TypeOK /\ MemoryInv => SnapshotOK(Snapshot, committed)
<1> SUFFICES ASSUME TypeOK, MemoryInv, NEW s \in Slot
             PROVE  /\ \A a \in ActiveIn(Snapshot, s) :
                          <<s, a>> \in committed /\ RouteCovers(routes[s], a)
                    /\ routes[s] # None => routes[s].epoch <= epoch
    BY Zenon DEF SnapshotOK, Snapshot
<1>1. ASSUME NEW a \in ActiveIn(Snapshot, s)
      PROVE  <<s, a>> \in committed /\ RouteCovers(routes[s], a)
    <2>1. /\ a.state = "ACTIVE"
          /\ \/ a = current[s] /\ a # None
             \/ a \in history[s] \cup unindexed[s]
        BY Zenon DEF ActiveIn, Snapshot
    <2>2. CASE a = current[s] /\ a # None
        BY <2>1, <2>2, ActivatedFacts, Zenon DEF TypeOK, MemoryInv
    <2>3. CASE a \in unindexed[s]
        BY <2>3, Zenon DEF MemoryInv
    <2>4. CASE a \in history[s]
        BY <2>1, <2>4, Zenon DEF MemoryInv
    <2> QED
        BY Zenon, <2>1, <2>2, <2>3, <2>4
<1>2. routes[s] # None => routes[s].epoch <= epoch
    BY Zenon DEF MemoryInv
<1> QED
    BY <1>1, <1>2

LEMMA SnapshotNext == RestartInv /\ [Next]_vars => SnapshotInv'
<1> SUFFICES ASSUME RestartInv, [Next]_vars PROVE SnapshotInv'
    OBVIOUS
<1>1. TypeOK /\ MemoryInv /\ SnapshotInv
    BY DEF RestartInv, TypeInv
<1>2. committed \subseteq committed'
    BY CommittedGrows
<1>3. Snapshot \in PersistenceSnapshot /\ SnapshotOK(Snapshot, committed)
    BY <1>1, SnapshotTyped, SnapshotGood
<1>4. ASSUME NEW p \in Attempt \cup Saver, snap'[p] # None
      PROVE  SnapshotOK(snap'[p], committed')
    <2>1. SnapshotOK(snap'[p], committed)
        BY <1>1, <1>3, <1>4, SnapshotFrame, Zenon DEF SnapshotInv
    <2> QED
        BY <1>2, <2>1, SnapshotOKMonotone
<1>5. ASSUME disk' # None PROVE SnapshotOK(disk', committed')
    <2>1. SnapshotOK(disk', committed)
        BY <1>1, <1>5, SnapshotFrame DEF SnapshotInv
    <2> QED
        BY <1>2, <2>1, SnapshotOKMonotone
<1> QED
    BY <1>4, <1>5 DEF SnapshotInv

-----------------------------------------------------------------------------
(* AttemptInv and StaleSlotInv.                                            *)

(* What attempt b has established after b's assignments and milestones are *)
(* left alone.                                                             *)
SameLocals(b) ==
    /\ at'[b] = at[b] /\ plan'[b] = plan[b]
    /\ old_assign'[b] = old_assign[b] /\ new_assign'[b] = new_assign[b]

(* A step of one attempt leaves the locals of the others alone. *)
LEMMA AttemptSteps ==
    ASSUME TypeInv, [Next]_vars, NEW b \in Attempt
    PROVE  \/ at'[b] = "idle"
           \/ at'[b] = "planned" /\ \E t \in Slot, c \in Boot : plan_failover(b, t, c)
           \/ validate(b) \/ fence_old(b) \/ activate(b) \/ cutover_route(b)
           \/ SameLocals(b)
<1> USE DEF TypeInv, TypeOK, SameLocals
<1>0. ASSUME UNCHANGED <<at, plan, old_assign, new_assign>> PROVE SameLocals(b)
    BY <1>0
<1>1. ASSUME control_plane PROVE SameLocals(b)
    BY <1>0, <1>1, Zenon DEF control_plane, set_initial_assignment, install_route, set_cutover_barrier,
        clear_cutover_barrier, save_request, save_request_file, save_request_throws, localVars
<1>2. ASSUME NEW a \in Attempt, NEW t \in Slot, NEW c \in Boot, plan_failover(a, t, c)
      PROVE  (at'[b] = "planned" /\ plan_failover(b, t, c)) \/ SameLocals(b)
    BY <1>2, Zenon DEF plan_failover
<1>3. ASSUME NEW a \in Attempt, return(a) PROVE at'[b] = "idle" \/ SameLocals(b)
    BY <1>3 DEF return
<1>4. ASSUME NEW a \in Attempt, execute_plan(a)
      PROVE  \/ at'[b] = "idle"
             \/ validate(b) \/ fence_old(b) \/ activate(b) \/ cutover_route(b)
             \/ SameLocals(b)
    <2>1. CASE reject(a) \/ save_throws(a) \/ interrupted(a) \/ operation_fails(a)
        BY <1>3, <2>1, Zenon DEF reject, save_throws, interrupted, operation_fails
    <2>2. CASE superseded(a) \/ commit(a)
        BY <1>3, <2>2, Zenon DEF superseded, commit
    <2>3. CASE checkpoint(a) \/ save_snapshot(a) \/ save_file(a) \/ not_interrupted(a)
        BY <1>0, <2>3, Zenon DEF checkpoint, save_snapshot, save_file, not_interrupted
    <2>4. CASE validate(a)
        BY <2>4, Zenon DEF validate, reach
    <2>5. CASE fence_old(a)
        BY <2>5, Zenon DEF fence_old, reach
    <2>6. CASE activate(a)
        BY <2>6, Zenon DEF activate, reach
    <2>7. CASE cutover_route(a)
        BY <2>7, Zenon DEF cutover_route, reach
    <2> QED
        BY <1>4, <2>1, <2>2, <2>3, <2>4, <2>5, <2>6, <2>7, Zenon DEF execute_plan
<1>5. CASE UNCHANGED vars
    BY <1>0, <1>5, Zenon DEF vars
<1> HIDE DEF SameLocals, TypeInv, TypeOK
<1> QED
    BY <1>1, <1>2, <1>4, <1>5 DEF Next

(* Within an incarnation a boot stays fenced. *)
LEMMA FencedGrows ==
    ASSUME [Next]_vars
    PROVE  fenced_boots \subseteq fenced_boots'
<1>1. CASE \E s \in Slot, b \in Boot : set_initial_assignment(s, b)
    BY <1>1 DEF set_initial_assignment
<1>2. ASSUME NEW a \in Attempt, validate(a) PROVE fenced_boots \subseteq fenced_boots'
    BY <1>2 DEF validate
<1>3. ASSUME NEW a \in Attempt, fence_old(a) PROVE fenced_boots \subseteq fenced_boots'
    BY <1>3 DEF fence_old
<1>4. ASSUME NEW a \in Attempt, commit(a) PROVE fenced_boots \subseteq fenced_boots'
    BY <1>4 DEF commit
<1>5. CASE UNCHANGED authorityVars
    BY <1>5 DEF authorityVars
<1> QED
    BY <1>1, <1>2, <1>3, <1>4, <1>5, AuthorityFrame

(* Within an incarnation a route never falls behind an assignment. *)
LEMMA RoutesGrow ==
    ASSUME TypeInv, [Next]_vars, NEW t \in Slot, NEW c \in Assignment, RouteCovers(routes[t], c)
    PROVE  RouteCovers(routes'[t], c)
<1>1. ASSUME NEW s \in Slot, NEW a \in Assignment, routes' = installed(s, RouteFor(a))
      PROVE  RouteCovers(routes'[t], c)
    BY <1>1, RouteForTyped, InstallCovers DEF TypeInv
<1>2. CASE \E s \in Slot, b \in Boot : set_initial_assignment(s, b)
    BY <1>2 DEF set_initial_assignment
<1>3. ASSUME NEW s \in Slot, install_route(s) PROVE RouteCovers(routes'[t], c)
    BY <1>1, <1>3, Zenon DEF install_route, TypeInv, TypeOK
<1>4. ASSUME NEW a \in Attempt, cutover_route(a) PROVE RouteCovers(routes'[t], c)
    <2>1. plan[a].slot \in Slot /\ new_assign[a] \in Assignment
        BY <1>4, Zenon DEF cutover_route, Proceeds, TypeInv, TypeOK, LocalsInv, FailoverPlan,
            CheckpointedMilestone
    <2> QED
        BY <1>1, <1>4, <2>1, Zenon DEF cutover_route
<1>5. ASSUME NEW a \in Attempt, commit(a) PROVE RouteCovers(routes'[t], c)
    BY <1>5, Zenon DEF commit
<1>6. CASE UNCHANGED memoryVars
    BY <1>6 DEF memoryVars
<1> QED
    BY <1>2, <1>3, <1>4, <1>5, <1>6, MemoryFrame

(* A running attempt has a plan for a slot and a replacement. *)
LEMMA RunningTyped ==
    ASSUME TypeInv, NEW a \in Attempt, at[a] \in CheckpointedMilestone
    PROVE  /\ plan[a].slot \in Slot
           /\ new_assign[a] \in Assignment
           /\ old_assign[a] \in Assignment \cup {None}
BY Zenon DEF TypeInv, TypeOK, LocalsInv, FailoverPlan, CheckpointedMilestone

LEMMA AttemptNext == RestartInv /\ [Next]_vars => AttemptInv'
<1> SUFFICES ASSUME RestartInv, [Next]_vars, NEW a \in Attempt
             PROVE  /\ at'[a] \in PastFencing /\ old_assign'[a] # None =>
                          old_assign'[a].worker_boot \in fenced_boots'
                    /\ at'[a] = "ROUTE_INSTALLED" => RouteCovers(routes'[plan'[a].slot], new_assign'[a])
    BY Zenon DEF AttemptInv, PastFencing
<1> USE DEF PastFencing, CheckpointedMilestone
<1>1. TypeInv /\ MemoryInv /\ AttemptInv
    BY DEF RestartInv
<1>2. CASE at'[a] \in {"idle", "planned"}
    BY Zenon, <1>2
<1>3. CASE validate(a)
    BY <1>1, <1>3, Zenon DEF validate, reach, TypeInv, TypeOK
<1>4. CASE fence_old(a)
    BY <1>1, <1>4, Zenon DEF fence_old, reach, TypeInv, TypeOK
<1>5. CASE activate(a)
    BY <1>1, <1>5, Zenon DEF activate, Proceeds, reach, TypeInv, TypeOK, AttemptInv
<1>6. CASE cutover_route(a)
    <2>1. /\ at[a] = "ACTIVATION_ACKNOWLEDGED" /\ at'[a] = "ROUTE_INSTALLED"
          /\ UNCHANGED <<plan, old_assign, new_assign, fenced_boots>>
          /\ routes' = installed(plan[a].slot, RouteFor(new_assign[a]))
        BY <1>1, <1>6, Zenon DEF cutover_route, Proceeds, reach, TypeInv, TypeOK
    <2>2. plan[a].slot \in Slot /\ new_assign[a] \in Assignment
        BY <1>1, <2>1, RunningTyped
    <2>3. /\ RouteFor(new_assign[a]) \in RouteEntry
          /\ RouteFor(new_assign[a]).epoch = epoch
          /\ RouteFor(new_assign[a]).generation = new_assign[a].route_generation
        BY <1>1, <2>2, RouteForTyped, Zenon DEF RouteFor, TypeInv
    <2>4. /\ routes'[plan[a].slot] \in RouteEntry
          /\ routes'[plan[a].slot].generation >= new_assign[a].route_generation
        BY <1>1, <2>1, <2>2, <2>3, InstallReaches, Zenon DEF MemoryInv, TypeInv
    <2> QED
        BY <1>1, <2>1, <2>4, NoneAssumption, Zenon DEF AttemptInv, RouteCovers
<1>7. CASE SameLocals(a)
    <2>1. at[a] = "ROUTE_INSTALLED" => RouteCovers(routes'[plan[a].slot], new_assign[a])
        BY <1>1, RunningTyped, RoutesGrow, Zenon DEF AttemptInv
    <2> QED
        BY <1>1, <1>7, <2>1, FencedGrows, Zenon DEF SameLocals, AttemptInv
<1> QED
    BY Zenon, <1>1, <1>2, <1>3, <1>4, <1>5, <1>6, <1>7, AttemptSteps

(* A slot that is still without fresh evidence after a step has the        *)
(* current assignment it had, and a route acknowledged by the step is the  *)
(* work of an attempt on the slot.                                         *)
LEMMA StaleSlotSteps ==
    ASSUME TypeInv, [Next]_vars, NEW s \in Slot \ fresh'
    PROVE  /\ s \notin fresh /\ current'[s] = current[s]
           /\ \/ routes'[s] = routes[s]
              \/ \E a \in Attempt : cutover_route(a) /\ plan[a].slot = s
<1>1. ASSUME UNCHANGED <<current, routes, fresh>>
      PROVE  s \notin fresh /\ current'[s] = current[s] /\ routes'[s] = routes[s]
    BY <1>1
<1>2. ASSUME NEW t \in Slot, NEW b \in Boot, set_initial_assignment(t, b)
      PROVE  s \notin fresh /\ current'[s] = current[s] /\ routes'[s] = routes[s]
    BY <1>2, Zenon DEF set_initial_assignment, TypeInv, TypeOK
<1>3. ASSUME NEW t \in Slot, install_route(t)
      PROVE  s \notin fresh /\ current'[s] = current[s] /\ routes'[s] = routes[s]
    <2>1. t # s /\ s \notin fresh /\ current'[s] = current[s]
        BY <1>3 DEF install_route, slotVars
    <2>2. current[t] \in Assignment
        BY <1>3, Zenon DEF install_route, TypeInv, TypeOK
    <2> QED
        BY <1>3, <2>1, <2>2, RouteForTyped, InstallFrame, Zenon DEF install_route, TypeInv
<1>4. ASSUME NEW a \in Attempt, commit(a)
      PROVE  s \notin fresh /\ current'[s] = current[s] /\ routes'[s] = routes[s]
    BY <1>4, Zenon DEF commit, TypeInv, TypeOK
<1>5. ASSUME NEW a \in Attempt, cutover_route(a)
      PROVE  /\ s \notin fresh /\ current'[s] = current[s]
             /\ routes'[s] = routes[s] \/ plan[a].slot = s
    <2>1. plan[a].slot \in Slot /\ new_assign[a] \in Assignment
        BY <1>5, RunningTyped, Zenon DEF cutover_route, Proceeds, CheckpointedMilestone
    <2> QED
        BY Zenon, <1>5, <2>1, RouteForTyped, InstallFrame
        DEF cutover_route, slotVars, ghostVars, TypeInv
<1>6. CASE UNCHANGED memoryVars
    BY <1>1, <1>6 DEF memoryVars
<1> QED
    BY Zenon, <1>2, <1>3, <1>4, <1>5, <1>6, MemoryFrame

LEMMA StaleSlotNext == RestartInv /\ [Next]_vars => StaleSlotInv'
<1> SUFFICES ASSUME RestartInv, [Next]_vars, NEW s \in Slot \ fresh'
             PROVE  /\ \A a \in Attempt :
                          at'[a] \in CheckpointedMilestone /\ plan'[a].slot = s =>
                              old_assign'[a] = current'[s]
                    /\ /\ routes'[s] # None /\ routes'[s].state = "ACKNOWLEDGED"
                       /\ current'[s] # None
                       => current'[s].worker_boot \in fenced_boots'
    BY DEF StaleSlotInv
<1>1. TypeInv /\ AttemptInv /\ StaleSlotInv
    BY DEF RestartInv
<1>2. s \in Slot \ fresh /\ current'[s] = current[s]
    BY <1>1, StaleSlotSteps
<1>3. ASSUME NEW a \in Attempt, at'[a] \in CheckpointedMilestone, plan'[a].slot = s
      PROVE  old_assign'[a] = current'[s]
    <2>1. CASE validate(a)
        BY <1>1, <1>2, <1>3, <2>1, Zenon DEF validate, TypeInv, TypeOK
    <2>2. CASE fence_old(a) \/ activate(a) \/ cutover_route(a)
        <3>1. at[a] \in CheckpointedMilestone /\ UNCHANGED <<plan, old_assign>>
            BY <2>2, Zenon DEF fence_old, activate, cutover_route, Proceeds, CheckpointedMilestone
        <3> QED
            BY <1>1, <1>2, <1>3, <3>1, Zenon DEF StaleSlotInv
    <2>3. CASE SameLocals(a)
        BY <1>1, <1>2, <1>3, <2>3, Zenon DEF SameLocals, StaleSlotInv
    <2> QED
        BY <1>1, <1>3, <2>1, <2>2, <2>3, AttemptSteps, Zenon DEF CheckpointedMilestone
<1>4. ASSUME routes'[s] # None, routes'[s].state = "ACKNOWLEDGED", current'[s] # None
      PROVE  current'[s].worker_boot \in fenced_boots'
    <2>1. CASE routes'[s] = routes[s]
        BY <1>1, <1>2, <1>4, <2>1, FencedGrows, Zenon DEF StaleSlotInv
    <2>2. ASSUME NEW a \in Attempt, cutover_route(a), plan[a].slot = s
          PROVE  current'[s].worker_boot \in fenced_boots'
        <3>1. at[a] = "ACTIVATION_ACKNOWLEDGED"
            BY <2>2, Zenon DEF cutover_route, Proceeds
        <3>2. old_assign[a] = current[s]
            BY <1>1, <1>2, <2>2, <3>1, Zenon DEF StaleSlotInv, CheckpointedMilestone
        <3>3. current[s].worker_boot \in fenced_boots
            BY <1>1, <1>2, <1>4, <3>1, <3>2, Zenon DEF AttemptInv, PastFencing
        <3> QED
            BY <1>2, <3>3, FencedGrows
    <2> QED
        BY Zenon, <1>1, <2>1, <2>2, StaleSlotSteps
<1> QED
    BY <1>3, <1>4

-----------------------------------------------------------------------------
(* Restart from a file that SnapshotInv speaks of.                         *)
LEMMA RestartStep == RestartInv /\ restart => RestartInv'
<1> SUFFICES ASSUME RestartInv, restart PROVE RestartInv'
    OBVIOUS
<1>1. TypeInv /\ SnapshotInv
    BY DEF RestartInv
<1>2. disk \in PersistenceSnapshot /\ SnapshotOK(disk, committed)
    BY <1>1, Zenon DEF restart, TypeInv, TypeOK, SnapshotInv
<1>3. TypeInv'
    BY <1>1, RestartTyped
<1>4. SnapshotInv'
    BY <1>1, Zenon DEF SnapshotInv, restart
<1>5. AttemptInv'
    BY Zenon DEF AttemptInv, restart, PastFencing
<1>6. StaleSlotInv'
    <2>1. \A s \in Slot : routes'[s] # None => routes'[s].state = "REVALIDATION_REQUIRED"
        BY <1>2, NoneAssumption DEF restart, LoadedRoute, PersistenceSnapshot, RouteEntry
    <2> QED
        BY <2>1, Zenon DEF StaleSlotInv, restart, CheckpointedMilestone
<1>7. MemoryInv'
    <2> SUFFICES ASSUME NEW s \in Slot
                 PROVE  /\ current'[s] # None =>
                              /\ current'[s].state \in {"ACTIVE", "REVALIDATION_REQUIRED"}
                              /\ <<s, Activated(current'[s])>> \in committed'
                              /\ RouteCovers(routes'[s], current'[s])
                        /\ \A a \in unindexed'[s] :
                              <<s, a>> \in committed' /\ RouteCovers(routes'[s], a)
                        /\ \A a \in history'[s] : a.state # "ACTIVE"
                        /\ routes'[s] # None => routes'[s].epoch <= epoch'
        BY Zenon DEF MemoryInv
    <2>1. /\ disk.routes[s] \in RouteEntry \cup {None}
          /\ disk.assignments[s] \in SUBSET Assignment
          /\ disk.epoch \in Epoch
        BY <1>2 DEF PersistenceSnapshot
    <2>2. /\ routes'[s] = None <=> disk.routes[s] = None
          /\ routes'[s] # None =>
                /\ routes'[s].generation = disk.routes[s].generation
                /\ routes'[s].epoch =
                      dec_epoch(disk.routes[s].epoch, disk.routes[s].epoch_boot)
        <3>1. routes'[s] = LoadedRoute(disk.routes[s])
            BY Zenon DEF restart
        <3>2. CASE disk.routes[s] # None
            BY <2>1, <3>1, <3>2, LoadedRouteFacts, Zenon
        <3> QED
            BY <3>1, <3>2, Zenon DEF LoadedRoute
    <2>3. \A a : RouteCovers(disk.routes[s], a) => RouteCovers(routes'[s], a)
        BY <2>2, Zenon DEF RouteCovers
    <2>4. ASSUME current'[s] # None
          PROVE  /\ current'[s].state \in {"ACTIVE", "REVALIDATION_REQUIRED"}
                 /\ <<s, Activated(current'[s])>> \in committed'
                 /\ RouteCovers(routes'[s], current'[s])
        <3>1. PICK a \in ActiveIn(disk, s) : current'[s] = reconciled(disk, a)
            BY <1>2, <2>4, LoadedTyped, Zenon DEF restart
        <3>2. a \in Assignment /\ a.state = "ACTIVE"
            BY <2>1, Zenon DEF ActiveIn
        <3>3. <<s, a>> \in committed /\ RouteCovers(routes'[s], a)
            BY <1>2, <2>3, Zenon DEF SnapshotOK
        <3>4. /\ current'[s].state \in {"ACTIVE", "REVALIDATION_REQUIRED"}
              /\ Activated(current'[s]) = a
              /\ current'[s].route_generation = a.route_generation
            BY <3>1, <3>2, ReconciledFacts
        <3>5. RouteCovers(routes'[s], current'[s])
            BY <3>3, <3>4, Zenon DEF RouteCovers
        <3>6. committed' = committed
            BY Zenon DEF restart
        <3> QED
            BY Zenon, <3>3, <3>4, <3>5, <3>6
    <2>5. unindexed'[s] = {} /\ \A a \in history'[s] : a.state # "ACTIVE"
        BY Zenon DEF restart, ActiveIn
    <2>6. routes'[s] # None => routes'[s].epoch <= epoch'
        <3>1. epoch' = dec_epoch(disk.epoch, 1) + 1
            BY Zenon DEF restart
        <3>2. disk.routes[s] # None =>
                /\ disk.routes[s].epoch \in Epoch /\ disk.routes[s].epoch_boot \in Epoch
                /\ disk.routes[s].epoch <= disk.epoch
            BY <1>2, <2>1 DEF SnapshotOK, RouteEntry
        <3> QED
            BY <2>1, <2>2, <3>1, <3>2 DEF dec_epoch, Epoch
    <2> QED
        BY Zenon, <2>4, <2>5, <2>6
<1> QED
    BY <1>3, <1>4, <1>5, <1>6, <1>7 DEF RestartInv

(* A step of one incarnation keeps RestartInv. *)
LEMMA RestartNext == RestartInv /\ [Next]_vars => RestartInv'
BY NextTyped, MemoryNext, SnapshotNext, AttemptNext, StaleSlotNext DEF RestartInv

(* RestartInv holds through any number of crashes and restarts.            *)
THEOREM RestartInvariant == Spec => []RestartInv
<1>1. Init => RestartInv
    BY InitRestartInv
<1>2. RestartInv /\ [Next \/ restart]_vars => RestartInv'
    BY RestartNext, RestartStep
<1> QED
    BY <1>1, <1>2, PTL DEF Spec

(* No crash at any milestone, no race between attempts and no save of any  *)
(* of their intermediate states makes an assignment current, or ACTIVE in  *)
(* the file, that execute_plan has not committed (or REGISTER installed).  *)
THEOREM OnlyCommitted == Spec => []OnlyCommittedIsCurrent
<1>1. RestartInv => OnlyCommittedIsCurrent
    BY Zenon DEF RestartInv, MemoryInv, SnapshotInv, SnapshotOK, OnlyCommittedIsCurrent
<1> QED
    BY <1>1, RestartInvariant, PTL

(* execute_plan may ignore what RouteTable::install returns: a committed   *)
(* assignment never has a route older than itself.                         *)
THEOREM RouteNotBehind == Spec => []RouteNotBehindAssignment
<1>1. RestartInv => RouteNotBehindAssignment
    BY Zenon DEF RestartInv, MemoryInv, RouteCovers, RouteNotBehindAssignment
<1> QED
    BY <1>1, RestartInvariant, PTL

(* From the moment an attempt has gone past fencing until it ends, the     *)
(* worker it replaces is fenced, whatever other attempts do.               *)
THEOREM SourceFenced == Spec => []SourceFencedDuringCutover
<1>1. RestartInv => SourceFencedDuringCutover
    BY Zenon DEF RestartInv, AttemptInv, SourceFencedDuringCutover
<1> QED
    BY <1>1, RestartInvariant, PTL

(* After a restart the gate of dispatch_allowed stays closed for a slot    *)
(* that has a route until there is new evidence for it.                    *)
THEOREM FreshEvidence == Spec => []RoutedDispatchNeedsFreshEvidence
<1>1. RestartInv => RoutedDispatchNeedsFreshEvidence
    <2> SUFFICES ASSUME RestartInv, NEW s \in Slot, current[s] # None, routes[s] # None,
                        dispatch_allowed(s, make_auth(epoch, current[s])), s \notin fresh
                 PROVE  FALSE
        BY Zenon DEF RoutedDispatchNeedsFreshEvidence
    <2>1. routes[s] \in RouteEntry /\ routes[s].state # "REVALIDATION_REQUIRED"
        BY Zenon DEF RestartInv, TypeInv, TypeOK, dispatch_allowed
    <2>2. routes[s].state = "ACKNOWLEDGED"
        BY <2>1, Zenon DEF RouteEntry
    <2>3. current[s].worker_boot \notin fenced_boots
        BY Zenon DEF dispatch_allowed, make_auth
    <2> QED
        BY <2>2, <2>3, Zenon DEF RestartInv, StaleSlotInv
<1> QED
    BY <1>1, RestartInvariant, PTL
===============================================================================
