-------------------------------- MODULE Fabric --------------------------------
(***************************************************************************)
(* The authority core of the coordinator (fabric.cpp): assignments, fenced *)
(* worker boots, routes, the transactional cutover of execute_plan with    *)
(* its durable checkpoints, and the restart from the saved file.           *)
(*                                                                         *)
(* Every step below is one region that the code runs under the fabric's    *)
(* mutex, so any interleaving of concurrent attempts and savers is a       *)
(* behaviour.  A worker is named by its boot (one incarnation); TargetOf   *)
(* gives the target that the boot is an incarnation of.                    *)
(***************************************************************************)
EXTENDS Naturals, FiniteSets

CONSTANTS
    Slot,            \* service slots, of services that are already created
    Boot,            \* worker boots
    TargetOf,        \* the target of a worker boot
    Attempt,         \* threads that plan and execute failovers
    Saver,           \* threads that handle SAVE requests
    Barriers,        \* milestones that a caller may set as cutover barrier
    Checkpointing,   \* TRUE iff a checkpoint path is configured
    PlanUnassigned,  \* TRUE iff callers also plan for a slot without assignment
    MaxAssignmentId, \* bound: assignments minted by one incarnation
    MaxEpoch,        \* bound: coordinator epochs
    ArgumentsInOrder,\* TRUE iff the build evaluates arguments from left to right
    None             \* an empty std::optional

CheckpointedMilestone ==
    {"INTENT_ONLY", "OLD_ADMISSION_FENCED", "ACTIVATION_ACKNOWLEDGED", "ROUTE_INSTALLED"}

Milestone == CheckpointedMilestone \cup {"REPLACEMENT_AUTHORIZED", "VERIFICATION_COMPLETE"}

AssignmentState == {"AUTHORIZED", "ACTIVE", "FENCED", "REVALIDATION_REQUIRED"}

Assignment ==
    [id : Nat, generation : Nat, worker_boot : Boot, authority_generation : Nat,
     route_generation : Nat, state : AssignmentState]

(* The value of a CoordinatorEpoch.  Its other parts are the coordinator's *)
(* id and its boot, both always 1.  The file has value, id and boot in     *)
(* this order; the reader reads them as the arguments of one constructor   *)
(* call, so a build that evaluates arguments from right to left exchanges  *)
(* value and boot, and always restarts with the epoch after 1.             *)
Epoch == IF ArgumentsInOrder THEN Nat ELSE 1 .. 2

RouteEntry ==
    [generation : Nat, epoch : Epoch, epoch_boot : Epoch, assignment : Nat,
     assignment_generation : Nat, permitted_boot : Boot,
     state : {"ACKNOWLEDGED", "REVALIDATION_REQUIRED"}]

(* The part of a FailoverPlan that execute_plan reads. *)
FailoverPlan ==
    [slot : Slot, selected : Boot, source_assignment : Assignment \cup {None},
     requested_route_generation : Nat]

(* The record of an incomplete cutover; None is has_txn = false. *)
Transaction ==
    [slot : Slot, milestone : Milestone, pending_assignment : Assignment,
     source_assignment : Assignment \cup {None}]

PersistenceSnapshot ==
    [epoch : Epoch, last_authority_gen : Nat, assignments : [Slot -> SUBSET Assignment],
     routes : [Slot -> RouteEntry \cup {None}], fenced_boots : SUBSET Boot,
     txn : Transaction \cup {None}]

ASSUME ConstantAssumption ==
    /\ Barriers \subseteq Milestone
    /\ Checkpointing \in BOOLEAN
    /\ PlanUnassigned \in BOOLEAN
    /\ MaxAssignmentId \in Nat
    /\ MaxEpoch \in Nat
    /\ ArgumentsInOrder \in BOOLEAN
    /\ Attempt \cap Saver = {}

ASSUME NoneAssumption ==
    /\ None \notin Assignment
    /\ None \notin RouteEntry
    /\ None \notin FailoverPlan
    /\ None \notin Transaction
    /\ None \notin PersistenceSnapshot

VARIABLES
    \* FailoverFabric::Impl
    current,             \* SlotState::current of the slot that slot_index finds
    history,             \* SlotState::history of the slot that slot_index finds
    slot_index,          \* the slots that slot_index knows
    unindexed,           \* currents of SlotStates that slot_index does not know
    routes,              \* RouteTable
    epoch,
    last_authority_gen,
    assignment_counter,
    fenced_boots,
    txn,                 \* has_txn, txn_milestone, pending and source_assignment
    barrier_milestone,
    \* locals of execute_plan, per thread
    at,                  \* "idle", "planned" or the milestone reached
    step,                \* how far checkpoint() of that milestone has come
    plan,
    old_assign,
    new_assign,
    \* persistence
    snap,                \* the snapshot save() has taken and not yet written
    disk,                \* the file the coordinator is restarted from
    \* history variables: no counterpart in the code
    committed,           \* every assignment that ever became current
    fresh                \* slots with evidence obtained since the last restart

slotVars == <<current, history, slot_index, unindexed>>
txnVars == <<txn, barrier_milestone>>
localVars == <<at, step, plan, old_assign, new_assign>>
ghostVars == <<committed, fresh>>
vars == <<current, history, slot_index, unindexed, routes, epoch, last_authority_gen,
          assignment_counter, fenced_boots, txn, barrier_milestone, at, step, plan,
          old_assign, new_assign, snap, disk, committed, fresh>>

TypeOK ==
    /\ current \in [Slot -> Assignment \cup {None}]
    /\ history \in [Slot -> SUBSET Assignment]
    /\ slot_index \in SUBSET Slot
    /\ unindexed \in [Slot -> SUBSET Assignment]
    /\ routes \in [Slot -> RouteEntry \cup {None}]
    /\ epoch \in Epoch
    /\ last_authority_gen \in Nat
    /\ assignment_counter \in Nat
    /\ fenced_boots \in SUBSET Boot
    /\ txn \in Transaction \cup {None}
    /\ barrier_milestone \in Milestone
    /\ at \in [Attempt -> {"idle", "planned"} \cup CheckpointedMilestone]
    /\ step \in [Attempt -> {"record", "snapshot", "write", "saved", "passed"}]
    /\ plan \in [Attempt -> FailoverPlan \cup {None}]
    /\ old_assign \in [Attempt -> Assignment \cup {None}]
    /\ new_assign \in [Attempt -> Assignment \cup {None}]
    /\ snap \in [Attempt \cup Saver -> PersistenceSnapshot \cup {None}]
    /\ disk \in PersistenceSnapshot \cup {None}
    /\ committed \in SUBSET (Slot \X Assignment)
    /\ fresh \in SUBSET Slot

-----------------------------------------------------------------------------
(* The counters that execute_plan only reads stay at their first value.     *)
assignment_gen_counter == 1
route_gen_counter == 1

Init ==
    /\ current = [s \in Slot |-> None]
    /\ history = [s \in Slot |-> {}]
    /\ slot_index = {}
    /\ unindexed = [s \in Slot |-> {}]
    /\ routes = [s \in Slot |-> None]
    /\ epoch = 1
    /\ last_authority_gen = 1
    /\ assignment_counter = 1
    /\ fenced_boots = {}
    /\ txn = None
    /\ barrier_milestone = "VERIFICATION_COMPLETE"
    /\ at = [a \in Attempt |-> "idle"]
    /\ step = [a \in Attempt |-> "record"]
    /\ plan = [a \in Attempt |-> None]
    /\ old_assign = [a \in Attempt |-> None]
    /\ new_assign = [a \in Attempt |-> None]
    /\ snap = [p \in Attempt \cup Saver |-> None]
    /\ disk = None
    /\ committed = {}
    /\ fresh = {}

-----------------------------------------------------------------------------
(* Calls of the control plane.                                             *)

(* The first assignment of a slot; throws if the slot has a current one. *)
set_initial_assignment(s, b) ==
    LET a == [id |-> 1, generation |-> 1, worker_boot |-> b, authority_generation |-> 1,
              route_generation |-> 1, state |-> "ACTIVE"]
    IN  /\ current[s] = None
        /\ slot_index' = slot_index \cup {s}
        /\ current' = [current EXCEPT ![s] = a]
        /\ committed' = committed \cup {<<s, a>>}
        /\ fresh' = fresh \cup {s}
        /\ UNCHANGED <<history, unindexed, routes, epoch, last_authority_gen,
                       assignment_counter, fenced_boots, txnVars, localVars, snap, disk>>

(* Mutant: install refuses the generation right after the installed one. *)
installed_off_by_one(s, r) ==
    IF routes[s] # None /\ r.generation <= routes[s].generation + 1
    THEN routes
    ELSE [routes EXCEPT ![s] = r]

(* RouteTable::install: only a strictly newer generation, never an older epoch. *)
installed(s, r) ==
    IF /\ routes[s] # None
       /\ \/ r.generation <= routes[s].generation
          \/ r.epoch < routes[s].epoch
    THEN routes
    ELSE [routes EXCEPT ![s] = r]

RouteFor(a) ==
    [generation |-> a.route_generation, epoch |-> epoch, epoch_boot |-> 1,
     assignment |-> a.id, assignment_generation |-> a.generation,
     permitted_boot |-> a.worker_boot, state |-> "ACKNOWLEDGED"]

(* A route for the current assignment, acknowledged by the gateway, as the *)
(* REGISTER handler installs it.                                           *)
install_route(s) ==
    /\ current[s] # None
    /\ routes' = installed(s, RouteFor(current[s]))
    /\ routes' # routes
    /\ fresh' = fresh \cup {s}
    /\ UNCHANGED <<slotVars, epoch, last_authority_gen, assignment_counter,
                   fenced_boots, txnVars, localVars, snap, disk, committed>>

set_cutover_barrier(m) ==
    /\ barrier_milestone # m
    /\ barrier_milestone' = m
    /\ UNCHANGED <<slotVars, routes, epoch, last_authority_gen, assignment_counter,
                   fenced_boots, txn, localVars, snap, disk, ghostVars>>

clear_cutover_barrier == set_cutover_barrier("VERIFICATION_COMPLETE")

(* What hard_eligible checks against the coordinator's own state.  Its other *)
(* checks are against evidence that workers publish and withdraw at any    *)
(* moment: they may pass or fail whenever they are made, so a candidate    *)
(* that passes this test may still be refused.                             *)
may_be_eligible(s, b) ==
    /\ current[s] # None => TargetOf[b] # TargetOf[current[s].worker_boot]
    /\ b \notin fenced_boots

-----------------------------------------------------------------------------
(* Planning and the cutover transaction.                                   *)

(* Mutant: assignments are compared without their generation. *)
SameAssignment_by_id(a, b) == a.id = b.id

SameAssignment(a, b) == a.id = b.id /\ a.generation = b.generation

(* plan_failover reads the fabric and changes nothing in it.  The ranking  *)
(* among the eligible candidates is left open.                             *)
plan_failover(a, s, b) ==
    /\ at[a] = "idle"
    /\ PlanUnassigned \/ current[s] # None
    /\ may_be_eligible(s, b)
    /\ plan' = [plan EXCEPT ![a] =
          [slot |-> s, selected |-> b, source_assignment |-> current[s],
           requested_route_generation |->
              1 + (IF routes[s] # None THEN routes[s].generation ELSE route_gen_counter)]]
    /\ at' = [at EXCEPT ![a] = "planned"]
    /\ UNCHANGED <<slotVars, routes, epoch, last_authority_gen, assignment_counter,
                   fenced_boots, txnVars, step, old_assign, new_assign, snap, disk, ghostVars>>

(* execute_plan returns: its locals are gone. *)
return(a) ==
    /\ at' = [at EXCEPT ![a] = "idle"]
    /\ step' = [step EXCEPT ![a] = "record"]
    /\ plan' = [plan EXCEPT ![a] = None]
    /\ old_assign' = [old_assign EXCEPT ![a] = None]
    /\ new_assign' = [new_assign EXCEPT ![a] = None]

reach(a, m) ==
    /\ at' = [at EXCEPT ![a] = m]
    /\ step' = [step EXCEPT ![a] = "record"]

(* The source assignment is the planned one and the candidate may pass. *)
MayBeValid(p) ==
    /\ p.source_assignment # None =>
          /\ current[p.slot] # None
          /\ SameAssignment(current[p.slot], p.source_assignment)
    /\ may_be_eligible(p.slot, p.selected)

validate(a) ==
    /\ at[a] = "planned"
    /\ assignment_counter <= MaxAssignmentId
    /\ MayBeValid(plan[a])
    /\ old_assign' = [old_assign EXCEPT ![a] = current[plan[a].slot]]
    /\ new_assign' = [new_assign EXCEPT ![a] =
          [id |-> assignment_counter, generation |-> assignment_gen_counter + 1,
           worker_boot |-> plan[a].selected,
           authority_generation |-> last_authority_gen + 1,
           route_generation |-> plan[a].requested_route_generation,
           state |-> "AUTHORIZED"]]
    /\ assignment_counter' = assignment_counter + 1
    /\ reach(a, "INTENT_ONLY")
    /\ UNCHANGED <<slotVars, routes, epoch, last_authority_gen, fenced_boots, txnVars,
                   plan, snap, disk, ghostVars>>

(* Revalidation may refuse the candidate even when MayBeValid holds, on    *)
(* the evidence published since planning.                                  *)
reject(a) ==
    /\ at[a] = "planned"
    /\ return(a)
    /\ UNCHANGED <<slotVars, routes, epoch, last_authority_gen, assignment_counter,
                   fenced_boots, txnVars, snap, disk, ghostVars>>

(* Mutant: the fencing milestone is recorded but not saved. *)
checkpoint_skips_fencing(a) ==
    /\ at[a] \in CheckpointedMilestone
    /\ step[a] = "record"
    /\ txn' = [slot |-> plan[a].slot, milestone |-> at[a],
               pending_assignment |-> new_assign[a],
               source_assignment |-> old_assign[a]]
    /\ step' = [step EXCEPT ![a] =
          IF Checkpointing /\ at[a] # "OLD_ADMISSION_FENCED" THEN "snapshot" ELSE "saved"]
    /\ UNCHANGED <<slotVars, routes, epoch, last_authority_gen, assignment_counter,
                   fenced_boots, barrier_milestone, at, plan, old_assign, new_assign,
                   snap, disk, ghostVars>>

(* checkpoint(), first half: the transaction record, under the lock. *)
checkpoint(a) ==
    /\ at[a] \in CheckpointedMilestone
    /\ step[a] = "record"
    /\ txn' = [slot |-> plan[a].slot, milestone |-> at[a],
               pending_assignment |-> new_assign[a],
               source_assignment |-> old_assign[a]]
    /\ step' = [step EXCEPT ![a] = IF Checkpointing THEN "snapshot" ELSE "saved"]
    /\ UNCHANGED <<slotVars, routes, epoch, last_authority_gen, assignment_counter,
                   fenced_boots, barrier_milestone, at, plan, old_assign, new_assign,
                   snap, disk, ghostVars>>

(* Mutant: the pending replacement is saved among the ACTIVE assignments. *)
Snapshot_with_pending ==
    [epoch |-> epoch, last_authority_gen |-> last_authority_gen,
     assignments |-> [s \in Slot |-> ({current[s]} \ {None}) \cup history[s] \cup unindexed[s]
        \cup (IF txn # None /\ txn.slot = s
              THEN {[txn.pending_assignment EXCEPT !.state = "ACTIVE"]} ELSE {})],
     routes |-> routes, fenced_boots |-> fenced_boots, txn |-> txn]

(* Mutant: only the boots of assignments that have been replaced are saved. *)
Snapshot_fences_of_history ==
    [epoch |-> epoch, last_authority_gen |-> last_authority_gen,
     assignments |-> [s \in Slot |-> ({current[s]} \ {None}) \cup history[s] \cup unindexed[s]],
     routes |-> routes,
     fenced_boots |-> {a.worker_boot : a \in UNION {history[s] : s \in Slot}}, txn |-> txn]

(* save() copies the state under the shared lock ... *)
Snapshot ==
    [epoch |-> epoch, last_authority_gen |-> last_authority_gen,
     assignments |-> [s \in Slot |-> ({current[s]} \ {None}) \cup history[s] \cup unindexed[s]],
     routes |-> routes, fenced_boots |-> fenced_boots, txn |-> txn]

save_snapshot(a) ==
    /\ step[a] = "snapshot"
    /\ snap' = [snap EXCEPT ![a] = Snapshot]
    /\ step' = [step EXCEPT ![a] = "write"]
    /\ UNCHANGED <<slotVars, routes, epoch, last_authority_gen, assignment_counter,
                   fenced_boots, txnVars, at, plan, old_assign, new_assign, disk, ghostVars>>

(* ... and writes the file after it has released the lock. *)
save_file(a) ==
    /\ step[a] = "write"
    /\ disk' = snap[a]
    /\ snap' = [snap EXCEPT ![a] = None]
    /\ step' = [step EXCEPT ![a] = "saved"]
    /\ UNCHANGED <<slotVars, routes, epoch, last_authority_gen, assignment_counter,
                   fenced_boots, txnVars, at, plan, old_assign, new_assign, ghostVars>>

(* The file cannot be written: the exception leaves execute_plan. *)
save_throws(a) ==
    /\ step[a] = "write"
    /\ snap' = [snap EXCEPT ![a] = None]
    /\ return(a)
    /\ UNCHANGED <<slotVars, routes, epoch, last_authority_gen, assignment_counter,
                   fenced_boots, txnVars, disk, ghostVars>>

(* The end of checkpoint(): the barrier is looked at, without the lock.    *)
(* If it is reached: RECOVERY_REQUIRED, the transaction stays open.        *)
interrupted(a) ==
    /\ step[a] = "saved"
    /\ barrier_milestone = at[a]
    /\ return(a)
    /\ UNCHANGED <<slotVars, routes, epoch, last_authority_gen, assignment_counter,
                   fenced_boots, txnVars, snap, disk, ghostVars>>

not_interrupted(a) ==
    /\ step[a] = "saved"
    /\ barrier_milestone # at[a]
    /\ step' = [step EXCEPT ![a] = "passed"]
    /\ UNCHANGED <<slotVars, routes, epoch, last_authority_gen, assignment_counter,
                   fenced_boots, txnVars, at, plan, old_assign, new_assign, snap, disk, ghostVars>>

(* checkpoint(m) has returned and did not report the barrier. *)
Proceeds(a, m) == at[a] = m /\ step[a] = "passed"

(* Mutant: the worker is told, the fabric does not record its boot. *)
fence_old_unrecorded(a) ==
    /\ Proceeds(a, "INTENT_ONLY")
    /\ reach(a, "OLD_ADMISSION_FENCED")
    /\ UNCHANGED <<slotVars, routes, epoch, last_authority_gen, assignment_counter,
                   fenced_boots, txnVars, plan, old_assign, new_assign, snap, disk, ghostVars>>

fence_old(a) ==
    /\ Proceeds(a, "INTENT_ONLY")
    /\ fenced_boots' = IF old_assign[a] = None THEN fenced_boots
                       ELSE fenced_boots \cup {old_assign[a].worker_boot}
    /\ reach(a, "OLD_ADMISSION_FENCED")
    /\ UNCHANGED <<slotVars, routes, epoch, last_authority_gen, assignment_counter,
                   txnVars, plan, old_assign, new_assign, snap, disk, ghostVars>>

(* Mutant: another enumerator of CutoverMilestone. *)
activate_wrong_milestone(a) ==
    /\ Proceeds(a, "OLD_ADMISSION_FENCED")
    /\ reach(a, "REPLACEMENT_AUTHORIZED")
    /\ UNCHANGED <<slotVars, routes, epoch, last_authority_gen, assignment_counter,
                   fenced_boots, txnVars, plan, old_assign, new_assign, snap, disk, ghostVars>>

activate(a) ==
    /\ Proceeds(a, "OLD_ADMISSION_FENCED")
    /\ reach(a, "ACTIVATION_ACKNOWLEDGED")
    /\ UNCHANGED <<slotVars, routes, epoch, last_authority_gen, assignment_counter,
                   fenced_boots, txnVars, plan, old_assign, new_assign, snap, disk, ghostVars>>

(* Mutant: the gateway is told, the fabric's own table is not. *)
cutover_route_not_installed(a) ==
    /\ Proceeds(a, "ACTIVATION_ACKNOWLEDGED")
    /\ reach(a, "ROUTE_INSTALLED")
    /\ UNCHANGED <<slotVars, routes, epoch, last_authority_gen, assignment_counter,
                   fenced_boots, txnVars, plan, old_assign, new_assign, snap, disk, ghostVars>>

(* The gateway has acknowledged; the result of RouteTable::install is not  *)
(* looked at.                                                              *)
cutover_route(a) ==
    /\ Proceeds(a, "ACTIVATION_ACKNOWLEDGED")
    /\ routes' = installed(plan[a].slot, RouteFor(new_assign[a]))
    /\ reach(a, "ROUTE_INSTALLED")
    /\ UNCHANGED <<slotVars, epoch, last_authority_gen, assignment_counter,
                   fenced_boots, txnVars, plan, old_assign, new_assign, snap, disk, ghostVars>>

(* An operation outside the fabric fails: fencing not applied or unproven, *)
(* activation or route not acknowledged, verification failed.              *)
operation_fails(a) ==
    /\ \E m \in CheckpointedMilestone : Proceeds(a, m)
    /\ at[a] = "INTENT_ONLY" => old_assign[a] # None
    /\ return(a)
    /\ UNCHANGED <<slotVars, routes, epoch, last_authority_gen, assignment_counter,
                   fenced_boots, txnVars, snap, disk, ghostVars>>

(* Mutant: no supersession guard. *)
Superseded_never(a) == FALSE

(* Supersession guard: another attempt has committed meanwhile. *)
Superseded(a) ==
    /\ old_assign[a] # None
    /\ current[plan[a].slot] # None
    /\ ~SameAssignment(current[plan[a].slot], old_assign[a])

superseded(a) ==
    /\ Proceeds(a, "ROUTE_INSTALLED")
    /\ Superseded(a)
    /\ return(a)
    /\ UNCHANGED <<slotVars, routes, epoch, last_authority_gen, assignment_counter,
                   fenced_boots, txnVars, snap, disk, ghostVars>>

(* Mutant: the replaced assignment keeps its state. *)
Retired_still_active(a) ==
    LET cur == current[plan[a].slot]
    IN  IF cur # None THEN {cur}
        ELSE IF old_assign[a] # None THEN {old_assign[a]}
        ELSE {}

(* The assignment that goes to the history when new_assign replaces it. *)
Retired(a) ==
    LET cur == current[plan[a].slot]
    IN  IF cur # None THEN {[cur EXCEPT !.state = "FENCED"]}
        ELSE IF old_assign[a] # None THEN {[old_assign[a] EXCEPT !.state = "FENCED"]}
        ELSE {}

commit(a) ==
    LET s == plan[a].slot
        n == [new_assign[a] EXCEPT !.state = "ACTIVE"]
    IN  /\ Proceeds(a, "ROUTE_INSTALLED")
        /\ ~Superseded(a)
        /\ IF s \in slot_index
           THEN /\ current' = [current EXCEPT ![s] = n]
                /\ history' = [history EXCEPT ![s] = @ \cup Retired(a)]
                /\ UNCHANGED unindexed
           ELSE \* a new SlotState is appended; slot_index is not told
                /\ unindexed' = [unindexed EXCEPT ![s] = @ \cup {n}]
                /\ UNCHANGED <<current, history>>
        /\ fenced_boots' = IF old_assign[a] = None THEN fenced_boots
                           ELSE fenced_boots \cup {old_assign[a].worker_boot}
        /\ last_authority_gen' = n.authority_generation
        /\ txn' = None
        /\ committed' = committed \cup {<<s, n>>}
        /\ fresh' = fresh \cup {s}
        /\ return(a)
        /\ UNCHANGED <<slot_index, routes, epoch, assignment_counter,
                       barrier_milestone, snap, disk>>

-----------------------------------------------------------------------------
(* The SAVE request, and the restart of the coordinator from the file.     *)

save_request(p) ==
    /\ snap[p] = None
    /\ snap' = [snap EXCEPT ![p] = Snapshot]
    /\ UNCHANGED <<slotVars, routes, epoch, last_authority_gen, assignment_counter,
                   fenced_boots, txnVars, localVars, disk, ghostVars>>

save_request_file(p) ==
    /\ snap[p] # None
    /\ snap' = [snap EXCEPT ![p] = None]
    /\ disk' = snap[p]
    /\ UNCHANGED <<slotVars, routes, epoch, last_authority_gen, assignment_counter,
                   fenced_boots, txnVars, localVars, ghostVars>>

save_request_throws(p) ==
    /\ snap[p] # None
    /\ snap' = [snap EXCEPT ![p] = None]
    /\ UNCHANGED <<slotVars, routes, epoch, last_authority_gen, assignment_counter,
                   fenced_boots, txnVars, localVars, disk, ghostVars>>

ActiveIn(d, s) == {a \in d.assignments[s] : a.state = "ACTIVE"}

(* decode() accepts the file: one ACTIVE assignment per slot at most. *)
decodes(d) ==
    \A s \in Slot : \A a, b \in ActiveIn(d, s) : a = b

(* Reconciliation of load(): with an interrupted cutover on record the     *)
(* saved ACTIVE assignment comes back as REVALIDATION_REQUIRED.            *)
reconciled(d, a) ==
    IF d.txn # None THEN [a EXCEPT !.state = "REVALIDATION_REQUIRED"] ELSE a

(* Mutant: load() completes the interrupted cutover. *)
LoadedCurrent_promotes_pending(d, s) ==
    IF d.txn # None /\ d.txn.slot = s THEN [d.txn.pending_assignment EXCEPT !.state = "ACTIVE"]
    ELSE IF ActiveIn(d, s) = {} THEN None
    ELSE CHOOSE a \in ActiveIn(d, s) : TRUE

LoadedCurrent(d, s) ==
    IF ActiveIn(d, s) = {} THEN None
    ELSE reconciled(d, CHOOSE a \in ActiveIn(d, s) : TRUE)

(* dec_epoch: the value of an epoch that was saved as value v and boot b. *)
dec_epoch(v, b) == IF ArgumentsInOrder THEN v ELSE b

(* Mutant: loaded routes are used as they were saved. *)
LoadedRoute_never_marked(r) ==
    IF r = None THEN None
    ELSE [r EXCEPT !.epoch = dec_epoch(r.epoch, r.epoch_boot),
                   !.epoch_boot = dec_epoch(r.epoch_boot, r.epoch)]

(* dec_route and RouteTable::mark_revalidation_required, for one route. *)
LoadedRoute(r) ==
    IF r = None THEN None
    ELSE [r EXCEPT !.epoch = dec_epoch(r.epoch, r.epoch_boot),
                   !.epoch_boot = dec_epoch(r.epoch_boot, r.epoch),
                   !.state = "REVALIDATION_REQUIRED"]

(* The process dies at any moment and a new one loads the file, takes the  *)
(* next epoch and only then listens: readiness, counters, running attempts *)
(* and unwritten snapshots are gone.                                       *)
restart ==
    /\ disk # None
    /\ decodes(disk)
    /\ dec_epoch(disk.epoch, 1) < MaxEpoch
    /\ epoch' = dec_epoch(disk.epoch, 1) + 1
    /\ last_authority_gen' = disk.last_authority_gen
    /\ fenced_boots' = disk.fenced_boots
    /\ current' = [s \in Slot |-> LoadedCurrent(disk, s)]
    /\ history' = [s \in Slot |-> disk.assignments[s] \ ActiveIn(disk, s)]
    /\ slot_index' = {s \in Slot : disk.assignments[s] # {}}
    /\ unindexed' = [s \in Slot |-> {}]
    /\ routes' = [s \in Slot |-> LoadedRoute(disk.routes[s])]
    /\ txn' = disk.txn
    /\ assignment_counter' = 1
    /\ barrier_milestone' = "VERIFICATION_COMPLETE"
    /\ at' = [a \in Attempt |-> "idle"]
    /\ step' = [a \in Attempt |-> "record"]
    /\ plan' = [a \in Attempt |-> None]
    /\ old_assign' = [a \in Attempt |-> None]
    /\ new_assign' = [a \in Attempt |-> None]
    /\ snap' = [p \in Attempt \cup Saver |-> None]
    /\ fresh' = {}
    /\ UNCHANGED <<disk, committed>>

-----------------------------------------------------------------------------
execute_plan(a) ==
    \/ validate(a)
    \/ reject(a)
    \/ checkpoint(a)
    \/ save_snapshot(a)
    \/ save_file(a)
    \/ save_throws(a)
    \/ interrupted(a)
    \/ not_interrupted(a)
    \/ fence_old(a)
    \/ activate(a)
    \/ cutover_route(a)
    \/ operation_fails(a)
    \/ superseded(a)
    \/ commit(a)

control_plane ==
    \/ \E s \in Slot, b \in Boot : set_initial_assignment(s, b)
    \/ \E s \in Slot : install_route(s)
    \/ \E m \in Barriers : set_cutover_barrier(m)
    \/ clear_cutover_barrier
    \/ \E p \in Saver : save_request(p) \/ save_request_file(p) \/ save_request_throws(p)

(* One incarnation of the coordinator. *)
Next ==
    \/ control_plane
    \/ \E a \in Attempt, s \in Slot, b \in Boot : plan_failover(a, s, b)
    \/ \E a \in Attempt : execute_plan(a)

IncarnationSpec == Init /\ [][Next]_vars

(* Any number of incarnations. *)
Spec == Init /\ [][Next \/ restart]_vars

-----------------------------------------------------------------------------
(* The authority gate.                                                     *)

(* The authorization that make_auth builds for an assignment. *)
make_auth(e, a) ==
    [epoch |-> e, assignment |-> a.id, assignment_generation |-> a.generation,
     route_generation |-> a.route_generation, worker_boot |-> a.worker_boot]

dispatch_allowed(s, auth) ==
    LET cur == current[s]
    IN  /\ cur # None
        /\ auth.epoch = epoch
        /\ auth.assignment = cur.id
        /\ auth.assignment_generation = cur.generation
        /\ auth.route_generation = cur.route_generation
        /\ routes[s] # None => routes[s].state # "REVALIDATION_REQUIRED"
        /\ auth.worker_boot = cur.worker_boot
        /\ auth.worker_boot \notin fenced_boots
        /\ cur.state = "ACTIVE"
===============================================================================
