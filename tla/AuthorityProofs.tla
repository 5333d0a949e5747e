--------------------------- MODULE AuthorityProofs ----------------------------
(***************************************************************************)
(* One incarnation of the fabric implements ExclusiveAuthority, when slots *)
(* are assigned before they are failed over (~PlanUnassigned), for every   *)
(* number of slots, boots, concurrent attempts and savers.  Its steps      *)
(* never give an identity out twice (IdentityInv); from this, and from     *)
(* what the fabric knows of the slots' holders, the inductive              *)
(* invariant of one incarnation and the refinement follow.                 *)
(***************************************************************************)
EXTENDS FabricProofs

-----------------------------------------------------------------------------
(* Identities                                                              *)

(* A running attempt was running before with the same locals, or has just  *)
(* passed validation.                                                      *)
LEMMA RunningSteps ==
    ASSUME TypeInv, [Next]_vars, NEW b \in Attempt, Running(b)'
    PROVE  \/ validate(b)
           \/ /\ Running(b) /\ plan'[b] = plan[b]
              /\ old_assign'[b] = old_assign[b] /\ new_assign'[b] = new_assign[b]
<1>1. CASE fence_old(b) \/ activate(b) \/ cutover_route(b)
    BY <1>1 DEF fence_old, activate, cutover_route, Proceeds, Running, CheckpointedMilestone
<1>2. CASE SameLocals(b)
    BY <1>2 DEF SameLocals, Running
<1>3. at'[b] \notin {"idle", "planned"}
    BY DEF Running, CheckpointedMilestone
<1> QED
    BY <1>1, <1>2, <1>3, AttemptSteps

(* A plan is made for a slot with an assignment, if callers do not plan    *)
(* for others.                                                             *)
LEMMA PlannedSteps ==
    ASSUME TypeInv, [Next]_vars, ~PlanUnassigned, NEW b \in Attempt, at'[b] = "planned",
           at[b] = "planned" => plan[b].source_assignment # None
    PROVE  plan'[b].source_assignment # None
<1>1. ASSUME NEW t \in Slot, NEW c \in Boot, plan_failover(b, t, c)
      PROVE  plan'[b].source_assignment # None
    BY <1>1 DEF plan_failover, TypeInv, TypeOK
<1>2. CASE validate(b) \/ fence_old(b) \/ activate(b) \/ cutover_route(b)
    <2>1. at'[b] # "planned"
        BY <1>2, Zenon DEF validate, fence_old, activate, cutover_route, reach, TypeInv, TypeOK
    <2> QED
        BY <2>1
<1>3. CASE SameLocals(b)
    BY <1>3 DEF SameLocals
<1> QED
    BY <1>1, <1>2, <1>3, AttemptSteps

-----------------------------------------------------------------------------
(* The invariant of one incarnation.                                       *)

(* An attempt that may commit found the assignment that is still current,  *)
(* and its replacement is new to every slot.                               *)
LEMMA CommitFacts ==
    ASSUME IncarnationInv, NEW a \in Attempt, commit(a)
    PROVE  /\ Running(a)
           /\ plan[a].slot \in slot_index /\ new_assign[a] \in Assignment
           /\ current[plan[a].slot] \in Assignment
           /\ current[plan[a].slot] = old_assign[a]
           /\ old_assign[a].worker_boot \in fenced_boots
           /\ \A c \in committed : ~SameAssignment(c[2], new_assign[a])
<1> DEFINE s == plan[a].slot
<1>1. TypeInv /\ at[a] = "ROUTE_INSTALLED" /\ Running(a) /\ ~Superseded(a)
    BY DEF IncarnationInv, RestartInv, commit, Proceeds, Running, CheckpointedMilestone
<1>2. s \in Slot /\ new_assign[a] \in Assignment
    BY <1>1, RunningTyped DEF Running
<1>3. /\ current[s] # None /\ old_assign[a] # None /\ s \in slot_index
      /\ <<s, old_assign[a]>> \in committed
    BY <1>1, <1>2 DEF IncarnationInv, AssignedInv
<1>4. current[s] \in Assignment /\ <<s, current[s]>> \in committed
    BY <1>2, <1>3, ActivatedFacts
    DEF IncarnationInv, RestartInv, TypeInv, TypeOK, MemoryInv, AssignedInv
<1>5. SameAssignment(current[s], old_assign[a])
    BY <1>1, <1>3, Zenon DEF Superseded
<1>6. current[s] = old_assign[a]
    <2>1. <<s, current[s]>> = <<s, old_assign[a]>>
        BY <1>3, <1>4, <1>5, Zenon DEF IncarnationInv, IdentityInv
    <2> QED
        BY <2>1
<1>7. old_assign[a].worker_boot \in fenced_boots
    BY <1>1, <1>3 DEF IncarnationInv, RestartInv, AttemptInv, PastFencing
<1>8. ASSUME NEW c \in committed PROVE ~SameAssignment(c[2], new_assign[a])
    BY <1>1 DEF IncarnationInv, IdentityInv, Settled, SameAssignment
<1> QED
    BY <1>1, <1>2, <1>3, <1>4, <1>6, <1>7, <1>8

LEMMA IdentityNext ==
    ASSUME IncarnationInv, [Next]_vars
    PROVE  IdentityInv'
<1>1. TypeInv /\ IdentityInv /\ AssignedInv /\ assignment_counter \in Nat
    BY DEF IncarnationInv, RestartInv, TypeInv, TypeOK
<1> USE ConstantAssumption
<1>2. CASE UNCHANGED <<assignment_counter, committed>> /\ \A a \in Attempt : ~validate(a)
    <2>1. \A b \in Attempt : Running(b)' => Running(b) /\ new_assign'[b] = new_assign[b]
        BY <1>1, <1>2, RunningSteps
    <2>2. \A c : Settled(c) => Settled(c)'
        BY <1>2, <2>1 DEF Settled
    <2> QED
        BY <1>1, <1>2, <2>1, <2>2 DEF IdentityInv
<1>3. ASSUME NEW a \in Attempt, validate(a) PROVE IdentityInv'
    <2>1. /\ assignment_counter <= MaxAssignmentId
          /\ assignment_counter' = assignment_counter + 1
          /\ UNCHANGED committed
          /\ new_assign'[a].id = assignment_counter /\ new_assign'[a].generation = 2
        BY <1>1, <1>3 DEF validate, ghostVars, assignment_gen_counter, TypeInv, TypeOK
    <2>2. \A b \in Attempt \ {a} : Running(b)' => Running(b) /\ new_assign'[b] = new_assign[b]
        BY <1>1, <1>3, Zenon DEF validate, reach, Running, TypeInv, TypeOK
    <2>3. ASSUME NEW c \in committed PROVE Settled(c[2])'
        BY <1>1, <2>1, <2>2 DEF IdentityInv, Settled
    <2>4. ASSUME NEW b \in Attempt, Running(b)'
          PROVE  /\ new_assign'[b].generation = 2
                 /\ new_assign'[b].id \in 1 .. (assignment_counter' - 1)
                 /\ \A d \in Attempt \ {b} : Running(d)' => new_assign'[b].id # new_assign'[d].id
        BY <1>1, <2>1, <2>2, <2>4 DEF IdentityInv
    <2> QED
        BY <1>1, <2>1, <2>3, <2>4 DEF IdentityInv
<1>4. ASSUME NEW s \in Slot, NEW n \in Assignment, committed' = committed \cup {<<s, n>>},
             UNCHANGED assignment_counter, \A a \in Attempt : ~validate(a),
             \A c \in committed : c[1] = s => ~SameAssignment(c[2], n),
             Settled(n)'
      PROVE  IdentityInv'
    <2>1. \A b \in Attempt : Running(b)' => Running(b) /\ new_assign'[b] = new_assign[b]
        BY <1>1, <1>4, RunningSteps
    <2>2. \A c : Settled(c) => Settled(c)'
        BY <1>4, <2>1 DEF Settled
    <2>3. \A c \in committed' : Settled(c[2])'
        BY <1>1, <1>4, <2>2 DEF IdentityInv
    <2>4. \A c, d \in committed' : c[1] = d[1] /\ SameAssignment(c[2], d[2]) => c = d
        BY <1>1, <1>4 DEF IdentityInv, SameAssignment
    <2> QED
        BY <1>1, <1>4, <2>1, <2>3, <2>4 DEF IdentityInv
<1>5. ASSUME NEW s \in Slot, NEW b \in Boot, set_initial_assignment(s, b) PROVE IdentityInv'
    <2> DEFINE n == [id |-> 1, generation |-> 1, worker_boot |-> b, authority_generation |-> 1,
                     route_generation |-> 1, state |-> "ACTIVE"]
    <2>1. /\ n \in Assignment /\ n.id = 1 /\ n.generation = 1
          /\ committed' = committed \cup {<<s, n>>}
        BY <1>5 DEF set_initial_assignment, Assignment, AssignmentState
    <2> HIDE DEF n
    <2>2. \A c \in committed : c[1] # s
        BY <1>1, <1>5, Zenon DEF set_initial_assignment, AssignedInv
    <2>3. UNCHANGED assignment_counter /\ \A a \in Attempt : ~validate(a)
        BY <1>1, <1>5 DEF set_initial_assignment, validate
    <2> QED
        BY <1>4, <2>1, <2>2, <2>3 DEF Settled
<1>6. ASSUME NEW a \in Attempt, commit(a) PROVE IdentityInv'
    <2>0. /\ plan[a].slot \in Slot /\ Running(a) /\ new_assign[a] \in Assignment
          /\ \A c \in committed : ~SameAssignment(c[2], new_assign[a])
        BY <1>1, <1>6, CommitFacts, Zenon DEF TypeInv, TypeOK
    <2>1. PICK s \in Slot : s = plan[a].slot
        BY <2>0
    <2>2. PICK n \in Assignment : n = Activated(new_assign[a]) /\ SameAssignment(n, new_assign[a])
        BY <2>0, ActivatedFacts
    <2>3. committed' = committed \cup {<<s, n>>} /\ UNCHANGED assignment_counter /\ at'[a] = "idle"
        BY <1>1, <1>6, <2>1, <2>2, Zenon DEF commit, return, Activated, TypeInv, TypeOK
    <2>4. \A b \in Attempt : ~validate(b)
        BY <1>1, <2>3 DEF validate
    <2>5. \A b \in Attempt : Running(b)' =>
              b # a /\ Running(b) /\ new_assign'[b] = new_assign[b]
        BY <1>1, <2>3, <2>4, RunningSteps, Zenon DEF Running, CheckpointedMilestone
    <2>6. Settled(n)'
        BY <1>1, <2>0, <2>2, <2>3, <2>5 DEF IdentityInv, Settled, SameAssignment
    <2>7. \A c \in committed : c[1] = s => ~SameAssignment(c[2], n)
        BY <2>0, <2>2, Zenon DEF SameAssignment
    <2> QED
        BY Zenon, <1>4, <2>1, <2>2, <2>3, <2>4, <2>6, <2>7
<1>7. ASSUME NEW a \in Attempt, fence_old(a) PROVE IdentityInv'
    <2>1. UNCHANGED <<assignment_counter, committed>>
        BY <1>7 DEF fence_old, ghostVars
    <2> QED
        BY <1>1, <1>2, <2>1 DEF validate
<1>8. CASE UNCHANGED authorityVars
    BY <1>1, <1>2, <1>8 DEF authorityVars, validate
<1> QED
    BY <1>3, <1>5, <1>6, <1>7, <1>8, AuthorityFrame

-----------------------------------------------------------------------------
(* The inductive invariant of one incarnation.                             *)
LEMMA AssignedNext ==
    ASSUME IncarnationInv, [Next]_vars, ~PlanUnassigned
    PROVE  AssignedInv'
<1>1. TypeInv /\ TypeOK /\ MemoryInv /\ AssignedInv
    BY DEF IncarnationInv, RestartInv, TypeInv
<1>2. ASSUME NEW b \in Attempt, at'[b] = "planned" PROVE plan'[b].source_assignment # None
    BY <1>1, <1>2, PlannedSteps, Zenon DEF AssignedInv
<1>3. ASSUME \A s \in Slot : current[s] # None => current'[s] # None, committed \subseteq committed',
             NEW b \in Attempt, Running(b)', ~validate(b)
      PROVE  /\ current'[plan'[b].slot] # None /\ old_assign'[b] # None
             /\ <<plan'[b].slot, old_assign'[b]>> \in committed'
    BY <1>1, <1>3, RunningSteps, RunningTyped DEF AssignedInv, Running
<1>4. ASSUME UNCHANGED <<current, slot_index, committed>>, \A a \in Attempt : ~validate(a)
      PROVE  AssignedInv'
    BY <1>1, <1>2, <1>3, <1>4 DEF AssignedInv
<1>5. ASSUME NEW a \in Attempt, validate(a) PROVE AssignedInv'
    <2>1. /\ UNCHANGED <<current, slot_index, committed>>
          /\ plan' = plan /\ old_assign'[a] = current[plan[a].slot]
        BY <1>1, <1>5 DEF validate, slotVars, ghostVars, TypeOK
    <2>2. plan[a] \in FailoverPlan /\ plan[a].slot \in Slot /\ current[plan[a].slot] # None
        BY <1>1, <1>5, Zenon DEF validate, MayBeValid, AssignedInv, TypeInv, TypeOK, LocalsInv, FailoverPlan
    <2>3. <<plan[a].slot, current[plan[a].slot]>> \in committed
        BY <1>1, <2>2, ActivatedFacts DEF MemoryInv, AssignedInv, TypeOK
    <2>4. \A b \in Attempt \ {a} : ~validate(b)
        BY <1>1, <1>5 DEF validate, reach, TypeOK
    <2> QED
        BY <1>1, <1>2, <1>3, <2>1, <2>2, <2>3, <2>4 DEF AssignedInv
<1>6. ASSUME NEW s \in Slot, NEW n \in Assignment, n.state = "ACTIVE",
             current' = [current EXCEPT ![s] = n], committed' = committed \cup {<<s, n>>},
             s \in slot_index', slot_index \subseteq slot_index', \A a \in Attempt : ~validate(a)
      PROVE  AssignedInv'
    <2>1. \A t \in Slot : /\ t = s => current'[t] = n
                          /\ t # s => current'[t] = current[t]
        BY <1>1, <1>6 DEF TypeOK
    <2>2. n # None
        BY NoneAssumption
    <2>3. \A t \in Slot : current[t] # None => current'[t] # None
        BY <2>1, <2>2
    <2>4. \A b \in Attempt : Running(b)' =>
              /\ current'[plan'[b].slot] # None /\ old_assign'[b] # None
              /\ <<plan'[b].slot, old_assign'[b]>> \in committed'
        BY <1>3, <1>6, <2>3
    <2>5. \A t \in Slot : /\ current'[t] # None => current'[t].state = "ACTIVE" /\ t \in slot_index'
                          /\ current'[t] = None => (\A c \in committed' : c[1] # t)
        BY <1>1, <1>6, <2>1, <2>2 DEF AssignedInv
    <2> QED
        BY <1>2, <2>4, <2>5 DEF AssignedInv
<1>7. ASSUME NEW s \in Slot, NEW b \in Boot, set_initial_assignment(s, b) PROVE AssignedInv'
    <2> DEFINE n == [id |-> 1, generation |-> 1, worker_boot |-> b, authority_generation |-> 1,
                     route_generation |-> 1, state |-> "ACTIVE"]
    <2>1. /\ n \in Assignment /\ n.state = "ACTIVE" /\ current' = [current EXCEPT ![s] = n]
          /\ committed' = committed \cup {<<s, n>>} /\ slot_index' = slot_index \cup {s}
        BY <1>7 DEF set_initial_assignment, Assignment, AssignmentState
    <2>2. \A a \in Attempt : ~validate(a)
        BY <1>1, <1>7 DEF set_initial_assignment, validate, TypeOK
    <2> HIDE DEF n
    <2> QED
        BY Zenon, <1>6, <2>1, <2>2
<1>8. ASSUME NEW a \in Attempt, commit(a) PROVE AssignedInv'
    <2>1. /\ plan[a].slot \in Slot /\ plan[a].slot \in slot_index /\ new_assign[a] \in Assignment
        BY <1>1, <1>8, CommitFacts DEF TypeOK
    <2>2. PICK s \in Slot : s = plan[a].slot
        BY <2>1
    <2>3. PICK n \in Assignment : n = Activated(new_assign[a]) /\ n.state = "ACTIVE"
        BY <2>1, ActivatedFacts
    <2>4. /\ current' = [current EXCEPT ![s] = n] /\ committed' = committed \cup {<<s, n>>}
          /\ UNCHANGED <<slot_index, assignment_counter>>
        BY <1>8, <2>1, <2>2, <2>3 DEF commit, Activated
    <2>5. \A b \in Attempt : ~validate(b)
        BY <1>1, <2>4 DEF validate, TypeOK
    <2> QED
        BY Zenon, <1>6, <2>1, <2>2, <2>3, <2>4, <2>5
<1>9. ASSUME NEW a \in Attempt, fence_old(a) PROVE AssignedInv'
    <2>1. UNCHANGED <<current, slot_index, committed, assignment_counter>>
        BY <1>9 DEF fence_old, slotVars, ghostVars
    <2> QED
        BY <1>1, <1>4, <2>1 DEF validate, TypeOK
<1>10. CASE UNCHANGED authorityVars
    BY <1>1, <1>4, <1>10 DEF authorityVars, validate, TypeOK
<1> QED
    BY <1>5, <1>7, <1>8, <1>9, <1>10, AuthorityFrame

LEMMA RetiredNext ==
    ASSUME IncarnationInv, [Next]_vars
    PROVE  RetiredIsFenced'
<1>1. TypeOK /\ RetiredIsFenced
    BY DEF IncarnationInv, RestartInv, TypeInv
<1>2. CASE UNCHANGED history
    BY <1>1, <1>2, FencedGrows DEF RetiredIsFenced
<1>3. ASSUME NEW a \in Attempt, commit(a) PROVE RetiredIsFenced'
    <2>1. /\ plan[a].slot \in Slot /\ plan[a].slot \in slot_index
          /\ current[plan[a].slot] \in Assignment
          /\ current[plan[a].slot].worker_boot \in fenced_boots
        BY <1>1, <1>3, CommitFacts, Zenon DEF TypeOK
    <2>2. \A h \in Retired(a) : h.worker_boot \in fenced_boots
        BY <2>1, NoneAssumption DEF Retired, Assignment
    <2>3. history' = [history EXCEPT ![plan[a].slot] = @ \cup Retired(a)]
        BY <1>3, <2>1 DEF commit
    <2> QED
        BY <1>1, <2>1, <2>2, <2>3, FencedGrows, Zenon DEF RetiredIsFenced, TypeOK
<1>4. CASE \E s \in Slot, b \in Boot : set_initial_assignment(s, b)
    BY <1>2, <1>4 DEF set_initial_assignment
<1>5. CASE \E a \in Attempt : validate(a) \/ fence_old(a)
    BY <1>2, <1>5, Zenon DEF validate, fence_old, slotVars
<1>6. CASE UNCHANGED authorityVars
    BY <1>2, <1>6 DEF authorityVars
<1> QED
    BY <1>3, <1>4, <1>5, <1>6, AuthorityFrame

(* IncarnationInv holds throughout one incarnation.                        *)
THEOREM IncarnationInvariant == ~PlanUnassigned /\ IncarnationSpec => []IncarnationInv
<1> SUFFICES ASSUME ~PlanUnassigned PROVE IncarnationSpec => []IncarnationInv
    OBVIOUS
<1>1. Init => IncarnationInv
    <2> SUFFICES ASSUME Init PROVE IdentityInv /\ AssignedInv /\ RetiredIsFenced
        BY InitRestartInv DEF IncarnationInv
    <2> QED
        BY ConstantAssumption DEF Init, IdentityInv, AssignedInv, RetiredIsFenced, Running,
            CheckpointedMilestone
<1>2. IncarnationInv /\ [Next]_vars => IncarnationInv'
    BY RestartNext, IdentityNext, AssignedNext, RetiredNext DEF IncarnationInv
<1> QED
    BY <1>1, <1>2, PTL DEF IncarnationSpec

(* The boot of every assignment that execute_plan has retired stays        *)
(* fenced: an assignment that lost authority can never serve again.        *)
THEOREM RetiredFenced == ~PlanUnassigned /\ IncarnationSpec => []RetiredIsFenced
<1>1. IncarnationInv => RetiredIsFenced
    BY DEF IncarnationInv
<1> QED
    BY <1>1, IncarnationInvariant, PTL

(* The supersession guard is enough: an attempt commits only over the very *)
(* assignment that it found and fenced.                                    *)
THEOREM Supersession == ~PlanUnassigned /\ IncarnationSpec => CommitsOverItsSource
<1>1. IncarnationInv /\ [Next]_vars =>
          [\A a \in Attempt : commit(a) => current[plan[a].slot] = old_assign[a]]_vars
    BY CommitFacts
<1> QED
    BY <1>1, IncarnationInvariant, PTL DEF IncarnationSpec, CommitsOverItsSource

-----------------------------------------------------------------------------
(* Refinement.                                                             *)

(* The value of holder, and that it is carried over when a slot keeps its  *)
(* current assignment and nothing more is fenced.                          *)
Held(c, F) ==
    IF c # None /\ c.state = "ACTIVE" /\ c.worker_boot \notin F THEN Key(c) ELSE None

LEMMA HolderIs == holder = [s \in Slot |-> Held(current[s], fenced_boots)]
BY DEF holder, Held

LEMMA HolderBecomes == holder' = [s \in Slot |-> Held(current'[s], fenced_boots')]
BY DEF holder, Held

(* Recording one more assignment of a slot spends its key. *)
LEMMA SpentBecomes ==
    ASSUME TypeOK, NEW s \in Slot, NEW n \in Assignment, committed' = committed \cup {<<s, n>>}
    PROVE  spent' = [spent EXCEPT ![s] = @ \cup {Key(n)}]
<1>1. spent \in [Slot -> SUBSET {Key(c[2]) : c \in committed}]
    BY DEF spent
<1>2. ASSUME NEW t \in Slot, t # s PROVE spent'[t] = spent[t]
    BY <1>2 DEF spent
<1>3. spent'[s] = spent[s] \cup {Key(n)}
    <2>1. {d \in committed' : d[1] = s} = {d \in committed : d[1] = s} \cup {<<s, n>>}
        OBVIOUS
    <2>2. spent'[s] = {Key(c[2]) : c \in {d \in committed' : d[1] = s}}
        BY DEF spent
    <2>3. spent[s] = {Key(c[2]) : c \in {d \in committed : d[1] = s}}
        BY DEF spent
    <2>4. <<s, n>>[2] = n
        OBVIOUS
    <2> QED
        BY Zenon, <2>1, <2>2, <2>3, <2>4
<1> QED
    BY <1>1, <1>2, <1>3, Zenon DEF spent

(* One more assignment of a slot that nobody holds is granted authority,   *)
(* or is fenced already and wasted.                                        *)
LEMMA GrantOrWaste ==
    ASSUME TypeOK, NEW s \in Slot, NEW n \in Assignment, n.state = "ACTIVE",
           Key(n) \in KeySet, Key(n) \notin spent[s], holder[s] = None,
           current' = [current EXCEPT ![s] = n], UNCHANGED fenced_boots,
           committed' = committed \cup {<<s, n>>}
    PROVE  Authority!Next
<1>1. spent' = [spent EXCEPT ![s] = @ \cup {Key(n)}]
    BY SpentBecomes
<1>2. holder' = [holder EXCEPT ![s] = Held(n, fenced_boots)]
    BY HolderIs, HolderBecomes, Zenon DEF TypeOK
<1>3. CASE n.worker_boot \in fenced_boots
    <2>1. holder' = holder
        BY <1>2, <1>3, HolderIs, Zenon DEF Held
    <2> QED
        BY <1>1, <2>1, Zenon DEF Authority!Next, Authority!Waste
<1>4. CASE n.worker_boot \notin fenced_boots
    <2>1. holder' = [holder EXCEPT ![s] = Key(n)]
        BY <1>2, <1>4, NoneAssumption, Zenon DEF Held
    <2> QED
        BY <1>1, <2>1, Zenon DEF Authority!Next, Authority!Grant
<1> QED
    BY <1>3, <1>4

(* Every step of the fabric is a step of ExclusiveAuthority or a stutter.  *)
LEMMA AuthorityStep ==
    ASSUME IncarnationInv, [Next]_vars
    PROVE  [Authority!Next]_Authority!vars
<1>1. TypeOK /\ TypeInv /\ IdentityInv /\ AssignedInv
    BY DEF IncarnationInv, RestartInv, TypeInv
<1>2. ASSUME NEW s \in Slot, NEW b \in Boot, set_initial_assignment(s, b)
      PROVE  Authority!Next
    <2> DEFINE n == [id |-> 1, generation |-> 1, worker_boot |-> b, authority_generation |-> 1,
                     route_generation |-> 1, state |-> "ACTIVE"]
    <2>1. /\ n \in Assignment /\ n.state = "ACTIVE" /\ Key(n) = <<1, 1>>
          /\ current' = [current EXCEPT ![s] = n] /\ UNCHANGED fenced_boots
          /\ committed' = committed \cup {<<s, n>>} /\ current[s] = None
        BY <1>2, Zenon DEF set_initial_assignment, Assignment, AssignmentState, Key
    <2> HIDE DEF n
    <2>2. \A c \in committed : c[1] # s
        BY <1>1, <2>1, Zenon DEF AssignedInv
    <2>3. spent[s] = {}
        BY <2>2 DEF spent
    <2>4. holder[s] = None
        BY <2>1, Zenon DEF holder
    <2> QED
        BY <1>1, <2>1, <2>3, <2>4, GrantOrWaste, Zenon DEF KeySet
<1>3. ASSUME NEW a \in Attempt, commit(a) PROVE Authority!Next
    <2>1. /\ Running(a)
          /\ plan[a].slot \in Slot /\ plan[a].slot \in slot_index /\ new_assign[a] \in Assignment
          /\ current[plan[a].slot] = old_assign[a]
          /\ old_assign[a].worker_boot \in fenced_boots
          /\ \A c \in committed : ~SameAssignment(c[2], new_assign[a])
        BY <1>1, <1>3, CommitFacts, Zenon DEF TypeOK
    <2>2. PICK s \in Slot : s = plan[a].slot
        BY Zenon, <2>1
    <2>3. PICK n \in Assignment : /\ n = Activated(new_assign[a]) /\ n.state = "ACTIVE"
                                  /\ SameAssignment(n, new_assign[a])
        BY <2>1, ActivatedFacts
    <2>4. /\ current' = [current EXCEPT ![s] = n] /\ committed' = committed \cup {<<s, n>>}
          /\ UNCHANGED fenced_boots
        BY <1>3, <2>1, <2>2, <2>3 DEF commit, Activated
    <2>5. holder[s] = None
        BY <2>1, <2>2, Zenon DEF holder
    <2>6. Key(n) \in KeySet
        <3>1. n.generation = 2 /\ n.id \in 1 .. MaxAssignmentId
            BY <1>1, <2>1, <2>3, ConstantAssumption DEF IdentityInv, SameAssignment
        <3> QED
            BY <3>1 DEF Key, KeySet
    <2>7. Key(n) \notin spent[s]
        <3>1. ASSUME NEW c \in committed PROVE Key(c[2]) # Key(n)
            BY <2>1, <2>3 DEF Key, SameAssignment
        <3> QED
            BY <3>1 DEF spent
    <2> QED
        BY Zenon, <1>1, <2>3, <2>4, <2>5, <2>6, <2>7, GrantOrWaste
<1>4. ASSUME NEW a \in Attempt, fence_old(a) PROVE Authority!Next
    <2> DEFINE S == {s \in Slot : holder'[s] = None}
    <2>1. UNCHANGED <<current, committed>> /\ fenced_boots \subseteq fenced_boots'
        BY <1>4 DEF fence_old, slotVars, ghostVars
    <2>2. UNCHANGED spent
        BY <2>1 DEF spent
    <2>3. ASSUME NEW s \in Slot PROVE holder'[s] = None \/ holder'[s] = holder[s]
        BY <2>1, HolderIs, HolderBecomes, Zenon DEF Held
    <2>4. holder' = [s \in Slot |-> IF s \in S THEN None ELSE holder[s]]
        BY <2>3, HolderBecomes
    <2>5. S \in SUBSET Slot
        OBVIOUS
    <2> HIDE DEF S
    <2> QED
        BY <2>2, <2>4, <2>5 DEF Authority!Next, Authority!Revoke
<1>5. ASSUME UNCHANGED <<current, fenced_boots, committed>> PROVE UNCHANGED Authority!vars
    BY <1>5 DEF Authority!vars, holder, spent
<1>6. CASE \E a \in Attempt : validate(a)
    BY <1>5, <1>6, Zenon DEF validate, slotVars, ghostVars
<1>7. CASE UNCHANGED authorityVars
    BY <1>5, <1>7 DEF authorityVars
<1> QED
    BY <1>2, <1>3, <1>4, <1>6, <1>7, AuthorityFrame

(* The fabric implements ExclusiveAuthority: with any number of concurrent *)
(* attempts, failing at any milestone, a slot is handed over only after    *)
(* its holder was fenced and to an assignment that never held it before.   *)
THEOREM Refinement == ~PlanUnassigned /\ IncarnationSpec => RefinesExclusiveAuthority
<1>1. Init => Authority!Init
    BY DEF Init, Authority!Init, holder, spent
<1>2. IncarnationInv /\ [Next]_vars => [Authority!Next]_Authority!vars
    BY AuthorityStep
<1> QED
    BY <1>1, <1>2, IncarnationInvariant, PTL
    DEF IncarnationSpec, RefinesExclusiveAuthority, Authority!Spec
===============================================================================
