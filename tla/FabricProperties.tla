--------------------------- MODULE FabricProperties ---------------------------
(***************************************************************************)
(* What the authority core must guarantee.                                 *)
(***************************************************************************)
EXTENDS Fabric

Key(a) == <<a.id, a.generation>>

Activated(a) == [a EXCEPT !.state = "ACTIVE"]

-----------------------------------------------------------------------------
(* Properties of any number of incarnations.                               *)

(* "The pending replacement is never silently promoted": whatever a slot   *)
(* holds as current, in memory or as ACTIVE in the file, went through      *)
(* set_initial_assignment or through the verified commit of execute_plan,  *)
(* also after crashes at any point of a cutover.                           *)
OnlyCommittedIsCurrent ==
    /\ \A s \in Slot : current[s] # None => <<s, Activated(current[s])>> \in committed
    /\ disk # None =>
          \A s \in Slot : \A a \in ActiveIn(disk, s) : <<s, a>> \in committed

(* The route table is never behind the assignment it serves: a committed   *)
(* failover has a route entry of at least its route generation, although   *)
(* execute_plan ignores whether RouteTable::install accepted the entry.    *)
RouteNotBehindAssignment ==
    \A s \in Slot :
        current[s] # None /\ current[s].route_generation > 1 =>
            /\ routes[s] # None
            /\ routes[s].generation >= current[s].route_generation

(* An attempt that has gone past fencing runs with the boot of the         *)
(* assignment it replaces fenced, whatever other attempts do meanwhile.    *)
PastFencing == {"OLD_ADMISSION_FENCED", "ACTIVATION_ACKNOWLEDGED", "ROUTE_INSTALLED"}

SourceFencedDuringCutover ==
    \A a \in Attempt :
        at[a] \in PastFencing /\ old_assign[a] # None =>
            old_assign[a].worker_boot \in fenced_boots

(* The route r is not behind the assignment a. *)
RouteCovers(r, a) ==
    a.route_generation > 1 => r # None /\ r.generation >= a.route_generation

(* What the milestone of a transaction record t claims, of fenced boots B  *)
(* and routes R.                                                           *)
MilestoneHolds(t, B, R) ==
    t # None =>
        /\ t.milestone \in PastFencing /\ t.source_assignment # None =>
              t.source_assignment.worker_boot \in B
        /\ t.milestone = "ROUTE_INSTALLED" => RouteCovers(R[t.slot], t.pending_assignment)

(* "Milestones are recorded so a restart can distinguish" how far a cutover *)
(* came: what the recorded milestone claims is true of the state it stands *)
(* in, in memory and in the file.  Past fencing the recorded source is     *)
(* fenced, and with ROUTE_INSTALLED the route table has reached the        *)
(* pending route; also when the record is one attempt's, the snapshot was  *)
(* taken by another, and the file is loaded by a later incarnation.        *)
RecordedMilestoneHolds ==
    /\ MilestoneHolds(txn, fenced_boots, routes)
    /\ disk # None => MilestoneHolds(disk.txn, disk.fenced_boots, disk.routes)

(* Conservative restart: a slot that has a route is dispatched to only on  *)
(* evidence obtained since the restart (a commit, a first assignment or a  *)
(* newly acknowledged route), never on what the file said.                 *)
RoutedDispatchNeedsFreshEvidence ==
    \A s \in Slot :
        /\ current[s] # None
        /\ dispatch_allowed(s, make_auth(epoch, current[s]))
        /\ routes[s] # None
        => s \in fresh

-----------------------------------------------------------------------------
(* Properties of one incarnation whose slots are assigned before they are  *)
(* failed over, as the REGISTER handler does it.                           *)

(* An assignment that left authority through execute_plan can never serve  *)
(* again: its worker boot is fenced.                                       *)
RetiredIsFenced ==
    \A s \in Slot : \A h \in history[s] : h.worker_boot \in fenced_boots

(* The holder of a slot is the assignment that the gate accepts. *)
holder ==
    [s \in Slot |->
        IF /\ current[s] # None
           /\ current[s].state = "ACTIVE"
           /\ current[s].worker_boot \notin fenced_boots
        THEN Key(current[s]) ELSE None]

spent == [s \in Slot |-> {Key(c[2]) : c \in {d \in committed : d[1] = s}}]

(* The identities one incarnation can give out. *)
KeySet == {<<1, 1>>} \cup ((1 .. MaxAssignmentId) \X {2})

Authority == INSTANCE ExclusiveAuthority
    WITH Assignment <- KeySet, Nobody <- None, holder <- holder, spent <- spent

(* Concurrent attempts, failures at any milestone and barriers included,   *)
(* the fabric hands over a slot only after its holder was fenced, to an    *)
(* assignment that never held it before.                                   *)
RefinesExclusiveAuthority == Authority!Spec

(* Supersession: an attempt commits only over the very assignment that it  *)
(* found when it began and has fenced since; "a competing attempt that     *)
(* would clear a newer attempt's authority is superseded rather than       *)
(* committed".                                                             *)
CommitsOverItsSource ==
    [][\A a \in Attempt : commit(a) => current[plan[a].slot] = old_assign[a]]_vars

-----------------------------------------------------------------------------
(* Properties of the files that save() leaves behind.                      *)

(* The file that save() wrote passes the check on which decode() would     *)
(* refuse it for its contents: it does not hold two ACTIVE assignments of  *)
(* one slot, whatever retired, unindexed or half-committed state it was    *)
(* taken from.                                                             *)
SavedFileLoads == disk # None => decodes(disk)

(* Durable ordering: a replacement is activated only when the fencing of   *)
(* the worker it replaces is in the file.                                  *)
FenceDurableBeforeActivation ==
    \A a \in Attempt :
        /\ Checkpointing
        /\ at[a] \in {"ACTIVATION_ACKNOWLEDGED", "ROUTE_INSTALLED"}
        /\ old_assign[a] # None
        => disk # None /\ old_assign[a].worker_boot \in disk.fenced_boots

(* Verified recovery commits an assignment together with its route: when   *)
(* an attempt commits, the route table names the committed assignment.     *)
CommitsWithItsRoute ==
    [][\A a \in Attempt : commit(a) =>
          LET r == routes[plan[a].slot]
          IN  /\ r # None
              /\ r.assignment = new_assign[a].id
              /\ r.permitted_boot = new_assign[a].worker_boot]_vars
===============================================================================
