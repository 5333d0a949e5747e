--------------------------- MODULE FabricInvariants ---------------------------
(***************************************************************************)
(* The inductive invariants from which FabricProofs, AuthorityProofs and   *)
(* CutoverProofs derive the properties of FabricProperties.                *)
(***************************************************************************)
EXTENDS FabricProperties

(* What an attempt has in its locals, so that its next step is typed. *)
LocalsInv ==
    \A a \in Attempt :
        /\ at[a] # "idle" => plan[a] # None
        /\ at[a] \in CheckpointedMilestone => new_assign[a] # None
        /\ step[a] # "record" => at[a] \in CheckpointedMilestone

TypeInv == TypeOK /\ LocalsInv

(* The assignments and routes in memory. *)
MemoryInv ==
    \A s \in Slot :
        /\ current[s] # None =>
              /\ current[s].state \in {"ACTIVE", "REVALIDATION_REQUIRED"}
              /\ <<s, Activated(current[s])>> \in committed
              /\ RouteCovers(routes[s], current[s])
        /\ \A a \in unindexed[s] : <<s, a>> \in committed /\ RouteCovers(routes[s], a)
        /\ \A a \in history[s] : a.state # "ACTIVE"
        /\ routes[s] # None => routes[s].epoch <= epoch

(* The same for a snapshot d, taken or written, with C committed so far. *)
SnapshotOK(d, C) ==
    \A s \in Slot :
        /\ \A a \in ActiveIn(d, s) : <<s, a>> \in C /\ RouteCovers(d.routes[s], a)
        /\ d.routes[s] # None => d.routes[s].epoch <= d.epoch

SnapshotInv ==
    /\ disk # None => SnapshotOK(disk, committed)
    /\ \A p \in Attempt \cup Saver : snap[p] # None => SnapshotOK(snap[p], committed)

(* What a running attempt has established. *)
AttemptInv ==
    \A a \in Attempt :
        /\ at[a] \in PastFencing /\ old_assign[a] # None =>
              old_assign[a].worker_boot \in fenced_boots
        /\ at[a] = "ROUTE_INSTALLED" => RouteCovers(routes[plan[a].slot], new_assign[a])

(* A slot without fresh evidence still has what the restart gave it, every *)
(* attempt on it started from that, and a route acknowledged by such an    *)
(* attempt found the old worker fenced.                                    *)
StaleSlotInv ==
    \A s \in Slot \ fresh :
        /\ \A a \in Attempt :
              at[a] \in CheckpointedMilestone /\ plan[a].slot = s => old_assign[a] = current[s]
        /\ routes[s] # None /\ routes[s].state = "ACKNOWLEDGED" /\ current[s] # None =>
              current[s].worker_boot \in fenced_boots

(* What the record claims, in memory and in every snapshot.                *)
RecordInv ==
    /\ RecordedMilestoneHolds
    /\ \A p \in Attempt \cup Saver :
          snap[p] # None => MilestoneHolds(snap[p].txn, snap[p].fenced_boots, snap[p].routes)

RestartInv == TypeInv /\ MemoryInv /\ SnapshotInv /\ AttemptInv /\ StaleSlotInv

-----------------------------------------------------------------------------
(* One incarnation with slots that are assigned before they fail over.     *)

Running(a) == at[a] \in CheckpointedMilestone

(* An assignment that became current is the first one of its slot, or one  *)
(* that an attempt minted which is not running any more.                   *)
Settled(c) ==
    \/ c.generation = 1 /\ c.id = 1
    \/ /\ c.generation = 2
       /\ c.id \in 1 .. (assignment_counter - 1)
       /\ \A b \in Attempt : Running(b) => new_assign[b].id # c.id

(* Identities are not shared: not between the replacements of running      *)
(* attempts, nor with an assignment that became current.                   *)
IdentityInv ==
    /\ assignment_counter \in 1 .. (MaxAssignmentId + 1)
    /\ \A c \in committed : Settled(c[2])
    /\ \A c, d \in committed : c[1] = d[1] /\ SameAssignment(c[2], d[2]) => c = d
    /\ \A a \in Attempt : Running(a) =>
          /\ new_assign[a].generation = 2
          /\ new_assign[a].id \in 1 .. (assignment_counter - 1)
          /\ \A b \in Attempt \ {a} : Running(b) => new_assign[a].id # new_assign[b].id

(* Every slot that has been assigned is indexed and stays assigned, and    *)
(* attempts are made on such slots only.                                   *)
AssignedInv ==
    /\ \A s \in Slot :
          /\ current[s] # None => current[s].state = "ACTIVE" /\ s \in slot_index
          /\ current[s] = None => (\A c \in committed : c[1] # s)
    /\ \A a \in Attempt :
          /\ at[a] = "planned" => plan[a].source_assignment # None
          /\ Running(a) =>
                /\ current[plan[a].slot] # None
                /\ old_assign[a] # None
                /\ <<plan[a].slot, old_assign[a]>> \in committed

IncarnationInv == RestartInv /\ IdentityInv /\ AssignedInv /\ RetiredIsFenced

-----------------------------------------------------------------------------
(* One attempt at a time, through any number of incarnations.              *)

SoleAttempt == \A a, b \in Attempt : a = b

(* The fencing of the source is in the snapshot that checkpoint() writes,  *)
(* and in the file once the fencing checkpoint has been written.           *)
DurableInv ==
    \A a \in Attempt :
        Checkpointing /\ old_assign[a] # None =>
            /\ at[a] \in PastFencing /\ step[a] = "write" =>
                  snap[a] # None /\ old_assign[a].worker_boot \in snap[a].fenced_boots
            /\ \/ at[a] = "OLD_ADMISSION_FENCED" /\ step[a] \in {"saved", "passed"}
               \/ at[a] \in {"ACTIVATION_ACKNOWLEDGED", "ROUTE_INSTALLED"}
               => disk # None /\ old_assign[a].worker_boot \in disk.fenced_boots

(* Generations of routes and of what became current start at one.          *)
PositiveRoutes(R) == \A s \in Slot : R[s] # None => R[s].generation > 0

PositiveInv ==
    /\ \A c \in committed : c[2].route_generation > 0
    /\ PositiveRoutes(routes)
    /\ disk # None => PositiveRoutes(disk.routes)
    /\ \A p \in Attempt \cup Saver : snap[p] # None => PositiveRoutes(snap[p].routes)

(* The route of the attempt is newer than every other route of the slot,   *)
(* those that REGISTER installs meanwhile included, until it is installed; *)
(* from then on it is the one in the table.                                *)
HasOwnRoute(a) ==
    LET r == routes[plan[a].slot]
    IN  /\ at[a] # "idle" => plan[a].requested_route_generation > 1
        /\ at[a] \notin {"idle", "ROUTE_INSTALLED"} /\ r # None =>
              r.generation < plan[a].requested_route_generation
        /\ Running(a) => new_assign[a].route_generation = plan[a].requested_route_generation
        /\ at[a] = "ROUTE_INSTALLED" =>
              /\ r # None
              /\ r.generation = new_assign[a].route_generation
              /\ r.assignment = new_assign[a].id
              /\ r.permitted_boot = new_assign[a].worker_boot

OwnRouteInv == \A a \in Attempt : HasOwnRoute(a)

-----------------------------------------------------------------------------
(* Attempts on assigned slots only, through any number of incarnations: no *)
(* SlotState is ever outside slot_index, so a snapshot has one ACTIVE      *)
(* assignment of a slot, its current one.                                  *)
IndexedInv ==
    /\ \A s \in Slot :
          /\ unindexed[s] = {}
          /\ current[s] # None => s \in slot_index
    /\ \A a \in Attempt : at[a] # "idle" => plan[a].slot \in slot_index

LoadsInv ==
    /\ disk # None => decodes(disk)
    /\ \A p \in Attempt \cup Saver : snap[p] # None => decodes(snap[p])
===============================================================================
