# A TLA+ model of Failover Fabric

Failover Fabric decides which worker may serve an exclusive service slot, and
moves that authority from one worker to another through a transaction with
durable milestones. This directory holds TLA+ models of its parts, the TLC
configurations that check them on small instances, and theorems about them, for
every number of slots, workers, attempts, callers and handlers, that TLAPS
checks.

Paths below are relative to the repository root. `fabric.cpp` is
`src/coordinator/fabric.cpp`, `coordinator_main.cpp` is beside it.

## 1. The system

| part | state | operations that change it | module |
|---|---|---|---|
| Authority core (`fabric.cpp`) | slots with a current assignment and a history, fenced worker boots, counters, epoch | `set_initial_assignment`, `execute_plan` | `Fabric` |
| Cutover transaction (`fabric.cpp:459-651`) | record of the transaction, barrier, locals of each attempt | checkpoint, fence, activate, install route, verify, commit; failure and barrier returns | `Fabric` |
| Route table (`src/routing/route.cpp`) | one entry per slot | `install`, revalidation | `Fabric`, `Serving` |
| Dispatch gate (`fabric.cpp:807-841`) | none | decides on dispatches and results | `Fabric`, `Serving` |
| Persistence (`src/persistence/persistence.cpp`) | the file and its temporary | encode, decode, `save_file`, `load_file`; `save` and `load` of the fabric | `SnapshotCodec`, `SnapshotFile`; `Fabric` |
| Coordinator process (`coordinator_main.cpp`) | peers, connections | one handler per message, each on its connection's thread; start and restart | `Serving`, `Planner`, `Fabric` |
| Gateway (`src/gateway/gateway_main.cpp`) | its route map | install, verify, serve a client | `Serving` |
| Worker (`src/worker/worker_main.cpp`) | active flag | activate, fence, execute, reconnect | `Serving` |
| Request tracker (`src/recovery/request.cpp`) | disposition of each request | record, mark unknown | `Serving` |
| Connection (`src/net/conn.hpp`) | pending requests by message id | request, reader thread, shutdown | `Conn` |
| Candidates and readiness (`fabric.cpp:250-316`) | registered targets, facts, state, resources, readiness window | register, publish | `Planner` |
| Failure evidence (`src/failure/evidence.cpp`) | events by receipt order, confirmed-failed targets | publish, clear | `Planner` |
| Selection and domains (`src/selection`, `src/domains`) | domain graph | declare, set membership; eligibility and ranking of a snapshot | `Selection`, `Planner` |
| Failback (`fabric.cpp:655-755`) | authorization, last transition, attempt budget | `authorize_failback`, `execute_failback` | `Planner` |

The parts meet in `execute_plan`. An `EXECUTE_FAILOVER` message makes the
coordinator plan (a snapshot, the selection engine) and execute: the attempt
takes the fabric's mutex for short regions and lets go of it around every call
that leaves the process (fence and activate the workers, install the route at
the gateway, verify through it) and around every write of the checkpoint file.
Between these regions other attempts, publications, SAVE requests, clients and a
crash can happen. Each call that leaves the process is a `Conn::request`, and a
client's request takes the way gateway, coordinator, worker, coordinator.

The models cut the system along these seams. `Fabric` has all of the cutover and
its durability, and takes every answer of the outside as possible. `Serving` has
the three processes and their messages, with a cutover reduced to what they see.
`Planner` has what decides on a plan, with a cutover reduced to its validation,
its fence and its end. `Conn` shows for one connection what `Serving` assumes of
all: a request is answered or fails with its connection. `SnapshotFile` shows
for one path what `Fabric` assumes: a file is one that was saved, or none.

`PROJECT.json` lists the hazards with their lines and the properties that cover
them.

## 2. The modules

### `Fabric`, with `FabricProperties`, `FabricInvariants`, `ExclusiveAuthority`

Every action is one region that the code runs under the mutex, or one look at
shared state outside it.

| action | code |
|---|---|
| `set_initial_assignment`, `install_route` | the REGISTER handler and the fabric calls it makes |
| `plan_failover` | `plan_failover_pref`, 429-455 |
| `validate`, `reject` | first locked region of `execute_plan`, 484-543 |
| `checkpoint`, `save_snapshot`, `save_file`, `save_throws`, `interrupted`, `not_interrupted` | the `checkpoint` lambda 471-483 and `save` 893-917; the barrier is looked at in a step of its own, without the lock |
| `fence_old`, `activate`, `cutover_route` | 552-609, the region after each external call |
| `operation_fails` | the `FAILED` and `RECOVERY_REQUIRED` returns after an external call |
| `superseded`, `commit` | 616-651 |
| `save_request`, `save_request_file`, `save_request_throws` | the SAVE handler |
| `restart` | `load` 919-968 and the epoch of `main`; everything in memory is lost |
| `set_cutover_barrier`, `clear_cutover_barrier` | 760-767, called around attempts by the EXECUTE_FAILOVER handler |

An assignment keeps id, generation, worker boot, authority and route generation
and state; a route keeps what the gate and `install` read. A worker is named by
its boot, and `TargetOf` says of which target it is an incarnation. Choices that
need a reason:

- *Published evidence is nondeterministic.* Any boot that is not of the failed
  target and not fenced may be planned, and `reject` is always possible: more
  behaviours than the code has, so what holds here holds whatever is published
  and however candidates are ranked. `Planner` has the real choice.
- *Slots without an index entry.* When `execute_plan` finds no `SlotState` it
  appends one that `slot_index` does not know (622). `unindexed` holds the
  assignments in such places: invisible to every lookup and yet saved.
  `PlanUnassigned` says whether callers plan for slots that have none.
- *History variables*: `committed` and `fresh` record what became current and
  which slots had evidence since the last restart. No guard reads them.
- *Writing the file* is one step that succeeds or leaves the file as it was;
  `SnapshotFile` has the steps.

`ExclusiveAuthority` is the abstract promise: a holder and spent identities per
slot, with Grant, Waste and Revoke. `FabricProperties` has the properties and
the refinement mapping, `FabricInvariants` the inductive invariants.

### `SnapshotCodec` and `SnapshotFile`

`SnapshotCodec` translates every writer and reader of `persistence.cpp`, field
by field in the order of the code, with counts, optionals, ranges of
enumerators, magic, version, length and checksum, and the final check for two
ACTIVE assignments. A word stands for one encoded value. The three words of a
`CoordinatorEpoch` are read by the arguments of one constructor call (213, 218),
whose order C++ leaves to the build: `ArgumentsInOrder` says which it is, here
and in `Fabric`.

`SnapshotFile` runs `save_file` in its steps (open and truncate the temporary,
write in two pieces, flush and close, remove the path, rename) for several
threads that share one temporary, with every step failing, a reader between any
two of them, and a crash of the process. A file outlives its name, and a name
its process. The file operations allow what POSIX and what Windows do. The
format is a parameter (`Encode`, `Decode`, `ValidSnapshot`): the run gives it
`SnapshotCodec`, the theorems hold for any.

### `Conn`

Callers, the reader thread and `shutdown` as threads, one action per locked
region or unlocked look at `dead_` and `s_`. The peer answers each request once,
sends frames of its own (also ones that are too short to be decoded) and closes.
Frames that nobody will read any more are not kept.

### `Serving`

One service with one slot. Worker processes with their control thread and their
listening thread, the gateway with its control thread and client threads, and
the handlers of REGISTER, EXECUTE_FAILOVER, HELLO, PUBLISH_READINESS,
AUTHORIZE_REQUEST and AUTHORIZE_RESULT, over queues of messages. AUTHORIZE_REQUEST
reads the assignment, checks the request's record and makes the new one in three
steps, as it does under three locks; the gateway keeps its own calls apart
(`rpc_free`), and a handler whose gateway dies runs on without it (`orphan`).
Workers and gateways die and are replaced, a worker closes its control connection and
reconnects with the same boot while it stays active, a worker withholds its
acknowledgment or its response. The HELLO handler of a gateway registers it,
reads the route and sends it in three steps, as the code does.

### `Selection` and `Planner`

`Selection` has the pure parts: domain closure and overlap, eligibility, the
score and the order of candidates. Scores are exact, in millionths, as the code
rounds them. `Planner` has the state they work on and one action per locked
region: PUBLISH_READINESS is four of them, run by any number of connections, also
for the same target (`Publisher`), EXECUTE_FAILOVER plans and validates
in two, REQUEST_FAILBACK evaluates, plans, executes and counts in separate ones.
Reports are ordered by number and, among equal numbers, by the clock, as `publish`
compares them. The domain registry has no lock: no thread of the coordinator
declares domains, and a program that embeds the fabric must not while a thread
plans, so that a declaration is a step.
History variables `steady` and `newest` record since when a target has been
ready without a break and the newest failure reported of an event.

`MCFabric`, `MCSnapshotFile`, `MCConn`, `MCServing` and `MCPlanner` are the
instances for TLC. The theorems are in `FabricProofs`, `AuthorityProofs` and
`CutoverProofs` (which extend the first), `SnapshotFileProofs`, `ConnProofs`,
`ServingProofs`, `SelectionProofs` and `PlannerProofs` (which extends it). The
inductive invariants of `Fabric` and `Serving` have modules of their own,
`FabricInvariants` and `ServingInvariants`.

## 3. What TLC checks

| run | instance | distinct states |
|---|---|---|
| `incarnation` | 2 slots, 3 boots, 2 attempts, 2 replacements | 110,065 |
| `restart_race` | 1 slot, 3 boots, 2 checkpointing attempts, 1 restart | 1,252,544 |
| `restart_saver` | 1 slot, 3 boots, 1 attempt, 1 saver, 2 barriers, 1 restart | 355,275 |
| `single_writer` | 1 slot, 3 boots of 2 targets, 1 checkpointing attempt, unassigned slots, 1 restart | 61,375 |
| `snapshot_file` | 2 savers, 3 snapshots, 3 saves, a reader, crashes | 61,249 |
| `conn` | 3 callers, one of them twice, 2 places for pending requests, 1 frame of the peer | 128,585 |
| `serving` | 3 workers of 2 targets, 2 gateways, 1 client sending twice, 1 failover | 245,904 |
| `selection` | 3 targets, 2 of them candidates with 2 workers each, 2 connections that publish, 2 domains, 3 reports of 1 event | 211,440 |
| `failback` | 2 targets, 3 workers, 2 handlers, 2 cutovers, clock up to 2 | 1,090,101 |

- `incarnation`: racing attempts refine `ExclusiveAuthority`, the loser is
  superseded (`CommitsOverItsSource`), and whoever lost authority is fenced
  (`RetiredIsFenced`, `SourceFencedDuringCutover`). The two slots are served by
  the same workers: a fence on behalf of one takes the other's authority away
  too, which the abstract `Revoke` of a set of slots expresses.
- `restart_race`: the coordinator crashes at every step of two racing
  checkpointed cutovers. Nothing uncommitted becomes current, the route table is
  not behind, the file loads, and what a recorded milestone claims (the source is
  fenced, the route is installed) is true in memory and in the file, although the
  record may be one attempt's and the snapshot another's
  (`RecordedMilestoneHolds`).
- `restart_saver`: SAVE requests overlap a cutover that may stop at a barrier.
  No pending replacement is promoted, and a slot that has a route is served only
  on fresh evidence.
- `single_writer`: the documented order of durable milestones holds when nobody
  else writes: the fence is in the file before the replacement is activated, and a
  commit has its own route.
- `snapshot_file`: whatever `load_file` accepts is a snapshot somebody saved,
  field for field but for the order in which the build reads the words of an epoch
  (`AcceptedWasSaved`); a save that overlapped no other can be
  loaded once it returned (`ReturnedSaveIsLoadable`); as long as saves do not
  overlap a whole copy is on the disk at every moment (`NoMomentWithoutACopy`).
- `conn`: nobody waits on a connection that is over, answers go to the request
  they answer, no entry stays behind, and `request` and `shutdown` return.
- `serving`: a client accepts only what the authorized worker computed, although
  the route is read after the authorization and never compared with it
  (`AcceptedFromItsWorker`); a cutover is verified through its own route; a
  request of unknown outcome is not dispatched again, unless a gateway died while
  the request was being authorized (`UnknownNotDispatchedAgain`); a handler waits only for a
  worker that withholds its acknowledgment.
- `selection`: overlap of failure domains is a shared ancestor, the replacement
  does not depend on the order of registration, and newer evidence is kept, while
  two connections publish and reports arrive out of order.
- `failback`: concurrent failbacks overrun the budget by no more than the other
  handlers; the hysteresis window starts within the present readiness; and a commit
  never gives the slot to a fenced boot, though handlers fence boots from plans of
  any age and `commit` does not look (`CommitsOntoUnfencedWorker`).

### Bounds

- `Fabric`: `MaxAssignmentId` is the number of replacements one incarnation
  mints, `MaxEpoch` the epochs. Two attempts are enough for every race, since the
  fabric compares an attempt only with what is current; three boots give both
  attempts a different replacement, or the same. Attempts, and boots with a
  target each, are interchangeable, and all properties under symmetry are safety
  properties. `single_writer` has two boots of one target and no symmetry.
  `ArgumentsInOrder` is TRUE: with one restart a build that evaluates from right to
  left reaches epoch 2 as well, and the theorems cover both.
- `SnapshotFile`: three saves make two overlap after one has returned. The
  snapshots fill every field with a different number, so that no two fields can
  be exchanged unnoticed (the words of an epoch but for the two orders a build may
  have); two have equal length, the third is one that `decode`
  refuses. The savers are interchangeable.
- `Conn`: the third caller finds the table full; the first comes back with an id
  it used before.
- `Serving`: **one handler of REGISTER or EXECUTE_FAILOVER at a time.** With two,
  the gateway keeps whichever route arrives last and `AcceptedFromItsWorker` and
  `VerifiedThroughItsRoute` fail, for the reason that `stale_route` shows. Both
  are also conditional on `~pushed`: no HELLO handler has read a route to push.
  The run begins with two workers and a gateway connected, `Deployed`, which is
  a state `Init` leads to; the third worker and the other gateway connect later.
  In `serving` no worker reconnects and one may die, which keeps the liveness check
  small; `stale_route` reconnects, and the theorems are for any number of clients,
  reconnections and deaths.
- `Planner`: `Guard` is 2 or 3 instead of 64, and no less than the number of
  domains, which is what `Overlaps` (section 4) needs: a cycle is walked round.
  In `selection` the limit of registrations (`MaxTargets`) is met when both
  candidates are registered; from then on every publication is refused, as the
  code refuses it also for a target it knows. Two connections publish at once, also
  for one target; there are no handlers, which would not change anything its
  properties look at. Three reports, one numbered by the store and two by their
  sender with one number and different times, arrive in every order, a CLEARED one
  after a CONFIRMED one among them. In `failback` one connection publishes: its
  steps interleave with handlers and the clock. Handlers, and connections, are
  interchangeable, and the properties of both runs are safety properties. The clock passes
  cooldown and hysteresis.

Deadlock is checked for `conn`, where a thread that waits for ever would be one,
and for `snapshot_file`. In the other runs the system may rest, waiting for
requests, or have used up a bound.

### Fairness

Liveness is checked in `conn` and `serving`.

- `Conn`: weak fairness of each caller once it is in `request`, of the reader,
  of `shutdown` once begun, and of a peer's answers while it has the connection
  open. These are operating system threads with nothing else to wait for;
  handlers on the reader thread return. Nobody has to call, to close or to shut
  down.
- `Serving`: weak fairness of the control threads of live workers, of the
  gateway's threads and of the coordinator's handlers. Nothing makes a process
  connect, die or restart, a client send or a connection break.

`Fabric`, `SnapshotFile` and `Planner` have no fairness: their operations have no
loop and wait for nothing but the calls that `Conn` and `Serving` are about.

### Where documentation and code disagree

Three runs end in a counterexample to a sentence of the documentation or of a
comment; `PROJECT.json` quotes it and names the line.

| run | what happens |
|---|---|
| `shared_message_id` | two callers use one message id, as concurrent cutovers do with their fixed ids: the second takes over the entry and the first waits for ever, also after the disconnect |
| `stale_route` | a route read by the HELLO handler before a cutover is sent after it; the gateway goes back to it, and a client accepts the replaced worker's result |
| `failback_elsewhere` | home is ready under the boot its failover fenced: the failback is authorized, commits onto a third target and resets the budget as having reached home |

Others are reachable in the models, and mark the boundary of what the passing
runs and the theorems claim:

- failovers of a slot that was never assigned leave two ACTIVE assignments for
  it (the appended `SlotState` is not indexed), and the file is refused; hence
  `~PlanUnassigned` and `SavedFileLoads` only for assigned slots;
- the epoch of a restart is not saved: the next restart can use it again;
- a commit sets `last_authority_gen` to a value its attempt read long before;
- a slot saved without a route serves right after the restart, on the saved
  ACTIVE; hence `RoutedDispatchNeedsFreshEvidence` speaks of slots with a route;
- a second restart drops an assignment that awaited revalidation, and the
  replacement then fences nobody; assignment ids start again at 1, so that an
  attempt can commit over a newer assignment with the id of its source. Hence
  `RetiredIsFenced` and `CommitsOverItsSource` within one incarnation;
- an older snapshot is written over the checkpoint of a milestone, and one
  slot's commit erases the record of another slot's cutover; hence the single
  writer;
- of two attempts with the same route generation the second one's entry is
  refused, which 606 ignores: `CommitsWithItsRoute` belongs to the single writer;
- after a crash between remove and rename, the next save truncates the only
  copy; hence the condition of `NoMomentWithoutACopy`;
- a gateway dies while the coordinator is between the check of a request and its
  record, the next gateway reports the outcome of the same request as unknown, and
  the handler left behind overwrites that: the request may be dispatched again;
- a worker that publishes again after its failure was confirmed is taken out of
  the confirmed set with nothing repaired, and cut over onto (the repository's README.md:31: "An
  older healthy observation never erases a newer confirmed failure."); what is
  reported after a cutover began is not looked at;
- a plan made between the regions of PUBLISH_READINESS sees new facts with the old
  state, and two connections that publish for one target can leave it so
  (README.md:39: "A candidate snapshot is coherent: readiness, capacity, state, and
  domains all come from the same observation generation.");
- with the arguments of `dec_epoch` evaluated from right to left every restart has
  epoch 2, whatever was saved;
- with two slots, an attempt may commit onto a boot that the other slot's attempt
  fenced meanwhile; dispatch to it is then refused;
- after a gateway restart with a larger boot number every verification goes to
  the dead gateway (`any_gateway_conn`), and every cutover fails;
- a target that publishes readiness more often than the hysteresis time never
  ends its window; a manual failback authorization is never used up.

## 4. What is proved

For all values of the constants that satisfy the assumptions of the modules:
`ConstantAssumption` and `NoneAssumption` (`Fabric`), `FileAssumption`
(`SnapshotFile`), `ConnAssumption` and `NoneAssumption` (`Conn`),
`ServingAssumption` and `NoneAssumption` (`Serving`, `ServingInvariants`),
`SelectionAssumption`, `PlannerAssumption`, `PublicationAssumption` (what
declarations, memberships, events and readiness may contain) and `BootAssumption`
(a boot is the process of one target's worker). They give the constants their types and say
that the empty optional is not a value; `SelectionAssumption` also that the
service requires one resource, as REGISTER declares it. TLC evaluates them in the
runs. What a theorem assumes beyond them it says in its
statement, and each of these hypotheses is the boundary beyond which section 3
has a counterexample:

| hypothesis | meaning | theorems |
|---|---|---|
| `~PlanUnassigned` | slots are assigned before they are failed over | `IncarnationInvariant` and what follows from it, `FileLoads` |
| `SoleAttempt` | one cutover at a time | `FenceDurable`, `OwnRouteCommitted` |
| `Saver = {}` | no SAVE requests | `FenceDurable` |
| `RoundTrip` | `Decode` of an encoded snapshot gives its `Readings`, one per order in which a build evaluates arguments, if it is valid, and rejects it otherwise | `ReturnedSaveLoads` |
| `DistinctIds` | callers of a connection use ids of their own | `OwnReply`; a condition of `NoneBlockedAfterDisconnect` |
| `SoleHandler` | one REGISTER or EXECUTE_FAILOVER handler at a time | `ResultFromItsWorker` |
| `Cardinality(Domain) <= Guard` | no more domains than `ancestors_of` takes steps, 64 (`domains.cpp:51`); a longer chain is cut off | `Overlaps` |

### The fabric (`FabricProofs`, `AuthorityProofs`, `CutoverProofs`)

- `TypeCorrect`: `Spec => []TypeOK`, with `LocalsInv` as strengthening: what an
  attempt has in its locals at each milestone.
- `RestartInvariant`: `Spec => []RestartInv`. From it `OnlyCommitted`,
  `RouteNotBehind`, `SourceFenced` and `FreshEvidence`. The properties are not
  inductive by themselves. What becomes current after a restart comes from a
  file, so `SnapshotInv` says of the file, and of every snapshot not yet
  written, what `MemoryInv` says of the memory. A route is installed before the
  commit that makes it necessary, so `AttemptInv` says that an attempt at
  ROUTE_INSTALLED is covered already; that the table only grows
  (`InstallCovers`) keeps it true, although the result of `install` is ignored.
  A route may be acknowledged after a restart by an attempt that never commits;
  `StaleSlotInv` says that it has then fenced the loaded worker, which is why
  the gate still refuses.
- `IncarnationInvariant`: `~PlanUnassigned /\ IncarnationSpec => []IncarnationInv`.
  From it `RetiredFenced`, `Supersession` and `Refinement`. The supersession
  guard compares ids and generations, so its correctness is that of
  `IdentityInv`: no two committed assignments of a slot, and no two running
  attempts, share them. The guard does nothing for an attempt that found no
  assignment, hence `AssignedInv` and `~PlanUnassigned`.
- `Refinement` maps every step of the fabric to a step or a stutter of
  `ExclusiveAuthority`: a commit is a Grant, or a Waste when another attempt
  fenced the new worker meanwhile; `fence_old` is a Revoke.
- `RecordedMilestone`: `Spec => []RecordedMilestoneHolds` for any number of
  attempts, savers and restarts. A record is made by an attempt for which
  `AttemptInv` holds what the milestone claims, fences and routes only grow while
  the record stays, and `RecordInv` carries the claim into every snapshot that is
  taken and not yet written, and back through `restart`.
- `FenceDurable`: `Spec => []FenceDurableBeforeActivation`. `DurableInv` follows
  the fence from the memory into the snapshot that the checkpoint takes, and from
  there into the file; that nobody else writes keeps it there.
- `OwnRouteCommitted`: `Spec => CommitsWithItsRoute`. The route generation of a
  plan is larger than the table's when it is validated, so the installation is
  not refused (`OwnRouteInv`, with `PositiveInv` for the generations), and a
  REGISTER that comes in between has a smaller one.
- `FileLoads`: `Spec => []SavedFileLoads` for any number of attempts, savers and
  restarts. `IndexedInv` says that no assignment hides in a slot without an index
  entry, `LoadsInv` that every snapshot taken and not yet written decodes.

### Files (`SnapshotFileProofs`)

- `FilesTyped`: `Spec => []TypeOK`: the temporary is never the file under the
  path, and no file is longer than a blob.
- `ReturnedSaveLoads`: `Spec => []ReturnedSaveIsLoadable`, and `AlwaysACopy`:
  `Spec => []NoMomentWithoutACopy`, for any number of threads, saves, failures and
  crashes and any format. The invariant is about the bytes: a save that
  overlapped no other has the temporary to itself and what it wrote so far is in
  it (`AloneInv`); the file it renamed is whole and no stream writes to it
  (`DurableInv`, `KeptInv`). That the codec inverts itself is a hypothesis here
  and evaluated by the run.

### Connections (`ConnProofs`)

- `ConnTyped`: `Spec => []TypeOK`; `PendingInProgress`:
  `Spec => []PendingIsInProgress`, with callers that share ids included. A caller
  whose entry another one took over goes on without it.
- `OwnReply`: `Spec => []AnsweredByItsOwnReply`. Ids are used again by later
  requests of the same caller, so the invariant accounts for every place where an
  answer can be: a frame on its way, a frame the reader holds, a `Pending` that
  is done. Each is tagged with the request in progress or finds no entry.
- `NobodyLeftWaiting`: `Spec => []NoneBlockedAfterDisconnect` for
  any number of callers and ids. A caller that is still writing when the pending
  requests are resolved waits afterwards, so `ConnInv` follows its entry from
  registration on (`Entered`), says that `dead_` and `s_` are set before anything
  is resolved (`Announced`), and that whoever passed the second look at them
  before that is completed (`Completed`).

### Serving (`ServingProofs`)

- `ServingTyped`: `Spec => []TypeOK` for any number of processes and handlers,
  with the types of every message (`WorkersTyped`, `PeersTyped`,
  `AssignmentsTyped`, `GatewayTyped`): a handler only names workers that have said
  HELLO, and a dead or disconnected worker has no frames.
- `UnknownStaysUndispatched`: `Spec => UnknownNotDispatchedAgain`: a request once
  reported as unknown stays so in the tracker, and no handler is between its check
  and its record, because the gateway makes one call at a time; or a gateway died
  there (`RecordInv`).
- `ResultFromItsWorker`: `Spec => []AcceptedFromItsWorker`. The gateway compares
  nothing, so the argument goes through `RouteInv`: the gateway's route is the
  current worker's unless that one is fenced already (`GatewayInv`), and the
  frames on their way to it are those of the handler that waits for them; a new
  assignment has an id that no client was authorized with (`FreshInv`). An accepted
  client is therefore authorized for the current assignment, which is not fenced,
  and its request went along the current worker's route (`ClientInv`). A HELLO
  handler that pushes a route breaks `GatewayInv`, hence the condition `~pushed`.

### Planning (`SelectionProofs`, `PlannerProofs`)

`SelectionProofs` is about the pure operators. They walk and compare for every
input, so the lemmas need induction: over sets of naturals (`SetInduction`, from
the well-foundedness of `<`), by which the recursive function `rounds` is shown to
exist and to have its equations (`RoundsExist`, `RoundsAre`).

- `ClosureIsLeast`: `closure` is the least set that has the declared domains of a
  target and with a domain its declared parent. The walk of `ancestors_of` ends at
  an undeclared parent or comes back to a domain it has seen (`ChainComesBack`, by
  the pigeonhole principle: `Guard` steps see `Guard` + 1 domains). What it has
  collected is therefore closed (`AncestorsClosed`), and it is in every closed
  set (`AncestorsLeast`).
- `BeforeOrders`: `before`, the comparator of the sort, is a strict weak order, as
  `std::stable_sort` requires, and tells any two workers apart. Hence the sort has
  a front (`FrontExists`), `select` returns it (`SelectIsFirst`), and a
  permutation of the candidates changes nothing as long as two of one target are
  the same (`OrderIgnored`).

`PlannerProofs` carries them to every reachable state.

- `SelectionOrder`: `Spec => []SelectionIgnoresOrder`. The condition of
  `OrderIgnored` holds in every snapshot (`SnapshotOfOne`) because a target is
  registered once (`Registered`) and the index of the service refers to
  registered targets with facts (`IndexInv`), through interleaved publications
  and repeated registrations. The candidates beyond the limit of a snapshot are
  cut off before (`fabric.cpp:361`), and which ones those are does depend on the
  order.
- `Overlaps`: `Spec => []OverlapsIsSharedAncestor`, from `ClosureIsLeast`;
  `RegistryInv` says what the declarations and memberships may be.
- `CommitsUnfenced`: `Spec => CommitsOntoUnfencedWorker`. What makes a cutover safe
  at its commit has to hold from its beginning (`CutoverInv`): `begin` finds the
  planned candidate in a new snapshot, which has one entry of its target
  (`RevalidatedEntry`), not fenced and, as boots belong to one target, not the
  current worker. Until the commit only boots are fenced that are the source of
  some cutover: the current worker, or one that is fenced already because its
  cutover was overtaken. Both rest on ids that are not used twice (`DistinctIds`).
- `PlannerTyped`: `Spec => []TypeOK`, with `PlanInv`: what a handler has in its
  locals at each step (`HandlerInv`), and that the slot only moves to a target
  (`SlotInv`).
- `Budget`: `Spec => []BudgetOverrun` for any finite number of
  handlers. `BudgetInv` counts the attempts made and the handlers that passed the
  check and have not counted theirs, `InFlight`, together: a handler is granted
  an attempt only while the count is below the budget, so the sum exceeds it at
  most by the handlers other than itself.
- `NewestEvidence`: `Spec => []NewestFailureKept` for any events and reports,
  receipt numbers of the store and equal numbers included. `EvidenceInv` adds that an event with
  nothing in the store was never reported.
- `Window`: `Spec => []WindowWithinReadiness` for any targets and interleaved
  publications. `WindowInv` adds that a target is registered once and before the
  rest of its publication (`Registered`), so that the entry a later region
  changes is the target's own, and that `steady` is not in the future.

### Only model-checked

- `AcceptedWasSaved`: that a mixture of two blobs in the shared temporary is
  refused rests on the checksum, which can collide. It is a fact about the
  snapshots of the run and every way to cut and mix them, not about all
  snapshots; a theorem would have to assume what it claims.
- `RoundTrip`, that `decode` gives back what `encode` wrote: a hypothesis of `ReturnedSaveLoads`,
  and evaluated by TLC on the snapshots of the run. The codec is built from
  operators that take operators (`put_list` and its readers) and from folds,
  about which no induction can be stated for this prover.
- `VerifiedThroughItsRoute`, on the instance of `serving`.
- `EveryRequestReturns`, `ShutdownReturns`, `EveryHandlerReturns`: liveness under
  fairness, which needs ENABLED.

## 5. Not modelled

- The gateway boot of a route (`bind_gateway`, `acknowledge`, CHECK_ROUTE_ACK)
  and QUERY_ROUTE: nothing but these queries reads it. The route history is only
  displayed.
- `classify_late_result` and CLASSIFY_REQUEST: counters and answers that no
  process acts upon. The request policy is fixed by the request id; a client that
  changes its policy between two sends is not modelled.
- The worker's session checkpoint file: one thread of one process writes and
  reads it.
- `recovery.cpp` and `plan.cpp`: formulas on estimated durations and the text of
  a plan, on which no authority depends.
- Field layout of payloads, socket calls, names of enumerators, reasons of
  rejections, reports. `Conn` has the lengths of frames, because they decide when
  a connection ends.
- Creating services: the models begin with one that exists. Compatibility, model
  key and ABI of a candidate are one published attribute.
- Torn reads of the unlocked domain registry (`fabric.cpp:243`), and the loss of
  the operating system's caches in a power failure.
- The CUDA back end, the command line tools, the examples and the benchmarks:
  they drive these parts and have no fabric state of their own.
