--------------------------- MODULE MCSnapshotFile ----------------------------
(* Three snapshots for SnapshotFile: two of the same length, the second of   *)
(* them with other contents, and one that the reader refuses; encoded and    *)
(* decoded as SnapshotCodec says.                                            *)
EXTENDS SnapshotFile, SequencesExt

CONSTANTS s1, s2

(* The builds that evaluate arguments from left to right and from right to *)
(* left; they write the same file.                                         *)
Codec == INSTANCE SnapshotCodec WITH ArgumentsInOrder <- TRUE
RightToLeft == INSTANCE SnapshotCodec WITH ArgumentsInOrder <- FALSE

MCEncode(s) == Codec!encode(s)
MCDecode(blob) == {Codec!decode(blob), RightToLeft!decode(blob)}
MCValidSnapshot(s) == Codec!valid_snapshot(s)

(* The value and the boot of an epoch change places. *)
Exchanged(r) == [r EXCEPT !.epoch = r.epoch_boot, !.epoch_boot = r.epoch]

MCReadings(s) ==
    {s, [Exchanged(s) EXCEPT
            !.routes = [i \in DOMAIN @ |-> Exchanged(@[i])],
            !.txn = IF @ = None THEN None
                    ELSE [@ EXCEPT !.pending_route = Exchanged(@)]]}

MCSymmetry == Permutations({s1, s2})

(* A record whose fields hold the distinct numbers base + 1, base + 2, ... *)
Filled(fields, base, over) ==
    over @@ [f \in ToSet(fields) |->
                IF f \in Codec!ListFields THEN <<base + 1>>
                ELSE IF f \in DOMAIN Codec!FieldRange THEN 1
                ELSE base + CHOOSE i \in DOMAIN fields : fields[i] = f]

Service(base) ==
    Filled(<<"generation", "config_generation", "name", "role", "first", "model_key",
             "runtime_abi", "dependencies", "required_capabilities",
             "require_domain_independence", "min_distinct_hosts", "min_distinct_devices",
             "rto_ms", "rto_anchor", "continuity", "max_state_loss_sequences",
             "requires_verified_recovery", "failback", "max_auto_attempts", "cooldown_ms",
             "hysteresis_ms", "manual_intervention_required", "required_state", "provenance",
             "policy_generation">>, base,
           [service |-> 1, count |-> 1, readiness_profile_required |-> None,
            forbidden_overlap_classes |-> <<0, 9>>, min_checkpoint_gen |-> base,
            resources |-> <<Filled(<<"resource_class", "amount", "exactly_one_target">>,
                                   base, <<>>)>>])

Assign(base, st) ==
    Filled(<<"id", "generation", "slot", "target", "target_generation", "replica",
             "replica_generation", "engine", "engine_incarnation", "readiness_profile",
             "authority_generation", "activation", "activation_generation", "route",
             "route_generation", "worker_boot", "resource_claims", "provisory",
             "provenance">>, base,
           [service |-> 1, state |-> st, continuity_state |-> <<>>])

Domain(base, p) ==
    Filled(<<"id", "generation", "cls", "name", "provenance">>, base, [parent |-> p])

Member(base) == [target |-> base, domain |-> base + 1, known |-> 0]

Event(base) ==
    Filled(<<"event_id", "generation", "source", "source_boot", "category", "status",
             "provenance", "severity", "confidence", "observed", "received", "mechanism",
             "detail", "affected_domains", "revalidates_existing">>, base,
           [failed_target |-> base, failed_target_generation |-> None,
            failed_domain |-> None])

Route(base) ==
    Filled(<<"route", "generation", "service", "slot", "target", "target_generation",
             "incarnation", "permitted_boot", "assignment", "assignment_generation", "epoch",
             "epoch_id", "epoch_boot", "gateway_boot", "route_state", "transport", "provenance">>, base, <<>>)

(* An interrupted cutover, with the pending assignment in state st. *)
InProgress(base, st) ==
    [epoch |-> base, epoch_id |-> base + 3, epoch_boot |-> base + 4,
     policy_generation |-> base + 1, last_authority_gen |-> base + 2,
     services |-> <<Service(base)>>,
     assignments |-> <<Assign(base, Codec!ACTIVE), Assign(base, 6)>>,
     domains |-> <<Domain(base, None), Domain(base, base)>>,
     memberships |-> <<Member(base)>>, evidence |-> <<Event(base)>>,
     routes |-> <<Route(base)>>, fenced_boots |-> <<base, base + 1>>,
     txn |-> [milestone |-> 2, pending_assignment |-> Assign(base, st),
              source_assignment |-> Assign(base, Codec!ACTIVE), pending_route |-> Route(base)]]

(* A slot with two ACTIVE assignments, and no cutover in progress. *)
TwoActive ==
    [InProgress(700, Codec!AUTHORIZED) EXCEPT
        !.assignments = <<Assign(700, Codec!ACTIVE), Assign(700, Codec!ACTIVE)>>, !.txn = None]

MCValue(x) ==
    CASE x = "before" -> InProgress(100, Codec!AUTHORIZED)
      [] x = "after"  -> InProgress(300, Codec!AUTHORIZED)
      [] x = "refused" -> TwoActive
===============================================================================
