---------------------------- MODULE SnapshotCodec ----------------------------
(***************************************************************************)
(* The durable format (persistence.cpp): a snapshot becomes a sequence of  *)
(* words -- magic, version, payload length, payload, checksum -- and is    *)
(* rebuilt from it only if every check of decode passes.  A word stands    *)
(* for one value: a number of any width, a string, a timestamp.            *)
(* Enumerators are their ordinals, Booleans 0 and 1.  The writer and the   *)
(* reader list their fields separately, as the code does.                  *)
(***************************************************************************)
EXTENDS Integers, Sequences, SequencesExt

CONSTANTS
    None,             \* no value
    Rejected,         \* decode threw
    ArgumentsInOrder  \* TRUE iff the build evaluates arguments from left to right

kMagic == 7001
kVersion == 2

(* A checksum that depends on every word and on its place (the halves are   *)
(* mixed as FNV-1a mixes one byte after another).                           *)
fnv1a(b) ==
    LET h[i \in DOMAIN b, n \in 1 .. Len(b)] ==
            IF n = 1 THEN (b[i] * 131 + 1469) % 8191
            ELSE (h[i, n \div 2] * 131 + h[i + n \div 2, n - n \div 2]) % 8191
    IN  h[1, Len(b)]

-----------------------------------------------------------------------------
(* Writing                                                                 *)

put_opt(v, Ser(_)) == IF v = None THEN <<0>> ELSE <<1>> \o Ser(v)

put_list(s, Ser(_)) == <<Len(s)>> \o FlattenSeq([i \in DOMAIN s |-> Ser(s[i])])

Word(v) == <<v>>

ListFields ==
    {"dependencies", "required_capabilities", "forbidden_overlap_classes", "required_state",
     "resource_claims", "continuity_state", "affected_domains"}
OptFields ==
    {"readiness_profile_required", "min_checkpoint_gen", "parent", "failed_target",
     "failed_target_generation", "failed_domain"}

put_field(f, v) ==
    IF f \in ListFields THEN put_list(v, Word)
    ELSE IF f \in OptFields THEN put_opt(v, Word)
    ELSE Word(v)

put(fields, r) == FlattenSeq([i \in DOMAIN fields |-> put_field(fields[i], r[fields[i]])])

enc_compat(s) ==
    put(<<"model_key", "runtime_abi", "readiness_profile_required", "dependencies",
          "required_capabilities">>, s)

enc_domreq(s) ==
    put(<<"require_domain_independence", "min_distinct_hosts", "min_distinct_devices",
          "forbidden_overlap_classes">>, s)

enc_resreq(x) == put(<<"resource_class", "amount", "exactly_one_target">>, x)

enc_reco(s) ==
    put(<<"rto_ms", "rto_anchor", "continuity", "max_state_loss_sequences",
          "min_checkpoint_gen", "requires_verified_recovery">>, s)

enc_afp(s) ==
    put(<<"max_auto_attempts", "cooldown_ms", "hysteresis_ms",
          "manual_intervention_required">>, s)

enc_svc(s) ==
    put(<<"service", "generation", "config_generation", "name", "role", "first", "count">>, s)
    \o enc_compat(s) \o enc_domreq(s) \o put_list(s.resources, enc_resreq) \o enc_reco(s)
    \o put(<<"failback">>, s) \o enc_afp(s)
    \o put(<<"required_state", "provenance", "policy_generation">>, s)

enc_assign(a) ==
    put(<<"id", "generation", "service", "slot", "target", "target_generation", "replica",
          "replica_generation", "engine", "engine_incarnation", "readiness_profile",
          "authority_generation", "activation", "activation_generation", "route",
          "route_generation", "worker_boot", "resource_claims", "continuity_state", "state",
          "provisory", "provenance">>, a)

enc_domdecl(d) == put(<<"id", "generation", "cls", "name", "parent", "provenance">>, d)

enc_memb(m) == put(<<"target", "domain", "known">>, m)

enc_ev(e) ==
    put(<<"event_id", "generation", "source", "source_boot", "category", "status",
          "provenance", "severity", "confidence", "failed_target",
          "failed_target_generation", "failed_domain", "observed", "received", "mechanism",
          "detail", "affected_domains", "revalidates_existing">>, e)

(* A CoordinatorEpoch: its value, its id and its boot. *)
enc_epoch == <<"epoch", "epoch_id", "epoch_boot">>

enc_route(e) ==
    put(<<"route", "generation", "service", "slot", "target", "target_generation",
          "incarnation", "permitted_boot", "assignment", "assignment_generation">>
        \o enc_epoch \o <<"gateway_boot", "route_state", "transport", "provenance">>, e)

enc_txn(t) ==
    <<t.milestone>> \o put_opt(t.pending_assignment, enc_assign)
                    \o put_opt(t.source_assignment, enc_assign)
                    \o put_opt(t.pending_route, enc_route)

encode(s) ==
    LET payload ==
            <<kVersion>> \o put(enc_epoch \o <<"policy_generation", "last_authority_gen">>, s)
            \o put_list(s.services, enc_svc)
            \o put_list(s.assignments, enc_assign)
            \o put_list(s.domains, enc_domdecl)
            \o put_list(s.memberships, enc_memb)
            \o put_list(s.evidence, enc_ev)
            \o put_list(s.routes, enc_route)
            \o put_list(s.fenced_boots, Word)
            \o put_opt(s.txn, enc_txn)
        blob == <<kMagic, kVersion, Len(payload)>> \o payload
    IN  Append(blob, fnv1a(blob))

-----------------------------------------------------------------------------
(* Reading: a reader is what is left of the payload, the value read last,  *)
(* and whether nothing has been refused so far.                            *)

Reader(words, v) == [rest |-> words, val |-> v, ok |-> TRUE]
Refused == [rest |-> <<>>, val |-> 0, ok |-> FALSE]

word(r) == IF r.ok /\ r.rest # <<>> THEN Reader(Tail(r.rest), Head(r.rest)) ELSE Refused

opt_flag(b, Deser(_)) ==
    IF ~b.ok \/ b.val \notin {0, 1} THEN Refused
    ELSE IF b.val = 0 THEN [b EXCEPT !.val = None]
    ELSE Deser(b)

opt(r, Deser(_)) == opt_flag(word(r), Deser)

(* Reads one more thing and combines it with what was read before. *)
then(r, Deser(_), Combine(_, _)) ==
    IF ~r.ok THEN Refused
    ELSE LET x == Deser(r) IN IF x.ok THEN [x EXCEPT !.val = Combine(r.val, x.val)] ELSE Refused

list_count(c, Deser(_)) ==
    LET more(acc, i) == then(acc, Deser, Append)
    IN  IF c.ok /\ c.val \in 0 .. Len(c.rest)
        THEN FoldLeft(more, [c EXCEPT !.val = <<>>], [i \in 1 .. c.val |-> i])
        ELSE Refused

list(r, Deser(_)) == list_count(word(r), Deser)

(* The number of values of the fields whose range the reader checks. *)
FieldRange ==
    [role |-> 3, rto_anchor |-> 3, continuity |-> 7, failback |-> 3, provenance |-> 7,
     state |-> 8, cls |-> 10, category |-> 13, status |-> 5, severity |-> 4,
     route_state |-> 6, known |-> 2, provisory |-> 2, require_domain_independence |-> 2,
     exactly_one_target |-> 2, requires_verified_recovery |-> 2,
     manual_intervention_required |-> 2, revalidates_existing |-> 2,
     forbidden_overlap_classes |-> 10, milestone |-> 6]

in_range(f, v) == f \in DOMAIN FieldRange => v \in 0 .. FieldRange[f] - 1

(* Extends the record read so far by one field ... *)
get_field(f, r, Deser(_)) == then(r, Deser, LAMBDA old, v : (f :> v) @@ old)

get_opt(f, r) == get_field(f, r, LAMBDA x : opt(x, word))

checked(f, x) == IF in_range(f, x.val) THEN x ELSE Refused

get_list(f, r) ==
    get_field(f, r, LAMBDA x : list(x, LAMBDA y : checked(f, word(y))))

get_records(f, r, Deser(_)) == get_field(f, r, LAMBDA x : list(x, Deser))

get_opt_record(f, r, Deser(_)) == get_field(f, r, LAMBDA x : opt(x, Deser))

(* ... or by a run of fields of one word each. *)
get(fields, r) ==
    LET n == Len(fields)
        w == [i \in 1 .. n |-> r.rest[i]]
    IN  IF r.ok /\ n <= Len(r.rest) /\ \A i \in 1 .. n : in_range(fields[i], w[i])
        THEN Reader(SubSeq(r.rest, n + 1, Len(r.rest)),
                    [f \in ToSet(fields) |-> w[CHOOSE i \in 1 .. n : fields[i] = f]] @@ r.val)
        ELSE Refused

fresh(r) == [r EXCEPT !.val = <<>>]

dec_compat(r) ==
    get_list("required_capabilities", get_list("dependencies",
        get_opt("readiness_profile_required", get(<<"model_key", "runtime_abi">>, r))))

dec_domreq(r) ==
    get_list("forbidden_overlap_classes",
        get(<<"require_domain_independence", "min_distinct_hosts",
              "min_distinct_devices">>, r))

dec_resreq(r) == get(<<"resource_class", "amount", "exactly_one_target">>, fresh(r))

dec_reco(r) ==
    get(<<"requires_verified_recovery">>, get_opt("min_checkpoint_gen",
        get(<<"rto_ms", "rto_anchor", "continuity", "max_state_loss_sequences">>, r)))

dec_afp(r) ==
    get(<<"max_auto_attempts", "cooldown_ms", "hysteresis_ms",
          "manual_intervention_required">>, r)

dec_svc(r) ==
    get(<<"provenance", "policy_generation">>, get_list("required_state",
        dec_afp(get(<<"failback">>, dec_reco(get_records("resources",
            dec_domreq(dec_compat(
                get(<<"service", "generation", "config_generation", "name", "role", "first",
                      "count">>, fresh(r)))), dec_resreq))))))

dec_assign_swapped(r) ==
    get(<<"state", "provisory", "provenance">>,
        get_list("continuity_state", get_list("resource_claims",
            get(<<"id", "generation", "service", "slot", "target", "target_generation",
                  "replica", "replica_generation", "engine", "engine_incarnation",
                  "readiness_profile", "authority_generation", "activation",
                  "activation_generation", "route", "worker_boot", "route_generation">>,
                fresh(r)))))

dec_assign(r) ==
    get(<<"state", "provisory", "provenance">>,
        get_list("continuity_state", get_list("resource_claims",
            get(<<"id", "generation", "service", "slot", "target", "target_generation",
                  "replica", "replica_generation", "engine", "engine_incarnation",
                  "readiness_profile", "authority_generation", "activation",
                  "activation_generation", "route", "route_generation", "worker_boot">>,
                fresh(r)))))

dec_domdecl(r) ==
    get(<<"provenance">>, get_opt("parent", get(<<"id", "generation", "cls", "name">>, fresh(r))))

dec_memb(r) == get(<<"target", "domain", "known">>, fresh(r))

dec_ev(r) ==
    get(<<"revalidates_existing">>, get_list("affected_domains",
        get(<<"observed", "received", "mechanism", "detail">>,
            get_opt("failed_domain", get_opt("failed_target_generation",
                get_opt("failed_target",
                    get(<<"event_id", "generation", "source", "source_boot", "category",
                          "status", "provenance", "severity", "confidence">>, fresh(r))))))))

(* The three words are read by the arguments of a constructor call, in the *)
(* order in which the build evaluates them.                                *)
dec_epoch ==
    IF ArgumentsInOrder THEN <<"epoch", "epoch_id", "epoch_boot">>
    ELSE <<"epoch_boot", "epoch_id", "epoch">>

dec_route(r) ==
    get(<<"route", "generation", "service", "slot", "target", "target_generation",
          "incarnation", "permitted_boot", "assignment", "assignment_generation">>
        \o dec_epoch \o <<"gateway_boot", "route_state", "transport", "provenance">>, fresh(r))

(* The record of an interrupted cutover; a pending assignment is AUTHORIZED. *)
AUTHORIZED == 2
ACTIVE == 3

pending_only(x) == IF x.ok /\ x.val.state = AUTHORIZED THEN x ELSE Refused

dec_txn(r) ==
    get_opt_record("pending_route", get_opt_record("source_assignment",
        get_opt_record("pending_assignment", get(<<"milestone">>, fresh(r)),
                       LAMBDA x : pending_only(dec_assign(x))),
        dec_assign), dec_route)

(* The semantic checks that decode makes last. *)
valid_snapshot(s) ==
    /\ \A i, j \in DOMAIN s.services : s.services[i].service = s.services[j].service => i = j
    /\ \A i \in DOMAIN s.services : s.services[i].count # 0
    /\ \A i \in DOMAIN s.assignments :
          LET a == s.assignments[i]
          IN  /\ \E k \in DOMAIN s.services : s.services[k].service = a.service
              /\ a.authority_generation # 0
              /\ \A j \in DOMAIN s.assignments :
                    LET b == s.assignments[j]
                    IN  /\ a.state = ACTIVE /\ b.state = ACTIVE
                        /\ <<a.service, a.slot>> = <<b.service, b.slot>>
                        => i = j

dec_tables(r) ==
    get_records("routes", get_records("evidence", get_records("memberships",
        get_records("domains", get_records("assignments", get_records("services", r,
            dec_svc), dec_assign), dec_domdecl), dec_memb), dec_ev), dec_route)

dec_payload(r) ==
    get_opt_record("txn", get_list("fenced_boots", dec_tables(
        get(<<"version">> \o dec_epoch \o <<"policy_generation", "last_authority_gen">>, r))),
        dec_txn)

(* What decode makes of the payload it has read: nothing may be left over. *)
accepted(r) ==
    IF r.ok /\ r.rest = <<>> /\ r.val.version = kVersion /\ valid_snapshot(r.val)
    THEN [f \in DOMAIN r.val \ {"version"} |-> r.val[f]]
    ELSE Rejected

decode_without_checksum(blob) ==
    LET n == Len(blob)
    IN  IF n < 5 \/ SubSeq(blob, 1, 2) # <<kMagic, kVersion>> THEN Rejected
        ELSE IF 3 + blob[3] + 1 # n THEN Rejected
        ELSE accepted(dec_payload(Reader(SubSeq(blob, 4, n - 1), <<>>)))

decode(blob) ==
    LET n == Len(blob)
    IN  IF n < 5 \/ SubSeq(blob, 1, 2) # <<kMagic, kVersion>> THEN Rejected
        ELSE IF 3 + blob[3] + 1 # n \/ fnv1a(SubSeq(blob, 1, n - 1)) # blob[n] THEN Rejected
        ELSE accepted(dec_payload(Reader(SubSeq(blob, 4, n - 1), <<>>)))
===============================================================================
