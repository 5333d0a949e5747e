--------------------------- MODULE SelectionProofs ----------------------------
(***************************************************************************)
(* What the planner's pure functions compute, for any registry and any      *)
(* candidates: the chain of ancestors of a domain, and the front of the     *)
(* sorted candidates.  Both are loops over data; the induction is over a    *)
(* set of naturals, because the provers do not take an induction theorem    *)
(* with an operator for a parameter.                                        *)
(***************************************************************************)
EXTENDS Selection, FiniteSetTheorems, WellFoundedInduction, TLAPS

-----------------------------------------------------------------------------
(* Induction                                                               *)

(* A set of naturals has a least element. *)
LEMMA LeastNatural ==
    ASSUME NEW T \in SUBSET Nat, T # {}
    PROVE  \E x \in T : \A y \in T : x <= y
<1> DEFINE R == OpToRel(<, Nat)
<1>1. IsWellFoundedOn(R, Nat)
  BY NatLessThanWellFounded, Zenon
<1>2. \A x, y \in Nat : x < y => <<x, y>> \in R
  BY DEF OpToRel
<1> HIDE DEF R
<1>3. PICK x \in T : \A y \in T : ~ (<<y, x>> \in R)
  BY <1>1, WFMin
<1>4. \A y \in T : ~ (y < x)
  BY <1>2, <1>3
<1>5. QED
  BY <1>4

(* A set with 0 and with the successor of each of its members has every      *)
(* natural.                                                                  *)
LEMMA SetInduction ==
    ASSUME NEW T, 0 \in T, \A n \in Nat : n \in T => n + 1 \in T
    PROVE  \A n \in Nat : n \in T
<1> SUFFICES ASSUME Nat \ T # {} PROVE FALSE
  OBVIOUS
<1>1. PICK x \in Nat \ T : \A y \in Nat \ T : x <= y
  BY LeastNatural
<1>2. x # 0 /\ x - 1 \in Nat
  BY <1>1
<1>3. x - 1 \in T
  BY <1>1, <1>2
<1>4. QED
  BY <1>1, <1>2, <1>3

-----------------------------------------------------------------------------
(* The ancestors of a domain                                               *)

(* A declared parent is a domain, whether it is declared itself or not. *)
WellDeclared(reg) == \A d \in declared(reg) : reg.decl[d].parent \in Domain \cup {None}

(* A set of declared domains that has the declared parent of each member. *)
Closed(reg, S) ==
    \A d \in S : reg.decl[d].parent \in declared(reg) => reg.decl[d].parent \in S

LEMMA ParentTyped ==
    ASSUME NEW reg, WellDeclared(reg), NEW d \in Domain \cup {None}
    PROVE  parent_of(reg, d) \in Domain \cup {None}
BY DEF WellDeclared, declared, parent_of

LEMMA RoundsExist ==
    ASSUME NEW reg, WellDeclared(reg), NEW id \in Domain
    PROVE  \E g \in [0..Guard -> Domain \cup {None}] :
              g = [n \in 0..Guard |-> IF n = 0 THEN id ELSE parent_of(reg, g[n - 1])]
<1> DEFINE D == Domain \cup {None}
           Upto(k) == {g \in [0..k -> D] :
                          g[0] = id /\ \A n \in 1..k : g[n] = parent_of(reg, g[n - 1])}
           T == {k \in Nat : Upto(k) # {}}
<1>1. 0 \in T
  <2>1. [n \in 0..0 |-> id] \in Upto(0)
    OBVIOUS
  <2>2. QED
    BY <2>1
<1>2. ASSUME NEW k \in Nat, k \in T PROVE k + 1 \in T
  <2>1. PICK g \in [0..k -> D] : g[0] = id /\ \A n \in 1..k : g[n] = parent_of(reg, g[n - 1])
    BY <1>2
  <2> DEFINE f == [n \in 0..(k + 1) |-> IF n = k + 1 THEN parent_of(reg, g[k]) ELSE g[n]]
  <2>2. \A n \in 0..k : g[n] \in D
    BY <2>1
  <2>3. parent_of(reg, g[k]) \in D
    BY <2>2, ParentTyped
  <2> HIDE DEF D
  <2>4. f \in [0..(k + 1) -> D]
    BY <2>2, <2>3
  <2>5. f[0] = id
    BY <2>1
  <2>6. ASSUME NEW n \in 1..(k + 1) PROVE f[n] = parent_of(reg, f[n - 1])
    <3>1. CASE n = k + 1
      BY <3>1
    <3>2. CASE n # k + 1
      <4>1. n \in 1..k /\ f[n] = g[n] /\ f[n - 1] = g[n - 1]
        BY <3>2
      <4>2. QED
        BY <2>1, <4>1
    <3>3. QED
      BY <3>1, <3>2
  <2> HIDE DEF f
  <2>7. QED
    BY <2>4, <2>5, <2>6
<1> HIDE DEF T
<1>3. Guard \in T
  BY <1>1, <1>2, SetInduction, SelectionAssumption
<1>4. PICK g \in [0..Guard -> D] :
         g[0] = id /\ \A n \in 1..Guard : g[n] = parent_of(reg, g[n - 1])
  BY <1>3 DEF T
<1>5. g = [n \in 0..Guard |-> IF n = 0 THEN id ELSE parent_of(reg, g[n - 1])]
  BY <1>4, SelectionAssumption
<1>6. QED
  BY <1>4, <1>5

(* The recursive function is what its definition says. *)
LEMMA RoundsAre ==
    ASSUME NEW reg, WellDeclared(reg), NEW id \in Domain
    PROVE  /\ rounds(reg, id)[0] = id
           /\ \A n \in 0..Guard : rounds(reg, id)[n] \in Domain \cup {None}
           /\ \A n \in Nat : n < Guard =>
                 rounds(reg, id)[n + 1] = parent_of(reg, rounds(reg, id)[n])
           /\ rounds(reg, id) = [n \in 0..Guard |-> rounds(reg, id)[n]]
<1> DEFINE P(g) == g = [n \in 0..Guard |-> IF n = 0 THEN id ELSE parent_of(reg, g[n - 1])]
           c == rounds(reg, id)
           D == Domain \cup {None}
<1>1. c = CHOOSE g : P(g)
  BY DEF rounds
<1>2. \E g : P(g)
  BY RoundsExist
<1> HIDE DEF P, c
<1>3. P(c)
  BY <1>1, <1>2, Zenon
<1>4. c[0] = id /\ \A n \in Nat : n < Guard => c[n + 1] = parent_of(reg, c[n])
  BY <1>3, SelectionAssumption DEF P
<1> DEFINE T == {n \in Nat : n <= Guard => c[n] \in D}
<1>5. 0 \in T
  BY <1>4
<1>6. \A n \in Nat : n \in T => n + 1 \in T
  BY <1>4, ParentTyped, SelectionAssumption
<1> HIDE DEF T
<1>7. \A n \in Nat : n \in T
  BY <1>5, <1>6, SetInduction
<1>8. \A n \in 0..Guard : c[n] \in D
  BY <1>7, SelectionAssumption DEF T
<1>9. c = [n \in 0..Guard |-> c[n]]
  BY <1>3 DEF P
<1>10. QED
  BY <1>4, <1>8, <1>9 DEF c

(* Where the chain ends it stays. *)
LEMMA ChainEnds ==
    ASSUME NEW reg, WellDeclared(reg), NEW id \in Domain, NEW i \in 0..Guard,
           rounds(reg, id)[i] = None
    PROVE  rounds(reg, id)[Guard] = None
<1> DEFINE c == rounds(reg, id)
           T == {m \in Nat : i + m <= Guard => c[i + m] = None}
<1>1. \A n \in Nat : n < Guard => c[n + 1] = parent_of(reg, c[n])
  BY RoundsAre
<1>2. 0 \in T
  BY SelectionAssumption
<1>3. ASSUME NEW m \in Nat, m \in T PROVE m + 1 \in T
  <2> SUFFICES ASSUME i + (m + 1) <= Guard PROVE c[i + (m + 1)] = None
    OBVIOUS
  <2>1. c[i + m] = None /\ i + m \in Nat /\ i + m < Guard /\ i + (m + 1) = (i + m) + 1
    BY <1>3, SelectionAssumption
  <2>2. QED
    BY <1>1, <2>1 DEF parent_of
<1> HIDE DEF T
<1>4. Guard - i \in T
  BY <1>2, <1>3, SetInduction, SelectionAssumption
<1>5. QED
  BY <1>4, SelectionAssumption DEF T

(* What comes after two equal domains of the chain is equal, too. *)
LEMMA ChainRepeats ==
    ASSUME NEW reg, WellDeclared(reg), NEW id \in Domain, NEW i \in 0..Guard, NEW j \in 0..Guard,
           i < j, rounds(reg, id)[i] = rounds(reg, id)[j]
    PROVE  \E n \in 0..(Guard - 1) : rounds(reg, id)[n] = rounds(reg, id)[Guard]
<1> DEFINE c == rounds(reg, id)
           T == {m \in Nat : j + m <= Guard => c[i + m] = c[j + m]}
<1>1. \A n \in Nat : n < Guard => c[n + 1] = parent_of(reg, c[n])
  BY RoundsAre
<1>2. 0 \in T
  BY SelectionAssumption
<1>3. ASSUME NEW m \in Nat, m \in T PROVE m + 1 \in T
  <2> SUFFICES ASSUME j + (m + 1) <= Guard PROVE c[i + (m + 1)] = c[j + (m + 1)]
    OBVIOUS
  <2>1. /\ c[i + m] = c[j + m] /\ i + m \in Nat /\ i + m < Guard /\ j + m \in Nat /\ j + m < Guard
        /\ i + (m + 1) = (i + m) + 1 /\ j + (m + 1) = (j + m) + 1
    BY <1>3, SelectionAssumption
  <2>2. QED
    BY <1>1, <2>1
<1> HIDE DEF T
<1>4. Guard - j \in T
  BY <1>2, <1>3, SetInduction, SelectionAssumption
<1>5. c[i + (Guard - j)] = c[Guard] /\ i + (Guard - j) \in 0..(Guard - 1)
  BY <1>4, SelectionAssumption DEF T
<1>6. QED
  BY <1>5

(* A chain that has not ended after as many rounds as there are domains has   *)
(* come back to one it has been at.                                           *)
LEMMA ChainComesBack ==
    ASSUME NEW reg, WellDeclared(reg), NEW id \in Domain,
           IsFiniteSet(Domain), Cardinality(Domain) <= Guard, rounds(reg, id)[Guard] # None
    PROVE  \E n \in 0..(Guard - 1) : rounds(reg, id)[n] = rounds(reg, id)[Guard]
<1> DEFINE c == rounds(reg, id)
<1>1. c = [n \in 0..Guard |-> c[n]] /\ \A n \in 0..Guard : c[n] \in Domain \cup {None}
  BY RoundsAre
<1>2. \A n \in 0..Guard : c[n] # None
  BY ChainEnds
<1>3. c \in [0..Guard -> Domain]
  BY <1>1, <1>2
<1>4. IsFiniteSet(0..Guard) /\ Cardinality(0..Guard) = Guard + 1
  BY FS_Interval, SelectionAssumption
<1>5. Cardinality(Domain) \in Nat
  BY FS_CardinalityType
<1>6. Cardinality(Domain) < Cardinality(0..Guard)
  BY <1>4, <1>5, SelectionAssumption
<1> HIDE DEF c
<1>7. PICK x, y \in 0..Guard : x # y /\ c[x] = c[y]
  BY <1>3, <1>4, <1>6, FS_PigeonHole
<1>8. CASE x < y
  BY <1>7, <1>8, ChainRepeats DEF c
<1>9. CASE y < x
  BY <1>7, <1>9, ChainRepeats DEF c
<1>10. QED
  BY <1>7, <1>8, <1>9, SelectionAssumption

(* ancestors_of stops after Guard rounds, and yet misses no ancestor as long  *)
(* as there are no more domains than that, in a cycle neither.                *)
LEMMA AncestorsClosed ==
    ASSUME NEW reg, WellDeclared(reg), NEW id \in Domain,
           IsFiniteSet(Domain), Cardinality(Domain) <= Guard
    PROVE  Closed(reg, ancestors_of(reg, id))
<1> DEFINE c == rounds(reg, id)
<1> SUFFICES ASSUME NEW d \in ancestors_of(reg, id), reg.decl[d].parent \in declared(reg)
             PROVE  reg.decl[d].parent \in ancestors_of(reg, id)
  BY DEF Closed
<1>1. PICK n \in 0..(Guard - 1) : c[n] = d
  BY DEF ancestors_of
<1>2. d \in declared(reg) /\ d # None
  BY SelectionAssumption DEF ancestors_of, declared
<1>3. c[n + 1] = reg.decl[d].parent
  <2>1. n \in Nat /\ n < Guard
    BY SelectionAssumption
  <2>2. c[n + 1] = parent_of(reg, c[n])
    BY <2>1, RoundsAre
  <2>3. QED
    BY <1>1, <1>2, <2>2 DEF parent_of, declared
<1>4. c[n + 1] # None
  BY <1>3, SelectionAssumption DEF declared
<1>5. \E m \in 0..(Guard - 1) : c[m] = c[n + 1]
  <2>1. CASE n + 1 = Guard
    BY <1>4, <2>1, ChainComesBack
  <2>2. CASE n + 1 # Guard
    <3>1. n + 1 \in 0..(Guard - 1)
      BY <2>2, SelectionAssumption
    <3>2. QED
      BY <3>1
  <2>3. QED
    BY <2>1, <2>2
<1>6. QED
  BY <1>3, <1>5 DEF ancestors_of

(* It finds nothing that is not an ancestor. *)
LEMMA AncestorsLeast ==
    ASSUME NEW reg, WellDeclared(reg), NEW id \in Domain, NEW S,
           id \in declared(reg) => id \in S, Closed(reg, S)
    PROVE  ancestors_of(reg, id) \subseteq S
<1> DEFINE c == rounds(reg, id)
           T == {n \in Nat : n <= Guard /\ c[n] \in declared(reg) => c[n] \in S}
<1>1. 0 \in T
  BY RoundsAre
<1>2. ASSUME NEW n \in Nat, n \in T PROVE n + 1 \in T
  <2> SUFFICES ASSUME n + 1 <= Guard, c[n + 1] \in declared(reg) PROVE c[n + 1] \in S
    OBVIOUS
  <2>1. n <= Guard /\ n < Guard /\ n \in 0..Guard
    BY SelectionAssumption
  <2>2. c[n + 1] = parent_of(reg, c[n]) /\ c[n] \in Domain \cup {None}
    BY <2>1, RoundsAre
  <2>3. c[n + 1] # None
    BY SelectionAssumption DEF declared
  <2>4. c[n] \in declared(reg) /\ c[n + 1] = reg.decl[c[n]].parent
    BY <2>2, <2>3 DEF parent_of, declared
  <2>5. QED
    BY <1>2, <2>1, <2>4 DEF Closed
<1> HIDE DEF T
<1>3. \A n \in Nat : n \in T
  BY <1>1, <1>2, SetInduction
<1>4. QED
  BY <1>3, SelectionAssumption DEF T, ancestors_of

(* A declared domain is among its ancestors. *)
LEMMA AncestorOfItself ==
    ASSUME NEW reg, WellDeclared(reg), NEW id \in declared(reg),
           IsFiniteSet(Domain), Cardinality(Domain) <= Guard
    PROVE  id \in ancestors_of(reg, id)
<1>1. id \in Domain
  BY DEF declared
<1>2. Cardinality(Domain) \in Nat /\ Cardinality(Domain) # 0
  BY <1>1, FS_CardinalityType, FS_EmptySet
<1>3. 0 \in 0..(Guard - 1)
  BY <1>2, SelectionAssumption
<1>4. QED
  BY <1>1, <1>3, RoundsAre DEF ancestors_of

(* The closure that overlaps computes of a target is the least closed set      *)
(* with its declared domains.                                                  *)
LEMMA ClosureIsLeast ==
    ASSUME NEW reg, WellDeclared(reg), NEW t,
           IsFiniteSet(Domain), Cardinality(Domain) <= Guard
    PROVE  closure(reg, t) = {d \in declared(reg) : \A S \in SUBSET declared(reg) :
              domains_of(reg, t) \cap declared(reg) \subseteq S /\ Closed(reg, S) => d \in S}
<1> DEFINE D == domains_of(reg, t)
           C == closure(reg, t)
<1>1. D \subseteq Domain
  BY DEF domains_of
<1>2. C \subseteq declared(reg)
  BY DEF closure, ancestors_of
<1>3. D \cap declared(reg) \subseteq C
  BY AncestorOfItself DEF closure
<1>4. Closed(reg, C)
  BY <1>1, AncestorsClosed DEF closure, Closed
<1>5. ASSUME NEW S \in SUBSET declared(reg), D \cap declared(reg) \subseteq S, Closed(reg, S)
      PROVE  C \subseteq S
  BY <1>1, <1>5, AncestorsLeast DEF closure
<1>6. QED
  BY <1>2, <1>3, <1>4, <1>5
-----------------------------------------------------------------------------
(* The selected candidate                                                  *)

(* What the comparator reads of a candidate. *)
Ranked(c) == c.target \in Nat /\ c.boot \in Nat /\ rank(c) \in Int

(* The score of a candidate that has the resource of the service is a number. *)
LEMMA RankTyped ==
    ASSUME NEW c, satisfies(c, Service.resources[1]),
           \A i \in DOMAIN c.resources : c.resources[i].amount \in Nat
    PROVE  rank(c) \in Int
<1> DEFINE q == Service.resources[1].amount
           r == CHOOSE i \in DOMAIN c.resources : satisfies_at(c, Service.resources[1], i)
           spare == MinOf(q, c.resources[r].amount - q)
           path == crit_path_ms(c)
           class == cls(infer_continuity(c))
           a == IF c.ready THEN 120000 ELSE 0
           b == IF c.state.available THEN 100000 ELSE 0
           scaled == 6 * q * a + q * (420000 - 14 * MinOf(30000, path)) + q * 200000 * class
                     + 6 * q * b + 6 * 80000 * spare + 6 * q * (60000 + 250000 + 15000)
<1>1. q \in Int /\ q > 0
  BY SelectionAssumption
<1>2. r \in DOMAIN c.resources
  BY DEF satisfies
<1>3. c.resources[r].amount \in Nat
  BY <1>2
<1>4. spare \in Int
  BY <1>1, <1>3 DEF MinOf
<1>5. path \in Int
  BY DEF crit_path_ms, MaxOf
<1>6. class \in Int
  <2>1. \A x \in {"CHECKPOINT_RESTORE", "SESSION_STATE_REBIND", "REPLAY_SAFE_REQUESTS",
                  "STATELESS_RESTART"} : \E i \in DOMAIN Continuity : Continuity[i] = x
    <3>1. /\ DOMAIN Continuity = 1..7 /\ Continuity[1] = "STATELESS_RESTART"
          /\ Continuity[2] = "REPLAY_SAFE_REQUESTS" /\ Continuity[3] = "CHECKPOINT_RESTORE"
          /\ Continuity[4] = "SESSION_STATE_REBIND"
      BY DEF Continuity
    <3>2. 1 \in 1..7 /\ 2 \in 1..7 /\ 3 \in 1..7 /\ 4 \in 1..7
      OBVIOUS
    <3>3. QED
      BY <3>1, <3>2
  <2>2. DOMAIN Continuity \subseteq Int
    BY DEF Continuity
  <2>3. infer_continuity(c) \in {"CHECKPOINT_RESTORE", "SESSION_STATE_REBIND",
                                 "REPLAY_SAFE_REQUESTS", "STATELESS_RESTART"}
    BY DEF infer_continuity
  <2>4. (CHOOSE i \in DOMAIN Continuity : Continuity[i] = infer_continuity(c)) \in DOMAIN Continuity
    BY <2>1, <2>3
  <2>5. QED
    BY <2>2, <2>4 DEF cls
<1>7. a \in Int /\ b \in Int
  OBVIOUS
<1>8. rank(c) = 2 * ((2 * scaled + 6 * q) \div (12 * q)) + (path % 1000)
  BY DEF rank
<1> HIDE DEF q, spare, path, class, a, b
<1>9. MinOf(30000, path) \in Int
  BY <1>5 DEF MinOf
<1>10. /\ 6 * q * a \in Int /\ q * (420000 - 14 * MinOf(30000, path)) \in Int
       /\ q * 200000 * class \in Int /\ 6 * q * b \in Int /\ 6 * 80000 * spare \in Int
       /\ 6 * q * (60000 + 250000 + 15000) \in Int
  BY <1>1, <1>4, <1>6, <1>7, <1>9
<1>11. scaled \in Int
  BY <1>10
<1> HIDE DEF scaled
<1>12. (2 * scaled + 6 * q) \in Int /\ 12 * q \in Int /\ 12 * q > 0
  BY <1>1, <1>11
<1>13. (2 * scaled + 6 * q) \div (12 * q) \in Int
  BY <1>12
<1>14. path % 1000 \in Int
  BY <1>5
<1>15. QED
  BY <1>8, <1>13, <1>14

(* The comparator of the sort is a strict weak order, as std::stable_sort      *)
(* requires, and tells any two workers apart.                                  *)
LEMMA BeforeOrders ==
    ASSUME NEW a, NEW b, NEW c, Ranked(a), Ranked(b), Ranked(c), NEW pref
    PROVE  /\ before(a, b, pref) => ~before(b, a, pref)
           /\ before(a, b, pref) /\ before(b, c, pref) => before(a, c, pref)
           /\ ~before(a, b, pref) /\ ~before(b, c, pref) => ~before(a, c, pref)
           /\ ~before(a, b, pref) /\ ~before(b, a, pref) => a.target = b.target /\ a.boot = b.boot
BY DEF Ranked, before

(* In front of the others after a stable sort of E. *)
Front(cs, E, pref, i) ==
    \A j \in E \ {i} : IF j < i THEN before(cs[i], cs[j], pref) ELSE ~before(cs[j], cs[i], pref)

(* Of finitely many candidates one comes first. *)
LEMMA FrontExists ==
    ASSUME NEW cs, NEW pref, NEW N \in Nat, NEW F \in SUBSET (1..N), F # {},
           \A i \in F : Ranked(cs[i])
    PROVE  \E i \in F : Front(cs, F, pref, i)
<1> DEFINE T == {n \in Nat : \A E \in SUBSET F : E \subseteq 1..n /\ E # {} =>
                                \E i \in E : Front(cs, E, pref, i)}
<1>1. 0 \in T
  <2>1. 1..0 = {}
    OBVIOUS
  <2>2. \A E \in SUBSET F : ~(E \subseteq 1..0 /\ E # {})
    BY <2>1
  <2>3. QED
    BY <2>2
<1>2. ASSUME NEW n \in Nat, n \in T PROVE n + 1 \in T
  <2> SUFFICES ASSUME NEW E \in SUBSET F, E \subseteq 1..(n + 1), E # {}
               PROVE  \E i \in E : Front(cs, E, pref, i)
    OBVIOUS
  <2> DEFINE G == E \ {n + 1}
  <2>1. G \subseteq 1..n /\ G \in SUBSET F
    OBVIOUS
  <2>2. CASE n + 1 \notin E
    BY <1>2, <2>1, <2>2
  <2>3. CASE G = {} /\ n + 1 \in E
    BY <2>3 DEF Front
  <2>4. CASE G # {} /\ n + 1 \in E
    <3>1. PICK i \in G : Front(cs, G, pref, i)
      BY <1>2, <2>1, <2>4
    <3>2. i < n + 1 /\ i \in Nat /\ \A j \in E : j \in Nat
      BY <2>1
    <3>3. \A j \in E : Ranked(cs[j])
      OBVIOUS
    <3>4. CASE before(cs[n + 1], cs[i], pref)
      <4>1. ASSUME NEW j \in G PROVE j < n + 1 /\ before(cs[n + 1], cs[j], pref)
        <5>1. j < n + 1
          BY <2>1
        <5>2. CASE j = i
          BY <3>4, <5>1, <5>2
        <5>3. CASE j # i
          <6>1. IF j < i THEN before(cs[i], cs[j], pref) ELSE ~before(cs[j], cs[i], pref)
            BY <3>1, <5>3 DEF Front
          <6>2. Ranked(cs[n + 1]) /\ Ranked(cs[i]) /\ Ranked(cs[j])
            BY <2>4, <3>3
          <6>3. QED
            BY <3>4, <5>1, <6>1, <6>2, BeforeOrders
        <5>4. QED
          BY <5>2, <5>3
      <4>2. Front(cs, E, pref, n + 1)
        BY <4>1 DEF Front
      <4>3. QED
        BY <2>4, <4>2
    <3>5. CASE ~before(cs[n + 1], cs[i], pref)
      <4>1. Front(cs, E, pref, i)
        BY <3>1, <3>2, <3>5 DEF Front
      <4>2. QED
        BY <3>1, <4>1
    <3>6. QED
      BY <3>4, <3>5
  <2>5. QED
    BY <2>2, <2>3, <2>4
<1> HIDE DEF T
<1>3. N \in T
  BY <1>1, <1>2, SetInduction
<1>4. QED
  BY <1>3 DEF T

Eligible(cs, reg, ctx) == {i \in DOMAIN cs : hard_eligible(cs[i], reg, ctx)}

(* select returns an eligible candidate that no eligible one comes before, if  *)
(* there is one.                                                               *)
LEMMA SelectIsFirst ==
    ASSUME NEW cs, NEW reg, NEW ctx, NEW N \in Nat, DOMAIN cs \subseteq 1..N,
           \A i \in Eligible(cs, reg, ctx) : Ranked(cs[i])
    PROVE  \/ Eligible(cs, reg, ctx) = {} /\ select(cs, reg, ctx) = None
           \/ \E i \in Eligible(cs, reg, ctx) :
                 /\ select(cs, reg, ctx) = cs[i]
                 /\ \A j \in Eligible(cs, reg, ctx) : ~before(cs[j], cs[i], ctx.preferred)
<1> DEFINE E == Eligible(cs, reg, ctx)
           front == CHOOSE i \in E : Front(cs, E, ctx.preferred, i)
<1>1. select(cs, reg, ctx) = IF E = {} THEN None ELSE cs[front]
  BY Zenon DEF select, Eligible, Front
<1>2. CASE E = {}
  BY <1>1, <1>2
<1>3. CASE E # {}
  <2>1. E \in SUBSET (1..N)
    BY DEF Eligible
  <2>2. \E i \in E : Front(cs, E, ctx.preferred, i)
    BY <1>3, <2>1, FrontExists
  <2>3. front \in E /\ Front(cs, E, ctx.preferred, front)
    BY <2>2, Zenon
  <2> HIDE DEF front
  <2>4. ASSUME NEW j \in E PROVE ~before(cs[j], cs[front], ctx.preferred)
    <3>1. Ranked(cs[j]) /\ Ranked(cs[front])
      BY <2>3
    <3>2. CASE j = front
      BY <3>1, <3>2, BeforeOrders
    <3>3. CASE j # front
      BY <2>3, <3>1, <3>3, BeforeOrders DEF Front
    <3>4. QED
      BY <3>2, <3>3
  <2>5. QED
    BY <1>1, <1>3, <2>3, <2>4
<1>4. QED
  BY <1>2, <1>3

(* The candidates may be enumerated in any order, as long as two of one worker *)
(* are the same: select returns the same one.                                  *)
LEMMA OrderIgnored ==
    ASSUME NEW cs, NEW reg, NEW ctx, NEW N \in Nat, DOMAIN cs \subseteq 1..N,
           \A i \in Eligible(cs, reg, ctx) : Ranked(cs[i]),
           \A i, j \in DOMAIN cs : cs[i].target = cs[j].target => cs[i] = cs[j],
           NEW p \in Surjection(DOMAIN cs, DOMAIN cs)
    PROVE  select([i \in DOMAIN cs |-> cs[p[i]]], reg, ctx) = select(cs, reg, ctx)
<1> DEFINE ds == [i \in DOMAIN cs |-> cs[p[i]]]
           E == Eligible(cs, reg, ctx)
           F == Eligible(ds, reg, ctx)
           pref == ctx.preferred
<1>1. DOMAIN ds = DOMAIN cs /\ \A i \in DOMAIN cs : ds[i] = cs[p[i]] /\ p[i] \in DOMAIN cs
  BY DEF Surjection
<1>2. \A j \in DOMAIN cs : \E i \in DOMAIN cs : p[i] = j
  BY DEF Surjection
<1> HIDE DEF ds
<1>3. \A i \in DOMAIN cs : i \in F <=> p[i] \in E
  BY <1>1 DEF Eligible
<1>4. F \subseteq DOMAIN cs /\ E \subseteq DOMAIN cs
  BY <1>1 DEF Eligible
<1> HIDE DEF E, F
<1>5. \A i \in F : Ranked(ds[i])
  BY <1>1, <1>3, <1>4 DEF E
<1>6. \/ E = {} /\ select(cs, reg, ctx) = None
      \/ \E i \in E : select(cs, reg, ctx) = cs[i] /\ \A j \in E : ~before(cs[j], cs[i], pref)
  BY SelectIsFirst DEF E
<1>7. \/ F = {} /\ select(ds, reg, ctx) = None
      \/ \E i \in F : select(ds, reg, ctx) = ds[i] /\ \A j \in F : ~before(ds[j], ds[i], pref)
  BY <1>1, <1>5, SelectIsFirst DEF F
<1>8. CASE E = {}
  <2>1. F = {}
    BY <1>3, <1>4, <1>8
  <2>2. QED
    BY <1>6, <1>7, <1>8, <2>1 DEF ds
<1>9. CASE E # {}
  <2>1. F # {}
    BY <1>2, <1>3, <1>4, <1>9
  <2>2. PICK i \in E : select(cs, reg, ctx) = cs[i] /\ \A j \in E : ~before(cs[j], cs[i], pref)
    BY <1>6, <1>9
  <2>3. PICK k \in F : select(ds, reg, ctx) = ds[k] /\ \A j \in F : ~before(ds[j], ds[k], pref)
    BY <1>7, <2>1
  <2>4. p[k] \in E /\ ds[k] = cs[p[k]]
    BY <1>1, <1>3, <1>4
  <2>5. PICK m \in F : ds[m] = cs[i]
    <3>1. PICK m \in DOMAIN cs : p[m] = i
      BY <1>2, <1>4
    <3>2. m \in F /\ ds[m] = cs[i]
      BY <1>1, <1>3, <3>1
    <3>3. QED
      BY <3>2
  <2>6. ~before(cs[i], cs[p[k]], pref) /\ ~before(cs[p[k]], cs[i], pref)
    BY <2>2, <2>3, <2>4, <2>5
  <2>7. Ranked(cs[i]) /\ Ranked(cs[p[k]])
    BY <2>4 DEF E
  <2>8. cs[i].target = cs[p[k]].target
    BY <2>6, <2>7, BeforeOrders
  <2>9. cs[i] = cs[p[k]]
    BY <1>4, <2>4, <2>8
  <2>10. QED
    BY <2>2, <2>3, <2>4, <2>9 DEF ds
<1>10. QED
  BY <1>8, <1>9
===============================================================================
