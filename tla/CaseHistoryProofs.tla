------------------------- MODULE CaseHistoryProofs -------------------------
(***************************************************************************)
(* Theorems about CaseHistory, for any records, tracking ids that collide  *)
(* or not, readings, evaluations files and sweeps.                         *)
(***************************************************************************)
EXTENDS CaseHistory, TLAPS, FiniteSetTheorems, WellFoundedInduction

-----------------------------------------------------------------------------
(* The groups. *)

LEMMA GreatestExists ==
    ASSUME NEW S \in SUBSET Nat, IsFiniteSet(S), S # {}
    PROVE  \E n \in S : \A m \in S : n >= m
<1> DEFINE Lacking == {U \in FiniteSubsetsOf(Nat) :
                         U # {} /\ ~ \E n \in U : \A m \in U : n >= m}
<1>1. SUFFICES ASSUME S \in Lacking PROVE FALSE
      BY DEF FiniteSubsetsOf
<1>2. PICK U \in Lacking : \A V \in Lacking : <<V, U>> \notin StrictSubsetOrdering(Nat)
      BY <1>1, WFMin, FS_StrictSubsetOrderingWellFounded
<1>3. PICK x \in U : TRUE
      OBVIOUS
<1>4. /\ U \ {x} \in FiniteSubsetsOf(Nat)
      /\ U \in FiniteSubsetsOf(Nat)
      BY <1>3, FS_RemoveElement DEF FiniteSubsetsOf
<1>5. U \ {x} \notin Lacking
      BY <1>2, <1>3, <1>4 DEF StrictSubsetOrdering, FiniteSubsetsOf
<1>6. U \subseteq Nat
      BY <1>4 DEF FiniteSubsetsOf
<1>7. CASE U \ {x} = {}
      BY <1>3, <1>6, <1>7
<1>8. CASE U \ {x} # {}
  <2>1. PICK n \in U \ {x} : \A m \in U \ {x} : n >= m
        BY <1>4, <1>5, <1>8
  <2>2. CASE x > n
    <3>1. \A m \in U : x >= m
          BY <1>3, <1>6, <2>1, <2>2
    <3> QED BY <1>3, <3>1
  <2>3. CASE ~(x > n)
    <3>1. \A m \in U : n >= m
          BY <1>3, <1>6, <2>1, <2>3
    <3> QED BY <2>1, <3>1
  <2> QED BY <2>2, <2>3
<1> QED BY <1>7, <1>8

LEMMA GroupsTyped ==
    ASSUME TypeOK
    PROVE  \A i \in Groups : i \in Identities /\ TrackingId[i] \in TrackingIds /\ i # Nobody
<1>1. \A i \in Groups : i \in Identities
      BY CaseAssumption DEF TypeOK, Groups, OpenNow, Observation
<1>2. \A i \in Identities : TrackingId[i] \in TrackingIds /\ i # Nobody
      BY CaseAssumption DEF Nobody
<1> QED BY <1>1, <1>2

\* An id some current group has is held by one of its groups.
LEMMA GroupOfHolding ==
    ASSUME NEW t \in TrackingIds, t \in GroupedIds, observed \subseteq Observation
    PROVE  GroupOf(t) \in Identities /\ GroupOf(t) \in Groups /\ TrackingId[GroupOf(t)] = t
<1>1. Groups \subseteq Held /\ Held \subseteq Identities
      BY CaseAssumption DEF Groups, OpenNow, Held, Observation
<1>2. Holding(t) # {} /\ Holding(t) \subseteq Groups
      BY DEF GroupedIds, Holding
<1>3. Holding(t) \in SUBSET Nat /\ IsFiniteSet(Holding(t))
      BY <1>1, <1>2, CaseAssumption, FS_Subset
<1>4. \E n \in Holding(t) : \A m \in Holding(t) : n >= m
      BY <1>2, <1>3, GreatestExists
<1>5. GroupOf(t) \in Holding(t)
      BY <1>4, Zenon DEF GroupOf, Max
<1> QED BY <1>1, <1>2, <1>5 DEF Holding

-----------------------------------------------------------------------------
(* Types. *)

LEMMA RecordTyped ==
    ASSUME TypeOK, NEW a \in Artifacts, NEW v \in Versions, NEW content \in Contents,
           Record(a, v, content), asked' \in BOOLEAN
    PROVE  TypeOK'
<1>1. content \subseteq Results
      BY CaseAssumption
<1>2. observed' \subseteq Observation
      BY <1>1 DEF TypeOK, Record, Observation
<1>3. read' \subseteq Artifacts \X Versions
      BY DEF TypeOK, Record
<1> QED BY <1>2, <1>3 DEF TypeOK, Record

LEMMA LinkedTyped ==
    ASSUME TypeOK
    PROVE  /\ Linked(cases) \in [TrackingIds -> Case]
           /\ \A t \in TrackingIds :
                 Linked(cases)[t].holder = Nobody => Linked(cases)[t] = NoCase
<1> SUFFICES ASSUME NEW t \in TrackingIds
             PROVE  /\ Linked(cases)[t] \in Case
                    /\ Linked(cases)[t].holder = Nobody => Linked(cases)[t] = NoCase
    BY DEF Linked
<1>1. CASE t \notin GroupedIds
      BY <1>1 DEF Linked, TypeOK
<1>2. CASE t \in GroupedIds
  <2>1. GroupOf(t) \in Identities /\ GroupOf(t) # Nobody
        BY <1>2, GroupOfHolding, CaseAssumption DEF TypeOK, Nobody
  <2> DEFINE new == UNION {Unlinked(cases, i) : i \in Holding(t)}
  <2>2. new \subseteq Observation
        BY DEF Unlinked, Members, OpenNow, TypeOK
  <2>3. Linked(cases)[t] =
           [cases[t] EXCEPT !.holder = IF @ = Nobody THEN GroupOf(t) ELSE @,
                            !.links = @ \cup new]
        BY <1>2 DEF Linked
  <2> HIDE DEF new
  <2>4. cases[t] \in Case
        BY DEF TypeOK
  <2> QED BY <2>1, <2>2, <2>3, <2>4 DEF Case
<1> QED BY <1>1, <1>2

LEMMA AttestTyped ==
    ASSUME TypeOK, NEW T \in SUBSET TrackingIds, NEW at \in Attested, Attest(T, at)
    PROVE  /\ cases' \in [TrackingIds -> Case]
           /\ \A t \in TrackingIds : cases'[t].holder = Nobody => cases'[t] = NoCase
<1> SUFFICES ASSUME NEW t \in TrackingIds
             PROVE  /\ cases'[t] \in Case
                    /\ cases'[t].holder = Nobody => cases'[t] = NoCase
    BY DEF Attest, AttestedCases
<1>1. cases[t] \in Case /\ (cases[t].holder = Nobody => cases[t] = NoCase)
      BY DEF TypeOK
<1>2. CASE t \notin Attestable(cases, T, at)
      BY <1>1, <1>2 DEF Attest, AttestedCases
<1>3. CASE t \in Attestable(cases, T, at)
  <2>1. cases[t].holder # Nobody
        BY <1>3 DEF Attest, Attestable, Known
  <2>2. cases'[t] = [cases[t] EXCEPT !.attested = at]
        BY <1>3 DEF Attest, AttestedCases
  <2> QED BY <1>1, <2>1, <2>2 DEF Case
<1> QED BY <1>2, <1>3

LEMMA EntryTyped ==
    ASSUME NEW C, NEW f \in Files, NEW t \in Touched(C, f)
    PROVE  /\ EntryFor(C, f, t) \in Entry /\ EntryFor(C, f, t) \in f
           /\ t \in Candidates(C, EntryFor(C, f, t))
<1>1. \E e \in f : t \in Candidates(C, e)
      BY DEF Touched
<1>2. EntryFor(C, f, t) \in f /\ t \in Candidates(C, EntryFor(C, f, t))
      BY <1>1, Zenon DEF EntryFor
<1> QED BY <1>2, CaseAssumption

LEMMA EvaluatedTyped ==
    ASSUME TypeOK, NEW f \in Files
    PROVE  /\ EvaluatedCases(cases, f) \in [TrackingIds -> Case]
           /\ \A t \in TrackingIds :
                 EvaluatedCases(cases, f)[t].holder = Nobody
                    => EvaluatedCases(cases, f)[t] = NoCase
<1> SUFFICES ASSUME NEW t \in TrackingIds
             PROVE  /\ EvaluatedCases(cases, f)[t] \in Case
                    /\ EvaluatedCases(cases, f)[t].holder = Nobody
                          => EvaluatedCases(cases, f)[t] = NoCase
    BY DEF EvaluatedCases
<1>1. cases[t] \in Case /\ (cases[t].holder = Nobody => cases[t] = NoCase)
      BY DEF TypeOK
<1>2. CASE t \notin Touched(cases, f)
      BY <1>1, <1>2 DEF EvaluatedCases
<1>3. CASE t \in Touched(cases, f)
  <2> DEFINE e == EntryFor(cases, f, t)
             c == cases[t]
             next(k) == IF k \in Appended(c, e) THEN e[k] ELSE c[k]
  <2>1. e \in Entry /\ c.holder # Nobody
        BY <1>3, EntryTyped DEF Candidates, Known
  <2>2. EvaluatedCases(cases, f)[t] = EvaluatedCase(c, e)
        BY <1>3 DEF EvaluatedCases
  <2> HIDE DEF e, c
  <2>3. /\ next("completed") \in Times \cup {NoTime}
        /\ next("override") \in Names \cup {Nothing}
        /\ next("disposition") \in Dispositions \cup {Nothing}
        /\ next("reductions") \in SUBSET Reductions
        BY <1>1, <2>1 DEF Entry, Case, c
  <2>4. EvaluatedCase(c, e) =
           [c EXCEPT !.completed = next("completed"), !.override = next("override"),
                     !.disposition = next("disposition"),
                     !.reductions = @ \cup next("reductions")]
        BY DEF EvaluatedCase
  <2> HIDE DEF next
  <2>5. c \in Case
        BY <1>1 DEF c
  <2>6. EvaluatedCase(c, e) \in Case /\ EvaluatedCase(c, e).holder = c.holder
        BY <2>3, <2>4, <2>5 DEF Case
  <2> QED BY <2>1, <2>2, <2>6
<1> QED BY <1>2, <1>3

\* The state keeps its types, and nothing is appended to a case nobody created.
THEOREM TypeCorrect == Spec => []TypeOK
<1>1. Init => TypeOK
  <2> SUFFICES ASSUME Init PROVE TypeOK
      OBVIOUS
  <2>1. NoCase \in Case
        BY DEF NoCase, Case
  <2>2. cases \in [TrackingIds -> Case] /\ \A t \in TrackingIds : cases[t] = NoCase
        BY <2>1 DEF Init
  <2>3. selected \in [Sweeps -> (SUBSET TrackingIds) \cup {Idle}]
        BY DEF Init
  <2> QED BY <2>2, <2>3 DEF Init, TypeOK
<1>2. TypeOK /\ [Next]_vars => TypeOK'
  <2> SUFFICES ASSUME TypeOK, [Next]_vars PROVE TypeOK'
      OBVIOUS
  <2>0. selected \in [Sweeps -> (SUBSET TrackingIds) \cup {Idle}]
        BY DEF TypeOK
  <2>1. ASSUME NEW a \in Artifacts, NEW v \in Versions, NEW content \in Contents,
               Ingest(a, v, content) \/ RecordUnasked(a, v, content)
        PROVE  TypeOK'
        BY <2>1, RecordTyped DEF Ingest, RecordUnasked, TypeOK
  <2>2. CASE Correlate
        BY <2>2, LinkedTyped DEF Correlate, TypeOK
  <2>3. ASSUME NEW T \in SUBSET TrackingIds, NEW at \in Attested, AttestCases(T, at)
        PROVE  TypeOK'
        BY <2>3, AttestTyped DEF AttestCases, Attest, TypeOK
  <2>4. ASSUME NEW s \in Sweeps, SweepSelect(s)
        PROVE  TypeOK'
        BY <2>4 DEF SweepSelect, MissingDetection, Known, TypeOK
  <2>5. ASSUME NEW s \in Sweeps, NEW at \in Attested, SweepAttest(s, at)
        PROVE  TypeOK'
    <3>1. selected[s] \in SUBSET TrackingIds
          BY <2>0, <2>5 DEF SweepAttest
    <3>2. Attest(selected[s], at)
          BY <2>5 DEF SweepAttest
    <3>3. /\ cases' \in [TrackingIds -> Case]
          /\ \A t \in TrackingIds : cases'[t].holder = Nobody => cases'[t] = NoCase
          BY <3>1, <3>2, AttestTyped
    <3>4. selected' \in [Sweeps -> (SUBSET TrackingIds) \cup {Idle}]
          BY <2>0, <2>5 DEF SweepAttest
    <3> QED BY <3>2, <3>3, <3>4 DEF Attest, TypeOK
  <2>6. ASSUME NEW s \in Sweeps, NEW at \in Attested, SweepRefused(s, at)
        PROVE  TypeOK'
    <3>1. selected' \in [Sweeps -> (SUBSET TrackingIds) \cup {Idle}]
          BY <2>0, <2>6 DEF SweepRefused
    <3> QED BY <2>6, <3>1 DEF SweepRefused, TypeOK
  <2>7. ASSUME NEW f \in Files, Evaluate(f)
        PROVE  TypeOK'
        BY <2>7, EvaluatedTyped DEF Evaluate, TypeOK
  <2>8. CASE UNCHANGED vars
        BY <2>8 DEF vars, TypeOK
  <2> QED BY <2>1, <2>2, <2>3, <2>4, <2>5, <2>6, <2>7, <2>8 DEF Next
<1> QED BY <1>1, <1>2, PTL DEF Spec

-----------------------------------------------------------------------------
(* One record per case. *)

\* While ingest refuses, no id is held by two identities; whoever records, a case holds
\* observations of its own id only.
DistinctHeld == asked => \A i, j \in Held : TrackingId[i] = TrackingId[j] => i = j

OwnId(C) ==
    \A t \in TrackingIds :
        /\ C[t].holder # Nobody => C[t].holder \in Held /\ TrackingId[C[t].holder] = t
        /\ C[t].links \subseteq observed
        /\ \A l \in C[t].links : TrackingId[l.identity] = t

LEMMA RecordKeepsIds ==
    ASSUME TypeOK, DistinctHeld, OwnId(cases),
           NEW a \in Artifacts, NEW v \in Versions, NEW content \in Contents,
           Ingest(a, v, content) \/ RecordUnasked(a, v, content)
    PROVE  DistinctHeld' /\ OwnId(cases)'
<1>1. Record(a, v, content)
      BY DEF Ingest, RecordUnasked
<1> DEFINE brought == {r.identity : r \in content}
<1>2. Held' = Held \cup brought
  <2> DEFINE new == {[artifact |-> a, version |-> v, identity |-> r.identity, open |-> r.open,
                      at |-> r.at] : r \in content}
  <2>1. observed' = observed \cup new
        BY <1>1 DEF Record
  <2>2. {o.identity : o \in new} = brought
    <3>1. ASSUME NEW r \in content
          PROVE  \E o \in new : o.identity = r.identity
      <4> DEFINE o == [artifact |-> a, version |-> v, identity |-> r.identity, open |-> r.open,
                       at |-> r.at]
      <4>1. o \in new
            OBVIOUS
      <4>2. o.identity = r.identity
            OBVIOUS
      <4> QED BY <4>1, <4>2
    <3>2. \A o \in new : \E r \in content : o.identity = r.identity
          OBVIOUS
    <3> QED BY <3>1, <3>2
  <2> HIDE DEF new, brought
  <2> QED BY <2>1, <2>2 DEF Held
<1>3. DistinctHeld'
  <2>1. CASE Ingest(a, v, content)
    <3>1. \A i \in brought, j \in Held \cup brought : TrackingId[i] = TrackingId[j] => i = j
          BY <2>1 DEF Ingest, Refused
    <3>2. asked' = asked
          BY <2>1 DEF Ingest
    <3> HIDE DEF brought
    <3> QED BY <1>2, <3>1, <3>2 DEF DistinctHeld
  <2>2. CASE RecordUnasked(a, v, content)
        BY <2>2 DEF RecordUnasked, DistinctHeld
  <2> QED BY <2>1, <2>2
<1>4. OwnId(cases)'
  <2>1. cases' = cases /\ observed \subseteq observed' /\ Held \subseteq Held'
        BY <1>1, <1>2 DEF Record
  <2> QED BY <2>1 DEF OwnId
<1> QED BY <1>3, <1>4

LEMMA LinkedKeepsIds ==
    ASSUME TypeOK, OwnId(cases)
    PROVE  OwnId(Linked(cases))
<1> SUFFICES ASSUME NEW t \in TrackingIds
             PROVE  /\ Linked(cases)[t].holder # Nobody
                          => /\ Linked(cases)[t].holder \in Held
                             /\ TrackingId[Linked(cases)[t].holder] = t
                    /\ Linked(cases)[t].links \subseteq observed
                    /\ \A l \in Linked(cases)[t].links : TrackingId[l.identity] = t
    BY DEF OwnId
<1>1. CASE t \notin GroupedIds
      BY <1>1 DEF Linked, OwnId
<1>2. CASE t \in GroupedIds
  <2>1. GroupOf(t) \in Held /\ TrackingId[GroupOf(t)] = t
        BY <1>2, GroupOfHolding DEF TypeOK, Groups, OpenNow, Held
  <2> DEFINE new == UNION {Unlinked(cases, i) : i \in Holding(t)}
  <2>2. new \subseteq observed /\ \A l \in new : TrackingId[l.identity] = t
        BY DEF Unlinked, Members, OpenNow, Holding
  <2>3. Linked(cases)[t] =
           [cases[t] EXCEPT !.holder = IF @ = Nobody THEN GroupOf(t) ELSE @,
                            !.links = @ \cup new]
        BY <1>2 DEF Linked
  <2> HIDE DEF new
  <2>4. cases[t] \in Case
        BY DEF TypeOK
  <2>5. /\ Linked(cases)[t].holder \in {cases[t].holder, GroupOf(t)}
        /\ cases[t].holder = Nobody => Linked(cases)[t].holder = GroupOf(t)
        /\ Linked(cases)[t].links = cases[t].links \cup new
        BY <2>3, <2>4 DEF Case
  <2> QED BY <2>1, <2>2, <2>5 DEF OwnId
<1> QED BY <1>1, <1>2

\* What attestations and evaluations leave alone.
LEMMA AttestLeaves ==
    ASSUME TypeOK, NEW T \in SUBSET TrackingIds, NEW at \in Attested, Attest(T, at),
           NEW t \in TrackingIds
    PROVE  /\ cases'[t].holder = cases[t].holder /\ cases'[t].links = cases[t].links
           /\ cases'[t].completed = cases[t].completed
           /\ cases'[t].override = cases[t].override
           /\ cases'[t].disposition = cases[t].disposition
           /\ cases'[t].attested =
                 IF t \in Attestable(cases, T, at) THEN at ELSE cases[t].attested
<1>1. cases[t] \in Case
      BY DEF TypeOK
<1>2. cases'[t] = IF t \in Attestable(cases, T, at)
                  THEN [cases[t] EXCEPT !.attested = at] ELSE cases[t]
      BY DEF Attest, AttestedCases
<1> QED BY <1>1, <1>2 DEF Case

LEMMA LinkedLeaves ==
    ASSUME TypeOK, NEW t \in TrackingIds
    PROVE  /\ Linked(cases)[t].completed = cases[t].completed
           /\ Linked(cases)[t].attested = cases[t].attested
           /\ Linked(cases)[t].override = cases[t].override
           /\ Linked(cases)[t].disposition = cases[t].disposition
           /\ cases[t].holder # Nobody => Linked(cases)[t].holder = cases[t].holder
<1>1. cases[t] \in Case
      BY DEF TypeOK
<1> DEFINE new == UNION {Unlinked(cases, i) : i \in Holding(t)}
<1>2. \/ Linked(cases)[t] = cases[t]
      \/ Linked(cases)[t] =
            [cases[t] EXCEPT !.holder = IF @ = Nobody THEN GroupOf(t) ELSE @,
                             !.links = @ \cup new]
      BY DEF Linked
<1> HIDE DEF new
<1> QED BY <1>1, <1>2 DEF Case

LEMMA EvaluatedLeaves ==
    ASSUME TypeOK, NEW f \in Files, NEW t \in TrackingIds
    PROVE  LET c == cases[t]
               d == EvaluatedCases(cases, f)[t]
               e == EntryFor(cases, f, t)
           IN /\ d.holder = c.holder /\ d.links = c.links /\ d.attested = c.attested
              /\ t \notin Touched(cases, f) => d = c
              /\ t \in Touched(cases, f) =>
                    /\ e \in Entry /\ c.holder # Nobody
                    /\ d.completed = e.completed
                    /\ d.override = IF e.override = Nothing THEN c.override ELSE e.override
<1> DEFINE c == cases[t]
           d == EvaluatedCases(cases, f)[t]
           e == EntryFor(cases, f, t)
           next(k) == IF k \in Appended(c, e) THEN e[k] ELSE c[k]
<1>1. c \in Case
      BY DEF TypeOK
<1>2. t \notin Touched(cases, f) => d = c
      BY DEF EvaluatedCases
<1>3. CASE t \in Touched(cases, f)
  <2>1. e \in Entry /\ c.holder # Nobody
        BY <1>3, EntryTyped DEF Candidates, Known
  <2>2. d = EvaluatedCase(c, e)
        BY <1>3 DEF EvaluatedCases
  <2> HIDE DEF c, d, e
  <2>3. /\ next("completed") = e.completed
        /\ next("override") = IF e.override = Nothing THEN c.override ELSE e.override
        BY <1>1, <2>1 DEF Appended, Entry, Case
  <2>4. d = [c EXCEPT !.completed = next("completed"), !.override = next("override"),
                      !.disposition = next("disposition"),
                      !.reductions = @ \cup next("reductions")]
        BY <2>2 DEF EvaluatedCase
  <2> HIDE DEF next
  <2>5. /\ d.holder = c.holder /\ d.links = c.links /\ d.attested = c.attested
        /\ d.completed = next("completed") /\ d.override = next("override")
        BY <1>1, <2>4 DEF Case
  <2>6. /\ d.completed = e.completed
        /\ d.override = IF e.override = Nothing THEN c.override ELSE e.override
        BY <2>3, <2>5
  <2> QED BY <1>3, <2>1, <2>5, <2>6 DEF c, d, e
<1> QED BY <1>2, <1>3

LEMMA IdsKept == Spec => [](DistinctHeld /\ OwnId(cases))
<1> DEFINE Kept == DistinctHeld /\ OwnId(cases)
<1>1. Init => Kept
      BY DEF Init, DistinctHeld, OwnId, Held, NoCase
<1>2. TypeOK /\ Kept /\ [Next]_vars => Kept'
  <2> SUFFICES ASSUME TypeOK, Kept, [Next]_vars PROVE Kept'
      OBVIOUS
  <2>1. ASSUME NEW a \in Artifacts, NEW v \in Versions, NEW content \in Contents,
               Ingest(a, v, content) \/ RecordUnasked(a, v, content)
        PROVE  Kept'
        BY <2>1, RecordKeepsIds
  <2>2. ASSUME UNCHANGED <<observed, asked>>, OwnId(cases')
        PROVE  Kept'
        BY <2>2 DEF DistinctHeld, OwnId, Held
  <2>3. CASE Correlate
    <3>1. OwnId(cases')
          BY <2>3, LinkedKeepsIds DEF Correlate
    <3> QED BY <2>2, <2>3, <3>1 DEF Correlate
  <2>4. ASSUME NEW T \in SUBSET TrackingIds, NEW at \in Attested, Attest(T, at)
        PROVE  Kept'
    <3>1. ASSUME NEW t \in TrackingIds
          PROVE  cases'[t].holder = cases[t].holder /\ cases'[t].links = cases[t].links
          BY <2>4, AttestLeaves
    <3>3. UNCHANGED observed
          BY <2>4 DEF Attest
    <3>4. Held' = Held
          BY <3>3 DEF Held
    <3>2. OwnId(cases')
          BY <3>1, <3>3, <3>4 DEF OwnId
    <3> QED BY <2>2, <2>4, <3>2 DEF Attest
  <2>5. ASSUME NEW s \in Sweeps, NEW at \in Attested, SweepAttest(s, at)
        PROVE  Kept'
    <3>1. selected[s] \in SUBSET TrackingIds /\ Attest(selected[s], at)
          BY <2>5 DEF SweepAttest, TypeOK
    <3> QED BY <2>4, <3>1
  <2>6. ASSUME NEW f \in Files, Evaluate(f)
        PROVE  Kept'
    <3>1. OwnId(cases')
          BY <2>6, EvaluatedLeaves DEF OwnId, Evaluate
    <3> QED BY <2>2, <2>6, <3>1 DEF Evaluate
  <2>7. ASSUME UNCHANGED <<observed, asked, cases>>
        PROVE  Kept'
        BY <2>2, <2>7
  <2> QED BY <2>1, <2>3, <2>4, <2>5, <2>6, <2>7
          DEF Next, AttestCases, SweepSelect, SweepRefused, vars
<1> QED BY <1>1, <1>2, TypeCorrect, PTL DEF Spec

\* A case created under ingest's refusals is of one record, whatever ids collide.
THEOREM OneRecordPerCase == Spec => []CaseHoldsOneRecord
<1>1. TypeOK /\ DistinctHeld /\ OwnId(cases) => CaseHoldsOneRecord
  <2> SUFFICES ASSUME TypeOK, DistinctHeld, OwnId(cases), asked = TRUE
               PROVE  /\ \A t \in Known(cases) :
                            /\ \A l \in cases[t].links : l.identity = cases[t].holder
                            /\ \A i \in Groups : TrackingId[i] = t => i = cases[t].holder
                      /\ ~Conflict(cases)
      BY DEF CaseHoldsOneRecord, TypeOK
  <2>1. \A i, j \in Held : TrackingId[i] = TrackingId[j] => i = j
        BY DEF DistinctHeld
  <2>2. Groups \subseteq Held
        BY DEF Groups, OpenNow, Held
  <2>3. ASSUME NEW t \in Known(cases)
        PROVE  /\ \A l \in cases[t].links : l.identity = cases[t].holder
               /\ \A i \in Groups : TrackingId[i] = t => i = cases[t].holder
    <3>1. t \in TrackingIds /\ cases[t].holder \in Held /\ TrackingId[cases[t].holder] = t
          BY DEF Known, OwnId
    <3>2. \A l \in cases[t].links : l.identity \in Held /\ TrackingId[l.identity] = t
          BY <3>1 DEF OwnId, Held
    <3> QED BY <2>1, <2>2, <3>1, <3>2
  <2>4. ~Conflict(cases)
        BY <2>1, <2>2 DEF Conflict
  <2> QED BY <2>3, <2>4
<1> QED BY <1>1, TypeCorrect, IdsKept, PTL

-----------------------------------------------------------------------------
(* What a report refuses. *)

\* A case that has an evaluation was created.
LEMMA EvaluatedKnown ==
    ASSUME TypeOK, NEW t \in TrackingIds, cases[t].completed # NoTime
    PROVE  t \in Known(cases)
BY DEF TypeOK, Known, NoCase

LEMMA VerifyAgrees ==
    ASSUME TypeOK
    PROVE  VerifyNamesRefusals
<1>1. \A i \in Groups : TrackingId[i] \in TrackingIds /\ TrackingId[i] \in GroupedIds
      BY GroupsTyped DEF GroupedIds
<1>2. \A t \in TrackingIds : t \in GroupedIds =>
          GroupOf(t) \in Groups /\ TrackingId[GroupOf(t)] = t
      BY GroupOfHolding DEF TypeOK
<1>3. GroupedIds \subseteq TrackingIds
      BY <1>1 DEF GroupedIds
<1>4. ASSUME Compiles(cases)
      PROVE  Undetected(cases) = {} /\ Faults(cases) = {}
  <2>1. OrderFaults(cases) = {}
    <3> SUFFICES ASSUME NEW t \in OrderFaults(cases) PROVE FALSE
        OBVIOUS
    <3>1. t \in TrackingIds /\ t \in GroupedIds
          BY DEF OrderFaults, Known
    <3>2. GroupOf(t) \in Groups /\ TrackingId[GroupOf(t)] = t
          BY <1>2, <3>1
    <3>3. GroupOf(t) \in Misordered(cases)
          BY <3>2 DEF OrderFaults, Misordered, CaseOf
    <3> QED BY <1>4, <3>3 DEF Compiles
  <2>2. Collisions(cases) = {}
        BY <1>4 DEF Compiles, Collisions, Holding
  <2> QED BY <1>4, <2>1, <2>2 DEF Compiles, Faults
<1>5. ASSUME Undetected(cases) = {}, Faults(cases) = {}
      PROVE  Compiles(cases)
  <2>1. OrderFaults(cases) = {} /\ Collisions(cases) = {} /\ DispositionFaults(cases) = {}
        BY <1>5 DEF Faults
  <2>2. \A i, j \in Groups : Published(cases, i) = Published(cases, j) => i = j
    <3> SUFFICES ASSUME NEW i \in Groups, NEW j \in Groups, i # j,
                        Published(cases, i) = Published(cases, j)
                 PROVE  FALSE
        OBVIOUS
    <3>1. TrackingId[i] \in Collisions(cases)
          BY <1>1 DEF Collisions, Holding
    <3> QED BY <2>1, <3>1
  <2>3. Misordered(cases) = {}
    <3> SUFFICES ASSUME NEW i \in Groups,
                        Precedes(i, CaseOf(cases, i).attested, CaseOf(cases, i).completed)
                 PROVE  FALSE
        BY DEF Misordered
    <3> DEFINE t == TrackingId[i]
               g == GroupOf(t)
    <3>1. t \in TrackingIds /\ t \in GroupedIds /\ g \in Groups /\ TrackingId[g] = t
          BY <1>1, <1>2
    <3>2. t \in Known(cases)
          BY <3>1, EvaluatedKnown DEF Precedes, CaseOf
    <3>3. CASE i = g
      <4>1. t \in OrderFaults(cases)
            BY <3>1, <3>2, <3>3 DEF OrderFaults, CaseOf
      <4> QED BY <2>1, <4>1
    <3>4. CASE i # g
      <4>1. Published(cases, i) = Published(cases, g)
            BY <3>1 DEF Published, CaseOf
      <4> QED BY <2>2, <3>1, <3>4, <4>1
    <3> QED BY <3>3, <3>4
  <2> QED BY <1>5, <2>1, <2>2, <2>3 DEF Compiles
<1> QED BY <1>4, <1>5 DEF VerifyNamesRefusals

\* store verify names what a report refuses, missing detection times apart, and nothing more,
\* though the two walk the groups differently (tracking_id_collision_faults).
THEOREM RefusalsNamed == Spec => []VerifyNamesRefusals
<1> QED BY VerifyAgrees, TypeCorrect, PTL

-----------------------------------------------------------------------------
(* What commands on cases leave as it was. *)

LEMMA LinkedKeepsOrder ==
    ASSUME TypeOK
    PROVE  OrderFaults(Linked(cases)) \subseteq OrderFaults(cases)
<1> SUFFICES ASSUME NEW t \in OrderFaults(Linked(cases)) PROVE t \in OrderFaults(cases)
    OBVIOUS
<1>1. /\ t \in TrackingIds /\ t \in GroupedIds
      /\ Precedes(GroupOf(t), Linked(cases)[t].attested, Linked(cases)[t].completed)
      BY DEF OrderFaults, Known
<1>2. Precedes(GroupOf(t), cases[t].attested, cases[t].completed)
      BY <1>1, LinkedLeaves
<1>3. t \in Known(cases)
      BY <1>1, <1>2, EvaluatedKnown DEF Precedes
<1> QED BY <1>1, <1>2, <1>3 DEF OrderFaults

LEMMA AttestKeepsOrder ==
    ASSUME TypeOK, NEW T \in SUBSET TrackingIds, NEW at \in Attested, Attest(T, at)
    PROVE  OrderFaults(cases') \subseteq OrderFaults(cases)
<1> SUFFICES ASSUME NEW t \in TrackingIds, t \in GroupedIds,
                    Precedes(GroupOf(t), cases'[t].attested, cases'[t].completed)
             PROVE  t \in OrderFaults(cases)
    BY DEF OrderFaults, Known
<1>1. /\ cases'[t].completed = cases[t].completed
      /\ cases'[t].attested = IF t \in Attestable(cases, T, at) THEN at ELSE cases[t].attested
      BY AttestLeaves
<1>2. Precedes(GroupOf(t), cases[t].attested, cases[t].completed)
  <2>1. CASE t \notin Attestable(cases, T, at)
        BY <1>1, <2>1
  <2>2. CASE t \in Attestable(cases, T, at)
    <3>1. Precedes(GroupOf(t), at, cases[t].completed)
          BY <1>1, <2>2
    <3>2. Clocks(GroupOf(t)) # {}
          BY <2>2, <3>1 DEF Attest, AttestationBlocked
    <3> QED BY <3>1, <3>2 DEF Precedes, Detected
  <2> QED BY <2>1, <2>2
<1>3. t \in Known(cases)
      BY <1>2, EvaluatedKnown DEF Precedes
<1> QED BY <1>2, <1>3 DEF OrderFaults

LEMMA EvaluatedKeepsOrder ==
    ASSUME TypeOK, NEW f \in Files, Ordered(cases, f)
    PROVE  OrderFaults(EvaluatedCases(cases, f)) \subseteq OrderFaults(cases)
<1> DEFINE D == EvaluatedCases(cases, f)
<1> SUFFICES ASSUME NEW t \in OrderFaults(D) PROVE t \in OrderFaults(cases)
    OBVIOUS
<1>1. /\ t \in TrackingIds /\ t \in GroupedIds
      /\ Precedes(GroupOf(t), D[t].attested, D[t].completed)
      BY DEF OrderFaults, Known
<1>2. t \notin Touched(cases, f)
  <2> SUFFICES ASSUME t \in Touched(cases, f) PROVE FALSE
      OBVIOUS
  <2>1. D[t].attested = cases[t].attested /\ D[t].completed = EntryFor(cases, f, t).completed
        BY <1>1, EvaluatedLeaves
  <2>2. Precedes(GroupOf(t), cases[t].attested, EntryFor(cases, f, t).completed)
        BY <1>1, <2>1
  <2> QED BY <1>1, <2>2 DEF Ordered
<1>3. D[t] = cases[t]
      BY <1>1, <1>2, EvaluatedLeaves
<1> HIDE DEF D
<1>4. t \in Known(cases)
      BY <1>1, <1>3, EvaluatedKnown DEF Precedes
<1> QED BY <1>1, <1>3, <1>4 DEF OrderFaults

\* A step that changes a case is a correlation, an attestation or an evaluations file.
LEMMA Commands ==
    ASSUME TypeOK, [Next]_vars, cases' # cases
    PROVE  \/ cases' = Linked(cases)
           \/ \E T \in SUBSET TrackingIds, at \in Attested : Attest(T, at)
           \/ \E f \in Files : Evaluate(f)
<1>1. ASSUME NEW s \in Sweeps, NEW at \in Attested, SweepAttest(s, at)
      PROVE  \E T \in SUBSET TrackingIds : Attest(T, at)
  <2>1. selected[s] \in SUBSET TrackingIds /\ Attest(selected[s], at)
        BY <1>1 DEF SweepAttest, TypeOK
  <2> QED BY <2>1
<1>2. ~UNCHANGED vars
      BY DEF vars
<1> QED BY <1>1, <1>2
        DEF Next, Ingest, RecordUnasked, Record, Correlate, AttestCases, SweepSelect,
            SweepRefused

LEMMA CommandsKeepOrder ==
    ASSUME TypeOK, [Next]_vars, cases' # cases
    PROVE  OrderFaults(cases') \subseteq OrderFaults(cases)
<1>1. CASE cases' = Linked(cases)
      BY <1>1, LinkedKeepsOrder
<1>2. ASSUME NEW T \in SUBSET TrackingIds, NEW at \in Attested, Attest(T, at)
      PROVE  OrderFaults(cases') \subseteq OrderFaults(cases)
      BY <1>2, AttestKeepsOrder
<1>3. ASSUME NEW f \in Files, Evaluate(f)
      PROVE  OrderFaults(cases') \subseteq OrderFaults(cases)
  <2>1. Ordered(cases, f) /\ cases' = EvaluatedCases(cases, f)
        BY <1>3 DEF Evaluate, Accepted
  <2> QED BY <2>1, EvaluatedKeepsOrder
<1> QED BY <1>1, <1>2, <1>3, Commands

\* No order of correlations, attestations and evaluations files leaves an evaluation before
\* its record's own detection time that was not there before (_require_evaluation_order,
\* _require_attestation_order).
THEOREM NoOrderFault == Spec => NoOrderFaultWritten
<1>1. TypeOK /\ [Next]_vars =>
         [cases' # cases => OrderFaults(cases') \subseteq OrderFaults(cases)]_vars
      BY CommandsKeepOrder
<1> QED BY <1>1, TypeCorrect, PTL DEF Spec, NoOrderFaultWritten

-----------------------------------------------------------------------------
(* A report that compiled. *)

\* An override is written with an evaluation or after one.
OverrideEvaluated ==
    \A t \in TrackingIds : cases[t].completed = NoTime => cases[t].override = Nothing

LEMMA OverridesEvaluated == Spec => []OverrideEvaluated
<1>1. Init => OverrideEvaluated
      BY DEF Init, OverrideEvaluated, NoCase
<1>2. TypeOK /\ OverrideEvaluated /\ [Next]_vars => OverrideEvaluated'
  <2> SUFFICES ASSUME TypeOK, OverrideEvaluated, [Next]_vars, cases' # cases,
                      NEW t \in TrackingIds, cases'[t].completed = NoTime
               PROVE  cases'[t].override = Nothing
      BY DEF OverrideEvaluated
  <2>1. CASE cases' = Linked(cases)
        BY <2>1, LinkedLeaves DEF OverrideEvaluated
  <2>2. ASSUME NEW T \in SUBSET TrackingIds, NEW at \in Attested, Attest(T, at)
        PROVE  cases'[t].override = Nothing
        BY <2>2, AttestLeaves DEF OverrideEvaluated
  <2>3. ASSUME NEW f \in Files, Evaluate(f)
        PROVE  cases'[t].override = Nothing
    <3>1. cases' = EvaluatedCases(cases, f)
          BY <2>3 DEF Evaluate
    <3>2. t \notin Touched(cases, f)
      <4>1. t \in Touched(cases, f) => /\ EntryFor(cases, f, t) \in Entry
                                       /\ cases'[t].completed = EntryFor(cases, f, t).completed
            BY <3>1, EvaluatedLeaves
      <4> QED BY <4>1, CaseAssumption DEF Entry
    <3>3. cases'[t] = cases[t]
          BY <3>1, <3>2, EvaluatedLeaves
    <3> QED BY <3>3 DEF OverrideEvaluated
  <2> QED BY <2>1, <2>2, <2>3, Commands
<1> QED BY <1>1, <1>2, TypeCorrect, PTL DEF Spec

\* What decides whether a report compiles, when every group has a case of its own.
LEMMA CompilesOf ==
    ASSUME TypeOK, \A i \in Groups : CaseOf(cases, i).holder = i, Compiles(cases), NEW D,
           DispositionFaults(D) = {},
           OrderFaults(D) \subseteq OrderFaults(cases),
           \A i \in Groups : CaseOf(D, i).attested = NoTime => CaseOf(cases, i).attested = NoTime,
           \A t \in Known(cases) : D[t].holder = cases[t].holder,
           \A i, j \in Groups : Published(D, i) = Published(D, j) => i = j
    PROVE  Compiles(D)
<1>1. \A i \in Groups : i \in Identities /\ TrackingId[i] \in TrackingIds /\ i # Nobody
      BY GroupsTyped
<1>2. \A i \in Groups : TrackingId[i] \in Known(cases) /\ TrackingId[i] \in Known(D)
      BY <1>1 DEF Known, CaseOf
<1>3. \A i \in Groups : GroupOf(TrackingId[i]) = i
  <2> SUFFICES ASSUME NEW i \in Groups PROVE GroupOf(TrackingId[i]) = i
      OBVIOUS
  <2> DEFINE g == GroupOf(TrackingId[i])
  <2>1. g \in Groups /\ TrackingId[g] = TrackingId[i]
        BY <1>1, GroupOfHolding DEF GroupedIds, TypeOK
  <2>2. CaseOf(cases, g) = CaseOf(cases, i)
        BY <2>1 DEF CaseOf
  <2> QED BY <2>1, <2>2
<1>4. OrderFaults(D) = {}
  <2>1. Faults(cases) = {}
        BY VerifyAgrees DEF VerifyNamesRefusals
  <2> QED BY <2>1 DEF Faults
<1>5. Misordered(D) = {}
  <2> SUFFICES ASSUME NEW i \in Groups,
                      Precedes(i, CaseOf(D, i).attested, CaseOf(D, i).completed)
               PROVE  FALSE
      BY DEF Misordered
  <2>1. TrackingId[i] \in OrderFaults(D)
        BY <1>2, <1>3 DEF OrderFaults, GroupedIds, CaseOf
  <2> QED BY <1>4, <2>1
<1>6. Undetected(D) = {}
  <2> SUFFICES ASSUME NEW i \in Groups, Detected(i, CaseOf(D, i).attested) = NoTime
               PROVE  FALSE
      BY DEF Undetected
  <2>1. Detected(i, CaseOf(cases, i).attested) = NoTime
        BY DEF Detected
  <2> QED BY <2>1 DEF Compiles, Undetected
<1> QED BY <1>5, <1>6 DEF Compiles

\* Overrides and evaluations decide the published ids; no command but evaluate writes them.
LEMMA PublishedKept ==
    ASSUME TypeOK, Compiles(cases), NEW D,
           \A t \in TrackingIds : /\ D[t].completed = cases[t].completed
                                  /\ D[t].override = cases[t].override
                                  /\ D[t].disposition = cases[t].disposition
    PROVE  /\ \A i, j \in Groups : Published(D, i) = Published(D, j) => i = j
           /\ DispositionFaults(D) = {}
<1>1. \A i \in Groups : TrackingId[i] \in TrackingIds
      BY GroupsTyped
<1>2. \A i \in Groups : Published(D, i) = Published(cases, i)
      BY <1>1 DEF Published, Effective, CaseOf
<1>3. DispositionFaults(D) \subseteq DispositionFaults(cases)
  <2> SUFFICES ASSUME NEW t \in TrackingIds, cases[t].disposition # Nothing,
                      cases[t].completed = NoTime
               PROVE  t \in DispositionFaults(cases)
      BY DEF DispositionFaults, Known
  <2>1. cases[t] # NoCase
        BY DEF NoCase
  <2> QED BY <2>1 DEF DispositionFaults, Known, TypeOK
<1> QED BY <1>2, <1>3 DEF Compiles

LEMMA EvaluatedPublishes ==
    ASSUME TypeOK, OverrideEvaluated, Compiles(cases), NEW f \in Files, Unique(cases, f),
           \A i \in Groups : CaseOf(cases, i).holder = i
    PROVE  LET D == EvaluatedCases(cases, f)
           IN /\ \A i, j \in Groups : Published(D, i) = Published(D, j) => i = j
              /\ DispositionFaults(D) = {}
<1> DEFINE D == EvaluatedCases(cases, f)
<1>1. \A i \in Groups : TrackingId[i] \in TrackingIds /\ i # Nobody
      BY GroupsTyped
<1>2. \A t \in TrackingIds : t \notin Touched(cases, f) => D[t] = cases[t]
      BY EvaluatedLeaves
<1>3. \A t \in TrackingIds : t \in Touched(cases, f) =>
          /\ D[t].completed # NoTime
          /\ D[t].override = IF EntryFor(cases, f, t).override = Nothing
                             THEN cases[t].override ELSE EntryFor(cases, f, t).override
  <2> SUFFICES ASSUME NEW t \in TrackingIds, t \in Touched(cases, f)
               PROVE  /\ D[t].completed # NoTime
                      /\ D[t].override = IF EntryFor(cases, f, t).override = Nothing
                                         THEN cases[t].override
                                         ELSE EntryFor(cases, f, t).override
      OBVIOUS
  <2>1. /\ EntryFor(cases, f, t) \in Entry
        /\ D[t].completed = EntryFor(cases, f, t).completed
        /\ D[t].override = IF EntryFor(cases, f, t).override = Nothing
                           THEN cases[t].override ELSE EntryFor(cases, f, t).override
        BY EvaluatedLeaves
  <2>2. EntryFor(cases, f, t).completed # NoTime
        BY <2>1, CaseAssumption DEF Entry
  <2> QED BY <2>1, <2>2
<1> HIDE DEF D
<1>4. \A i \in Groups : Published(D, i) = Stated(cases, f, TrackingId[i])
  <2> SUFFICES ASSUME NEW i \in Groups
               PROVE  Published(D, i) = Stated(cases, f, TrackingId[i])
      OBVIOUS
  <2> DEFINE t == TrackingId[i]
  <2>1. CASE t \in Touched(cases, f)
    <3>1. /\ D[t].completed # NoTime
          /\ D[t].override = IF EntryFor(cases, f, t).override = Nothing
                             THEN cases[t].override ELSE EntryFor(cases, f, t).override
          BY <1>1, <1>3, <2>1
    <3>2. Published(D, i) = IF D[t].override = Nothing THEN t ELSE D[t].override
          BY <3>1 DEF Published, CaseOf, Effective
    <3> QED BY <2>1, <3>1, <3>2 DEF Stated, Effective
  <2>2. CASE t \notin Touched(cases, f)
    <3>1. D[t] = cases[t] /\ (cases[t].completed = NoTime => cases[t].override = Nothing)
          BY <1>1, <1>2, <2>2 DEF OverrideEvaluated
    <3> QED BY <2>2, <3>1 DEF Published, CaseOf, Stated, Effective
  <2> QED BY <2>1, <2>2
<1>5. \A i \in Groups : TrackingId[i] \in Claimants(cases, f)
  <2> SUFFICES ASSUME NEW i \in Groups PROVE TrackingId[i] \in Claimants(cases, f)
      OBVIOUS
  <2>1. TrackingId[i] \in Known(cases) /\ TrackingId[i] \in GroupedIds
        BY <1>1 DEF Known, CaseOf, GroupedIds
  <2>2. ~Unread(cases, TrackingId[i])
        BY <1>1 DEF OverrideEvaluated, Unread, Effective
  <2> QED BY <2>1, <2>2 DEF Claimants
<1>6. \A i, j \in Groups : Published(D, i) = Published(D, j) => i = j
  <2> SUFFICES ASSUME NEW i \in Groups, NEW j \in Groups, Published(D, i) = Published(D, j)
               PROVE  i = j
      OBVIOUS
  <2>1. TrackingId[i] = TrackingId[j]
        BY <1>4, <1>5 DEF Unique
  <2>2. CaseOf(cases, i) = CaseOf(cases, j)
        BY <2>1 DEF CaseOf
  <2> QED BY <2>2
<1>7. DispositionFaults(D) = {}
  <2> SUFFICES ASSUME NEW t \in TrackingIds, D[t].holder # Nobody,
                      D[t].disposition # Nothing, D[t].completed = NoTime
               PROVE  FALSE
      BY DEF DispositionFaults, Known
  <2>1. D[t] = cases[t]
        BY <1>2, <1>3
  <2>2. t \in DispositionFaults(cases)
        BY <2>1 DEF DispositionFaults, Known
  <2> QED BY <2>2 DEF Compiles
<1> QED BY <1>6, <1>7 DEF D

LEMMA CommandsCompile ==
    ASSUME TypeOK, OverrideEvaluated, [Next]_vars, cases' # cases,
           \A i \in Groups : CaseOf(cases, i).holder = i, Compiles(cases)
    PROVE  Compiles(cases')
<1>1. OrderFaults(cases') \subseteq OrderFaults(cases)
      BY CommandsKeepOrder
<1>2. \A i \in Groups : TrackingId[i] \in TrackingIds
      BY GroupsTyped
<1>3. \A at \in Attested : at # NoTime
      BY CaseAssumption
<1>4. CASE cases' = Linked(cases)
  <2>1. \A t \in TrackingIds : /\ cases'[t].completed = cases[t].completed
                               /\ cases'[t].override = cases[t].override
                               /\ cases'[t].disposition = cases[t].disposition
                               /\ cases'[t].attested = cases[t].attested
                               /\ t \in Known(cases) => cases'[t].holder = cases[t].holder
        BY <1>4, LinkedLeaves DEF Known
  <2>2. /\ \A i, j \in Groups : Published(cases', i) = Published(cases', j) => i = j
        /\ DispositionFaults(cases') = {}
        BY <2>1, PublishedKept
  <2>3. \A i \in Groups :
            CaseOf(cases', i).attested = NoTime => CaseOf(cases, i).attested = NoTime
        BY <1>2, <2>1 DEF CaseOf
  <2>4. \A t \in Known(cases) : cases'[t].holder = cases[t].holder
        BY <2>1 DEF Known
  <2> QED BY <1>1, <2>2, <2>3, <2>4, CompilesOf
<1>5. ASSUME NEW T \in SUBSET TrackingIds, NEW at \in Attested, Attest(T, at)
      PROVE  Compiles(cases')
  <2>1. \A t \in TrackingIds :
            /\ cases'[t].completed = cases[t].completed
            /\ cases'[t].override = cases[t].override
            /\ cases'[t].disposition = cases[t].disposition
            /\ cases'[t].holder = cases[t].holder
            /\ cases'[t].attested = IF t \in Attestable(cases, T, at) THEN at
                                    ELSE cases[t].attested
        BY <1>5, AttestLeaves
  <2>2. /\ \A i, j \in Groups : Published(cases', i) = Published(cases', j) => i = j
        /\ DispositionFaults(cases') = {}
        BY <2>1, PublishedKept
  <2>3. \A i \in Groups :
            CaseOf(cases', i).attested = NoTime => CaseOf(cases, i).attested = NoTime
        BY <1>2, <1>3, <2>1 DEF CaseOf
  <2>4. \A t \in Known(cases) : cases'[t].holder = cases[t].holder
        BY <2>1 DEF Known
  <2> QED BY <1>1, <2>2, <2>3, <2>4, CompilesOf
<1>6. ASSUME NEW f \in Files, Evaluate(f)
      PROVE  Compiles(cases')
  <2>1. cases' = EvaluatedCases(cases, f) /\ Unique(cases, f)
        BY <1>6 DEF Evaluate, Accepted
  <2>2. /\ \A i, j \in Groups : Published(cases', i) = Published(cases', j) => i = j
        /\ DispositionFaults(cases') = {}
        BY <2>1, EvaluatedPublishes
  <2>3. \A t \in TrackingIds : /\ cases'[t].attested = cases[t].attested
                               /\ cases'[t].holder = cases[t].holder
        BY <2>1, EvaluatedLeaves
  <2>4. \A i \in Groups :
            CaseOf(cases', i).attested = NoTime => CaseOf(cases, i).attested = NoTime
        BY <1>2, <2>3 DEF CaseOf
  <2>5. \A t \in Known(cases) : cases'[t].holder = cases[t].holder
        BY <2>3 DEF Known
  <2> QED BY <1>1, <2>2, <2>4, <2>5, CompilesOf
<1> QED BY <1>4, <1>5, <1>6, Commands

\* Once every record of a report has its case, no correlation, attestation, sweep or
\* evaluations file, in any order, makes a report that compiled stop compiling
\* (_require_unique_effective_ids, _require_evaluation_order, _require_attestation_order).
THEOREM ReportsStayCompiled == Spec => CommandsKeepReport
<1>1. TypeOK /\ OverrideEvaluated /\ [Next]_vars =>
         [(/\ cases' # cases
           /\ \A i \in Groups : CaseOf(cases, i).holder = i
           /\ Compiles(cases)) => Compiles(cases')]_vars
      BY CommandsCompile
<1> QED BY <1>1, TypeCorrect, OverridesEvaluated, PTL DEF Spec, CommandsKeepReport

-----------------------------------------------------------------------------
(* A command given again. *)

LEMMA LinkedOnce ==
    ASSUME TypeOK
    PROVE  \A i \in Groups : Unlinked(Linked(cases), i) = {}
<1> SUFFICES ASSUME NEW i \in Groups, NEW o \in Members(i)
             PROVE  o \in Linked(cases)[TrackingId[i]].links
    BY DEF Unlinked
<1> DEFINE t == TrackingId[i]
           new == UNION {Unlinked(cases, j) : j \in Holding(t)}
<1>1. t \in TrackingIds /\ t \in GroupedIds /\ i \in Holding(t)
      BY GroupsTyped DEF GroupedIds, Holding
<1>2. o \in cases[t].links \/ o \in new
      BY <1>1 DEF Unlinked
<1>3. Linked(cases)[t] =
         [cases[t] EXCEPT !.holder = IF @ = Nobody THEN GroupOf(t) ELSE @,
                          !.links = @ \cup new]
      BY <1>1 DEF Linked
<1>4. cases[t] \in Case
      BY <1>1 DEF TypeOK
<1> HIDE DEF t, new
<1>5. Linked(cases)[t].links = cases[t].links \cup new
      BY <1>3, <1>4 DEF Case
<1> QED BY <1>2, <1>5 DEF t

LEMMA AppendedOnce ==
    ASSUME NEW c \in Case, NEW e \in Entry
    PROVE  Appended(EvaluatedCase(c, e), e) = {}
<1> DEFINE next(k) == IF k \in Appended(c, e) THEN e[k] ELSE c[k]
           d == EvaluatedCase(c, e)
<1>1. /\ next("completed") = e.completed
      /\ e.override \in {Nothing, next("override")}
      /\ e.disposition \in {Nothing, next("disposition")}
      /\ e.reductions \subseteq c.reductions \cup next("reductions")
      BY DEF Appended, Entry, Case
<1>2. d = [c EXCEPT !.completed = next("completed"), !.override = next("override"),
                    !.disposition = next("disposition"),
                    !.reductions = @ \cup next("reductions")]
      BY DEF EvaluatedCase
<1> HIDE DEF next, d
<1>3. /\ d.completed = next("completed") /\ d.override = next("override")
      /\ d.disposition = next("disposition")
      /\ d.reductions = c.reductions \cup next("reductions")
      BY <1>2 DEF Case
<1>4. /\ e.completed = d.completed
      /\ e["override"] \in {Nothing, d["override"]}
      /\ e["disposition"] \in {Nothing, d["disposition"]}
      /\ e.reductions \subseteq d.reductions
      BY <1>1, <1>3
<1>5. Appended(d, e) = {}
      BY <1>4 DEF Appended
<1> QED BY <1>5 DEF d

LEMMA AcceptedTwice ==
    ASSUME TypeOK, NEW f \in Files, Accepted(cases, f)
    PROVE  LET D == EvaluatedCases(cases, f)
           IN /\ Accepted(D, f)
              /\ \A t \in Touched(D, f) : Appended(D[t], EntryFor(D, f, t)) = {}
<1> DEFINE D == EvaluatedCases(cases, f)
<1>1. \A t \in TrackingIds : D[t].holder = cases[t].holder /\ D[t].attested = cases[t].attested
      BY EvaluatedLeaves
<1>2. \A t \in TrackingIds : t \notin Touched(cases, f) => D[t] = cases[t]
      BY EvaluatedLeaves
<1>3. \A t \in TrackingIds : t \in Touched(cases, f) =>
          D[t].override = IF EntryFor(cases, f, t).override = Nothing
                          THEN cases[t].override ELSE EntryFor(cases, f, t).override
      BY EvaluatedLeaves
<1>4. \A t \in TrackingIds : t \in Touched(cases, f) =>
          D[t] = EvaluatedCase(cases[t], EntryFor(cases, f, t))
      BY DEF EvaluatedCases
<1> HIDE DEF D
<1>5. Known(D) = Known(cases)
      BY <1>1 DEF Known
<1>6. \A e : Candidates(D, e) = Candidates(cases, e)
      BY <1>1, <1>5 DEF Candidates, Known
<1>7. Touched(D, f) = Touched(cases, f)
      BY <1>6 DEF Touched
<1>8. \A t : EntryFor(D, f, t) = EntryFor(cases, f, t)
  <2> TAKE t
  <2>1. \A e : (e \in f /\ t \in Candidates(D, e)) <=> (e \in f /\ t \in Candidates(cases, e))
        BY <1>6
  <2> QED BY <2>1, SMT DEF EntryFor
<1>9. Matched(D, f)
  <2>1. Matched(cases, f)
        BY DEF Accepted
  <2>2. \A e \in f : \A t \in Candidates(D, e) : D[t].holder = cases[t].holder
        BY <1>1 DEF Candidates, Known
  <2> QED BY <1>6, <2>1, <2>2 DEF Matched
<1>10. Ordered(D, f)
  <2>1. Ordered(cases, f)
        BY DEF Accepted
  <2>2. \A t \in Touched(D, f) : D[t].attested = cases[t].attested
        BY <1>1 DEF Touched
  <2> QED BY <1>7, <1>8, <2>1, <2>2 DEF Ordered
<1>11. \A t \in TrackingIds : Stated(D, f, t) = Stated(cases, f, t)
  <2> SUFFICES ASSUME NEW t \in TrackingIds PROVE Stated(D, f, t) = Stated(cases, f, t)
      OBVIOUS
  <2>1. CASE t \in Touched(cases, f)
        BY <1>3, <1>7, <1>8, <2>1 DEF Stated, Effective
  <2>2. CASE t \notin Touched(cases, f)
        BY <1>2, <1>7, <2>2 DEF Stated, Effective
  <2> QED BY <2>1, <2>2
<1>12. Unique(D, f)
  <2>1. Unique(cases, f)
        BY DEF Accepted
  <2>2. Claimants(D, f) \subseteq Claimants(cases, f)
        BY <1>2, <1>5, <1>7 DEF Claimants, Unread, Effective, Known
  <2>3. Claimants(D, f) \subseteq TrackingIds
        BY DEF Claimants, Known
  <2> QED BY <1>11, <2>1, <2>2, <2>3 DEF Unique
<1>13. \A t \in Touched(D, f) : Appended(D[t], EntryFor(D, f, t)) = {}
  <2> SUFFICES ASSUME NEW t \in Touched(cases, f)
               PROVE  Appended(D[t], EntryFor(cases, f, t)) = {}
      BY <1>7, <1>8
  <2>1. t \in TrackingIds /\ cases[t] \in Case
        BY DEF Touched, TypeOK
  <2>2. EntryFor(cases, f, t) \in Entry
        BY EntryTyped
  <2>3. D[t] = EvaluatedCase(cases[t], EntryFor(cases, f, t))
        BY <1>4, <2>1
  <2> QED BY <2>1, <2>2, <2>3, AppendedOnce
<1> QED BY <1>9, <1>10, <1>12, <1>13 DEF D, Accepted

\* The file or the correlation that made a change is accepted again and appends nothing,
\* whatever it changed (correlate_cases, apply_evaluations).
THEOREM RetriesAppendNothing == Spec => RetryAppendsNothing
<1>1. TypeOK =>
         [cases' # cases =>
            /\ cases' = Linked(cases) => \A i \in Groups : Unlinked(cases', i) = {}
            /\ \A f \in Files : cases' = EvaluatedCases(cases, f) /\ Accepted(cases, f) =>
                  /\ Accepted(cases', f)
                  /\ \A t \in Touched(cases', f) :
                        Appended(cases'[t], EntryFor(cases', f, t)) = {}]_vars
  <2>1. TypeOK /\ cases' = Linked(cases) => \A i \in Groups : Unlinked(cases', i) = {}
        BY LinkedOnce
  <2>2. ASSUME TypeOK, NEW f \in Files, cases' = EvaluatedCases(cases, f), Accepted(cases, f)
        PROVE  /\ Accepted(cases', f)
               /\ \A t \in Touched(cases', f) : Appended(cases'[t], EntryFor(cases', f, t)) = {}
        BY <2>2, AcceptedTwice
  <2> QED BY <2>1, <2>2
<1> QED BY <1>1, TypeCorrect, PTL DEF Spec, RetryAppendsNothing
=============================================================================
