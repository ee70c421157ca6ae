------------------------- MODULE HistoryAuditProofs -------------------------
(***************************************************************************)
(* The three judges of a log agree on every log, of any rows and of any    *)
(* length: what the audit does not name no reader refuses, what the        *)
(* repository admits the audit does not name, and what `store verify`      *)
(* reports was so at one moment of its run.                                *)
(***************************************************************************)
EXTENDS HistoryAudit, TLAPS, FiniteSetTheorems, SequenceTheorems, WellFoundedInduction

Rows == UNION {s.rows : s \in Scenarios}

LEMMA RowFields ==
  ASSUME NEW e \in Rows
  PROVE  /\ e.stream.kind \in {"artifact", "failure", "coverage", "case", "none"}
         /\ e.stream.named \in BOOLEAN
         /\ e.well \in {"ok", "invalid", "no_utc"}
         /\ e.meta \in BOOLEAN /\ e.count \in Nat
  <1>1. PICK s \in Scenarios : e \in s.rows
    BY DEF Rows
  <1> QED BY <1>1, ScenariosAssumption DEF Kinds, Heads

\* What the rules ask of a stream, of each kind.
LEMMA HeadsAre ==
  /\ Heads["artifact"] = {"artifact.ingested"} /\ Heads.artifact = {"artifact.ingested"}
  /\ Heads["failure"] = HeadTypes /\ Heads["coverage"] = {"coverage.recorded"}
  /\ Heads.coverage = {"coverage.recorded"}
  BY DEF Heads

LEMMA CarriesAre ==
  /\ Carries["failure"] = HeadTypes \cup {Obs} /\ Carries.failure = HeadTypes \cup {Obs}
  /\ Carries["coverage"] = {"coverage.recorded", Obs}
  /\ Carries["case"] = {Created, "case.evaluated", "case.disposition_recorded"}
  /\ Carries.case = {Created, "case.evaluated", "case.disposition_recorded"}
  BY HeadsAre DEF Carries

\* A set of places of a log is finite, and its count a number.
LEMMA PlacesFinite ==
  ASSUME NEW h \in Seq(Rows), NEW P \in SUBSET DOMAIN h
  PROVE  /\ IsFiniteSet(P) /\ Cardinality(P) \in Nat
         /\ Cardinality(P) = 0 <=> P = {}
  <1>1. IsFiniteSet(DOMAIN h)
    BY FS_Interval
  <1> QED BY <1>1, FS_Subset, FS_CardinalityType, FS_EmptySet

\* A set of places that is not empty has a first.
LEMMA LeastExists ==
  ASSUME NEW C \in SUBSET Nat, IsFiniteSet(C), C # {}
  PROVE  \E c \in C : \A g \in C : c <= g
  <1> DEFINE HasLeast(U) == \E c \in U : \A g \in U : c <= g
             Bad == {U \in FiniteSubsetsOf(Nat) : U # {} /\ ~HasLeast(U)}
  <1>1. SUFFICES ASSUME C \in Bad PROVE FALSE
    BY DEF FiniteSubsetsOf
  <1>2. PICK U \in Bad : \A V \in Bad : <<V, U>> \notin StrictSubsetOrdering(Nat)
    BY <1>1, WFMin, FS_StrictSubsetOrderingWellFounded
  <1>3. PICK x \in U : TRUE
    OBVIOUS
  <1>4. U \ {x} \in FiniteSubsetsOf(Nat) /\ U \subseteq Nat
    BY <1>3, FS_RemoveElement DEF FiniteSubsetsOf
  <1>5. U \ {x} \notin Bad
    BY <1>2, <1>3, <1>4 DEF StrictSubsetOrdering, FiniteSubsetsOf
  <1>6. HasLeast(U)
    <2>1. CASE U \ {x} = {}
      BY <1>3, <1>4, <2>1
    <2>2. CASE U \ {x} # {}
      <3>1. PICK n \in U \ {x} : \A g \in U \ {x} : n <= g
        BY <1>4, <1>5, <2>2
      <3>2. CASE n <= x
        BY <3>1, <3>2
      <3>3. CASE x < n
        BY <1>3, <1>4, <3>1, <3>3
      <3> QED BY <1>3, <1>4, <3>2, <3>3
    <2> QED BY <2>1, <2>2
  <1> QED BY <1>6

LEMMA EarliestIsFirst ==
  ASSUME NEW h \in Seq(Rows), NEW P \in SUBSET DOMAIN h, P # {}
  PROVE  Earliest(P) \in P /\ \A i \in P : Earliest(P) <= i
  <1>1. P \in SUBSET Nat
    OBVIOUS
  <1>2. \E c \in P : \A g \in P : c <= g
    BY <1>1, PlacesFinite, LeastExists
  <1> QED BY <1>2, Zenon DEF Earliest

-----------------------------------------------------------------------------
(* What the audit passes, every reader reads. *)

IdentityCodes ==
  {"none", "artifact_stream_mismatch", "failure_stream_mismatch", "coverage_identity_breach",
   "coverage_stream_mismatch"}

LEMMA IdentityNamed ==
  ASSUME NEW e PROVE IdentityFault(e) \in IdentityCodes
  BY DEF IdentityFault, IdentityCodes

\* A row the audit lets pass reads, belongs and is named by its stream.
Sound(e) == Readable(e) /\ Belongs(e) /\ IdentityFault(e) = "none"

\* What one row, one stream and the marker bring to an audit that passes.
LEMMA PartsPass ==
  ASSUME NEW h \in Seq(Rows), NEW m, Faults(h, m) \subseteq OrderCheckedBeside
  PROVE  /\ \A i \in DOMAIN h : RowFaults(h[i]) \subseteq OrderCheckedBeside
         /\ \A i \in DOMAIN h : ArtifactFaults(h, h[i].stream) \subseteq OrderCheckedBeside
         /\ \A s \in StreamsOf(h, "failure") : FailureFaults(h, s) \subseteq OrderCheckedBeside
         /\ \A s \in StreamsOf(h, "coverage") : CoverageFaults(h, s) \subseteq OrderCheckedBeside
         /\ \A s \in StreamsOf(h, "case") : CaseFaults(h, s) \subseteq OrderCheckedBeside
  <1> DEFINE rows == UNION {RowFaults(h[i]) : i \in DOMAIN h}
             artifacts == UNION {ArtifactFaults(h, h[i].stream) : i \in DOMAIN h}
             failures == UNION {FailureFaults(h, s) : s \in StreamsOf(h, "failure")}
             gaps == UNION {CoverageFaults(h, s) : s \in StreamsOf(h, "coverage")}
             cases == UNION {CaseFaults(h, s) : s \in StreamsOf(h, "case")}
  <1>1. Faults(h, m) = rows \cup artifacts \cup failures \cup gaps \cup cases \cup SchemaFaults(h, m)
    BY Zenon DEF Faults
  <1>2. \A i \in DOMAIN h : RowFaults(h[i]) \subseteq rows
    BY Zenon
  <1>3. ASSUME NEW i \in DOMAIN h, NEW c \in ArtifactFaults(h, h[i].stream) PROVE c \in artifacts
    BY Zenon
  <1>4. \A s \in StreamsOf(h, "failure") : FailureFaults(h, s) \subseteq failures
    BY Zenon
  <1>5. \A s \in StreamsOf(h, "coverage") : CoverageFaults(h, s) \subseteq gaps
    BY Zenon
  <1>6. \A s \in StreamsOf(h, "case") : CaseFaults(h, s) \subseteq cases
    BY Zenon
  <1> HIDE DEF rows, artifacts, failures, gaps, cases
  <1> QED BY <1>1, <1>2, <1>3, <1>4, <1>5, <1>6

LEMMA PassedRowIsSound ==
  ASSUME NEW h \in Seq(Rows), NEW m, Faults(h, m) \subseteq OrderCheckedBeside,
         NEW i \in DOMAIN h
  PROVE  Sound(h[i])
  <1>1. RowFaults(h[i]) \subseteq OrderCheckedBeside
    BY PartsPass
  <1>2. Schemed(h[i])
    BY <1>1 DEF RowFaults, ContractFaults, OrderCheckedBeside
  <1>3. RealClock(h[i])
    BY <1>1, <1>2 DEF RowFaults, ContractFaults, OrderCheckedBeside
  <1>4. Belongs(h[i])
    BY <1>1 DEF RowFaults, PlacementFaults, OrderCheckedBeside
  <1>5. IdentityFault(h[i]) = "none"
    BY <1>1, <1>2, <1>3, IdentityNamed
    DEF RowFaults, Readable, OrderCheckedBeside, IdentityCodes
  <1> QED BY <1>2, <1>3, <1>4, <1>5 DEF Sound, Readable

LEMMA ArtifactsRead ==
  ASSUME NEW h \in Seq(Rows), NEW m, Faults(h, m) \subseteq OrderCheckedBeside
  PROVE  ~ArtifactsRefused(h)
  <1>1. ASSUME NEW i \in DOMAIN h PROVE ArtifactFaults(h, h[i].stream) \subseteq OrderCheckedBeside
    BY PartsPass
  <1>2. ASSUME NEW i \in DOMAIN h, h[i].stream.kind = "artifact" PROVE ~Repeats(h, i)
    <2> SUFFICES ASSUME NEW j \in ObsOn(h, h[i].stream), j < i, h[i].type = Obs,
                        h[j].obs = h[i].obs
                 PROVE  FALSE
      BY DEF Repeats
    <2>1. i \in ObsOn(h, h[i].stream) /\ j \in DOMAIN h
      BY DEF ObsOn, OfType, On
    <2>2. Readable(h[i]) /\ Readable(h[j])
      BY <2>1, PassedRowIsSound DEF Sound
    <2>3. "artifact_duplicate_observation" \in ArtifactFaults(h, h[i].stream)
      BY <1>2, <2>1, <2>2 DEF ArtifactFaults
    <2> QED BY <1>1, <2>3 DEF OrderCheckedBeside
  <1>3. ASSUME NEW s \in StreamsOf(h, "artifact"), HeadsOn(h, s) # {}
        PROVE  h[Earliest(HeadsOn(h, s))].count = Cardinality(ObsOn(h, s))
    <2>1. PICK i \in DOMAIN h : h[i].stream = s /\ s.kind = "artifact"
      BY DEF StreamsOf
    <2> DEFINE first == Earliest(HeadsOn(h, s))
    <2>2. HeadsOn(h, s) = OfType(h, s, Heads.artifact)
      BY <2>1, HeadsAre DEF HeadsOn
    <2>3. HeadsOn(h, s) \subseteq DOMAIN h /\ ObsOn(h, s) \subseteq DOMAIN h
      BY DEF HeadsOn, ObsOn, OfType, On
    <2>4. Cardinality(ObsOn(h, s)) \in Nat
      BY <2>3, PlacesFinite
    <2>5. first \in HeadsOn(h, s)
      BY <1>3, <2>3, EarliestIsFirst
    <2>6. h[first].count \in Nat
      BY <2>3, <2>5, RowFields
    <2>7. ~(Cardinality(ObsOn(h, s)) < h[first].count) /\ ~(Cardinality(ObsOn(h, s)) > h[first].count)
      BY <1>1, <1>3, <2>1, <2>2 DEF ArtifactFaults, OrderCheckedBeside
    <2> QED BY <2>4, <2>6, <2>7
  <1> QED BY <1>2, <1>3, PassedRowIsSound DEF ArtifactsRefused, Sound

\* A stream with no fault of shape is one head and one record that agree.
LEMMA ShapePasses ==
  ASSUME NEW h \in Seq(Rows), NEW kind \in {"failure", "coverage"}, NEW s \in StreamsOf(h, kind),
         \A i \in DOMAIN h : Sound(h[i]),
         NEW overfull, NEW incomplete, NEW order, NEW disagreement,
         ShapeFaults(h, s, overfull, incomplete, order, disagreement) \subseteq OrderCheckedBeside,
         {overfull, incomplete, order, disagreement} \cap OrderCheckedBeside = {}
  PROVE  Whole(h, s) /\ Opener(h, s) \in Heads[kind] /\ ~Disagrees(h, s)
  <1>1. s.kind = kind
    BY DEF StreamsOf
  <1>2. Whole(h, s)
    BY DEF Whole, ShapeFaults
  <1>3. HeadsOn(h, s) # {}
    BY <1>2 DEF Whole, Missing
  <1>4. Opener(h, s) \in Heads[kind]
    BY <1>1, <1>3 DEF ShapeFaults
  <1>5. Comparable(h, s)
    BY <1>2 DEF Comparable, OfType, On, Sound
  <1>6. ~Disagrees(h, s)
    BY <1>5 DEF ShapeFaults
  <1> QED BY <1>2, <1>4, <1>6

LEMMA RepeatNamed ==
  ASSUME NEW h, NEW i
  PROVE  RepeatFault(h, i) \in {"none", "failure_hold_orphaned", "failure_duplicate_observation"}
  BY DEF RepeatFault

LEMMA FailuresRead ==
  ASSUME NEW h \in Seq(Rows), NEW m, Faults(h, m) \subseteq OrderCheckedBeside
  PROVE  ~FailuresRefused(h)
  <1>1. \A i \in DOMAIN h : Sound(h[i])
    BY PassedRowIsSound
  <1>2. ASSUME NEW s \in StreamsOf(h, "failure") PROVE FailureFaults(h, s) \subseteq OrderCheckedBeside
    BY PartsPass
  <1>3. ASSUME NEW i \in DOMAIN h, h[i].stream.kind = "failure", h[i].type = Obs
        PROVE  RepeatFault(h, i) = "none"
    <2> DEFINE s == h[i].stream
    <2>1. s \in StreamsOf(h, "failure")
      BY <1>3 DEF StreamsOf
    <2>2. s.named /\ Readable(h[i])
      BY <1>1, <1>3 DEF Sound, IdentityFault, NamesFailure
    <2>3. i \in {j \in ObsOn(h, s) : s.named /\ Readable(h[j])}
      BY <1>3, <2>2 DEF ObsOn, OfType, On
    <2>4. RepeatFault(h, i) = "none" \/ RepeatFault(h, i) \in FailureFaults(h, s)
      BY <2>3 DEF FailureFaults
    <2> QED BY <1>2, <2>1, <2>4, RepeatNamed DEF OrderCheckedBeside
  <1>4. ASSUME NEW s \in StreamsOf(h, "failure")
        PROVE  Whole(h, s) /\ Opener(h, s) \in HeadTypes /\ ~Disagrees(h, s)
    <2>1. ShapeFaults(h, s, "failure_overfull", "failure_incomplete", "failure_stream_mismatch",
                      "failure_stream_mismatch") \subseteq OrderCheckedBeside
      BY <1>2 DEF FailureFaults
    <2>2. {"failure_overfull", "failure_incomplete", "failure_stream_mismatch",
           "failure_stream_mismatch"} \cap OrderCheckedBeside = {}
      BY DEF OrderCheckedBeside
    <2>3. Whole(h, s) /\ Opener(h, s) \in Heads["failure"] /\ ~Disagrees(h, s)
      BY <1>1, <2>1, <2>2, ShapePasses
    <2> QED BY <2>3, HeadsAre
  <1>5. \A i \in DOMAIN h : Readable(h[i]) /\ IdentityFault(h[i]) = "none"
    BY <1>1 DEF Sound
  <1> QED BY <1>3, <1>4, <1>5 DEF FailuresRefused

LEMMA CoverageRead ==
  ASSUME NEW h \in Seq(Rows), NEW m, Faults(h, m) \subseteq OrderCheckedBeside
  PROVE  ~CoverageRefused(h)
  <1>1. \A i \in DOMAIN h : Sound(h[i])
    BY PassedRowIsSound
  <1>2. ASSUME NEW s \in StreamsOf(h, "coverage")
        PROVE  Whole(h, s) /\ Opener(h, s) \in Heads.coverage /\ ~Disagrees(h, s)
    <2>1. ShapeFaults(h, s, "coverage_overfull", "coverage_incomplete", "coverage_stream_mismatch",
                      "coverage_identity_breach") \subseteq OrderCheckedBeside
      BY PartsPass DEF CoverageFaults
    <2>2. {"coverage_overfull", "coverage_incomplete", "coverage_stream_mismatch",
           "coverage_identity_breach"} \cap OrderCheckedBeside = {}
      BY DEF OrderCheckedBeside
    <2>3. Whole(h, s) /\ Opener(h, s) \in Heads["coverage"] /\ ~Disagrees(h, s)
      BY <1>1, <2>1, <2>2, ShapePasses
    <2> QED BY <2>3, HeadsAre
  <1> QED BY <1>1, <1>2 DEF CoverageRefused, Sound

LEMMA CasesRead ==
  ASSUME NEW h \in Seq(Rows), NEW m, Faults(h, m) \subseteq OrderCheckedBeside
  PROVE  ~CasesRefused(h)
  <1> SUFFICES ASSUME NEW s \in StreamsOf(h, "case") PROVE ~CaseRefused(h, s)
    BY DEF CasesRefused
  <1> DEFINE first == Earliest(On(h, s))
  <1>1. CaseFaults(h, s) \subseteq OrderCheckedBeside
    BY PartsPass
  <1>2. PICK k \in DOMAIN h : h[k].stream = s
    BY DEF StreamsOf
  <1>3. s.named \in BOOLEAN /\ s.kind = "case"
    BY <1>2, RowFields DEF StreamsOf
  <1>4. s.named /\ \A i \in OfType(h, s, {Created}) : h[i].names = s
    BY <1>1, <1>3 DEF CaseFaults, OrderCheckedBeside
  <1>5. OfType(h, s, {Created}) = {first}
    BY <1>1, <1>4 DEF CaseFaults, OrderCheckedBeside
  <1>6. h[first].type = Created /\ h[first].names = s
    BY <1>4, <1>5 DEF OfType
  <1>7. ASSUME NEW i \in On(h, s)
        PROVE  Readable(h[i]) /\ (i # first => h[i].type \in Carries.case \ {Created})
    <2>1. i \in DOMAIN h /\ h[i].stream = s
      BY DEF On
    <2>2. Sound(h[i])
      BY <2>1, PassedRowIsSound
    <2>3. h[i].type \in Carries["case"]
      BY <1>3, <2>1, <2>2 DEF Sound, Belongs
    <2>4. h[i].type = Created => i = first
      BY <1>5 DEF OfType
    <2> QED BY <2>2, <2>3, <2>4, CarriesAre DEF Sound
  <1> QED BY <1>4, <1>6, <1>7 DEF CaseRefused

\* Whatever a store was made to hold, a log the audit does not fault is one
\* that no reader of the history refuses.
LEMMA AuditNamesAll ==
  ASSUME NEW h \in Seq(Rows), NEW m PROVE Faults(h, m) \subseteq OrderCheckedBeside => ~Refused(h)
  BY ArtifactsRead, FailuresRead, CoverageRead, CasesRead DEF Refused

-----------------------------------------------------------------------------
(* The invariant of a log the repository alone wrote: each part is what one *)
(* check of append_batch keeps true of the whole log.                       *)

RowsAdmissible(h) == \A i \in DOMAIN h : Admissible(h[i])

ObservedOnce(h) ==
  \A i, j \in DOMAIN h :
    /\ h[i].type = Obs /\ h[j].type = Obs
    /\ h[i].stream = h[j].stream /\ h[i].obs = h[j].obs
    => i = j

OpenedByHead(h) ==
  \A i \in DOMAIN h :
    h[i].stream.kind \in {"failure", "coverage"} =>
      FirstType(h, h[i].stream) \in Heads[h[i].stream.kind]

\* The stream an observation of a failure was stored on first.
Holder(h, i) == h[Earliest(Sharing(h, h[i].stream.digest, h[i].obs))].stream

\* A held failure's observation is first of a recorded one, any other its own.
StoredBeneath(h, i) ==
  IF FirstType(h, h[i].stream) = "failure.held"
  THEN Holder(h, i) # h[i].stream /\ FirstType(h, Holder(h, i)) = "failure.recorded"
  ELSE Holder(h, i) = h[i].stream

HoldsBeneath(h) ==
  \A i \in DOMAIN h : h[i].stream.kind = "failure" /\ h[i].type = Obs => StoredBeneath(h, i)

Marked(h, m) ==
  \A i \in DOMAIN h :
    /\ h[i].stream.kind = "coverage" => m >= 4
    /\ h[i].stream.kind = "failure" =>
         m >= (IF FirstType(h, h[i].stream) = "failure.held" THEN 3 ELSE 2)

Kept(h, m) ==
  RowsAdmissible(h) /\ ObservedOnce(h) /\ OpenedByHead(h) /\ HoldsBeneath(h) /\ Marked(h, m)

-----------------------------------------------------------------------------
(* What one batch does to it. *)

IsBatch(b) == b \in Seq(Rows) /\ b # <<>> /\ \A i \in DOMAIN b : b[i].stream = b[1].stream

\* An append leaves the rows before it in their places.
LEMMA Appended ==
  ASSUME NEW h \in Seq(Rows), NEW b, IsBatch(b)
  PROVE  /\ h \o b \in Seq(Rows) /\ Len(h) \in Nat /\ Len(b) \in Nat \ {0}
         /\ DOMAIN (h \o b) = 1 .. Len(h) + Len(b)
         /\ \A i \in DOMAIN h : i \in DOMAIN (h \o b) /\ (h \o b)[i] = h[i] /\ i <= Len(h)
         /\ \A i \in DOMAIN (h \o b) : ~(i \in DOMAIN h) =>
              /\ i > Len(h) /\ i - Len(h) \in DOMAIN b
              /\ (h \o b)[i] = b[i - Len(h)] /\ (h \o b)[i].stream = b[1].stream
  <1>1. b \in Seq(Rows) /\ Len(b) \in Nat \ {0} /\ Len(h) \in Nat
    BY DEF IsBatch
  <1>2. h \o b \in Seq(Rows) /\ Len(h \o b) = Len(h) + Len(b)
    BY <1>1
  <1>3. \A i \in 1 .. Len(h) + Len(b) :
          (h \o b)[i] = IF i <= Len(h) THEN h[i] ELSE b[i - Len(h)]
    BY <1>1, <1>2
  <1>4. DOMAIN (h \o b) = 1 .. Len(h) + Len(b) /\ DOMAIN h = 1 .. Len(h) /\ DOMAIN b = 1 .. Len(b)
    BY <1>1, <1>2
  <1>5. \A i \in DOMAIN b : b[i].stream = b[1].stream
    BY DEF IsBatch
  <1> QED BY <1>1, <1>2, <1>3, <1>4, <1>5

\* The first place of a set stays the first when later places join it.
LEMMA FirstStays ==
  ASSUME NEW h \in Seq(Rows), NEW g \in Seq(Rows), Len(h) <= Len(g),
         NEW P \in SUBSET DOMAIN h, P # {}, NEW Q \in SUBSET DOMAIN g,
         \A i \in DOMAIN h : i \in Q <=> i \in P
  PROVE  Earliest(Q) = Earliest(P)
  <1>1. /\ Earliest(P) \in P /\ \A i \in P : Earliest(P) <= i
    BY EarliestIsFirst
  <1>2. Earliest(P) \in Q
    BY <1>1
  <1>3. /\ Earliest(Q) \in Q /\ \A i \in Q : Earliest(Q) <= i
    BY <1>2, EarliestIsFirst
  <1>4. DOMAIN h = 1 .. Len(h) /\ DOMAIN g = 1 .. Len(g) /\ Len(h) \in Nat /\ Len(g) \in Nat
    OBVIOUS
  <1>5. Earliest(Q) <= Earliest(P)
    BY <1>2, <1>3
  <1>6. Earliest(Q) \in DOMAIN h
    BY <1>1, <1>3, <1>4, <1>5
  <1>7. Earliest(P) <= Earliest(Q)
    BY <1>1, <1>3, <1>6
  <1> QED BY <1>1, <1>3, <1>4, <1>5, <1>7

LEMMA FirstTypeStays ==
  ASSUME NEW h \in Seq(Rows), NEW b, IsBatch(b), NEW i \in DOMAIN h
  PROVE  FirstType(h \o b, h[i].stream) = FirstType(h, h[i].stream)
  <1> DEFINE g == h \o b
             s == h[i].stream
  <1>1. /\ g \in Seq(Rows) /\ Len(h) <= Len(g)
        /\ \A j \in DOMAIN h : j \in DOMAIN g /\ g[j] = h[j]
    BY Appended
  <1>2. On(h, s) \in SUBSET DOMAIN h /\ On(g, s) \in SUBSET DOMAIN g /\ i \in On(h, s)
    BY DEF On
  <1>3. \A j \in DOMAIN h : j \in On(g, s) <=> j \in On(h, s)
    BY <1>1 DEF On
  <1> HIDE DEF g, s
  <1>4. Earliest(On(g, s)) = Earliest(On(h, s))
    BY <1>1, <1>2, <1>3, FirstStays
  <1>5. Earliest(On(h, s)) \in DOMAIN h
    BY <1>2, EarliestIsFirst
  <1> QED BY <1>1, <1>4, <1>5 DEF FirstType, g, s

\* The stream of a batch is headed as append_batch took it to be.
LEMMA BatchHead ==
  ASSUME NEW h \in Seq(Rows), NEW b, IsBatch(b)
  PROVE  FirstType(h \o b, b[1].stream) = HeadType(h, b)
  <1> DEFINE g == h \o b
             s == b[1].stream
  <1>1. On(h, s) \in SUBSET DOMAIN h
    BY DEF On
  <1>2. Version(h, s) = 0 <=> On(h, s) = {}
    BY <1>1, PlacesFinite DEF Version
  <1>3. CASE On(h, s) # {}
    <2>1. PICK i \in DOMAIN h : h[i].stream = s
      BY <1>3 DEF On
    <2> QED BY <1>2, <1>3, <2>1, FirstTypeStays DEF HeadType
  <1>4. CASE On(h, s) = {}
    <2> DEFINE n == Len(h)
    <2>1. /\ g \in Seq(Rows) /\ n \in Nat /\ Len(b) \in Nat \ {0} /\ DOMAIN g = 1 .. n + Len(b)
          /\ \A i \in DOMAIN h : g[i] = h[i]
          /\ \A i \in DOMAIN g : ~(i \in DOMAIN h) => i > n /\ g[i] = b[i - n] /\ g[i].stream = s
      BY Appended
    <2>2. n + 1 \in DOMAIN g /\ ~(n + 1 \in DOMAIN h) /\ (n + 1) - n = 1
      BY <2>1
    <2>3. n + 1 \in On(g, s) /\ g[n + 1] = b[1]
      BY <2>1, <2>2 DEF On
    <2>4. \A i \in On(g, s) : n + 1 <= i
      BY <1>4, <2>1 DEF On
    <2>5. On(g, s) \in SUBSET DOMAIN g
      BY DEF On
    <2> HIDE DEF g
    <2>6. Earliest(On(g, s)) \in On(g, s) /\ Earliest(On(g, s)) <= n + 1
      BY <2>1, <2>3, <2>5, EarliestIsFirst
    <2>7. Earliest(On(g, s)) = n + 1
      BY <2>1, <2>4, <2>5, <2>6
    <2>8. FirstType(g, s) = b[1].type
      BY <2>3, <2>7 DEF FirstType
    <2> QED BY <1>2, <1>4, <2>8 DEF HeadType, g
  <1> QED BY <1>3, <1>4

\* What the tests of one batch say of its rows.
LEMMA UnseenSays ==
  ASSUME NEW h \in Seq(Rows), NEW b, IsBatch(b), Unseen(h, b),
         NEW k \in DOMAIN b, b[k].type = Obs
  PROVE  /\ \A j \in DOMAIN b : b[j].type = Obs /\ j # k => b[j].obs # b[k].obs
         /\ \A j \in DOMAIN h : h[j].stream = b[1].stream /\ h[j].type = Obs
                                  => h[j].obs # b[k].obs
         /\ b[1].stream.kind = "failure" =>
              IF HeadType(h, b) = "failure.held"
              THEN /\ Elsewhere(h, b[1].stream, b[k].obs) # {}
                   /\ FirstType(h, h[Earliest(Elsewhere(h, b[1].stream, b[k].obs))].stream)
                        = "failure.recorded"
              ELSE Elsewhere(h, b[1].stream, b[k].obs) = {}
  <1>1. \A j \in DOMAIN h : h[j].stream = b[1].stream /\ h[j].type = Obs
                              => j \in ObsOn(h, b[1].stream)
    BY DEF ObsOn, OfType, On
  <1> QED BY <1>1 DEF Unseen

LEMMA AdmissibleKept ==
  ASSUME NEW h \in Seq(Rows), NEW b, IsBatch(b), Admitted(h, b), RowsAdmissible(h)
  PROVE  RowsAdmissible(h \o b)
  <1>1. \A k \in DOMAIN b : Admissible(b[k])
    BY DEF Admitted
  <1> QED BY <1>1, Appended DEF RowsAdmissible

LEMMA OnceKept ==
  ASSUME NEW h \in Seq(Rows), NEW b, IsBatch(b), Admitted(h, b), ObservedOnce(h)
  PROVE  ObservedOnce(h \o b)
  <1> DEFINE g == h \o b
             n == Len(h)
             s == b[1].stream
  <1>1. /\ n \in Nat /\ \A i \in DOMAIN h : g[i] = h[i]
        /\ DOMAIN g = 1 .. n + Len(b) /\ Len(b) \in Nat
        /\ \A i \in DOMAIN g : ~(i \in DOMAIN h) =>
             i - n \in DOMAIN b /\ g[i] = b[i - n] /\ g[i].stream = s
    BY Appended
  <1>2. Unseen(h, b)
    BY DEF Admitted
  <1> HIDE DEF g, n, s
  <1>3. ASSUME NEW i \in DOMAIN g, NEW j \in DOMAIN h, ~(i \in DOMAIN h),
               g[i].type = Obs, g[j].type = Obs, g[i].stream = g[j].stream
        PROVE  g[i].obs # g[j].obs
    BY <1>1, <1>2, <1>3, UnseenSays DEF s
  <1>4. ASSUME NEW i \in DOMAIN g, NEW j \in DOMAIN g, g[i].type = Obs, g[j].type = Obs,
               g[i].stream = g[j].stream, g[i].obs = g[j].obs
        PROVE  i = j
    <2>1. CASE i \in DOMAIN h /\ j \in DOMAIN h
      BY <1>1, <1>4, <2>1 DEF ObservedOnce
    <2>2. CASE ~(i \in DOMAIN h) /\ ~(j \in DOMAIN h)
      <3>1. i - n = j - n
        BY <1>1, <1>2, <1>4, <2>2, UnseenSays
      <3>2. i \in Nat /\ j \in Nat
        BY <1>1
      <3> QED BY <1>1, <3>1, <3>2
    <2> QED BY <1>3, <1>4, <2>1, <2>2
  <1> QED BY <1>4 DEF ObservedOnce, g

LEMMA OpeningKept ==
  ASSUME NEW h \in Seq(Rows), NEW b, IsBatch(b), Admitted(h, b), OpenedByHead(h)
  PROVE  OpenedByHead(h \o b)
  <1> DEFINE g == h \o b
             s == b[1].stream
  <1>1. /\ \A i \in DOMAIN h : g[i] = h[i]
        /\ \A i \in DOMAIN g : ~(i \in DOMAIN h) => g[i].stream = s
    BY Appended
  <1>2. ASSUME NEW i \in DOMAIN h, g[i].stream.kind \in {"failure", "coverage"}
        PROVE  FirstType(g, g[i].stream) \in Heads[g[i].stream.kind]
    BY <1>1, <1>2, FirstTypeStays DEF OpenedByHead
  <1>3. ASSUME s.kind \in {"failure", "coverage"}
        PROVE  HeadType(h, b) \in Heads[s.kind]
    <2>1. CASE Version(h, s) = 0
      BY <1>3, <2>1 DEF Admitted, OpensWithHead, HeadType
    <2>2. CASE Version(h, s) # 0
      <3>1. On(h, s) # {}
        BY <2>2, PlacesFinite DEF Version
      <3>2. PICK i \in DOMAIN h : h[i].stream = s
        BY <3>1 DEF On
      <3> QED BY <1>3, <2>2, <3>2 DEF OpenedByHead, HeadType
    <2> QED BY <2>1, <2>2
  <1>4. FirstType(g, s) = HeadType(h, b)
    BY BatchHead
  <1> QED BY <1>1, <1>2, <1>3, <1>4 DEF OpenedByHead

\* Where an observation stored before the batch was stored first, it still was.
LEMMA HolderStays ==
  ASSUME NEW h \in Seq(Rows), NEW b, IsBatch(b), NEW digest, NEW obs, Sharing(h, digest, obs) # {}
  PROVE  /\ Earliest(Sharing(h \o b, digest, obs)) = Earliest(Sharing(h, digest, obs))
         /\ Earliest(Sharing(h, digest, obs)) \in Sharing(h, digest, obs)
         /\ Earliest(Sharing(h, digest, obs)) \in DOMAIN h
  <1> DEFINE g == h \o b
  <1>1. /\ g \in Seq(Rows) /\ Len(h) <= Len(g)
        /\ \A i \in DOMAIN h : i \in DOMAIN g /\ g[i] = h[i]
    BY Appended
  <1>2. Sharing(h, digest, obs) \in SUBSET DOMAIN h /\ Sharing(g, digest, obs) \in SUBSET DOMAIN g
    BY DEF Sharing
  <1>3. \A i \in DOMAIN h : i \in Sharing(g, digest, obs) <=> i \in Sharing(h, digest, obs)
    BY <1>1 DEF Sharing
  <1> HIDE DEF g
  <1>4. Earliest(Sharing(g, digest, obs)) = Earliest(Sharing(h, digest, obs))
    BY <1>1, <1>2, <1>3, FirstStays
  <1>5. Earliest(Sharing(h, digest, obs)) \in Sharing(h, digest, obs)
    BY <1>2, EarliestIsFirst
  <1> QED BY <1>2, <1>4, <1>5 DEF g

\* The observations of an admitted failure share their identifier with themselves.
LEMMA SharesItself ==
  ASSUME NEW h, NEW i \in DOMAIN h, Admissible(h[i]), h[i].stream.kind = "failure", h[i].type = Obs
  PROVE  i \in Sharing(h, h[i].stream.digest, h[i].obs)
  BY DEF Sharing, Admissible, IdentityFault, NamesFailure

LEMMA HoldsKept ==
  ASSUME NEW h \in Seq(Rows), NEW b, IsBatch(b), Admitted(h, b), RowsAdmissible(h), HoldsBeneath(h)
  PROVE  HoldsBeneath(h \o b)
  <1> DEFINE g == h \o b
             n == Len(h)
             s == b[1].stream
  <1>1. /\ g \in Seq(Rows) /\ \A i \in DOMAIN h : g[i] = h[i]
        /\ \A i \in DOMAIN g : ~(i \in DOMAIN h) =>
             i - n \in DOMAIN b /\ g[i] = b[i - n] /\ g[i].stream = s
    BY Appended
  <1>2. RowsAdmissible(g)
    BY AdmissibleKept
  <1>3. FirstType(g, s) = HeadType(h, b)
    BY BatchHead
  <1>4. ASSUME NEW i \in DOMAIN h, g[i].stream.kind = "failure", g[i].type = Obs
        PROVE  StoredBeneath(g, i)
    <2> DEFINE old == Sharing(h, h[i].stream.digest, h[i].obs)
    <2>1. i \in old
      BY <1>1, <1>4, SharesItself DEF RowsAdmissible
    <2>2. /\ Earliest(Sharing(g, h[i].stream.digest, h[i].obs)) = Earliest(old)
          /\ Earliest(old) \in DOMAIN h
      BY <2>1, HolderStays
    <2>3. Holder(g, i) = Holder(h, i) /\ Holder(h, i) = h[Earliest(old)].stream
      BY <1>1, <2>2 DEF Holder
    <2>4. FirstType(g, Holder(h, i)) = FirstType(h, Holder(h, i))
      BY <2>2, <2>3, FirstTypeStays
    <2>5. FirstType(g, g[i].stream) = FirstType(h, h[i].stream)
      BY <1>1, FirstTypeStays
    <2>6. StoredBeneath(h, i)
      BY <1>1, <1>4 DEF HoldsBeneath
    <2> QED BY <1>1, <2>3, <2>4, <2>5, <2>6 DEF StoredBeneath
  <1>5. ASSUME NEW i \in DOMAIN g, ~(i \in DOMAIN h), g[i].stream.kind = "failure", g[i].type = Obs
        PROVE  StoredBeneath(g, i)
    <2> DEFINE k == i - n
               old == Sharing(h, s.digest, b[k].obs)
               new == Sharing(g, s.digest, b[k].obs)
    <2>1. k \in DOMAIN b /\ g[i] = b[k] /\ g[i].stream = s
      BY <1>1, <1>5
    <2>2. /\ \A j \in DOMAIN h : h[j].stream = s /\ h[j].type = Obs => h[j].obs # b[k].obs
          /\ IF HeadType(h, b) = "failure.held"
             THEN /\ Elsewhere(h, s, b[k].obs) # {}
                  /\ FirstType(h, h[Earliest(Elsewhere(h, s, b[k].obs))].stream) = "failure.recorded"
             ELSE Elsewhere(h, s, b[k].obs) = {}
      BY <1>5, <2>1, UnseenSays DEF Admitted
    <2> HIDE DEF k
    <2>3. Elsewhere(h, s, b[k].obs) = old /\ \A j \in old : h[j].stream # s
      BY <2>2 DEF Elsewhere, Sharing
    <2>4. i \in new /\ Holder(g, i) = g[Earliest(new)].stream
      BY <1>2, <1>5, <2>1, SharesItself DEF RowsAdmissible, Holder
    <2>5. CASE HeadType(h, b) = "failure.held"
      <3>1. Earliest(new) = Earliest(old) /\ Earliest(old) \in old /\ Earliest(old) \in DOMAIN h
        BY <2>2, <2>3, <2>5, HolderStays
      <3>2. Holder(g, i) = h[Earliest(old)].stream
        BY <1>1, <2>4, <3>1
      <3>3. FirstType(g, Holder(g, i)) = "failure.recorded"
        BY <2>2, <2>3, <2>5, <3>1, <3>2, FirstTypeStays
      <3> QED BY <1>3, <2>1, <2>3, <2>5, <3>1, <3>2, <3>3 DEF StoredBeneath
    <2>6. CASE HeadType(h, b) # "failure.held"
      <3>1. old = {}
        BY <2>2, <2>3, <2>6
      <3>2. new \in SUBSET DOMAIN g
        BY DEF Sharing
      <3>3. Earliest(new) \in new
        BY <1>1, <2>4, <3>2, EarliestIsFirst
      <3>4. \A j \in new : j \in DOMAIN h => j \in old
        BY <1>1 DEF Sharing
      <3> HIDE DEF new, old
      <3>5. ~(Earliest(new) \in DOMAIN h)
        BY <3>1, <3>3, <3>4
      <3>6. g[Earliest(new)].stream = s
        BY <1>1, <3>2, <3>3, <3>5
      <3> QED BY <1>3, <2>1, <2>4, <2>6, <3>6 DEF StoredBeneath, new
    <2> QED BY <2>5, <2>6
  <1> QED BY <1>4, <1>5 DEF HoldsBeneath

LEMMA MarkKept ==
  ASSUME NEW h \in Seq(Rows), NEW b, IsBatch(b), NEW m \in Markers, Marked(h, m)
  PROVE  /\ Marked(h \o b, Higher(m, Requires(h, b)))
         /\ Higher(m, Requires(h, b)) \in Markers /\ m <= Higher(m, Requires(h, b))
  <1> DEFINE g == h \o b
             s == b[1].stream
             need == Requires(h, b)
             n == Higher(m, need)
  <1>1. /\ \A i \in DOMAIN h : g[i] = h[i]
        /\ \A i \in DOMAIN g : ~(i \in DOMAIN h) => g[i].stream = s
    BY Appended
  <1>2. need \in Markers /\ (s.kind = "coverage" => need = 4)
        /\ (s.kind = "failure" => need = IF HeadType(h, b) = "failure.held" THEN 3 ELSE 2)
    BY DEF Requires, Markers
  <1> HIDE DEF need
  <1>3. n \in Markers /\ m <= n /\ need <= n
    BY <1>2 DEF Higher, Markers
  <1>4. FirstType(g, s) = HeadType(h, b)
    BY BatchHead
  <1> HIDE DEF g, s, n
  <1>5. ASSUME NEW i \in DOMAIN h
        PROVE  /\ g[i].stream.kind = "coverage" => n >= 4
               /\ g[i].stream.kind = "failure" =>
                    n >= (IF FirstType(g, g[i].stream) = "failure.held" THEN 3 ELSE 2)
    <2>1. FirstType(g, g[i].stream) = FirstType(h, h[i].stream) /\ g[i] = h[i]
      BY <1>1, FirstTypeStays DEF g
    <2> QED BY <1>3, <2>1 DEF Marked, Markers
  <1>6. ASSUME NEW i \in DOMAIN g, ~(i \in DOMAIN h)
        PROVE  /\ g[i].stream.kind = "coverage" => n >= 4
               /\ g[i].stream.kind = "failure" =>
                    n >= (IF FirstType(g, g[i].stream) = "failure.held" THEN 3 ELSE 2)
    <2>1. g[i].stream = s
      BY <1>1, <1>6
    <2> QED BY <1>2, <1>3, <1>4, <2>1 DEF Markers
  <1>7. Marked(g, n)
    BY <1>5, <1>6 DEF Marked
  <1> QED BY <1>3, <1>7 DEF g, n, need

\* append_batch keeps every part of the invariant, of any log and any batch.
LEMMA BatchKeeps ==
  ASSUME NEW h \in Seq(Rows), NEW b, IsBatch(b), Admitted(h, b), NEW m \in Markers, Kept(h, m)
  PROVE  Kept(h \o b, Higher(m, Requires(h, b)))
  BY AdmissibleKept, OnceKept, OpeningKept, HoldsKept, MarkKept DEF Kept

-----------------------------------------------------------------------------
(* What the audit says of such a log. *)

LEMMA OpenerIsFirst ==
  ASSUME NEW h \in Seq(Rows), RowsAdmissible(h), NEW i \in DOMAIN h
  PROVE  Opener(h, h[i].stream) = FirstType(h, h[i].stream)
  <1>1. OfType(h, h[i].stream, Carries[h[i].stream.kind]) = On(h, h[i].stream)
    BY DEF OfType, On, RowsAdmissible, Admissible, Belongs
  <1> QED BY <1>1 DEF Opener, FirstType

LEMMA NoRepeat ==
  ASSUME NEW h \in Seq(Rows), RowsAdmissible(h), HoldsBeneath(h),
         NEW i \in DOMAIN h, h[i].stream.kind = "failure", h[i].type = Obs
  PROVE  RepeatFault(h, i) = "none"
  <1> DEFINE shared == Sharing(h, h[i].stream.digest, h[i].obs)
  <1>1. shared \in SUBSET DOMAIN h /\ i \in shared
    BY SharesItself DEF Sharing, RowsAdmissible
  <1>2. Holders(h, i) = shared
    BY <1>1 DEF Holders, RowsAdmissible, Admissible
  <1>3. Earliest(shared) \in DOMAIN h
    BY <1>1, EarliestIsFirst
  <1>4. h[Earliest(Holders(h, i))].stream = Holder(h, i)
    BY <1>2 DEF Holder
  <1>5. /\ Opener(h, h[i].stream) = FirstType(h, h[i].stream)
        /\ Opener(h, Holder(h, i)) = FirstType(h, Holder(h, i))
    BY <1>2, <1>3, <1>4, OpenerIsFirst
  <1>6. StoredBeneath(h, i)
    BY DEF HoldsBeneath
  <1> QED BY <1>4, <1>5, <1>6 DEF RepeatFault, StoredBeneath

\* The codes one row may earn, and those one stream of each kind may.
LEMMA AdmittedRowClean ==
  ASSUME NEW e, Admissible(e) PROVE RowFaults(e) = {}
  BY DEF RowFaults, ContractFaults, PlacementFaults, Admissible, Readable

LEMMA ArtifactClean ==
  ASSUME NEW h \in Seq(Rows), ObservedOnce(h), NEW i \in DOMAIN h
  PROVE  ArtifactFaults(h, h[i].stream) \subseteq {"artifact_incomplete", "artifact_overfull"}
  <1>1. ASSUME NEW j, NEW k, j \in ObsOn(h, h[i].stream), k \in ObsOn(h, h[i].stream),
               k < j, h[k].obs = h[j].obs
        PROVE  FALSE
    <2>1. /\ j \in DOMAIN h /\ k \in DOMAIN h /\ h[j].stream = h[k].stream
          /\ h[j].type = Obs /\ h[k].type = Obs
      BY <1>1 DEF ObsOn, OfType, On
    <2>2. j = k
      BY <1>1, <2>1 DEF ObservedOnce
    <2> QED BY <1>1, <2>1, <2>2
  <1> QED BY <1>1 DEF ArtifactFaults

LEMMA OrderClean ==
  ASSUME NEW h \in Seq(Rows), RowsAdmissible(h), OpenedByHead(h),
         NEW kind \in {"failure", "coverage"}, NEW s \in StreamsOf(h, kind)
  PROVE  Opener(h, s) \in Heads[s.kind]
  <1>1. PICK i \in DOMAIN h : h[i].stream = s /\ s.kind = kind
    BY DEF StreamsOf
  <1> QED BY <1>1, OpenerIsFirst DEF OpenedByHead

LEMMA FailureClean ==
  ASSUME NEW h \in Seq(Rows), RowsAdmissible(h), OpenedByHead(h), HoldsBeneath(h),
         NEW s \in StreamsOf(h, "failure")
  PROVE  FailureFaults(h, s) \subseteq
           {"failure_overfull", "failure_incomplete", "failure_stream_mismatch"}
  <1>1. s.kind = "failure"
    BY DEF StreamsOf
  <1>2. ASSUME NEW i \in {j \in ObsOn(h, s) : s.named /\ Readable(h[j])}
        PROVE  RepeatFault(h, i) = "none"
    <2>1. i \in DOMAIN h /\ h[i].stream = s /\ h[i].type = Obs
      BY DEF ObsOn, OfType, On
    <2> QED BY <1>1, <2>1, NoRepeat
  <1> QED BY <1>2 DEF FailureFaults, ShapeFaults

LEMMA CoverageClean ==
  ASSUME NEW h \in Seq(Rows), RowsAdmissible(h), OpenedByHead(h),
         NEW s \in StreamsOf(h, "coverage")
  PROVE  CoverageFaults(h, s) \subseteq
           {"coverage_overfull", "coverage_incomplete", "coverage_identity_breach"}
  <1>1. Opener(h, s) \in Heads[s.kind]
    BY OrderClean
  <1> QED BY <1>1 DEF CoverageFaults, ShapeFaults

CaseCodes ==
  {"case_tracking_id_mismatch", "case_stream_mismatch", "disposition_without_evaluation"}

LEMMA CaseClean ==
  ASSUME NEW h, NEW s PROVE CaseFaults(h, s) \subseteq CaseCodes
  BY DEF CaseFaults, CaseCodes

LEMMA PairIsTwo ==
  ASSUME NEW a, NEW b, a # b PROVE Cardinality({a, b}) = 2
  <1>1. IsFiniteSet({a}) /\ Cardinality({a}) = 1
    BY FS_Singleton
  <1>2. Cardinality({a} \cup {b}) = Cardinality({a}) + 1
    BY <1>1, FS_AddElement
  <1>3. {a} \cup {b} = {a, b}
    OBVIOUS
  <1> QED BY <1>1, <1>2, <1>3

\* An unmarked hold stands behind a recorded head: its stream has two.
LEMMA UnmarkedIsOverfull ==
  ASSUME NEW h \in Seq(Rows), OpenedByHead(h), NEW m \in Markers, Marked(h, m),
         "failure_schema_unmarked" \in SchemaFaults(h, m)
  PROVE  \E s \in StreamsOf(h, "failure") : "failure_overfull" \in FailureFaults(h, s)
  <1> DEFINE held == \E i \in DOMAIN h : h[i].stream.kind = "failure" /\ h[i].type = "failure.held"
  <1>1. StreamsOf(h, "failure") # {} /\ m < (IF held THEN 3 ELSE 2)
    BY DEF SchemaFaults
  <1>2. PICK f \in DOMAIN h : h[f].stream.kind = "failure"
    BY <1>1 DEF StreamsOf
  <1>3. m >= 2
    BY <1>2 DEF Marked, Markers
  <1>4. held /\ m < 3
    BY <1>1, <1>3 DEF Markers
  <1>5. PICK i \in DOMAIN h : h[i].stream.kind = "failure" /\ h[i].type = "failure.held"
    BY <1>4
  <1> DEFINE s == h[i].stream
             first == Earliest(On(h, s))
  <1>6. FirstType(h, s) \in HeadTypes /\ FirstType(h, s) # "failure.held"
    BY <1>4, <1>5, HeadsAre DEF OpenedByHead, Marked, Markers
  <1>7. i \in On(h, s) /\ On(h, s) \in SUBSET DOMAIN h
    BY DEF On
  <1>8. first \in On(h, s)
    BY <1>7, EarliestIsFirst
  <1>9. first # i /\ h[first].type \in HeadTypes
    BY <1>5, <1>6 DEF FirstType
  <1>10. {first, i} \subseteq HeadsOn(h, s)
    BY <1>5, <1>7, <1>8, <1>9, HeadsAre DEF HeadsOn, OfType, HeadTypes
  <1>11. HeadsOn(h, s) \in SUBSET DOMAIN h
    BY DEF HeadsOn, OfType, On
  <1>12. Cardinality({first, i}) = 2 /\ Cardinality({first, i}) <= Cardinality(HeadsOn(h, s))
    <2>1. IsFiniteSet(HeadsOn(h, s))
      BY <1>11, PlacesFinite
    <2>2. Cardinality({first, i}) <= Cardinality(HeadsOn(h, s))
      BY <1>10, <2>1, FS_Subset
    <2> QED BY <1>9, <2>2, PairIsTwo
  <1>13. Cardinality(HeadsOn(h, s)) \in Nat
    BY <1>11, PlacesFinite
  <1>14. Overfull(h, s)
    BY <1>12, <1>13 DEF Overfull
  <1>15. s \in StreamsOf(h, "failure")
    BY <1>5 DEF StreamsOf
  <1>16. "failure_overfull" \in FailureFaults(h, s)
    BY <1>14 DEF FailureFaults, ShapeFaults
  <1> QED BY <1>15, <1>16

\* After the walk the audit only adds: the clocks, or the refusal that ends it.
LEMMA AuditIsFaults ==
  ASSUME NEW h, NEW m
  PROVE  /\ Faults(h, m) \subseteq Audit(h, m)
         /\ Audit(h, m) \subseteq Faults(h, m) \cup {"clock_out_of_range", "history_unreadable"}
         /\ "clock_out_of_range" \in Audit(h, m) =>
              "clock_out_of_range" \in Faults(h, m) \/ Unclocked(h) # {}
  <1> DEFINE found == Faults(h, m)
  <1>1. Audit(h, m) = WithClocks(found, h)
    BY DEF Audit
  <1> HIDE DEF found
  <1>2. /\ found \subseteq WithClocks(found, h)
        /\ WithClocks(found, h) \subseteq found \cup {"clock_out_of_range", "history_unreadable"}
        /\ "clock_out_of_range" \in WithClocks(found, h) =>
             "clock_out_of_range" \in found \/ Unclocked(h) # {}
    BY DEF WithClocks
  <1> QED BY <1>1, <1>2 DEF found

LEMMA KeptIsClean ==
  ASSUME NEW h \in Seq(Rows), NEW m \in Markers, Kept(h, m)
  PROVE  /\ Audit(h, m) \cap RefusedAtAppend = {}
         /\ "failure_schema_unmarked" \in Audit(h, m) => "failure_overfull" \in Audit(h, m)
         /\ "clock_out_of_range" \in Audit(h, m) => Unclocked(h) # {}
  <1> DEFINE rows == UNION {RowFaults(h[i]) : i \in DOMAIN h}
             artifacts == UNION {ArtifactFaults(h, h[i].stream) : i \in DOMAIN h}
             failures == UNION {FailureFaults(h, s) : s \in StreamsOf(h, "failure")}
             gaps == UNION {CoverageFaults(h, s) : s \in StreamsOf(h, "coverage")}
             cases == UNION {CaseFaults(h, s) : s \in StreamsOf(h, "case")}
             marks == SchemaFaults(h, m)
  <1>1. Faults(h, m) = rows \cup artifacts \cup failures \cup gaps \cup cases \cup marks
    BY Zenon DEF Faults
  <1>2. rows = {}
    BY AdmittedRowClean DEF Kept, RowsAdmissible
  <1>3. \A c \in artifacts : c \in {"artifact_incomplete", "artifact_overfull"}
    <2>1. \A i \in DOMAIN h :
            ArtifactFaults(h, h[i].stream) \subseteq {"artifact_incomplete", "artifact_overfull"}
      BY ArtifactClean DEF Kept
    <2> QED BY <2>1, Zenon
  <1>4. \A c \in failures :
          c \in {"failure_overfull", "failure_incomplete", "failure_stream_mismatch"}
    BY FailureClean DEF Kept
  <1>5. \A c \in gaps :
          c \in {"coverage_overfull", "coverage_incomplete", "coverage_identity_breach"}
    BY CoverageClean DEF Kept
  <1>6. \A c \in cases : c \in CaseCodes
    BY CaseClean
  <1>7. marks \subseteq {"failure_schema_unmarked"}
    <2>1. ~(StreamsOf(h, "coverage") # {} /\ m < 4)
      BY DEF Kept, Marked, StreamsOf, Markers
    <2> QED BY <2>1 DEF SchemaFaults
  <1>8. "failure_schema_unmarked" \in marks => "failure_overfull" \in failures
    BY UnmarkedIsOverfull DEF Kept
  <1> HIDE DEF rows, artifacts, failures, gaps, cases, marks
  <1>9. Faults(h, m) \cap RefusedAtAppend = {}
    BY <1>1, <1>2, <1>3, <1>4, <1>5, <1>6, <1>7 DEF RefusedAtAppend, CaseCodes
  <1>10. "failure_schema_unmarked" \in Faults(h, m) => "failure_schema_unmarked" \in marks
    BY <1>1, <1>2, <1>3, <1>4, <1>5, <1>6 DEF CaseCodes
  <1>11. "clock_out_of_range" \notin Faults(h, m)
    BY <1>1, <1>2, <1>3, <1>4, <1>5, <1>6, <1>7 DEF CaseCodes
  <1>12. Audit(h, m) \cap RefusedAtAppend = {}
    BY <1>9, AuditIsFaults DEF RefusedAtAppend
  <1>13. "failure_schema_unmarked" \in Audit(h, m) => "failure_overfull" \in Audit(h, m)
    BY <1>1, <1>8, <1>10, AuditIsFaults
  <1>14. "clock_out_of_range" \in Audit(h, m) => Unclocked(h) # {}
    BY <1>11, AuditIsFaults
  <1> QED BY <1>12, <1>13, <1>14

-----------------------------------------------------------------------------
(* The invariant of the specification. *)

LEMMA FaultCodes ==
  ASSUME NEW h, NEW m PROVE Faults(h, m) \subseteq Codes
  <1> DEFINE rows == UNION {RowFaults(h[i]) : i \in DOMAIN h}
             artifacts == UNION {ArtifactFaults(h, h[i].stream) : i \in DOMAIN h}
             failures == UNION {FailureFaults(h, s) : s \in StreamsOf(h, "failure")}
             gaps == UNION {CoverageFaults(h, s) : s \in StreamsOf(h, "coverage")}
             cases == UNION {CaseFaults(h, s) : s \in StreamsOf(h, "case")}
  <1>1. Faults(h, m) = rows \cup artifacts \cup failures \cup gaps \cup cases \cup SchemaFaults(h, m)
    BY Zenon DEF Faults
  <1>2. \A e : RowFaults(e) \subseteq Codes
    <2> SUFFICES ASSUME NEW e PROVE RowFaults(e) \subseteq Codes
      OBVIOUS
    <2>1. ContractFaults(e) \subseteq Codes /\ PlacementFaults(e) \subseteq Codes
      BY DEF ContractFaults, PlacementFaults, Codes
    <2>2. IdentityFault(e) # "none" => IdentityFault(e) \in Codes
      BY IdentityNamed DEF IdentityCodes, Codes
    <2>3. "event_metadata_invalid" \in Codes
      BY DEF Codes
    <2> QED BY <2>1, <2>2, <2>3 DEF RowFaults
  <1>3. \A s : ArtifactFaults(h, s) \subseteq Codes
    BY DEF ArtifactFaults, Codes
  <1>4. \A s : FailureFaults(h, s) \subseteq Codes
    <2> SUFFICES ASSUME NEW s PROVE FailureFaults(h, s) \subseteq Codes
      OBVIOUS
    <2>1. \A i : RepeatFault(h, i) # "none" => RepeatFault(h, i) \in Codes
      BY RepeatNamed DEF Codes
    <2>2. ShapeFaults(h, s, "failure_overfull", "failure_incomplete", "failure_stream_mismatch",
                      "failure_stream_mismatch") \subseteq Codes
      BY DEF ShapeFaults, Codes
    <2> QED BY <2>1, <2>2 DEF FailureFaults
  <1>5. \A s : CoverageFaults(h, s) \subseteq Codes
    BY DEF CoverageFaults, ShapeFaults, Codes
  <1>6. \A s : CaseFaults(h, s) \subseteq Codes
    BY CaseClean DEF CaseCodes, Codes
  <1>7. SchemaFaults(h, m) \subseteq Codes
    BY DEF SchemaFaults, Codes
  <1>8. rows \subseteq Codes /\ artifacts \subseteq Codes
    BY <1>2, <1>3, Zenon
  <1>9. failures \subseteq Codes /\ gaps \subseteq Codes /\ cases \subseteq Codes
    BY <1>4, <1>5, <1>6, Zenon
  <1> QED BY <1>1, <1>7, <1>8, <1>9

LEMMA ClockCodes ==
  ASSUME NEW found \in SUBSET Codes, NEW h PROVE WithClocks(found, h) \subseteq Codes
  <1>1. {"clock_out_of_range", "history_unreadable"} \subseteq Codes
    BY DEF Codes
  <1> QED BY <1>1 DEF WithClocks

LogKept == past = {} => Kept(log, marker)

\* A running verify knows the moment it is at, and ends its walk at one it knew.
Walked ==
  \E n, m \in verify.moments :
    /\ n.length <= m.length
    /\ verify.codes = Faults(SubSeq(log, 1, n.length), m.marker)

Reported ==
  \/ verify.codes # {} /\ verify.codes \subseteq Races
  \/ \E n, m, p \in verify.moments :
       /\ n.length <= m.length /\ m.length <= p.length
       /\ verify.codes = WithClocks(Faults(SubSeq(log, 1, n.length), m.marker),
                                    SubSeq(log, 1, p.length))

WalkKnown ==
  /\ ~At("idle") => Moment \in verify.moments
  /\ At("migrations") \/ At("counter") => verify.codes \subseteq Races
  /\ At("audited") => \E n \in verify.moments : n.length = verify.seen
  /\ At("walked") => Walked
  /\ At("done") => Reported

IInv == TypeOK /\ LogKept /\ WalkKnown

LEMMA InitInv == Init => IInv
  <1> SUFFICES ASSUME Init PROVE IInv
    OBVIOUS
  <1>1. TypeOK
    <2>1. scenario.length \in Nat /\ log \in Seq(scenario.rows) /\ Len(log) = 0
      BY BoundsAssumption DEF Init
    <2> QED BY <2>1 DEF Init, TypeOK, NotRunning, Markers, Steps
  <1>2. Kept(log, marker)
    <2>1. DOMAIN log = {}
      BY DEF Init
    <2> QED BY <2>1 DEF Kept, RowsAdmissible, ObservedOnce, OpenedByHead, HoldsBeneath, Marked
  <1>3. WalkKnown
    BY DEF Init, NotRunning, WalkKnown, At
  <1> QED BY <1>1, <1>2, <1>3 DEF IInv, LogKept

LEMMA LogIsRows ==
  ASSUME TypeOK
  PROVE  /\ log \in Seq(Rows) /\ Len(log) \in Nat /\ scenario.rows \subseteq Rows
         /\ marker \in Markers
  BY DEF TypeOK, Rows

LEMMA ShortSequences ==
  ASSUME NEW S, NEW e \in S, NEW f \in S
  PROVE  /\ <<e>> \in Seq(S) /\ Len(<<e>>) = 1 /\ <<e>>[1] = e
         /\ <<e, f>> \in Seq(S) /\ Len(<<e, f>>) = 2 /\ <<e, f>>[1] = e /\ <<e, f>>[2] = f
  <1>1. <<e>> \in Seq(S) /\ Len(<<e>>) = 1 /\ <<e>>[1] = e
    OBVIOUS
  <1>2. <<e, f>> \in Seq(S) /\ Len(<<e, f>>) = 2
    OBVIOUS
  <1>3. <<e, f>>[1] = e /\ <<e, f>>[2] = f
    OBVIOUS
  <1> QED BY <1>1, <1>2, <1>3

\* A batch the repository takes.
LEMMA BatchTaken ==
  ASSUME TypeOK, AppendBatch
  PROVE  \E b \in Seq(scenario.rows) :
           /\ IsBatch(b) /\ Admitted(log, b) /\ log' = log \o b
           /\ Len(log) + Len(b) <= scenario.length
           /\ marker' = Higher(marker, Requires(log, b)) /\ verify' = Committed
           /\ past' = past /\ scenario' = scenario
  <1>1. PICK e \in scenario.rows :
          \E batch \in {<<e>>} \cup {<<e, f>> : f \in {g \in scenario.rows : g.stream = e.stream}} :
            /\ Len(log) + Len(batch) <= scenario.length
            /\ Admitted(log, batch) /\ log' = log \o batch
            /\ marker' = Higher(marker, Requires(log, batch)) /\ verify' = Committed
            /\ past' = past /\ scenario' = scenario
    BY DEF AppendBatch
  <1>2. PICK b \in {<<e>>} \cup {<<e, f>> : f \in {g \in scenario.rows : g.stream = e.stream}} :
            /\ Len(log) + Len(b) <= scenario.length
            /\ Admitted(log, b) /\ log' = log \o b
            /\ marker' = Higher(marker, Requires(log, b)) /\ verify' = Committed
            /\ past' = past /\ scenario' = scenario
    BY <1>1
  <1>3. b \in Seq(scenario.rows) /\ b # <<>> /\ \A i \in DOMAIN b : b[i].stream = b[1].stream
    <2>1. CASE b = <<e>>
      <3>1. <<e>> \in Seq(scenario.rows) /\ Len(<<e>>) = 1 /\ <<e>>[1] = e
        BY ShortSequences
      <3> QED BY <2>1, <3>1
    <2>2. CASE \E f \in scenario.rows : f.stream = e.stream /\ b = <<e, f>>
      <3>1. PICK f \in scenario.rows : f.stream = e.stream /\ b = <<e, f>>
        BY <2>2
      <3>2. /\ <<e, f>> \in Seq(scenario.rows) /\ Len(<<e, f>>) = 2
            /\ <<e, f>>[1] = e /\ <<e, f>>[2] = f
        BY <3>1, ShortSequences
      <3> QED BY <3>1, <3>2
    <2> QED BY <2>1, <2>2
  <1>4. IsBatch(b)
    BY <1>3, LogIsRows DEF IsBatch
  <1> QED BY <1>2, <1>3, <1>4

VerifyType(v, n, k) ==
  v \in [step : Steps, runs : Nat, marker : 1 .. k,
         moments : SUBSET [length : 0 .. n, marker : 1 .. k],
         counter : 0 .. n, seen : 0 .. n, codes : SUBSET Codes]

LEMMA VerifyGrows ==
  ASSUME NEW v, NEW n \in Nat, NEW k \in Nat, NEW i \in Nat, NEW j \in Nat, n <= i, k <= j,
         VerifyType(v, n, k), NEW x \in [length : 0 .. i, marker : 1 .. j]
  PROVE  /\ VerifyType(v, i, j)
         /\ VerifyType([v EXCEPT !.moments = @ \cup {x}], i, j)
  <1>1. 0 .. n \subseteq 0 .. i /\ 1 .. k \subseteq 1 .. j
    OBVIOUS
  <1>2. VerifyType(v, i, j)
    BY <1>1 DEF VerifyType
  <1>3. v.moments \cup {x} \in SUBSET [length : 0 .. i, marker : 1 .. j]
    BY <1>2 DEF VerifyType
  <1> QED BY <1>2, <1>3 DEF VerifyType

\* What a commit leaves a running verify, whoever made it.
LEMMA CommitKnown ==
  ASSUME TypeOK, WalkKnown, NEW b \in Seq(scenario.rows), log' = log \o b,
         Len(log) + Len(b) <= scenario.length, scenario' = scenario,
         marker' \in Markers, marker <= marker', verify' = Committed,
         past' \subseteq past \cup {Len(log')}, Len(log') > 0
  PROVE  TypeOK' /\ WalkKnown'
  <1>1. /\ log' \in Seq(scenario.rows) /\ Len(log') = Len(log) + Len(b)
        /\ Len(log) \in Nat /\ Len(b) \in Nat /\ Len(log) <= Len(log')
    BY DEF TypeOK
  <1>2. \A k \in 0 .. Len(log) : SubSeq(log', 1, k) = SubSeq(log, 1, k)
    BY <1>1 DEF TypeOK
  <1>3. 0 .. Len(log) \subseteq 0 .. Len(log') /\ 1 .. marker \subseteq 1 .. marker'
    BY <1>1 DEF TypeOK, Markers
  <1>4. Moment' = [length |-> Len(log'), marker |-> marker']
    BY DEF Moment
  <1>5. Moment' \in [length : 0 .. Len(log'), marker : 1 .. marker']
    BY <1>1, <1>4 DEF Markers
  <1>6. /\ VerifyType(verify, Len(log'), marker')
        /\ VerifyType([verify EXCEPT !.moments = @ \cup {Moment'}], Len(log'), marker')
    <2>1. VerifyType(verify, Len(log), marker)
      BY DEF TypeOK, VerifyType
    <2>2. marker \in Nat /\ marker' \in Nat /\ Len(log') \in Nat
      BY <1>1 DEF TypeOK, Markers
    <2> QED BY <1>1, <1>5, <2>1, <2>2, VerifyGrows
  <1>7. /\ scenario' \in Scenarios /\ log' \in Seq(scenario'.rows)
        /\ Len(log') <= scenario'.length /\ marker' \in Markers
        /\ past' \subseteq DOMAIN log'
    <2>1. DOMAIN log' = 1 .. Len(log') /\ DOMAIN log = 1 .. Len(log) /\ past \subseteq DOMAIN log
      BY <1>1 DEF TypeOK
    <2>2. past' \subseteq DOMAIN log'
      BY <1>1, <2>1
    <2> QED BY <1>1, <2>2 DEF TypeOK
  <1>8. VerifyType(verify', Len(log'), marker') => TypeOK'
    BY <1>7 DEF TypeOK, VerifyType
  <1>9. CASE At("idle")
    <2>1. verify' = verify
      BY <1>9 DEF Committed, At
    <2> QED BY <1>6, <1>9, <1>8, <2>1 DEF WalkKnown, At
  <1>10. CASE ~At("idle")
    <2>1. verify' = [verify EXCEPT !.moments = @ \cup {Moment'}]
      BY <1>10 DEF Committed, At
    <2>2. VerifyType(verify', Len(log'), marker')
      BY <1>6, <2>1
    <2>3. TypeOK'
      BY <1>8, <2>2
    <2>4. /\ verify'.step = verify.step /\ verify'.codes = verify.codes
          /\ verify'.seen = verify.seen /\ verify'.moments = verify.moments \cup {Moment'}
      BY <1>6, <2>1 DEF VerifyType
    <2>5. \A k \in verify.moments : k.length \in 0 .. Len(log)
      BY DEF TypeOK
    <2>6. ASSUME Walked PROVE Walked'
      <3>1. PICK n \in verify.moments, m \in verify.moments :
                 /\ n.length <= m.length
                 /\ verify.codes = Faults(SubSeq(log, 1, n.length), m.marker)
        BY <2>6 DEF Walked
      <3>2. verify'.codes = Faults(SubSeq(log', 1, n.length), m.marker)
        BY <1>2, <2>4, <2>5, <3>1
      <3> QED BY <2>4, <3>1, <3>2 DEF Walked
    <2>7. ASSUME Reported PROVE Reported'
      <3>1. CASE verify.codes # {} /\ verify.codes \subseteq Races
        BY <2>4, <3>1 DEF Reported, Races
      <3>2. CASE ~(verify.codes # {} /\ verify.codes \subseteq Races)
        <4>1. PICK n \in verify.moments, m \in verify.moments, p \in verify.moments :
                   /\ n.length <= m.length /\ m.length <= p.length
                   /\ verify.codes = WithClocks(Faults(SubSeq(log, 1, n.length), m.marker),
                                                SubSeq(log, 1, p.length))
          BY <2>7, <3>2 DEF Reported
        <4>2. /\ SubSeq(log', 1, n.length) = SubSeq(log, 1, n.length)
              /\ SubSeq(log', 1, p.length) = SubSeq(log, 1, p.length)
          BY <1>2, <2>5
        <4>3. verify'.codes = WithClocks(Faults(SubSeq(log', 1, n.length), m.marker),
                                         SubSeq(log', 1, p.length))
          BY <2>4, <4>1, <4>2
        <4> QED BY <2>4, <4>1, <4>3 DEF Reported
      <3> QED BY <3>1, <3>2
    <2> QED BY <2>3, <2>4, <2>6, <2>7 DEF WalkKnown, At
  <1> QED BY <1>9, <1>10

LEMMA NextInv == IInv /\ [Next]_vars => IInv'
  <1> SUFFICES ASSUME IInv, [Next]_vars PROVE IInv'
    OBVIOUS
  <1>0. TypeOK /\ LogKept /\ WalkKnown
    BY DEF IInv
  <1>1. CASE AppendBatch
    <2>1. PICK b \in Seq(scenario.rows) :
           /\ IsBatch(b) /\ Admitted(log, b) /\ log' = log \o b
           /\ Len(log) + Len(b) <= scenario.length
           /\ marker' = Higher(marker, Requires(log, b)) /\ verify' = Committed
           /\ past' = past /\ scenario' = scenario
      BY <1>0, <1>1, BatchTaken
    <2>2. /\ log \in Seq(Rows) /\ marker \in Markers
          /\ Requires(log, b) \in Markers
      BY <1>0, LogIsRows DEF Requires, Markers
    <2>3. marker' \in Markers /\ marker <= marker'
      BY <2>1, <2>2 DEF Higher, Markers
    <2>4. Len(log') > 0
      BY <2>1, <2>2, Appended
    <2>5. TypeOK' /\ WalkKnown'
      BY <1>0, <2>1, <2>3, <2>4, CommitKnown
    <2>6. LogKept'
      BY <1>0, <2>1, <2>2, BatchKeeps DEF LogKept
    <2> QED BY <2>5, <2>6 DEF IInv
  <1>2. CASE AppendAround
    <2>1. PICK e \in scenario.rows :
           /\ Len(log) < scenario.length /\ log' = Append(log, e)
           /\ past' = past \cup {Len(log')} /\ verify' = Committed
           /\ scenario' = scenario /\ marker' = marker
      BY <1>2 DEF AppendAround
    <2>2. /\ <<e>> \in Seq(scenario.rows) /\ Len(<<e>>) = 1 /\ log' = log \o <<e>>
          /\ Len(log) + Len(<<e>>) <= scenario.length /\ Len(log') > 0
      <3>1. scenario \in Scenarios /\ log \in Seq(scenario.rows)
        BY <1>0 DEF TypeOK
      <3>2. scenario.length \in Nat /\ Len(log) \in Nat
        BY <3>1, BoundsAssumption
      <3>3. <<e>> \in Seq(scenario.rows) /\ Len(<<e>>) = 1
        BY ShortSequences
      <3>4. log' = log \o <<e>> /\ Len(log') = Len(log) + 1
        BY <2>1, <3>1
      <3> QED BY <2>1, <3>2, <3>3, <3>4
    <2>3. marker' \in Markers /\ marker <= marker'
      BY <1>0, <2>1 DEF TypeOK, Markers
    <2>4. TypeOK' /\ WalkKnown'
      BY <1>0, <2>1, <2>2, <2>3, CommitKnown
    <2>5. LogKept'
      BY <2>1 DEF LogKept
    <2> QED BY <2>4, <2>5 DEF IInv
  <1>3. CASE Verify
    <2>1. UNCHANGED <<scenario, log, marker, past>>
      BY <1>3 DEF Verify, ReadMarker, ReadMigrations, ReadCounter, ReadLatest, AuditPage, Report,
                  CheckClocks, Return
    <2>2. LogKept' /\ Moment' = Moment
      BY <1>0, <2>1 DEF LogKept, Moment
    <2> DEFINE n == Len(log)
    <2>3. n \in Nat /\ marker \in Nat \ {0} /\ VerifyType(verify, n, marker)
      BY <1>0 DEF TypeOK, VerifyType, Markers
    <2>4. VerifyType(verify', n, marker) => TypeOK'
      BY <1>0, <2>1 DEF TypeOK, VerifyType
    <2>5. VerifyType(NotRunning, n, marker)
      BY <2>3 DEF VerifyType, NotRunning, Steps
    <2>6. Moment \in [length : 0 .. n, marker : 1 .. marker]
      BY <2>3 DEF Moment
    <2> SUFFICES VerifyType(verify', n, marker) /\ WalkKnown'
      BY <2>2, <2>4 DEF IInv
    <2>7. CASE ReadMarker
      <3>1. verify' = [NotRunning EXCEPT !.step = "marker", !.runs = verify.runs + 1,
                                         !.marker = marker, !.moments = {Moment}]
        BY <2>7 DEF ReadMarker, Moment
      <3>2. VerifyType(verify', n, marker)
        <4>1. verify.runs + 1 \in Nat /\ marker \in 1 .. marker /\ "marker" \in Steps
          BY <2>3 DEF VerifyType, Steps
        <4> QED BY <2>5, <2>6, <3>1, <4>1 DEF VerifyType
      <3>3. verify'.step = "marker" /\ verify'.moments = {Moment}
        BY <3>1 DEF NotRunning
      <3> QED BY <2>2, <3>2, <3>3 DEF WalkKnown, At
    <2>8. CASE ReadMigrations
      <3> DEFINE codes == IF marker > verify.marker THEN {"migration_unexpected"} ELSE {}
      <3>1. verify' = [verify EXCEPT !.step = "migrations", !.codes = codes]
        BY <2>8 DEF ReadMigrations
      <3>2. codes \subseteq Races /\ codes \subseteq Codes /\ ~At("idle")
        BY <2>8 DEF Races, Codes, ReadMigrations, At
      <3> HIDE DEF codes
      <3>3. /\ VerifyType(verify', n, marker) /\ verify'.step = "migrations"
            /\ verify'.moments = verify.moments /\ verify'.codes = codes
        BY <2>3, <3>1, <3>2 DEF VerifyType, Steps
      <3> QED BY <1>0, <2>2, <3>2, <3>3 DEF WalkKnown, At
    <2>9. CASE ReadCounter
      <3>1. verify' = [verify EXCEPT !.step = "counter", !.counter = n]
        BY <2>9 DEF ReadCounter
      <3>2. ~At("idle") /\ verify.codes \subseteq Races
        BY <1>0, <2>9 DEF WalkKnown, ReadCounter, At
      <3>3. /\ VerifyType(verify', n, marker) /\ verify'.step = "counter"
            /\ verify'.moments = verify.moments /\ verify'.codes = verify.codes
        <4>1. n \in 0 .. n /\ "counter" \in Steps
          BY <2>3 DEF Steps
        <4> HIDE DEF n
        <4> QED BY <2>3, <3>1, <4>1 DEF VerifyType
      <3>4. Moment' \in verify'.moments /\ verify'.codes \subseteq Races
        BY <1>0, <2>2, <3>2, <3>3 DEF WalkKnown
      <3> QED BY <3>3, <3>4 DEF WalkKnown, At
    <2>10. CASE ReadLatest
      <3> DEFINE codes == verify.codes \cup
                            (IF n # verify.counter THEN {"sequence_counter_mismatch"} ELSE {})
                 step == IF codes = {} THEN "audit" ELSE "done"
      <3>1. verify' = [verify EXCEPT !.codes = codes, !.step = step]
        BY <2>10 DEF ReadLatest
      <3>2. codes \subseteq Races /\ codes \subseteq Codes /\ ~At("idle")
        <4>1. At("counter") /\ verify.codes \subseteq Races
          BY <1>0, <2>10 DEF ReadLatest, WalkKnown
        <4>2. codes \subseteq Races
          BY <4>1 DEF Races
        <4>3. Races \subseteq Codes
          BY DEF Races, Codes
        <4> QED BY <4>1, <4>2, <4>3 DEF At
      <3>3. step \in Steps /\ step \in {"audit", "done"} /\ (step = "done" => codes # {})
        BY DEF Steps
      <3> HIDE DEF codes, step
      <3>4. /\ VerifyType(verify', n, marker) /\ verify'.step = step
            /\ verify'.moments = verify.moments /\ verify'.codes = codes
        BY <2>3, <3>1, <3>2, <3>3 DEF VerifyType
      <3>5. verify'.step = "done" => Reported'
        BY <3>2, <3>3, <3>4 DEF Reported, Races
      <3> QED BY <1>0, <2>2, <3>2, <3>3, <3>4, <3>5 DEF WalkKnown, At
    <2>11. CASE AuditPage
      <3> DEFINE left == n - verify.seen
                 seen == IF left < PageSize THEN n ELSE verify.seen + PageSize
                 step == IF left < PageSize THEN "audited" ELSE "audit"
      <3>1. verify' = [verify EXCEPT !.seen = seen, !.step = step]
        BY <2>11 DEF AuditPage
      <3>2. verify.seen \in 0 .. n /\ PageSize \in Nat /\ ~At("idle")
        BY <2>3, <2>11, BoundsAssumption DEF VerifyType, AuditPage, At
      <3>3. seen \in 0 .. n /\ step \in {"audited", "audit"} /\ (step = "audited" => seen = n)
        BY <2>3, <3>2
      <3> HIDE DEF seen, step
      <3>4. /\ VerifyType(verify', n, marker) /\ verify'.step = step
            /\ verify'.moments = verify.moments /\ verify'.seen = seen
        BY <2>3, <3>1, <3>3 DEF VerifyType, Steps
      <3>5. Moment \in verify'.moments /\ Moment.length = n
        BY <1>0, <3>2, <3>4 DEF WalkKnown, Moment
      <3>6. verify'.step = "audited" => \E k \in verify'.moments : k.length = verify'.seen
        BY <3>3, <3>4, <3>5
      <3> QED BY <2>2, <3>3, <3>4, <3>5, <3>6 DEF WalkKnown, At
    <2>12. CASE Report
      <3> DEFINE codes == Faults(Seen, AuditMarker)
      <3>1. verify' = [verify EXCEPT !.step = "walked", !.codes = codes]
        BY <2>12 DEF Report
      <3>2. codes \subseteq Codes /\ codes = Faults(SubSeq(log, 1, verify.seen), marker)
        BY FaultCodes DEF Seen, AuditMarker
      <3> HIDE DEF codes
      <3>3. /\ VerifyType(verify', n, marker) /\ verify'.step = "walked"
            /\ verify'.moments = verify.moments /\ verify'.codes = codes
        BY <2>3, <3>1, <3>2 DEF VerifyType, Steps
      <3>4. PICK k \in verify.moments : k.length = verify.seen
        BY <1>0, <2>12 DEF WalkKnown, Report
      <3>5. /\ Moment \in verify.moments /\ Moment.length = n /\ Moment.marker = marker
            /\ verify.seen <= n
        BY <1>0, <2>3, <2>12 DEF WalkKnown, Report, At, Moment, VerifyType
      <3>6. /\ k \in verify'.moments /\ Moment \in verify'.moments
            /\ k.length <= Moment.length
            /\ verify'.codes = Faults(SubSeq(log', 1, k.length), Moment.marker)
        BY <2>1, <3>2, <3>3, <3>4, <3>5
      <3>7. Walked'
        BY <3>6 DEF Walked
      <3> QED BY <2>2, <3>3, <3>5, <3>7 DEF WalkKnown, At
    <2>13. CASE CheckClocks
      <3> DEFINE codes == WithClocks(verify.codes, log)
      <3>1. verify' = [verify EXCEPT !.step = "done", !.codes = codes]
        BY <2>13 DEF CheckClocks
      <3>2. codes \subseteq Codes
        BY <2>3, ClockCodes DEF VerifyType
      <3>3. /\ Moment \in verify.moments /\ Moment.length = n /\ SubSeq(log, 1, n) = log
        BY <1>0, <2>13 DEF WalkKnown, CheckClocks, At, Moment, TypeOK
      <3>4. PICK k \in verify.moments, m \in verify.moments :
                 /\ k.length <= m.length
                 /\ verify.codes = Faults(SubSeq(log, 1, k.length), m.marker)
        BY <1>0, <2>13 DEF WalkKnown, CheckClocks, Walked
      <3>5. m.length <= n
        BY <2>3 DEF VerifyType
      <3>6. codes = WithClocks(Faults(SubSeq(log', 1, k.length), m.marker),
                               SubSeq(log', 1, Moment.length))
        BY <2>1, <3>3, <3>4
      <3> HIDE DEF codes
      <3>7. /\ VerifyType(verify', n, marker) /\ verify'.step = "done"
            /\ verify'.moments = verify.moments /\ verify'.codes = codes
        BY <2>3, <3>1, <3>2 DEF VerifyType, Steps
      <3>8. Reported'
        BY <3>3, <3>4, <3>5, <3>6, <3>7 DEF Reported
      <3> QED BY <2>2, <3>3, <3>7, <3>8 DEF WalkKnown, At
    <2>14. CASE Return
      <3>1. verify' = [NotRunning EXCEPT !.runs = verify.runs]
        BY <2>14 DEF Return
      <3>2. VerifyType(verify', n, marker) /\ verify'.step = "idle"
        BY <2>3, <2>5, <3>1 DEF VerifyType, NotRunning
      <3> QED BY <3>2 DEF WalkKnown, At
    <2> QED BY <1>3, <2>7, <2>8, <2>9, <2>10, <2>11, <2>12, <2>13, <2>14 DEF Verify
  <1>4. CASE UNCHANGED vars
    <2>1. Moment' = Moment /\ (Walked <=> Walked') /\ (Reported <=> Reported')
      BY <1>4 DEF vars, Moment, Walked, Reported
    <2> QED BY <1>0, <1>4, <2>1 DEF IInv, TypeOK, LogKept, WalkKnown, At, vars
  <1> QED BY <1>1, <1>2, <1>3, <1>4 DEF Next

\* What holds of every reachable state: a log the repository alone wrote keeps its
\* rules, and a verify knows its log at a moment of its run.
THEOREM Invariance == Spec => []IInv
  BY InitInv, NextInv, PTL DEF Spec

-----------------------------------------------------------------------------
(* The theorems. *)

\* Every variable keeps its type, of any rows stored through the repository or
\* past it.
THEOREM TypeCorrect == Spec => []TypeOK
  <1>1. IInv => TypeOK
    BY DEF IInv
  <1> QED BY <1>1, Invariance, PTL

\* Whatever a store was made to hold, a log the audit does not fault is one that
\* no reader of the history refuses.
THEOREM NoSilentRefusal == Spec => []AuditNamesEveryRefusal
  <1>1. IInv => AuditNamesEveryRefusal
    BY LogIsRows, AuditNamesAll DEF IInv, AuditNamesEveryRefusal
  <1> QED BY <1>1, Invariance, PTL

\* What append_batch lets in, of any rows in any order, the audit has no fault
\* of the kinds append_batch looks for.
THEOREM AdmissionAgrees == Spec => []RepositoryAdmitsNoFault
  <1>1. IInv => RepositoryAdmitsNoFault
    BY LogIsRows, KeptIsClean DEF IInv, LogKept, RepositoryAdmitsNoFault
  <1> QED BY <1>1, Invariance, PTL

\* A finished verify reports the log at one moment of its run, however many
\* commits fell between its statements.
THEOREM OneMomentReported == Spec => []VerifyReportsOneMoment
  <1>1. IInv => VerifyReportsOneMoment
    BY DEF IInv, WalkKnown, Reported, VerifyReportsOneMoment
  <1> QED BY <1>1, Invariance, PTL

=============================================================================
