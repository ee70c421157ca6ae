----------------------- MODULE ArtifactHistoryProofs -----------------------
(***************************************************************************)
(* Theorems about ArtifactHistory: what the split leaves of any digest,    *)
(* for any number of streams and any parsers, versions and instants.  The  *)
(* lemmas are about every sequence of streams, recorded by ingest or not.  *)
(***************************************************************************)
EXTENDS ArtifactHistory, TLAPS, FiniteSetTheorems, WellFoundedInduction

Streams == Seq(Artifact \cup Failure)

-----------------------------------------------------------------------------
(* One stream of a sequence. *)

LEMMA StreamFields ==
    ASSUME NEW S \in Streams, NEW i \in DOMAIN S
    PROVE  /\ i \in Nat /\ S[i] \in Artifact \cup Failure
           /\ S[i].version \in Versions /\ S[i].parser \in Parsers
           /\ S[i].kind = "failure" => S[i] \in Failure
           /\ S[i].kind = "artifact" => S[i] \in Artifact
BY DEF Streams, Artifact, Failure

LEMMA KeyIsNumber ==
    ASSUME NEW S \in Streams, NEW i \in DOMAIN S
    PROVE  Key(S[i].version, Numeric(S)) \in Int
<1>1. S[i].version \in Versions
      BY StreamFields
<1>2. CASE Numeric(S)
      BY <1>2, HistoryAssumption DEF Key, Numeric
<1>3. CASE ~Numeric(S)
      BY <1>1, <1>3, HistoryAssumption DEF Key
<1> QED BY <1>2, <1>3

LEMMA StreamsFinite ==
    ASSUME NEW S \in Streams, NEW C \in SUBSET DOMAIN S
    PROVE  IsFiniteSet(C) /\ C \subseteq Nat
<1>1. DOMAIN S = 1..Len(S) /\ Len(S) \in Nat
      BY DEF Streams
<1>2. IsFiniteSet(1..Len(S))
      BY <1>1, FS_Interval
<1>3. C \subseteq 1..Len(S)
      BY <1>1
<1>4. IsFiniteSet(C)
      BY <1>2, <1>3, FS_Subset
<1> QED BY <1>1, <1>3, <1>4

-----------------------------------------------------------------------------
(* The choices the split makes have something to choose. *)

\* Some stream of any group is at least as new as all of it, the later one winning a tie.
LEMMA NewestExists ==
    ASSUME NEW S \in Streams, NEW C \in SUBSET DOMAIN S, C # {}
    PROVE  \E i \in C : \A j \in C :
              \/ Key(S[j].version, Numeric(S)) < Key(S[i].version, Numeric(S))
              \/ Key(S[j].version, Numeric(S)) = Key(S[i].version, Numeric(S)) /\ j <= i
<1> DEFINE key(i) == Key(S[i].version, Numeric(S))
           Above(i, j) == key(j) < key(i) \/ (key(j) = key(i) /\ j <= i)
           HasNewest(U) == \E i \in U : \A j \in U : Above(i, j)
           Bad == {U \in FiniteSubsetsOf(DOMAIN S) : U # {} /\ ~HasNewest(U)}
<1>1. SUFFICES ASSUME C \in Bad PROVE FALSE
      BY StreamsFinite DEF FiniteSubsetsOf
<1>2. \A i \in DOMAIN S : key(i) \in Int /\ i \in Nat
      BY KeyIsNumber, StreamFields
<1>3. PICK U \in Bad : \A V \in Bad : <<V, U>> \notin StrictSubsetOrdering(DOMAIN S)
      BY <1>1, WFMin, FS_StrictSubsetOrderingWellFounded
<1>4. PICK x \in U : TRUE
      OBVIOUS
<1>5. /\ U \ {x} \in FiniteSubsetsOf(DOMAIN S)
      /\ U \in FiniteSubsetsOf(DOMAIN S)
      BY <1>4, FS_RemoveElement DEF FiniteSubsetsOf
<1>6. U \ {x} \notin Bad
      BY <1>3, <1>4, <1>5 DEF StrictSubsetOrdering, FiniteSubsetsOf
<1>7. ~HasNewest(U)
      OBVIOUS
<1>8. U \subseteq DOMAIN S
      BY <1>5 DEF FiniteSubsetsOf
<1> HIDE DEF key, Bad
<1>9. CASE U \ {x} = {}
      BY <1>2, <1>4, <1>7, <1>8, <1>9
<1>10. CASE U \ {x} # {}
  <2>1. HasNewest(U \ {x})
        BY <1>5, <1>6, <1>10 DEF Bad
  <2>2. PICK n \in U \ {x} : \A j \in U \ {x} : Above(n, j)
        BY <2>1
  <2>3. /\ key(n) \in Int /\ key(x) \in Int /\ n \in Nat /\ x \in Nat
        /\ \A j \in U : key(j) \in Int /\ j \in Nat
        BY <1>2, <1>4, <1>8
  <2>4. CASE Above(n, x)
        BY <1>4, <1>7, <2>2, <2>4
  <2>5. CASE ~Above(n, x)
    <3>1. Above(x, n)
          BY <2>3, <2>5
    <3>2. \A j \in U : Above(x, j)
          BY <2>2, <2>3, <3>1
    <3> QED BY <1>4, <1>7, <3>2
  <2> QED BY <2>4, <2>5
<1> QED BY <1>9, <1>10

LEMMA NewestIsNewest ==
    ASSUME NEW S \in Streams, NEW C \in SUBSET DOMAIN S, C # {}
    PROVE  /\ Newest(S, C) \in C
           /\ \A j \in C :
                 \/ Key(S[j].version, Numeric(S)) < Key(S[Newest(S, C)].version, Numeric(S))
                 \/ /\ Key(S[j].version, Numeric(S))
                          = Key(S[Newest(S, C)].version, Numeric(S))
                    /\ j <= Newest(S, C)
BY NewestExists, Zenon DEF Newest

\* A finite, nonempty set of numbers has a least element.
LEMMA LeastExists ==
    ASSUME NEW C \in SUBSET Nat, IsFiniteSet(C), C # {}
    PROVE  \E c \in C : \A g \in C : c <= g
<1> DEFINE HasLeast(U) == \E c \in U : \A g \in U : c <= g
           Bad == {U \in FiniteSubsetsOf(Nat) : U # {} /\ ~HasLeast(U)}
<1>1. SUFFICES ASSUME C \in Bad PROVE FALSE
      BY DEF FiniteSubsetsOf
<1>2. PICK U \in Bad : \A V \in Bad : <<V, U>> \notin StrictSubsetOrdering(Nat)
      BY <1>1, WFMin, FS_StrictSubsetOrderingWellFounded
<1>3. PICK x \in U : TRUE
      OBVIOUS
<1>4. /\ U \ {x} \in FiniteSubsetsOf(Nat)
      /\ U \subseteq Nat
      BY <1>3, FS_RemoveElement DEF FiniteSubsetsOf
<1>5. U \ {x} \notin Bad
      BY <1>2, <1>3, <1>4 DEF StrictSubsetOrdering, FiniteSubsetsOf
<1>6. HasLeast(U)
  <2>1. CASE U \ {x} = {}
        BY <1>3, <1>4, <2>1
  <2>2. CASE U \ {x} # {}
    <3>1. PICK n \in U \ {x} : \A g \in U \ {x} : n <= g
          BY <1>4, <1>5, <2>2
    <3>2. CASE n <= x
          BY <3>1, <3>2
    <3>3. CASE x < n
          BY <1>3, <1>4, <3>1, <3>3
    <3> QED BY <1>3, <1>4, <3>2, <3>3
  <2> QED BY <2>1, <2>2
<1> QED BY <1>6

LEMMA CarrierCarries ==
    ASSUME NEW S \in Streams, NEW f \in Standing(S)
    PROVE  /\ Carrier(S, f) \in Standing(S)
           /\ S[Carrier(S, f)].observation = S[f].observation
           /\ \A g \in Standing(S) :
                 S[g].observation = S[f].observation => Carrier(S, f) <= g
<1> DEFINE Same == {g \in Standing(S) : S[g].observation = S[f].observation}
<1>1. Same \subseteq Nat /\ f \in Same
      BY StreamFields DEF Standing, Failures
<1>2. IsFiniteSet(Same)
      BY StreamsFinite DEF Standing, Failures
<1>3. PICK least \in Same : \A g \in Same : least <= g
      BY <1>1, <1>2, LeastExists
<1>4. \E c \in Standing(S) :
          /\ S[c].observation = S[f].observation
          /\ \A g \in Standing(S) : S[g].observation = S[f].observation => c <= g
      BY <1>3
<1> QED BY <1>4, Zenon DEF Carrier

\* Streams that hold one observation have one carrier, and it carries itself.
LEMMA OneCarrier ==
    ASSUME NEW S \in Streams, NEW f \in Standing(S), NEW g \in Standing(S),
           S[f].observation = S[g].observation
    PROVE  Carrier(S, f) = Carrier(S, g)
<1>1. Carrier(S, f) <= Carrier(S, g) /\ Carrier(S, g) <= Carrier(S, f)
      BY CarrierCarries
<1>2. Carrier(S, f) \in Nat /\ Carrier(S, g) \in Nat
      BY CarrierCarries, StreamFields DEF Standing, Failures
<1> QED BY <1>1, <1>2

LEMMA CarrierCurrent ==
    ASSUME NEW S \in Streams, NEW f \in Standing(S)
    PROVE  Carrier(S, f) \in CurrentFailures(S)
BY CarrierCarries, OneCarrier DEF CurrentFailures, Dormant

-----------------------------------------------------------------------------
(* What the split leaves, of every sequence of streams. *)

\* Whatever replaces a superseded reading is itself current: under R2 the newest failure
\* no reading of the digest outranks.
LEMMA ReplacementIsCurrentOf ==
    ASSUME NEW S \in Streams, Readings(S) # {}
    PROVE  Replacement(S) \in Current(S)
<1>1. Readings(S) \subseteq DOMAIN S /\ NewerFailures(S) \subseteq DOMAIN S
      BY DEF Readings, NewerFailures, Failures
<1>2. /\ Winner(S) \in Readings(S)
      /\ \A r \in Readings(S) :
            \/ Key(S[r].version, Numeric(S)) < Key(S[Winner(S)].version, Numeric(S))
            \/ Key(S[r].version, Numeric(S)) = Key(S[Winner(S)].version, Numeric(S))
      BY <1>1, NewestIsNewest DEF Winner
<1>3. CASE ~Retired(S)
      BY <1>2, <1>3 DEF Replacement, Current, CurrentReadings
<1>4. CASE Retired(S)
  <2> DEFINE f == Newest(S, NewerFailures(S))
  <2>1. f \in NewerFailures(S)
        BY <1>1, <1>4, NewestIsNewest DEF Retired
  <2>2. /\ f \in Failures(S) \ Dormant(S)
        /\ S[f].parser = S[Winner(S)].parser
        /\ Key(S[f].version, Numeric(S)) > Key(S[Winner(S)].version, Numeric(S))
        BY <2>1 DEF NewerFailures
  <2> HIDE DEF f
  <2>3. ASSUME NEW r \in Readings(S)
        PROVE  ~Outranks(S[r], S[f], Numeric(S))
    <3>1. S[r].parser = S[f].parser
          BY <1>4, <2>2 DEF Retired
    <3>2. /\ Key(S[r].version, Numeric(S)) \in Int
          /\ Key(S[f].version, Numeric(S)) \in Int
          /\ Key(S[Winner(S)].version, Numeric(S)) \in Int
          BY <1>1, <1>2, <2>2, KeyIsNumber DEF Failures
    <3>3. ~(Key(S[r].version, Numeric(S)) >= Key(S[f].version, Numeric(S)))
          BY <1>2, <2>2, <3>2
    <3> QED BY <3>1, <3>3 DEF Outranks
  <2>4. f \in CurrentFailures(S)
        BY <2>2, <2>3 DEF CurrentFailures, Standing
  <2> QED BY <1>4, <2>4 DEF Replacement, Current, f
<1> QED BY <1>3, <1>4

\* Anything recorded of a digest leaves something current.
LEMMA SomethingIsCurrentOf ==
    ASSUME NEW S \in Streams, S # <<>>
    PROVE  Current(S) # {}
<1>1. CASE Readings(S) # {}
      BY <1>1, ReplacementIsCurrentOf
<1>2. CASE Readings(S) = {}
  <2>1. PICK f \in DOMAIN S : TRUE
        BY DEF Streams
  <2>2. f \in Failures(S)
        BY <1>2, StreamFields DEF Readings, Failures, Artifact, Failure
  <2>3. f \in Standing(S)
        BY <1>2, <2>2 DEF Standing
  <2> QED BY <2>3, CarrierCurrent DEF Current
<1> QED BY <1>1, <1>2

\* Each standing failure's observation is carried by one current stream.
LEMMA CarriedOnceOf ==
    ASSUME NEW S \in Streams, NEW f \in Standing(S)
    PROVE  Cardinality({c \in CurrentFailures(S) :
                           S[c].observation = S[f].observation}) = 1
<1> DEFINE Same == {c \in CurrentFailures(S) : S[c].observation = S[f].observation}
<1>1. Carrier(S, f) \in Same
      BY CarrierCurrent, CarrierCarries
<1>2. ASSUME NEW c \in Same PROVE c = Carrier(S, f)
  <2>1. c \in Standing(S) /\ Carrier(S, c) = c
        BY DEF CurrentFailures, Dormant
  <2> QED BY <2>1, OneCarrier
<1>3. Same = {Carrier(S, f)}
      BY <1>1, <1>2
<1> QED BY <1>3, FS_Singleton

-----------------------------------------------------------------------------
(* The writers append. *)

\* The streams of S keep their place and their contents in T.
Extends(S, T) == DOMAIN S \subseteq DOMAIN T /\ \A i \in DOMAIN S : T[i] = S[i]

\* A failure whose observation an earlier stream holds is a hold.
HoldsHeld(S) ==
    \A f, g \in Failures(S) :
        g < f /\ S[g].observation = S[f].observation => S[f].head = "failure.held"

Written(S) == S \in Streams /\ HoldsHeld(S)

LEMMA AppendExtends ==
    ASSUME NEW S \in Streams, NEW x \in Artifact \cup Failure
    PROVE  /\ Append(S, x) \in Streams
           /\ Extends(S, Append(S, x))
           /\ DOMAIN Append(S, x) = DOMAIN S \cup {Len(S) + 1}
           /\ DOMAIN S = 1..Len(S) /\ Len(S) \in Nat
           /\ Append(S, x)[Len(S) + 1] = x
BY DEF Streams, Extends

LEMMA ExtendsTransitive ==
    ASSUME NEW S, NEW T, NEW U, Extends(S, T), Extends(T, U)
    PROVE  Extends(S, U)
BY DEF Extends

LEMMA RecordIngestWrites ==
    ASSUME NEW S, Written(S),
           NEW p \in Parsers, NEW v \in Versions, NEW unsuccessful \in BOOLEAN
    PROVE  /\ Written(RecordIngest(S, p, v, unsuccessful))
           /\ Extends(S, RecordIngest(S, p, v, unsuccessful))
<1> DEFINE x == Reading(p, v, unsuccessful)
           T == Append(S, x)
<1>1. CASE Known(S, "artifact", p, v)
      BY <1>1 DEF RecordIngest, Extends
<1>2. CASE ~Known(S, "artifact", p, v)
  <2>1. x \in Artifact /\ x.kind = "artifact"
        BY DEF Reading, Artifact
  <2> HIDE DEF x
  <2>2. /\ T \in Streams /\ Extends(S, T)
        /\ DOMAIN T = DOMAIN S \cup {Len(S) + 1} /\ T[Len(S) + 1] = x
        BY <2>1, AppendExtends DEF Written
  <2> HIDE DEF T
  <2>3. Failures(T) = Failures(S) /\ \A f \in Failures(S) : T[f] = S[f]
        BY <2>1, <2>2 DEF Failures, Extends
  <2>4. Written(T)
        BY <2>2, <2>3 DEF Written, HoldsHeld
  <2>5. RecordIngest(S, p, v, unsuccessful) = T
        BY <1>2 DEF RecordIngest, T, x
  <2> QED BY <2>2, <2>4, <2>5
<1> QED BY <1>1, <1>2

LEMMA RecordFailureWrites ==
    ASSUME NEW S, Written(S),
           NEW p \in Parsers, NEW v \in Versions, NEW class \in Classes, NEW t \in Instants
    PROVE  /\ Written(RecordFailure(S, p, v, class, t))
           /\ Extends(S, RecordFailure(S, p, v, class, t))
<1> DEFINE x == [kind |-> "failure", parser |-> p, version |-> v, class |-> class,
                 observation |-> t, head |-> HeadType(S, t)]
           T == Append(S, x)
<1>1. CASE Known(S, "failure", p, v)
      BY <1>1 DEF RecordFailure, Extends
<1>2. CASE ~Known(S, "failure", p, v)
  <2>1. /\ x \in Failure /\ x.kind = "failure" /\ x.observation = t
        /\ Held(S, t) => x.head = "failure.held"
        BY DEF HeadType, Failure
  <2> HIDE DEF x
  <2>2. /\ T \in Streams /\ Extends(S, T)
        /\ DOMAIN T = DOMAIN S \cup {Len(S) + 1} /\ T[Len(S) + 1] = x
        /\ DOMAIN S = 1..Len(S) /\ Len(S) \in Nat
        BY <2>1, AppendExtends DEF Written
  <2> HIDE DEF T
  <2>3. /\ Failures(T) = Failures(S) \cup {Len(S) + 1}
        /\ \A f \in Failures(S) : T[f] = S[f] /\ f \in 1..Len(S)
        BY <2>1, <2>2 DEF Failures, Extends
  <2>4. ASSUME NEW f \in Failures(T), NEW g \in Failures(T),
               g < f, T[g].observation = T[f].observation
        PROVE  T[f].head = "failure.held"
    <3>1. g \in Failures(S)
          BY <2>2, <2>3, <2>4
    <3>2. CASE f \in Failures(S)
          BY <2>3, <2>4, <3>1, <3>2 DEF Written, HoldsHeld
    <3>3. CASE f = Len(S) + 1
          BY <2>1, <2>2, <2>3, <2>4, <3>1, <3>3 DEF Held
    <3> QED BY <2>3, <3>2, <3>3
  <2>5. Written(T)
        BY <2>2, <2>4 DEF Written, HoldsHeld
  <2>6. RecordFailure(S, p, v, class, t) = T
        BY <1>2 DEF RecordFailure, T, x
  <2> QED BY <2>2, <2>5, <2>6
<1> QED BY <1>1, <1>2

-----------------------------------------------------------------------------
(* The invariant. *)

IInv == Written(streams) /\ TypeOK

LEMMA InitInvariant ==
    Init => IInv
BY DEF Init, IInv, Written, TypeOK, Streams, HoldsHeld, Failures

LEMMA StepWrites ==
    ASSUME Written(streams), [Next]_vars
    PROVE  /\ Written(streams') /\ Extends(streams, streams')
           /\ ran' \in {ran, "reading", "side record", "failures", "refusal", "library"}
<1>1. ASSUME NEW p \in Parsers, NEW v \in Versions, NEW t \in Instants,
             NEW unsuccessful \in BOOLEAN, NEW flag \in BOOLEAN,
             IngestReading(p, v, unsuccessful, t, flag)
      PROVE  /\ Written(streams') /\ Extends(streams, streams')
             /\ ran' \in {"reading", "side record"}
  <2> DEFINE read == RecordIngest(streams, p, v, unsuccessful)
             both == RecordFailure(read, p, v, "execution", t)
  <2>1. Written(read) /\ Extends(streams, read)
        BY RecordIngestWrites
  <2>2. "execution" \in Classes
        BY DEF Classes
  <2> HIDE DEF read
  <2>3. Written(both) /\ Extends(read, both)
        BY <2>1, <2>2, RecordFailureWrites
  <2>4. Extends(streams, both)
        BY <2>1, <2>3, ExtendsTransitive
  <2>5. \/ streams' = both /\ ran' = "side record"
        \/ streams' = read /\ ran' = "reading"
        BY <1>1, Zenon DEF IngestReading, Ends, read
  <2> QED BY <2>1, <2>3, <2>4, <2>5
<1>2. ASSUME NEW p \in Parsers, NEW v \in Versions, NEW t \in Instants,
             NEW class \in Classes, RecordUnasked(p, v, class, t)
      PROVE  /\ Written(streams') /\ Extends(streams, streams')
             /\ ran' = "library"
      BY <1>2, RecordFailureWrites DEF RecordUnasked, Ends
<1>3. ASSUME NEW failed \in FailedReadings, NEW t \in Instants, IngestFailures(failed, t)
      PROVE  /\ Written(streams') /\ Extends(streams, streams')
             /\ ran' = "failures"
  <2> DEFINE first == RecordOne(streams, failed[1], t)
             second == RecordOne(first, failed[2], t)
  <2>1. /\ failed \in UNION {[1..n -> [parser : Parsers, version : Versions,
                                       class : Classes]] : n \in 1..2}
        /\ Len(failed) = 1 \/ Len(failed) = 2
        BY DEF FailedReadings
  <2>2. /\ failed[1].parser \in Parsers /\ failed[1].version \in Versions
        /\ failed[1].class \in Classes
        BY <2>1
  <2>3. Written(first) /\ Extends(streams, first)
        BY <2>2, RecordFailureWrites DEF RecordOne
  <2> HIDE DEF first
  <2>4. CASE Len(failed) = 1
        BY <1>3, <2>3, <2>4 DEF IngestFailures, Ends, RecordAll, first
  <2>5. CASE Len(failed) = 2
    <3>1. /\ failed[2].parser \in Parsers /\ failed[2].version \in Versions
          /\ failed[2].class \in Classes
          BY <2>1, <2>5
    <3>2. Written(second) /\ Extends(first, second)
          BY <2>3, <3>1, RecordFailureWrites DEF RecordOne
    <3>3. Extends(streams, second)
          BY <2>3, <3>2, ExtendsTransitive
    <3>4. streams' = second /\ ran' = "failures"
          BY <1>3, <2>5 DEF IngestFailures, Ends, RecordAll, first
    <3> QED BY <3>2, <3>3, <3>4
  <2> QED BY <2>1, <2>4, <2>5
<1>4. ASSUME NEW failed \in FailedReadings, IngestRefused(failed)
      PROVE  /\ Written(streams') /\ Extends(streams, streams')
             /\ ran' = "refusal"
      BY <1>4 DEF IngestRefused, Extends
<1>5. CASE UNCHANGED vars
      BY <1>5 DEF vars, Extends
<1> QED BY <1>1, <1>2, <1>3, <1>4, <1>5 DEF Next, Step

LEMMA NextInvariant ==
    IInv /\ [Next]_vars => IInv'
BY StepWrites DEF IInv, TypeOK, Written, Streams

LEMMA Invariant == Spec => []IInv
BY InitInvariant, NextInvariant, PTL DEF Spec

-----------------------------------------------------------------------------
(* The theorems. *)

\* Every stream recorded is a reading or a failure with all a report needs of it.
THEOREM TypeCorrect == Spec => []TypeOK
<1>1. IInv => TypeOK
      BY DEF IInv
<1> QED BY <1>1, Invariant, PTL

\* A digest somebody recorded anything of is never left with nothing current to report.
THEOREM SomethingIsCurrent == Spec => []SomethingCurrent
<1>1. IInv => SomethingCurrent
      BY SomethingIsCurrentOf DEF IInv, Written, SomethingCurrent
<1> QED BY <1>1, Invariant, PTL

\* What replaces a superseded reading is itself in the report (R1, R2 and R6 together).
THEOREM ReplacementIsCurrent == Spec => []ReplacementCurrent
<1>1. IInv => ReplacementCurrent
      BY ReplacementIsCurrentOf DEF IInv, Written, ReplacementCurrent
<1> QED BY <1>1, Invariant, PTL

\* A failure no reading resolved is in the report exactly once (R6).
THEOREM FailuresCarriedOnce == Spec => []CarriedOnce
<1>1. IInv => CarriedOnce
      BY CarriedOnceOf DEF IInv, Written, CarriedOnce
<1> QED BY <1>1, Invariant, PTL

\* Only a log with holds has dormant streams: the writers make every later stream of an
\* observation a hold.
THEOREM NothingDormantWithoutHolds == Spec => []NoHoldNothingDormant
<1>1. IInv => NoHoldNothingDormant
  <2> SUFFICES ASSUME IInv, NEW f \in Dormant(streams)
               PROVE  \E g \in Failures(streams) : streams[g].head = "failure.held"
      BY DEF NoHoldNothingDormant
  <2> DEFINE c == Carrier(streams, f)
  <2>1. f \in Standing(streams) /\ c # f /\ streams \in Streams
        BY DEF Dormant, IInv, Written
  <2>2. /\ c \in Standing(streams) /\ c <= f
        /\ streams[c].observation = streams[f].observation
        BY <2>1, CarrierCarries
  <2>3. c \in Failures(streams) /\ f \in Failures(streams) /\ c \in Nat /\ f \in Nat
        BY <2>1, <2>2, StreamFields DEF Standing, Failures
  <2>4. streams[f].head = "failure.held"
        BY <2>1, <2>2, <2>3 DEF IInv, Written, HoldsHeld
  <2> QED BY <2>3, <2>4
<1> QED BY <1>1, Invariant, PTL

\* A failure some reading resolved stays resolved while the comparison stays the same.
THEOREM ResolvedFailuresStay == Spec => ResolvedStays
<1>1. IInv /\ [Next]_vars =>
         ((Numeric(streams') <=> Numeric(streams)) =>
             Failures(streams) \ Standing(streams)
                \subseteq Failures(streams') \ Standing(streams'))
  <2> SUFFICES ASSUME IInv, [Next]_vars, Numeric(streams') <=> Numeric(streams),
                      NEW f \in Failures(streams) \ Standing(streams)
               PROVE  f \in Failures(streams') \ Standing(streams')
      OBVIOUS
  <2>1. Extends(streams, streams')
        BY StepWrites DEF IInv
  <2>2. PICK r \in Readings(streams) : Outranks(streams[r], streams[f], Numeric(streams))
        BY DEF Standing
  <2>3. /\ f \in Failures(streams') /\ streams'[f] = streams[f]
        /\ r \in Readings(streams') /\ streams'[r] = streams[r]
        BY <2>1 DEF Extends, Failures, Readings
  <2>4. Numeric(streams') = Numeric(streams)
        BY DEF Numeric
  <2>5. Outranks(streams'[r], streams'[f], Numeric(streams'))
        BY <2>2, <2>3, <2>4
  <2> QED BY <2>3, <2>5 DEF Standing
<1>2. IInv /\ [Next]_vars =>
         [(Numeric(streams') <=> Numeric(streams)) =>
             Failures(streams) \ Standing(streams)
                \subseteq Failures(streams') \ Standing(streams')]_vars
      BY <1>1
<1> QED BY <1>2, Invariant, PTL DEF Spec, ResolvedStays

-----------------------------------------------------------------------------
(* Failures ingest records. *)

\* Every stream of T past those of S is a failure of one of the failed readings.
AddsFailed(S, T, failed) ==
    \A f \in DOMAIN T \ DOMAIN S :
        /\ T[f].kind = "failure"
        /\ \E i \in DOMAIN failed :
              /\ T[f].parser = failed[i].parser /\ T[f].version = failed[i].version
              /\ T[f].class = failed[i].class

LEMMA RecordOneAdds ==
    ASSUME NEW S, Written(S), NEW failed, NEW i \in DOMAIN failed, NEW t \in Instants,
           failed[i].parser \in Parsers, failed[i].version \in Versions,
           failed[i].class \in Classes
    PROVE  AddsFailed(S, RecordOne(S, failed[i], t), failed)
<1> DEFINE p == failed[i].parser
           v == failed[i].version
           x == [kind |-> "failure", parser |-> p, version |-> v, class |-> failed[i].class,
                 observation |-> t, head |-> HeadType(S, t)]
           T == Append(S, x)
<1>1. CASE Known(S, "failure", p, v)
      BY <1>1 DEF RecordOne, RecordFailure, AddsFailed
<1>2. CASE ~Known(S, "failure", p, v)
  <2>1. x \in Failure
        BY DEF Failure, HeadType
  <2>2. /\ x.kind = "failure" /\ x.parser = p /\ x.version = v /\ x.class = failed[i].class
        OBVIOUS
  <2> HIDE DEF x
  <2>3. DOMAIN T = DOMAIN S \cup {Len(S) + 1} /\ T[Len(S) + 1] = x
        BY <2>1, AppendExtends DEF Written
  <2> HIDE DEF T
  <2>4. RecordOne(S, failed[i], t) = T
        BY <1>2 DEF RecordOne, RecordFailure, T, x
  <2> QED BY <2>2, <2>3, <2>4 DEF AddsFailed
<1> QED BY <1>1, <1>2

LEMMA AddsTransitive ==
    ASSUME NEW S, NEW T, NEW U, NEW failed, Extends(T, U),
           AddsFailed(S, T, failed), AddsFailed(T, U, failed)
    PROVE  AddsFailed(S, U, failed)
<1>1. ASSUME NEW f \in DOMAIN U \ DOMAIN S, f \in DOMAIN T
      PROVE  U[f] = T[f]
      BY <1>1 DEF Extends
<1> QED BY <1>1 DEF AddsFailed

LEMMA FailuresAdd ==
    ASSUME Written(streams), NEW failed \in FailedReadings, NEW t \in Instants,
           IngestFailures(failed, t)
    PROVE  AddsFailed(streams, streams', failed)
<1> DEFINE first == RecordOne(streams, failed[1], t)
           second == RecordOne(first, failed[2], t)
<1>1. /\ failed \in UNION {[1..n -> [parser : Parsers, version : Versions,
                                     class : Classes]] : n \in 1..2}
      /\ Len(failed) = 1 \/ Len(failed) = 2
      BY DEF FailedReadings
<1>2. /\ 1 \in DOMAIN failed
      /\ failed[1].parser \in Parsers /\ failed[1].version \in Versions
      /\ failed[1].class \in Classes
      BY <1>1
<1>3. /\ Written(first) /\ AddsFailed(streams, first, failed)
      BY <1>2, RecordFailureWrites, RecordOneAdds DEF RecordOne
<1> HIDE DEF first
<1>4. CASE Len(failed) = 1
      BY <1>3, <1>4 DEF IngestFailures, Ends, RecordAll, first
<1>5. CASE Len(failed) = 2
  <2>1. /\ 2 \in DOMAIN failed
        /\ failed[2].parser \in Parsers /\ failed[2].version \in Versions
        /\ failed[2].class \in Classes
        BY <1>1, <1>5
  <2>2. Extends(first, second) /\ AddsFailed(first, second, failed)
        BY <1>3, <2>1, RecordFailureWrites, RecordOneAdds DEF RecordOne
  <2>3. AddsFailed(streams, second, failed)
        BY <1>3, <2>2, AddsTransitive
  <2>4. streams' = second
        BY <1>5 DEF IngestFailures, Ends, RecordAll, first
  <2> QED BY <2>3, <2>4
<1> QED BY <1>1, <1>4, <1>5

\* Whether the digest compares as numbers once the run is over is what was weighed for each
\* of its failures, unless another of them turned it.
LEMMA ComparedAsWeighed ==
    ASSUME NEW S \in Streams, NEW T \in Streams, Extends(S, T),
           NEW f \in DOMAIN T \ DOMAIN S,
           (Numeric(T) <=> Numeric(S)) \/ Cardinality(DOMAIN T \ DOMAIN S) = 1
    PROVE  Numeric(T) <=> Numeric(S) /\ T[f].version \in DOMAIN Number
<1>1. Numeric(T) => Numeric(S) /\ T[f].version \in DOMAIN Number
      BY DEF Numeric, Extends
<1>2. CASE Numeric(T) <=> Numeric(S)
      BY <1>1, <1>2
<1>3. CASE Cardinality(DOMAIN T \ DOMAIN S) = 1
  <2> DEFINE new == DOMAIN T \ DOMAIN S
  <2>1. IsFiniteSet(new)
        BY StreamsFinite
  <2> HIDE DEF new
  <2>2. PICK g : new = {g}
        BY <1>3, <2>1, FS_Singleton DEF new
  <2>3. DOMAIN T = DOMAIN S \cup {f}
        BY <2>2 DEF new, Extends
  <2>4. Numeric(S) /\ T[f].version \in DOMAIN Number => Numeric(T)
        BY <2>3 DEF Numeric, Extends
  <2> QED BY <1>1, <2>4
<1> QED BY <1>2, <1>3

\* A failed reading that ingest records stands in the fold that follows, however many readings
\* and failures the digest has, unless another reading of the same run turned the comparison
\* of its versions (reading_elsewhere).
THEOREM FailuresStandAtBirth == Spec => NotSupersededAtBirth
<1>1. ASSUME IInv, [Next]_vars, ran' = "failures",
             (Numeric(streams') <=> Numeric(streams))
                \/ Cardinality(DOMAIN streams' \ DOMAIN streams) = 1,
             NEW f \in DOMAIN streams' \ DOMAIN streams
      PROVE  f \in Standing(streams')
  <2>1. Written(streams) /\ Written(streams') /\ Extends(streams, streams')
        BY <1>1, StepWrites DEF IInv
  <2>2. PICK failed \in FailedReadings, t \in Instants : IngestFailures(failed, t)
    <3>1. ~UNCHANGED vars
          BY <1>1 DEF vars
    <3> QED BY <1>1, <3>1 DEF Next, Step, IngestReading, RecordUnasked, IngestRefused, Ends
  <2>3. PICK i \in DOMAIN failed :
           /\ streams'[f].parser = failed[i].parser /\ streams'[f].version = failed[i].version
           /\ streams'[f].class = failed[i].class /\ streams'[f].kind = "failure"
        BY <1>1, <2>1, <2>2, FailuresAdd DEF AddsFailed
  <2> DEFINE pending == [parser |-> failed[i].parser, version |-> failed[i].version,
                         class |-> failed[i].class]
             numeric == Numeric(streams) /\ failed[i].version \in DOMAIN Number
  <2>4. ~ReadElsewhere(streams, failed[i].parser, failed[i].version, failed[i].class)
        BY <2>2, <2>3 DEF IngestFailures, Refused
  <2>5. \A r \in Readings(streams) : ~Outranks(streams[r], pending, numeric)
        BY <2>4 DEF ReadElsewhere
  <2>6. Numeric(streams') = numeric
    <3>1. Numeric(streams') <=> numeric
          BY <1>1, <2>1, <2>3, ComparedAsWeighed DEF Written
    <3> QED BY <3>1 DEF Numeric
  <2> HIDE DEF numeric
  <2>7. ASSUME NEW r \in Readings(streams')
        PROVE  ~Outranks(streams'[r], streams'[f], Numeric(streams'))
    <3>1. r \in Readings(streams) /\ streams'[r] = streams[r]
      <4>1. r \in DOMAIN streams' /\ streams'[r].kind = "artifact"
            BY DEF Readings
      <4>2. r \in DOMAIN streams
            BY <2>2, <2>1, <4>1, FailuresAdd DEF AddsFailed
      <4> QED BY <2>1, <4>1, <4>2 DEF Readings, Extends
    <3>2. ~Outranks(streams[r], pending, numeric)
          BY <2>5, <3>1
    <3> QED BY <2>3, <2>6, <3>1, <3>2 DEF Outranks
  <2> QED BY <1>1, <2>3, <2>7 DEF Standing, Failures
<1>2. IInv /\ [Next]_vars =>
         [LET new == DOMAIN streams' \ DOMAIN streams
          IN (/\ ran' = "failures"
              /\ (Numeric(streams') <=> Numeric(streams)) \/ Cardinality(new) = 1)
                => new \subseteq Standing(streams')]_vars
      BY <1>1
<1> QED BY <1>2, Invariant, PTL DEF Spec, NotSupersededAtBirth
=============================================================================
