---------------------------- MODULE IngestProofs ----------------------------
(***************************************************************************)
(* What classify_ingest (adapters/failures.py) makes of any reading at     *)
(* all, of any adapter, what _ingest_all (reports/records.py) owes any     *)
(* files whatever their number, order and content, and what the walks of   *)
(* the adapters (adapters/sarif.py, hdf.py, cyclonedx.py) make of any      *)
(* document.                                                               *)
(***************************************************************************)
EXTENDS CycloneDxProofs, TLAPS, FiniteSetTheorems, WellFoundedInduction

\* The readings ingest_stig_artifact returns, whatever the adapter.
Readings(Codes, Observations, Clocks) ==
  [artifact : BOOLEAN, observations : SUBSET Observations, errors : SUBSET Codes,
   codes : SUBSET Codes, format_rejected : BOOLEAN, failed_execution_at : Clocks,
   withheld : BOOLEAN]

-----------------------------------------------------------------------------

\* A failed reading is minted only when no reason keeps it: the lemma both
\* theorems rest on, read off the order of the tests of _unmintable_reason.
LEMMA MintableReading ==
  ASSUME NEW Codes, NEW Observations, NEW Clocks,
         NEW r \in Readings(Codes, Observations, Clocks),
         UnmintableReason(r) = None
  PROVE  /\ r.artifact /\ ~r.format_rejected /\ ~r.withheld
         /\ r.observations = {}
         /\ r.errors \subseteq ClassCodes
  <1>1. r.artifact
    BY DEF UnmintableReason, Readings, None
  <1>2. "unsupported_artifact" \notin r.errors
    BY <1>1 DEF UnmintableReason, Readings, None
  <1>3. ~r.format_rejected
    BY <1>1, <1>2 DEF UnmintableReason, Readings, None
  <1>4. r.observations = {} /\ ~r.withheld
    BY <1>1, <1>2, <1>3 DEF UnmintableReason, Readings, None
  <1>5. r.errors \subseteq ClassCodes
    BY <1>1, <1>2, <1>3, <1>4 DEF UnmintableReason, Readings, None
  <1> QED BY <1>1, <1>3, <1>4, <1>5

\* A failure minted in place of a reading stands for one that had a digest, was
\* no format refusal, and left no observation behind, read or withheld.
THEOREM MintedStandsForNothing ==
  ASSUME NEW Codes, NEW Observations, NEW Clocks,
         NEW r \in Readings(Codes, Observations, Clocks),
         r.errors # {}, ClassifyIngest(r).class # None
  PROVE  /\ r.artifact /\ ~r.format_rejected /\ ~r.withheld /\ r.observations = {}
         /\ ~ClassifyIngest(r).side_record
  <1>1. UnmintableReason(r) = None
    <2> SUFFICES ASSUME UnmintableReason(r) # None PROVE FALSE
      OBVIOUS
    <2>1. ClassifyIngest(r) = Unmintable(UnmintableReason(r), r.errors)
      BY DEF ClassifyIngest
    <2> QED BY <2>1 DEF Unmintable
  <1>2. ClassifyIngest(r) = ClassifyFailed(r)
    BY <1>1 DEF ClassifyIngest
  <1>3. ~ClassifyFailed(r).side_record
    BY DEF ClassifyFailed, Minted
  <1> QED BY <1>1, <1>2, <1>3, MintableReading

\* The class a minted failure is recorded under, beside an import or in place of
\* one, is the class the audit of a store reads back from its codes.
THEOREM ClassReadsBack ==
  ASSUME NEW Codes, NEW Observations, NEW Clocks,
         NEW r \in Readings(Codes, Observations, Clocks),
         ClassifyIngest(r).class # None
  PROVE  ClassifyIngest(r).class = FailureClassForCodes(ClassifyIngest(r).codes)
  <1>1. CASE r.errors = {}
    <2>1. ClassifyIngest(r) = ClassifyWhole(r)
      BY <1>1 DEF ClassifyIngest
    <2>2. Executed \in r.codes
      BY <2>1 DEF ClassifyWhole, Imported, Minted
    <2>3. ClassifyIngest(r) = Minted("execution", {Executed}, TRUE, r.failed_execution_at)
      BY <2>1, <2>2 DEF ClassifyWhole
    <2> QED BY <2>3 DEF Minted, FailureClassForCodes
  <1>2. CASE r.errors # {}
    <2>1. UnmintableReason(r) = None
      <3> SUFFICES ASSUME UnmintableReason(r) # None PROVE FALSE
        OBVIOUS
      <3>1. ClassifyIngest(r) = Unmintable(UnmintableReason(r), r.errors)
        BY <1>2 DEF ClassifyIngest
      <3> QED BY <3>1 DEF Unmintable
    <2>2. ClassifyIngest(r) = ClassifyFailed(r)
      BY <1>2, <2>1 DEF ClassifyIngest
    <2>3. r.errors \subseteq ParseCodes \cup ContentCodes /\ Executed \notin r.errors
      <3>1. r.errors \subseteq ClassCodes
        BY <2>1, MintableReading
      <3>2. Executed \notin ParseCodes \cup ContentCodes
        BY DEF Executed, ParseCodes, ContentCodes
      <3> QED BY <3>1, <3>2 DEF ClassCodes
    <2>4. CASE Executed \in r.codes
      <3>1. ClassifyFailed(r) = Minted("execution", r.errors \cup {Executed}, FALSE, r.failed_execution_at)
        BY <2>4 DEF ClassifyFailed
      <3> QED BY <2>2, <3>1 DEF Minted, FailureClassForCodes
    <2>5. CASE Executed \notin r.codes /\ r.errors \cap ParseCodes # {}
      <3>1. ClassifyFailed(r) = Minted("parse", r.errors, FALSE, Absent)
        BY <2>5 DEF ClassifyFailed
      <3> QED BY <2>2, <2>3, <2>5, <3>1 DEF Minted, FailureClassForCodes
    <2>6. CASE Executed \notin r.codes /\ r.errors \cap ParseCodes = {}
      <3>1. ClassifyFailed(r) = Minted("content", r.errors, FALSE, Absent)
        BY <2>6 DEF ClassifyFailed
      <3>2. r.errors \cap ContentCodes # {}
        BY <1>2, <2>3, <2>6
      <3> QED BY <2>2, <2>3, <2>6, <3>1, <3>2 DEF Minted, FailureClassForCodes
    <2> QED BY <2>4, <2>5, <2>6
  <1> QED BY <1>1, <1>2

-----------------------------------------------------------------------------
(* Groups of readings. *)

LEMMA FirstOfIs ==
  ASSUME NEW names \in SUBSET Nat, NEW n \in names, \A m \in names : n <= m
  PROVE  FirstOf(names) = n
  <1>1. FirstOf(names) \in names /\ \A m \in names : FirstOf(names) <= m
    BY Zenon DEF FirstOf
  <1>2. FirstOf(names) \in Nat /\ n \in Nat
    BY <1>1
  <1> QED BY <1>1, <1>2

LEMMA PlacesFinite ==
  ASSUME NEW n \in Nat, NEW P \in SUBSET (1 .. n)
  PROVE  IsFiniteSet(P) /\ Cardinality(P) \in Nat
  <1>1. IsFiniteSet(1 .. n)
    BY FS_Interval
  <1> QED BY <1>1, FS_Subset, FS_CardinalityType

\* The reading a group elects is one of the group, under its lowest name.
LEMMA ElectedIs ==
  ASSUME NEW T, NEW entries \in Seq(T), NEW digest \in Digests(entries),
         \A i \in DOMAIN entries : entries[i].name \in Nat
  PROVE  \E i \in Of(entries, digest) :
           /\ Elected(entries, Of(entries, digest)) = entries[i]
           /\ \A j \in Of(entries, digest) : entries[i].name <= entries[j].name
  <1> DEFINE some == Of(entries, digest)
             names == {entries[i].name : i \in some}
  <1>1. some \subseteq DOMAIN entries /\ some # {} /\ DOMAIN entries = 1 .. Len(entries)
    BY DEF Of, Digests
  <1>2. IsFiniteSet(some)
    <2>1. some \in SUBSET (1 .. Len(entries)) /\ Len(entries) \in Nat
      BY <1>1
    <2> HIDE DEF some
    <2> QED BY <2>1, PlacesFinite
  <1>3. IsFiniteSet(names)
    <2> DEFINE naming == [i \in some |-> entries[i].name]
    <2> HIDE DEF some
    <2>1. naming \in Surjection(some, names)
      BY DEF Surjection
    <2> QED BY <1>2, <2>1, FS_Surjection
  <1>4. names \in SUBSET Nat /\ names # {}
    BY <1>1
  <1>5. PICK n \in names : \A m \in names : n <= m
    BY <1>3, <1>4, LeastExists
  <1>6. \E i \in some : \A j \in some : entries[i].name <= entries[j].name
    BY <1>5
  <1> HIDE DEF some
  <1>7. \E i \in some : /\ Elected(entries, some) = entries[i]
                        /\ \A j \in some : entries[i].name <= entries[j].name
    BY <1>6, Zenon DEF Elected
  <1> QED BY <1>7 DEF some

LEMMA Appending ==
  ASSUME NEW T, NEW entries \in Seq(T), NEW e
  PROVE  /\ Append(entries, e) \in Seq(T \cup {e})
         /\ Len(entries) \in Nat /\ DOMAIN entries = 1 .. Len(entries)
         /\ DOMAIN Append(entries, e) = 1 .. Len(entries) + 1
         /\ \A i \in DOMAIN entries : Append(entries, e)[i] = entries[i]
         /\ Append(entries, e)[Len(entries) + 1] = e
  <1>1. entries \in Seq(T \cup {e})
    OBVIOUS
  <1> QED BY <1>1

\* One reading more makes one group larger.
LEMMA GroupGrows ==
  ASSUME NEW T, NEW entries \in Seq(T), NEW e, NEW digest
  PROVE  /\ Cardinality(Of(entries, digest)) \in Nat
         /\ Cardinality(Of(Append(entries, e), digest)) =
              Cardinality(Of(entries, digest)) + (IF e.digest = digest THEN 1 ELSE 0)
  <1> DEFINE n == Len(entries)
             longer == Append(entries, e)
  <1>1. /\ n \in Nat /\ DOMAIN entries = 1 .. n /\ DOMAIN longer = 1 .. n + 1
        /\ \A i \in DOMAIN entries : longer[i] = entries[i]
        /\ longer[n + 1] = e
    BY Appending
  <1>2. Of(entries, digest) \in SUBSET (1 .. n)
    BY <1>1 DEF Of
  <1>3. IsFiniteSet(Of(entries, digest)) /\ Cardinality(Of(entries, digest)) \in Nat
    BY <1>1, <1>2, PlacesFinite
  <1> HIDE DEF longer
  <1>4. Of(longer, digest) =
          IF e.digest = digest THEN Of(entries, digest) \cup {n + 1} ELSE Of(entries, digest)
    BY <1>1 DEF Of
  <1>5. n + 1 \notin Of(entries, digest)
    BY <1>1, <1>2
  <1>6. Cardinality(Of(entries, digest) \cup {n + 1}) = Cardinality(Of(entries, digest)) + 1
    BY <1>3, <1>5, FS_AddElement
  <1> QED BY <1>3, <1>4, <1>6 DEF longer

-----------------------------------------------------------------------------
(* The inductive invariant of a run. *)

Walks == {"sarif", "hdf", "cyclonedx"}

Before == {k \in DOMAIN supplied : k < at}

\* An entry is the reading of a file: it has its name and its digest.
Reads(entry, file) == entry.name = file.name /\ entry.digest = file.digest

\* Files are read one after the other, and a walk is of the file being read.
InOrder(Files) ==
  /\ supplied \in Seq(Files)
  /\ at \in 1 .. Len(supplied) + 1
  /\ phase \in Walks \cup {"open", "done"}
  /\ phase \in Walks => at \in DOMAIN supplied

\* Every reading kept is of a file read already.
KeptAreRead ==
  /\ IsSequence(by_digest) /\ IsSequence(held)
  /\ \A i \in DOMAIN by_digest : \E k \in Before : Reads(by_digest[i], supplied[k])
  /\ \A i \in DOMAIN held : \E k \in Before : Reads(held[i], supplied[k])

\* Unless a failure stops the run, every file read is kept: once.
ReadAreKept ==
  errors = {} =>
    /\ \A k \in Before :
         \/ \E i \in DOMAIN by_digest : Reads(by_digest[i], supplied[k])
         \/ \E i \in DOMAIN held : Reads(held[i], supplied[k])
    /\ \A d \in Digests(supplied) :
         Cardinality(Of(by_digest, d)) + Cardinality(Of(held, d)) = Cardinality(Same(d) \cap Before)

\* Only a reading that is imported has its failure recorded beside it.
Beside ==
  /\ \A i \in DOMAIN by_digest : by_digest[i].class = Imported \/ by_digest[i].class.side_record = TRUE
  /\ \A i \in DOMAIN held : held[i].class.side_record = FALSE

RunInv(Files) ==
  /\ InOrder(Files) /\ KeptAreRead /\ ReadAreKept /\ Beside
  /\ EveryFileAnswered

-----------------------------------------------------------------------------
(* Taking a reading. *)

LEMMA SequenceParts ==
  ASSUME NEW entries, IsSequence(entries)
  PROVE  /\ Len(entries) \in Nat /\ DOMAIN entries = 1 .. Len(entries)
         /\ entries = <<>> <=> Len(entries) = 0
  BY DEF IsSequence

\* One file more is one place more among the files of its digest.
LEMMA BeforeGrows ==
  ASSUME NEW Files, InOrder(Files), at \in DOMAIN supplied, at' = at + 1, supplied' = supplied
  PROVE  /\ Before' = Before \cup {at} /\ at \notin Before
         /\ \A d : /\ IsFiniteSet(Same(d) \cap Before)
                  /\ Cardinality(Same(d) \cap Before') =
                       Cardinality(Same(d) \cap Before) + (IF supplied[at].digest = d THEN 1 ELSE 0)
  <1>1. DOMAIN supplied = 1 .. Len(supplied) /\ Len(supplied) \in Nat /\ at \in Nat
    BY DEF InOrder
  <1>2. Before' = Before \cup {at} /\ at \notin Before
    BY <1>1 DEF Before
  <1>3. ASSUME NEW d
        PROVE  /\ IsFiniteSet(Same(d) \cap Before)
               /\ Cardinality(Same(d) \cap Before') =
                    Cardinality(Same(d) \cap Before) + (IF supplied[at].digest = d THEN 1 ELSE 0)
    <2> DEFINE some == Same(d) \cap Before
    <2>1. some \in SUBSET (1 .. Len(supplied)) /\ at \notin some
      BY <1>1 DEF Before
    <2>2. Same(d) \cap Before' = IF supplied[at].digest = d THEN some \cup {at} ELSE some
      BY <1>2 DEF Same
    <2> HIDE DEF some
    <2>3. IsFiniteSet(some) /\ Cardinality(some) \in Nat
      BY <1>1, <2>1, PlacesFinite
    <2>4. Cardinality(some \cup {at}) = Cardinality(some) + 1
      BY <2>1, <2>3, FS_AddElement
    <2>5. CASE supplied[at].digest = d
      BY <2>2, <2>3, <2>4, <2>5 DEF some
    <2>6. CASE supplied[at].digest # d
      <3>1. Same(d) \cap Before' = some
        BY <2>2, <2>6
      <3>2. Cardinality(some) + (IF supplied[at].digest = d THEN 1 ELSE 0) = Cardinality(some)
        BY <2>3, <2>6
      <3> QED BY <2>3, <3>1, <3>2 DEF some
    <2> QED BY <2>5, <2>6
  <1> QED BY <1>2, <1>3

\* A run keeps a reading on the side its class says: one with no error as what
\* is imported, a failure only to be recorded in its place.
LEMMA SideKept ==
  ASSUME NEW reading, NEW record \in BOOLEAN
  PROVE  LET class == IF record THEN ClassifyIngest(reading) ELSE Imported IN
         /\ reading.errors = {} => class = Imported \/ class.side_record = TRUE
         /\ reading.errors # {} => class.side_record = FALSE
  BY DEF ClassifyIngest, ClassifyWhole, ClassifyFailed, Unmintable, Minted, Imported

\* A reading that is kept answers its file beside those that were kept before.
LEMMA KeptGrows ==
  ASSUME NEW entries, NEW e, IsSequence(entries), NEW files, NEW some, NEW k \in some,
         Reads(e, files[k]),
         \A i \in DOMAIN entries : \E j \in some : Reads(entries[i], files[j])
  PROVE  /\ IsSequence(Append(entries, e))
         /\ \A i \in DOMAIN Append(entries, e) : \E j \in some : Reads(Append(entries, e)[i], files[j])
         /\ \E i \in DOMAIN Append(entries, e) : Reads(Append(entries, e)[i], files[k])
         /\ \A i \in DOMAIN entries :
              i \in DOMAIN Append(entries, e) /\ Append(entries, e)[i] = entries[i]
  <1> DEFINE longer == Append(entries, e)
             n == Len(entries)
  <1>1. /\ n \in Nat /\ DOMAIN entries = 1 .. n /\ DOMAIN longer = 1 .. n + 1
        /\ \A i \in DOMAIN entries : longer[i] = entries[i]
        /\ longer[n + 1] = e
        /\ longer \in Seq(Range(entries) \cup {e})
    BY Appending DEF IsSequence
  <1> HIDE DEF longer, n
  <1>2. IsSequence(longer)
    BY <1>1, SequenceIs
  <1>3. \A i \in DOMAIN longer : i \in DOMAIN entries \/ i = n + 1
    BY <1>1
  <1>4. n + 1 \in DOMAIN longer /\ DOMAIN entries \subseteq DOMAIN longer
    BY <1>1
  <1> QED BY <1>1, <1>2, <1>3, <1>4 DEF longer

LEMMA TakeKeeps ==
  ASSUME NEW Files, RunInv(Files), recording \in BOOLEAN, phase # "done", at \in DOMAIN supplied,
         NEW reading, Take(File, reading)
  PROVE  RunInv(Files)' /\ recording' \in BOOLEAN
  <1> DEFINE class == IF recording THEN ClassifyIngest(reading) ELSE Imported
             hold == recording /\ reading.errors # {} /\ class.class # None
             e == Entry(File, reading, class)
  <1>1. /\ held' = IF hold THEN Append(held, e) ELSE held
        /\ errors' = IF hold THEN errors ELSE errors \cup Named(File, reading.errors)
        /\ by_digest' = IF reading.errors = {} THEN Append(by_digest, e) ELSE by_digest
        /\ at' = at + 1 /\ phase' = "open"
        /\ supplied' = supplied /\ recording' = recording /\ report' = report
    BY DEF Take
  <1>2. Reads(e, File) /\ e.class = class
    BY DEF Reads, Entry
  <1>3. /\ InOrder(Files) /\ KeptAreRead /\ ReadAreKept /\ Beside
    BY DEF RunInv
  <1>4. /\ reading.errors = {} => class = Imported \/ class.side_record = TRUE
        /\ reading.errors # {} => class.side_record = FALSE
    BY SideKept
  <1>5. Named(File, reading.errors) = {} => reading.errors = {}
    BY DEF Named
  <1> HIDE DEF class, e
  <1>6. InOrder(Files)'
    BY <1>1, <1>3 DEF InOrder, Walks
  <1>7. /\ Before' = Before \cup {at} /\ at \notin Before
        /\ \A d : Cardinality(Same(d) \cap Before') =
                   Cardinality(Same(d) \cap Before) + (IF File.digest = d THEN 1 ELSE 0)
    BY <1>1, <1>3, BeforeGrows DEF File
  <1>8. /\ \A i \in DOMAIN by_digest : \E k \in Before' : Reads(by_digest[i], supplied[k])
        /\ \A i \in DOMAIN held : \E k \in Before' : Reads(held[i], supplied[k])
        /\ IsSequence(by_digest) /\ IsSequence(held) /\ at \in Before'
    BY <1>3, <1>7 DEF KeptAreRead
  <1>isRead. Reads(e, supplied[at])
    BY <1>2 DEF File
  <1>inRead.
        /\ IsSequence(Append(by_digest, e))
        /\ \A i \in DOMAIN Append(by_digest, e) :
             \E k \in Before' : Reads(Append(by_digest, e)[i], supplied[k])
        /\ \E i \in DOMAIN Append(by_digest, e) : Reads(Append(by_digest, e)[i], supplied[at])
        /\ \A i \in DOMAIN by_digest :
             i \in DOMAIN Append(by_digest, e) /\ Append(by_digest, e)[i] = by_digest[i]
    BY <1>isRead, <1>8, KeptGrows
  <1>inHeld.
        /\ IsSequence(Append(held, e))
        /\ \A i \in DOMAIN Append(held, e) : \E k \in Before' : Reads(Append(held, e)[i], supplied[k])
        /\ \E i \in DOMAIN Append(held, e) : Reads(Append(held, e)[i], supplied[at])
        /\ \A i \in DOMAIN held : i \in DOMAIN Append(held, e) /\ Append(held, e)[i] = held[i]
    BY <1>isRead, <1>8, KeptGrows
  <1>10. KeptAreRead'
    BY <1>1, <1>8, <1>inRead, <1>inHeld DEF KeptAreRead
  <1>11. Beside'
    <2>1. CASE reading.errors = {}
      <3>1. by_digest' = Append(by_digest, e) /\ held' = held
        BY <1>1, <2>1
      <3>2. \A i \in DOMAIN Append(by_digest, e) :
              i \in DOMAIN by_digest \/ Append(by_digest, e)[i] = e
        BY <1>8, Appending DEF IsSequence
      <3> QED BY <1>2, <1>3, <1>4, <1>inRead, <1>inHeld, <2>1, <3>1, <3>2 DEF Beside
    <2>2. CASE reading.errors # {}
      <3>1. by_digest' = by_digest /\ (held' = held \/ held' = Append(held, e))
        BY <1>1, <2>2
      <3>2. \A i \in DOMAIN Append(held, e) :
              i \in DOMAIN held \/ Append(held, e)[i] = e
        BY <1>8, Appending DEF IsSequence
      <3> QED BY <1>2, <1>3, <1>4, <1>inRead, <1>inHeld, <2>2, <3>1, <3>2 DEF Beside
    <2> QED BY <2>1, <2>2
  <1>12. ReadAreKept'
    <2> SUFFICES ASSUME errors' = {}
                 PROVE  /\ \A k \in Before' :
                             \/ \E i \in DOMAIN by_digest' : Reads(by_digest'[i], supplied[k])
                             \/ \E i \in DOMAIN held' : Reads(held'[i], supplied[k])
                        /\ \A d \in Digests(supplied) :
                             Cardinality(Of(by_digest', d)) + Cardinality(Of(held', d))
                               = Cardinality(Same(d) \cap Before')
      <3>1. Digests(supplied)' = Digests(supplied) /\ \A d : Same(d)' = Same(d)
        BY <1>1 DEF Digests, Same
      <3>2. supplied' = supplied
        BY <1>1
      <3> QED BY <3>1, <3>2 DEF ReadAreKept
    <2>1. errors = {} /\ (reading.errors = {} \/ hold)
      BY <1>1, <1>5
    <2>2. \/ by_digest' = Append(by_digest, e) /\ held' = held
          \/ by_digest' = by_digest /\ held' = Append(held, e)
      BY <1>1, <2>1
    <2>3. ASSUME NEW k \in Before'
          PROVE  \/ \E i \in DOMAIN by_digest' : Reads(by_digest'[i], supplied[k])
                 \/ \E i \in DOMAIN held' : Reads(held'[i], supplied[k])
      <3>1. CASE k = at
        BY <1>inRead, <1>inHeld, <2>2, <3>1 DEF File
      <3>2. CASE k \in Before
        <4>1. \/ \E i \in DOMAIN by_digest : Reads(by_digest[i], supplied[k])
              \/ \E i \in DOMAIN held : Reads(held[i], supplied[k])
          BY <1>3, <2>1, <3>2 DEF ReadAreKept
        <4> QED BY <1>inRead, <1>inHeld, <2>2, <4>1
      <3> QED BY <1>7, <3>1, <3>2
    <2>4. ASSUME NEW d \in Digests(supplied)
          PROVE  Cardinality(Of(by_digest', d)) + Cardinality(Of(held', d))
                   = Cardinality(Same(d) \cap Before')
      <3> DEFINE one == IF File.digest = d THEN 1 ELSE 0
      <3>7. e.digest = File.digest /\ by_digest \in Seq(Range(by_digest)) /\ held \in Seq(Range(held))
        BY <1>2, <1>8 DEF IsSequence, Reads
      <3>8. /\ Cardinality(Of(by_digest, d)) \in Nat
            /\ Cardinality(Of(Append(by_digest, e), d)) = Cardinality(Of(by_digest, d)) + one
        BY <3>7, GroupGrows
      <3>9. /\ Cardinality(Of(held, d)) \in Nat
            /\ Cardinality(Of(Append(held, e), d)) = Cardinality(Of(held, d)) + one
        BY <3>7, GroupGrows
      <3>1. /\ Cardinality(Of(by_digest, d)) \in Nat /\ Cardinality(Of(held, d)) \in Nat
            /\ Cardinality(Of(Append(by_digest, e), d)) = Cardinality(Of(by_digest, d)) + one
            /\ Cardinality(Of(Append(held, e), d)) = Cardinality(Of(held, d)) + one
        BY <3>8, <3>9
      <3>2. Cardinality(Of(by_digest, d)) + Cardinality(Of(held, d)) = Cardinality(Same(d) \cap Before)
        BY <1>3, <2>1 DEF ReadAreKept
      <3>3. one \in Nat /\ Cardinality(Same(d) \cap Before') = Cardinality(Same(d) \cap Before) + one
        BY <1>7
      <3> HIDE DEF one
      <3>4. CASE by_digest' = Append(by_digest, e) /\ held' = held
        BY <3>1, <3>2, <3>3, <3>4
      <3>5. CASE by_digest' = by_digest /\ held' = Append(held, e)
        BY <3>1, <3>2, <3>3, <3>5
      <3> QED BY <2>2, <3>4, <3>5
    <2> QED BY <2>3, <2>4
  <1>13. EveryFileAnswered'
    BY <1>1 DEF EveryFileAnswered, Ran
  <1> QED BY <1>1, <1>6, <1>10, <1>11, <1>12, <1>13 DEF RunInv

-----------------------------------------------------------------------------
(* Deciding the run. *)

\* What EveryFileAnswered says of the report of a run, stated of any report.
AnswersEach(files, r) ==
  \A i \in DOMAIN files :
    LET digest == files[i].digest
        places == {j \in DOMAIN files : files[j].digest = digest}
        names == {files[j].name : j \in places}
        entries == {m \in r.manifest : m.digest = digest}
        failures == {f \in r.failures : f.record.digest = digest}
    IN /\ entries \cup failures # {}
       /\ \A e \in entries \cup failures : e.name = FirstOf(names)
       /\ [digest |-> digest, skipped |-> Cardinality(places) - 1] \in r.duplicates
       /\ Cardinality(entries) <= 1 /\ Cardinality(failures) <= 1

SidesMatch(r) ==
  \A f \in r.failures : f.side <=> \E m \in r.manifest : m.digest = f.record.digest

NamesFailed(failed, r) ==
  \A e \in Range(failed) : \A code \in e.errors : [name |-> e.name, code |-> code] \in r.errors

Answered(files, failed, r, ended) ==
  /\ (ended /\ r.stopped) => NamesFailed(failed, r)
  /\ (ended /\ ~r.stopped) => AnswersEach(files, r) /\ SidesMatch(r)

LEMMA Restated ==
  /\ EveryFileAnswered <=> Answered(supplied, held, report, phase = "done")
  /\ EveryFileAnswered' <=> Answered(supplied', held', report', phase' = "done")
  BY DEF EveryFileAnswered, Answered, Ran, NamesFailed, AnswersEach, SidesMatch, Same

\* What a group elects, of readings kept of the files, is of the digest and
\* under the lowest name of the group.
LEMMA ElectedWins ==
  ASSUME NEW entries, NEW d \in Digests(entries), IsSequence(entries),
         \A i \in DOMAIN entries : entries[i].name \in Nat
  PROVE  LET e == Elected(entries, Of(entries, d)) IN
         /\ \E i \in DOMAIN entries : e = entries[i]
         /\ e.digest = d
         /\ \A j \in Of(entries, d) : e.name <= entries[j].name
  <1>1. entries \in Seq(Range(entries))
    BY DEF IsSequence
  <1>2. PICK i \in Of(entries, d) :
          /\ Elected(entries, Of(entries, d)) = entries[i]
          /\ \A j \in Of(entries, d) : entries[i].name <= entries[j].name
    BY <1>1, ElectedIs
  <1>3. i \in DOMAIN entries /\ entries[i].digest = d
    BY DEF Of
  <1> QED BY <1>2, <1>3

\* A set of at most one element has at most one.
LEMMA AtMostOne ==
  ASSUME NEW some, NEW x, some \subseteq {x}
  PROVE  Cardinality(some) <= 1
  <1>1. CASE some = {}
    <2>1. Cardinality(some) = 0
      BY <1>1, FS_EmptySet
    <2> QED BY <2>1
  <1>2. CASE some = {x}
    <2>1. Cardinality(some) = 1
      BY <1>2, FS_Singleton
    <2> QED BY <2>1
  <1> QED BY <1>1, <1>2

\* A group elects the lowest name any file of the digest was supplied under,
\* when every one of those files is in it.
LEMMA LowestName ==
  ASSUME NEW Files, \A f \in Files : f.name \in Nat, supplied \in Seq(Files),
         NEW entries, IsSequence(entries), NEW d \in Digests(entries),
         \A i \in DOMAIN entries : \E k \in DOMAIN supplied : Reads(entries[i], supplied[k]),
         \A k \in Same(d) : \E i \in DOMAIN entries : Reads(entries[i], supplied[k])
  PROVE  /\ Elected(entries, Of(entries, d)).digest = d
         /\ \E i \in DOMAIN entries : Elected(entries, Of(entries, d)) = entries[i]
         /\ Elected(entries, Of(entries, d)).name = FirstOf({supplied[j].name : j \in Same(d)})
  <1> DEFINE e == Elected(entries, Of(entries, d))
             names == {supplied[j].name : j \in Same(d)}
  <1>1. \A k \in DOMAIN supplied : supplied[k].name \in Nat
    OBVIOUS
  <1>2. \A i \in DOMAIN entries : entries[i].name \in Nat
    BY <1>1 DEF Reads
  <1>3. /\ \E i \in DOMAIN entries : e = entries[i]
        /\ e.digest = d
        /\ \A j \in Of(entries, d) : e.name <= entries[j].name
    BY <1>2, ElectedWins
  <1> HIDE DEF e
  <1>4. names \in SUBSET Nat
    BY <1>1 DEF Same
  <1>5. e.name \in names
    <2>1. PICK k \in DOMAIN supplied : Reads(e, supplied[k])
      BY <1>3
    <2> QED BY <1>3, <2>1 DEF Reads, Same
  <1>6. ASSUME NEW k \in Same(d) PROVE e.name <= supplied[k].name
    <2>1. PICK i \in DOMAIN entries : Reads(entries[i], supplied[k])
      OBVIOUS
    <2>2. i \in Of(entries, d) /\ entries[i].name = supplied[k].name
      BY <2>1 DEF Reads, Same, Of
    <2> QED BY <1>3, <2>2
  <1>7. \A n \in names : e.name <= n
    BY <1>6
  <1> HIDE DEF names
  <1>8. FirstOf(names) = e.name
    BY <1>4, <1>5, <1>7, FirstOfIs
  <1> QED BY <1>3, <1>8 DEF e, names

\* A run that goes on answers every file, of either side.
LEMMA CompiledAnswers ==
  ASSUME NEW Files, \A f \in Files : f.name \in Nat, supplied \in Seq(Files),
         KeptAreRead, ReadAreKept, Beside, errors = {}, Before = DOMAIN supplied,
         ~ \E e \in Range(held) : Misnamed(e)
  PROVE  AnswersEach(supplied, Compiled) /\ SidesMatch(Compiled)
  <1> DEFINE Read(d) == Elected(by_digest, Of(by_digest, d))
             Lost(d) == Elected(held, Of(held, d))
             Listed(d) == [name |-> Read(d).name, digest |-> Read(d).digest]
             Lowest(d) == FirstOf({supplied[j].name : j \in Same(d)})
  <1>1. Digests(by_digest) \cap Digests(held) = {}
    BY DEF Misnamed, Digests, Range
  <1>2. ASSUME NEW k \in DOMAIN supplied
        PROVE  \/ \E i \in DOMAIN by_digest : Reads(by_digest[i], supplied[k])
               \/ \E i \in DOMAIN held : Reads(held[i], supplied[k])
    BY <1>2 DEF ReadAreKept
  <1>3. ASSUME NEW k \in DOMAIN supplied
        PROVE  supplied[k].digest \in Digests(by_digest) \cup Digests(held)
    BY <1>2 DEF Reads, Digests
  <1>4. ASSUME NEW d \in Digests(by_digest)
        PROVE  /\ Read(d).digest = d /\ Read(d).name = Lowest(d)
               /\ Read(d).class = Imported \/ Read(d).class.side_record = TRUE
    <2>1. ASSUME NEW k \in Same(d) PROVE \E i \in DOMAIN by_digest : Reads(by_digest[i], supplied[k])
      <3>1. \A i \in DOMAIN held : ~Reads(held[i], supplied[k])
        BY <1>1 DEF Same, Reads, Digests
      <3> QED BY <1>2, <3>1 DEF Same
    <2>2. IsSequence(by_digest) /\ \A i \in DOMAIN by_digest :
                                     \E k \in DOMAIN supplied : Reads(by_digest[i], supplied[k])
      BY DEF KeptAreRead
    <2>3. /\ Read(d).digest = d /\ \E i \in DOMAIN by_digest : Read(d) = by_digest[i]
          /\ Read(d).name = Lowest(d)
      BY <2>1, <2>2, LowestName
    <2> QED BY <2>3 DEF Beside
  <1>5. ASSUME NEW d \in Digests(held)
        PROVE  Lost(d).digest = d /\ Lost(d).name = Lowest(d) /\ Lost(d).class.side_record = FALSE
    <2>1. ASSUME NEW k \in Same(d) PROVE \E i \in DOMAIN held : Reads(held[i], supplied[k])
      <3>1. \A i \in DOMAIN by_digest : ~Reads(by_digest[i], supplied[k])
        BY <1>1 DEF Same, Reads, Digests
      <3> QED BY <1>2, <3>1 DEF Same
    <2>2. IsSequence(held) /\ \A i \in DOMAIN held :
                                \E k \in DOMAIN supplied : Reads(held[i], supplied[k])
      BY DEF KeptAreRead
    <2>3. /\ Lost(d).digest = d /\ \E i \in DOMAIN held : Lost(d) = held[i]
          /\ Lost(d).name = Lowest(d)
      BY <2>1, <2>2, LowestName
    <2> QED BY <2>3 DEF Beside
  <1>6. /\ Compiled.manifest = {Listed(d) : d \in Digests(by_digest)}
        /\ \A f \in Compiled.failures :
             \/ \E d \in Digests(by_digest) : f = Recorded(Read(d)) /\ Read(d).class # Imported
             \/ \E d \in Digests(held) : f = Recorded(Lost(d))
        /\ \A d \in Digests(held) : Recorded(Lost(d)) \in Compiled.failures
        /\ \A d \in Digests(by_digest) \cup Digests(held) :
             [digest |-> d, skipped |-> Skipped(d)] \in Compiled.duplicates
    BY DEF Compiled
  <1>7. \A e : /\ Recorded(e).name = e.name /\ Recorded(e).side = e.class.side_record
               /\ Recorded(e).record.digest = e.digest
    BY DEF Recorded, SystemObservation
  <1> HIDE DEF Read, Lost, Lowest
  <1>8. ASSUME NEW m \in Compiled.manifest
        PROVE  \E d \in Digests(by_digest) : m = Listed(d) /\ m.digest = d /\ m.name = Lowest(d)
    <2>1. PICK d \in Digests(by_digest) : m = Listed(d)
      BY <1>6
    <2>2. m.digest = d /\ m.name = Lowest(d)
      BY <1>4, <2>1
    <2> QED BY <2>1, <2>2
  <1>9. ASSUME NEW f \in Compiled.failures
        PROVE  \/ \E d \in Digests(by_digest) :
                    /\ f = Recorded(Read(d)) /\ f.record.digest = d /\ f.name = Lowest(d)
                    /\ f.side = TRUE
               \/ \E d \in Digests(held) :
                    /\ f = Recorded(Lost(d)) /\ f.record.digest = d /\ f.name = Lowest(d)
                    /\ f.side = FALSE
    <2>1. CASE \E d \in Digests(by_digest) : f = Recorded(Read(d)) /\ Read(d).class # Imported
      <3>1. PICK d \in Digests(by_digest) : f = Recorded(Read(d)) /\ Read(d).class # Imported
        BY <2>1
      <3>2. f.record.digest = d /\ f.name = Lowest(d) /\ f.side = TRUE
        BY <1>4, <1>7, <3>1
      <3> QED BY <3>1, <3>2
    <2>2. CASE \E d \in Digests(held) : f = Recorded(Lost(d))
      <3>1. PICK d \in Digests(held) : f = Recorded(Lost(d))
        BY <2>2
      <3>2. f.record.digest = d /\ f.name = Lowest(d) /\ f.side = FALSE
        BY <1>5, <1>7, <3>1
      <3> QED BY <3>1, <3>2
    <2> QED BY <1>6, <2>1, <2>2
  <1>10. ASSUME NEW i \in DOMAIN supplied
         PROVE  LET digest == supplied[i].digest
                    names == {supplied[j].name : j \in Same(digest)}
                    entries == {m \in Compiled.manifest : m.digest = digest}
                    failures == {f \in Compiled.failures : f.record.digest = digest}
                IN /\ entries \cup failures # {}
                   /\ \A e \in entries \cup failures : e.name = FirstOf(names)
                   /\ [digest |-> digest, skipped |-> Cardinality(Same(digest)) - 1]
                        \in Compiled.duplicates
                   /\ Cardinality(entries) <= 1 /\ Cardinality(failures) <= 1
    <2> DEFINE digest == supplied[i].digest
               entries == {m \in Compiled.manifest : m.digest = digest}
               failures == {f \in Compiled.failures : f.record.digest = digest}
    <2>1. digest \in Digests(by_digest) \cup Digests(held) /\ digest \in Digests(supplied)
      BY <1>3 DEF Digests
    <2> HIDE DEF digest
    <2>2. entries \cup failures # {}
      <3>1. CASE digest \in Digests(by_digest)
        <4>1. Listed(digest) \in Compiled.manifest /\ Listed(digest).digest = digest
          BY <1>4, <1>6, <3>1
        <4> QED BY <4>1
      <3>2. CASE digest \in Digests(held)
        <4>1. Recorded(Lost(digest)) \in Compiled.failures
          BY <1>6, <3>2
        <4>2. Recorded(Lost(digest)).record.digest = digest
          BY <1>5, <1>7, <3>2
        <4> QED BY <4>1, <4>2
      <3> QED BY <2>1, <3>1, <3>2
    <2>3. \A e \in entries \cup failures : e.name = Lowest(digest)
      BY <1>8, <1>9
    <2>4. [digest |-> digest, skipped |-> Cardinality(Same(digest)) - 1] \in Compiled.duplicates
      <3>1. Same(digest) \cap Before = Same(digest)
        BY DEF Same
      <3>2. Skipped(digest) = Cardinality(Same(digest)) - 1
        <4>1. Cardinality(Of(by_digest, digest)) + Cardinality(Of(held, digest))
                = Cardinality(Same(digest) \cap Before)
          BY <2>1 DEF ReadAreKept
        <4>2. Cardinality(Same(digest) \cap Before) = Cardinality(Same(digest))
          BY <3>1
        <4>3. Cardinality(Of(by_digest, digest)) + Cardinality(Of(held, digest)) = Cardinality(Same(digest))
          BY <4>1, <4>2
        <4>4. by_digest \in Seq(Range(by_digest)) /\ held \in Seq(Range(held))
          BY DEF KeptAreRead, IsSequence
        <4>5. Cardinality(Of(by_digest, digest)) \in Nat /\ Cardinality(Of(held, digest)) \in Nat
          BY <4>4, GroupGrows
        <4> QED BY <4>3, <4>5 DEF Skipped
      <3> QED BY <1>6, <2>1, <3>2
    <2>5. Cardinality(entries) <= 1
      <3>1. entries \subseteq {Listed(digest)}
        BY <1>8
      <3> QED BY <3>1, AtMostOne
    <2>6. Cardinality(failures) <= 1
      <3>1. CASE digest \in Digests(by_digest)
        <4>1. failures \subseteq {Recorded(Read(digest))}
          BY <1>1, <1>9, <3>1
        <4> QED BY <4>1, AtMostOne
      <3>2. CASE digest \in Digests(held)
        <4>1. failures \subseteq {Recorded(Lost(digest))}
          BY <1>1, <1>9, <3>2
        <4> QED BY <4>1, AtMostOne
      <3> QED BY <2>1, <3>1, <3>2
    <2> QED BY <2>2, <2>3, <2>4, <2>5, <2>6 DEF digest, Lowest
  <1>11. ASSUME NEW f \in Compiled.failures
         PROVE  f.side <=> \E m \in Compiled.manifest : m.digest = f.record.digest
    <2>1. CASE \E d \in Digests(by_digest) : f.record.digest = d /\ f.side = TRUE
      <3>1. Listed(f.record.digest) \in Compiled.manifest
        BY <1>6, <2>1
      <3>2. Listed(f.record.digest).digest = f.record.digest
        BY <1>4, <2>1
      <3> QED BY <2>1, <3>1, <3>2
    <2>2. CASE \E d \in Digests(held) : f.record.digest = d /\ f.side = FALSE
      BY <1>1, <1>8, <2>2
    <2> QED BY <1>9, <2>1, <2>2
  <1> QED BY <1>10, <1>11 DEF AnswersEach, SidesMatch, Same

LEMMA DecideKeeps ==
  ASSUME NEW Files, \A f \in Files : f.name \in Nat, RunInv(Files), Decide
  PROVE  RunInv(Files)'
  <1>1. /\ phase' = "done" /\ at \notin DOMAIN supplied
        /\ report' = IF errors # {} \/ \E e \in Range(held) : Misnamed(e) THEN Stopped ELSE Compiled
        /\ supplied' = supplied /\ at' = at /\ by_digest' = by_digest /\ held' = held
        /\ errors' = errors
    BY DEF Decide
  <1>2. InOrder(Files) /\ KeptAreRead /\ ReadAreKept /\ Beside
    BY DEF RunInv
  <1>3. InOrder(Files)' /\ KeptAreRead' /\ ReadAreKept' /\ Beside'
    <2>1. Before' = Before /\ \A d : Same(d)' = Same(d)
      BY <1>1 DEF Before, Same
    <2> QED BY <1>1, <1>2, <2>1 DEF InOrder, KeptAreRead, ReadAreKept, Beside, Walks
  <1>4. Before = DOMAIN supplied
    <2>1. DOMAIN supplied = 1 .. Len(supplied) /\ Len(supplied) \in Nat /\ at = Len(supplied) + 1
      BY <1>1, <1>2 DEF InOrder
    <2> QED BY <2>1 DEF Before
  <1>5. CASE errors # {} \/ \E e \in Range(held) : Misnamed(e)
    <2>1. report' = Stopped
      BY <1>1, <1>5
    <2>2. Stopped.stopped = TRUE /\ Stopped.errors = errors \cup HeldErrors(Range(held))
      BY DEF Stopped, NoReport
    <2>3. NamesFailed(held, Stopped)
      <3>1. ASSUME NEW e \in Range(held), NEW code \in e.errors
            PROVE  [name |-> e.name, code |-> code] \in HeldErrors(Range(held))
        <4> DEFINE own == {[name |-> e.name, code |-> c] : c \in e.errors}
        <4>1. own \in {{[name |-> x.name, code |-> c] : c \in x.errors} : x \in Range(held)}
          OBVIOUS
        <4>2. [name |-> e.name, code |-> code] \in own
          OBVIOUS
        <4> HIDE DEF own
        <4> QED BY <4>1, <4>2 DEF HeldErrors
      <3> QED BY <2>2, <3>1 DEF NamesFailed
    <2>4. EveryFileAnswered'
      BY <1>1, <2>1, <2>2, <2>3, Restated DEF Answered
    <2> QED BY <1>3, <2>4 DEF RunInv
  <1>6. CASE errors = {} /\ ~ \E e \in Range(held) : Misnamed(e)
    <2>1. report' = Compiled
      BY <1>1, <1>6
    <2>2. Compiled.stopped = FALSE
      BY DEF Compiled
    <2>3. supplied \in Seq(Files)
      BY <1>2 DEF InOrder
    <2>4. AnswersEach(supplied, Compiled) /\ SidesMatch(Compiled)
      BY <1>2, <1>4, <1>6, <2>3, CompiledAnswers
    <2>5. EveryFileAnswered'
      BY <1>1, <2>1, <2>2, <2>4, Restated DEF Answered
    <2> QED BY <1>3, <2>5 DEF RunInv
  <1> QED BY <1>5, <1>6

-----------------------------------------------------------------------------

\* A run that stops names every failure, and one that goes on reports each
\* digest once, under the lowest name, with every other name warned of, and no
\* failure beside what it did not import: _ingest_all, of any files.
THEOREM FilesAnswered ==
  ASSUME NEW CONSTANT Files, \A f \in Files : f.name \in Nat
  PROVE  Spec(Files) => []EveryFileAnswered
  <1> DEFINE IInv == RunInv(Files) /\ recording \in BOOLEAN
  <1>1. ASSUME NEW files \in Seq(Files), NEW record \in BOOLEAN, Start(files, record)
        PROVE  IInv
    <2>1. /\ supplied = files /\ recording = record /\ phase = "open" /\ at = 1
          /\ by_digest = <<>> /\ held = <<>>
      BY <1>1 DEF Start
    <2>2. InOrder(Files) /\ Before = {}
      <3>1. DOMAIN supplied = 1 .. Len(supplied) /\ Len(supplied) \in Nat /\ supplied \in Seq(Files)
        BY <2>1
      <3> QED BY <2>1, <3>1 DEF InOrder, Before, Walks
    <2>3. KeptAreRead /\ Beside
      BY <2>1 DEF KeptAreRead, Beside, IsSequence
    <2>4. ReadAreKept
      <3>1. \A d : Of(<<>>, d) = {} /\ Same(d) \cap {} = {}
        BY DEF Of
      <3>2. Cardinality({}) = 0
        BY FS_EmptySet
      <3>3. \A d : Cardinality(Of(by_digest, d)) + Cardinality(Of(held, d)) = Cardinality(Same(d) \cap Before)
        <4>1. \A d : Of(by_digest, d) = {} /\ Of(held, d) = {} /\ Same(d) \cap Before = {}
          BY <2>1, <2>2, <3>1
        <4>2. 0 + 0 = 0
          OBVIOUS
        <4> QED BY <3>2, <4>1, <4>2
      <3> QED BY <2>2, <3>3 DEF ReadAreKept
    <2>5. EveryFileAnswered
      BY <2>1 DEF EveryFileAnswered, Ran
    <2> QED BY <2>1, <2>2, <2>3, <2>4, <2>5 DEF RunInv
  <1>2. ASSUME IInv, [Next]_vars PROVE IInv'
    <2>1. CASE Open
      <3>1. Take(File, ReadAtOnce(File)) /\ phase # "done" /\ at \in DOMAIN supplied
        BY <2>1 DEF Open
      <3> QED BY <1>2, <3>1, TakeKeeps
    <2>2. CASE End
      <3>1. Take(File, Output)
        BY <2>2 DEF End
      <3>2. phase \in Walks
        BY <2>2 DEF End, SarifRead, HdfRead, CdxRead, Walks
      <3>3. phase # "done" /\ at \in DOMAIN supplied
        BY <1>2, <3>2 DEF RunInv, InOrder, Walks
      <3> QED BY <1>2, <3>1, <3>3, TakeKeeps
    <2>3. CASE Decide
      BY <1>2, <2>3, DecideKeeps DEF Decide
    <2>4. CASE Begin \/ Walk \/ UNCHANGED vars
      <3>1. /\ supplied' = supplied /\ recording' = recording /\ at' = at
            /\ by_digest' = by_digest /\ held' = held /\ errors' = errors
        BY <2>4 DEF Begin, Walk, vars
      <3>2. /\ phase' \in Walks \cup {"open", "done"} /\ (phase' \in Walks => at \in DOMAIN supplied)
        BY <1>2, <2>4 DEF Begin, Walk, vars, Walked, Walks, RunInv, InOrder
      <3>3. phase' = "done" => phase = "done" /\ report' = report
        BY <2>4 DEF Begin, Walk, vars, Walked
      <3>4. Before' = Before /\ \A d : Same(d)' = Same(d)
        BY <3>1 DEF Before, Same
      <3>5. InOrder(Files)'
        BY <1>2, <3>1, <3>2 DEF RunInv, InOrder
      <3>6. KeptAreRead' /\ ReadAreKept' /\ Beside'
        BY <1>2, <3>1, <3>4 DEF RunInv, KeptAreRead, ReadAreKept, Beside
      <3>7. EveryFileAnswered'
        BY <1>2, <3>1, <3>3, Restated DEF RunInv, Answered
      <3> QED BY <1>2, <3>1, <3>5, <3>6, <3>7 DEF RunInv
    <2> QED BY <1>2, <2>1, <2>2, <2>3, <2>4 DEF Next
  <1>3. IInv => EveryFileAnswered
    BY DEF RunInv
  <1>4. Spec(Files) => []IInv
    <2>1. (\E files \in Seq(Files), record \in BOOLEAN : Start(files, record)) => IInv
      BY <1>1
    <2> QED BY <1>2, <2>1, PTL DEF Spec
  <1> QED BY <1>3, <1>4, PTL

-----------------------------------------------------------------------------
(* Minting in place of a reading. *)

\* Each adapter returns readings of the one form.
LEMMA OneForm ==
  ASSUME NEW o, NEW d, NEW c
  PROVE  /\ S!Reading(o, d, c) = Reading(o, d, c)
         /\ H!Reading(o, d, c) = Reading(o, d, c)
         /\ D!Reading(o, d, c) = Reading(o, d, c)
  BY DEF Reading, HasErrors, ErrorsOf, CodesOf,
         S!Reading, S!HasErrors, S!ErrorsOf, S!CodesOf,
         H!Reading, H!HasErrors, H!ErrorsOf, H!CodesOf,
         D!Reading, D!HasErrors, D!ErrorsOf, D!CodesOf

\* A minted failure of a reading that came to its end withheld nothing, and so
\* there was nothing to withhold.
LEMMA MintedHadNone ==
  ASSUME NEW o, NEW d, NEW c,
         Reading(o, d, c).errors # {}, ClassifyIngest(Reading(o, d, c)).class # None
  PROVE  o = {}
  <1> DEFINE r == Reading(o, d, c)
  <1>1. r \in Readings(r.errors \cup r.codes, r.observations, {r.failed_execution_at})
    BY DEF Reading, Readings
  <1>2. r.withheld = (r.errors # {} /\ o # {})
    BY DEF Reading, HasErrors
  <1> HIDE DEF r
  <1>3. ~r.withheld
    BY <1>1, MintedStandsForNothing DEF r
  <1> QED BY <1>2, <1>3 DEF r

\* A format refusal is never minted.
LEMMA RejectedIsFatal ==
  ASSUME NEW code
  PROVE  ClassifyIngest(Refusal(TRUE, code, TRUE)).class = None
  <1> DEFINE r == Refusal(TRUE, code, TRUE)
  <1>1. r \in Readings({code}, {}, {Absent})
    BY DEF Refusal, Readings
  <1>2. r.errors # {} /\ r.format_rejected
    BY DEF Refusal
  <1> HIDE DEF r
  <1>3. QED BY <1>1, <1>2, MintedStandsForNothing DEF r

-----------------------------------------------------------------------------
(* The walk of a SARIF log: the clocks of the invocations it has passed.    *)

\* Where the two counts of a walk are kept, and what else is.
SarifFields ==
  {"step", "run", "result", "diagnostics", "folds", "failed_starts", "failed_ends", "unverified"}

\* The invocations that failed, of the runs up to one.
FailedUpTo(k) ==
  UNION {S!Failed(run) : run \in {doc.runs[i] : i \in {j \in DOMAIN doc.runs : j <= k /\ doc.runs[j].object}}}

PassedRun(p) == IF p.step = "run" THEN p.run - 1 ELSE p.run

\* A log whose runs are listed, each with its results or without.
LogShaped(log) ==
  IsSequence(log.runs) /\ \A run \in Range(log.runs) : run.listed \in {"absent", "other", "array"}

\* Two walks that stand at one place, of which the second may have read more, but
\* no clock of a failed invocation.
Alike(p, q) ==
  /\ DOMAIN q = DOMAIN p
  /\ q.run = p.run /\ q.result = p.result
  /\ q.failed_starts = p.failed_starts /\ q.failed_ends = p.failed_ends
  /\ q.step \in {p.step, "bound"}
  /\ p.diagnostics \subseteq q.diagnostics /\ p.folds \subseteq q.folds

LEMMA FoldIsAlike ==
  ASSUME NEW p, DOMAIN p = SarifFields, NEW candidates
  PROVE  Alike(p, S!Fold(p, candidates))
  BY DEF Alike, SarifFields, S!Fold

LEMMA DiagnoseIsAlike ==
  ASSUME NEW p, DOMAIN p = SarifFields, NEW diagnostics
  PROVE  Alike(p, S!Diagnose(p, diagnostics)) /\ S!Diagnose(p, diagnostics).step = p.step
  BY DEF Alike, SarifFields, S!Diagnose

LEMMA CleanRunIsAlike ==
  ASSUME NEW p, DOMAIN p = SarifFields, NEW run, NEW log
  PROVE  Alike(p, S!CleanRun(p, run, log))
  <1> DEFINE q == S!Diagnose(p, {[level |-> "INFO", code |-> "run_clean"]})
             Doubted(d) == [S!Diagnose(q, {S!Warning(d)}) EXCEPT !.unverified = TRUE]
             folded == S!Fold(S!Diagnose(q, S!Missing(S!RunClock(run))), {S!CleanCandidate(run)})
  <1>1. S!CleanRun(p, run, log) \in
          {q, Doubted("execution_unverified"), Doubted(S!CleanRunDoubt(run, log)), folded}
    BY Zenon DEF S!CleanRun
  <1>2. Alike(p, q) /\ DOMAIN q = SarifFields
    BY DiagnoseIsAlike DEF Alike
  <1> HIDE DEF q
  <1>3. ASSUME NEW d PROVE Alike(p, Doubted(d))
    <2>1. Alike(q, S!Diagnose(q, {S!Warning(d)}))
      BY <1>2, DiagnoseIsAlike
    <2> QED BY <1>2, <2>1 DEF Alike, SarifFields
  <1>4. Alike(p, folded)
    <2> DEFINE r == S!Diagnose(q, S!Missing(S!RunClock(run)))
    <2>1. Alike(q, r)
      BY <1>2, DiagnoseIsAlike
    <2>2. DOMAIN r = SarifFields
      BY <1>2, <2>1 DEF Alike
    <2> HIDE DEF r
    <2>3. Alike(r, S!Fold(r, {S!CleanCandidate(run)}))
      BY <2>2, FoldIsAlike
    <2>4. Alike(q, S!Fold(r, {S!CleanCandidate(run)}))
      BY <2>1, <2>3 DEF Alike
    <2> QED BY <1>2, <2>4 DEF Alike, r
  <1> QED BY <1>1, <1>2, <1>3, <1>4

\* What the walk makes of a run before its results: the clocks are added first.
LEMMA ScopedKeeps ==
  ASSUME NEW p, DOMAIN p = SarifFields, p.step = "run", NEW run, NEW log,
         run.listed \in {"absent", "other", "array"}
  PROVE  LET q == S!Scoped(p, run, log) IN
         /\ DOMAIN q = SarifFields
         /\ q.step \in {"run", "result", "bound"}
         /\ q.step = "run" => q.run = p.run + 1
         /\ q.step = "result" => q.run = p.run
         /\ q.failed_starts = p.failed_starts \cup S!Starts(S!Failed(run))
         /\ q.failed_ends = p.failed_ends \cup S!Ends(S!Failed(run))
  <1> DEFINE noted == S!Diagnose(p, S!ScopeWarnings(run) \cup S!ScopeErrors(run))
             q == S!Invoked(noted, run)
             On(r) == S!NextRun(r)
  <1>1. Alike(p, noted) /\ noted.step = "run"
    BY DiagnoseIsAlike
  <1> HIDE DEF noted
  <1>2. /\ DOMAIN q = SarifFields /\ q.step = "run" /\ q.run = p.run
        /\ q.failed_starts = p.failed_starts \cup S!Starts(S!Failed(run))
        /\ q.failed_ends = p.failed_ends \cup S!Ends(S!Failed(run))
    BY <1>1 DEF Alike, SarifFields, S!Invoked
  <1>3. S!Scoped(p, run, log) \in
          {On(q), On(S!Diagnose(q, {S!Warning("results_unknown")})),
           On(S!Diagnose(q, {S!Error("invalid_run")})), On(S!CleanRun(q, run, log)),
           [q EXCEPT !.step = "bound"], [q EXCEPT !.step = "result"]}
    BY DEF S!Scoped, noted
  <1> HIDE DEF q
  <1>4. ASSUME NEW r, Alike(q, r)
        PROVE  /\ DOMAIN On(r) = SarifFields
               /\ On(r).step \in {"run", "bound"} /\ On(r).run = p.run + 1
               /\ On(r).failed_starts = q.failed_starts /\ On(r).failed_ends = q.failed_ends
    BY <1>2, <1>4 DEF Alike, SarifFields, S!NextRun
  <1>5. Alike(q, q)
    BY DEF Alike
  <1>6. \A d : Alike(q, S!Diagnose(q, d))
    BY <1>2, DiagnoseIsAlike
  <1>7. Alike(q, S!CleanRun(q, run, log))
    BY <1>2, CleanRunIsAlike
  <1>8. \A step : LET r == [q EXCEPT !.step = step] IN
          /\ DOMAIN r = SarifFields /\ r.step = step /\ r.run = q.run
          /\ r.failed_starts = q.failed_starts /\ r.failed_ends = q.failed_ends
    BY <1>2 DEF SarifFields
  <1> DEFINE Moved(r) ==
        /\ DOMAIN r = SarifFields
        /\ r.step \in {"run", "result", "bound"}
        /\ r.step = "run" => r.run = p.run + 1
        /\ r.step = "result" => r.run = p.run
        /\ r.failed_starts = p.failed_starts \cup S!Starts(S!Failed(run))
        /\ r.failed_ends = p.failed_ends \cup S!Ends(S!Failed(run))
  <1>9. ASSUME NEW r, Alike(q, r) PROVE Moved(On(r))
    BY <1>2, <1>4, <1>9
  <1>10. Moved([q EXCEPT !.step = "bound"]) /\ Moved([q EXCEPT !.step = "result"])
    BY <1>2, <1>8
  <1> HIDE DEF On, Moved
  <1>11. Moved(S!Scoped(p, run, log))
    BY <1>3, <1>5, <1>6, <1>7, <1>9, <1>10
  <1> QED BY <1>11 DEF Moved

\* One result more leaves the clocks alone.
LEMMA ScannedIsAlike ==
  ASSUME NEW p, DOMAIN p = SarifFields, NEW run, NEW result
  PROVE  Alike(p, S!Scanned(p, run, result))
  <1> DEFINE q == S!Diagnose(p, S!RuleErrors(run, result))
             read == S!Diagnose(q, S!ResultWarnings(run, result) \cup S!LocationErrors(result))
             candidates == {S!Candidate(run, result, resource) : resource \in S!Resources(run, result)}
  <1>1. S!Scanned(p, run, result) \in {q, [q EXCEPT !.step = "bound"], read, S!Fold(read, candidates)}
    BY Zenon DEF S!Scanned
  <1>2. Alike(p, q) /\ DOMAIN q = SarifFields
    BY DiagnoseIsAlike DEF Alike
  <1> HIDE DEF q
  <1>3. Alike(p, [q EXCEPT !.step = "bound"])
    BY <1>2 DEF Alike, SarifFields
  <1>4. Alike(q, read) /\ DOMAIN read = SarifFields
    BY <1>2, DiagnoseIsAlike DEF Alike
  <1> HIDE DEF read
  <1>5. Alike(read, S!Fold(read, candidates))
    BY <1>4, FoldIsAlike
  <1>6. Alike(p, read)
    BY <1>2, <1>4 DEF Alike
  <1>7. Alike(p, S!Fold(read, candidates))
    BY <1>5, <1>6 DEF Alike
  <1> QED BY <1>1, <1>2, <1>3, <1>6, <1>7

\* The clocks of one run more.
LEMMA ClocksOfOneMore ==
  ASSUME IsSequence(doc.runs), NEW k \in DOMAIN doc.runs
  PROVE  LET failed == IF doc.runs[k].object THEN S!Failed(doc.runs[k]) ELSE {} IN
         /\ S!Starts(FailedUpTo(k)) = S!Starts(FailedUpTo(k - 1)) \cup S!Starts(failed)
         /\ S!Ends(FailedUpTo(k)) = S!Ends(FailedUpTo(k - 1)) \cup S!Ends(failed)
  <1> DEFINE failed == IF doc.runs[k].object THEN S!Failed(doc.runs[k]) ELSE {}
             Some(n) == {doc.runs[i] : i \in {j \in DOMAIN doc.runs : j <= n /\ doc.runs[j].object}}
  <1>1. DOMAIN doc.runs \subseteq Nat
    BY DEF IsSequence
  <1>2. \A j \in DOMAIN doc.runs : j <= k <=> (j <= k - 1 \/ j = k)
    BY <1>1
  <1>3. Some(k) = IF doc.runs[k].object THEN Some(k - 1) \cup {doc.runs[k]} ELSE Some(k - 1)
    BY <1>2
  <1>4. FailedUpTo(k) = FailedUpTo(k - 1) \cup failed
    BY <1>3 DEF FailedUpTo
  <1>5. \A a, b : /\ S!Starts(a \cup b) = S!Starts(a) \cup S!Starts(b)
                  /\ S!Ends(a \cup b) = S!Ends(a) \cup S!Ends(b)
    BY DEF S!Starts, S!Ends
  <1> QED BY <1>4, <1>5

\* A walk at a run or a result of it has kept the clocks of the runs before.
Kept(p) ==
  /\ DOMAIN p = SarifFields
  /\ p.step \in {"run", "result", "bound", "rejected"}
  /\ p.step \in {"run", "result"} =>
       /\ p.run \in 1 .. Len(doc.runs) + 1
       /\ p.step = "result" => p.run \in DOMAIN doc.runs
       /\ p.failed_starts = S!Starts(FailedUpTo(PassedRun(p)))
       /\ p.failed_ends = S!Ends(FailedUpTo(PassedRun(p)))

LEMMA StartKeeps ==
  ASSUME LogShaped(doc)
  PROVE  Kept(S!SarifStart(doc))
  <1> DEFINE p == S!SarifStart(doc)
  <1>1. /\ DOMAIN p = SarifFields /\ p.step \in {"run", "rejected"} /\ p.run = 1
        /\ p.failed_starts = {} /\ p.failed_ends = {}
    BY DEF S!SarifStart, SarifFields
  <1>2. DOMAIN doc.runs = 1 .. Len(doc.runs) /\ Len(doc.runs) \in Nat
    BY DEF LogShaped, IsSequence
  <1>3. FailedUpTo(0) = {}
    BY <1>2 DEF FailedUpTo
  <1>4. S!Starts({}) = {} /\ S!Ends({}) = {}
    BY DEF S!Starts, S!Ends
  <1> HIDE DEF p
  <1>5. PassedRun(p) = IF p.step = "run" THEN 0 ELSE 1
    BY <1>1 DEF PassedRun
  <1>6. ASSUME p.step \in {"run", "result"}
        PROVE  /\ p.run \in 1 .. Len(doc.runs) + 1 /\ p.step = "run"
               /\ p.failed_starts = S!Starts(FailedUpTo(PassedRun(p)))
               /\ p.failed_ends = S!Ends(FailedUpTo(PassedRun(p)))
    <2>1. p.step = "run" /\ PassedRun(p) = 0
      BY <1>1, <1>5, <1>6
    <2>2. p.run \in 1 .. Len(doc.runs) + 1
      BY <1>1, <1>2
    <2> QED BY <1>1, <1>3, <1>4, <2>1, <2>2
  <1> QED BY <1>1, <1>6 DEF p, Kept

LEMMA StepKeeps ==
  ASSUME LogShaped(doc), Kept(parse), S!SarifStep
  PROVE  Kept(parse') /\ doc' = doc
  <1>1. /\ DOMAIN doc.runs = 1 .. Len(doc.runs) /\ Len(doc.runs) \in Nat
        /\ IsSequence(doc.runs)
        /\ \A k \in DOMAIN doc.runs : doc.runs[k].listed \in {"absent", "other", "array"}
    BY DEF LogShaped, IsSequence, Range
  <1>2. CASE S!ScanRun
    <2> DEFINE k == parse.run
               failed == IF doc.runs[k].object THEN S!Failed(doc.runs[k]) ELSE {}
    <2>1. parse.step = "run" /\ k \in DOMAIN doc.runs /\ doc' = doc
      BY <1>2 DEF S!ScanRun, S!InRuns
    <2>2. /\ parse.failed_starts = S!Starts(FailedUpTo(k - 1))
          /\ parse.failed_ends = S!Ends(FailedUpTo(k - 1))
      BY <2>1 DEF Kept, PassedRun
    <2>3. /\ DOMAIN parse' = SarifFields /\ parse'.step \in {"run", "result", "bound"}
          /\ parse'.step = "run" => parse'.run = k + 1
          /\ parse'.step = "result" => parse'.run = k
          /\ parse'.failed_starts = parse.failed_starts \cup S!Starts(failed)
          /\ parse'.failed_ends = parse.failed_ends \cup S!Ends(failed)
      <3>1. CASE doc.runs[k].object
        <4>1. parse' = S!Scoped(parse, doc.runs[k], doc)
          BY <1>2, <3>1 DEF S!ScanRun, S!Run
        <4>2. DOMAIN parse = SarifFields
          BY DEF Kept
        <4> QED BY <1>1, <2>1, <3>1, <4>1, <4>2, ScopedKeeps
      <3>2. CASE ~doc.runs[k].object
        <4> DEFINE q == S!Diagnose(parse, {S!Error("invalid_run")})
        <4>1. parse' = S!NextRun(q)
          BY <1>2, <3>2 DEF S!ScanRun, S!Run
        <4>2. Alike(parse, q) /\ q.step = "run" /\ DOMAIN parse = SarifFields
          BY <2>1, DiagnoseIsAlike DEF Kept
        <4> HIDE DEF q
        <4>3. S!Starts({}) = {} /\ S!Ends({}) = {}
          BY DEF S!Starts, S!Ends
        <4> QED BY <3>2, <4>1, <4>2, <4>3 DEF S!NextRun, Alike, SarifFields
      <3> QED BY <3>1, <3>2
    <2>4. /\ S!Starts(FailedUpTo(k)) = S!Starts(FailedUpTo(k - 1)) \cup S!Starts(failed)
          /\ S!Ends(FailedUpTo(k)) = S!Ends(FailedUpTo(k - 1)) \cup S!Ends(failed)
      BY <1>1, <2>1, ClocksOfOneMore
    <2>5. /\ parse'.failed_starts = S!Starts(FailedUpTo(k))
          /\ parse'.failed_ends = S!Ends(FailedUpTo(k))
      BY <2>2, <2>3, <2>4
    <2> HIDE DEF failed
    <2>6. k \in 1 .. Len(doc.runs) /\ k + 1 \in 1 .. Len(doc.runs) + 1 /\ k + 1 - 1 = k
      BY <1>1, <2>1
    <2>7. parse'.step \in {"run", "result"} =>
            /\ parse'.run \in 1 .. Len(doc.runs) + 1
            /\ parse'.step = "result" => parse'.run \in DOMAIN doc.runs
            /\ PassedRun(parse') = k
      BY <1>1, <2>1, <2>3, <2>6 DEF PassedRun
    <2> QED BY <2>1, <2>3, <2>5, <2>7 DEF Kept
  <1>3. CASE S!ScanResult
    <2> DEFINE k == parse.run
               q == S!Scanned(parse, S!Run, S!Run.results[parse.result])
    <2>1. /\ parse.step = "result" /\ doc' = doc
          /\ \/ parse' = q /\ q.step = "bound"
             \/ parse' = [S!NextRun(q) EXCEPT !.step = "run"]
             \/ parse' = [q EXCEPT !.result = @ + 1]
      BY <1>3, Zenon DEF S!ScanResult
    <2>2. /\ DOMAIN parse = SarifFields /\ k \in DOMAIN doc.runs
          /\ parse.failed_starts = S!Starts(FailedUpTo(k)) /\ parse.failed_ends = S!Ends(FailedUpTo(k))
      BY <2>1 DEF Kept, PassedRun
    <2>3. Alike(parse, q)
      BY <2>2, ScannedIsAlike
    <2> HIDE DEF q
    <2>4. /\ DOMAIN parse' = SarifFields /\ parse'.step \in {"run", "result", "bound"}
          /\ parse'.step = "run" => parse'.run = k + 1
          /\ parse'.step = "result" => parse'.run = k
          /\ parse'.failed_starts = parse.failed_starts
          /\ parse'.failed_ends = parse.failed_ends
      <3>1. CASE parse' = q /\ q.step = "bound"
        BY <2>2, <2>3, <3>1 DEF Alike
      <3>2. CASE parse' = [S!NextRun(q) EXCEPT !.step = "run"]
        BY <2>2, <2>3, <3>2 DEF Alike, SarifFields, S!NextRun
      <3>3. CASE parse' = [q EXCEPT !.result = @ + 1]
        BY <2>1, <2>2, <2>3, <3>3 DEF Alike, SarifFields
      <3> QED BY <2>1, <3>1, <3>2, <3>3
    <2>5. k \in 1 .. Len(doc.runs) /\ k + 1 \in 1 .. Len(doc.runs) + 1 /\ k + 1 - 1 = k
      BY <1>1, <2>2
    <2>6. parse'.step \in {"run", "result"} =>
            /\ parse'.run \in 1 .. Len(doc.runs) + 1
            /\ parse'.step = "result" => parse'.run \in DOMAIN doc.runs
            /\ PassedRun(parse') = k
      BY <1>1, <2>2, <2>4, <2>5 DEF PassedRun
    <2> QED BY <2>1, <2>2, <2>4, <2>6 DEF Kept
  <1> QED BY <1>2, <1>3 DEF S!SarifStep

\* Every invocation that failed, when the walk has passed every run.
LEMMA PassedAll ==
  ASSUME LogShaped(doc)
  PROVE  FailedUpTo(Len(doc.runs)) = UNION {S!Failed(run) : run \in {r \in Range(doc.runs) : r.object}}
  <1>1. DOMAIN doc.runs = 1 .. Len(doc.runs) /\ Len(doc.runs) \in Nat
    BY DEF LogShaped, IsSequence
  <1>2. {doc.runs[i] : i \in {j \in DOMAIN doc.runs : j <= Len(doc.runs) /\ doc.runs[j].object}}
          = {r \in Range(doc.runs) : r.object}
    BY <1>1 DEF Range
  <1> QED BY <1>2 DEF FailedUpTo

\* The clock of a failed execution is the one the reading declares.
LEMMA ExecutionClock ==
  ASSUME NEW r, ClassifyIngest(r).class = "execution"
  PROVE  ClassifyIngest(r).clock = r.failed_execution_at
  <1>1. CASE r.errors = {}
    <2>1. ClassifyIngest(r) = ClassifyWhole(r)
      BY <1>1 DEF ClassifyIngest
    <2> QED BY <2>1 DEF ClassifyWhole, Imported, Minted, None
  <1>2. CASE r.errors # {}
    <2>1. UnmintableReason(r) = None
      <3> SUFFICES ASSUME UnmintableReason(r) # None PROVE FALSE
        OBVIOUS
      <3>1. ClassifyIngest(r) = Unmintable(UnmintableReason(r), r.errors)
        BY <1>2 DEF ClassifyIngest
      <3> QED BY <3>1 DEF Unmintable, None
    <2>2. ClassifyIngest(r) = ClassifyFailed(r)
      BY <1>2, <2>1 DEF ClassifyIngest
    <2>3. CASE Executed \in r.codes
      BY <2>2, <2>3 DEF ClassifyFailed, Minted
    <2>4. CASE Executed \notin r.codes
      BY <2>2, <2>4 DEF ClassifyFailed, Minted
    <2> QED BY <2>3, <2>4
  <1> QED BY <1>1, <1>2

\* A failed invocation is recorded at the earliest clock one of the log declared,
\* of every log, whatever the results of its runs and whichever it refuses.
THEOREM FailureClock ==
  ASSUME NEW CONSTANT Files, \A f \in Files : f.content.kind = "sarif" => LogShaped(f.content.body)
  PROVE  Spec(Files) => []FailureKeepsItsClock
  <1> DEFINE IInv == supplied \in Seq(Files) /\ (phase = "sarif" => LogShaped(doc) /\ Kept(parse))
  <1>1. ASSUME NEW files \in Seq(Files), NEW record \in BOOLEAN, Start(files, record)
        PROVE  IInv
    BY <1>1 DEF Start
  <1>2. ASSUME IInv, [Next]_vars PROVE IInv'
    <2>1. CASE Open \/ End
      BY <1>2, <2>1 DEF Open, End, Take
    <2>2. CASE Begin
      <3>1. /\ supplied' = supplied /\ phase' = Adapter(File) /\ doc' = Body
            /\ Adapter(File) = "sarif" => parse' = S!SarifStart(Body)
            /\ at \in DOMAIN supplied /\ Adapter(File) = File.content.kind
        BY <2>2 DEF Begin, Walked
      <3>2. File \in Files
        BY <1>2, <3>1 DEF File
      <3>3. ASSUME phase' = "sarif" PROVE LogShaped(doc') /\ parse' = S!SarifStart(doc')
        BY <3>1, <3>2, <3>3 DEF Body
      <3>4. ASSUME phase' = "sarif" PROVE (LogShaped(doc) /\ Kept(parse))'
        <4>1. (LogShaped(doc) => Kept(S!SarifStart(doc)))'
          BY StartKeeps, PTL
        <4> QED BY <3>3, <3>4, <4>1
      <3> QED BY <1>2, <3>1, <3>4
    <2>3. CASE Walk
      <3>1. supplied' = supplied /\ phase' = phase /\ (phase = "sarif" => S!SarifStep)
        BY <2>3 DEF Walk
      <3>2. ASSUME phase = "sarif" PROVE (LogShaped(doc) /\ Kept(parse))'
        <4>1. doc' = doc /\ Kept(parse')
          BY <1>2, <3>1, <3>2, StepKeeps
        <4>2. \A k : FailedUpTo(k)' = FailedUpTo(k)
          BY <4>1 DEF FailedUpTo
        <4> QED BY <1>2, <3>2, <4>1, <4>2 DEF Kept
      <3> QED BY <1>2, <3>1, <3>2
    <2>4. CASE Decide \/ UNCHANGED vars
      <3>1. /\ supplied' = supplied /\ doc' = doc /\ parse' = parse /\ (phase' = phase \/ phase' = "done")
        BY <2>4 DEF Decide, vars
      <3>2. \A k : FailedUpTo(k)' = FailedUpTo(k)
        BY <3>1 DEF FailedUpTo
      <3> QED BY <1>2, <3>1, <3>2 DEF Kept
    <2> QED BY <1>2, <2>1, <2>2, <2>3, <2>4 DEF Next
  <1>3. ASSUME IInv PROVE FailureKeepsItsClock
    <2> SUFFICES ASSUME SarifRead, parse.step = "run", Classified.class = "execution"
                 PROVE  Classified.clock = S!DeclaredFailure
      BY DEF FailureKeepsItsClock
    <2>1. phase = "sarif" /\ LogShaped(doc) /\ Kept(parse) /\ parse.run \notin DOMAIN doc.runs
      BY <1>3 DEF SarifRead, S!SarifDone, S!InRuns
    <2>2. parse.run = Len(doc.runs) + 1 /\ Len(doc.runs) \in Nat
      BY <2>1 DEF Kept, LogShaped, IsSequence
    <2>3. PassedRun(parse) = Len(doc.runs)
      BY <2>2 DEF PassedRun
    <2> DEFINE failed == UNION {S!Failed(run) : run \in {r \in Range(doc.runs) : r.object}}
    <2>4. parse.failed_starts = S!Starts(failed) /\ parse.failed_ends = S!Ends(failed)
      BY <2>1, <2>3, PassedAll DEF Kept
    <2>5. S!DeclaredFailure = S!EarliestClock(S!Starts(failed), S!Ends(failed))
      BY DEF S!DeclaredFailure, Range, S!Range
    <2>6. Output = S!SarifOutput(parse)
      BY <2>1 DEF Output
    <2>7. S!SarifOutput(parse) = S!Reading(S!Assembled(parse), parse.diagnostics \cup S!Unread(parse),
                                           S!EarliestClock(parse.failed_starts, parse.failed_ends))
      BY DEF S!SarifOutput
    <2>8. Output.failed_execution_at = S!DeclaredFailure
      BY <2>4, <2>5, <2>6, <2>7 DEF S!Reading
    <2> QED BY <2>8, ExecutionClock DEF Classified
  <1>4. Spec(Files) => []IInv
    <2>1. (\E files \in Seq(Files), record \in BOOLEAN : Start(files, record)) => IInv
      BY <1>1
    <2> QED BY <1>2, <2>1, PTL DEF Spec
  <1> QED BY <1>3, <1>4, PTL

-----------------------------------------------------------------------------
(* The walk of a CycloneDX document: an inventory is never half read.       *)

\* A document that lists no vulnerability is refused as a whole, or read without
\* an error.
InventoryWhole(p) ==
  DOMAIN p = CdxFields /\ (p.step = "rejected" \/ ~D!HasErrors(p.diagnostics))

LEMMA InventoryStarts ==
  ASSUME NEW document, ~D!Matched(document)
  PROVE  InventoryWhole(D!CdxStart(document))
  <1> DEFINE p == D!CdxStart(document)
  <1>1. DOMAIN p = CdxFields /\ p.diagnostics = D!When(document.faulted, D!Error("invalid_bom"))
    BY DEF D!CdxStart, CdxFields
  <1>2. CASE document.faulted
    BY <1>1, <1>2 DEF InventoryWhole, D!CdxStart
  <1>3. CASE ~document.faulted
    <2>1. p.diagnostics = {}
      BY <1>1, <1>3 DEF D!When
    <2> QED BY <1>1, <2>1, ErrorsAre DEF InventoryWhole
  <1> QED BY <1>2, <1>3

LEMMA InventoryGoesOn ==
  ASSUME NEW document, ~D!Matched(document), NEW p, InventoryWhole(p), D!Walking(p)
  PROVE  InventoryWhole(D!Stepped(p, document))
  <1>1. /\ DOMAIN p = CdxFields /\ ~D!HasErrors(p.diagnostics) /\ p.step \in {"index", "fold"}
        /\ document.vulnerabilities = <<>>
    BY DEF InventoryWhole, D!Walking, D!Matched
  <1>2. ASSUME NEW q, NEW code, DOMAIN q = CdxFields
        PROVE  InventoryWhole(D!Faulted(q, document, code))
    BY <1>2 DEF D!Faulted, InventoryWhole, CdxFields
  <1>3. ASSUME NEW more, \A x \in more : x.level # "ERROR"
        PROVE  InventoryWhole(D!Added(p, more))
    <2>1. ~D!HasErrors(p.diagnostics \cup more)
      BY <1>1, <1>3, WarningsAdded
    <2> QED BY <1>1, <2>1 DEF D!Added, InventoryWhole, CdxFields
  <1>4. CASE p.step = "index" /\ p.pending # <<>>
    <2>1. D!Stepped(p, document) = D!Index(p, document)
      BY <1>4 DEF D!Stepped
    <2>2. DOMAIN [p EXCEPT !.pending = Tail(@)] = CdxFields
      BY <1>1
    <2> QED BY <1>1, <1>2, <2>1, <2>2 DEF D!Index, InventoryWhole, CdxFields
  <1>5. CASE p.step = "index" /\ p.pending = <<>>
    <2> DEFINE named == D!Tools(document) # {}
               tool == IF named THEN D!Tools(document) ELSE {"cyclonedx"}
               scope == D!Scope(document, tool)
               first == D!When(~named, D!Warning("tool_identity_fallback"))
                        \cup D!When(D!Cardinality(tool) > 1, D!Warning("tool_identity_ambiguous"))
               known == D!Added(p, first)
               noted == D!When(scope.resource = <<"scan", <<tool>>>>, D!Warning("subject_identity_fallback"))
                        \cup D!When(document.version = D!Unusable, D!Warning("bom_version_invalid"))
                        \cup D!When(document.timestamp = D!Unusable, D!Warning("source_timestamp_invalid"))
                        \cup D!When(~D!Usable(document.timestamp), D!Warning("source_timestamp_missing"))
               both == D!Added(known, noted)
               read == [both EXCEPT !.step = IF D!OverBound(document) THEN "bound" ELSE "fold",
                                    !.tool = tool, !.scope = scope.resource, !.lineage = scope.lineage]
               failed == D!Faulted([p EXCEPT !.step = "done"], document, "identity_input_invalid")
               refused == D!Faulted([known EXCEPT !.step = "done"], document, "identity_input_invalid")
    <2>1. D!Stepped(p, document) = D!ReadScope(p, document)
      BY <1>5 DEF D!Stepped
    <2>2. D!ReadScope(p, document) \in {failed, refused, read}
      BY <1>1, Zenon DEF D!ReadScope
    <2>3. (\A x \in first : x.level # "ERROR") /\ (\A x \in noted : x.level # "ERROR")
      BY DEF D!When, D!Warning
    <2> HIDE DEF first, noted, scope, tool, named
    <2>4. InventoryWhole(known)
      BY <1>3, <2>3
    <2>5. ~D!HasErrors((p.diagnostics \cup first) \cup noted)
      BY <1>1, <2>3, WarningsAdded
    <2>6. DOMAIN both = CdxFields /\ both.diagnostics = (p.diagnostics \cup first) \cup noted
      BY <1>1 DEF D!Added, CdxFields
    <2> HIDE DEF both
    <2>7. InventoryWhole(read)
      BY <2>5, <2>6 DEF InventoryWhole, CdxFields
    <2> HIDE DEF known
    <2>8. InventoryWhole(failed)
      <3>1. DOMAIN [p EXCEPT !.step = "done"] = CdxFields
        BY <1>1
      <3> QED BY <1>2, <3>1
    <2>9. InventoryWhole(refused)
      <3>1. DOMAIN [known EXCEPT !.step = "done"] = CdxFields
        BY <2>4 DEF InventoryWhole
      <3> QED BY <1>2, <3>1
    <2> QED BY <2>1, <2>2, <2>7, <2>8, <2>9
  <1>6. CASE p.step = "fold"
    <2>1. D!Stepped(p, document) = D!Close(p)
      BY <1>1, <1>6 DEF D!Stepped
    <2> QED BY <1>1, <2>1 DEF D!Close, InventoryWhole, CdxFields
  <1> QED BY <1>1, <1>4, <1>5, <1>6

\* A failure minted in place of a reading that came to its end stands for one that
\* read no finding, of any document of any of the three walks: and a document that
\* lists no vulnerability, an inventory, is never one of them.
THEOREM MintedRead ==
  ASSUME NEW CONSTANT Files
  PROVE  Spec(Files) => []MintedReadNothing
  <1> DEFINE IInv == phase = "cyclonedx" => D!Matched(doc) \/ InventoryWhole(parse)
  <1>1. ASSUME NEW files \in Seq(Files), NEW record \in BOOLEAN, Start(files, record)
        PROVE  IInv
    BY <1>1 DEF Start
  <1>2. ASSUME IInv, [Next]_vars PROVE IInv'
    <2>1. CASE Open \/ End
      BY <2>1 DEF Open, End, Take
    <2>2. CASE Begin
      <3>1. /\ phase' = Adapter(File) /\ doc' = Body
            /\ Adapter(File) = "cyclonedx" => parse' = D!CdxStart(Body)
        BY <2>2 DEF Begin
      <3>2. D!Matched(Body) \/ InventoryWhole(D!CdxStart(Body))
        BY InventoryStarts
      <3>3. D!Matched(doc)' <=> D!Matched(doc')
        BY DEF D!Matched
      <3> QED BY <3>1, <3>2, <3>3
    <2>3. CASE Walk
      <3>1. phase' = phase /\ (phase = "cyclonedx" => D!CdxStep)
        BY <2>3 DEF Walk
      <3>2. ASSUME phase = "cyclonedx" PROVE (D!Matched(doc) \/ InventoryWhole(parse))'
        <4>1. D!Walking(parse) /\ parse' = D!Stepped(parse, doc) /\ doc' = doc
          BY <3>1, <3>2 DEF D!CdxStep
        <4>2. D!Matched(doc) \/ InventoryWhole(D!Stepped(parse, doc))
          BY <1>2, <3>2, <4>1, InventoryGoesOn
        <4> QED BY <4>1, <4>2 DEF D!Matched
      <3> QED BY <3>1, <3>2
    <2>4. CASE Decide \/ UNCHANGED vars
      BY <1>2, <2>4 DEF Decide, vars, D!Matched
    <2> QED BY <1>2, <2>1, <2>2, <2>3, <2>4 DEF Next
  <1>3. ASSUME IInv PROVE MintedReadNothing
    <2> SUFFICES ASSUME SarifRead \/ HdfRead \/ CdxRead, parse.step # "bound",
                        Classified.class # None, Output.errors # {}
                 PROVE  parse.folds = {} /\ (CdxRead => D!Matched(doc))
      BY DEF MintedReadNothing
    <2>1. CASE SarifRead
      <3>1. Output = S!SarifOutput(parse) /\ ~CdxRead
        BY <2>1 DEF SarifRead, CdxRead, Output
      <3>2. parse.step # "rejected"
        <4> SUFFICES ASSUME parse.step = "rejected" PROVE FALSE
          OBVIOUS
        <4>1. Output = Refusal(TRUE, "artifact_parse_failed", TRUE)
          BY <3>1 DEF S!SarifOutput, S!Refusal, Refusal, S!Absent, Absent
        <4> QED BY <4>1, RejectedIsFatal DEF Classified
      <3>3. PICK d, c : Output = S!Reading(S!Assembled(parse), d, c)
        BY <3>1, <3>2 DEF S!SarifOutput
      <3>4. Output = Reading(S!Assembled(parse), d, c)
        BY <3>3, OneForm
      <3>5. S!Assembled(parse) = {}
        BY <3>4, MintedHadNone DEF Classified
      <3> QED BY <3>1, <3>5 DEF S!Assembled
    <2>2. CASE HdfRead
      <3>1. Output = H!HdfOutput(parse) /\ ~CdxRead
        BY <2>2 DEF HdfRead, CdxRead, Output
      <3>2. parse.step # "rejected"
        <4> SUFFICES ASSUME parse.step = "rejected" PROVE FALSE
          OBVIOUS
        <4>1. Output = Refusal(TRUE, "artifact_parse_failed", TRUE)
          BY <3>1 DEF H!HdfOutput, H!Refusal, Refusal, H!Absent, Absent
        <4> QED BY <4>1, RejectedIsFatal DEF Classified
      <3>3. PICK d, c : Output = H!Reading(H!HdfAssembled(parse), d, c)
        BY <3>1, <3>2 DEF H!HdfOutput
      <3>4. Output = Reading(H!HdfAssembled(parse), d, c)
        BY <3>3, OneForm
      <3>5. H!HdfAssembled(parse) = {}
        BY <3>4, MintedHadNone DEF Classified
      <3> QED BY <3>1, <3>5 DEF H!HdfAssembled
    <2>3. CASE CdxRead
      <3>1. Output = D!CdxOutput(parse, doc) /\ phase = "cyclonedx"
        BY <2>3 DEF CdxRead, Output
      <3>2. parse.step # "rejected"
        <4> SUFFICES ASSUME parse.step = "rejected" PROVE FALSE
          OBVIOUS
        <4>1. Output = Refusal(TRUE, "artifact_parse_failed", TRUE)
          BY <3>1 DEF D!CdxOutput, D!Refusal, Refusal, D!Absent, Absent
        <4> QED BY <4>1, RejectedIsFatal DEF Classified
      <3> DEFINE scope == IF parse.step = "scoped" THEN {D!ScopeObservation(parse)} ELSE {}
                 notes == IF D!HasErrors(parse.diagnostics) THEN {} ELSE D!CloseNotes(parse, doc)
      <3>3. Output = D!Reading(D!Folded(parse) \cup scope, parse.diagnostics \cup notes, D!Absent)
        BY <3>1, <3>2 DEF D!CdxOutput
      <3>4. Output = Reading(D!Folded(parse) \cup scope, parse.diagnostics \cup notes, D!Absent)
        BY <3>3, OneForm
      <3>5. D!Folded(parse) \cup scope = {}
        BY <3>4, MintedHadNone DEF Classified
      <3>6. parse.folds = {}
        <4>1. D!Folded(parse) = {}
          BY <3>5
        <4>2. \A c \in parse.folds :
                D!AssembleFold(c.key, {b \in parse.folds : b.key = c.key}) \in D!Folded(parse)
          BY DEF D!Folded
        <4> QED BY <4>1, <4>2
      <3>7. D!HasErrors(parse.diagnostics)
        <4> SUFFICES ASSUME ~D!HasErrors(parse.diagnostics) PROVE FALSE
          OBVIOUS
        <4>1. \A x \in notes : x.level # "ERROR"
          BY DEF D!CloseNotes, D!When, D!Warning
        <4>2. ~D!HasErrors(parse.diagnostics \cup notes)
          BY <4>1, WarningsAdded
        <4>3. Output.errors = D!ErrorsOf(parse.diagnostics \cup notes)
          BY <3>3 DEF D!Reading
        <4> QED BY <4>2, <4>3 DEF D!HasErrors
      <3>8. D!Matched(doc)
        BY <1>3, <3>1, <3>2, <3>7 DEF InventoryWhole
      <3> QED BY <3>6, <3>8
    <2> QED BY <2>1, <2>2, <2>3
  <1>4. Spec(Files) => []IInv
    <2>1. (\E files \in Seq(Files), record \in BOOLEAN : Start(files, record)) => IInv
      BY <1>1
    <2> QED BY <1>2, <2>1, PTL DEF Spec
  <1> QED BY <1>3, <1>4, PTL

-----------------------------------------------------------------------------
(* The walk of a SARIF log: the findings it has passed.                     *)

\* A log every run of which that lists results lists them in a sequence.
LogListed(log) ==
  LogShaped(log) /\ \A run \in Range(log.runs) : run.listed = "array" => IsSequence(run.results)

LEMMA FoldAdds ==
  ASSUME NEW p, DOMAIN p = SarifFields, NEW candidates
  PROVE  LET q == S!Fold(p, candidates) IN
         /\ q.step = "bound" \/ candidates \subseteq q.folds
         /\ q.folds \subseteq p.folds \cup candidates
  BY DEF SarifFields, S!Fold

\* A run of no result adds no candidate but a PASS.
LEMMA CleanRunAdds ==
  ASSUME NEW p, DOMAIN p = SarifFields, NEW run, NEW log, NEW c \in S!CleanRun(p, run, log).folds
  PROVE  c \in p.folds \/ c.disposition = "PASS"
  <1> DEFINE q == S!Diagnose(p, {[level |-> "INFO", code |-> "run_clean"]})
             Doubted(d) == [S!Diagnose(q, {S!Warning(d)}) EXCEPT !.unverified = TRUE]
             read == S!Diagnose(q, S!Missing(S!RunClock(run)))
             folded == S!Fold(read, {S!CleanCandidate(run)})
  <1>1. S!CleanRun(p, run, log) \in
          {q, Doubted("execution_unverified"), Doubted(S!CleanRunDoubt(run, log)), folded}
    BY Zenon DEF S!CleanRun
  <1>2. \A d : Doubted(d).folds = p.folds
    BY DEF SarifFields, S!Diagnose
  <1>3. q.folds = p.folds /\ read.folds = p.folds /\ DOMAIN read = SarifFields
    BY DEF SarifFields, S!Diagnose
  <1>4. S!CleanCandidate(run).disposition = "PASS"
    BY DEF S!CleanCandidate
  <1> HIDE DEF q, read, Doubted
  <1>5. folded.folds \subseteq p.folds \cup {S!CleanCandidate(run)}
    BY <1>3, FoldAdds
  <1> QED BY <1>1, <1>2, <1>3, <1>4, <1>5

\* A run before its results are read: its results are next, unless it is refused
\* with an error.
LEMMA ScopedFinds ==
  ASSUME NEW p, DOMAIN p = SarifFields, p.step = "run", NEW run, NEW log,
         run.listed \in {"absent", "other", "array"}
  PROVE  LET q == S!Scoped(p, run, log) IN
         /\ p.diagnostics \subseteq q.diagnostics /\ p.folds \subseteq q.folds
         /\ \A c \in q.folds : c \in p.folds \/ c.disposition = "PASS"
         /\ q.step = "run" => q.result = 1
         /\ q.step = "result" => q.result = p.result /\ run.listed = "array" /\ run.results # <<>>
         /\ (q.step = "run" /\ run.listed = "array" /\ run.results # <<>>) => S!HasErrors(q.diagnostics)
  <1> DEFINE noted == S!Diagnose(p, S!ScopeWarnings(run) \cup S!ScopeErrors(run))
             q == S!Invoked(noted, run)
             On(r) == S!NextRun(r)
             Finds(r) ==
               /\ p.diagnostics \subseteq r.diagnostics /\ p.folds \subseteq r.folds
               /\ \A c \in r.folds : c \in p.folds \/ c.disposition = "PASS"
               /\ r.step = "run" => r.result = 1
               /\ r.step = "result" => r.result = p.result /\ run.listed = "array" /\ run.results # <<>>
               /\ (r.step = "run" /\ run.listed = "array" /\ run.results # <<>>) => S!HasErrors(r.diagnostics)
  <1>1. /\ DOMAIN q = SarifFields /\ q.step = "run" /\ q.result = p.result /\ q.folds = p.folds
        /\ q.diagnostics = p.diagnostics \cup (S!ScopeWarnings(run) \cup S!ScopeErrors(run))
    BY DEF SarifFields, S!Diagnose, S!Invoked
  <1>2. S!Scoped(p, run, log) =
          IF S!ScopeErrors(run) # {} THEN On(q)
          ELSE CASE run.listed = "absent" -> On(S!Diagnose(q, {S!Warning("results_unknown")}))
                 [] run.listed = "other" -> On(S!Diagnose(q, {S!Error("invalid_run")}))
                 [] run.listed = "array" ->
                      IF run.results = <<>> THEN On(S!CleanRun(q, run, log))
                      ELSE [q EXCEPT !.step = IF Len(run.results) > MaxResults THEN "bound" ELSE "result"]
    BY Zenon DEF S!Scoped
  <1>3. S!ScopeErrors(run) # {} => S!HasErrors(q.diagnostics)
    <2>1. \A x \in S!ScopeErrors(run) : x.level = "ERROR"
      BY DEF S!ScopeErrors, S!Error, S!When
    <2> QED BY <1>1, <2>1, ErrorsAre
  <1> HIDE DEF q
  <1>4. ASSUME NEW r, Alike(q, r), \A c \in r.folds : c \in q.folds \/ c.disposition = "PASS",
               run.listed = "array" /\ run.results # <<>> => S!HasErrors(r.diagnostics)
        PROVE  Finds(On(r))
    BY <1>1, <1>4 DEF Alike, SarifFields, S!NextRun
  <1>5. CASE S!ScopeErrors(run) # {}
    BY <1>2, <1>3, <1>4, <1>5 DEF Alike
  <1>6. CASE S!ScopeErrors(run) = {} /\ run.listed # "array"
    <2>1. PICK d : S!Scoped(p, run, log) = On(S!Diagnose(q, d))
      BY <1>2, <1>6
    <2>2. Alike(q, S!Diagnose(q, d)) /\ S!Diagnose(q, d).folds = q.folds
      BY <1>1, DiagnoseIsAlike DEF S!Diagnose, SarifFields
    <2> QED BY <1>4, <1>6, <2>1, <2>2
  <1>7. CASE S!ScopeErrors(run) = {} /\ run.listed = "array" /\ run.results = <<>>
    <2>1. S!Scoped(p, run, log) = On(S!CleanRun(q, run, log))
      BY <1>2, <1>7
    <2>2. Alike(q, S!CleanRun(q, run, log))
      BY <1>1, CleanRunIsAlike
    <2>3. \A c \in S!CleanRun(q, run, log).folds : c \in q.folds \/ c.disposition = "PASS"
      BY <1>1, CleanRunAdds
    <2> QED BY <1>4, <1>7, <2>1, <2>2, <2>3
  <1>8. CASE S!ScopeErrors(run) = {} /\ run.listed = "array" /\ run.results # <<>>
    <2>1. PICK step \in {"bound", "result"} : S!Scoped(p, run, log) = [q EXCEPT !.step = step]
      BY <1>2, <1>8
    <2>2. Finds([q EXCEPT !.step = step])
      BY <1>1, <1>8 DEF SarifFields
    <2> QED BY <2>1, <2>2
  <1> QED BY <1>5, <1>6, <1>7, <1>8

\* The findings a result is due: one on each resource it names.
Due(run, result) == {S!Candidate(run, result, resource) : resource \in S!Resources(run, result)}

\* A result that is read adds all it is due, and what it adds can be ranked.
LEMMA ScannedFinds ==
  ASSUME NEW p, DOMAIN p = SarifFields, p.step = "result", NEW run, NEW result
  PROVE  LET q == S!Scanned(p, run, result) IN
         /\ q.step = "bound" \/ S!HasErrors(q.diagnostics) \/ Due(run, result) \subseteq q.folds
         /\ \A c \in q.folds : c \in p.folds \/ c.disposition \in DOMAIN S!SarifRank
  <1> DEFINE q == S!Diagnose(p, S!RuleErrors(run, result))
             read == S!Diagnose(q, S!ResultWarnings(run, result) \cup S!LocationErrors(result))
             folded == S!Fold(read, Due(run, result))
  <1>1. /\ DOMAIN q = SarifFields /\ q.folds = p.folds
        /\ q.diagnostics = p.diagnostics \cup S!RuleErrors(run, result)
        /\ DOMAIN read = SarifFields /\ read.folds = p.folds
        /\ read.diagnostics = q.diagnostics \cup (S!ResultWarnings(run, result) \cup S!LocationErrors(result))
    BY DEF SarifFields, S!Diagnose
  <1>2. S!Scanned(p, run, result) =
          IF S!RuleErrors(run, result) # {} THEN q
          ELSE IF Len(result.locations) > MaxLocations THEN [q EXCEPT !.step = "bound"]
          ELSE IF S!LocationErrors(result) # {} THEN read ELSE folded
    BY Zenon DEF S!Scanned, Due
  <1> HIDE DEF q, read
  <1>3. \A c \in Due(run, result) : c.disposition \in DOMAIN S!SarifRank
    <2>1. S!Disposition(result) \in DOMAIN S!SarifRank
      BY DEF S!Disposition, S!Dispositions, S!SarifRank
    <2>2. \A resource : S!Candidate(run, result, resource).disposition = S!Disposition(result)
      BY DEF S!Candidate
    <2> QED BY <2>1, <2>2 DEF Due
  <1>4. folded.folds \subseteq p.folds \cup Due(run, result)
        /\ (folded.step = "bound" \/ Due(run, result) \subseteq folded.folds)
    BY <1>1, FoldAdds
  <1> HIDE DEF folded
  <1>5. CASE S!RuleErrors(run, result) # {}
    <2>1. \A x \in S!RuleErrors(run, result) : x.level = "ERROR"
      BY DEF S!RuleErrors, S!Error, S!When
    <2> QED BY <1>1, <1>2, <1>5, <2>1, ErrorsAre
  <1>6. CASE S!RuleErrors(run, result) = {} /\ Len(result.locations) > MaxLocations
    <2>1. [q EXCEPT !.step = "bound"].step = "bound" /\ [q EXCEPT !.step = "bound"].folds = p.folds
      BY <1>1 DEF SarifFields
    <2> QED BY <1>2, <1>6, <2>1
  <1>7. CASE /\ S!RuleErrors(run, result) = {} /\ ~(Len(result.locations) > MaxLocations)
             /\ S!LocationErrors(result) # {}
    <2>1. \A x \in S!LocationErrors(result) : x.level = "ERROR"
      BY DEF S!LocationErrors, S!Error, S!When
    <2> QED BY <1>1, <1>2, <1>7, <2>1, ErrorsAre
  <1>8. CASE /\ S!RuleErrors(run, result) = {} /\ ~(Len(result.locations) > MaxLocations)
             /\ S!LocationErrors(result) = {}
    BY <1>2, <1>3, <1>4, <1>8
  <1> QED BY <1>5, <1>6, <1>7, <1>8

\* A result the walk has passed.
Passed(p, r, i) == r < p.run \/ (r = p.run /\ p.step = "result" /\ i < p.result)

Lists(run) == run.object /\ run.listed = "array"

\* While no error is found, every result passed has added all it was due; and the
\* results of a run are read one after the other.
Found(p) ==
  /\ \A c \in p.folds : c.disposition \in DOMAIN S!SarifRank
  /\ p.step = "run" => p.result = 1
  /\ p.step = "result" => Lists(doc.runs[p.run]) /\ p.result \in DOMAIN doc.runs[p.run].results
  /\ (p.step \in {"run", "result"} /\ ~S!HasErrors(p.diagnostics)) =>
       \A r \in DOMAIN doc.runs : Lists(doc.runs[r]) =>
         \A i \in DOMAIN doc.runs[r].results :
           Passed(p, r, i) => Due(doc.runs[r], doc.runs[r].results[i]) \subseteq p.folds

LEMMA StartFinds ==
  ASSUME LogListed(doc)
  PROVE  Found(S!SarifStart(doc))
  <1> DEFINE p == S!SarifStart(doc)
  <1>1. p.folds = {} /\ p.step \in {"run", "rejected"} /\ p.run = 1 /\ p.result = 1
    BY DEF S!SarifStart
  <1>2. DOMAIN doc.runs = 1 .. Len(doc.runs) /\ Len(doc.runs) \in Nat
    BY DEF LogListed, LogShaped, IsSequence
  <1> HIDE DEF p
  <1>3. \A r \in DOMAIN doc.runs : \A i : ~Passed(p, r, i)
    BY <1>1, <1>2 DEF Passed
  <1> QED BY <1>1, <1>3 DEF Found, p

LEMMA StepFinds ==
  ASSUME LogListed(doc), Kept(parse), Found(parse), S!SarifStep
  PROVE  Found(parse') /\ doc' = doc
  <1>0. Kept(parse') /\ doc' = doc /\ DOMAIN parse = SarifFields
    BY StepKeeps DEF LogListed, Kept
  <1>1. /\ DOMAIN doc.runs = 1 .. Len(doc.runs) /\ Len(doc.runs) \in Nat
        /\ \A k \in DOMAIN doc.runs : doc.runs[k].listed \in {"absent", "other", "array"}
        /\ \A k \in DOMAIN doc.runs : doc.runs[k].listed = "array" => IsSequence(doc.runs[k].results)
    <2>1. /\ IsSequence(doc.runs)
          /\ \A run \in Range(doc.runs) : run.listed \in {"absent", "other", "array"}
          /\ \A run \in Range(doc.runs) : run.listed = "array" => IsSequence(run.results)
      BY DEF LogListed, LogShaped
    <2>2. \A k \in DOMAIN doc.runs : doc.runs[k] \in Range(doc.runs)
      BY DEF Range
    <2>3. DOMAIN doc.runs = 1 .. Len(doc.runs) /\ Len(doc.runs) \in Nat
      BY <2>1 DEF IsSequence
    <2>4. ASSUME NEW k \in DOMAIN doc.runs
          PROVE  /\ doc.runs[k].listed \in {"absent", "other", "array"}
                 /\ doc.runs[k].listed = "array" => IsSequence(doc.runs[k].results)
      BY <2>1, <2>2
    <2> QED BY <2>3, <2>4
  <1>2. \A k \in DOMAIN doc.runs : doc.runs[k].listed = "array" =>
          /\ Len(doc.runs[k].results) \in Nat
          /\ DOMAIN doc.runs[k].results = 1 .. Len(doc.runs[k].results)
          /\ doc.runs[k].results # <<>> => 1 \in DOMAIN doc.runs[k].results
    BY <1>1 DEF IsSequence
  <1>3. CASE S!ScanRun
    <2> DEFINE k == parse.run
               run == doc.runs[k]
    <2>1. parse.step = "run" /\ k \in DOMAIN doc.runs /\ parse.result = 1
      BY <1>3 DEF S!ScanRun, S!InRuns, Found
    <2>2. /\ parse'.step = "run" => parse'.run = k + 1 /\ parse'.result = 1
          /\ parse'.step = "result" => parse'.run = k /\ parse'.result = 1 /\ Lists(run) /\ run.results # <<>>
          /\ parse.diagnostics \subseteq parse'.diagnostics /\ parse.folds \subseteq parse'.folds
          /\ \A c \in parse'.folds : c \in parse.folds \/ c.disposition = "PASS"
          /\ (parse'.step = "run" /\ Lists(run) /\ run.results # <<>>) => S!HasErrors(parse'.diagnostics)
      <3>1. CASE run.object
        <4>1. parse' = S!Scoped(parse, run, doc)
          BY <1>3, <3>1 DEF S!ScanRun, S!Run
        <4> HIDE DEF run
        <4>2. run.listed \in {"absent", "other", "array"}
          BY <1>1, <2>1 DEF run
        <4> QED BY <1>0, <2>1, <3>1, <4>1, <4>2, ScopedFinds, ScopedKeeps DEF Lists
      <3>2. CASE ~run.object
        <4> DEFINE q == S!Diagnose(parse, {S!Error("invalid_run")})
        <4>1. parse' = S!NextRun(q)
          BY <1>3, <3>2 DEF S!ScanRun, S!Run
        <4>2. Alike(parse, q) /\ q.step = "run" /\ q.folds = parse.folds
          BY <1>0, <2>1, DiagnoseIsAlike DEF S!Diagnose, SarifFields
        <4> HIDE DEF q
        <4> QED BY <1>0, <2>1, <3>2, <4>1, <4>2 DEF S!NextRun, Alike, SarifFields, Lists
      <3> QED BY <3>1, <3>2
    <2> HIDE DEF run
    <2>3. k \in Nat /\ \A r \in DOMAIN doc.runs : r < k + 1 <=> (r < k \/ r = k)
      BY <1>1, <2>1
    <2>4. ASSUME parse'.step \in {"run", "result"}, ~S!HasErrors(parse'.diagnostics),
                 NEW r \in DOMAIN doc.runs, Lists(doc.runs[r]),
                 NEW i \in DOMAIN doc.runs[r].results, Passed(parse', r, i)
          PROVE  Due(doc.runs[r], doc.runs[r].results[i]) \subseteq parse'.folds
      <3>1. ~S!HasErrors(parse.diagnostics)
        BY <2>2, <2>4, ErrorsStay
      <3>2. r < k
        <4>1. CASE parse'.step = "result"
          <5>1. r < k \/ (r = k /\ i < 1)
            BY <2>2, <2>4, <4>1 DEF Passed
          <5>2. i \in Nat /\ ~(i < 1)
            BY <1>2, <2>4 DEF Lists
          <5> QED BY <5>1, <5>2
        <4>2. CASE parse'.step = "run"
          <5>1. r < k \/ r = k
            BY <2>2, <2>3, <2>4, <4>2 DEF Passed
          <5>2. r # k
            <6> SUFFICES ASSUME r = k PROVE FALSE
              OBVIOUS
            <6>1. Lists(run) /\ run.results # <<>>
              BY <2>4 DEF run
            <6> QED BY <2>2, <2>4, <4>2, <6>1
          <5> QED BY <5>1, <5>2
        <4> QED BY <2>4, <4>1, <4>2
      <3>3. Passed(parse, r, i)
        BY <3>2 DEF Passed
      <3>4. Due(doc.runs[r], doc.runs[r].results[i]) \subseteq parse.folds
        BY <2>1, <2>4, <3>1, <3>3 DEF Found
      <3> QED BY <2>2, <3>4
    <2>5. \A c \in parse'.folds : c.disposition \in DOMAIN S!SarifRank
      <3>1. "PASS" \in DOMAIN S!SarifRank
        BY DEF S!SarifRank
      <3> QED BY <2>2, <3>1 DEF Found
    <2>6. parse'.step = "result" => Lists(doc.runs[parse'.run]) /\ parse'.result \in DOMAIN doc.runs[parse'.run].results
      BY <1>2, <2>1, <2>2 DEF run, Lists
    <2> QED BY <1>0, <2>2, <2>4, <2>5, <2>6 DEF Found
  <1>4. CASE S!ScanResult
    <2> DEFINE k == parse.run
               run == doc.runs[k]
               n == parse.result
               result == run.results[n]
               q == S!Scanned(parse, run, result)
    <2>1. parse.step = "result" /\ k \in DOMAIN doc.runs /\ Lists(run) /\ n \in DOMAIN run.results
      BY <1>4 DEF S!ScanResult, Found, Kept
    <2>2. \/ parse' = q /\ q.step = "bound"
          \/ n = Len(run.results) /\ parse' = [S!NextRun(q) EXCEPT !.step = "run"] /\ q.step # "bound"
          \/ n # Len(run.results) /\ parse' = [q EXCEPT !.result = @ + 1] /\ q.step # "bound"
      BY <1>4, Zenon DEF S!ScanResult, S!Run
    <2> HIDE DEF run, result
    <2>3. /\ Alike(parse, q)
          /\ q.step = "bound" \/ S!HasErrors(q.diagnostics) \/ Due(run, result) \subseteq q.folds
          /\ \A c \in q.folds : c \in parse.folds \/ c.disposition \in DOMAIN S!SarifRank
      BY <1>0, <2>1, ScannedIsAlike, ScannedFinds
    <2> HIDE DEF q
    <2>4. /\ parse'.diagnostics = q.diagnostics /\ parse'.folds = q.folds
          /\ parse.diagnostics \subseteq q.diagnostics /\ parse.folds \subseteq q.folds
          /\ parse'.step = "run" => parse'.run = k + 1 /\ parse'.result = 1 /\ n = Len(run.results)
          /\ parse'.step = "result" => parse'.run = k /\ parse'.result = n + 1 /\ n # Len(run.results)
          /\ parse'.step \in {"run", "result"} => q.step # "bound"
      <3>1. CASE parse' = q /\ q.step = "bound"
        BY <1>0, <2>1, <2>3, <3>1 DEF Alike
      <3>2. CASE n = Len(run.results) /\ parse' = [S!NextRun(q) EXCEPT !.step = "run"] /\ q.step # "bound"
        BY <1>0, <2>1, <2>3, <3>2 DEF Alike, SarifFields, S!NextRun
      <3>3. CASE n # Len(run.results) /\ parse' = [q EXCEPT !.result = @ + 1] /\ q.step # "bound"
        BY <1>0, <2>1, <2>3, <3>3 DEF Alike, SarifFields
      <3> QED BY <2>2, <3>1, <3>2, <3>3
    <2>5. /\ Len(run.results) \in Nat /\ DOMAIN run.results = 1 .. Len(run.results) /\ k \in Nat /\ n \in Nat
      BY <1>1, <1>2, <2>1 DEF run, Lists
    <2>6. ASSUME parse'.step \in {"run", "result"}, ~S!HasErrors(parse'.diagnostics),
                 NEW r \in DOMAIN doc.runs, Lists(doc.runs[r]),
                 NEW i \in DOMAIN doc.runs[r].results, Passed(parse', r, i)
          PROVE  Due(doc.runs[r], doc.runs[r].results[i]) \subseteq parse'.folds
      <3>1. ~S!HasErrors(parse.diagnostics)
        BY <2>4, <2>6, ErrorsStay
      <3>2. CASE r = k /\ i = n
        BY <2>3, <2>4, <2>6, <3>2 DEF run, result
      <3>3. CASE ~(r = k /\ i = n)
        <4>1. r \in Nat /\ i \in Nat /\ (r = k => i <= Len(run.results))
          BY <1>1, <1>2, <2>5, <2>6 DEF Lists, run
        <4>2. r < k \/ (r = k /\ i < n)
          <5>1. CASE parse'.step = "result"
            BY <2>4, <2>5, <2>6, <3>3, <4>1, <5>1 DEF Passed
          <5>2. CASE parse'.step = "run"
            <6>1. r < k + 1
              BY <2>4, <2>6, <5>2 DEF Passed
            <6> QED BY <2>4, <2>5, <3>3, <4>1, <5>2, <6>1
          <5> QED BY <2>6, <5>1, <5>2
        <4>3. Passed(parse, r, i)
          BY <2>1, <4>2 DEF Passed
        <4>4. Due(doc.runs[r], doc.runs[r].results[i]) \subseteq parse.folds
          BY <2>1, <2>6, <3>1, <4>3 DEF Found
        <4> QED BY <2>4, <4>4
      <3> QED BY <3>2, <3>3
    <2>7. \A c \in parse'.folds : c.disposition \in DOMAIN S!SarifRank
      BY <2>3, <2>4 DEF Found
    <2>8. parse'.step = "result" => Lists(doc.runs[parse'.run]) /\ parse'.result \in DOMAIN doc.runs[parse'.run].results
      <3>1. n \in 1 .. Len(run.results) /\ (n # Len(run.results) => n + 1 \in 1 .. Len(run.results))
        BY <2>1, <2>5
      <3> QED BY <2>1, <2>4, <2>5, <3>1 DEF run
    <2> QED BY <1>0, <2>4, <2>6, <2>7, <2>8 DEF Found
  <1> QED BY <1>0, <1>3, <1>4 DEF S!SarifStep

\* A log that was read: each result that reports a failure is open wherever it is.
LEMMA LogFindingsOpen ==
  ASSUME LogListed(doc), Kept(parse), Found(parse), S!SarifDone
  PROVE  S!FindingsRead
  <1> SUFFICES ASSUME parse.step = "run", ~S!HasErrors(parse.diagnostics \cup S!Unread(parse)),
                      NEW run \in S!Listed, NEW result \in S!Range(run.results), result.kind \in {S!None, "fail"},
                      NEW resource \in S!Resources(run, result)
               PROVE  \E o \in S!Observed : /\ o.key = S!Key(run, S!RecordId(run, result), resource)
                                            /\ o.disposition = "OPEN"
    BY DEF S!FindingsRead
  <1> DEFINE c == S!Candidate(run, result, resource)
             yield == S!Yield({b \in parse.folds : b.key = c.key})
  <1>1. /\ DOMAIN doc.runs = 1 .. Len(doc.runs) /\ Len(doc.runs) \in Nat
        /\ parse.run \in 1 .. Len(doc.runs) + 1 /\ parse.run \notin DOMAIN doc.runs
    BY DEF LogListed, LogShaped, IsSequence, Kept, S!SarifDone, S!InRuns
  <1>2. PICK r \in DOMAIN doc.runs : run = doc.runs[r] /\ Lists(run)
    BY DEF S!Listed, S!Range, Lists
  <1>3. PICK i \in DOMAIN run.results : result = run.results[i]
    BY DEF S!Range
  <1>4. ~S!HasErrors(parse.diagnostics)
    BY ErrorsStay
  <1>5. Passed(parse, r, i)
    BY <1>1 DEF Passed
  <1>6. c \in parse.folds
    BY <1>2, <1>3, <1>4, <1>5 DEF Found, Due
  <1>7. c.disposition = "OPEN" /\ ~c.clean /\ c.key = S!Key(run, S!RecordId(run, result), resource)
    BY DEF S!Candidate, S!Disposition, S!Dispositions
  <1> HIDE DEF c
  <1>8. c \in yield /\ yield \subseteq parse.folds
    BY <1>6, <1>7 DEF S!Yield
  <1> HIDE DEF yield
  <1>9. S!Highest({b.disposition : b \in yield}, S!SarifRank) = "OPEN"
    <2> DEFINE found == {b.disposition : b \in yield}
    <2>1. "OPEN" \in found /\ found \subseteq DOMAIN S!SarifRank
      BY <1>7, <1>8 DEF Found
    <2> HIDE DEF found
    <2>2. \A w \in found : S!SarifRank[w] <= S!SarifRank["OPEN"]
      BY <2>1 DEF S!SarifRank
    <2>3. \A v \in found : S!SarifRank["OPEN"] <= S!SarifRank[v] => v = "OPEN"
      BY <2>1 DEF S!SarifRank
    <2>4. S!Highest(found, S!SarifRank) \in found
          /\ \A w \in found : S!SarifRank[w] <= S!SarifRank[S!Highest(found, S!SarifRank)]
      BY <2>1, <2>2, Zenon DEF S!Highest
    <2>5. S!Highest(found, S!SarifRank) = "OPEN"
      BY <2>1, <2>3, <2>4
    <2> QED BY <2>5 DEF found
  <1>10. S!Assemble(c.key, parse.folds) \in S!Assembled(parse)
    BY <1>6 DEF S!Assembled
  <1>11. /\ S!Assemble(c.key, parse.folds).key = c.key
         /\ S!Assemble(c.key, parse.folds).disposition = "OPEN"
    BY <1>9 DEF S!Assemble, yield
  <1>12. S!Observed = S!Assembled(parse)
    BY DEF S!Observed, S!SarifOutput, S!Reading
  <1> QED BY <1>7, <1>10, <1>11, <1>12

-----------------------------------------------------------------------------
(* The walk of an HDF document: the profiles, and the roots they hang under. *)

HdfFields ==
  {"step", "at", "indexed", "refused", "chain", "roots", "depths", "control", "folds", "diagnostics"}

\* A document of profiles, each of controls, whose contents are in an order.
HdfShaped(document) ==
  /\ IsSequence(document.profiles)
  /\ \A profile \in Range(document.profiles) : profile.object /\ profile.array =>
       /\ IsSequence(profile.controls)
       /\ \A control \in Range(profile.controls) : control.object => control.title \in Nat

\* The profiles that could be named, each once; one that could not is an error.
Profiled(p) ==
  /\ DOMAIN p = HdfFields
  /\ IsSequence(p.indexed)
  /\ \A i \in DOMAIN p.indexed :
       /\ p.indexed[i] \in Range(doc.profiles) /\ p.indexed[i].object
       /\ p.indexed[i].name # None
  /\ \A i, j \in DOMAIN p.indexed : p.indexed[i].name = p.indexed[j].name => i = j
  /\ p.refused # {} => H!HasErrors(p.diagnostics)

Parent(p, name) == H!Named(p, name).parent

\* A profile a walk has passed is a root, or has the root of its parent and one
\* step more; or it has none, and its parent has none or is no profile.
RootedBy(p, name) ==
  \/ Parent(p, name) = None /\ p.roots[name] = name /\ p.depths[name] = 0
  \/ /\ Parent(p, name) \in DOMAIN p.roots /\ p.roots[name] = p.roots[Parent(p, name)]
     /\ p.roots[name] # None => p.depths[name] = p.depths[Parent(p, name)] + 1
  \/ Parent(p, name) \notin H!Names(p) \cup {None} /\ p.roots[name] = None

Placed(p) ==
  /\ DOMAIN p.depths = DOMAIN p.roots /\ DOMAIN p.roots \subseteq H!Names(p)
  /\ \A name \in DOMAIN p.roots : p.depths[name] \in Nat /\ RootedBy(p, name)
  /\ (\E name \in DOMAIN p.roots : p.roots[name] = None) => H!HasErrors(p.diagnostics)

\* A walk under way goes from its profile to the parent of the last it passed, and
\* passes none twice.
Chained(p) ==
  /\ IsSequence(p.chain)
  /\ \A i \in DOMAIN p.chain : p.chain[i] \in H!Names(p) \ DOMAIN p.roots
  /\ \A i, j \in DOMAIN p.chain : p.chain[i] = p.chain[j] => i = j
  /\ \A i \in DOMAIN p.chain : i + 1 \in DOMAIN p.chain => p.chain[i + 1] = Parent(p, p.chain[i])
  /\ p.chain # <<>> => p.at \in DOMAIN p.indexed /\ p.chain[1] = p.indexed[p.at].name

LEMMA NamedIs ==
  ASSUME NEW p, Profiled(p)
  PROVE  /\ H!Names(p) = {p.indexed[i].name : i \in DOMAIN p.indexed}
         /\ None \notin H!Names(p)
         /\ \A i \in DOMAIN p.indexed : H!Named(p, p.indexed[i].name) = p.indexed[i]
         /\ \A name \in H!Names(p) : \E i \in DOMAIN p.indexed :
              name = p.indexed[i].name /\ H!Named(p, name) = p.indexed[i]
  <1>1. H!Names(p) = {p.indexed[i].name : i \in DOMAIN p.indexed}
    BY DEF H!Names, H!Range
  <1>2. ASSUME NEW i \in DOMAIN p.indexed PROVE H!Named(p, p.indexed[i].name) = p.indexed[i]
    <2>1. \A profile \in H!Range(p.indexed) : profile.name = p.indexed[i].name => profile = p.indexed[i]
      BY DEF H!Range, Profiled
    <2>2. p.indexed[i] \in H!Range(p.indexed)
      BY DEF H!Range
    <2> QED BY <2>1, <2>2 DEF H!Named
  <1> QED BY <1>1, <1>2 DEF Profiled

\* What a walk that has ended makes of the profiles it passed.
LEMMA RootedAdds ==
  ASSUME NEW p, DOMAIN p = HdfFields, NEW root, NEW base, IsSequence(p.chain),
         DOMAIN p.depths = DOMAIN p.roots,
         \A i \in DOMAIN p.chain : p.chain[i] \notin DOMAIN p.roots,
         \A i, j \in DOMAIN p.chain : p.chain[i] = p.chain[j] => i = j
  PROVE  LET q == H!Rooted(p, root, base) IN
         /\ DOMAIN q = HdfFields
         /\ q.step = p.step /\ q.at = p.at /\ q.indexed = p.indexed /\ q.refused = p.refused
         /\ q.control = p.control /\ q.folds = p.folds /\ q.diagnostics = p.diagnostics
         /\ q.chain = <<>>
         /\ DOMAIN q.roots = DOMAIN p.roots \cup Range(p.chain) /\ DOMAIN q.depths = DOMAIN q.roots
         /\ \A name \in DOMAIN p.roots : q.roots[name] = p.roots[name] /\ q.depths[name] = p.depths[name]
         /\ \A i \in DOMAIN p.chain :
              q.roots[p.chain[i]] = root /\ q.depths[p.chain[i]] = base + Len(p.chain) - i + 1
  <1> DEFINE known == DOMAIN p.roots \cup H!Range(p.chain)
             Place(name) == CHOOSE i \in DOMAIN p.chain : p.chain[i] = name
             roots == [name \in known |-> IF name \in H!Range(p.chain) THEN root ELSE p.roots[name]]
             depths == [name \in known |-> IF name \in H!Range(p.chain)
                                           THEN base + Len(p.chain) - Place(name) + 1 ELSE p.depths[name]]
  <1>1. /\ H!Rooted(p, root, base).roots = roots /\ H!Rooted(p, root, base).depths = depths
        /\ H!Rooted(p, root, base).chain = <<>>
    BY DEF H!Rooted, HdfFields
  <1>2. LET q == H!Rooted(p, root, base) IN
        /\ DOMAIN q = HdfFields
        /\ q.step = p.step /\ q.at = p.at /\ q.indexed = p.indexed /\ q.refused = p.refused
        /\ q.control = p.control /\ q.folds = p.folds /\ q.diagnostics = p.diagnostics
    BY DEF H!Rooted, HdfFields
  <1>3. H!Range(p.chain) = Range(p.chain) /\ Range(p.chain) = {p.chain[i] : i \in DOMAIN p.chain}
    BY DEF H!Range, Range
  <1>4. \A i \in DOMAIN p.chain : Place(p.chain[i]) = i
    OBVIOUS
  <1> HIDE DEF Place
  <1>5. /\ DOMAIN roots = DOMAIN p.roots \cup Range(p.chain) /\ DOMAIN depths = DOMAIN roots
        /\ \A name \in DOMAIN p.roots : roots[name] = p.roots[name] /\ depths[name] = p.depths[name]
        /\ \A i \in DOMAIN p.chain :
             roots[p.chain[i]] = root /\ depths[p.chain[i]] = base + Len(p.chain) - i + 1
    BY <1>3, <1>4
  <1> HIDE DEF roots, depths
  <1> QED BY <1>1, <1>2, <1>5

\* A walk that ends where the rules of _root_of say leaves every profile placed.
LEMMA RootedPlaces ==
  ASSUME NEW p, Profiled(p), Placed(p), Chained(p), NEW root, NEW base,
         LET link == H!Link(p) IN
           \/ link \in DOMAIN p.roots /\ root = p.roots[link] /\ base = p.depths[link]
           \/ p.chain # <<>> /\ link = None /\ root = H!Reached(p) /\ base = -1
           \/ /\ p.chain # <<>> /\ link # None /\ link \notin DOMAIN p.roots
              /\ link \notin H!Names(p) \/ link \in Range(p.chain)
              /\ root = None /\ base = 0 /\ H!HasErrors(p.diagnostics)
  PROVE  Placed(H!Rooted(p, root, base)) /\ Chained(H!Rooted(p, root, base)) /\ Profiled(H!Rooted(p, root, base))
  <1> DEFINE q == H!Rooted(p, root, base)
             n == Len(p.chain)
  <1>0. /\ DOMAIN p = HdfFields /\ IsSequence(p.chain) /\ DOMAIN p.depths = DOMAIN p.roots
        /\ \A i \in DOMAIN p.chain : p.chain[i] \notin DOMAIN p.roots
        /\ \A i, j \in DOMAIN p.chain : p.chain[i] = p.chain[j] => i = j
    BY DEF Profiled, Placed, Chained
  <1>1. /\ DOMAIN q = HdfFields
        /\ q.step = p.step /\ q.at = p.at /\ q.indexed = p.indexed /\ q.refused = p.refused
        /\ q.control = p.control /\ q.folds = p.folds /\ q.diagnostics = p.diagnostics
        /\ q.chain = <<>>
        /\ DOMAIN q.roots = DOMAIN p.roots \cup Range(p.chain) /\ DOMAIN q.depths = DOMAIN q.roots
        /\ \A name \in DOMAIN p.roots : q.roots[name] = p.roots[name] /\ q.depths[name] = p.depths[name]
        /\ \A i \in DOMAIN p.chain :
             q.roots[p.chain[i]] = root /\ q.depths[p.chain[i]] = base + n - i + 1
    BY <1>0, RootedAdds
  <1> HIDE DEF q
  <1>2. H!Names(q) = H!Names(p) /\ \A name : Parent(q, name) = Parent(p, name)
    BY <1>1 DEF H!Names, H!Named, Parent
  <1>3. Profiled(q)
    BY <1>1 DEF Profiled
  <1>4. Chained(q)
    <2>1. <<>> \in Seq({}) /\ DOMAIN <<>> = {}
      OBVIOUS
    <2>2. IsSequence(q.chain) /\ DOMAIN q.chain = {}
      BY <1>1, <2>1, SequenceIs
    <2> QED BY <1>1, <2>2 DEF Chained
  <1>5. n \in Nat /\ DOMAIN p.chain = 1 .. n
    BY DEF Chained, IsSequence
  <1>6. Range(p.chain) = {p.chain[i] : i \in DOMAIN p.chain} /\ Range(p.chain) \subseteq H!Names(p)
    BY DEF Range, Chained
  <1>7. None \notin H!Names(p)
    BY NamedIs
  <1>8. base \in Int /\ base >= -1 /\ (base = -1 => root # None)
    <2>1. \A name \in DOMAIN p.roots : p.depths[name] \in Nat
      BY DEF Placed
    <2>2. p.chain # <<>> => H!Reached(p) \in H!Names(p)
      BY <1>5 DEF H!Reached, Chained
    <2> QED BY <1>7, <2>1, <2>2
  <1>9. ASSUME NEW name \in DOMAIN p.roots PROVE q.depths[name] \in Nat /\ RootedBy(q, name)
    <2>1. p.depths[name] \in Nat /\ RootedBy(p, name)
      BY DEF Placed
    <2> QED BY <1>1, <1>2, <2>1 DEF RootedBy
  <1>10. ASSUME NEW i \in DOMAIN p.chain
         PROVE  q.depths[p.chain[i]] \in Nat /\ RootedBy(q, p.chain[i])
    <2>1. q.roots[p.chain[i]] = root /\ q.depths[p.chain[i]] = base + n - i + 1
      BY <1>1
    <2>2. q.depths[p.chain[i]] \in Nat
      BY <1>5, <1>8, <2>1
    <2>3. CASE i # n
      <3> DEFINE Depth(k) == base + n - k + 1
      <3>0. q.depths[p.chain[i]] = Depth(i)
        BY <2>1
      <3>1. i + 1 \in DOMAIN p.chain /\ Parent(p, p.chain[i]) = p.chain[i + 1]
        BY <1>5, <2>3 DEF Chained
      <3>2. q.roots[p.chain[i + 1]] = root /\ q.depths[p.chain[i + 1]] = Depth(i + 1)
        BY <1>1, <3>1
      <3>3. p.chain[i + 1] \in DOMAIN q.roots
        BY <1>1, <1>6, <3>1
      <3>4. q.depths[p.chain[i]] = q.depths[p.chain[i + 1]] + 1
        <4>1. i \in Int /\ n \in Int /\ base \in Int
          BY <1>5, <1>8
        <4>2. \A a, b, c \in Int : a + b - c + 1 = a + b - (c + 1) + 1 + 1
          OBVIOUS
        <4>3. Depth(i) = Depth(i + 1) + 1
          BY <4>1, <4>2, Zenon
        <4> HIDE DEF Depth
        <4> QED BY <3>0, <3>2, <4>3
      <3> QED BY <1>2, <2>1, <2>2, <3>1, <3>2, <3>3, <3>4 DEF RootedBy
    <2>4. CASE i = n
      <3>1. p.chain # <<>> /\ H!Link(p) = Parent(p, p.chain[n]) /\ H!Reached(p) = p.chain[n]
        BY <1>5, <2>4 DEF H!Link, H!Reached, Parent
      <3>2. q.depths[p.chain[n]] = base + 1
        BY <1>5, <1>8, <2>1, <2>4
      <3>3. CASE H!Link(p) \in DOMAIN p.roots /\ root = p.roots[H!Link(p)] /\ base = p.depths[H!Link(p)]
        <4>1. H!Link(p) \in DOMAIN q.roots /\ q.roots[H!Link(p)] = root /\ q.depths[H!Link(p)] = base
          BY <1>1, <3>3
        <4> QED BY <1>2, <2>1, <2>2, <2>4, <3>1, <3>2, <4>1 DEF RootedBy
      <3>4. CASE H!Link(p) = None /\ root = H!Reached(p) /\ base = -1
        <4>1. base + 1 = 0
          BY <3>4
        <4>2. q.depths[p.chain[i]] = 0
          BY <2>4, <3>2, <4>1
        <4>3. q.roots[p.chain[i]] = p.chain[i] /\ Parent(q, p.chain[i]) = None
          BY <1>2, <2>1, <2>4, <3>1, <3>4
        <4> QED BY <2>2, <4>2, <4>3 DEF RootedBy
      <3>5. CASE /\ H!Link(p) # None /\ root = None
                 /\ H!Link(p) \notin H!Names(p) \/ H!Link(p) \in Range(p.chain)
        <4>1. CASE H!Link(p) \in Range(p.chain)
          <5>1. PICK j \in DOMAIN p.chain : H!Link(p) = p.chain[j]
            BY <1>6, <4>1
          <5>2. H!Link(p) \in DOMAIN q.roots /\ q.roots[H!Link(p)] = None
            BY <1>1, <1>6, <3>5, <4>1, <5>1
          <5> QED BY <1>2, <2>1, <2>2, <2>4, <3>1, <3>5, <5>2 DEF RootedBy
        <4>2. CASE H!Link(p) \notin H!Names(p)
          BY <1>2, <2>1, <2>2, <2>4, <3>1, <3>5, <4>2 DEF RootedBy
        <4> QED BY <3>5, <4>1, <4>2
      <3> QED BY <3>1, <3>3, <3>4, <3>5
    <2> QED BY <2>3, <2>4
  <1>11. \A name \in DOMAIN q.roots : q.depths[name] \in Nat /\ RootedBy(q, name)
    BY <1>1, <1>6, <1>9, <1>10
  <1>12. (\E name \in DOMAIN q.roots : q.roots[name] = None) => H!HasErrors(q.diagnostics)
    <2> SUFFICES ASSUME NEW name \in DOMAIN q.roots, q.roots[name] = None
                 PROVE  H!HasErrors(p.diagnostics)
      BY <1>1
    <2>1. CASE name \in DOMAIN p.roots
      BY <1>1, <2>1 DEF Placed
    <2>2. CASE name \in Range(p.chain)
      <3>1. root = None
        BY <1>1, <1>6, <2>2
      <3>2. H!Reached(p) # None
        BY <1>5, <1>6, <1>7, <2>2 DEF H!Reached
      <3> QED BY <3>1, <3>2 DEF Placed
    <2> QED BY <1>1, <2>1, <2>2
  <1>13. Placed(q)
    BY <1>1, <1>2, <1>6, <1>11, <1>12 DEF Placed
  <1> QED BY <1>3, <1>4, <1>13 DEF q

\* One link more of a walk.
LEMMA ClimbChains ==
  ASSUME NEW p, Profiled(p), Placed(p), Chained(p), p.at \in DOMAIN p.indexed, H!Climbing(p)
  PROVE  LET q == [p EXCEPT !.chain = Append(@, H!Link(p))] IN Profiled(q) /\ Placed(q) /\ Chained(q)
  <1> DEFINE link == H!Link(p)
             q == [p EXCEPT !.chain = Append(@, link)]
             n == Len(p.chain)
  <1>1. link \in H!Names(p) /\ link \notin DOMAIN p.roots /\ link \notin Range(p.chain)
    BY DEF H!Climbing, Range, H!Range
  <1>2. /\ DOMAIN q = HdfFields /\ q.chain = Append(p.chain, link)
        /\ q.step = p.step /\ q.at = p.at /\ q.indexed = p.indexed /\ q.refused = p.refused
        /\ q.roots = p.roots /\ q.depths = p.depths /\ q.diagnostics = p.diagnostics
    BY DEF HdfFields, Profiled
  <1> HIDE DEF q
  <1>3. H!Names(q) = H!Names(p) /\ \A name : Parent(q, name) = Parent(p, name)
    BY <1>2 DEF H!Names, H!Named, Parent
  <1>4. Profiled(q) /\ Placed(q)
    <2>1. \A name : RootedBy(p, name) => RootedBy(q, name)
      BY <1>2, <1>3 DEF RootedBy
    <2> QED BY <1>2, <1>3, <2>1 DEF Profiled, Placed
  <1>5. /\ p.chain \in Seq(Range(p.chain)) /\ n \in Nat /\ DOMAIN p.chain = 1 .. n
        /\ Range(p.chain) = {p.chain[i] : i \in DOMAIN p.chain}
    BY DEF Chained, IsSequence, Range
  <1>6. IF p.chain = <<>> THEN link = p.indexed[p.at].name ELSE link = Parent(p, p.chain[n])
    BY DEF H!Link, H!Reached, Parent
  <1> HIDE DEF link
  <1>7. /\ q.chain \in Seq(Range(p.chain) \cup {link}) /\ DOMAIN q.chain = 1 .. n + 1
        /\ \A i \in DOMAIN p.chain : q.chain[i] = p.chain[i]
        /\ q.chain[n + 1] = link
    BY <1>2, <1>5, Appending
  <1>8. IsSequence(q.chain)
    BY <1>7, SequenceIs
  <1>9. \A i \in DOMAIN q.chain : i \in DOMAIN p.chain \/ i = n + 1
    BY <1>5, <1>7
  <1>10. \A i \in DOMAIN q.chain : q.chain[i] \in H!Names(q) \ DOMAIN q.roots
    BY <1>1, <1>2, <1>3, <1>7, <1>9 DEF Chained
  <1>11. ASSUME NEW i \in DOMAIN q.chain, NEW j \in DOMAIN q.chain, q.chain[i] = q.chain[j]
         PROVE  i = j
    <2>1. \A k \in DOMAIN p.chain : q.chain[k] = p.chain[k] /\ q.chain[k] # link
      BY <1>1, <1>5, <1>7
    <2>2. CASE i \in DOMAIN p.chain /\ j \in DOMAIN p.chain
      BY <1>11, <2>1, <2>2 DEF Chained
    <2> QED BY <1>7, <1>9, <1>11, <2>1, <2>2
  <1>12. ASSUME NEW i \in DOMAIN q.chain, i + 1 \in DOMAIN q.chain
         PROVE  q.chain[i + 1] = Parent(q, q.chain[i])
    <2>1. CASE i = n
      <3>1. p.chain # <<>> /\ i \in DOMAIN p.chain
        BY <1>5, <1>7, <1>12, <2>1
      <3> QED BY <1>3, <1>6, <1>7, <2>1, <3>1
    <2>2. CASE i # n
      <3>1. i \in DOMAIN p.chain /\ i + 1 \in DOMAIN p.chain
        BY <1>5, <1>7, <1>12, <2>2
      <3>2. p.chain[i + 1] = Parent(p, p.chain[i])
        BY <3>1 DEF Chained
      <3> QED BY <1>3, <1>7, <3>1, <3>2
    <2> QED BY <2>1, <2>2
  <1>13. q.at \in DOMAIN q.indexed /\ q.chain[1] = q.indexed[q.at].name
    <2>1. CASE p.chain = <<>>
      <3>1. n = 0
        BY <2>1
      <3> QED BY <1>2, <1>6, <1>7, <2>1, <3>1
    <2>2. CASE p.chain # <<>>
      <3>1. 1 \in DOMAIN p.chain
        BY <1>5, <2>2
      <3> QED BY <1>2, <1>7, <2>2, <3>1 DEF Chained
    <2> QED BY <2>1, <2>2
  <1>14. Chained(q)
    BY <1>8, <1>10, <1>11, <1>12, <1>13 DEF Chained
  <1> QED BY <1>4, <1>14 DEF q, link

\* A walk that has ended, whichever way it did.
LEMMA TracedPlaces ==
  ASSUME NEW p, Profiled(p), Placed(p), Chained(p), p.at \in DOMAIN p.indexed, ~H!Climbing(p)
  PROVE  LET q == H!Traced(p) IN
         /\ Profiled(q) /\ Placed(q) /\ Chained(q) /\ q.chain = <<>>
         /\ q.step = p.step /\ q.at = p.at /\ q.indexed = p.indexed
         /\ q.control = p.control /\ q.folds = p.folds /\ p.diagnostics \subseteq q.diagnostics
         /\ p.indexed[p.at].name \in DOMAIN q.roots
         /\ DOMAIN p.roots \subseteq DOMAIN q.roots
         /\ \A name \in DOMAIN p.roots : q.roots[name] = p.roots[name] /\ q.depths[name] = p.depths[name]
  <1> DEFINE link == H!Link(p)
             name == p.indexed[p.at].name
             more == H!When(link \notin p.refused, H!Error("invalid_profile"))
             noted == H!Noted(p, more)
             Ends(r, root, base) ==
               LET q == H!Rooted(r, root, base) IN
               /\ Profiled(q) /\ Placed(q) /\ Chained(q) /\ q.chain = <<>>
               /\ q.step = p.step /\ q.at = p.at /\ q.indexed = p.indexed
               /\ q.control = p.control /\ q.folds = p.folds /\ p.diagnostics \subseteq q.diagnostics
               /\ name \in DOMAIN q.roots
               /\ DOMAIN p.roots \subseteq DOMAIN q.roots
               /\ \A other \in DOMAIN p.roots : q.roots[other] = p.roots[other] /\ q.depths[other] = p.depths[other]
  <1>1. H!Traced(p) = IF link \in DOMAIN p.roots THEN H!Rooted(p, p.roots[link], p.depths[link])
                      ELSE IF link = None THEN H!Rooted(p, H!Reached(p), -1)
                      ELSE H!Rooted(noted, None, 0)
    BY DEF H!Traced, H!None, None
  <1>2. name \in H!Names(p) /\ None \notin H!Names(p)
    BY NamedIs
  <1>3. p.chain = <<>> => link = name
    BY DEF H!Link
  <1>4. link \notin H!Names(p) \ (DOMAIN p.roots \cup Range(p.chain))
    BY DEF H!Climbing, H!Range, Range
  <1>5. p.chain = <<>> => link \in DOMAIN p.roots
    <2>1. p.chain = <<>> => Range(p.chain) = {}
      BY DEF Range
    <2> QED BY <1>2, <1>3, <1>4, <2>1
  <1>6. name \in DOMAIN p.roots \/ name \in Range(p.chain)
    <2>1. CASE p.chain = <<>>
      BY <1>3, <1>5, <2>1
    <2>2. CASE p.chain # <<>>
      <3>1. DOMAIN p.chain = 1 .. Len(p.chain) /\ Len(p.chain) \in Nat /\ 1 \in DOMAIN p.chain
        BY <2>2 DEF Chained, IsSequence
      <3> QED BY <2>2, <3>1 DEF Chained, Range
    <2> QED BY <2>1, <2>2
  <1>7. /\ DOMAIN noted = HdfFields /\ noted.diagnostics = p.diagnostics \cup more
        /\ noted.step = p.step /\ noted.at = p.at /\ noted.indexed = p.indexed
        /\ noted.refused = p.refused /\ noted.chain = p.chain /\ noted.roots = p.roots
        /\ noted.depths = p.depths /\ noted.control = p.control /\ noted.folds = p.folds
    BY DEF H!Noted, HdfFields, Profiled
  <1>8. H!HasErrors(p.diagnostics \cup more)
    <2>1. CASE link \in p.refused
      BY <2>1, ErrorsStay DEF Profiled
    <2>2. CASE link \notin p.refused
      <3>1. H!Error("invalid_profile") \in more /\ H!Error("invalid_profile").level = "ERROR"
        BY <2>2 DEF H!When, H!Error
      <3> HIDE DEF more
      <3> QED BY <3>1, ErrorsAre
    <2> QED BY <2>1, <2>2
  <1> HIDE DEF more, noted
  <1>9. /\ Profiled(noted) /\ Placed(noted) /\ Chained(noted) /\ H!Link(noted) = link
        /\ H!Names(noted) = H!Names(p)
    <2>1. H!Names(noted) = H!Names(p) /\ \A other : Parent(noted, other) = Parent(p, other)
      BY <1>7 DEF H!Names, H!Named, Parent
    <2>2. \A other : RootedBy(p, other) => RootedBy(noted, other)
      BY <1>7, <2>1 DEF RootedBy
    <2>3. H!Link(noted) = link
      BY <1>7 DEF H!Link, H!Named, H!Reached
    <2>4. Profiled(noted)
      BY <1>7, <1>8 DEF Profiled
    <2>5. Placed(noted)
      BY <1>7, <1>8, <2>1, <2>2 DEF Placed
    <2>6. Chained(noted)
      BY <1>7, <2>1 DEF Chained
    <2> QED BY <2>1, <2>3, <2>4, <2>5, <2>6
  <1> HIDE DEF link, name
  <1>10. ASSUME NEW r \in {p, noted}, NEW root, NEW base,
                LET l == H!Link(r) IN
                \/ l \in DOMAIN r.roots /\ root = r.roots[l] /\ base = r.depths[l]
                \/ r.chain # <<>> /\ l = None /\ root = H!Reached(r) /\ base = -1
                \/ /\ r.chain # <<>> /\ l # None /\ l \notin DOMAIN r.roots
                   /\ l \notin H!Names(r) \/ l \in Range(r.chain)
                   /\ root = None /\ base = 0 /\ H!HasErrors(r.diagnostics)
         PROVE  Ends(r, root, base)
    <2>1. /\ Profiled(r) /\ Placed(r) /\ Chained(r)
          /\ r.step = p.step /\ r.at = p.at /\ r.indexed = p.indexed /\ r.chain = p.chain
          /\ r.roots = p.roots /\ r.depths = p.depths /\ r.control = p.control /\ r.folds = p.folds
          /\ p.diagnostics \subseteq r.diagnostics
      BY <1>7, <1>9
    <2>2. /\ DOMAIN r = HdfFields /\ IsSequence(r.chain) /\ DOMAIN r.depths = DOMAIN r.roots
          /\ \A i \in DOMAIN r.chain : r.chain[i] \notin DOMAIN r.roots
          /\ \A i, j \in DOMAIN r.chain : r.chain[i] = r.chain[j] => i = j
      BY <2>1 DEF Profiled, Placed, Chained
    <2> DEFINE q == H!Rooted(r, root, base)
    <2>3. Placed(q) /\ Chained(q) /\ Profiled(q)
      BY <1>10, <2>1, RootedPlaces
    <2>4. /\ q.step = r.step /\ q.at = r.at /\ q.indexed = r.indexed
          /\ q.control = r.control /\ q.folds = r.folds /\ q.diagnostics = r.diagnostics
          /\ q.chain = <<>> /\ DOMAIN q.roots = DOMAIN r.roots \cup Range(r.chain)
          /\ \A other \in DOMAIN r.roots : q.roots[other] = r.roots[other] /\ q.depths[other] = r.depths[other]
      BY <2>2, RootedAdds
    <2> HIDE DEF q
    <2>5. name \in DOMAIN q.roots
      BY <1>6, <2>1, <2>4
    <2> QED BY <2>1, <2>3, <2>4, <2>5 DEF q
  <1>11. CASE link \in DOMAIN p.roots
    <2>1. Ends(p, p.roots[link], p.depths[link])
      BY <1>10, <1>11 DEF link
    <2> QED BY <1>1, <1>11, <2>1 DEF name
  <1>12. CASE link \notin DOMAIN p.roots /\ link = None
    <2>1. p.chain # <<>> /\ H!Link(p) = None
      BY <1>5, <1>12 DEF link
    <2> HIDE DEF Ends
    <2>2. Ends(p, H!Reached(p), -1)
      BY <1>10, <2>1
    <2> USE DEF Ends
    <2> QED BY <1>1, <1>12, <2>2 DEF name
  <1>13. CASE link \notin DOMAIN p.roots /\ link # None
    <2>1. /\ noted.chain # <<>> /\ H!Link(noted) # None /\ H!Link(noted) \notin DOMAIN noted.roots
          /\ H!Link(noted) \notin H!Names(noted) \/ H!Link(noted) \in Range(noted.chain)
          /\ H!HasErrors(noted.diagnostics)
      BY <1>4, <1>5, <1>7, <1>8, <1>9, <1>13
    <2> HIDE DEF Ends
    <2>2. Ends(noted, None, 0)
      BY <1>10, <2>1
    <2> USE DEF Ends
    <2> QED BY <1>1, <1>13, <2>2 DEF name
  <1> QED BY <1>11, <1>12, <1>13

-----------------------------------------------------------------------------
(* The walk of an HDF document: the controls of the profiles it has passed. *)

\* A control the walk has passed.
Past(p, k, i) == k < p.at \/ (k = p.at /\ i < p.control)

\* The candidate a control is due, under the root of its profile and at its depth.
Copy(p, profile, control) ==
  H!ControlCandidate(H!HdfKey(doc, p.roots[profile.name], control), p.depths[profile.name], control)

Told(p, profile, control) ==
  Copy(p, profile, control) \in p.folds /\ H!ReadResults(control) = H!Range(control.results)

CopyFields ==
  {"key", "depth", "title", "has_results", "disposition", "source", "severity", "at", "waiver",
   "attestation", "attested"}

\* Every choice among what is folded can be made.
Rolled(p) ==
  \A c \in p.folds :
    /\ DOMAIN c = CopyFields
    /\ c.disposition \in DOMAIN H!HdfRank /\ c.depth \in Nat /\ c.title \in Nat

\* The profiles passed are placed, the controls read are of one that has a root; and
\* while no error is found, every control passed is told of.
ReadIn(p) ==
  /\ p.at \in 1 .. Len(p.indexed) + 1
  /\ \A k \in DOMAIN p.indexed : k < p.at => p.indexed[k].name \in DOMAIN p.roots
  /\ p.control # 0 =>
       LET profile == p.indexed[p.at] IN
       /\ p.at \in DOMAIN p.indexed /\ p.chain = <<>> /\ profile.name \in DOMAIN p.roots
       /\ profile.array /\ p.control \in DOMAIN profile.controls
  /\ ~H!HasErrors(p.diagnostics) =>
       \A k \in DOMAIN p.indexed :
         LET profile == p.indexed[k] IN
         /\ k < p.at => profile.array
         /\ profile.array => \A i \in DOMAIN profile.controls :
              Past(p, k, i) => Told(p, profile, profile.controls[i])

HdfKept(p) ==
  /\ p.step = "index" =>
       /\ Profiled(p) /\ p.at \in DOMAIN doc.profiles
       /\ p.chain = <<>> /\ p.roots = <<>> /\ p.depths = <<>> /\ p.control = 0 /\ p.folds = {}
  /\ p.step = "scan" => Profiled(p) /\ Placed(p) /\ Chained(p) /\ Rolled(p) /\ ReadIn(p)

LEMMA HdfStartKeeps ==
  ASSUME HdfShaped(doc)
  PROVE  HdfKept(H!HdfStart(doc))
  <1> DEFINE p == H!HdfStart(doc)
  <1>1. /\ DOMAIN p = HdfFields /\ p.step \in {"rejected", "bound", "done", "index"}
        /\ p.step = "index" => doc.profiles # <<>>
        /\ p.at = 1 /\ p.indexed = <<>> /\ p.refused = {} /\ p.chain = <<>> /\ p.roots = <<>>
        /\ p.depths = <<>> /\ p.control = 0 /\ p.folds = {}
    BY DEF H!HdfStart, HdfFields
  <1>2. DOMAIN doc.profiles = 1 .. Len(doc.profiles) /\ Len(doc.profiles) \in Nat
    BY DEF HdfShaped, IsSequence
  <1> HIDE DEF p
  <1>3. p.step = "index" => 1 \in DOMAIN doc.profiles
    BY <1>1, <1>2 DEF HdfShaped, IsSequence
  <1>4. <<>> \in Seq({}) /\ DOMAIN <<>> = {}
    OBVIOUS
  <1>5. IsSequence(p.indexed) /\ DOMAIN p.indexed = {}
    BY <1>1, <1>4, SequenceIs
  <1>6. Profiled(p)
    BY <1>1, <1>5 DEF Profiled
  <1> QED BY <1>1, <1>3, <1>6 DEF HdfKept, p

\* One profile more is indexed, or is an error.
LEMMA IndexedProfiles ==
  ASSUME NEW p, Profiled(p), NEW profile \in Range(doc.profiles)
  PROVE  LET q == H!Indexed(p, profile) IN
         /\ Profiled(q)
         /\ q.step = p.step /\ q.at = p.at /\ q.chain = p.chain /\ q.roots = p.roots
         /\ q.depths = p.depths /\ q.control = p.control /\ q.folds = p.folds
  <1> DEFINE faulty == H!Noted(p, {H!Error("invalid_profile")})
             refusing == [H!Noted(p, {H!Error("identity_input_invalid")}) EXCEPT !.refused = @ \cup {profile.name}]
             longer == [p EXCEPT !.indexed = Append(@, profile)]
             Goes(q) == /\ Profiled(q)
                        /\ q.step = p.step /\ q.at = p.at /\ q.chain = p.chain /\ q.roots = p.roots
                        /\ q.depths = p.depths /\ q.control = p.control /\ q.folds = p.folds
  <1>1. DOMAIN p = HdfFields
    BY DEF Profiled
  <1>2. \A code : H!HasErrors(p.diagnostics \cup {H!Error(code)})
    BY ErrorsAre DEF H!Error
  <1>3. Goes(faulty)
    <2>1. /\ DOMAIN faulty = HdfFields /\ faulty.indexed = p.indexed /\ faulty.refused = p.refused
          /\ faulty.diagnostics = p.diagnostics \cup {H!Error("invalid_profile")}
          /\ faulty.step = p.step /\ faulty.at = p.at /\ faulty.chain = p.chain /\ faulty.roots = p.roots
          /\ faulty.depths = p.depths /\ faulty.control = p.control /\ faulty.folds = p.folds
      BY <1>1 DEF H!Noted, HdfFields
    <2> HIDE DEF faulty
    <2> QED BY <1>2, <2>1 DEF Profiled
  <1>4. Goes(refusing)
    <2>1. /\ DOMAIN refusing = HdfFields /\ refusing.indexed = p.indexed
          /\ refusing.diagnostics = p.diagnostics \cup {H!Error("identity_input_invalid")}
          /\ refusing.step = p.step /\ refusing.at = p.at /\ refusing.chain = p.chain /\ refusing.roots = p.roots
          /\ refusing.depths = p.depths /\ refusing.control = p.control /\ refusing.folds = p.folds
      BY <1>1 DEF H!Noted, HdfFields
    <2> HIDE DEF refusing
    <2> QED BY <1>2, <2>1 DEF Profiled
  <1>5. ASSUME profile.object, profile.name # None, profile.name \notin H!Names(p) PROVE Goes(longer)
    <2>1. /\ DOMAIN longer = HdfFields /\ longer.refused = p.refused
          /\ longer.diagnostics = p.diagnostics /\ longer.indexed = Append(p.indexed, profile)
          /\ longer.step = p.step /\ longer.at = p.at /\ longer.chain = p.chain /\ longer.roots = p.roots
          /\ longer.depths = p.depths /\ longer.control = p.control /\ longer.folds = p.folds
      BY <1>1 DEF HdfFields
    <2> HIDE DEF longer
    <2> DEFINE n == Len(p.indexed)
    <2>2. /\ longer.indexed \in Seq(Range(p.indexed) \cup {profile})
          /\ n \in Nat /\ DOMAIN p.indexed = 1 .. n /\ DOMAIN longer.indexed = 1 .. n + 1
          /\ \A i \in DOMAIN p.indexed : longer.indexed[i] = p.indexed[i]
          /\ longer.indexed[n + 1] = profile
      BY <2>1, Appending DEF Profiled, IsSequence
    <2> HIDE DEF n
    <2>3. IsSequence(longer.indexed)
      BY <2>2, SequenceIs
    <2>4. \A i \in DOMAIN longer.indexed : i \in DOMAIN p.indexed \/ i = n + 1
      BY <2>2
    <2>5. \A i \in DOMAIN p.indexed : p.indexed[i].name # profile.name
      BY <1>5, NamedIs
    <2>6. \A i \in DOMAIN longer.indexed :
            /\ longer.indexed[i] \in Range(doc.profiles) /\ longer.indexed[i].object
            /\ longer.indexed[i].name # None
      BY <1>5, <2>2, <2>4 DEF Profiled
    <2>7. \A i, j \in DOMAIN longer.indexed : longer.indexed[i].name = longer.indexed[j].name => i = j
      <3>1. \A i, j \in DOMAIN p.indexed : p.indexed[i].name = p.indexed[j].name => i = j
        BY DEF Profiled
      <3> QED BY <2>2, <2>4, <2>5, <3>1
    <2> QED BY <2>1, <2>3, <2>6, <2>7 DEF Profiled
  <1>6. \/ H!Indexed(p, profile) = faulty
        \/ H!Indexed(p, profile) = refusing
        \/ /\ H!Indexed(p, profile) = longer
           /\ profile.object /\ profile.name # None /\ profile.name \notin H!Names(p)
    BY DEF H!Indexed, H!None, None
  <1> HIDE DEF Goes
  <1>7. Goes(H!Indexed(p, profile))
    BY <1>3, <1>4, <1>5, <1>6
  <1> QED BY <1>7 DEF Goes

LEMMA IndexKeeps ==
  ASSUME HdfShaped(doc), HdfKept(parse), H!IndexProfile
  PROVE  HdfKept(parse') /\ doc' = doc
  <1> DEFINE q == H!Indexed(parse, doc.profiles[parse.at])
             last == parse.at = Len(doc.profiles)
  <1>1. /\ parse.step = "index" /\ doc' = doc
        /\ parse' = [q EXCEPT !.at = IF last THEN 1 ELSE @ + 1, !.step = IF last THEN "scan" ELSE @]
    BY DEF H!IndexProfile
  <1>2. /\ DOMAIN doc.profiles = 1 .. Len(doc.profiles) /\ Len(doc.profiles) \in Nat
        /\ Profiled(parse) /\ parse.at \in DOMAIN doc.profiles
        /\ parse.chain = <<>> /\ parse.roots = <<>> /\ parse.depths = <<>> /\ parse.control = 0
        /\ parse.folds = {}
    BY <1>1 DEF HdfShaped, IsSequence, HdfKept
  <1>3. doc.profiles[parse.at] \in Range(doc.profiles)
    BY <1>2 DEF Range
  <1>4. /\ Profiled(q) /\ q.step = "index" /\ q.at = parse.at /\ q.chain = <<>> /\ q.roots = <<>>
        /\ q.depths = <<>> /\ q.control = 0 /\ q.folds = {}
    BY <1>1, <1>2, <1>3, IndexedProfiles
  <1> HIDE DEF q
  <1>5. /\ DOMAIN parse' = HdfFields /\ parse'.indexed = q.indexed /\ parse'.refused = q.refused
        /\ parse'.diagnostics = q.diagnostics
        /\ parse'.chain = <<>> /\ parse'.roots = <<>> /\ parse'.depths = <<>> /\ parse'.control = 0
        /\ parse'.folds = {}
        /\ parse'.at = (IF last THEN 1 ELSE parse.at + 1)
        /\ parse'.step = (IF last THEN "scan" ELSE "index")
    BY <1>1, <1>4 DEF Profiled, HdfFields
  <1>6. Profiled(parse')
    BY <1>4, <1>5 DEF Profiled
  <1>7. CASE ~last
    <2>1. parse.at + 1 \in DOMAIN doc.profiles
      BY <1>2, <1>7
    <2> QED BY <1>1, <1>5, <1>6, <1>7, <2>1 DEF HdfKept
  <1>8. CASE last
    <2>1. <<>> \in Seq({}) /\ DOMAIN <<>> = {}
      OBVIOUS
    <2>2. Placed(parse')
      BY <1>5, <2>1 DEF Placed
    <2>3. Chained(parse')
      <3>1. IsSequence(parse'.chain)
        BY <1>5, <2>1, SequenceIs
      <3> QED BY <1>5, <2>1, <3>1 DEF Chained
    <2>4. Rolled(parse')
      BY <1>5 DEF Rolled
    <2>5. ReadIn(parse')
      <3>1. Len(parse'.indexed) \in Nat /\ DOMAIN parse'.indexed = 1 .. Len(parse'.indexed)
        BY <1>6 DEF Profiled, IsSequence
      <3>2. ASSUME NEW k \in DOMAIN parse'.indexed, parse'.indexed[k].array,
                   NEW i \in DOMAIN parse'.indexed[k].controls
            PROVE  ~Past(parse', k, i)
        <4>1. IsSequence(parse'.indexed[k].controls)
          BY <1>6, <3>2 DEF HdfShaped, Profiled
        <4>2. i \in Nat /\ i > 0
          BY <4>1 DEF IsSequence
        <4> QED BY <1>5, <1>8, <3>1, <4>2 DEF Past
      <3> QED BY <1>5, <1>8, <3>1, <3>2 DEF ReadIn
    <2> QED BY <1>1, <1>5, <1>6, <1>8, <2>2, <2>3, <2>4, <2>5 DEF HdfKept
  <1> QED BY <1>7, <1>8

\* One link more of a walk leaves what was read as it is.
LEMMA ClimbKeeps ==
  ASSUME HdfKept(parse), H!Climb
  PROVE  HdfKept(parse') /\ doc' = doc
  <1>1. /\ parse.step = "scan" /\ parse.at \in DOMAIN parse.indexed /\ parse.control = 0
        /\ H!Climbing(parse) /\ doc' = doc
        /\ parse' = [parse EXCEPT !.chain = Append(@, H!Link(parse))]
    BY DEF H!Climb, H!Tracing
  <1>2. Profiled(parse) /\ Placed(parse) /\ Chained(parse) /\ Rolled(parse) /\ ReadIn(parse)
    BY <1>1 DEF HdfKept
  <1>3. Profiled(parse') /\ Placed(parse') /\ Chained(parse')
    BY <1>1, <1>2, ClimbChains
  <1>4. /\ parse'.step = "scan" /\ parse'.at = parse.at /\ parse'.control = 0
        /\ parse'.indexed = parse.indexed /\ parse'.roots = parse.roots /\ parse'.depths = parse.depths
        /\ parse'.folds = parse.folds /\ parse'.diagnostics = parse.diagnostics
    BY <1>1, <1>2 DEF Profiled, HdfFields
  <1>5. Rolled(parse')
    BY <1>2, <1>4 DEF Rolled
  <1>6. ReadIn(parse')
    <2>1. \A k, i : Past(parse', k, i) => Past(parse, k, i)
      BY <1>1, <1>4 DEF Past
    <2>2. \A profile, control : Told(parse, profile, control) => Told(parse', profile, control)
      BY <1>4 DEF Told, Copy
    <2> QED BY <1>2, <1>4, <2>1, <2>2 DEF ReadIn
  <1> QED BY <1>1, <1>3, <1>4, <1>5, <1>6 DEF HdfKept

\* What the controls of a profile are read into, wherever it is opened.
LEMMA OpenedGoesOn ==
  ASSUME NEW p, DOMAIN p = HdfFields, p.step = "scan", p.control = 0, NEW profile
  PROVE  LET q == H!Opened(p, profile) IN
         /\ DOMAIN q = HdfFields
         /\ q.indexed = p.indexed /\ q.refused = p.refused /\ q.chain = p.chain
         /\ q.roots = p.roots /\ q.depths = p.depths /\ q.folds = p.folds
         /\ p.diagnostics \subseteq q.diagnostics
         /\ q.step \in {"scan", "bound"}
         /\ q.step = "scan" =>
              \/ q.at = p.at + 1 /\ q.control = 0 /\ ~profile.array /\ H!HasErrors(q.diagnostics)
              \/ q.at = p.at + 1 /\ q.control = 0 /\ profile.array /\ profile.controls = <<>>
              \/ q.at = p.at /\ q.control = 1 /\ profile.array /\ profile.controls # <<>>
  <1> DEFINE more == H!When(profile.status \notin {H!None, "loaded"}, H!Warning("profile_not_loaded"))
                     \cup When(profile.status = "failed" /\ profile.array /\ profile.controls = <<>>,
                               H!Warning(H!Executed))
             q == H!Noted(p, more)
             faulty == H!Noted(q, {H!Error("invalid_profile")})
             Goes(r) ==
               /\ DOMAIN r = HdfFields
               /\ r.indexed = p.indexed /\ r.refused = p.refused /\ r.chain = p.chain
               /\ r.roots = p.roots /\ r.depths = p.depths /\ r.folds = p.folds
               /\ p.diagnostics \subseteq r.diagnostics
  <1>1. H!Opened(p, profile) =
          IF ~profile.array THEN H!NextProfile(faulty)
          ELSE IF Len(profile.controls) > MaxResults THEN [q EXCEPT !.step = "bound"]
          ELSE IF profile.controls = <<>> THEN H!NextProfile(q) ELSE [q EXCEPT !.control = 1]
    BY Zenon DEF H!Opened, H!When, When
  <1>2. Goes(q) /\ q.step = "scan" /\ q.at = p.at /\ q.control = 0
    BY DEF H!Noted, HdfFields
  <1> HIDE DEF q
  <1>3. /\ Goes(faulty) /\ faulty.step = "scan" /\ faulty.at = p.at /\ faulty.control = 0
        /\ faulty.diagnostics = q.diagnostics \cup {H!Error("invalid_profile")}
    BY <1>2 DEF H!Noted, HdfFields
  <1>4. H!HasErrors(faulty.diagnostics)
    BY <1>3, ErrorsAre DEF H!Error
  <1> HIDE DEF faulty
  <1>5. CASE ~profile.array
    BY <1>1, <1>3, <1>4, <1>5 DEF H!NextProfile, HdfFields
  <1>6. CASE profile.array /\ Len(profile.controls) > MaxResults
    BY <1>1, <1>2, <1>6 DEF HdfFields
  <1>7. CASE profile.array /\ ~(Len(profile.controls) > MaxResults) /\ profile.controls = <<>>
    BY <1>1, <1>2, <1>7 DEF H!NextProfile, HdfFields
  <1>8. CASE profile.array /\ ~(Len(profile.controls) > MaxResults) /\ profile.controls # <<>>
    BY <1>1, <1>2, <1>8 DEF HdfFields
  <1> QED BY <1>5, <1>6, <1>7, <1>8

\* What two walks of the same profiles and roots both hold.
LEMMA PlacedAlike ==
  ASSUME NEW p, NEW q, Profiled(p), Placed(p), Chained(p), DOMAIN q = HdfFields,
         q.indexed = p.indexed, q.refused = p.refused, q.chain = <<>>,
         q.roots = p.roots, q.depths = p.depths, p.diagnostics \subseteq q.diagnostics
  PROVE  Profiled(q) /\ Placed(q) /\ Chained(q)
  <1>1. H!Names(q) = H!Names(p) /\ \A name : Parent(q, name) = Parent(p, name)
    BY DEF H!Names, H!Named, Parent
  <1>2. H!HasErrors(p.diagnostics) => H!HasErrors(q.diagnostics)
    BY ErrorsStay
  <1>3. Profiled(q)
    BY <1>2 DEF Profiled
  <1>4. Placed(q)
    <2>1. \A name : RootedBy(p, name) => RootedBy(q, name)
      BY <1>1 DEF RootedBy
    <2> QED BY <1>1, <1>2, <2>1 DEF Placed
  <1>5. Chained(q)
    <2>1. <<>> \in Seq({}) /\ DOMAIN <<>> = {}
      OBVIOUS
    <2>2. IsSequence(q.chain) /\ DOMAIN q.chain = {}
      BY <2>1, SequenceIs
    <2> QED BY <2>2 DEF Chained
  <1> QED BY <1>3, <1>4, <1>5

\* The places of a profile and of its controls.
LEMMA PlacesAre ==
  ASSUME HdfShaped(doc), NEW p, Profiled(p)
  PROVE  /\ Len(p.indexed) \in Nat /\ DOMAIN p.indexed = 1 .. Len(p.indexed)
         /\ \A k \in DOMAIN p.indexed :
              p.indexed[k].array =>
                /\ Len(p.indexed[k].controls) \in Nat
                /\ DOMAIN p.indexed[k].controls = 1 .. Len(p.indexed[k].controls)
                /\ p.indexed[k].controls = <<>> <=> Len(p.indexed[k].controls) = 0
                /\ \A i \in DOMAIN p.indexed[k].controls :
                     p.indexed[k].controls[i].object => p.indexed[k].controls[i].title \in Nat
  <1>1. Len(p.indexed) \in Nat /\ DOMAIN p.indexed = 1 .. Len(p.indexed)
    BY DEF Profiled, IsSequence
  <1>2. ASSUME NEW k \in DOMAIN p.indexed, p.indexed[k].array
        PROVE  /\ Len(p.indexed[k].controls) \in Nat
               /\ DOMAIN p.indexed[k].controls = 1 .. Len(p.indexed[k].controls)
               /\ p.indexed[k].controls = <<>> <=> Len(p.indexed[k].controls) = 0
               /\ \A i \in DOMAIN p.indexed[k].controls :
                    p.indexed[k].controls[i].object => p.indexed[k].controls[i].title \in Nat
    <2> DEFINE profile == p.indexed[k]
    <2>1. /\ IsSequence(profile.controls)
          /\ \A control \in Range(profile.controls) : control.object => control.title \in Nat
      BY <1>2 DEF HdfShaped, Profiled
    <2> HIDE DEF profile
    <2>2. \A i \in DOMAIN profile.controls : profile.controls[i] \in Range(profile.controls)
      BY Zenon DEF Range
    <2>3. /\ profile.controls = <<>> <=> Len(profile.controls) = 0
          /\ Len(profile.controls) \in Nat /\ DOMAIN profile.controls = 1 .. Len(profile.controls)
      BY <2>1, SequenceParts
    <2> QED BY <2>1, <2>2, <2>3 DEF profile
  <1> QED BY <1>1, <1>2

LEMMA OpenKeeps ==
  ASSUME HdfShaped(doc), HdfKept(parse), H!OpenProfile
  PROVE  HdfKept(parse') /\ doc' = doc
  <1> DEFINE q == H!Traced(parse)
             profile == parse.indexed[parse.at]
  <1>1. /\ parse.step = "scan" /\ parse.at \in DOMAIN parse.indexed /\ parse.control = 0
        /\ ~H!Climbing(parse) /\ doc' = doc
        /\ parse' = IF q.roots[profile.name] = None THEN H!NextProfile(q) ELSE H!Opened(q, profile)
    BY DEF H!OpenProfile, H!Tracing, H!Profile, H!None, None
  <1>2. Profiled(parse) /\ Placed(parse) /\ Chained(parse) /\ Rolled(parse) /\ ReadIn(parse)
    BY <1>1 DEF HdfKept
  <1>3. /\ Profiled(q) /\ Placed(q) /\ Chained(q) /\ q.chain = <<>>
        /\ q.step = "scan" /\ q.at = parse.at /\ q.indexed = parse.indexed
        /\ q.control = 0 /\ q.folds = parse.folds /\ parse.diagnostics \subseteq q.diagnostics
        /\ profile.name \in DOMAIN q.roots
        /\ DOMAIN parse.roots \subseteq DOMAIN q.roots
        /\ \A name \in DOMAIN parse.roots : q.roots[name] = parse.roots[name] /\ q.depths[name] = parse.depths[name]
    BY <1>1, <1>2, TracedPlaces
  <1>4. /\ Len(q.indexed) \in Nat /\ DOMAIN q.indexed = 1 .. Len(q.indexed)
        /\ \A k \in DOMAIN q.indexed :
             q.indexed[k].array =>
               /\ Len(q.indexed[k].controls) \in Nat
               /\ DOMAIN q.indexed[k].controls = 1 .. Len(q.indexed[k].controls)
               /\ q.indexed[k].controls = <<>> <=> Len(q.indexed[k].controls) = 0
    BY <1>3, PlacesAre
  <1> HIDE DEF q
  <1>5. /\ DOMAIN parse' = HdfFields
        /\ parse'.indexed = q.indexed /\ parse'.refused = q.refused /\ parse'.chain = <<>>
        /\ parse'.roots = q.roots /\ parse'.depths = q.depths /\ parse'.folds = q.folds
        /\ q.diagnostics \subseteq parse'.diagnostics
        /\ parse'.step \in {"scan", "bound"}
        /\ parse'.step = "scan" =>
             \/ parse'.at = q.at + 1 /\ parse'.control = 0 /\ H!HasErrors(parse'.diagnostics)
             \/ parse'.at = q.at + 1 /\ parse'.control = 0 /\ profile.array /\ profile.controls = <<>>
             \/ parse'.at = q.at /\ parse'.control = 1 /\ profile.array /\ profile.controls # <<>>
    <2>1. DOMAIN q = HdfFields
      BY <1>3 DEF Profiled
    <2>2. CASE q.roots[profile.name] = None
      <3>1. parse' = H!NextProfile(q) /\ H!HasErrors(q.diagnostics)
        BY <1>1, <1>3, <2>2 DEF Placed
      <3> QED BY <1>3, <2>1, <3>1 DEF H!NextProfile, HdfFields
    <2>3. CASE q.roots[profile.name] # None
      <3>1. parse' = H!Opened(q, profile)
        BY <1>1, <2>3
      <3> DEFINE r == H!Opened(q, profile)
      <3> HIDE DEF profile
      <3>2. /\ DOMAIN r = HdfFields
            /\ r.indexed = q.indexed /\ r.refused = q.refused /\ r.chain = q.chain
            /\ r.roots = q.roots /\ r.depths = q.depths /\ r.folds = q.folds
            /\ q.diagnostics \subseteq r.diagnostics
            /\ r.step \in {"scan", "bound"}
            /\ r.step = "scan" =>
                 \/ r.at = q.at + 1 /\ r.control = 0 /\ ~profile.array /\ H!HasErrors(r.diagnostics)
                 \/ r.at = q.at + 1 /\ r.control = 0 /\ profile.array /\ profile.controls = <<>>
                 \/ r.at = q.at /\ r.control = 1 /\ profile.array /\ profile.controls # <<>>
        BY <1>3, <2>1, OpenedGoesOn
      <3>3. parse' = r
        BY <3>1
      <3> HIDE DEF r
      <3> QED BY <1>3, <3>2, <3>3
    <2> QED BY <2>2, <2>3
  <1> DEFINE m == Len(parse.indexed)
  <1>p. /\ m \in Nat /\ parse.at \in 1 .. m /\ DOMAIN parse.indexed = 1 .. m
        /\ parse'.indexed = parse.indexed
        /\ parse'.step = "scan" =>
             \/ parse'.at = parse.at + 1 /\ parse'.control = 0
             \/ parse'.at = parse.at /\ parse'.control = 1
    <2>1. q.indexed = parse.indexed /\ q.at = parse.at /\ parse'.indexed = parse.indexed
      BY <1>3, <1>5
    <2>2. m \in Nat /\ DOMAIN parse.indexed = 1 .. m
      BY <1>4, <2>1
    <2>3. parse.at \in DOMAIN parse.indexed
      BY <1>1
    <2> HIDE DEF m, profile
    <2> QED BY <1>5, <2>1, <2>2, <2>3
  <1>6. Profiled(parse') /\ Placed(parse') /\ Chained(parse')
    BY <1>3, <1>5, PlacedAlike
  <1>7. Rolled(parse')
    BY <1>2, <1>3, <1>5 DEF Rolled
  <1>8. ASSUME parse'.step = "scan" PROVE ReadIn(parse')
    <2> HIDE DEF m
    <2>1. parse'.at \in 1 .. Len(parse'.indexed) + 1
      <3>1. parse'.at \in 1 .. m + 1
        BY <1>p, <1>8
      <3> QED BY <1>p, <3>1 DEF m
    <2>2. ASSUME NEW k \in DOMAIN parse'.indexed, k < parse'.at
          PROVE  parse'.indexed[k].name \in DOMAIN parse'.roots
      <3>1. k = parse.at \/ k < parse.at
        BY <1>p, <1>8, <2>2
      <3>2. parse.indexed[k].name \in DOMAIN parse.roots \cup {profile.name}
        BY <1>2, <1>p, <2>2, <3>1 DEF ReadIn
      <3> QED BY <1>3, <1>5, <3>2
    <2>3. parse'.control # 0 =>
            /\ parse'.at \in DOMAIN parse'.indexed /\ parse'.chain = <<>>
            /\ parse'.indexed[parse'.at].name \in DOMAIN parse'.roots
            /\ parse'.indexed[parse'.at].array
            /\ parse'.control \in DOMAIN parse'.indexed[parse'.at].controls
      <3> SUFFICES ASSUME parse'.control # 0
                   PROVE  /\ parse'.at \in DOMAIN parse'.indexed /\ parse'.chain = <<>>
                          /\ parse'.indexed[parse'.at].name \in DOMAIN parse'.roots
                          /\ parse'.indexed[parse'.at].array
                          /\ parse'.control \in DOMAIN parse'.indexed[parse'.at].controls
        OBVIOUS
      <3>1. /\ parse'.at = parse.at /\ parse'.control = 1 /\ profile.array /\ profile.controls # <<>>
        BY <1>3, <1>5, <1>8
      <3>2. parse'.indexed[parse'.at] = profile /\ parse'.at \in DOMAIN parse'.indexed
        BY <1>p, <3>1
      <3>3. 1 \in DOMAIN profile.controls
        <4>1. profile = q.indexed[parse.at] /\ parse.at \in DOMAIN q.indexed
          BY <1>1, <1>3
        <4> HIDE DEF profile
        <4>2. /\ Len(profile.controls) \in Nat /\ Len(profile.controls) # 0
              /\ DOMAIN profile.controls = 1 .. Len(profile.controls)
          BY <1>4, <3>1, <4>1
        <4> QED BY <4>2
      <3> HIDE DEF profile
      <3> QED BY <1>3, <1>5, <3>1, <3>2, <3>3
    <2>4. ASSUME ~H!HasErrors(parse'.diagnostics), NEW k \in DOMAIN parse'.indexed
          PROVE  /\ k < parse'.at => parse'.indexed[k].array
                 /\ parse'.indexed[k].array => \A i \in DOMAIN parse'.indexed[k].controls :
                      Past(parse', k, i) => Told(parse', parse'.indexed[k], parse'.indexed[k].controls[i])
      <3>1. ~H!HasErrors(parse.diagnostics)
        BY <1>3, <1>5, <2>4, ErrorsStay
      <3>2. k \in DOMAIN parse.indexed /\ parse'.indexed[k] = parse.indexed[k]
        BY <1>3, <1>5, <2>4
      <3>3. k < parse'.at => k < parse.at \/ (k = parse.at /\ profile.array)
        <4>1. k < parse'.at => k < parse.at \/ (k = parse.at /\ parse'.at = parse.at + 1)
          BY <1>p, <1>8, <2>4
        <4>2. parse'.at = parse.at + 1 => profile.array
          <5>1. parse.at \in Nat /\ parse.at # parse.at + 1 /\ q.at = parse.at
            BY <1>3, <1>p
          <5> QED BY <1>5, <1>8, <2>4, <5>1
        <4> QED BY <4>1, <4>2
      <3>4. k < parse'.at => parse'.indexed[k].array
        BY <1>2, <3>1, <3>2, <3>3 DEF ReadIn
      <3>5. ASSUME parse'.indexed[k].array, NEW i \in DOMAIN parse'.indexed[k].controls, Past(parse', k, i)
            PROVE  Told(parse', parse'.indexed[k], parse'.indexed[k].controls[i])
        <4>1. i \in Nat /\ i >= 1 /\ parse'.indexed[k].controls # <<>>
          BY <1>3, <1>4, <1>5, <3>5
        <4>2. k < parse.at
          <5>1. k \in Nat /\ parse.at \in Nat
            BY <1>p, <2>4
          <5>2. k < parse'.at \/ (k = parse'.at /\ i < parse'.control)
            BY <3>5 DEF Past
          <5>3. parse'.control \in {0, 1}
            BY <1>5, <1>8
          <5>4. k < parse'.at
            BY <4>1, <5>2, <5>3
          <5>5. k < parse.at \/ (k = parse.at /\ profile.controls = <<>>)
            BY <1>3, <1>5, <1>8, <2>4, <5>1, <5>4
          <5> QED BY <3>2, <4>1, <5>5
        <4>3. Past(parse, k, i)
          BY <4>2 DEF Past
        <4>4. Told(parse, parse.indexed[k], parse.indexed[k].controls[i])
          BY <1>2, <3>1, <3>2, <3>5, <4>3 DEF ReadIn
        <4>5. parse.indexed[k].name \in DOMAIN parse.roots
          BY <1>2, <3>2, <4>2 DEF ReadIn
        <4>6. Copy(parse', parse.indexed[k], parse.indexed[k].controls[i])
                = Copy(parse, parse.indexed[k], parse.indexed[k].controls[i])
          BY <1>3, <1>5, <4>5 DEF Copy
        <4> QED BY <1>3, <1>5, <3>2, <4>4, <4>6 DEF Told
      <3> QED BY <3>4, <3>5
    <2> QED BY <2>1, <2>2, <2>3, <2>4 DEF ReadIn
  <1> QED BY Zenon, <1>1, <1>5, <1>6, <1>7, <1>8 DEF HdfKept

\* Of some dispositions one is the highest, and it is OPEN when one is.
LEMMA TopRank ==
  ASSUME NEW values, values \subseteq DOMAIN H!HdfRank, values # {}
  PROVE  /\ H!HighestOf(values, H!HdfRank) \in values
         /\ "OPEN" \in values => H!HighestOf(values, H!HdfRank) = "OPEN"
  <1> DEFINE rank == H!HdfRank
             Top(v) == v \in values /\ \A w \in values : rank[w] <= rank[v]
  <1>1. /\ DOMAIN rank = {"OPEN", "ERROR", "UNKNOWN", "PASS", "NOT_REVIEWED", "NOT_APPLICABLE"}
        /\ rank["OPEN"] = 5 /\ rank["ERROR"] = 4 /\ rank["UNKNOWN"] = 3 /\ rank["PASS"] = 2
        /\ rank["NOT_REVIEWED"] = 1 /\ rank["NOT_APPLICABLE"] = 0
    BY DEF H!HdfRank
  <1>2. H!HighestOf(values, rank) = CHOOSE v \in values : \A w \in values : rank[w] <= rank[v]
    BY DEF H!HighestOf
  <1>7. values \subseteq DOMAIN rank
    OBVIOUS
  <1> HIDE DEF rank
  <1>3. \A w \in values :
          /\ rank[w] \in Int /\ rank[w] <= 5 /\ (w # "OPEN" => rank[w] <= 4)
          /\ (w \notin {"OPEN", "ERROR"} => rank[w] <= 3)
          /\ (w \notin {"OPEN", "ERROR", "UNKNOWN"} => rank[w] <= 2)
          /\ (w \notin {"OPEN", "ERROR", "UNKNOWN", "PASS"} => rank[w] <= 1)
          /\ (w \notin {"OPEN", "ERROR", "UNKNOWN", "PASS", "NOT_REVIEWED"} => rank[w] <= 0)
    <2> TAKE w \in values
    <2>1. \/ w = "OPEN" \/ w = "ERROR" \/ w = "UNKNOWN" \/ w = "PASS" \/ w = "NOT_REVIEWED"
          \/ w = "NOT_APPLICABLE"
      BY <1>1, <1>7
    <2> QED BY <1>1, <2>1
  <1>4. \E v : Top(v)
    <2>1. "OPEN" \in values => Top("OPEN")
      BY <1>1, <1>3
    <2>2. ("OPEN" \notin values /\ "ERROR" \in values) => Top("ERROR")
      BY <1>1, <1>3
    <2>3. ("OPEN" \notin values /\ "ERROR" \notin values /\ "UNKNOWN" \in values) => Top("UNKNOWN")
      BY <1>1, <1>3
    <2>4. (/\ "OPEN" \notin values /\ "ERROR" \notin values /\ "UNKNOWN" \notin values
           /\ "PASS" \in values) => Top("PASS")
      BY <1>1, <1>3
    <2>5. (/\ "OPEN" \notin values /\ "ERROR" \notin values /\ "UNKNOWN" \notin values
           /\ "PASS" \notin values /\ "NOT_REVIEWED" \in values) => Top("NOT_REVIEWED")
      BY <1>1, <1>3
    <2>6. (/\ "OPEN" \notin values /\ "ERROR" \notin values /\ "UNKNOWN" \notin values
           /\ "PASS" \notin values /\ "NOT_REVIEWED" \notin values
           /\ "NOT_APPLICABLE" \in values) => Top("NOT_APPLICABLE")
      BY <1>1, <1>3
    <2>7. \E w \in values : w \in DOMAIN rank
      BY <1>7
    <2> HIDE DEF Top
    <2> QED BY <1>1, <2>1, <2>2, <2>3, <2>4, <2>5, <2>6, <2>7
  <1>5. Top(H!HighestOf(values, rank))
    <2>1. \E v \in values : \A w \in values : rank[w] <= rank[v]
      BY <1>4
    <2> QED BY <1>2, <2>1
  <1>6. "OPEN" \in values => H!HighestOf(values, rank) = "OPEN"
    <2>1. "OPEN" \in values => rank["OPEN"] <= rank[H!HighestOf(values, rank)]
      BY <1>5
    <2> QED BY <1>1, <1>3, <1>5, <2>1
  <1> QED BY <1>5, <1>6 DEF rank

\* A control whatever its results has a disposition of the order, and one with a
\* failed result of an impact is open.
LEMMA ControlRanked ==
  ASSUME NEW control
  PROVE  /\ H!ControlDisposition(control).disposition \in DOMAIN H!HdfRank
         /\ (/\ control.impact # "zero"
             /\ \E r \in H!ReadResults(control) : r.status = "failed" /\ ~r.backtrace)
              => H!ControlDisposition(control).disposition = "OPEN"
  <1> DEFINE read == {H!ResultDisposition(r) : r \in H!ReadResults(control)}
             top == H!HighestOf(read, H!HdfRank)
  <1>1. H!ControlDisposition(control).disposition =
          IF control.impact = "zero" THEN "NOT_APPLICABLE" ELSE IF read = {} THEN "ERROR" ELSE top
    BY DEF H!ControlDisposition
  <1>2. ASSUME NEW r PROVE H!ResultDisposition(r) \in DOMAIN H!HdfRank
    BY DEF H!ResultDisposition, H!Statuses, H!HdfRank
  <1>3. \A r : (r.status = "failed" /\ ~r.backtrace) => H!ResultDisposition(r) = "OPEN"
    BY DEF H!ResultDisposition, H!Statuses
  <1>4. read \subseteq DOMAIN H!HdfRank
    BY <1>2
  <1>5. read # {} => top \in DOMAIN H!HdfRank /\ ("OPEN" \in read => top = "OPEN")
    BY <1>4, TopRank
  <1>6. (\E r \in H!ReadResults(control) : r.status = "failed" /\ ~r.backtrace)
          => "OPEN" \in read
    BY <1>3
  <1>7. "NOT_APPLICABLE" \in DOMAIN H!HdfRank /\ "ERROR" \in DOMAIN H!HdfRank
    BY DEF H!HdfRank
  <1> HIDE DEF read, top
  <1> QED BY <1>1, <1>5, <1>6, <1>7

\* One control entry: it is folded whole, or is an error, or refuses the artifact.
LEMMA ScannedTells ==
  ASSUME NEW p, DOMAIN p = HdfFields, Rolled(p), NEW profile, NEW control,
         control.object => control.title \in Nat, p.depths[profile.name] \in Nat
  PROVE  LET q == H!Scanned(p, profile, control) IN
         /\ DOMAIN q = HdfFields
         /\ q.indexed = p.indexed /\ q.refused = p.refused /\ q.chain = p.chain
         /\ q.roots = p.roots /\ q.depths = p.depths /\ q.at = p.at /\ q.control = p.control
         /\ q.step \in {p.step, "bound"}
         /\ p.diagnostics \subseteq q.diagnostics /\ p.folds \subseteq q.folds
         /\ Rolled(q)
         /\ q.step # "bound" => H!HasErrors(q.diagnostics) \/ Told(q, profile, control)
  <1> DEFINE key == H!HdfKey(doc, p.roots[profile.name], control)
             copy == H!ControlCandidate(key, p.depths[profile.name], control)
             more == p.folds \cup {copy}
             faulty == H!Noted(p, H!ControlErrors(control))
             bound == [p EXCEPT !.step = "bound"]
             noted == H!Noted(p, H!ControlNotes(control))
             told == [noted EXCEPT !.folds = more]
             Kin(q) ==
               /\ DOMAIN q = HdfFields
               /\ q.indexed = p.indexed /\ q.refused = p.refused /\ q.chain = p.chain
               /\ q.roots = p.roots /\ q.depths = p.depths /\ q.at = p.at /\ q.control = p.control
               /\ q.step \in {p.step, "bound"}
               /\ p.diagnostics \subseteq q.diagnostics
  <1>1. \/ H!Scanned(p, profile, control) = faulty /\ H!ControlErrors(control) # {}
        \/ H!Scanned(p, profile, control) = bound
        \/ H!Scanned(p, profile, control) = told /\ H!ControlErrors(control) = {}
    BY Zenon DEF H!Scanned
  <1>2. Kin(faulty) /\ faulty.folds = p.folds
        /\ faulty.diagnostics = p.diagnostics \cup H!ControlErrors(control)
    BY DEF H!Noted, HdfFields
  <1>3. Kin(bound) /\ bound.folds = p.folds /\ bound.step = "bound"
    BY DEF HdfFields
  <1>4. Kin(told) /\ told.folds = more /\ told.diagnostics = p.diagnostics \cup H!ControlNotes(control)
    BY DEF H!Noted, HdfFields
  <1>5. H!ControlErrors(control) # {} => H!HasErrors(faulty.diagnostics)
    <2>1. \A x \in H!ControlErrors(control) : x.level = "ERROR"
      BY DEF H!ControlErrors, H!Error, H!When
    <2> QED BY <1>2, <2>1, ErrorsAre
  <1>6. H!ControlErrors(control) = {} => control.object
    BY DEF H!ControlErrors
  <1>7. H!ReadResults(control) # H!Range(control.results) => H!HasErrors(told.diagnostics)
    <2> SUFFICES ASSUME H!ReadResults(control) # H!Range(control.results)
                 PROVE  H!HasErrors(told.diagnostics)
      OBVIOUS
    <2>1. H!Error("invalid_control") \in H!ControlNotes(control) /\ H!Error("invalid_control").level = "ERROR"
      BY DEF H!ControlNotes, H!When, H!Error
    <2> HIDE DEF told
    <2> QED BY <1>4, <2>1, ErrorsAre
  <1>8. /\ DOMAIN copy = CopyFields
        /\ copy.disposition = H!ControlDisposition(control).disposition
        /\ copy.depth = p.depths[profile.name] /\ copy.title = control.title
    BY DEF H!ControlCandidate, CopyFields
  <1>9. copy.disposition \in DOMAIN H!HdfRank
    BY <1>8, ControlRanked
  <1> HIDE DEF copy, key, faulty, bound, told
  <1>10. Rolled(faulty) /\ Rolled(bound)
    BY <1>2, <1>3 DEF Rolled
  <1>11. H!ControlErrors(control) = {} => Rolled(told)
    BY <1>4, <1>6, <1>8, <1>9 DEF Rolled
  <1>12. H!HasErrors(told.diagnostics) \/ Told(told, profile, control)
    <2>1. Copy(told, profile, control) = copy
      BY <1>4 DEF Copy, copy, key
    <2> QED BY <1>4, <1>7, <2>1 DEF Told
  <1> QED BY <1>1, <1>2, <1>3, <1>4, <1>5, <1>10, <1>11, <1>12

LEMMA ScanControlKeeps ==
  ASSUME HdfShaped(doc), HdfKept(parse), H!ScanControl
  PROVE  HdfKept(parse') /\ doc' = doc
  <1> DEFINE profile == parse.indexed[parse.at]
             control == profile.controls[parse.control]
             scanned == H!Scanned(parse, profile, control)
             last == parse.control = Len(profile.controls)
  <1>1. /\ parse.step = "scan" /\ parse.control # 0 /\ doc' = doc
        /\ parse' = IF scanned.step = "bound" THEN scanned
                    ELSE IF last THEN H!NextProfile(scanned)
                    ELSE [scanned EXCEPT !.control = @ + 1]
    BY Zenon DEF H!ScanControl, H!Profile
  <1>2. Profiled(parse) /\ Placed(parse) /\ Chained(parse) /\ Rolled(parse) /\ ReadIn(parse)
    BY <1>1 DEF HdfKept
  <1>3. /\ parse.at \in DOMAIN parse.indexed /\ parse.chain = <<>> /\ profile.name \in DOMAIN parse.roots
        /\ profile.array /\ parse.control \in DOMAIN profile.controls
    BY <1>1, <1>2 DEF ReadIn
  <1>4. /\ Len(parse.indexed) \in Nat /\ DOMAIN parse.indexed = 1 .. Len(parse.indexed)
        /\ \A k \in DOMAIN parse.indexed :
             parse.indexed[k].array =>
               /\ Len(parse.indexed[k].controls) \in Nat
               /\ DOMAIN parse.indexed[k].controls = 1 .. Len(parse.indexed[k].controls)
               /\ \A i \in DOMAIN parse.indexed[k].controls :
                    parse.indexed[k].controls[i].object => parse.indexed[k].controls[i].title \in Nat
    BY <1>2, PlacesAre
  <1>5. DOMAIN parse = HdfFields /\ parse.depths[profile.name] \in Nat
        /\ (control.object => control.title \in Nat)
    BY <1>2, <1>3, <1>4 DEF Profiled, Placed
  <1>6. /\ DOMAIN scanned = HdfFields
        /\ scanned.indexed = parse.indexed /\ scanned.refused = parse.refused /\ scanned.chain = parse.chain
        /\ scanned.roots = parse.roots /\ scanned.depths = parse.depths /\ scanned.at = parse.at
        /\ scanned.control = parse.control
        /\ scanned.step \in {parse.step, "bound"}
        /\ parse.diagnostics \subseteq scanned.diagnostics /\ parse.folds \subseteq scanned.folds
        /\ Rolled(scanned)
        /\ scanned.step # "bound" => H!HasErrors(scanned.diagnostics) \/ Told(scanned, profile, control)
    <2> HIDE DEF profile, control
    <2> QED BY <1>2, <1>5, ScannedTells
  <1>7. Len(profile.controls) \in Nat /\ DOMAIN profile.controls = 1 .. Len(profile.controls)
    BY <1>3, <1>4
  <1> HIDE DEF scanned
  <1>8. /\ DOMAIN parse' = HdfFields
        /\ parse'.indexed = parse.indexed /\ parse'.refused = parse.refused /\ parse'.chain = <<>>
        /\ parse'.roots = parse.roots /\ parse'.depths = parse.depths
        /\ parse'.diagnostics = scanned.diagnostics /\ parse'.folds = scanned.folds
        /\ parse'.step \in {"scan", "bound"}
        /\ parse'.step = "scan" =>
             /\ H!HasErrors(scanned.diagnostics) \/ Told(scanned, profile, control)
             /\ \/ last /\ parse'.at = parse.at + 1 /\ parse'.control = 0
                \/ ~last /\ parse'.at = parse.at /\ parse'.control = parse.control + 1
    <2> HIDE DEF profile, control, last
    <2>1. CASE scanned.step = "bound"
      BY <1>1, <1>3, <1>6, <2>1
    <2>2. CASE scanned.step # "bound" /\ last
      <3>1. parse' = H!NextProfile(scanned)
        BY <1>1, <2>2
      <3> QED BY <1>1, <1>3, <1>6, <2>2, <3>1 DEF H!NextProfile, HdfFields
    <2>3. CASE scanned.step # "bound" /\ ~last
      <3>1. parse' = [scanned EXCEPT !.control = @ + 1]
        BY <1>1, <2>3
      <3> QED BY <1>1, <1>3, <1>6, <2>3, <3>1 DEF HdfFields
    <2> QED BY <2>1, <2>2, <2>3
  <1>9. Profiled(parse') /\ Placed(parse') /\ Chained(parse')
    BY <1>2, <1>6, <1>8, PlacedAlike
  <1>10. Rolled(parse')
    BY <1>6, <1>8 DEF Rolled
  <1>11. ASSUME parse'.step = "scan" PROVE ReadIn(parse')
    <2>0. parse.at \in Nat /\ parse.control \in Nat
      BY <1>3, <1>4, <1>7
    <2>1. parse'.at \in 1 .. Len(parse'.indexed) + 1
      BY <1>3, <1>4, <1>8, <1>11
    <2>2. ASSUME NEW k \in DOMAIN parse'.indexed, k < parse'.at
          PROVE  parse'.indexed[k].name \in DOMAIN parse'.roots
      <3>1. k = parse.at \/ k < parse.at
        BY <1>3, <1>4, <1>8, <1>11, <2>2
      <3> QED BY <1>2, <1>3, <1>8, <3>1 DEF ReadIn
    <2>3. parse'.control # 0 =>
            /\ parse'.at \in DOMAIN parse'.indexed /\ parse'.chain = <<>>
            /\ parse'.indexed[parse'.at].name \in DOMAIN parse'.roots
            /\ parse'.indexed[parse'.at].array
            /\ parse'.control \in DOMAIN parse'.indexed[parse'.at].controls
      <3> SUFFICES ASSUME parse'.control # 0
                   PROVE  /\ parse'.at \in DOMAIN parse'.indexed /\ parse'.chain = <<>>
                          /\ parse'.indexed[parse'.at].name \in DOMAIN parse'.roots
                          /\ parse'.indexed[parse'.at].array
                          /\ parse'.control \in DOMAIN parse'.indexed[parse'.at].controls
        OBVIOUS
      <3>1. ~last /\ parse'.at = parse.at /\ parse'.control = parse.control + 1
        BY <1>8, <1>11
      <3>2. parse.control + 1 \in DOMAIN profile.controls
        BY <1>3, <1>7, <3>1
      <3> QED BY <1>3, <1>8, <3>1, <3>2
    <2>4. ASSUME ~H!HasErrors(parse'.diagnostics), NEW k \in DOMAIN parse'.indexed
          PROVE  /\ k < parse'.at => parse'.indexed[k].array
                 /\ parse'.indexed[k].array => \A i \in DOMAIN parse'.indexed[k].controls :
                      Past(parse', k, i) => Told(parse', parse'.indexed[k], parse'.indexed[k].controls[i])
      <3>1. ~H!HasErrors(parse.diagnostics) /\ Told(scanned, profile, control)
        BY <1>6, <1>8, <1>11, <2>4, ErrorsStay
      <3>2. k \in DOMAIN parse.indexed /\ parse'.indexed[k] = parse.indexed[k]
        BY <1>8, <2>4
      <3>3. k < parse'.at => k < parse.at \/ k = parse.at
        BY <1>3, <1>4, <1>8, <1>11, <2>4
      <3>4. k < parse'.at => parse'.indexed[k].array
        BY <1>2, <1>3, <3>1, <3>2, <3>3 DEF ReadIn
      <3>5. ASSUME parse'.indexed[k].array, NEW i \in DOMAIN parse'.indexed[k].controls, Past(parse', k, i)
            PROVE  Told(parse', parse'.indexed[k], parse'.indexed[k].controls[i])
        <4>1. \A other, entry : Copy(parse', other, entry) = Copy(parse, other, entry)
                             /\ Copy(scanned, other, entry) = Copy(parse, other, entry)
          BY <1>6, <1>8 DEF Copy
        <4>2. Past(parse, k, i) \/ (k = parse.at /\ i = parse.control)
          <5>1. k \in Nat /\ i \in Nat /\ (k = parse.at => i <= Len(profile.controls))
            BY <1>4, <3>2, <3>5
          <5>2. CASE last /\ parse'.at = parse.at + 1 /\ parse'.control = 0
            <6>1. k < parse.at + 1
              BY <2>0, <3>5, <5>1, <5>2 DEF Past
            <6>2. k < parse.at \/ (k = parse.at /\ i <= parse.control)
              BY <2>0, <5>1, <5>2, <6>1
            <6> QED BY <2>0, <5>1, <6>2 DEF Past
          <5>3. CASE ~last /\ parse'.at = parse.at /\ parse'.control = parse.control + 1
            <6>1. k < parse.at \/ (k = parse.at /\ i < parse.control + 1)
              BY <3>5, <5>3 DEF Past
            <6>2. k < parse.at \/ (k = parse.at /\ i <= parse.control)
              BY <2>0, <5>1, <6>1
            <6> QED BY <2>0, <5>1, <6>2 DEF Past
          <5> QED BY <1>8, <1>11, <5>2, <5>3
        <4>3. CASE Past(parse, k, i)
          <5>1. Told(parse, parse.indexed[k], parse.indexed[k].controls[i])
            BY <1>2, <3>1, <3>2, <3>5, <4>3 DEF ReadIn
          <5> QED BY <1>6, <1>8, <3>2, <4>1, <5>1 DEF Told
        <4>4. CASE k = parse.at /\ i = parse.control
          BY <1>8, <3>1, <3>2, <4>1, <4>4 DEF Told
        <4> QED BY <4>2, <4>3, <4>4
      <3> QED BY <3>4, <3>5
    <2> QED BY <2>1, <2>2, <2>3, <2>4 DEF ReadIn
  <1> QED BY <1>1, <1>8, <1>9, <1>10, <1>11 DEF HdfKept

-----------------------------------------------------------------------------
(* The copies of a control are folded into one observation.                 *)

LEMMA Ordered ==
  ASSUME NEW copies, copies # {}, \A c \in copies : c.title \in Nat /\ c.depth \in Nat
  PROVE  H!InOrder(copies) \in copies /\ H!OutermostFirst(copies) \in copies
  <1>1. \E c \in copies : \A d \in copies : c.title <= d.title
    <2> DEFINE titles == {c.title : c \in copies}
    <2>1. titles \in SUBSET Nat /\ titles # {}
      OBVIOUS
    <2> HIDE DEF titles
    <2>2. PICK t \in titles : \A u \in titles : t <= u
      BY <2>1, LeastOfNats
    <2> QED BY <2>2 DEF titles
  <1>2. \E c \in copies : \A d \in copies : c.depth < d.depth \/ (c.depth = d.depth /\ c.title <= d.title)
    <2> DEFINE depths == {c.depth : c \in copies}
    <2>1. depths \in SUBSET Nat /\ depths # {}
      OBVIOUS
    <2> HIDE DEF depths
    <2>2. PICK e \in depths : \A u \in depths : e <= u
      BY <2>1, LeastOfNats
    <2> DEFINE outer == {c \in copies : c.depth = e}
               titles == {c.title : c \in outer}
    <2>3. titles \in SUBSET Nat /\ titles # {}
      BY <2>2 DEF depths
    <2> HIDE DEF titles
    <2>4. PICK t \in titles : \A u \in titles : t <= u
      BY <2>3, LeastOfNats
    <2>5. PICK c \in outer : c.title = t
      BY <2>4 DEF titles
    <2>6. ASSUME NEW d \in copies PROVE c.depth < d.depth \/ (c.depth = d.depth /\ c.title <= d.title)
      <3>1. e <= d.depth /\ c.depth = e /\ e \in Nat /\ d.depth \in Nat
        BY <2>1, <2>2, <2>5 DEF depths
      <3>2. d.depth = e => c.title <= d.title
        BY <2>4, <2>5 DEF titles
      <3> QED BY <3>1, <3>2
    <2> QED BY <2>5, <2>6
  <1> QED BY <1>1, <1>2 DEF H!InOrder, H!OutermostFirst

\* What the copies of a control that survive take over from those that do not.
LEMMA Survives ==
  ASSUME NEW copies, \A c \in copies : DOMAIN c = CopyFields /\ c.title \in Nat /\ c.depth \in Nat
  PROVE  LET left == H!Shadow(copies) IN
         /\ \A d \in left : \E c \in copies : d.disposition = c.disposition /\ d.title = c.title
                                           /\ d.depth = c.depth
         /\ \A c \in copies : c.has_results =>
              \E d \in left : d.disposition = c.disposition /\ (c.attested # None => d.attested = c.attested)
         /\ (\E c \in copies : c.waiver # None) => \E d \in left : d.waiver # None
         /\ (\E c \in copies : c.attested # None) => \E d \in left : d.attested # None
  <1> DEFINE kept == {c \in copies : c.has_results}
             shadowed == copies \ kept
             waived == {c \in shadowed : c.waiver # None}
             attested == {c \in shadowed : c.attested # None}
             Waive(c) == IF waived # {} /\ \A k \in kept : k.waiver = None
                         THEN [c EXCEPT !.waiver = H!OutermostFirst(waived).waiver] ELSE c
             Attest(c) == IF attested # {} /\ \A k \in kept : k.attested = None
                          THEN [c EXCEPT !.attested = H!OutermostFirst(attested).attested,
                                         !.attestation = H!OutermostFirst(attested).attestation] ELSE c
             left == H!Shadow(copies)
  <1>1. left = IF kept = {} THEN copies ELSE {Attest(Waive(c)) : c \in kept}
    BY DEF H!Shadow, H!HandOver, H!None, None
  <1>2. waived # {} => H!OutermostFirst(waived).waiver # None
    <2>1. waived # {} => H!OutermostFirst(waived) \in waived
      BY Ordered
    <2> QED BY <2>1
  <1>3. attested # {} => H!OutermostFirst(attested).attested # None
    <2>1. attested # {} => H!OutermostFirst(attested) \in attested
      BY Ordered
    <2> QED BY <2>1
  <1>4. ASSUME NEW c \in kept
        PROVE  /\ DOMAIN Waive(c) = CopyFields
               /\ Waive(c).disposition = c.disposition /\ Waive(c).title = c.title
               /\ Waive(c).depth = c.depth /\ Waive(c).attested = c.attested
               /\ c.waiver # None => Waive(c).waiver = c.waiver
               /\ (waived # {} /\ \A k \in kept : k.waiver = None) => Waive(c).waiver # None
    BY <1>2 DEF CopyFields
  <1> HIDE DEF Waive
  <1>5. ASSUME NEW c \in kept
        PROVE  /\ Attest(Waive(c)).disposition = c.disposition /\ Attest(Waive(c)).title = c.title
               /\ Attest(Waive(c)).depth = c.depth /\ Attest(Waive(c)).waiver = Waive(c).waiver
               /\ c.attested # None => Attest(Waive(c)).attested = c.attested
               /\ (attested # {} /\ \A k \in kept : k.attested = None) => Attest(Waive(c)).attested # None
    BY <1>3, <1>4 DEF CopyFields
  <1> HIDE DEF Attest
  <1>6. CASE kept = {}
    BY <1>1, <1>6
  <1>7. CASE kept # {}
    <2>1. left = {Attest(Waive(c)) : c \in kept}
      BY <1>1, <1>7
    <2> HIDE DEF left
    <2>2. \A d \in left : \E c \in copies : d.disposition = c.disposition /\ d.title = c.title
                                         /\ d.depth = c.depth
      BY <1>5, <2>1
    <2>3. \A c \in copies : c.has_results =>
            \E d \in left : d.disposition = c.disposition /\ (c.attested # None => d.attested = c.attested)
      BY <1>5, <2>1
    <2>4. ASSUME NEW c \in copies, c.waiver # None PROVE \E d \in left : d.waiver # None
      <3>1. CASE \E k \in kept : k.waiver # None
        BY <1>4, <1>5, <2>1, <3>1
      <3>2. CASE \A k \in kept : k.waiver = None
        <4>1. waived # {}
          BY <2>4, <3>2
        <4> HIDE DEF waived
        <4> QED BY <1>4, <1>5, <1>7, <2>1, <3>2, <4>1
      <3> QED BY <3>1, <3>2
    <2>5. ASSUME NEW c \in copies, c.attested # None PROVE \E d \in left : d.attested # None
      <3>1. CASE \E k \in kept : k.attested # None
        BY <1>5, <2>1, <3>1
      <3>2. CASE \A k \in kept : k.attested = None
        <4>1. attested # {}
          BY <2>5, <3>2
        <4> HIDE DEF attested
        <4> QED BY <1>5, <1>7, <2>1, <3>2, <4>1
      <3> QED BY <3>1, <3>2
    <2> QED BY <2>2, <2>3, <2>4, <2>5 DEF left
  <1> QED BY <1>6, <1>7

\* Every copy of a control under a root of an imported document was folded.
LEMMA CopiesFolded ==
  ASSUME HdfShaped(doc), HdfKept(parse), H!HdfDone, H!Imports, NEW copy \in H!Copies
  PROVE  \E depth : /\ H!ControlCandidate(copy.key, depth, copy.control) \in parse.folds
                    /\ H!ReadResults(copy.control) = H!Range(copy.control.results)
  <1>1. /\ parse.step = "scan" /\ parse.at \notin DOMAIN parse.indexed /\ ~H!HasErrors(parse.diagnostics)
        /\ Profiled(parse) /\ ReadIn(parse)
    BY DEF H!HdfDone, H!Imports, HdfKept
  <1>2. PICK k \in DOMAIN parse.indexed :
          LET profile == parse.indexed[k] IN
          \E control \in H!Range(profile.controls) :
            copy = [key |-> H!HdfKey(doc, parse.roots[profile.name], control), control |-> control]
    BY Zenon DEF H!Copies, H!Range
  <1> DEFINE profile == parse.indexed[k]
  <1>3. PICK i \in DOMAIN profile.controls :
          LET control == profile.controls[i] IN
          copy = [key |-> H!HdfKey(doc, parse.roots[profile.name], control), control |-> control]
    BY <1>2 DEF H!Range
  <1>4. k < parse.at
    <2>1. Len(parse.indexed) \in Nat /\ DOMAIN parse.indexed = 1 .. Len(parse.indexed)
      BY <1>1, PlacesAre
    <2> QED BY <1>1, <2>1 DEF ReadIn
  <1>5. Told(parse, profile, profile.controls[i])
    BY <1>1, <1>4 DEF ReadIn, Past
  <1> QED BY <1>3, <1>5 DEF Told, Copy

\* The observation a copy is folded into.
LEMMA CopyObserved ==
  ASSUME HdfShaped(doc), HdfKept(parse), H!HdfDone, H!Imports,
         NEW c \in parse.folds
  PROVE  LET all == H!OfKey(parse.folds, c.key) IN
         /\ H!AssembleControl(c.key, H!Shadow(all)) \in H!Observed
         /\ c \in all
         /\ \A d \in all : /\ DOMAIN d = CopyFields /\ d.title \in Nat /\ d.depth \in Nat
                           /\ d.disposition \in DOMAIN H!HdfRank
  <1>1. parse.step = "scan" /\ ~H!HasErrors(parse.diagnostics) /\ parse.folds # {} /\ Rolled(parse)
    BY DEF H!Imports, HdfKept
  <1>2. H!HdfOutput(parse) = H!Reading(H!HdfAssembled(parse),
          parse.diagnostics \cup H!When(parse.folds = {}, H!Error("no_observations")), H!Absent)
    BY <1>1 DEF H!HdfOutput
  <1>3. parse.diagnostics \cup H!When(parse.folds = {}, H!Error("no_observations")) = parse.diagnostics
    BY <1>1 DEF H!When
  <1>4. H!Observed = H!HdfAssembled(parse)
    BY <1>1, <1>2, <1>3 DEF H!Observed, H!Reading
  <1>5. H!AssembleControl(c.key, H!Shadow(H!OfKey(parse.folds, c.key))) \in H!HdfAssembled(parse)
    BY DEF H!HdfAssembled
  <1> QED BY <1>1, <1>4, <1>5 DEF Rolled, H!OfKey

LEMMA CopyFailureWins ==
  ASSUME HdfShaped(doc), HdfKept(parse), H!HdfDone
  PROVE  H!FailuresWin
  <1> SUFFICES ASSUME H!Imports, NEW copy \in H!Copies, copy.control.impact # "zero",
                      \E r \in H!Range(copy.control.results) : r.status = "failed" /\ ~r.backtrace
               PROVE  \E o \in H!Observed : o.key = copy.key /\ o.disposition = "OPEN"
    BY DEF H!FailuresWin
  <1>1. PICK depth : /\ H!ControlCandidate(copy.key, depth, copy.control) \in parse.folds
                     /\ H!ReadResults(copy.control) = H!Range(copy.control.results)
    BY CopiesFolded
  <1> DEFINE c == H!ControlCandidate(copy.key, depth, copy.control)
             all == H!OfKey(parse.folds, copy.key)
             left == H!Shadow(all)
             o == H!AssembleControl(copy.key, left)
             values == {d.disposition : d \in left}
  <1>2. c.key = copy.key /\ c.has_results /\ c.disposition = "OPEN"
    <2>1. copy.control.results # <<>>
      BY DEF H!Range
    <2>2. H!ControlDisposition(copy.control).disposition = "OPEN"
      BY <1>1, ControlRanked
    <2> QED BY <2>1, <2>2 DEF H!ControlCandidate
  <1>3. /\ o \in H!Observed /\ c \in all
        /\ \A d \in all : /\ DOMAIN d = CopyFields /\ d.title \in Nat /\ d.depth \in Nat
                          /\ d.disposition \in DOMAIN H!HdfRank
    <2> HIDE DEF c
    <2> QED BY <1>1, <1>2, CopyObserved DEF c
  <1> HIDE DEF c, all
  <1>4. /\ \A d \in left : \E e \in all : d.disposition = e.disposition
        /\ \E d \in left : d.disposition = c.disposition
    BY <1>2, <1>3, Survives
  <1> HIDE DEF left
  <1>5. values \subseteq DOMAIN H!HdfRank /\ "OPEN" \in values
    BY <1>2, <1>3, <1>4
  <1> HIDE DEF values
  <1>6. H!HighestOf(values, H!HdfRank) = "OPEN"
    BY <1>5, TopRank
  <1>7. o.key = copy.key /\ o.disposition = "OPEN"
    BY <1>6 DEF H!AssembleControl, values
  <1> QED BY <1>3, <1>7

\* A waiver or an attestation of a copy is on the observation, an expired one first.
LEMMA CopyGroupsKept ==
  ASSUME HdfShaped(doc), HdfKept(parse), H!HdfDone
  PROVE  H!GroupsKept
  <1> SUFFICES ASSUME H!Imports, NEW copy \in H!Copies
               PROVE  \E o \in H!Observed :
                        /\ o.key = copy.key
                        /\ copy.control.waiver # H!None => o.waiver # H!None
                        /\ H!Attested(copy.control) => o.attested # H!None
                        /\ H!Expired(copy.control) => o.attested = "expired"
    BY DEF H!GroupsKept
  <1>1. PICK depth : H!ControlCandidate(copy.key, depth, copy.control) \in parse.folds
    BY CopiesFolded
  <1> DEFINE control == copy.control
             c == H!ControlCandidate(copy.key, depth, control)
             all == H!OfKey(parse.folds, copy.key)
             left == H!Shadow(all)
             o == H!AssembleControl(copy.key, left)
             expired == {d \in left : d.attested = "expired"}
             attested == IF expired # {} THEN expired ELSE {d \in left : d.attested # None}
             waived == {d \in left : d.waiver # None}
  <1>2. /\ c.key = copy.key /\ c.waiver = control.waiver
        /\ H!Attested(control) => c.attested # None
        /\ H!Expired(control) => c.has_results /\ c.attested = "expired"
    <2>1. H!Expired(control) => control.results # <<>> /\ H!Attested(control)
      BY DEF H!Expired, H!Marker, H!ReadResults, H!Range, H!None
    <2>2. /\ c.key = copy.key /\ c.waiver = control.waiver
          /\ c.has_results <=> control.results # <<>>
          /\ c.attested = IF ~H!Attested(control) THEN None
                          ELSE IF H!Expired(control) THEN "expired" ELSE "true"
      BY DEF H!ControlCandidate, H!None, None
    <2> HIDE DEF c
    <2> QED BY <2>1, <2>2 DEF None
  <1>3. /\ o \in H!Observed /\ c \in all
        /\ \A d \in all : DOMAIN d = CopyFields /\ d.title \in Nat /\ d.depth \in Nat
    <2> HIDE DEF c
    <2> QED BY <1>1, <1>2, CopyObserved DEF c
  <1> HIDE DEF c, all
  <1>4. /\ \A d \in left : d.title \in Nat /\ d.depth \in Nat
        /\ control.waiver # None => waived # {}
        /\ H!Attested(control) => attested # {}
        /\ H!Expired(control) => expired # {}
    <2>1. /\ \A d \in left : \E e \in all : d.title = e.title /\ d.depth = e.depth
          /\ \A e \in all : e.has_results =>
               \E d \in left : (e.attested # None => d.attested = e.attested)
          /\ (\E e \in all : e.waiver # None) => \E d \in left : d.waiver # None
          /\ (\E e \in all : e.attested # None) => \E d \in left : d.attested # None
      BY <1>3, Survives
    <2> HIDE DEF left
    <2>2. "expired" # None
      BY DEF None
    <2> QED BY <1>2, <1>3, <2>1, <2>2
  <1>5. /\ o.key = copy.key
        /\ o.waiver = IF waived = {} THEN None ELSE H!InOrder(waived).waiver
        /\ o.attested = IF attested = {} THEN None ELSE H!InOrder(attested).attested
    <2> HIDE DEF left
    <2> QED BY DEF H!AssembleControl, H!None, None
  <1> HIDE DEF left, o
  <1>6. waived # {} => H!InOrder(waived).waiver # None
    <2>1. waived # {} => H!InOrder(waived) \in waived
      BY <1>4, Ordered
    <2> QED BY <2>1
  <1>7. attested # {} => H!InOrder(attested).attested # None
    <2>1. attested # {} => H!InOrder(attested) \in attested
      BY <1>4, Ordered
    <2>2. \A d \in attested : d.attested # None
      BY DEF None
    <2> QED BY <2>1, <2>2
  <1>8. expired # {} => H!InOrder(attested).attested = "expired"
    <2>1. expired # {} => H!InOrder(expired) \in expired
      BY <1>4, Ordered
    <2> QED BY <2>1
  <1>9. expired # {} => attested # {}
    OBVIOUS
  <1> HIDE DEF waived, attested, expired
  <1> QED BY <1>3, <1>4, <1>5, <1>6, <1>7, <1>8, <1>9 DEF H!None, None

-----------------------------------------------------------------------------
(* The walks found the root of every profile.                               *)

\* The way up the parent links, link by link.
LEMMA LineageIs ==
  ASSUME NEW p, NEW name, Len(p.indexed) \in Nat
  PROVE  LET up == H!Lineage(p, name) IN
         /\ DOMAIN up = 0 .. Len(p.indexed) /\ up[0] = name
         /\ \A k \in Nat : k < Len(p.indexed) =>
              up[k + 1] = IF up[k] \in H!Names(p) THEN Parent(p, up[k]) ELSE None
  <1> DEFINE Up(link) == IF link \in H!Names(p) THEN Parent(p, link) ELSE None
             Is(f, n) == f = [k \in 0 .. n |-> IF k = 0 THEN name ELSE Up(f[k - 1])]
             Lacking == {n \in Nat : ~ \E f : Is(f, n)}
             last == Len(p.indexed)
             up == H!Lineage(p, name)
  <1>1. up = CHOOSE f : Is(f, last)
    BY DEF H!Lineage, Parent, H!None, None
  <1> HIDE DEF Up, up
  <1>2. Lacking = {}
    <2> SUFFICES ASSUME Lacking # {} PROVE FALSE
      OBVIOUS
    <2>1. PICK n \in Lacking : \A m \in Lacking : n <= m
      <3> HIDE DEF Is
      <3> QED BY LeastOfNats
    <2>2. CASE n = 0
      <3> DEFINE f == [k \in 0 .. n |-> name]
      <3>1. ASSUME NEW k \in 0 .. n PROVE f[k] = IF k = 0 THEN name ELSE Up(f[k - 1])
        BY <2>2
      <3>2. f = [k \in 0 .. n |-> f[k]]
        OBVIOUS
      <3> HIDE DEF f
      <3>3. Is(f, n)
        BY <3>1, <3>2
      <3> QED BY <2>1, <3>3
    <2>3. CASE n # 0
      <3>1. n \in Nat /\ n - 1 \in Nat /\ n - 1 \notin Lacking
        <4>1. n \in Nat
          BY <2>1 DEF Lacking
        <4> HIDE DEF Lacking
        <4> QED BY <2>1, <2>3, <4>1
      <3>2. PICK f : Is(f, n - 1)
        BY <3>1
      <3> DEFINE g == [k \in 0 .. n |-> IF k = n THEN Up(f[n - 1]) ELSE f[k]]
      <3>3. ASSUME NEW k \in 0 .. n PROVE g[k] = IF k = 0 THEN name ELSE Up(g[k - 1])
        <4>1. CASE k = n
          <5>1. g[k] = Up(f[n - 1]) /\ g[k - 1] = f[n - 1]
            BY <2>3, <3>1, <4>1
          <5> QED BY <2>3, <4>1, <5>1
        <4>2. CASE k # n /\ k = 0
          BY <3>1, <3>2, <4>2
        <4>3. CASE k # n /\ k # 0
          <5>1. k \in 0 .. n - 1 /\ k - 1 \in 0 .. n - 1
            BY <2>1, <4>3
          <5>2. f[k] = Up(f[k - 1])
            BY <3>2, <4>3, <5>1
          <5>3. g[k] = f[k] /\ g[k - 1] = f[k - 1]
            BY <2>1, <4>3, <5>1
          <5> QED BY <4>3, <5>2, <5>3
        <4> QED BY <4>1, <4>2, <4>3
      <3>4. DOMAIN g = 0 .. n
        OBVIOUS
      <3>5. g = [k \in 0 .. n |-> g[k]]
        OBVIOUS
      <3> HIDE DEF g
      <3>6. Is(g, n)
        BY <3>3, <3>5
      <3> QED BY <2>1, <3>6
    <2> QED BY <2>2, <2>3
  <1>3. Is(up, last)
    <2>1. \E f : Is(f, last)
      BY <1>2
    <2> HIDE DEF Is
    <2> QED BY <1>1, <2>1
  <1>4. ASSUME NEW k \in Nat, k < last PROVE up[k + 1] = Up(up[k])
    <2>1. k + 1 \in 0 .. last /\ k + 1 # 0 /\ (k + 1) - 1 = k
      BY <1>4
    <2> HIDE DEF last
    <2> QED BY <1>3, <2>1
  <1>5. DOMAIN up = 0 .. last /\ up[0] = name
    BY <1>3
  <1> QED BY <1>4, <1>5 DEF Up, up

\* A rooted profile is its depth below its root, on a way that passes none twice.
LEMMA RootedWay ==
  ASSUME NEW p, Profiled(p), Placed(p), DOMAIN p.roots = H!Names(p),
         NEW name \in H!Names(p), p.roots[name] # None,
         NEW k \in Nat, k <= p.depths[name], k <= Len(p.indexed)
  PROVE  LET up == H!Lineage(p, name) IN
         /\ up[k] \in H!Names(p) /\ p.roots[up[k]] = p.roots[name]
         /\ p.depths[up[k]] = p.depths[name] - k
  <1> DEFINE up == H!Lineage(p, name)
             depth == p.depths[name]
             Beneath(m) == /\ up[m] \in H!Names(p) /\ p.roots[up[m]] = p.roots[name]
                         /\ p.depths[up[m]] = depth - m
             Stray == {m \in Nat : m <= k /\ ~Beneath(m)}
  <1>1. Len(p.indexed) \in Nat
    BY DEF Profiled, IsSequence
  <1>2. /\ up[0] = name
        /\ \A m \in Nat : m < Len(p.indexed) =>
             up[m + 1] = IF up[m] \in H!Names(p) THEN Parent(p, up[m]) ELSE None
    BY <1>1, LineageIs
  <1>3. depth \in Nat
    BY DEF Placed
  <1> HIDE DEF up, depth
  <1>4. ASSUME Stray # {} PROVE FALSE
    <2>1. PICK m \in Stray : \A j \in Stray : m <= j
      <3> HIDE DEF Beneath
      <3> QED BY <1>4, LeastOfNats
    <2>2. m # 0
      BY <1>2, <1>3, <2>1 DEF depth
    <2>3. m - 1 \in Nat /\ Beneath(m - 1)
      BY <2>1, <2>2
    <2>4. up[m] = Parent(p, up[m - 1])
      <3>1. m - 1 < Len(p.indexed) /\ (m - 1) + 1 = m
        BY <1>1, <2>1, <2>3
      <3> QED BY <1>2, <2>3, <3>1
    <2>5. p.depths[up[m - 1]] # 0
      BY <1>3, <2>1, <2>3 DEF depth
    <2>6. RootedBy(p, up[m - 1])
      BY <2>3 DEF Placed
    <2>7. /\ up[m] \in DOMAIN p.roots /\ p.roots[up[m]] = p.roots[name]
          /\ p.depths[up[m - 1]] = p.depths[up[m]] + 1
      BY <2>3, <2>4, <2>5, <2>6 DEF RootedBy
    <2>8. p.depths[up[m]] \in Nat
      BY <2>7 DEF Placed
    <2>9. Beneath(m)
      BY <1>3, <2>1, <2>3, <2>7, <2>8
    <2> QED BY <2>1, <2>9
  <1> QED BY <1>4 DEF up, depth

\* There are fewer links to a root than profiles.
LEMMA DepthBounded ==
  ASSUME NEW p, Profiled(p), Placed(p), DOMAIN p.roots = H!Names(p),
         NEW name \in H!Names(p), p.roots[name] # None
  PROVE  p.depths[name] \in Nat /\ p.depths[name] < Len(p.indexed)
  <1> DEFINE n == Len(p.indexed)
             depth == p.depths[name]
             up == H!Lineage(p, name)
             seat == [k \in 0 .. n |-> CHOOSE i \in DOMAIN p.indexed : p.indexed[i].name = up[k]]
  <1>1. n \in Nat /\ DOMAIN p.indexed = 1 .. n /\ depth \in Nat
    BY DEF Profiled, IsSequence, Placed
  <1>2. SUFFICES ASSUME n <= depth PROVE FALSE
    BY <1>1
  <1>3. \A k \in 0 .. n : up[k] \in H!Names(p) /\ p.depths[up[k]] = depth - k
    BY <1>1, <1>2, RootedWay
  <1> HIDE DEF up
  <1>4. ASSUME NEW k \in 0 .. n PROVE seat[k] \in 1 .. n /\ p.indexed[seat[k]].name = up[k]
    <2>1. \E i \in DOMAIN p.indexed : p.indexed[i].name = up[k]
      BY <1>3, <1>4, NamedIs
    <2> QED BY <1>1, <2>1
  <1>5. seat \in [0 .. n -> 1 .. n]
    BY <1>4
  <1>6. /\ IsFiniteSet(0 .. n) /\ Cardinality(0 .. n) = n + 1
        /\ IsFiniteSet(1 .. n) /\ Cardinality(1 .. n) = n
    BY <1>1, FS_Interval
  <1> HIDE DEF seat
  <1>7. PICK j \in 0 .. n, k \in 0 .. n : j # k /\ seat[j] = seat[k]
    <2>1. Cardinality(1 .. n) < Cardinality(0 .. n)
      BY <1>1, <1>6
    <2> QED BY <1>5, <1>6, <2>1, FS_PigeonHole
  <1>8. up[j] = up[k]
    BY <1>4, <1>7
  <1>9. depth - j = depth - k
    BY <1>3, <1>8
  <1> HIDE DEF depth
  <1> QED BY <1>1, <1>7, <1>9

\* Past the end of a way there is nothing.
LEMMA WayEnds ==
  ASSUME NEW p, Profiled(p), NEW name, NEW d \in Nat, d <= Len(p.indexed),
         LET up == H!Lineage(p, name) IN up[d] \in H!Names(p) /\ Parent(p, up[d]) = None,
         NEW k \in Nat, d < k, k <= Len(p.indexed)
  PROVE  H!Lineage(p, name)[k] = None
  <1> DEFINE up == H!Lineage(p, name)
             Stray == {m \in Nat : d < m /\ m <= k /\ up[m] # None}
  <1>1. Len(p.indexed) \in Nat
    BY DEF Profiled, IsSequence
  <1>2. \A m \in Nat : m < Len(p.indexed) =>
          up[m + 1] = IF up[m] \in H!Names(p) THEN Parent(p, up[m]) ELSE None
    BY <1>1, LineageIs
  <1>3. None \notin H!Names(p)
    BY NamedIs
  <1> HIDE DEF up
  <1>4. ASSUME Stray # {} PROVE FALSE
    <2>1. PICK m \in Stray : \A j \in Stray : m <= j
      BY <1>4, LeastOfNats
    <2>2. m - 1 \in Nat /\ m - 1 < Len(p.indexed) /\ (m - 1) + 1 = m
      BY <1>1, <2>1
    <2>3. up[m] = IF up[m - 1] \in H!Names(p) THEN Parent(p, up[m - 1]) ELSE None
      BY <1>2, <2>2
    <2>4. m - 1 = d \/ up[m - 1] = None
      BY <2>1, <2>2
    <2> QED BY <1>3, <2>1, <2>3, <2>4 DEF up
  <1> QED BY <1>4 DEF up

\* The way from a profile of no root comes to none.
LEMMA LostWay ==
  ASSUME NEW p, Profiled(p), Placed(p), DOMAIN p.roots = H!Names(p),
         NEW name \in H!Names(p), p.roots[name] = None, NEW k \in Nat, k <= Len(p.indexed)
  PROVE  LET up == H!Lineage(p, name) IN
         up[k] \in H!Names(p) => p.roots[up[k]] = None /\ Parent(p, up[k]) # None
  <1> DEFINE up == H!Lineage(p, name)
             Lost(m) == up[m] \in H!Names(p) => p.roots[up[m]] = None
             Stray == {m \in Nat : m <= k /\ ~Lost(m)}
  <1>1. Len(p.indexed) \in Nat
    BY DEF Profiled, IsSequence
  <1>2. /\ up[0] = name
        /\ \A m \in Nat : m < Len(p.indexed) =>
             up[m + 1] = IF up[m] \in H!Names(p) THEN Parent(p, up[m]) ELSE None
    BY <1>1, LineageIs
  <1>3. None \notin H!Names(p)
    BY NamedIs
  <1> HIDE DEF up
  <1>4. ASSUME NEW link \in H!Names(p), p.roots[link] = None
        PROVE  /\ Parent(p, link) # None
               /\ Parent(p, link) \in H!Names(p) => p.roots[Parent(p, link)] = None
    <2>1. RootedBy(p, link)
      BY DEF Placed
    <2> QED BY <1>3, <1>4, <2>1 DEF RootedBy
  <1>5. ASSUME Stray # {} PROVE FALSE
    <2>1. PICK m \in Stray : \A j \in Stray : m <= j
      <3> HIDE DEF Lost
      <3> QED BY <1>5, LeastOfNats
    <2>2. m # 0
      BY <1>2, <2>1
    <2>3. m - 1 \in Nat /\ Lost(m - 1) /\ m - 1 < Len(p.indexed) /\ (m - 1) + 1 = m
      BY <1>1, <2>1, <2>2
    <2>4. up[m] = IF up[m - 1] \in H!Names(p) THEN Parent(p, up[m - 1]) ELSE None
      BY <1>2, <2>3
    <2> QED BY <1>3, <1>4, <2>1, <2>3, <2>4
  <1>6. Lost(k)
    BY <1>5
  <1> QED BY <1>4, <1>6 DEF up

LEMMA RootsFound ==
  ASSUME HdfShaped(doc), HdfKept(parse)
  PROVE  H!RootsTraced
  <1> DEFINE p == parse
  <1> SUFFICES ASSUME p.step = "scan", p.at \notin DOMAIN p.indexed, NEW name \in H!Names(p)
               PROVE  LET up == H!Lineage(p, name)
                          ends == {k \in DOMAIN up : up[k] \in H!Names(p) /\ Parent(p, up[k]) = None}
                      IN IF p.roots[name] # None
                         THEN ends = {p.depths[name]} /\ up[p.depths[name]] = p.roots[name]
                         ELSE ends = {} /\ H!HasErrors(p.diagnostics)
    BY DEF H!RootsTraced, Parent, H!None, None
  <1> HIDE DEF p
  <1> DEFINE up == H!Lineage(p, name)
             ends == {k \in DOMAIN up : up[k] \in H!Names(p) /\ Parent(p, up[k]) = None}
             n == Len(p.indexed)
             d == p.depths[name]
  <1>1. Profiled(p) /\ Placed(p) /\ ReadIn(p)
    BY DEF HdfKept, p
  <1>2. n \in Nat /\ DOMAIN p.indexed = 1 .. n
    BY <1>1 DEF Profiled, IsSequence
  <1>3. DOMAIN p.roots = H!Names(p)
    <2>1. p.at = n + 1
      BY <1>1, <1>2 DEF ReadIn
    <2>2. \A k \in DOMAIN p.indexed : p.indexed[k].name \in DOMAIN p.roots
      BY <1>1, <1>2, <2>1 DEF ReadIn
    <2> QED BY <1>1, <2>2, NamedIs DEF Placed
  <1>4. DOMAIN up = 0 .. n /\ None \notin H!Names(p)
    BY <1>1, <1>2, LineageIs, NamedIs
  <1>5. CASE p.roots[name] # None
    <2>1. d \in Nat /\ d < n
      BY <1>1, <1>3, <1>5, DepthBounded
    <2>2. \A k \in Nat : k <= d =>
            /\ up[k] \in H!Names(p) /\ p.roots[up[k]] = p.roots[name] /\ p.depths[up[k]] = d - k
      BY <1>1, <1>2, <1>3, <1>5, <2>1, RootedWay
    <2> HIDE DEF up, d, n
    <2>3. \A k \in Nat : k <= d => RootedBy(p, up[k])
      BY <1>1, <1>3, <2>2 DEF Placed
    <2>4. Parent(p, up[d]) = None /\ up[d] = p.roots[name] /\ up[d] \in H!Names(p)
      <3>1. /\ up[d] \in H!Names(p) /\ p.roots[up[d]] = p.roots[name] /\ p.depths[up[d]] = 0
            /\ RootedBy(p, up[d])
        BY <2>1, <2>2, <2>3
      <3>2. ASSUME Parent(p, up[d]) \in DOMAIN p.roots PROVE p.depths[up[d]] # p.depths[Parent(p, up[d])] + 1
        BY <1>1, <3>1, <3>2 DEF Placed
      <3> QED BY <1>5, <3>1, <3>2 DEF RootedBy
    <2>5. ASSUME NEW k \in Nat, k < d PROVE Parent(p, up[k]) # None
      <3>1. p.depths[up[k]] # 0 /\ p.roots[up[k]] # None /\ RootedBy(p, up[k])
        BY <1>5, <2>1, <2>2, <2>3, <2>5
      <3> QED BY <1>3, <1>4, <3>1 DEF RootedBy
    <2>6. ASSUME NEW k \in Nat, d < k, k <= n PROVE up[k] \notin H!Names(p)
      <3>1. up[k] = None
        BY <1>1, <2>1, <2>4, <2>6, WayEnds DEF up, n
      <3> QED BY <1>4, <3>1
    <2>7. d \in ends
      BY <1>2, <1>4, <2>1, <2>4
    <2>8. ASSUME NEW k \in ends PROVE k = d
      BY <1>2, <1>4, <2>1, <2>5, <2>6
    <2> HIDE DEF ends
    <2>9. ends = {d}
      BY <2>7, <2>8
    <2> QED BY <1>5, <2>4, <2>9 DEF ends, up, d
  <1>6. CASE p.roots[name] = None
    <2>1. H!HasErrors(p.diagnostics)
      BY <1>1, <1>3, <1>6 DEF Placed
    <2>2. \A k \in DOMAIN up : up[k] \in H!Names(p) => Parent(p, up[k]) # None
      BY <1>1, <1>2, <1>3, <1>4, <1>6, LostWay
    <2> QED BY <1>6, <2>1, <2>2
  <1> QED BY <1>5, <1>6

-----------------------------------------------------------------------------
(* A PASS of a SARIF log: what every candidate of the walk stands for.      *)

\* Every invocation of the runs that list results declares success, failure or
\* something else.
Flagged(run) == \A i \in S!Invocations(run) : i.flag \in {"true", "false", "other"}
LogFlagged(log) == \A run \in Range(log.runs) : Flagged(run)

\* Of ranks from 0 to 5, one is the highest.
LEMMA RankedTop ==
  ASSUME NEW values, NEW rank, values # {}, \A w \in values : rank[w] \in 0 .. 5
  PROVE  S!Highest(values, rank) \in values
  <1> DEFINE below == {5 - rank[w] : w \in values}
  <1>1. below \in SUBSET Nat /\ below # {}
    OBVIOUS
  <1>2. PICK n \in below : \A m \in below : n <= m
    BY <1>1, LeastOfNats
  <1>3. PICK v \in values : n = 5 - rank[v]
    BY <1>2
  <1>4. \A w \in values : rank[w] <= rank[v]
    <2> TAKE w \in values
    <2>1. 5 - rank[v] <= 5 - rank[w]
      BY <1>2, <1>3
    <2> QED BY <1>3, <2>1
  <1>5. \E x \in values : \A w \in values : rank[w] <= rank[x]
    BY <1>3, <1>4
  <1> QED BY <1>5, Zenon DEF S!Highest

\* A run that lists no result leaves the candidate of a clean run exactly when it
\* is vouched for.
LEMMA CleanRunOwes ==
  ASSUME NEW p, DOMAIN p = SarifFields, NEW run, run.results = <<>>, Flagged(run)
  PROVE  LET q == S!CleanRun(p, run, doc) IN
         /\ q.folds \subseteq p.folds \cup (IF S!Vouches(run) THEN {S!CleanCandidate(run)} ELSE {})
         /\ S!Vouches(run) => q.step = "bound" \/ S!CleanCandidate(run) \in q.folds
  <1> DEFINE q == S!Diagnose(p, {[level |-> "INFO", code |-> "run_clean"]})
             Doubted(d) == [S!Diagnose(q, {S!Warning(d)}) EXCEPT !.unverified = TRUE]
             read == S!Diagnose(q, S!Missing(S!RunClock(run)))
             folded == S!Fold(read, {S!CleanCandidate(run)})
             doubt == S!CleanRunDoubt(run, doc)
  <1>1. S!CleanRun(p, run, doc) =
          IF S!Failed(run) # {} THEN q
          ELSE IF S!ExecutionUnverified(run) THEN Doubted("execution_unverified")
          ELSE IF doubt # S!None THEN Doubted(doubt) ELSE folded
    BY Zenon DEF S!CleanRun
  <1>2. \A d : Doubted(d).folds = p.folds
    BY DEF SarifFields, S!Diagnose
  <1>3. q.folds = p.folds /\ read.folds = p.folds /\ DOMAIN read = SarifFields
    BY DEF SarifFields, S!Diagnose
  <1> HIDE DEF q, read, Doubted
  <1>4. /\ folded.folds \subseteq p.folds \cup {S!CleanCandidate(run)}
        /\ folded.step = "bound" \/ S!CleanCandidate(run) \in folded.folds
    BY <1>3, FoldAdds
  <1> HIDE DEF folded
  <1>5. S!Vouches(run) <=> S!Failed(run) = {} /\ ~S!ExecutionUnverified(run) /\ doubt = S!None
    <2>1. (\A i \in S!Invocations(run) : i.flag = "true") <=>
            /\ S!Failed(run) = {}
            /\ ~\E i \in S!Invocations(run) : i.flag = "other"
      BY DEF Flagged, S!Failed
    <2>2. doubt = S!None <=>
            /\ \A i \in S!Invocations(run) : ~(i.flag = "true" /\ i.errors)
            /\ run.converter # "unclean" /\ ~run.external /\ ~doc.inline
      <3>1. CASE \E i \in S!Invocations(run) : i.flag = "true" /\ i.errors
        <4>1. doubt = "execution_errors_reported"
          BY <3>1 DEF S!CleanRunDoubt
        <4> QED BY <3>1, <4>1 DEF S!None
      <3>2. CASE \A i \in S!Invocations(run) : ~(i.flag = "true" /\ i.errors)
        <4>1. doubt = IF run.converter = "unclean" THEN "conversion_unverified"
                      ELSE IF run.external \/ doc.inline THEN "results_external" ELSE S!None
          BY <3>2 DEF S!CleanRunDoubt
        <4> QED BY <3>2, <4>1 DEF S!None
      <3> QED BY <3>1, <3>2
    <2> HIDE DEF doubt
    <2> QED BY <2>1, <2>2 DEF S!Vouches, S!ExecutionUnverified
  <1> HIDE DEF doubt
  <1> QED BY <1>1, <1>2, <1>3, <1>4, <1>5

\* What a run adds before its results: its clean candidate, when it lists none
\* and is vouched for.
LEMMA ScopedOwes ==
  ASSUME NEW p, DOMAIN p = SarifFields, p.step = "run", NEW run,
         run.listed \in {"absent", "other", "array"}, Flagged(run)
  PROVE  LET q == S!Scoped(p, run, doc)
             vouched == run.listed = "array" /\ S!Vouches(run)
         IN /\ q.folds \subseteq p.folds \cup (IF vouched THEN {S!CleanCandidate(run)} ELSE {})
            /\ (vouched /\ q.step = "run" /\ ~S!HasErrors(q.diagnostics)) => S!CleanCandidate(run) \in q.folds
            /\ vouched => q.step # "result"
  <1> DEFINE noted == S!Diagnose(p, S!ScopeWarnings(run) \cup S!ScopeErrors(run))
             q == S!Invoked(noted, run)
             On(r) == S!NextRun(r)
             vouched == run.listed = "array" /\ S!Vouches(run)
             Owes(r) ==
               /\ r.folds \subseteq p.folds \cup (IF vouched THEN {S!CleanCandidate(run)} ELSE {})
               /\ (vouched /\ r.step = "run" /\ ~S!HasErrors(r.diagnostics)) => S!CleanCandidate(run) \in r.folds
               /\ vouched => r.step # "result"
  <1> SUFFICES Owes(S!Scoped(p, run, doc))
    OBVIOUS
  <1>1. /\ DOMAIN q = SarifFields /\ q.step = "run" /\ q.folds = p.folds
        /\ q.diagnostics = p.diagnostics \cup (S!ScopeWarnings(run) \cup S!ScopeErrors(run))
    BY DEF SarifFields, S!Diagnose, S!Invoked
  <1>2. S!Scoped(p, run, doc) =
          IF S!ScopeErrors(run) # {} THEN On(q)
          ELSE CASE run.listed = "absent" -> On(S!Diagnose(q, {S!Warning("results_unknown")}))
                 [] run.listed = "other" -> On(S!Diagnose(q, {S!Error("invalid_run")}))
                 [] run.listed = "array" ->
                      IF run.results = <<>> THEN On(S!CleanRun(q, run, doc))
                      ELSE [q EXCEPT !.step = IF Len(run.results) > MaxResults THEN "bound" ELSE "result"]
    BY Zenon DEF S!Scoped
  <1>3. S!ScopeErrors(run) # {} => S!HasErrors(q.diagnostics)
    <2>1. \A x \in S!ScopeErrors(run) : x.level = "ERROR"
      BY DEF S!ScopeErrors, S!Error, S!When
    <2> QED BY <1>1, <2>1, ErrorsAre
  <1> HIDE DEF q
  <1>4. ASSUME NEW r, DOMAIN r = SarifFields
        PROVE  On(r).folds = r.folds /\ On(r).diagnostics = r.diagnostics /\ On(r).step = r.step
    BY <1>4 DEF SarifFields, S!NextRun
  <1>5. vouched => run.results = <<>>
    BY DEF S!Vouches
  <1>6. CASE S!ScopeErrors(run) # {}
    <2>1. S!Scoped(p, run, doc) = On(q)
      BY <1>2, <1>6
    <2> HIDE DEF On, vouched
    <2> QED BY <1>1, <1>3, <1>4, <1>6, <2>1
  <1>7. CASE S!ScopeErrors(run) = {} /\ run.listed # "array"
    <2>1. PICK d : S!Scoped(p, run, doc) = On(S!Diagnose(q, d))
      BY <1>2, <1>7
    <2>2. /\ DOMAIN S!Diagnose(q, d) = SarifFields /\ S!Diagnose(q, d).folds = q.folds
          /\ S!Diagnose(q, d).step = "run"
      BY <1>1 DEF S!Diagnose, SarifFields
    <2> HIDE DEF On
    <2> QED BY <1>1, <1>4, <1>7, <2>1, <2>2
  <1>8. CASE S!ScopeErrors(run) = {} /\ run.listed = "array" /\ run.results = <<>>
    <2>1. S!Scoped(p, run, doc) = On(S!CleanRun(q, run, doc))
      BY <1>2, <1>8
    <2>2. Alike(q, S!CleanRun(q, run, doc))
      BY <1>1, CleanRunIsAlike
    <2>3. LET r == S!CleanRun(q, run, doc) IN
          /\ r.folds \subseteq q.folds \cup (IF S!Vouches(run) THEN {S!CleanCandidate(run)} ELSE {})
          /\ S!Vouches(run) => r.step = "bound" \/ S!CleanCandidate(run) \in r.folds
      BY <1>1, <1>8, CleanRunOwes
    <2>4. DOMAIN S!CleanRun(q, run, doc) = SarifFields /\ S!CleanRun(q, run, doc).step \in {"run", "bound"}
      BY <1>1, <2>2 DEF Alike
    <2> DEFINE r == S!CleanRun(q, run, doc)
    <2>5. vouched <=> S!Vouches(run)
      BY <1>8
    <2>6. On(r).folds = r.folds /\ On(r).step = r.step /\ r.step \in {"run", "bound"}
      BY <1>4, <2>4
    <2> HIDE DEF On, vouched, r
    <2> QED BY <1>1, <2>1, <2>3, <2>5, <2>6 DEF r
  <1>9. CASE S!ScopeErrors(run) = {} /\ run.listed = "array" /\ run.results # <<>>
    <2>1. PICK step \in {"bound", "result"} : S!Scoped(p, run, doc) = [q EXCEPT !.step = step]
      BY <1>2, <1>9
    <2>2. [q EXCEPT !.step = step].folds = p.folds
      BY <1>1 DEF SarifFields
    <2>3. ~vouched
      BY <1>5, <1>9
    <2> HIDE DEF vouched
    <2> QED BY <2>1, <2>2, <2>3
  <1> QED BY <1>6, <1>7, <1>8, <1>9

\* A result adds no more than it is due, and none of it is of a clean run.
LEMMA ScannedOwes ==
  ASSUME NEW p, DOMAIN p = SarifFields, NEW run, NEW result
  PROVE  S!Scanned(p, run, result).folds \subseteq p.folds \cup Due(run, result)
  <1> DEFINE q == S!Diagnose(p, S!RuleErrors(run, result))
             read == S!Diagnose(q, S!ResultWarnings(run, result) \cup S!LocationErrors(result))
             folded == S!Fold(read, Due(run, result))
  <1>1. /\ q.folds = p.folds /\ [q EXCEPT !.step = "bound"].folds = p.folds
        /\ DOMAIN read = SarifFields /\ read.folds = p.folds
    BY DEF SarifFields, S!Diagnose
  <1>2. S!Scanned(p, run, result) \in {q, [q EXCEPT !.step = "bound"], read, folded}
    BY Zenon DEF S!Scanned, Due
  <1> HIDE DEF q, read
  <1>3. folded.folds \subseteq p.folds \cup Due(run, result)
    BY <1>1, FoldAdds
  <1> HIDE DEF folded
  <1> QED BY <1>1, <1>2, <1>3

\* The runs passed that list no result and are vouched for.
Vouching(p) == {r \in DOMAIN doc.runs : r < p.run /\ Lists(doc.runs[r]) /\ S!Vouches(doc.runs[r])}

\* A candidate that a result passed is due, or a clean run passed.
FromResult(p, c) ==
  \E r \in DOMAIN doc.runs :
    /\ Lists(doc.runs[r])
    /\ \E i \in DOMAIN doc.runs[r].results :
         Passed(p, r, i) /\ c \in Due(doc.runs[r], doc.runs[r].results[i])
FromRun(p, c) == \E r \in Vouching(p) : c = S!CleanCandidate(doc.runs[r])

\* While no error is found, a candidate stands for what the walk has passed, and
\* every run passed that is vouched for has left its own.
Owed(p) ==
  (p.step \in {"run", "result"} /\ ~S!HasErrors(p.diagnostics)) =>
    /\ \A c \in p.folds : FromResult(p, c) \/ FromRun(p, c)
    /\ \A r \in Vouching(p) : S!CleanCandidate(doc.runs[r]) \in p.folds

LEMMA StartOwes ==
  ASSUME LogListed(doc)
  PROVE  Owed(S!SarifStart(doc))
  <1> DEFINE p == S!SarifStart(doc)
  <1>1. p.folds = {} /\ p.run = 1
    BY DEF S!SarifStart
  <1>2. DOMAIN doc.runs = 1 .. Len(doc.runs) /\ Len(doc.runs) \in Nat
    BY DEF LogListed, LogShaped, IsSequence
  <1> HIDE DEF p
  <1>3. Vouching(p) = {}
    BY <1>1, <1>2 DEF Vouching
  <1> QED BY <1>1, <1>3 DEF Owed, p

\* A walk that goes on keeps what its candidates stand for.
LEMMA OriginsStay ==
  ASSUME NEW p, NEW q, NEW c,
         \A r \in DOMAIN doc.runs : r < p.run => r < q.run,
         \A r \in DOMAIN doc.runs : \A i : Passed(p, r, i) => Passed(q, r, i)
  PROVE  FromResult(p, c) \/ FromRun(p, c) => FromResult(q, c) \/ FromRun(q, c)
  <1>1. FromResult(p, c) => FromResult(q, c)
    BY DEF FromResult
  <1>2. FromRun(p, c) => FromRun(q, c)
    BY DEF FromRun, Vouching
  <1> QED BY <1>1, <1>2

LEMMA StepOwes ==
  ASSUME LogListed(doc), LogFlagged(doc),
         Kept(parse), Found(parse), Owed(parse), S!SarifStep
  PROVE  Owed(parse')
  <1>0. DOMAIN parse = SarifFields
    BY DEF Kept
  <1>1. /\ DOMAIN doc.runs = 1 .. Len(doc.runs) /\ Len(doc.runs) \in Nat
        /\ \A k \in DOMAIN doc.runs : doc.runs[k].listed \in {"absent", "other", "array"}
        /\ \A k \in DOMAIN doc.runs : Flagged(doc.runs[k])
        /\ \A k \in DOMAIN doc.runs : Lists(doc.runs[k]) => DOMAIN doc.runs[k].results = 1 .. Len(doc.runs[k].results)
    <2>1. /\ IsSequence(doc.runs)
          /\ \A run \in Range(doc.runs) : run.listed \in {"absent", "other", "array"}
          /\ \A run \in Range(doc.runs) : run.listed = "array" => IsSequence(run.results)
      BY DEF LogListed, LogShaped
    <2>2. \A k \in DOMAIN doc.runs : doc.runs[k] \in Range(doc.runs)
      BY DEF Range
    <2>3. DOMAIN doc.runs = 1 .. Len(doc.runs) /\ Len(doc.runs) \in Nat
      BY <2>1 DEF IsSequence
    <2>4. ASSUME NEW k \in DOMAIN doc.runs
          PROVE  /\ doc.runs[k].listed \in {"absent", "other", "array"} /\ Flagged(doc.runs[k])
                 /\ Lists(doc.runs[k]) => DOMAIN doc.runs[k].results = 1 .. Len(doc.runs[k].results)
      BY <2>1, <2>2 DEF Lists, IsSequence, LogFlagged
    <2> QED BY <2>3, <2>4
  <1> SUFFICES ASSUME parse'.step \in {"run", "result"}, ~S!HasErrors(parse'.diagnostics)
               PROVE  /\ \A c \in parse'.folds : FromResult(parse', c) \/ FromRun(parse', c)
                      /\ \A r \in Vouching(parse') : S!CleanCandidate(doc.runs[r]) \in parse'.folds
    BY DEF Owed
  <1>2. CASE S!ScanRun
    <2> DEFINE k == parse.run
               run == doc.runs[k]
               vouched == Lists(run) /\ S!Vouches(run)
    <2>1. parse.step = "run" /\ k \in DOMAIN doc.runs
      BY <1>2 DEF S!ScanRun, S!InRuns
    <2>2. /\ parse'.step = "run" => parse'.run = k + 1
          /\ parse'.step = "result" => parse'.run = k /\ ~vouched
          /\ parse.diagnostics \subseteq parse'.diagnostics /\ parse.folds \subseteq parse'.folds
          /\ parse'.folds \subseteq parse.folds \cup (IF vouched THEN {S!CleanCandidate(run)} ELSE {})
          /\ (vouched /\ parse'.step = "run") => S!CleanCandidate(run) \in parse'.folds
      <3>1. CASE run.object
        <4>1. parse' = S!Scoped(parse, run, doc)
          BY <1>2, <3>1 DEF S!ScanRun, S!Run
        <4>2. run.listed \in {"absent", "other", "array"} /\ Flagged(run)
          BY <1>1, <2>1
        <4>3. vouched <=> run.listed = "array" /\ S!Vouches(run)
          BY <3>1 DEF Lists
        <4> HIDE DEF run, vouched
        <4>4. /\ parse'.step = "run" => parse'.run = k + 1
              /\ parse'.step = "result" => parse'.run = k
          BY <1>0, <2>1, <4>1, <4>2, ScopedKeeps
        <4>5. parse.diagnostics \subseteq parse'.diagnostics /\ parse.folds \subseteq parse'.folds
          BY <1>0, <2>1, <4>1, <4>2, ScopedFinds
        <4>6. LET q == S!Scoped(parse, run, doc)
                  some == run.listed = "array" /\ S!Vouches(run)
              IN /\ q.folds \subseteq parse.folds \cup (IF some THEN {S!CleanCandidate(run)} ELSE {})
                 /\ (some /\ q.step = "run" /\ ~S!HasErrors(q.diagnostics)) => S!CleanCandidate(run) \in q.folds
                 /\ some => q.step # "result"
          BY <1>0, <2>1, <4>2, ScopedOwes
        <4> QED BY <4>1, <4>3, <4>4, <4>5, <4>6
      <3>2. CASE ~run.object
        <4> DEFINE q == S!Diagnose(parse, {S!Error("invalid_run")})
        <4>1. parse' = S!NextRun(q)
          BY <1>2, <3>2 DEF S!ScanRun, S!Run
        <4>2. Alike(parse, q) /\ q.step = "run" /\ q.folds = parse.folds
          BY <1>0, <2>1, DiagnoseIsAlike DEF S!Diagnose, SarifFields
        <4>3. ~vouched
          BY <3>2 DEF Lists
        <4> HIDE DEF q, vouched
        <4> QED BY <1>0, <2>1, <4>1, <4>2, <4>3 DEF S!NextRun, Alike, SarifFields
      <3> QED BY <3>1, <3>2
    <2>3. ~S!HasErrors(parse.diagnostics)
      BY <2>2, ErrorsStay
    <2>4. k \in Nat /\ \A r \in DOMAIN doc.runs : r < k + 1 <=> (r < k \/ r = k)
      BY <1>1, <2>1
    <2>5. \A r \in DOMAIN doc.runs : \A i : Passed(parse, r, i) => Passed(parse', r, i)
      BY <2>1, <2>2, <2>4 DEF Passed
    <2>6. \A r \in DOMAIN doc.runs : r < parse.run => r < parse'.run
      BY <2>2, <2>4
    <2>7. Vouching(parse') = IF parse'.step = "run" /\ vouched THEN Vouching(parse) \cup {k} ELSE Vouching(parse)
      BY <2>1, <2>2, <2>4 DEF Vouching
    <2>8. /\ \A c \in parse.folds : FromResult(parse, c) \/ FromRun(parse, c)
          /\ \A r \in Vouching(parse) : S!CleanCandidate(doc.runs[r]) \in parse.folds
      BY <2>1, <2>3 DEF Owed
    <2>9. \A c \in parse.folds : FromResult(parse', c) \/ FromRun(parse', c)
      BY <2>5, <2>6, <2>8, OriginsStay
    <2> HIDE DEF vouched
    <2>10. ASSUME vouched PROVE FromRun(parse', S!CleanCandidate(run))
      BY <2>2, <2>7, <2>10 DEF FromRun
    <2>11. \A r \in Vouching(parse') : S!CleanCandidate(doc.runs[r]) \in parse'.folds
      BY <2>2, <2>7, <2>8
    <2> HIDE DEF run
    <2> QED BY <2>2, <2>9, <2>10, <2>11
  <1>3. CASE S!ScanResult
    <2> DEFINE k == parse.run
               run == doc.runs[k]
               n == parse.result
               result == run.results[n]
               q == S!Scanned(parse, run, result)
    <2>1. parse.step = "result" /\ k \in DOMAIN doc.runs /\ Lists(run) /\ n \in DOMAIN run.results
      BY <1>3 DEF S!ScanResult, Found, Kept
    <2>2. \/ parse' = q /\ q.step = "bound"
          \/ n = Len(run.results) /\ parse' = [S!NextRun(q) EXCEPT !.step = "run"] /\ q.step # "bound"
          \/ n # Len(run.results) /\ parse' = [q EXCEPT !.result = @ + 1] /\ q.step # "bound"
      BY <1>3, Zenon DEF S!ScanResult, S!Run
    <2>3. k \in Nat /\ n \in 1 .. Len(run.results)
      BY <1>1, <2>1
    <2> HIDE DEF run, result
    <2>4. Alike(parse, q) /\ q.folds \subseteq parse.folds \cup Due(run, result)
      BY <1>0, <2>1, ScannedIsAlike, ScannedOwes
    <2> HIDE DEF q
    <2>5. /\ parse'.diagnostics = q.diagnostics /\ parse'.folds = q.folds
          /\ parse.diagnostics \subseteq q.diagnostics /\ parse.folds \subseteq q.folds
          /\ parse'.step = "run" => parse'.run = k + 1
          /\ parse'.step = "result" => parse'.run = k /\ parse'.result = n + 1
      <3>1. CASE parse' = q /\ q.step = "bound"
        BY <1>0, <2>1, <2>4, <3>1 DEF Alike
      <3>2. CASE n = Len(run.results) /\ parse' = [S!NextRun(q) EXCEPT !.step = "run"] /\ q.step # "bound"
        BY <1>0, <2>1, <2>4, <3>2 DEF Alike, SarifFields, S!NextRun
      <3>3. CASE n # Len(run.results) /\ parse' = [q EXCEPT !.result = @ + 1] /\ q.step # "bound"
        BY <1>0, <2>1, <2>4, <3>3 DEF Alike, SarifFields
      <3> QED BY <2>2, <3>1, <3>2, <3>3
    <2>6. ~S!HasErrors(parse.diagnostics)
      BY <2>5, ErrorsStay
    <2>7. /\ \A c \in parse.folds : FromResult(parse, c) \/ FromRun(parse, c)
          /\ \A r \in Vouching(parse) : S!CleanCandidate(doc.runs[r]) \in parse.folds
      BY <2>1, <2>6 DEF Owed
    <2>8. \A r \in DOMAIN doc.runs : r < k => r < parse'.run
      BY <1>1, <2>3, <2>5
    <2>9. Passed(parse', k, n)
      <3>1. CASE parse'.step = "run"
        BY <2>3, <2>5, <3>1 DEF Passed
      <3>2. CASE parse'.step = "result"
        BY <2>3, <2>5, <3>2 DEF Passed
      <3> QED BY <3>1, <3>2
    <2>10. ASSUME NEW r \in DOMAIN doc.runs, NEW i \in DOMAIN doc.runs[r].results, Lists(doc.runs[r]),
                  Passed(parse, r, i)
           PROVE  Passed(parse', r, i)
      <3>1. r \in Nat /\ i \in Nat
        BY <1>1, <2>10
      <3>2. CASE r < k
        BY <2>8, <3>2 DEF Passed
      <3>3. CASE r = k /\ i < n
        <4>1. CASE parse'.step = "run"
          BY <2>3, <2>5, <3>3, <4>1 DEF Passed
        <4>2. CASE parse'.step = "result"
          <5>1. i < n + 1
            BY <2>3, <3>1, <3>3
          <5> QED BY <2>5, <3>3, <4>2, <5>1 DEF Passed
        <4> QED BY <4>1, <4>2
      <3> QED BY <2>1, <2>10, <3>2, <3>3 DEF Passed
    <2>11. \A c \in parse.folds : FromResult(parse', c) \/ FromRun(parse', c)
      <3> TAKE c \in parse.folds
      <3>1. FromResult(parse, c) => FromResult(parse', c)
        BY <2>10 DEF FromResult
      <3>2. FromRun(parse, c) => FromRun(parse', c)
        BY <2>8 DEF FromRun, Vouching
      <3> QED BY <2>7, <3>1, <3>2
    <2>12. \A c \in Due(run, result) : FromResult(parse', c)
      BY <2>1, <2>9 DEF FromResult, run, result
    <2>13. \A r \in Vouching(parse') : S!CleanCandidate(doc.runs[r]) \in parse'.folds
      <3> SUFFICES ASSUME NEW r \in Vouching(parse') PROVE r \in Vouching(parse)
        BY <2>5, <2>7
      <3>1. r \in DOMAIN doc.runs /\ r < parse'.run /\ Lists(doc.runs[r]) /\ S!Vouches(doc.runs[r]) /\ r \in Nat
        BY <1>1 DEF Vouching
      <3>2. r # k
        <4> SUFFICES ASSUME r = k PROVE FALSE
          OBVIOUS
        <4>1. run.results = <<>>
          BY <3>1 DEF S!Vouches, run
        <4> QED BY <2>1, <4>1
      <3>3. r < k
        BY <2>3, <2>5, <3>1, <3>2
      <3> QED BY <3>1, <3>3 DEF Vouching
    <2> QED BY <2>4, <2>5, <2>11, <2>12, <2>13
  <1> QED BY <1>2, <1>3 DEF S!SarifStep

\* What a result is due can be ranked, and is of its own identity.
LEMMA DueIs ==
  ASSUME NEW run, NEW result, NEW c \in Due(run, result)
  PROVE  /\ ~c.clean
         /\ c.disposition \in DOMAIN S!SarifRank /\ c.severity \in DOMAIN S!SeverityRank
  <1>1. PICK resource \in S!Resources(run, result) : c = S!Candidate(run, result, resource)
    BY DEF Due
  <1>2. ~c.clean /\ c.disposition = S!Disposition(result) /\ c.severity = S!Severity(run, result)
    BY <1>1 DEF S!Candidate
  <1>3. S!Disposition(result) \in DOMAIN S!SarifRank
    BY DEF S!Disposition, S!Dispositions, S!SarifRank
  <1>4. S!Severity(run, result) \in DOMAIN S!SeverityRank
    <2>1. \A level \in DOMAIN S!Levels : S!Levels[level] \in DOMAIN S!SeverityRank
      BY DEF S!Levels, S!SeverityRank
    <2>2. "UNKNOWN" \in DOMAIN S!SeverityRank
      BY DEF S!SeverityRank
    <2> QED BY <2>1, <2>2 DEF S!Severity
  <1> QED BY <1>2, <1>3, <1>4

LEMMA SarifRanks ==
  /\ \A w \in DOMAIN S!SarifRank : S!SarifRank[w] \in 0 .. 5
  /\ \A w \in DOMAIN S!SeverityRank : S!SeverityRank[w] \in 0 .. 5
  BY DEF S!SarifRank, S!SeverityRank

\* The results of one identity, over the runs of a log.
Own(key) ==
  UNION {{S!Candidate(run, result, key.resource) :
            result \in {r \in S!Range(run.results) :
                          /\ S!RecordId(run, r) = key.record
                          /\ key.resource \in S!Resources(run, r)}} :
         run \in {r \in S!Listed : r.driver = key.driver /\ r.category = key.context}}

\* The clean runs of one identity.
Vouched(key) ==
  {run \in S!Listed : S!Vouches(run) /\ S!Key(run, S!CleanRunRecord, S!ScopeResource(run)) = key}

\* A log read to its end: its candidates are its results and its clean runs.
LEMMA OwnedWhole ==
  ASSUME LogListed(doc), Kept(parse), Found(parse), Owed(parse), S!SarifDone,
         parse.step = "run", ~S!HasErrors(parse.diagnostics),
         NEW key \in {c.key : c \in parse.folds}
  PROVE  /\ {c \in parse.folds : c.key = key /\ ~c.clean} = Own(key)
         /\ {c \in parse.folds : c.key = key /\ c.clean} = {S!CleanCandidate(run) : run \in Vouched(key)}
         /\ \A c \in parse.folds : /\ c.disposition \in DOMAIN S!SarifRank
                                   /\ c.severity \in DOMAIN S!SeverityRank
                                   /\ c.clean \in BOOLEAN
  <1>1. /\ DOMAIN doc.runs = 1 .. Len(doc.runs) /\ Len(doc.runs) \in Nat
        /\ \A r \in DOMAIN doc.runs : r < parse.run
    <2>1. /\ DOMAIN doc.runs = 1 .. Len(doc.runs) /\ Len(doc.runs) \in Nat
          /\ parse.run \in 1 .. Len(doc.runs) + 1 /\ parse.run \notin DOMAIN doc.runs
      BY DEF LogListed, LogShaped, IsSequence, Kept, S!SarifDone, S!InRuns
    <2> QED BY <2>1
  <1>2. \A run : run \in S!Listed <=> \E r \in DOMAIN doc.runs : run = doc.runs[r] /\ Lists(run)
    BY DEF S!Listed, S!Range, Lists
  <1>3. \A run : S!CleanCandidate(run).clean = TRUE
        /\ S!CleanCandidate(run).key = S!Key(run, S!CleanRunRecord, S!ScopeResource(run))
        /\ S!CleanCandidate(run).disposition = "PASS" /\ S!CleanCandidate(run).severity = "UNKNOWN"
    BY DEF S!CleanCandidate
  <1>4. \A run, result, resource :
          /\ S!Candidate(run, result, resource).clean = FALSE
          /\ S!Candidate(run, result, resource).key = S!Key(run, S!RecordId(run, result), resource)
    BY DEF S!Candidate
  <1>5. \A c : FromRun(parse, c) <=> \E run \in S!Listed : S!Vouches(run) /\ c = S!CleanCandidate(run)
    BY <1>1, <1>2 DEF FromRun, Vouching
  <1>6. \A c : FromResult(parse, c) <=>
                 \E run \in S!Listed : \E result \in S!Range(run.results) : c \in Due(run, result)
    <2>1. \A r \in DOMAIN doc.runs : \A i : Passed(parse, r, i)
      BY <1>1 DEF Passed
    <2>2. \A results, result : result \in S!Range(results) <=> \E i \in DOMAIN results : result = results[i]
      BY DEF S!Range
    <2> QED BY <1>2, <2>1, <2>2 DEF FromResult
  <1>7. \A c \in parse.folds : FromResult(parse, c) \/ FromRun(parse, c)
    BY DEF Owed
  <1>8. \A c : FromRun(parse, c) => c \in parse.folds
    BY DEF Owed, FromRun
  <1>9. \A c : FromResult(parse, c) => c \in parse.folds
    BY DEF Found, FromResult
  <1>13. \E run, record, resource : key = S!Key(run, record, resource)
    <2>1. PICK c \in parse.folds : c.key = key
      OBVIOUS
    <2>2. CASE FromResult(parse, c)
      <3>1. PICK run \in S!Listed : \E result \in S!Range(run.results) : c \in Due(run, result)
        BY <1>6, <2>2
      <3> QED BY <1>4, <2>1, <3>1 DEF Due
    <2>3. CASE FromRun(parse, c)
      BY <1>3, <1>5, <2>1, <2>3
    <2> QED BY <1>7, <2>2, <2>3
  <1>10. {c \in parse.folds : c.key = key /\ ~c.clean} = Own(key)
    <2>1. ASSUME NEW c \in parse.folds, c.key = key, ~c.clean PROVE c \in Own(key)
      <3>1. FromResult(parse, c)
        BY <1>3, <1>5, <1>7, <2>1
      <3>6. PICK run \in S!Listed : \E result \in S!Range(run.results) : c \in Due(run, result)
        BY <1>6, <3>1
      <3>5. PICK result \in S!Range(run.results) : c \in Due(run, result)
        BY <3>6
      <3>2. PICK resource \in S!Resources(run, result) : c = S!Candidate(run, result, resource)
        BY <3>5 DEF Due
      <3>3. key = S!Key(run, S!RecordId(run, result), resource)
        BY <1>4, <2>1, <3>2
      <3>4. /\ key.driver = run.driver /\ key.record = S!RecordId(run, result)
            /\ key.resource = resource /\ key.context = run.category
        BY <3>3 DEF S!Key
      <3> QED BY <3>2, <3>4 DEF Own
    <2>2. ASSUME NEW c \in Own(key) PROVE c \in parse.folds /\ c.key = key /\ ~c.clean
      <3>5. PICK run \in S!Listed :
              /\ run.driver = key.driver /\ run.category = key.context
              /\ \E result \in S!Range(run.results) :
                   /\ S!RecordId(run, result) = key.record /\ key.resource \in S!Resources(run, result)
                   /\ c = S!Candidate(run, result, key.resource)
        BY DEF Own
      <3>1. PICK result \in S!Range(run.results) :
              /\ S!RecordId(run, result) = key.record /\ key.resource \in S!Resources(run, result)
              /\ c = S!Candidate(run, result, key.resource)
        BY <3>5
      <3>2. c \in Due(run, result)
        BY <3>1 DEF Due
      <3>3. c \in parse.folds
        BY <1>6, <1>9, <3>2
      <3>4. c.key = S!Key(run, S!RecordId(run, result), key.resource) /\ ~c.clean
        BY <1>4, <3>1
      <3>6. S!Key(run, S!RecordId(run, result), key.resource) = key
        BY <1>13, <3>1, <3>5 DEF S!Key
      <3> QED BY <3>3, <3>4, <3>6
    <2> QED BY <2>1, <2>2
  <1>11. {c \in parse.folds : c.key = key /\ c.clean} = {S!CleanCandidate(run) : run \in Vouched(key)}
    <2>1. \A c : FromResult(parse, c) => ~c.clean
      BY <1>6, DueIs
    <2>2. ASSUME NEW c \in parse.folds, c.key = key, c.clean
          PROVE  c \in {S!CleanCandidate(run) : run \in Vouched(key)}
      <3>1. PICK run \in S!Listed : S!Vouches(run) /\ c = S!CleanCandidate(run)
        BY <1>5, <1>7, <2>1, <2>2
      <3>2. run \in Vouched(key)
        BY <1>3, <2>2, <3>1 DEF Vouched
      <3> QED BY <3>1, <3>2
    <2>3. ASSUME NEW run \in Vouched(key)
          PROVE  S!CleanCandidate(run) \in {c \in parse.folds : c.key = key /\ c.clean}
      <3>1. run \in S!Listed /\ S!Vouches(run) /\ S!Key(run, S!CleanRunRecord, S!ScopeResource(run)) = key
        BY DEF Vouched
      <3> QED BY <1>3, <1>5, <1>8, <3>1
    <2> QED BY <2>2, <2>3
  <1>12. ASSUME NEW c \in parse.folds
         PROVE  c.disposition \in DOMAIN S!SarifRank /\ c.severity \in DOMAIN S!SeverityRank /\ c.clean \in BOOLEAN
    <2>1. CASE FromResult(parse, c)
      <3>3. PICK run \in S!Listed : \E result \in S!Range(run.results) : c \in Due(run, result)
        BY <1>6, <2>1
      <3>1. PICK result \in S!Range(run.results) : c \in Due(run, result)
        BY <3>3
      <3>2. c.clean = FALSE
        BY <1>4, <3>1 DEF Due
      <3> QED BY <3>1, <3>2, DueIs
    <2>2. CASE FromRun(parse, c)
      <3>1. "PASS" \in DOMAIN S!SarifRank /\ "UNKNOWN" \in DOMAIN S!SeverityRank
        BY DEF S!SarifRank, S!SeverityRank
      <3> QED BY <1>3, <1>5, <2>2, <3>1
    <2> QED BY <1>7, <2>1, <2>2
  <1> QED BY <1>10, <1>11, <1>12

\* In a log that came to its end a PASS of a clean run is vouched for, and every
\* other observation owes its facts to results of its identity.
LEMMA LogVouched ==
  ASSUME LogListed(doc), Kept(parse), Found(parse), Owed(parse), S!SarifDone
  PROVE  S!PassesVouched /\ S!ResultsOwn
  <1>1. CASE ~(parse.step = "run" /\ ~S!HasErrors(parse.diagnostics))
    <2>1. S!Observed = {}
      <3>1. CASE parse.step \in {"rejected", "bound"}
        BY <3>1 DEF S!Observed, S!SarifOutput, S!Refusal
      <3>2. CASE parse.step \notin {"rejected", "bound"}
        <4>1. S!HasErrors(parse.diagnostics)
          BY <1>1, <3>2 DEF S!SarifDone
        <4>2. S!HasErrors(parse.diagnostics \cup S!Unread(parse))
          BY <4>1, ErrorsStay
        <4> QED BY <3>2, <4>2 DEF S!Observed, S!SarifOutput, S!Reading
      <3> QED BY <3>1, <3>2
    <2> QED BY <2>1 DEF S!PassesVouched, S!ResultsOwn
  <1>2. CASE parse.step = "run" /\ ~S!HasErrors(parse.diagnostics)
    <2>1. S!Observed \subseteq S!Assembled(parse)
      BY <1>2 DEF S!Observed, S!SarifOutput, S!Reading
    <2> SUFFICES ASSUME NEW o \in S!Observed
                 PROVE  /\ o.clean => /\ o.disposition = "PASS" /\ Vouched(o.key) # {}
                                      /\ o.at = S!EarliestOf({S!RunClock(run) : run \in Vouched(o.key)})
                        /\ IF Own(o.key) = {} THEN o.clean
                           ELSE /\ \E c \in Own(o.key) : c.disposition = o.disposition
                                /\ \E c \in Own(o.key) : c.severity = o.severity
                                /\ o.at = S!EarliestOf({c.at : c \in Own(o.key)})
      BY Zenon DEF S!PassesVouched, S!ResultsOwn, Own, Vouched
    <2>2. PICK key \in {c.key : c \in parse.folds} : o = S!Assemble(key, parse.folds)
      BY <2>1 DEF S!Assembled
    <2> DEFINE some == {c \in parse.folds : c.key = key}
               own == {c \in some : ~c.clean}
               candidates == IF own = {} THEN some ELSE own
    <2>3. /\ o.key = key /\ o.disposition = S!Highest({c.disposition : c \in candidates}, S!SarifRank)
          /\ o.severity = S!Highest({c.severity : c \in candidates}, S!SeverityRank)
          /\ o.at = S!EarliestOf({c.at : c \in candidates})
          /\ o.clean = \A c \in candidates : c.clean
      BY <2>2 DEF S!Assemble, S!Yield
    <2>4. /\ {c \in parse.folds : c.key = key /\ ~c.clean} = Own(key)
          /\ {c \in parse.folds : c.key = key /\ c.clean} = {S!CleanCandidate(run) : run \in Vouched(key)}
          /\ \A c \in parse.folds : /\ c.disposition \in DOMAIN S!SarifRank
                                    /\ c.severity \in DOMAIN S!SeverityRank
                                    /\ c.clean \in BOOLEAN
      BY <1>2, OwnedWhole
    <2>5. own = Own(key) /\ some # {}
      BY <2>4
    <2>6. candidates # {} /\ candidates \subseteq parse.folds
      BY <2>5
    <2>7. CASE own = {}
      <3>1. candidates = {S!CleanCandidate(run) : run \in Vouched(key)} /\ \A c \in candidates : c.clean
        BY <2>4, <2>7
      <3> HIDE DEF candidates
      <3>2. {c.disposition : c \in candidates} = {"PASS"}
            /\ {c.at : c \in candidates} = {S!RunClock(run) : run \in Vouched(key)}
        <4>1. \A run : S!CleanCandidate(run).disposition = "PASS" /\ S!CleanCandidate(run).at = S!RunClock(run)
          BY DEF S!CleanCandidate
        <4> QED BY <2>6, <3>1, <4>1
      <3>3. Vouched(key) # {}
        BY <2>6, <3>1
      <3>4. S!Highest({"PASS"}, S!SarifRank) = "PASS"
        BY DEF S!Highest, S!SarifRank
      <3> QED BY <2>3, <2>5, <2>7, <3>1, <3>2, <3>3, <3>4
    <2>8. CASE own # {}
      <3>1. candidates = Own(key) /\ ~\A c \in candidates : c.clean
        BY <2>5, <2>6, <2>8
      <3>2. ~o.clean
        BY <2>3, <3>1
      <3> HIDE DEF candidates, own
      <3>3. o.disposition \in {c.disposition : c \in candidates}
        <4> DEFINE values == {c.disposition : c \in candidates}
        <4>1. values # {} /\ \A w \in values : S!SarifRank[w] \in 0 .. 5
          BY <2>4, <2>6, SarifRanks
        <4> HIDE DEF values
        <4>2. S!Highest(values, S!SarifRank) \in values
          BY <4>1, RankedTop
        <4> QED BY <2>3, <4>2 DEF values
      <3>4. o.severity \in {c.severity : c \in candidates}
        <4> DEFINE values == {c.severity : c \in candidates}
        <4>1. values # {} /\ \A w \in values : S!SeverityRank[w] \in 0 .. 5
          BY <2>4, <2>6, SarifRanks
        <4> HIDE DEF values
        <4>2. S!Highest(values, S!SeverityRank) \in values
          BY <4>1, RankedTop
        <4> QED BY <2>3, <4>2 DEF values
      <3> QED BY <2>3, <2>6, <3>1, <3>2, <3>3, <3>4
    <2> QED BY <2>7, <2>8
  <1> QED BY <1>1, <1>2

-----------------------------------------------------------------------------
(* What the walks promise, of every run over documents of these shapes.     *)

\* What a walk has kept, it has kept of the document it still reads.
LEMMA DocumentStays ==
  ASSUME doc' = doc, NEW p
  PROVE  /\ LogListed(doc)' <=> LogListed(doc)
         /\ HdfShaped(doc)' <=> HdfShaped(doc)
         /\ Kept(p)' <=> Kept(p)
         /\ Found(p)' <=> Found(p)
         /\ HdfKept(p)' <=> HdfKept(p)
         /\ LogFlagged(doc)' <=> LogFlagged(doc)
         /\ Owed(p)' <=> Owed(p)
  <1>1. Profiled(p)' <=> Profiled(p)
    BY DEF Profiled
  <1>2. \A k : FailedUpTo(k)' = FailedUpTo(k)
    BY DEF FailedUpTo
  <1>3. Kept(p)' <=> Kept(p)
    BY <1>2 DEF Kept
  <1>4. Found(p)' <=> Found(p)
    BY DEF Found
  <1>5. \A profile, control : Told(p, profile, control)' <=> Told(p, profile, control)
    BY DEF Told, Copy
  <1>6. ReadIn(p)' <=> ReadIn(p)
    BY <1>5 DEF ReadIn
  <1>7. HdfKept(p)' <=> HdfKept(p)
    BY <1>1, <1>6 DEF HdfKept
  <1>8. Vouching(p)' = Vouching(p)
    BY DEF Vouching, S!Vouches
  <1>9. \A c : (FromResult(p, c)' <=> FromResult(p, c)) /\ (FromRun(p, c)' <=> FromRun(p, c))
    BY <1>8 DEF FromResult, FromRun
  <1>10. Owed(p)' <=> Owed(p)
    BY <1>8, <1>9 DEF Owed
  <1> QED BY <1>3, <1>4, <1>7, <1>10

\* What a walk keeps of its document.
Walking ==
  /\ phase = "sarif" => LogListed(doc) /\ Kept(parse) /\ Found(parse)
  /\ phase = "hdf" => HdfShaped(doc) /\ HdfKept(parse)
  /\ phase = "cyclonedx" => CdxListed(doc) /\ CdxKept(parse, doc)

\* The documents of these files are of the shapes the walks are told of.
Shaped(Files) ==
  \A f \in Files :
    /\ f.content.kind = "sarif" => LogListed(f.content.body)
    /\ f.content.kind = "hdf" => HdfShaped(f.content.body)
    /\ f.content.kind = "cyclonedx" => CdxListed(f.content.body)

\* A walk begins with what it keeps.
LEMMA WalkBegins ==
  ASSUME NEW CONSTANT Files, Shaped(Files), supplied \in Seq(Files), Begin
  PROVE  Walking'
  <1>1. /\ at \in DOMAIN supplied /\ phase' = Adapter(File) /\ doc' = Body
        /\ phase' = "sarif" => parse' = S!SarifStart(doc')
        /\ phase' = "hdf" => parse' = H!HdfStart(doc')
        /\ phase' = "cyclonedx" => parse' = D!CdxStart(doc')
        /\ Adapter(File) = File.content.kind
    BY DEF Begin, Walked
  <1>2. File \in Files
    BY <1>1 DEF File
  <1>3. /\ phase' = "sarif" => LogListed(doc')
        /\ phase' = "hdf" => HdfShaped(doc')
        /\ phase' = "cyclonedx" => CdxListed(doc')
    BY <1>1, <1>2 DEF Shaped, Body
  <1>4. ASSUME phase' = "sarif" PROVE (LogListed(doc) /\ Kept(parse) /\ Found(parse))'
    <2>1. (LogShaped(doc) => Kept(S!SarifStart(doc)))'
      BY StartKeeps, PTL
    <2>2. (LogListed(doc) => Found(S!SarifStart(doc)))'
      BY StartFinds, PTL
    <2>3. LogListed(doc') => LogShaped(doc')
      BY DEF LogListed
    <2> QED BY <1>1, <1>3, <1>4, <2>1, <2>2, <2>3
  <1>5. ASSUME phase' = "hdf" PROVE (HdfShaped(doc) /\ HdfKept(parse))'
    <2>1. (HdfShaped(doc) => HdfKept(H!HdfStart(doc)))'
      BY HdfStartKeeps, PTL
    <2> QED BY <1>1, <1>3, <1>5, <2>1
  <1>6. ASSUME phase' = "cyclonedx" PROVE (CdxListed(doc) /\ CdxKept(parse, doc))'
    BY <1>1, <1>3, <1>6, CdxStartKeeps
  <1> QED BY <1>4, <1>5, <1>6 DEF Walking

\* A step of a walk keeps it.
LEMMA WalkGoesOn ==
  ASSUME Walking, Walk
  PROVE  Walking'
  <1>1. /\ phase' = phase /\ (phase = "sarif" => S!SarifStep) /\ (phase = "hdf" => H!HdfStep)
        /\ phase = "cyclonedx" => D!CdxStep
    BY DEF Walk
  <1>2. ASSUME phase = "sarif" PROVE (LogListed(doc) /\ Kept(parse) /\ Found(parse))'
    <2>1. LogListed(doc) /\ Kept(parse) /\ Found(parse) /\ LogShaped(doc)
      BY <1>2 DEF Walking, LogListed
    <2>2. Kept(parse') /\ Found(parse') /\ doc' = doc
      BY <1>1, <1>2, <2>1, StepKeeps, StepFinds
    <2> QED BY <2>1, <2>2, DocumentStays
  <1>3. ASSUME phase = "hdf" PROVE (HdfShaped(doc) /\ HdfKept(parse))'
    <2>1. HdfShaped(doc) /\ HdfKept(parse)
      BY <1>3 DEF Walking
    <2>2. HdfKept(parse') /\ doc' = doc
      BY <1>1, <1>3, <2>1, IndexKeeps, ClimbKeeps, OpenKeeps, ScanControlKeeps DEF H!HdfStep
    <2> QED BY <2>1, <2>2, DocumentStays
  <1>4. ASSUME phase = "cyclonedx" PROVE (CdxListed(doc) /\ CdxKept(parse, doc))'
    <2>1. CdxListed(doc) /\ CdxKept(parse, doc)
      BY <1>4 DEF Walking
    <2>2. D!Walking(parse) /\ parse' = D!Stepped(parse, doc) /\ doc' = doc
      BY <1>1, <1>4 DEF D!CdxStep
    <2>3. CdxKept(D!Stepped(parse, doc), doc)
      BY <2>1, <2>2, CdxStepTells
    <2> QED BY <2>1, <2>2, <2>3
  <1> QED BY <1>1, <1>2, <1>3, <1>4 DEF Walking

\* A walk under way has kept what it has read, in every run over such documents.
THEOREM WalksKept ==
  ASSUME NEW CONSTANT Files, Shaped(Files)
  PROVE  Spec(Files) => []Walking
  <1> DEFINE IInv == supplied \in Seq(Files) /\ Walking
  <1>1. ASSUME NEW files \in Seq(Files), NEW record \in BOOLEAN, Start(files, record)
        PROVE  IInv
    BY <1>1 DEF Start, Walking
  <1>2. ASSUME IInv, [Next]_vars PROVE IInv'
    <2>1. CASE Open \/ End
      BY <1>2, <2>1 DEF Open, End, Take, Walking
    <2>2. CASE Begin
      <3>1. supplied' = supplied
        BY <2>2 DEF Begin
      <3> QED BY <1>2, <2>2, <3>1, WalkBegins
    <2>3. CASE Walk
      <3>1. supplied' = supplied
        BY <2>3 DEF Walk
      <3> QED BY <1>2, <2>3, <3>1, WalkGoesOn
    <2>4. CASE Decide \/ UNCHANGED vars
      <3>1. /\ supplied' = supplied /\ doc' = doc /\ parse' = parse /\ (phase' = phase \/ phase' = "done")
        BY <2>4 DEF Decide, vars
      <3> QED BY <1>2, <3>1, DocumentStays DEF Walking
    <2> QED BY <1>2, <2>1, <2>2, <2>3, <2>4 DEF Next
  <1>3. (\E files \in Seq(Files), record \in BOOLEAN : Start(files, record)) => IInv
    BY <1>1
  <1>4. Spec(Files) => []IInv
    BY <1>2, <1>3, PTL DEF Spec
  <1> QED BY <1>4, PTL

\* A failure the producer reports is open, whatever it says beside it: in a SARIF log
\* that came to its end, on every resource it names; in an HDF document, of every
\* control that failed on a copy left in force; in a CycloneDX bill, for every
\* statement of every record.
THEOREM FindingsOpen ==
  ASSUME NEW CONSTANT Files, Shaped(Files)
  PROVE  Spec(Files) => []FindingsStayOpen
  <1>1. Walking => FindingsStayOpen
    <2> SUFFICES ASSUME Walking PROVE FindingsStayOpen
      OBVIOUS
    <2>1. SarifRead => S!FindingsRead
      BY LogFindingsOpen DEF Walking, SarifRead
    <2>2. HdfRead => H!FailuresWin
      BY CopyFailureWins DEF Walking, HdfRead
    <2>3. CdxRead => D!StatementsOpen
      BY StatementsFound DEF Walking, CdxRead
    <2> QED BY <2>1, <2>2, <2>3 DEF FindingsStayOpen
  <1> QED BY <1>1, WalksKept, PTL

\* The copies of a control are one control, under the root its links lead to: and
\* the overlays of every copy are on its observation.
THEOREM OverlaysFold ==
  ASSUME NEW CONSTANT Files, Shaped(Files)
  PROVE  Spec(Files) => []OverlaysFoldToOneControl
  <1>1. Walking => OverlaysFoldToOneControl
    <2> SUFFICES ASSUME Walking, HdfRead PROVE H!RootsTraced /\ H!GroupsKept
      BY DEF OverlaysFoldToOneControl
    <2>1. HdfShaped(doc) /\ HdfKept(parse) /\ H!HdfDone
      BY DEF Walking, HdfRead
    <2> QED BY <2>1, RootsFound, CopyGroupsKept
  <1> QED BY <1>1, WalksKept, PTL

\* What a walk has kept of the evidence its document gives.
Vouchsafed ==
  /\ phase = "sarif" => LogFlagged(doc) /\ Owed(parse)
  /\ phase = "cyclonedx" => CdxNested(doc) /\ Traced(parse, doc) /\ Exact(parse, doc)

\* The documents of these files say what they say of the scan in a shape the
\* walks are told of.
Attested(Files) ==
  \A f \in Files :
    /\ f.content.kind = "sarif" => LogFlagged(f.content.body)
    /\ f.content.kind = "cyclonedx" => CdxNested(f.content.body)

\* A walk keeps the evidence it has read, in every run over such documents.
LEMMA EvidenceKept ==
  ASSUME NEW CONSTANT Files, Shaped(Files), Attested(Files)
  PROVE  Spec(Files) => [](Walking /\ Vouchsafed)
  <1> DEFINE IInv == supplied \in Seq(Files) /\ Vouchsafed
  <1>1. ASSUME NEW files \in Seq(Files), NEW record \in BOOLEAN, Start(files, record)
        PROVE  IInv
    BY <1>1 DEF Start, Vouchsafed
  <1>2. ASSUME Walking, IInv, [Next]_vars PROVE IInv'
    <2>1. CASE Open \/ End
      BY <1>2, <2>1 DEF Open, End, Take, Vouchsafed
    <2>2. CASE Begin
      <3>1. /\ at \in DOMAIN supplied /\ phase' = Adapter(File) /\ doc' = Body /\ supplied' = supplied
            /\ phase' = "sarif" => parse' = S!SarifStart(doc')
            /\ phase' = "cyclonedx" => parse' = D!CdxStart(doc')
            /\ Adapter(File) = File.content.kind
        BY <2>2 DEF Begin, Walked
      <3>2. File \in Files
        BY <1>2, <3>1 DEF File
      <3>3. ASSUME phase' = "sarif" PROVE (LogFlagged(doc) /\ Owed(parse))'
        <4>1. (LogListed(doc) => Owed(S!SarifStart(doc)))'
          BY StartOwes, PTL
        <4>2. LogFlagged(doc') /\ LogListed(doc')
          BY <3>1, <3>2, <3>3 DEF Shaped, Attested, Body
        <4> QED BY <3>1, <3>3, <4>1, <4>2
      <3>4. ASSUME phase' = "cyclonedx" PROVE (CdxNested(doc) /\ Traced(parse, doc) /\ Exact(parse, doc))'
        <4>1. CdxNested(doc')
          BY <3>1, <3>2, <3>4 DEF Attested, Body
        <4> QED BY <3>1, <3>4, <4>1, CdxStartTraced, CdxStartExact
      <3> QED BY <1>2, <3>1, <3>3, <3>4 DEF Vouchsafed
    <2>3. CASE Walk
      <3>1. /\ phase' = phase /\ supplied' = supplied /\ (phase = "sarif" => S!SarifStep)
            /\ phase = "cyclonedx" => D!CdxStep
        BY <2>3 DEF Walk
      <3>2. ASSUME phase = "sarif" PROVE (LogFlagged(doc) /\ Owed(parse))'
        <4>1. LogListed(doc) /\ Kept(parse) /\ Found(parse) /\ LogFlagged(doc) /\ Owed(parse) /\ doc' = doc
          BY <1>2, <3>1, <3>2 DEF Walking, Vouchsafed, S!SarifStep, S!ScanRun, S!ScanResult
        <4>2. Owed(parse')
          BY <3>1, <3>2, <4>1, StepOwes
        <4> QED BY <4>1, <4>2, DocumentStays
      <3>3. ASSUME phase = "cyclonedx" PROVE (CdxNested(doc) /\ Traced(parse, doc) /\ Exact(parse, doc))'
        <4>1. /\ CdxListed(doc) /\ CdxKept(parse, doc)
              /\ CdxNested(doc) /\ Traced(parse, doc) /\ Exact(parse, doc)
          BY <1>2, <3>3 DEF Walking, Vouchsafed
        <4>2. D!Walking(parse) /\ parse' = D!Stepped(parse, doc) /\ doc' = doc
          BY <3>1, <3>3 DEF D!CdxStep
        <4>3. Traced(D!Stepped(parse, doc), doc) /\ Exact(D!Stepped(parse, doc), doc)
          BY <4>1, <4>2, CdxStepTraced, CdxStepExact
        <4> QED BY <4>1, <4>2, <4>3
      <3> QED BY <1>2, <3>1, <3>2, <3>3 DEF Vouchsafed
    <2>4. CASE Decide \/ UNCHANGED vars
      <3>1. /\ supplied' = supplied /\ doc' = doc /\ parse' = parse /\ (phase' = phase \/ phase' = "done")
        BY <2>4 DEF Decide, vars
      <3> QED BY <1>2, <3>1, DocumentStays DEF Vouchsafed
    <2> QED BY <1>2, <2>1, <2>2, <2>3, <2>4 DEF Next
  <1>3. (\E files \in Seq(Files), record \in BOOLEAN : Start(files, record)) => IInv
    BY <1>1
  <1>4. Spec(Files) => []Walking
    BY WalksKept
  <1>5. Spec(Files) => []IInv
    BY <1>2, <1>3, <1>4, PTL DEF Spec
  <1> QED BY <1>4, <1>5, PTL

\* No PASS without the evidence for it: a clean run of a SARIF log that its
\* invocations vouch for, or results of one identity that found nothing; and of a
\* CycloneDX bill a record nobody judged, for a component listed beside the
\* subject, at any depth, of one package, no install of which the record clears.
THEOREM PassVouched ==
  ASSUME NEW CONSTANT Files, Shaped(Files), Attested(Files)
  PROVE  Spec(Files) => []PassIsVouched
  <1>1. Walking /\ Vouchsafed => PassIsVouched
    <2> SUFFICES ASSUME Walking, Vouchsafed PROVE PassIsVouched
      OBVIOUS
    <2>1. SarifRead => S!PassesVouched /\ S!ResultsOwn
      BY LogVouched DEF Walking, Vouchsafed, SarifRead
    <2>2. CdxRead => D!MatchIsEvidence
      BY EvidenceFound DEF Walking, Vouchsafed, CdxRead
    <2> QED BY <2>1, <2>2 DEF PassIsVouched
  <1> QED BY <1>1, EvidenceKept, PTL

\* A bill that came to its end shows what it has to show, and no more: a finding for
\* each identity its statements name, folded of those statements, and the bill
\* itself, which passes exactly when a match ran for an entry of it.
THEOREM BillShown ==
  ASSUME NEW CONSTANT Files, Shaped(Files), Attested(Files)
  PROVE  Spec(Files) => [](CdxRead /\ D!Imports => D!Observed = Shown(doc))
  <1>1. Walking /\ Vouchsafed => (CdxRead /\ D!Imports => D!Observed = Shown(doc))
    BY ShowsAll DEF Walking, Vouchsafed, CdxRead
  <1> QED BY <1>1, EvidenceKept, PTL

\* The records of a bill are ordered.
CdxWorded(document) == \A v \in D!Range(document.vulnerabilities) : v.text \in Nat

\* The order of a bill is lost: it shows what it shows with its components, at
\* every depth, its records and their entries in any other order.
THEOREM OrderFree ==
  ASSUME NEW CONSTANT Files, Shaped(Files), Attested(Files), NEW CONSTANT other, CdxListed(other)
  PROVE  Spec(Files) => [](CdxRead /\ D!Imports /\ CdxWorded(doc) /\ Shuffled(doc, other)
                             => D!Observed = Shown(other))
  <1>1. ASSUME Walking, Vouchsafed, CdxRead, D!Imports, CdxWorded(doc), Shuffled(doc, other)
        PROVE  D!Observed = Shown(other)
    <2>1. /\ CdxListed(doc) /\ CdxKept(parse, doc) /\ Traced(parse, doc) /\ Exact(parse, doc)
      BY <1>1 DEF Walking, Vouchsafed, CdxRead
    <2>2. D!Observed = Shown(doc)
      BY <1>1, <2>1, ShowsAll
    <2>3. Tallied(parse, doc) /\ parse.folds = Stated(doc)
      BY <1>1, <2>1, AllStated DEF CdxKept, D!Imports
    <2>4. IsFiniteSet(Stated(doc))
      BY <2>3 DEF Tallied
    <2>5. Shown(doc) = Shown(other)
      BY <1>1, <2>1, <2>4, ShuffleShows DEF CdxWorded
    <2> QED BY <2>2, <2>5
  <1> QED BY <1>1, EvidenceKept, PTL

\* An upgrade of every package, and of the image that carries them, leaves every
\* finding on a package where it was.
THEOREM RowsOutlive ==
  ASSUME NEW CONSTANT Files, Shaped(Files), Attested(Files), NEW CONSTANT other
  PROVE  Spec(Files) => [](CdxRead /\ D!Imports /\ Upgraded(doc, other)
                             => RowKeys(D!Observed) = RowKeys(Shown(other)))
  <1>1. ASSUME Walking, Vouchsafed, CdxRead, D!Imports, Upgraded(doc, other)
        PROVE  RowKeys(D!Observed) = RowKeys(Shown(other))
    <2>1. /\ CdxListed(doc) /\ CdxKept(parse, doc) /\ Traced(parse, doc) /\ Exact(parse, doc)
      BY <1>1 DEF Walking, Vouchsafed, CdxRead
    <2>2. D!Observed = Shown(doc)
      BY <1>1, <2>1, ShowsAll
    <2>3. IsFiniteSet(CarriersOf(Whole(doc)))
      BY <1>1, <2>1 DEF Exact, D!Imports
    <2>4. RowKeys(Shown(doc)) = RowKeys(Shown(other))
      BY <1>1, <2>3, UpgradeShows
    <2> QED BY <2>2, <2>4
  <1> QED BY <1>1, EvidenceKept, PTL

\* What a walk has found to fit, of a bill of the parts the model gives one.
Fitted ==
  phase = "cyclonedx" => CdxFormed(doc) /\ Cleared(parse, doc)

\* The bills of these files are of the parts the model gives one.
Formed(Files) == \A f \in Files : f.content.kind = "cyclonedx" => CdxFormed(f.content.body)

\* A walk keeps what it has found to fit, in every run over such bills.
LEMMA FitKept ==
  ASSUME NEW CONSTANT Files, Shaped(Files), Attested(Files), Formed(Files)
  PROVE  Spec(Files) => [](Walking /\ Vouchsafed /\ Fitted)
  <1> DEFINE IInv == supplied \in Seq(Files) /\ Fitted
  <1>1. ASSUME NEW files \in Seq(Files), NEW record \in BOOLEAN, Start(files, record)
        PROVE  IInv
    BY <1>1 DEF Start, Fitted
  <1>2. ASSUME Walking, Vouchsafed, IInv, [Next]_vars PROVE IInv'
    <2>1. CASE Open \/ End
      BY <1>2, <2>1 DEF Open, End, Take, Fitted
    <2>2. CASE Begin
      <3>1. /\ at \in DOMAIN supplied /\ phase' = Adapter(File) /\ doc' = Body /\ supplied' = supplied
            /\ phase' = "cyclonedx" => parse' = D!CdxStart(doc')
            /\ Adapter(File) = File.content.kind
        BY <2>2 DEF Begin, Walked
      <3>2. File \in Files
        BY <1>2, <3>1 DEF File
      <3>3. ASSUME phase' = "cyclonedx" PROVE (CdxFormed(doc) /\ Cleared(parse, doc))'
        <4>1. CdxFormed(doc')
          BY <3>1, <3>2, <3>3 DEF Formed, Body
        <4> QED BY <3>1, <3>3, <4>1, StartCleared
      <3> QED BY <1>2, <3>1, <3>3 DEF Fitted
    <2>3. CASE Walk
      <3>1. /\ phase' = phase /\ supplied' = supplied /\ (phase = "cyclonedx" => D!CdxStep)
        BY <2>3 DEF Walk
      <3>2. ASSUME phase = "cyclonedx" PROVE (CdxFormed(doc) /\ Cleared(parse, doc))'
        <4>1. /\ CdxListed(doc) /\ CdxKept(parse, doc) /\ CdxNested(doc) /\ Traced(parse, doc)
              /\ Exact(parse, doc) /\ CdxFormed(doc) /\ Cleared(parse, doc)
          BY <1>2, <3>2 DEF Walking, Vouchsafed, Fitted
        <4>2. D!Walking(parse) /\ parse' = D!Stepped(parse, doc) /\ doc' = doc
          BY <3>1, <3>2 DEF D!CdxStep
        <4>3. Cleared(D!Stepped(parse, doc), doc)
          BY <4>1, <4>2, StepCleared
        <4> QED BY <4>1, <4>2, <4>3
      <3> QED BY <1>2, <3>1, <3>2 DEF Fitted
    <2>4. CASE Decide \/ UNCHANGED vars
      <3>1. /\ supplied' = supplied /\ doc' = doc /\ parse' = parse /\ (phase' = phase \/ phase' = "done")
        BY <2>4 DEF Decide, vars
      <3> QED BY <1>2, <3>1 DEF Fitted
    <2> QED BY <1>2, <2>1, <2>2, <2>3, <2>4 DEF Next
  <1>3. (\E files \in Seq(Files), record \in BOOLEAN : Start(files, record)) => IInv
    BY <1>1
  <1>4. Spec(Files) => [](Walking /\ Vouchsafed)
    BY EvidenceKept
  <1>5. Spec(Files) => []IInv
    BY <1>2, <1>3, <1>4, PTL DEF Spec
  <1> QED BY <1>4, <1>5, PTL

\* The order of a bill is lost: read again with its components, at every depth, its
\* records and their entries reversed, it shows the observations it showed, severity
\* by severity and text by text, once that second reading is at its end.
THEOREM OrderLost ==
  ASSUME NEW CONSTANT Files, Shaped(Files), Attested(Files), Formed(Files)
  PROVE  Spec(Files) => []OrderIsLost
  <1>1. Walking /\ Vouchsafed /\ Fitted => OrderIsLost
    BY TurnedShows DEF Walking, Vouchsafed, Fitted, OrderIsLost, CdxRead
  <1> QED BY <1>1, FitKept, PTL

\* A package keeps its row: read again with every package one release on, in the
\* image that carries them retagged, a bill has its findings on the same packages.
THEOREM RowsKept ==
  ASSUME NEW CONSTANT Files, Shaped(Files), Attested(Files), Formed(Files)
  PROVE  Spec(Files) => []RowsOutliveUpgrades
  <1>1. Walking /\ Vouchsafed /\ Fitted => RowsOutliveUpgrades
    BY RaisedShows DEF Walking, Vouchsafed, Fitted, RowsOutliveUpgrades, CdxRead
  <1> QED BY <1>1, FitKept, PTL

=============================================================================
