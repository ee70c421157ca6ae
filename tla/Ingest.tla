------------------------------- MODULE Ingest -------------------------------
(***************************************************************************)
(* One run over the artifacts an operator supplies: ingest_stig_artifact   *)
(* (adapters/stig.py) chooses the adapter of each file by its name and     *)
(* content and takes one reading of it, and _ingest_all                    *)
(* (reports/records.py) decides from all the readings whether the run      *)
(* stops, what the report carries and which failures it records.           *)
(*                                                                         *)
(* A file is its name, which orders it, its suffix, its digest and its     *)
(* content: the syntax it parses under, the kind of document it is and its *)
(* body.  Two files of one digest have one content.                        *)
(***************************************************************************)
EXTENDS Evidence, Sequences, Functions

CONSTANTS
  AsOf,             \* the as-of of the run
  MaxResults,       \* limits.max_results_per_run
  MaxObservations,  \* limits.max_observations_per_artifact
  MaxLocations,     \* MAX_LOCATIONS_PER_RESULT
  MaxProfiles,      \* MAX_PROFILES_PER_DOCUMENT
  MaxAffects,       \* MAX_AFFECTS_PER_VULNERABILITY
  MaxDepth,         \* the levels of components that fit under max_json_depth
  MaxSteps,         \* the steps a second reading of a bill is followed for
  Lowered, Dashed,  \* what folding a name of a package does to it
  DigestShaped      \* texts that are an algorithm and its digest

ASSUME DepthAssumption == MaxDepth \in Nat
ASSUME StepsAssumption == MaxSteps \in Nat
ASSUME CapAssumption == MaxObservations \in Nat

VARIABLES
  supplied,   \* the files, in the order they were listed
  recording,  \* --record-failed-imports
  phase,      \* "open", the adapter whose walk goes on, "done"
  at,         \* the file being read
  doc,        \* the document of a walk
  parse,      \* the walk
  by_digest,  \* readings with no error, in the order they were taken
  held,       \* failed readings that may be recorded
  errors,     \* the errors that stop the run
  report      \* what the run decided

vars == <<supplied, recording, phase, at, doc, parse, by_digest, held, errors, report>>

S == INSTANCE Sarif
H == INSTANCE Hdf
D == INSTANCE CycloneDx
C == INSTANCE Checklists

\* The qualifiers that tell no packages apart are written in lower case.
ASSUME FoldAssumption == \A key \in D!StrippedQualifiers : D!AsciiFold(key) = key

Nothing == [step |-> "none"]
NoReport == [stopped |-> FALSE, errors |-> {}, manifest |-> {}, failures |-> {}, duplicates |-> {}]

File == supplied[at]
Body == File.content.body

-----------------------------------------------------------------------------
(* The dispatcher. *)

JsonSuffixes == {"sarif", "hdf.json", "cdx.json", "json", "cklb"}
XmlSuffixes == {"ckl", "xml"}

Syntax(suffix) == IF suffix \in JsonSuffixes THEN "json" ELSE "xml"

\* A bare .json is sniffed, an .xml and an .arf go by their root element, and
\* every other name decides alone.
Adapter(file) ==
  CASE file.suffix \in {"sarif", "cklb", "ckl"} -> file.suffix
    [] file.suffix = "hdf.json" -> "hdf"
    [] file.suffix = "cdx.json" -> "cyclonedx"
    [] file.suffix = "json" ->
         IF file.content.kind = "hdf" /\ file.content.body.platform THEN "hdf"
         ELSE IF file.content.kind = "cyclonedx" THEN "cyclonedx" ELSE "cklb"
    [] file.suffix = "xml" -> IF file.content.kind = "xccdf" THEN "xccdf" ELSE "ckl"
    [] file.suffix \notin JsonSuffixes \cup XmlSuffixes -> None

\* The reading of a file whose adapter has nothing to walk.
ReadAtOnce(file) ==
  CASE file.content.syntax = "unreadable" -> Refusal(FALSE, "artifact_read_failed", FALSE)
    [] file.content.syntax # "unreadable" ->
         IF Adapter(file) = None THEN Refusal(TRUE, "unsupported_artifact", FALSE)
         ELSE IF file.content.syntax # Syntax(file.suffix)
         THEN Refusal(TRUE, "artifact_parse_failed", FALSE)
         ELSE IF file.content.kind # Adapter(file)
         THEN Refusal(TRUE, "artifact_parse_failed", TRUE)
         ELSE CASE Adapter(file) = "cklb" -> C!ReadCklb(file.name, file.content.body)
                [] Adapter(file) = "ckl" -> C!ReadCkl(file.name, file.content.body)
                [] Adapter(file) = "xccdf" -> C!ReadXccdf(file.name, file.content.body)

Walked(file) ==
  /\ file.content.syntax = "json"
  /\ Adapter(file) = file.content.kind
  /\ Adapter(file) \in {"sarif", "hdf", "cyclonedx"}

-----------------------------------------------------------------------------
(* Taking a reading. *)

Named(file, codes) == {[name |-> file.name, code |-> code] : code \in codes}

Entry(file, reading, class) ==
  [name |-> file.name, digest |-> file.digest, class |-> class, errors |-> reading.errors]

\* A failure that may be recorded is held: the same bytes may yet be read.
Take(file, reading) ==
  LET class == IF recording THEN ClassifyIngest(reading) ELSE Imported
      hold == recording /\ reading.errors # {} /\ class.class # None
  IN /\ held' = IF hold THEN Append(held, Entry(file, reading, class)) ELSE held
     /\ errors' = IF hold THEN errors ELSE errors \cup Named(file, reading.errors)
     /\ by_digest' = IF reading.errors = {} THEN Append(by_digest, Entry(file, reading, class))
                     ELSE by_digest
     /\ at' = at + 1
     /\ phase' = "open"
     /\ doc' = Nothing /\ parse' = Nothing
     /\ UNCHANGED <<supplied, recording, report>>

Open ==
  /\ phase = "open" /\ at \in DOMAIN supplied /\ ~Walked(File)
  /\ Take(File, ReadAtOnce(File))

Begin ==
  /\ phase = "open" /\ at \in DOMAIN supplied /\ Walked(File)
  /\ phase' = Adapter(File)
  /\ doc' = Body
  /\ parse' = CASE Adapter(File) = "sarif" -> S!SarifStart(Body)
                [] Adapter(File) = "hdf" -> H!HdfStart(Body)
                [] Adapter(File) = "cyclonedx" -> D!CdxStart(Body)
  /\ UNCHANGED <<supplied, recording, at, by_digest, held, errors, report>>

Walk ==
  /\ \/ phase = "sarif" /\ S!SarifStep
     \/ phase = "hdf" /\ H!HdfStep
     \/ phase = "cyclonedx" /\ D!CdxStep
  /\ UNCHANGED <<supplied, recording, phase, at, by_digest, held, errors, report>>

SarifRead == phase = "sarif" /\ S!SarifDone
HdfRead == phase = "hdf" /\ H!HdfDone
CdxRead == phase = "cyclonedx" /\ D!CdxDone

Output ==
  CASE phase = "sarif" -> S!SarifOutput(parse)
    [] phase = "hdf" -> H!HdfOutput(parse)
    [] phase = "cyclonedx" -> D!CdxOutput(parse, doc)

End == (SarifRead \/ HdfRead \/ CdxRead) /\ Take(File, Output)

-----------------------------------------------------------------------------
(* Deciding the run. *)

Digests(entries) == {entries[i].digest : i \in DOMAIN entries}

\* The readings of one digest.
Of(entries, digest) == {i \in DOMAIN entries : entries[i].digest = digest}

\* Mutant of Elected: the reading that came first.
ElectedFirst(entries, some) == entries[CHOOSE i \in some : \A j \in some : i <= j]

\* The reading under the lowest name.
Elected(entries, some) ==
  entries[CHOOSE i \in some : \A j \in some : entries[i].name <= entries[j].name]

\* Every other reading of the bytes is one the report warns of.
Skipped(digest) == Cardinality(Of(by_digest, digest)) + Cardinality(Of(held, digest)) - 1

\* Bytes that read under another name are a misnamed copy, not a failure.
Misnamed(entry) == entry.digest \in Digests(by_digest)

HeldErrors(entries) ==
  UNION {{[name |-> e.name, code |-> code] : code \in e.errors} : e \in entries}

Stopped == [NoReport EXCEPT !.stopped = TRUE, !.errors = errors \cup HeldErrors(Range(held))]

Recorded(entry) ==
  [name |-> entry.name, side |-> entry.class.side_record,
   record |-> SystemObservation(entry.digest, entry.class, AsOf)]

Compiled ==
  LET read == {Elected(by_digest, Of(by_digest, d)) : d \in Digests(by_digest)}
      failed == {Elected(held, Of(held, d)) : d \in Digests(held)}
      sides == {e \in read : e.class # Imported}
  IN [stopped |-> FALSE, errors |-> {},
      manifest |-> {[name |-> e.name, digest |-> e.digest] : e \in read},
      failures |-> {Recorded(e) : e \in sides \cup failed},
      duplicates |-> {[digest |-> d, skipped |-> Skipped(d)] :
                        d \in Digests(by_digest) \cup Digests(held)}]

Decide ==
  /\ phase = "open" /\ at \notin DOMAIN supplied
  /\ phase' = "done"
  /\ report' = IF errors # {} \/ \E e \in Range(held) : Misnamed(e) THEN Stopped ELSE Compiled
  /\ UNCHANGED <<supplied, recording, at, doc, parse, by_digest, held, errors>>

\* A run of some files, one of no file being refused.
Start(files, record) ==
  /\ supplied = files /\ recording = record
  /\ phase = "open" /\ at = 1 /\ doc = Nothing /\ parse = Nothing
  /\ by_digest = <<>> /\ held = <<>> /\ report = NoReport
  /\ errors = IF files = <<>> THEN {[name |-> 0, code |-> "no_artifacts"]} ELSE {}

Next == Open \/ Begin \/ Walk \/ End \/ Decide

\* A run over some of these files, in any order.
Spec(Files) ==
  /\ \E files \in Seq(Files), record \in BOOLEAN : Start(files, record)
  /\ [][Next]_vars

-----------------------------------------------------------------------------
(* What a reading promises, of the walk that has just ended. *)

Classified == ClassifyIngest(Output)

\* A failure the producer reports is open, whatever it says beside it: a result
\* suppressed or baselined away, on each resource it names; a control that failed
\* on any copy of it, unless of no impact; a vulnerability its supplier judged.
FindingsStayOpen ==
  /\ SarifRead => S!FindingsRead
  /\ HdfRead => H!FailuresWin
  /\ CdxRead => D!StatementsOpen

\* A PASS the adapter made is vouched for: in SARIF by runs of that scope with
\* no results, every invocation of which declared success, whose log keeps no
\* results elsewhere, and at their clock; in CycloneDX by a record that shows
\* that a match ran. Every other observation of a log owes each of its facts to a
\* result of its identity, even one that spells the record of a clean run.
PassIsVouched ==
  /\ SarifRead => S!PassesVouched /\ S!ResultsOwn
  /\ CdxRead => D!MatchIsEvidence

\* A failure of an invocation is recorded at the earliest clock a failed
\* invocation of the log declared, one of a refused run included.
FailureKeepsItsClock ==
  (SarifRead /\ parse.step = "run" /\ Classified.class = "execution")
    => Classified.clock = S!DeclaredFailure

\* The copies of a control are one control: the root of its profile is found by
\* following the profile's links, as many as its depth, however the walks before
\* left off, and one on no such path is an error; a waiver or attestation on any
\* copy is on the observation, and a current one never hides an expired one.
OverlaysFoldToOneControl == HdfRead => H!RootsTraced /\ H!GroupsKept

\* A failure minted in place of a reading that came to its end stands for one
\* that read no finding at all, of a document that claims to hold some.
MintedReadNothing ==
  (/\ SarifRead \/ HdfRead \/ CdxRead
   /\ parse.step # "bound"
   /\ Classified.class # None
   /\ Output.errors # {})
    => parse.folds = {} /\ (CdxRead => D!Matched(doc))

\* What a bill of materials shows is the same whatever the order its components,
\* its records and their entries are written in.
OrderIsLost == CdxRead => D!OrderIsLost

\* A package keeps its resource when it, and the image that carries it, are
\* upgraded, so a row is never minted again for a version.
RowsOutliveUpgrades == CdxRead => D!RowsOutliveUpgrades

-----------------------------------------------------------------------------
(* What a run promises. *)

Ran == phase = "done" /\ ~report.stopped

Same(digest) == {i \in DOMAIN supplied : supplied[i].digest = digest}

\* A run that stops names every reading that failed, the ones it could have
\* recorded included. One that goes on reports each digest once, as read or as a
\* failure, under the lowest name it was supplied under whatever the order, and
\* warns of every other name; and a failure stands beside an imported reading only
\* when that reading itself reports the failed invocation, never a misnamed copy.
EveryFileAnswered ==
  /\ (phase = "done" /\ report.stopped) =>
       \A e \in Range(held) : \A code \in e.errors : [name |-> e.name, code |-> code] \in report.errors
  /\ Ran =>
       /\ \A i \in DOMAIN supplied :
            LET digest == supplied[i].digest
                names == {supplied[j].name : j \in Same(digest)}
                entries == {m \in report.manifest : m.digest = digest}
                failures == {f \in report.failures : f.record.digest = digest}
            IN /\ entries \cup failures # {}
               /\ \A e \in entries \cup failures : e.name = FirstOf(names)
               /\ [digest |-> digest, skipped |-> Cardinality(Same(digest)) - 1] \in report.duplicates
               /\ Cardinality(entries) <= 1 /\ Cardinality(failures) <= 1
       /\ \A f \in report.failures :
            f.side <=> \E m \in report.manifest : m.digest = f.record.digest

=============================================================================
