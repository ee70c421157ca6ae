---------------------------- MODULE HistoryAudit ----------------------------
(***************************************************************************)
(* Three judges of one event log: the repository that admits a batch       *)
(* (events/repository.py), the readers that rebuild artifacts, failures,   *)
(* gaps and cases from it (history/fold.py), and the audit `store verify`  *)
(* runs over it (history/fold.py, store/sqlite.py).  Each has its own code *)
(* for the same rules, so each can drift from the others.                  *)
(*                                                                         *)
(* Every row here is intact: its digests match and its numbers are         *)
(* contiguous.  What varies is what it means.  A row may also have been    *)
(* stored past the repository, by a program that calls the store itself.   *)
(* A payload is reduced to what the rules read of it: whether its contract *)
(* holds, the stream it names, the identifier of its observation, what it  *)
(* describes, the count it declares and whether its metadata is valid.     *)
(*                                                                         *)
(* The rules of one record's meaning (an evaluation before its detection,  *)
(* two groups under one id) are those of CaseHistory.                      *)
(***************************************************************************)
EXTENDS Integers, Sequences, FiniteSets

CONSTANTS
  Scenarios,   \* what a behaviour draws on: its rows, and how many of them,
               \* of rows stored past the repository and of runs of verify (bounds)
  PageSize     \* READ_PAGE_SIZE

ASSUME BoundsAssumption ==
  /\ PageSize \in Nat \ {0}
  /\ \A s \in Scenarios : s.length \in Nat /\ s.past \in Nat /\ s.verifies \in Nat

Obs == "observation.recorded"
Created == "case.created"
HeadTypes == {"failure.recorded", "failure.held"}

\* The types that head a stream of one kind, and all it may carry.
Heads == [artifact |-> {"artifact.ingested"}, failure |-> HeadTypes,
          coverage |-> {"coverage.recorded"}, case |-> {Created}, none |-> {}]
Carries == [artifact |-> Heads.artifact \cup {Obs}, failure |-> HeadTypes \cup {Obs},
            coverage |-> Heads.coverage \cup {Obs},
            case |-> {Created, "case.evaluated", "case.disposition_recorded"}, none |-> {}]

Kinds == DOMAIN Heads
Types == UNION {Carries[k] : k \in Kinds}
Markers == 1 .. 4

\* A stream id: its kind, whether its tail parses, and the digest, the parser
\* and, as `tag', the parser version it spells; a tag keeps other ids apart.
\* A row's `names' is the stream its payload spells, and `class' the failure it
\* heads, or the failed invocation an artifact's head declares.
ASSUME ScenariosAssumption ==
  \A s \in Scenarios : \A e \in s.rows :
    /\ e.stream.kind \in Kinds /\ e.stream.named \in BOOLEAN /\ e.stream.tag \in Nat
    /\ e.type \in Types /\ e.well \in {"ok", "invalid", "no_utc"}
    /\ e.well = "no_utc" => e.type = Obs
    /\ e.class \in {"none", "execution", "content"}
    /\ e.names.kind \in Kinds /\ e.meta \in BOOLEAN /\ e.count \in Nat

VARIABLES
  scenario,    \* what this behaviour draws on
  log,         \* the event log, in sequence order
  marker,      \* PRAGMA user_version; the migration records always match it
  past,        \* the rows stored past the repository
  verify       \* the running `store verify`

vars == <<scenario, log, marker, past, verify>>

-----------------------------------------------------------------------------
(* What a log holds. *)

Belongs(e) == e.type \in Carries[e.stream.kind]

\* An observation of the process itself: of a failure, or of a gap.
SystemOrigin(e) == e.names.kind # "artifact"

\* A contract: a schema and instants that exist.  A system record's identity
\* is made of its clock, which must have a UTC form; an artifact's clock need
\* not.
Schemed(e) == e.well # "invalid"
RealClock(e) == SystemOrigin(e) => e.well # "no_utc"
Readable(e) == Schemed(e) /\ RealClock(e)
ValidMetadata(e) == e.meta

On(h, s) == {i \in DOMAIN h : h[i].stream = s}
OfType(h, s, types) == {i \in On(h, s) : h[i].type \in types}
HeadsOn(h, s) == OfType(h, s, Heads[s.kind])
ObsOn(h, s) == OfType(h, s, {Obs})
StreamsOf(h, kind) == {h[i].stream : i \in {j \in DOMAIN h : h[j].stream.kind = kind}}

Earliest(indices) == CHOOSE i \in indices : \A j \in indices : i <= j

\* The type of the first event a stream can carry.
Opener(h, s) == h[Earliest(OfType(h, s, Carries[s.kind]))].type

\* An event its stream id names: head and observation spell the reading the
\* id spells, a failure's observation is the system record of that reading,
\* and a gap's is the gap record the id is the fingerprint of.
NamesArtifact(e) == e.stream.named /\ e.names = e.stream
SystemRecord(e) == e.names = e.stream
NamesFailure(e) == e.stream.named /\ SystemRecord(e)
GapRecord(e) == e.names.kind = "coverage"
Fingerprints(e) == e.type = Obs => e.names = e.stream

\* The same rules as the audit names them.
IdentityFault(e) ==
  CASE ~Belongs(e) -> "none"
    [] Belongs(e) /\ e.stream.kind = "artifact" ->
         IF NamesArtifact(e) THEN "none" ELSE "artifact_stream_mismatch"
    [] Belongs(e) /\ e.stream.kind = "failure" ->
         IF NamesFailure(e) THEN "none" ELSE "failure_stream_mismatch"
    [] Belongs(e) /\ e.stream.kind = "coverage" ->
         IF e.stream.named /\ e.type = Obs /\ ~GapRecord(e) THEN "coverage_identity_breach"
         ELSE IF e.stream.named /\ Fingerprints(e) THEN "none" ELSE "coverage_stream_mismatch"
    [] OTHER -> "none"

\* A failure or a gap is one head and one observation.
Overfull(h, s) == Cardinality(HeadsOn(h, s)) > 1 \/ Cardinality(ObsOn(h, s)) > 1
Missing(h, s) == ~Overfull(h, s) /\ (HeadsOn(h, s) = {} \/ ObsOn(h, s) = {})
Whole(h, s) == ~Overfull(h, s) /\ ~Missing(h, s)

\* Head and record describe two things.
Disagrees(h, s) == \E i \in HeadsOn(h, s), j \in ObsOn(h, s) : h[i].says # h[j].says

\* The failure streams of one digest that store one observation.
Sharing(h, digest, obs) ==
  {j \in DOMAIN h : /\ h[j].stream.kind = "failure" /\ h[j].stream.named
                    /\ h[j].type = Obs /\ h[j].stream.digest = digest /\ h[j].obs = obs}

\* Of these, the ones the walk could read.
Holders(h, i) ==
  {j \in Sharing(h, h[i].stream.digest, h[i].obs) : Readable(h[j])}

\* A failure stored again: only a hold may, beneath the recorded failure that
\* stored it first.
RepeatFault(h, i) ==
  LET s == h[i].stream
      holder == h[Earliest(Holders(h, i))].stream
  IN IF Opener(h, s) = "failure.held"
     THEN IF holder = s \/ Opener(h, holder) # "failure.recorded"
          THEN "failure_hold_orphaned" ELSE "none"
     ELSE IF holder # s THEN "failure_duplicate_observation" ELSE "none"

\* One identifier twice on one stream.
Repeats(h, i) ==
  \E j \in ObsOn(h, h[i].stream) : j < i /\ h[i].type = Obs /\ h[j].obs = h[i].obs

-----------------------------------------------------------------------------
(* The readers: each stops at the first thing it cannot take. *)

ArtifactsRefused(h) ==
  \/ \E i \in DOMAIN h :
       /\ h[i].stream.kind = "artifact" /\ Belongs(h[i])
       /\ ~Readable(h[i]) \/ IdentityFault(h[i]) # "none" \/ Repeats(h, i)
  \/ \E s \in StreamsOf(h, "artifact") :
       /\ HeadsOn(h, s) # {}
       /\ h[Earliest(HeadsOn(h, s))].count # Cardinality(ObsOn(h, s))

\* An event its stream does not carry is skipped here.
FailuresRefused(h) ==
  \/ \E i \in DOMAIN h :
       /\ h[i].stream.kind = "failure" /\ Belongs(h[i])
       /\ \/ ~Readable(h[i]) \/ IdentityFault(h[i]) # "none"
          \/ (h[i].type = Obs /\ RepeatFault(h, i) # "none")
  \/ \E s \in StreamsOf(h, "failure") :
       /\ OfType(h, s, Carries.failure) # {}
       /\ ~Whole(h, s) \/ Opener(h, s) \notin HeadTypes \/ Disagrees(h, s)

\* And refused here.
CoverageRefused(h) ==
  \/ \E i \in DOMAIN h :
       /\ h[i].stream.kind = "coverage"
       /\ ~Belongs(h[i]) \/ ~Readable(h[i]) \/ IdentityFault(h[i]) # "none"
  \/ \E s \in StreamsOf(h, "coverage") :
       ~Whole(h, s) \/ Opener(h, s) \notin Heads.coverage \/ Disagrees(h, s)

CaseRefused(h, s) ==
  LET first == Earliest(On(h, s)) IN
  \/ ~s.named \/ h[first].type # Created \/ h[first].names # s
  \/ \E i \in On(h, s) :
       ~Readable(h[i]) \/ (i # first /\ h[i].type \notin Carries.case \ {Created})

CasesRefused(h) == \E s \in StreamsOf(h, "case") : CaseRefused(h, s)

Refused(h) ==
  ArtifactsRefused(h) \/ FailuresRefused(h) \/ CoverageRefused(h) \/ CasesRefused(h)

-----------------------------------------------------------------------------
(* The audit: every fault code it would name. *)

ContractFaults(e) ==
  (IF ~Schemed(e) THEN {"payload_contract_invalid"} ELSE {})
  \cup (IF Schemed(e) /\ ~RealClock(e) THEN {"clock_out_of_range"} ELSE {})

PlacementFaults(e) == IF ~Belongs(e) THEN {"event_stream_mismatch"} ELSE {}

\* Whom a payload names is asked only of one that reads.
RowFaults(e) ==
  ContractFaults(e) \cup PlacementFaults(e)
  \cup (IF ~ValidMetadata(e) THEN {"event_metadata_invalid"} ELSE {})
  \cup (IF Readable(e) /\ IdentityFault(e) # "none" THEN {IdentityFault(e)} ELSE {})

\* A count is taken from any stream, and so are the observations under it.
ArtifactFaults(h, s) ==
  LET declared == OfType(h, s, Heads.artifact)
      count == h[Earliest(declared)].count
      found == Cardinality(ObsOn(h, s))
  IN (IF declared # {} /\ found < count THEN {"artifact_incomplete"} ELSE {})
     \cup (IF declared # {} /\ found > count THEN {"artifact_overfull"} ELSE {})
     \cup (IF s.kind = "artifact" /\
              \E i, j \in ObsOn(h, s) : /\ j < i /\ h[j].obs = h[i].obs
                                        /\ Readable(h[i]) /\ Readable(h[j])
           THEN {"artifact_duplicate_observation"} ELSE {})

\* Only a whole stream's head and record are compared, and only if both read.
Comparable(h, s) ==
  Whole(h, s) /\ \A i \in OfType(h, s, Carries[s.kind]) :
                    Readable(h[i]) /\ IdentityFault(h[i]) = "none"

ShapeFaults(h, s, overfull, incomplete, order, disagreement) ==
  (IF Overfull(h, s) THEN {overfull} ELSE {})
  \cup (IF Missing(h, s) THEN {incomplete} ELSE {})
  \cup (IF HeadsOn(h, s) # {} /\ Opener(h, s) \notin Heads[s.kind] THEN {order} ELSE {})
  \cup (IF Comparable(h, s) /\ Disagrees(h, s) THEN {disagreement} ELSE {})

FailureFaults(h, s) ==
  ShapeFaults(h, s, "failure_overfull", "failure_incomplete",
              "failure_stream_mismatch", "failure_stream_mismatch")
  \cup ({RepeatFault(h, i) : i \in {j \in ObsOn(h, s) : s.named /\ Readable(h[j])}} \ {"none"})

CoverageFaults(h, s) ==
  ShapeFaults(h, s, "coverage_overfull", "coverage_incomplete",
              "coverage_stream_mismatch", "coverage_identity_breach")

\* Mutant of CaseFaults: only the opening event is held to the shape of a case.
CaseFaultsAtOpening(h, s) ==
  LET first == Earliest(On(h, s)) IN
  (IF ~s.named \/ \E i \in OfType(h, s, {Created}) : h[i].names # s
   THEN {"case_tracking_id_mismatch"} ELSE {})
  \cup (IF s.named /\ h[first].type # Created THEN {"case_stream_mismatch"} ELSE {})

CaseFaults(h, s) ==
  LET first == Earliest(On(h, s)) IN
  (IF ~s.named \/ \E i \in OfType(h, s, {Created}) : h[i].names # s
   THEN {"case_tracking_id_mismatch"} ELSE {})
  \cup (IF s.named /\ OfType(h, s, {Created}) # {first} THEN {"case_stream_mismatch"} ELSE {})
  \cup (IF /\ s.named /\ OfType(h, s, {"case.evaluated"}) = {}
           /\ \E i \in OfType(h, s, {"case.disposition_recorded"}) : Readable(h[i])
        THEN {"disposition_without_evaluation"} ELSE {})

\* The marker an older build needs to see before it meets these streams.
SchemaFaults(h, m) ==
  LET held == \E i \in DOMAIN h : h[i].stream.kind = "failure" /\ h[i].type = "failure.held"
  IN (IF StreamsOf(h, "failure") # {} /\ m < (IF held THEN 3 ELSE 2)
      THEN {"failure_schema_unmarked"} ELSE {})
     \cup (IF StreamsOf(h, "coverage") # {} /\ m < 4 THEN {"coverage_schema_unmarked"} ELSE {})

\* The walk over the log.
Faults(h, m) ==
  (UNION {RowFaults(h[i]) : i \in DOMAIN h})
  \cup (UNION {ArtifactFaults(h, h[i].stream) : i \in DOMAIN h})
  \cup (UNION {FailureFaults(h, s) : s \in StreamsOf(h, "failure")})
  \cup (UNION {CoverageFaults(h, s) : s \in StreamsOf(h, "coverage")})
  \cup (UNION {CaseFaults(h, s) : s \in StreamsOf(h, "case")})
  \cup SchemaFaults(h, m)

\* Beside these faults the audit still folds every case and reads every observation.
OrderCheckedBeside ==
  {"event_metadata_invalid", "failure_schema_unmarked", "coverage_schema_unmarked"}

\* The split of one digest's streams: a reading stands where its head does, a
\* failure where its observation does.
Split == INSTANCE ArtifactHistory
           WITH Parsers <- {}, Versions <- Nat, Number <- [v \in Nat |-> v],
                TextRank <- [v \in Nat |-> v], Instants <- {}, LibraryCallers <- FALSE,
                MaxStreams <- 0, streams <- <<>>, ran <- "nothing"

StreamsOfDigest(h, digest) ==
  LET of(kind) == {s \in StreamsOf(h, kind) : s.digest = digest /\ HeadsOn(h, s) # {}}
      readings == {Earliest(HeadsOn(h, s)) : s \in of("artifact")}
      failures == {Earliest(ObsOn(h, s)) : s \in of("failure")}
  IN [i \in readings \cup failures |->
        [kind |-> h[i].stream.kind, parser |-> h[i].stream.parser, version |-> h[i].stream.tag,
         unsuccessful |-> h[i].class = "execution", observation |-> h[i].obs,
         class |-> h[Earliest(HeadsOn(h, h[i].stream))].class]]

\* A stream without a head belongs to no digest.
Current(h, s) ==
  \/ HeadsOn(h, s) = {}
  \/ Earliest(HeadsOn(h, s)) \in Split!CurrentReadings(StreamsOfDigest(h, s.digest))

\* The current observations whose source time no reader can convert.
Unclocked(h) ==
  {i \in DOMAIN h : /\ h[i].stream.kind = "artifact" /\ h[i].type = Obs
                    /\ h[i].well = "no_utc" /\ Current(h, h[i].stream)}

\* After the walk every current observation is read back.  A reader that
\* refuses the log ends the command, unless the walk found something.
WithClocks(found, h) ==
  IF ~(found \subseteq OrderCheckedBeside) THEN found
  ELSE IF Refused(h) THEN (IF found = {} THEN {"history_unreadable"} ELSE found)
  ELSE found \cup (IF Unclocked(h) # {} THEN {"clock_out_of_range"} ELSE {})

Audit(h, m) == WithClocks(Faults(h, m), h)

\* All it can name, and the refusal that ends it.
Codes ==
  {"payload_contract_invalid", "clock_out_of_range", "event_stream_mismatch",
   "event_metadata_invalid", "artifact_stream_mismatch", "artifact_incomplete",
   "artifact_overfull", "artifact_duplicate_observation", "failure_stream_mismatch",
   "failure_overfull", "failure_incomplete", "failure_hold_orphaned",
   "failure_duplicate_observation", "coverage_stream_mismatch", "coverage_identity_breach",
   "coverage_overfull", "coverage_incomplete", "case_tracking_id_mismatch",
   "case_stream_mismatch", "disposition_without_evaluation", "failure_schema_unmarked",
   "coverage_schema_unmarked", "migration_unexpected", "sequence_counter_mismatch",
   "history_unreadable"}

-----------------------------------------------------------------------------
(* The repository: what it lets into a stream. *)

Version(h, s) == Cardinality(On(h, s))

Admissible(e) ==
  /\ Readable(e) /\ Belongs(e) /\ ValidMetadata(e)
  /\ IdentityFault(e) = "none"
  /\ e.type = Created => e.stream.named /\ e.names = e.stream

FirstType(h, s) == h[Earliest(On(h, s))].type

\* The type of the event that heads the stream once the batch is in.
HeadType(h, batch) ==
  LET s == batch[1].stream IN IF Version(h, s) = 0 THEN batch[1].type ELSE FirstType(h, s)

OpensWithHead(h, batch) ==
  LET s == batch[1].stream IN
  Version(h, s) = 0 /\ s.kind \in {"failure", "coverage"} => batch[1].type \in Heads[s.kind]

\* Mutant of Elsewhere: only the stream itself is searched.
ElsewhereHere(h, s, obs) == {j \in ObsOn(h, s) : h[j].stream # s}

\* Where a failure's observation is stored first, on another stream of its digest.
Elsewhere(h, s, obs) == {j \in Sharing(h, s.digest, obs) : h[j].stream # s}

Unseen(h, batch) ==
  LET s == batch[1].stream
      incoming == {i \in DOMAIN batch : batch[i].type = Obs}
      held == s.kind = "failure" /\ HeadType(h, batch) = "failure.held"
  IN /\ incoming = {} => ~(Version(h, s) = 0 /\ held)
     /\ \A i, j \in incoming : i # j => batch[i].obs # batch[j].obs
     /\ \A i \in incoming, j \in ObsOn(h, s) : h[j].obs # batch[i].obs
     /\ s.kind = "failure" =>
          \A i \in incoming :
            LET others == Elsewhere(h, s, batch[i].obs) IN
            IF held THEN /\ others # {}
                         /\ FirstType(h, h[Earliest(others)].stream) = "failure.recorded"
            ELSE others = {}

\* The schema the stream needs, marked in the same transaction.
Requires(h, batch) ==
  CASE batch[1].stream.kind = "coverage" -> 4
    [] batch[1].stream.kind = "failure" ->
         IF HeadType(h, batch) = "failure.held" THEN 3 ELSE 2
    [] OTHER -> 1

Higher(m, n) == IF m < n THEN n ELSE m

Admitted(h, batch) ==
  /\ \A i \in DOMAIN batch : Admissible(batch[i])
  /\ OpensWithHead(h, batch)
  /\ Unseen(h, batch)

\* A running verify's moments: the log's length and the marker at its start and
\* after every commit since.
Moment == [length |-> Len(log), marker |-> marker]

Committed ==
  IF verify.step = "idle" THEN verify
  ELSE [verify EXCEPT !.moments = @ \cup {Moment'}]

\* append_batch, for any batch of one or two of the rows.
AppendBatch ==
  \E e \in scenario.rows :
    \E batch \in {<<e>>} \cup {<<e, f>> : f \in {g \in scenario.rows : g.stream = e.stream}} :
      /\ Len(log) + Len(batch) <= scenario.length
      /\ Admitted(log, batch)
      /\ log' = log \o batch
      /\ marker' = Higher(marker, Requires(log, batch))
      /\ UNCHANGED <<scenario, past>>
      /\ verify' = Committed

\* A program that calls the store itself: no rule, and no mark.
AppendAround ==
  \E e \in scenario.rows :
    /\ Len(log) < scenario.length /\ Cardinality(past) < scenario.past
    /\ log' = Append(log, e)
    /\ past' = past \cup {Len(log')}
    /\ UNCHANGED <<scenario, marker>>
    /\ verify' = Committed

-----------------------------------------------------------------------------
(* `store verify`, which holds no transaction across its statements. *)

Races == {"migration_unexpected", "sequence_counter_mismatch"}

NotRunning == [step |-> "idle", runs |-> 0, marker |-> 1, moments |-> {}, counter |-> 0,
               seen |-> 0, codes |-> {}]

Steps == {"idle", "marker", "migrations", "counter", "audit", "audited", "walked", "done"}

At(step) == verify.step = step

ReadMarker ==
  /\ At("idle") /\ verify.runs < scenario.verifies
  /\ verify' = [NotRunning EXCEPT !.step = "marker", !.runs = verify.runs + 1,
                                  !.marker = marker, !.moments = {Moment}]
  /\ UNCHANGED <<scenario, log, marker, past>>

\* A record above the marker that was read: the store has been marked since.
ReadMigrations ==
  /\ At("marker")
  /\ verify' = [verify EXCEPT !.step = "migrations",
        !.codes = IF marker > verify.marker THEN {"migration_unexpected"} ELSE {}]
  /\ UNCHANGED <<scenario, log, marker, past>>

ReadCounter ==
  /\ At("migrations")
  /\ verify' = [verify EXCEPT !.step = "counter", !.counter = Len(log)]
  /\ UNCHANGED <<scenario, log, marker, past>>

\* The last row is read after the counter, and the intact walk adds nothing.
\* A fault here ends the command before the audit.
ReadLatest ==
  /\ At("counter")
  /\ LET codes == verify.codes \cup
                    (IF Len(log) # verify.counter THEN {"sequence_counter_mismatch"} ELSE {})
     IN verify' = [verify EXCEPT !.codes = codes,
                                 !.step = IF codes = {} THEN "audit" ELSE "done"]
  /\ UNCHANGED <<scenario, log, marker, past>>

\* One page of the audit's walk; a short page is the last.
AuditPage ==
  /\ At("audit")
  /\ LET left == Len(log) - verify.seen IN
     verify' = [verify EXCEPT
       !.seen = IF left < PageSize THEN Len(log) ELSE @ + PageSize,
       !.step = IF left < PageSize THEN "audited" ELSE "audit"]
  /\ UNCHANGED <<scenario, log, marker, past>>

Seen == SubSeq(log, 1, verify.seen)

\* Mutant of AuditMarker: the marker read at the start is used again.
AuditMarkerAtStart == verify.marker

\* The schema faults read the marker once the walk is over.
AuditMarker == marker

Report ==
  /\ At("audited")
  /\ verify' = [verify EXCEPT !.step = "walked", !.codes = Faults(Seen, AuditMarker)]
  /\ UNCHANGED <<scenario, log, marker, past>>

\* The clocks are read from the log as it is by then.
CheckClocks ==
  /\ At("walked")
  /\ verify' = [verify EXCEPT !.step = "done", !.codes = WithClocks(@, log)]
  /\ UNCHANGED <<scenario, log, marker, past>>

Return ==
  /\ At("done")
  /\ verify' = [NotRunning EXCEPT !.runs = verify.runs]
  /\ UNCHANGED <<scenario, log, marker, past>>

Verify ==
  \/ ReadMarker \/ ReadMigrations \/ ReadCounter \/ ReadLatest
  \/ AuditPage \/ Report \/ CheckClocks \/ Return

Init ==
  /\ scenario \in Scenarios
  /\ log = <<>> /\ marker = 1 /\ past = {}
  /\ verify = NotRunning

Next == AppendBatch \/ AppendAround \/ Verify

Spec == Init /\ [][Next]_vars

-----------------------------------------------------------------------------
(* Properties. *)

TypeOK ==
  /\ scenario \in Scenarios
  /\ log \in Seq(scenario.rows) /\ Len(log) <= scenario.length
  /\ marker \in Markers /\ past \subseteq DOMAIN log
  /\ verify \in [step : Steps, runs : Nat, marker : 1 .. marker,
                 moments : SUBSET [length : 0 .. Len(log), marker : 1 .. marker],
                 counter : 0 .. Len(log), seen : 0 .. Len(log), codes : SUBSET Codes]

\* Beside the faults no reader refuses, every reader reads the log: the order,
\* clock and collision checks the audit then makes (which fold every case and
\* rehydrate every observation) do not end the command.
AuditNamesEveryRefusal == Faults(log, marker) \subseteq OrderCheckedBeside => ~Refused(log)

\* What append_batch checks, no log it alone wrote breaks: the two ends of a
\* rule, admission and audit, agree.  One is named beside another only: a hold
\* written behind a recorded head gets the mark of the head.  And it admits an
\* artifact's clock that no reader can convert, never a system record's: the
\* audit names one only while a current reading has it.
RefusedAtAppend ==
  {"payload_contract_invalid", "event_stream_mismatch",
   "event_metadata_invalid", "artifact_stream_mismatch", "artifact_duplicate_observation",
   "failure_duplicate_observation", "failure_hold_orphaned", "coverage_stream_mismatch",
   "coverage_schema_unmarked"}

RepositoryAdmitsNoFault ==
  past = {} =>
    /\ Audit(log, marker) \cap RefusedAtAppend = {}
    /\ "failure_schema_unmarked" \in Audit(log, marker) => "failure_overfull" \in Audit(log, marker)
    /\ "clock_out_of_range" \in Audit(log, marker) => Unclocked(log) # {}

\* With commits between its statements, verify still reports the log as it stood
\* at one moment of its run, under the marker of that moment or of a later one,
\* and the clocks of the same or a later one still, but for two codes its
\* statements race to.
VerifyReportsOneMoment ==
  At("done") =>
    \/ verify.codes # {} /\ verify.codes \subseteq Races
    \/ \E n, m, p \in verify.moments :
         /\ n.length <= m.length /\ m.length <= p.length
         /\ verify.codes = WithClocks(Faults(SubSeq(log, 1, n.length), m.marker),
                                      SubSeq(log, 1, p.length))

\* docs/CLI.md:22 of an event on a non-case stream it does not belong on: no
\* report and no case writer refuses it.
MisplacedIsInert ==
  /\ Audit(log, marker) = {"event_stream_mismatch"}
  /\ \A i \in DOMAIN log : ~Belongs(log[i]) => log[i].stream.kind # "case"
  => ~Refused(log)

=============================================================================
