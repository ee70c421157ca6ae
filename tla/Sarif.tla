-------------------------------- MODULE Sarif --------------------------------
(***************************************************************************)
(* The SARIF adapter (adapters/sarif.py): one log is walked run by run and *)
(* result by result, every result becomes a candidate of each resource it  *)
(* names, a run with no results may become a PASS of its scope, and at the *)
(* end the candidates of one identity are folded into one observation.     *)
(*                                                                         *)
(* Of a result is kept what decides its identity, disposition, severity    *)
(* and clock.  Titles, descriptions, metadata (the uris of a tool and of a *)
(* rule's help among it) and the warnings that only describe them are left *)
(* out.  A text is a name; None is an absent one.  A category stands for   *)
(* the automation id it ends.                                              *)
(***************************************************************************)
EXTENDS Evidence, Sequences, Functions

CONSTANTS
  MaxResults,       \* limits.max_results_per_run
  MaxObservations,  \* limits.max_observations_per_artifact
  MaxLocations      \* MAX_LOCATIONS_PER_RESULT

VARIABLES
  doc,       \* the parsed document
  parse      \* the walk: _ArtifactParse, and the position it has reached

CleanRunRecord == "sarif.run"

Dispositions ==
  [fail |-> "OPEN", pass |-> "PASS", notApplicable |-> "NOT_APPLICABLE",
   review |-> "NOT_REVIEWED", informational |-> "NOT_REVIEWED", open |-> "UNKNOWN"]
Levels == [error |-> "HIGH", warning |-> "MEDIUM", note |-> "LOW", none |-> "INFORMATIONAL"]

SarifRank ==
  [OPEN |-> 5, UNKNOWN |-> 4, NOT_REVIEWED |-> 3, NOT_APPLICABLE |-> 2, PASS |-> 1, ERROR |-> 0]
SeverityRank ==
  [CRITICAL |-> 5, HIGH |-> 4, MEDIUM |-> 3, LOW |-> 2, INFORMATIONAL |-> 1, UNKNOWN |-> 0]

Highest(values, rank) == CHOOSE v \in values : \A w \in values : rank[w] <= rank[v]

Invocations(run) == Range(run.invocations)
Failed(run) == {i \in Invocations(run) : i.flag = "false"}
Starts(invocations) == {i.start : i \in invocations} \ {Absent, Unusable}
Ends(invocations) == {i.end : i \in invocations} \ {Absent, Unusable}

RunClock(run) == EarliestClock(Starts(Invocations(run)), Ends(Invocations(run)))

-----------------------------------------------------------------------------
(* The scope of a run. *)

ExecutionUnverified(run) == ~run.array \/ \E i \in Invocations(run) : i.flag = "other"

\* Why a run that declares success backs no clean run; the first reason wins.
CleanRunDoubt(run, log) ==
  CASE \E i \in Invocations(run) : i.flag = "true" /\ i.errors -> "execution_errors_reported"
    [] \A i \in Invocations(run) : ~(i.flag = "true" /\ i.errors) ->
         IF run.converter = "unclean" THEN "conversion_unverified"
         ELSE IF run.external \/ log.inline THEN "results_external" ELSE None

\* The texts that name the run; the first that is refused stops it.
RunTexts(run) == {run.driver, run.category, run.image, run.repository}

ScopeWarnings(run) ==
  When(run.external, Warning("external_properties_ignored"))
  \cup When(Failed(run) # {}, Warning(Executed))
  \cup When(\E i \in Invocations(run) : Unusable \in {i.start, i.end},
            Warning("source_timestamp_invalid"))

ScopeErrors(run) ==
  IF run.driver = None THEN {Error("invalid_run")}
  ELSE When(RunTexts(run) \cap Refused # {}, Error("identity_input_invalid"))

ScopeResource(run) ==
  IF run.image # None THEN <<"image", run.image>>
  ELSE <<"scan", IF run.repository # None THEN run.repository ELSE run.driver>>

Key(run, record, resource) ==
  [driver |-> run.driver, record |-> record, resource |-> resource, context |-> run.category]

Missing(clock) == When(clock = Absent, Warning("source_timestamp_missing"))

-----------------------------------------------------------------------------
(* The rule of a result. *)

Driver(run) == 1

\* run.components: the driver, then the extensions; 0 is a reference to none.
ResolveComponent(run, ref) ==
  LET carrying == {c \in DOMAIN run.components : run.components[c].guid = ref.component_guid} IN
  IF ref.component >= 0
  THEN IF ref.component + 2 \in DOMAIN run.components THEN ref.component + 2 ELSE 0
  ELSE IF ref.component_guid = None THEN Driver(run)
  ELSE IF carrying # {} THEN FirstOf(carrying) ELSE 0

\* Only a lone carrier of a guid or an id is named by it.
Lone(positions) == IF Cardinality(positions) = 1 THEN FirstOf(positions) ELSE 0

\* The position of the descriptor: an index, else a lone guid, else a lone id.
ResolveDescriptor(run, component, ref, index, id) ==
  IF component = 0 THEN 0
  ELSE LET rules == run.components[component].rules
           at == Either(ref.index, index)
           byGuid == Lone({r \in DOMAIN rules : ref.guid # None /\ rules[r].guid = ref.guid})
           byId == Lone({r \in DOMAIN rules : id # None /\ rules[r].id = id})
       IN IF Usable(at) THEN IF at + 1 \in DOMAIN rules THEN at + 1 ELSE 0
          ELSE IF byGuid # 0 THEN byGuid ELSE byId

StringId(result) == IF result.rule_id # None THEN result.rule_id ELSE result.ref.id

Rule(run, result) ==
  LET component == ResolveComponent(run, result.ref) IN
  [component |-> component,
   position |-> ResolveDescriptor(run, component, result.ref, result.rule_index, StringId(result))]

Descriptor(run, rule) == run.components[rule.component].rules[rule.position]

RecordId(run, result) ==
  LET rule == Rule(run, result) IN
  IF StringId(result) # None THEN StringId(result)
  ELSE IF rule.position # 0 THEN Descriptor(run, rule).id ELSE None

\* The invocation a result comes from: its own index, else the only one.
InvocationOf(run, result) ==
  IF result.invocation # Absent THEN result.invocation + 1
  ELSE IF Len(run.invocations) = 1 THEN 1 ELSE 0

\* The first override that sets a level and resolves to the result's descriptor.
OverrideLevel(run, result, rule) ==
  LET at == InvocationOf(run, result)
      overrides == IF at \in DOMAIN run.invocations THEN run.invocations[at].overrides ELSE <<>>
      Names(o) == LET component == ResolveComponent(run, o.ref) IN
                  /\ o.level # None
                  /\ component = rule.component
                  /\ ResolveDescriptor(run, component, o.ref, Absent, o.ref.id) = rule.position
      naming == {o \in DOMAIN overrides : Names(overrides[o])}
  IN IF rule.position = 0 \/ naming = {} THEN None ELSE overrides[FirstOf(naming)].level

EffectiveLevel(run, result, rule) ==
  LET override == OverrideLevel(run, result, rule) IN
  CASE result.kind \notin {None, "fail"} -> "none"
    [] result.kind \in {None, "fail"} ->
         IF result.level # None THEN result.level
         ELSE IF override # None THEN override
         ELSE IF rule.position # 0 /\ Descriptor(run, rule).level # None
              THEN Descriptor(run, rule).level ELSE "warning"

\* security-severity, the result's own before the descriptor's: absent (None),
\* unusable or unset (both leave the level to decide), or in a band.
Severity(run, result) ==
  LET rule == Rule(run, result)
      level == EffectiveLevel(run, result, rule)
      score == IF result.score # None \/ rule.position = 0 THEN result.score
               ELSE Descriptor(run, rule).score
  IN IF score \in DOMAIN SeverityRank THEN score
     ELSE IF level \in DOMAIN Levels THEN Levels[level] ELSE "UNKNOWN"

\* A suppression or a baseline never moves it.
Disposition(result) ==
  IF result.kind = None THEN "OPEN"
  ELSE IF result.kind \in DOMAIN Dispositions THEN Dispositions[result.kind] ELSE "UNKNOWN"

-----------------------------------------------------------------------------
(* The resources of a result. *)

ArtifactResource(run, uri) ==
  IF run.image # None THEN <<"image", run.image, uri>>
  ELSE IF run.repository # None THEN <<"file", run.repository, uri>> ELSE <<"file", uri>>

LogicalResource(run, name) ==
  LET prefix == IF run.image # None THEN run.image ELSE run.repository IN
  IF prefix # None THEN <<"logical", prefix, name>> ELSE <<"logical", name>>

\* A location's uri, else its first logical name.
NamedBy(location) == IF location.uri # None THEN location.uri ELSE location.logical

Locate(run, location) ==
  IF location.uri # None THEN ArtifactResource(run, location.uri)
  ELSE LogicalResource(run, location.logical)

Located(result) == {l \in Range(result.locations) : NamedBy(l) # None}

Resources(run, result) ==
  IF Located(result) # {} THEN {Locate(run, l) : l \in Located(result)}
  ELSE IF result.target # None THEN {ArtifactResource(run, result.target)}
  ELSE {ScopeResource(run)}

RuleErrors(run, result) ==
  IF ~result.object THEN {Error("invalid_result")}
  ELSE IF RecordId(run, result) = None THEN {Error("rule_id_missing")}
  ELSE When(RecordId(run, result) \in Refused, Error("identity_input_invalid"))

\* The analysis target is read only when no location is usable.
LocationErrors(result) ==
  LET texts == IF Located(result) = {} THEN {result.target} ELSE {NamedBy(l) : l \in Located(result)}
  IN When(texts \cap Refused # {}, Error("identity_input_invalid"))

ResultClock(run, result) == Either(result.first, Either(result.last, RunClock(run)))

\* The last detection is tried only when the first does not read.
ResultWarnings(run, result) ==
  When(result.first = Unusable \/ (~Usable(result.first) /\ result.last = Unusable),
       Warning("source_timestamp_invalid"))
  \cup When(result.suppressed, Warning("results_suppressed"))
  \cup Missing(ResultClock(run, result))

Candidate(run, result, resource) ==
  [key |-> Key(run, RecordId(run, result), resource),
   disposition |-> Disposition(result), severity |-> Severity(run, result),
   at |-> ResultClock(run, result), clean |-> FALSE]

CleanCandidate(run) ==
  [key |-> Key(run, CleanRunRecord, ScopeResource(run)),
   disposition |-> "PASS", severity |-> "UNKNOWN", at |-> RunClock(run), clean |-> TRUE]

-----------------------------------------------------------------------------
(* Folding. *)

\* A producer's result that spells the clean run's record outranks it.
Yield(candidates) ==
  LET results == {c \in candidates : ~c.clean} IN
  IF results = {} THEN candidates ELSE results

Assemble(key, all) ==
  LET candidates == Yield({c \in all : c.key = key}) IN
  [key |-> key,
   disposition |-> Highest({c.disposition : c \in candidates}, SarifRank),
   severity |-> Highest({c.severity : c \in candidates}, SeverityRank),
   at |-> EarliestOf({c.at : c \in candidates}),
   clean |-> \A c \in candidates : c.clean]

-----------------------------------------------------------------------------
(* The walk. *)

SarifStart(log) ==
  [step |-> IF log.shape = "ok" THEN "run" ELSE "rejected", run |-> 1, result |-> 1,
   diagnostics |-> When(log.inline, Warning("inline_external_properties_ignored")),
   folds |-> {}, failed_starts |-> {}, failed_ends |-> {}, unverified |-> FALSE]

Diagnose(p, diagnostics) == [p EXCEPT !.diagnostics = @ \cup diagnostics]

\* Past the cap on distinct identities the whole artifact is refused.
Fold(p, candidates) ==
  LET folds == p.folds \cup candidates IN
  IF Cardinality({c.key : c \in folds}) > MaxObservations THEN [p EXCEPT !.step = "bound"]
  ELSE [p EXCEPT !.folds = folds]

\* A run that has no results.
CleanRun(p, run, log) ==
  LET q == Diagnose(p, {[level |-> "INFO", code |-> "run_clean"]})
      doubt == CleanRunDoubt(run, log)
  IN IF Failed(run) # {} THEN q
     ELSE IF ExecutionUnverified(run)
     THEN [Diagnose(q, {Warning("execution_unverified")}) EXCEPT !.unverified = TRUE]
     ELSE IF doubt # None THEN [Diagnose(q, {Warning(doubt)}) EXCEPT !.unverified = TRUE]
     ELSE Fold(Diagnose(q, Missing(RunClock(run))), {CleanCandidate(run)})

NextRun(p) == [p EXCEPT !.run = @ + 1, !.result = 1]

\* Mutant of Invoked: a refused run's failed invocations are not kept.
InvokedIfRead(p, run) ==
  IF ScopeErrors(run) # {} THEN p
  ELSE [p EXCEPT !.failed_starts = @ \cup Starts(Failed(run)),
                 !.failed_ends = @ \cup Ends(Failed(run))]

\* The clocks of failed invocations, read before the run can be refused.
Invoked(p, run) ==
  [p EXCEPT !.failed_starts = @ \cup Starts(Failed(run)),
            !.failed_ends = @ \cup Ends(Failed(run))]

Scoped(p, run, log) ==
  LET q == Invoked(Diagnose(p, ScopeWarnings(run) \cup ScopeErrors(run)), run) IN
  IF ScopeErrors(run) # {} THEN NextRun(q)
  ELSE CASE run.listed = "absent" -> NextRun(Diagnose(q, {Warning("results_unknown")}))
         [] run.listed = "other" -> NextRun(Diagnose(q, {Error("invalid_run")}))
         [] run.listed = "array" ->
              IF run.results = <<>> THEN NextRun(CleanRun(q, run, log))
              ELSE [q EXCEPT !.step = IF Len(run.results) > MaxResults THEN "bound" ELSE "result"]

InRuns == parse.run \in DOMAIN doc.runs
Run == doc.runs[parse.run]

ScanRun ==
  /\ parse.step = "run" /\ InRuns
  /\ parse' = IF Run.object THEN Scoped(parse, Run, doc)
              ELSE NextRun(Diagnose(parse, {Error("invalid_run")}))
  /\ UNCHANGED doc

Scanned(p, run, result) ==
  LET q == Diagnose(p, RuleErrors(run, result))
      read == Diagnose(q, ResultWarnings(run, result) \cup LocationErrors(result))
  IN IF RuleErrors(run, result) # {} THEN q
     ELSE IF Len(result.locations) > MaxLocations THEN [q EXCEPT !.step = "bound"]
     ELSE IF LocationErrors(result) # {} THEN read
     ELSE Fold(read, {Candidate(run, result, resource) : resource \in Resources(run, result)})

\* One result; after the last the walk goes on to the next run.
ScanResult ==
  /\ parse.step = "result"
  /\ LET scanned == Scanned(parse, Run, Run.results[parse.result])
         last == parse.result = Len(Run.results)
     IN parse' = IF scanned.step = "bound" THEN scanned
                 ELSE IF last THEN [NextRun(scanned) EXCEPT !.step = "run"]
                 ELSE [scanned EXCEPT !.result = @ + 1]
  /\ UNCHANGED doc

SarifStep == ScanRun \/ ScanResult

SarifDone ==
  \/ parse.step \in {"rejected", "bound"}
  \/ parse.step = "run" /\ ~InRuns

\* No identity at all is an error of its own, and so is an unverified empty run.
Unread(p) ==
  When(p.folds = {}, Error("no_observations"))
  \cup When(p.folds = {} /\ p.unverified, Error("clean_run_unverified"))

Assembled(p) == {Assemble(key, p.folds) : key \in {c.key : c \in p.folds}}

SarifOutput(p) ==
  CASE p.step = "rejected" -> Refusal(TRUE, "artifact_parse_failed", TRUE)
    [] p.step = "bound" -> Refusal(TRUE, "artifact_parse_failed", FALSE)
    [] OTHER -> Reading(Assembled(p), p.diagnostics \cup Unread(p),
                        EarliestClock(p.failed_starts, p.failed_ends))

-----------------------------------------------------------------------------
(* What a finished walk must have made of the document. *)

Observed == SarifOutput(parse).observations

\* The results of the runs that have some.
Listed == {run \in Range(doc.runs) : run.object /\ run.listed = "array"}

FindingsRead ==
  parse.step = "run" /\ ~HasErrors(parse.diagnostics \cup Unread(parse)) =>
    \A run \in Listed : \A result \in Range(run.results) :
      result.kind \in {None, "fail"} =>
        \A resource \in Resources(run, result) :
          \E o \in Observed : o.key = Key(run, RecordId(run, result), resource) /\ o.disposition = "OPEN"

Vouches(run) ==
  /\ run.results = <<>> /\ run.array /\ ~run.external /\ ~doc.inline
  /\ \A i \in Invocations(run) : i.flag = "true" /\ ~i.errors
  /\ run.converter # "unclean"

PassesVouched ==
  \A o \in Observed : o.clean =>
    LET vouching == {run \in Listed : Vouches(run) /\ Key(run, CleanRunRecord, ScopeResource(run)) = o.key}
    IN /\ o.disposition = "PASS"
       /\ vouching # {}
       /\ o.at = EarliestOf({RunClock(run) : run \in vouching})

ResultsOwn ==
  \A o \in Observed :
    LET own == UNION {{Candidate(run, result, o.key.resource) :
                         result \in {r \in Range(run.results) :
                                       /\ RecordId(run, r) = o.key.record
                                       /\ o.key.resource \in Resources(run, r)}} :
                      run \in {r \in Listed : r.driver = o.key.driver /\ r.category = o.key.context}}
    IN IF own = {} THEN o.clean
       ELSE /\ \E c \in own : c.disposition = o.disposition
            /\ \E c \in own : c.severity = o.severity
            /\ o.at = EarliestOf({c.at : c \in own})

\* The earliest clock of a failed invocation anywhere in the log.
DeclaredFailure ==
  LET failed == UNION {Failed(run) : run \in {r \in Range(doc.runs) : r.object}}
  IN EarliestClock(Starts(failed), Ends(failed))

=============================================================================
