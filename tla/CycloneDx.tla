------------------------------ MODULE CycloneDx ------------------------------
(***************************************************************************)
(* The CycloneDX adapter (adapters/cyclonedx.py): the components of one    *)
(* document are indexed at every depth, the tool and the subject are read, *)
(* each vulnerability record adds one candidate for each component it      *)
(* affects, candidates of one identity are folded, and the document itself *)
(* becomes one observation of its subject.                                 *)
(*                                                                         *)
(* A package url is its parts.  A subject's name is split into the part a  *)
(* lineage keeps, its tag and its digest.  The text of a record stands for *)
(* all that orders two candidates; counts, ratings that name no severity,  *)
(* identifiers and the metadata copied for a reader are left out.          *)
(***************************************************************************)
EXTENDS Evidence, Sequences, SequencesExt

CONSTANTS
  MaxResults,       \* limits.max_results_per_run
  MaxObservations,  \* limits.max_observations_per_artifact
  MaxAffects,       \* MAX_AFFECTS_PER_VULNERABILITY
  MaxDepth,         \* the levels of components that fit under max_json_depth
  MaxSteps,         \* the steps a second reading is followed for
  Lowered,          \* the texts ASCII folding changes, to what they become
  Dashed,           \* the names with a "_", to what they become with a "-"
  DigestShaped      \* texts that are an algorithm and its digest

VARIABLES
  doc,       \* the parsed document
  parse      \* the walk: _CycloneDxParse, and the position it has reached

CdxSeverityRank ==
  [CRITICAL |-> 5, HIGH |-> 4, MEDIUM |-> 3, LOW |-> 2, INFORMATIONAL |-> 1, UNKNOWN |-> 0]
RatingSeverities ==
  [critical |-> "CRITICAL", high |-> "HIGH", medium |-> "MEDIUM", low |-> "LOW",
   info |-> "INFORMATIONAL", none |-> "INFORMATIONAL", unknown |-> "UNKNOWN"]
MatchStates == {"exploitable", "in_triage"}
ScopeRecord == "cyclonedx.bom"

Worst(severities) ==
  CHOOSE s \in severities : \A t \in severities : CdxSeverityRank[t] <= CdxSeverityRank[s]

-----------------------------------------------------------------------------
(* The package key: free of the version, in one of three disjoint forms. *)

AsciiFold(text) == IF text \in DOMAIN Lowered THEN Lowered[text] ELSE text

FoldsNamespace == {"alpm", "apk", "bitbucket", "composer", "deb", "github", "hex", "rpm"}
FoldsName == {"alpm", "apk", "bitbucket", "composer", "deb", "github", "hex", "oci", "pypi"}
DefaultQualifiers == {<<"gem", "platform", "ruby">>, <<"maven", "type", "jar">>}
StrippedQualifiers ==
  {"epoch", "distro", "upstream", "file_path", "file_name", "download_url", "vcs_url",
   "repository_url", "checksum", "package-id"}
Stripped(type) ==
  CASE type = "oci" -> (StrippedQualifiers \ {"repository_url"}) \cup {"tag"}
    [] type = "docker" -> StrippedQualifiers \ {"repository_url"}
    [] type \notin {"oci", "docker"} -> StrippedQualifiers

\* Mutant of Qualifiers: every qualifier is kept.
QualifiersKept(type, purl) == purl.qualifiers

\* Of the qualifiers that have a value, those that tell packages apart.
Qualifiers(type, purl) ==
  {q \in {[key |-> AsciiFold(r.key), value |-> r.value] : r \in {s \in purl.qualifiers : s.value # None}} :
     q.key \notin Stripped(type) /\ <<type, q.key, q.value>> \notin DefaultQualifiers}

\* A purl that names one key twice does not parse.
Parses(purl) ==
  /\ purl.parses
  /\ \A q, r \in {s \in purl.qualifiers : s.value # None} : AsciiFold(q.key) = AsciiFold(r.key) => q = r

FoldedName(type, name) ==
  LET folded == IF type \in FoldsName THEN AsciiFold(name) ELSE name IN
  IF type = "pypi" /\ folded \in DOMAIN Dashed THEN Dashed[folded] ELSE folded

PurlKey(purl) ==
  LET type == AsciiFold(purl.type)
      namespace == IF type \in FoldsNamespace THEN AsciiFold(purl.namespace) ELSE purl.namespace
  IN <<"pkg", type, namespace, FoldedName(type, purl.name), Qualifiers(type, purl), purl.subpath>>

PackageKey(c) ==
  IF Parses(c.purl) THEN PurlKey(c.purl) ELSE <<"component", c.type, c.group, c.name>>

Weak(key) == key[1] = "component"
RefKey(ref) == <<"ref", ref>>

\* Percent-encoding leaves a key nothing to refuse but its length.
TooLong(key) == IF key[1] = "ref" THEN key[2].name \in Refused ELSE key[4] \in Refused

-----------------------------------------------------------------------------
(* The document: its kind, its components and where a reference leads. *)

Matched(document) == document.vulnerabilities # <<>>

Subject == <<"subject">>
Pushed(components, subject) ==
  [i \in DOMAIN components |-> [component |-> components[i], subject |-> subject]]

CdxStart(document) ==
  [step |-> IF document.shape # "ok" \/ (document.faulted /\ ~Matched(document)) THEN "rejected" ELSE "index",
   pending |-> Pushed(document.subject, TRUE) \o Pushed(document.components, FALSE),
   at |-> 1, entry |-> 0, index |-> {}, components |-> 0, tool |-> {}, scope |-> <<>>, lineage |-> <<>>,
   resolved |-> FALSE, folds |-> {},
   diagnostics |-> When(document.faulted, Error("invalid_bom"))]

Added(p, diagnostics) == [p EXCEPT !.diagnostics = @ \cup diagnostics]

\* An inventory that cannot be read is no detection that failed.
Faulted(p, document, code) ==
  IF Matched(document) THEN Added(p, {Error(code)}) ELSE [p EXCEPT !.step = "rejected"]

Carrier(component, target) ==
  [ref |-> component.ref, target |-> target, version |-> component.version, purl |-> component.purl]

\* One component of the walk; its children are next, when it can be read.
Index(p, document) ==
  LET c == Head(p.pending).component
      subject == Head(p.pending).subject
      carrier == Carrier(c, IF subject THEN Subject ELSE PackageKey(c))
  IN IF ~c.sound THEN Faulted([p EXCEPT !.pending = Tail(@)], document, "invalid_component")
     ELSE [p EXCEPT !.pending = Pushed(c.components, FALSE) \o Tail(@),
                    !.components = IF subject THEN @ ELSE @ + 1,
                    !.index = IF c.ref # <<>> THEN @ \cup {carrier} ELSE @]

\* The tools that count: the applications, when the object form names one.
Tools(document) ==
  LET applications == {t \in document.tools : t.application} IN
  {t.name : t \in IF applications # {} THEN applications ELSE document.tools} \ {None}

IsContainer(s) == s.type = "container" \/ (Parses(s.purl) /\ AsciiFold(s.purl.type) = "oci")
IsNamed(s) == s.name # None \/ s.tag # None \/ s.digest # None

ImageId(s) ==
  CASE s.tag # None \/ s.digest # None \/ s.version = None -> <<s.name, s.tag, s.digest>>
    [] s.tag = None /\ s.digest = None /\ s.version # None ->
         IF s.version \in DigestShaped THEN <<s.name, None, s.version>> ELSE <<s.name, s.version, None>>

\* The subject without its tag and digest, unless that leaves nothing of it.
SubjectLineage(s) ==
  IF ~IsContainer(s) THEN <<s.group, s.name, s.tag, s.digest>>
  ELSE IF s.name = None THEN <<s.name, s.tag, s.digest>> ELSE <<s.name>>

Scope(document, tool) ==
  LET named == document.subject # <<>> /\ IsNamed(document.subject[1])
      s == document.subject[1]
  IN IF ~named THEN [resource |-> <<"scan", <<tool>>>>, lineage |-> <<tool>>, refused |-> FALSE]
     ELSE [resource |-> IF IsContainer(s) THEN <<"image", ImageId(s)>>
                        ELSE <<"scan", <<s.group, s.name, s.tag, s.digest>>>>,
           lineage |-> SubjectLineage(s), refused |-> s.name \in Refused]

\* Both count bounds are checked before a record is read.
OverBound(document) ==
  \/ Len(document.vulnerabilities) > MaxResults
  \/ \E v \in Range(document.vulnerabilities) : Len(v.affects) > MaxAffects

\* With every component indexed: a document of statements alone is refused, then
\* the tool, the subject and the clock are read.
ReadScope(p, document) ==
  LET named == Tools(document) # {}
      tool == IF named THEN Tools(document) ELSE {"cyclonedx"}
      scope == Scope(document, tool)
      known == Added(p, When(~named, Warning("tool_identity_fallback"))
                        \cup When(Cardinality(tool) > 1, Warning("tool_identity_ambiguous")))
      noted ==
        When(scope.resource = <<"scan", <<tool>>>>, Warning("subject_identity_fallback"))
        \cup When(document.version = Unusable, Warning("bom_version_invalid"))
        \cup When(document.timestamp = Unusable, Warning("source_timestamp_invalid"))
        \cup When(~Usable(document.timestamp), Warning("source_timestamp_missing"))
  IN IF HasErrors(p.diagnostics) THEN [p EXCEPT !.step = "done"]
     ELSE IF Matched(document) /\ p.components = 0 THEN [p EXCEPT !.step = "rejected"]
     ELSE IF Matched(document) /\ ~named
     THEN [Added(p, {Error("invalid_bom")}) EXCEPT !.step = "done"]
     ELSE IF tool \cap Refused # {}
     THEN Faulted([p EXCEPT !.step = "done"], document, "identity_input_invalid")
     ELSE IF scope.refused
     THEN Faulted([known EXCEPT !.step = "done"], document, "identity_input_invalid")
     ELSE [Added(known, noted) EXCEPT !.step = IF OverBound(document) THEN "bound" ELSE "fold",
                                      !.tool = tool, !.scope = scope.resource,
                                      !.lineage = scope.lineage]

BomVersion(document) == IF Usable(document.version) THEN document.version ELSE 1

\* A reference to this very document leads where its fragment does, unless a
\* component carries the reference itself.
LocalFragment(document, ref) ==
  IF ref.serial # None /\ ref.serial = document.serial /\ ref.version = BomVersion(document)
  THEN [serial |-> None, version |-> Absent, name |-> ref.name] ELSE ref

Target(p, document, ref) ==
  IF \E c \in p.index : c.ref = <<ref>> THEN ref ELSE LocalFragment(document, ref)

Carriers(p, document, ref) == {c \in p.index : c.ref = <<Target(p, document, ref)>>}
Conflict(carriers) == Cardinality({c.target : c \in carriers}) > 1

\* The components a reference names, or none when they are of several packages.
Resolve(carriers) == IF Conflict(carriers) THEN {} ELSE carriers

-----------------------------------------------------------------------------
(* One vulnerability record. *)

\* A supplier's judgment of a product is no sign that a match ran.
Unjudged(v) == IF v.state # None THEN v.state \in MatchStates ELSE ~v.judged

RecordErrors(v) ==
  CASE ~v.sound -> {Error("invalid_vulnerability")}
    [] v.sound /\ v.id = None -> {Error("vulnerability_id_missing")}
    [] v.sound /\ v.id # None -> When(v.id \in Refused, Error("identity_input_invalid"))

\* The highest vendor word and the least source that gave it, 0 for none.
Rated(ratings) ==
  LET words == {[r EXCEPT !.word = RatingSeverities[r.word]] :
                  r \in {s \in ratings : s.word \in DOMAIN RatingSeverities}}
      severity == Worst({r.word : r \in words})
      sources == {r.source : r \in {s \in words : s.word = severity}} \ {0}
  IN IF words = {} THEN [severity |-> "UNKNOWN", source |-> 0]
     ELSE [severity |-> severity, source |-> IF sources = {} THEN 0 ELSE FirstOf(sources)]

AnalysisCodes(v) ==
  CASE v.state = None -> {}
    [] v.state = "unread" -> {}
    [] v.state = "odd" -> {Warning("analysis_state_invalid")}
    [] v.state = "not_affected" -> {Warning("analysis_not_affected")}
    [] v.state = "false_positive" -> {Warning("analysis_false_positive")}
    [] v.state \in {"resolved", "resolved_with_pedigree"} -> {Warning("analysis_resolved")}
    [] v.state = "in_triage" -> {Warning("analysis_in_triage")}
    [] v.state = "exploitable" -> {}

CdxCandidate(v, place, resource, instances) ==
  [key |-> [record |-> v.id, resource |-> resource], place |-> place, text |-> v.text,
   severity |-> Rated(v.ratings).severity, source |-> Rated(v.ratings).source,
   states |-> {v.state} \ {None, "unread"}, instances |-> instances]

\* One fold more: past the cap the artifact is refused.
Put(p, candidate) ==
  LET folds == p.folds \cup {candidate} IN
  IF Cardinality({c.key : c \in folds}) > MaxObservations THEN [p EXCEPT !.step = "bound"]
  ELSE [p EXCEPT !.folds = folds]

Contradicted(entry, carriers) == \E c \in carriers : c.version # None /\ c.version \in entry.unaffected

\* Mutant of Counts: a record's judgment is not asked for.
CountsJudged(v, entry, carriers) ==
  carriers # {} /\ Subject \notin {c.target : c \in carriers} /\ ~Contradicted(entry, carriers)

\* The sign that a match ran: a listed component, no judgment, no contradiction.
Counts(v, entry, carriers) ==
  /\ carriers # {} /\ Subject \notin {c.target : c \in carriers}
  /\ Unjudged(v)
  /\ ~Contradicted(entry, carriers)

NextRecord(p) == [p EXCEPT !.at = @ + 1, !.entry = 0]

\* One entry of affects: the subject itself, a package it lists, or the
\* reference as written.
Affect(p, document, v, entry) ==
  LET carriers == Carriers(p, document, entry.ref)
      named == Resolve(carriers)
      target == IF named = {} THEN RefKey(entry.ref) ELSE (CHOOSE c \in named : TRUE).target
      resource == IF target = Subject THEN p.scope ELSE <<"package", p.scope[1], p.lineage, target>>
      located == Added(p, When(Conflict(carriers), Warning("bom_ref_conflict"))
                          \cup When(named = {}, Warning("affects_unresolved"))
                          \cup When(Weak(target), Warning("package_identity_weak")))
  IN IF target # Subject /\ TooLong(target) THEN Added(located, {Error("identity_input_invalid")})
     ELSE Put([Added(located, When(Contradicted(entry, named), Warning("affects_version_unaffected")))
                 EXCEPT !.resolved = @ \/ Counts(v, entry, named)],
              CdxCandidate(v, <<p.at, p.entry>>, resource, IF target = Subject THEN {} ELSE named))

\* After the last entry the walk goes on to the next record.
Entry(p, document) ==
  LET v == document.vulnerabilities[p.at]
      q == Affect(p, document, v, v.affects[p.entry])
  IN IF p.entry = Len(v.affects) THEN NextRecord(q) ELSE [q EXCEPT !.entry = @ + 1]

\* A record, whose entries are next.  One that names no component is recorded on
\* the subject.
Record(p, document) ==
  LET v == document.vulnerabilities[p.at]
      q == Added(p, AnalysisCodes(v) \cup When(v.unfixed, Warning("response_will_not_fix")))
  IN IF RecordErrors(v) # {} THEN NextRecord(Added(p, RecordErrors(v)))
     ELSE IF v.affects = <<>>
     THEN NextRecord(Put(Added(q, {Warning("affects_missing")}), CdxCandidate(v, <<p.at, 0>>, p.scope, {})))
     ELSE [q EXCEPT !.entry = 1]

-----------------------------------------------------------------------------
(* Assembly. *)

Order(candidates) ==
  CHOOSE c \in candidates : \A d \in candidates : c.text <= d.text

\* Mutant of AssembleFold: the record read last decides the severity.
AssembleLast(key, candidates) ==
  LET last == CHOOSE c \in candidates :
                \A d \in candidates : d.place[1] < c.place[1] \/ (d.place[1] = c.place[1] /\ d.place[2] <= c.place[2])
  IN [key |-> key, disposition |-> "OPEN", severity |-> last.severity, source |-> last.source,
      text |-> Order(candidates).text, states |-> UNION {c.states : c \in candidates},
      instances |-> UNION {c.instances : c \in candidates}, count |-> Cardinality(candidates)]

\* Every choice is a maximum, a minimum or a union over the candidates.
AssembleFold(key, candidates) ==
  LET severity == Worst({c.severity : c \in candidates})
      sources == {c.source : c \in {d \in candidates : d.severity = severity}} \ {0}
  IN [key |-> key, disposition |-> "OPEN", severity |-> severity,
      source |-> IF sources = {} THEN 0 ELSE FirstOf(sources),
      text |-> Order(candidates).text, states |-> UNION {c.states : c \in candidates},
      instances |-> UNION {c.instances : c \in candidates}, count |-> Cardinality(candidates)]

Folded(p) ==
  {AssembleFold(key, {c \in p.folds : c.key = key}) : key \in {c.key : c \in p.folds}}

ScopeKey(p) == [record |-> ScopeRecord, resource |-> p.scope]

\* The document yields to a finding of its identity, and counts to the cap else.
Close(p) ==
  [p EXCEPT !.step = IF HasErrors(p.diagnostics) THEN "done"
                     ELSE IF \E c \in p.folds : c.key = ScopeKey(p) THEN "superseded"
                     ELSE IF Cardinality({c.key : c \in p.folds}) + 1 > MaxObservations THEN "bound"
                     ELSE "scoped"]

ScopeObservation(p) ==
  [key |-> ScopeKey(p), disposition |-> IF p.resolved THEN "PASS" ELSE "NOT_REVIEWED",
   severity |-> "UNKNOWN", source |-> 0, text |-> 0, states |-> {}, instances |-> {}, count |-> 1]

CloseNotes(p, document) ==
  When(p.step = "superseded", [level |-> "INFO", code |-> "scope_superseded"])
  \cup When(p.step = "scoped" /\ document.listed = FALSE, Warning("vulnerabilities_absent"))
  \cup When(p.step = "scoped" /\ document.listed /\ ~p.resolved, Warning("match_unverified"))
  \cup When(\E o \in Folded(p) : Cardinality(o.states) > 1, Warning("analysis_conflict"))
  \cup When(\E o \in Folded(p) : Cardinality({c.ref : c \in o.instances}) > 1,
            [level |-> "INFO", code |-> "package_instances_folded"])

Walking(p) == p.step \in {"index", "fold"}

Stepped(p, document) ==
  CASE p.step = "index" /\ p.pending # <<>> -> Index(p, document)
    [] p.step = "index" /\ p.pending = <<>> -> ReadScope(p, document)
    [] p.step = "fold" /\ p.at \in DOMAIN document.vulnerabilities ->
         IF p.entry = 0 THEN Record(p, document) ELSE Entry(p, document)
    [] p.step = "fold" /\ p.at \notin DOMAIN document.vulnerabilities -> Close(p)

CdxStep ==
  /\ Walking(parse)
  /\ parse' = Stepped(parse, doc)
  /\ UNCHANGED doc

CdxDone == ~Walking(parse)

CdxOutput(p, document) ==
  CASE p.step = "rejected" -> Refusal(TRUE, "artifact_parse_failed", TRUE)
    [] p.step = "bound" -> Refusal(TRUE, "artifact_parse_failed", FALSE)
    [] OTHER ->
         Reading(Folded(p) \cup (IF p.step = "scoped" THEN {ScopeObservation(p)} ELSE {}),
                 p.diagnostics \cup IF HasErrors(p.diagnostics) THEN {} ELSE CloseNotes(p, document),
                 Absent)

-----------------------------------------------------------------------------
(* What a finished walk must have made of the document. *)

Observed == CdxOutput(parse, doc).observations
Findings == {o \in Observed : o.disposition = "OPEN"}
Imports == parse.step \in {"superseded", "scoped"}

Statements(v) == IF v.affects = <<>> THEN 1 ELSE Len(v.affects)

\* Every statement of every record is in one open finding of its id, at its
\* severity or a higher one, with what its supplier said of it.
StatementsOpen ==
  Imports => \A id \in {v.id : v \in Range(doc.vulnerabilities)} :
    LET records == {i \in DOMAIN doc.vulnerabilities : doc.vulnerabilities[i].id = id}
        ofId == {o \in Findings : o.key.record = id}
    IN /\ SumFunction([o \in ofId |-> o.count])
            = SumFunction([i \in records |-> Statements(doc.vulnerabilities[i])])
       /\ \A i \in records : \E o \in ofId :
            LET v == doc.vulnerabilities[i] IN
            /\ v.state \notin {None, "unread"} => v.state \in o.states
            /\ \A r \in v.ratings : r.word \in DOMAIN RatingSeverities =>
                 CdxSeverityRank[RatingSeverities[r.word]] <= CdxSeverityRank[o.severity]

\* Every component but the subject, level by level, as deep as the loader reads.
Children(components) == UNION {Range(c.components) : c \in components}
Tops(document) == Range(document.components) \cup Children(Range(document.subject))
Levels(document) ==
  LET level[n \in Nat] == IF n = 0 THEN Tops(document) ELSE Children(level[n - 1]) IN level
Listed(document) == UNION {Levels(document)[n] : n \in 0 .. MaxDepth}

\* The components a reference may name: those that carry it.
Bearers(document, ref) == {c \in Listed(document) : c.ref = <<ref>>}
Borne(document, ref) ==
  Bearers(document, ref) # {} \/ \E s \in Range(document.subject) : s.ref = <<ref>>
Meant(document, ref) == IF Borne(document, ref) THEN ref ELSE LocalFragment(document, ref)

MatchRan(document, v, entry) ==
  LET ref == Meant(document, entry.ref)
      bearers == Bearers(document, ref)
  IN /\ v.state \in MatchStates \/ (v.state = None /\ ~v.judged)
     /\ bearers # {} /\ \A s \in Range(document.subject) : s.ref # <<ref>>
     /\ \A c, d \in bearers : PackageKey(c) = PackageKey(d) /\ c.version \notin entry.unaffected

\* A PASS of the document is an entry of a record nobody judged, for a component
\* listed beside the subject, of one package, no install of which it clears.
MatchIsEvidence ==
  Imports =>
    /\ \A o, q \in Observed : o.key = q.key => o = q
    /\ \A o \in Observed : o.disposition = "PASS" =>
         /\ o.key = ScopeKey(parse)
         /\ \E v \in Range(doc.vulnerabilities) : \E entry \in Range(v.affects) : MatchRan(doc, v, entry)

-----------------------------------------------------------------------------
(* The document read again, in another order or upgraded.  A list is changed *)
(* at every depth by as many rounds as there are levels below it.            *)

\* The walk of a document, from its start.
Onward(p, document) == IF Walking(p) THEN Stepped(p, document) ELSE p
Walks(document) ==
  LET walk[n \in Nat] == IF n = 0 THEN CdxStart(document) ELSE Onward(walk[n - 1], document) IN walk

Again(document) == Walks(document)[MaxSteps]
Reread(document) == CdxOutput(Again(document), document).observations

\* A component, what it holds in reverse order and turned as said.
Turn(turned, c) == [c EXCEPT !.components = [i \in DOMAIN @ |-> turned[Reverse(@)[i]]]]
Turns(document) ==
  LET listed == Listed(document)
      turned[n \in Nat] == [c \in listed |-> IF n = 0 THEN c ELSE Turn(turned[n - 1], c)]
  IN turned

TurnedEntries(v) == [v EXCEPT !.affects = Reverse(@)]

\* The document with every list of it reversed.
Turned(document) ==
  LET turned == Turns(document)[MaxDepth + 1]
      records == Reverse(document.vulnerabilities)
  IN [document EXCEPT !.subject = [i \in DOMAIN @ |-> Turn(turned, @[i])],
                      !.components = [i \in DOMAIN @ |-> turned[Reverse(@)[i]]],
                      !.vulnerabilities = [i \in DOMAIN @ |-> TurnedEntries(records[i])]]

\* The observations are those of the document with every list of it reversed,
\* once that is read to its end.
OrderIsLost ==
  LET turned == Turned(doc) IN (Imports /\ ~Walking(Again(turned))) => Reread(turned) = Observed

\* A package url one release on.
Moved(qualifiers) ==
  {q \in qualifiers : AsciiFold(q.key) # "distro"} \cup {[key |-> "distro", value |-> "next"]}
Released(purl) ==
  [purl EXCEPT !.version = "v9", !.qualifiers = IF Parses(purl) THEN Moved(@) ELSE @]

Held(raised, c) == [c EXCEPT !.components = [i \in DOMAIN @ |-> raised[@[i]]]]
Raise(raised, c) == [Held(raised, c) EXCEPT !.version = "v9", !.purl = Released(@)]
Raises(document) ==
  LET listed == Listed(document)
      raised[n \in Nat] == [c \in listed |-> IF n = 0 THEN c ELSE Raise(raised[n - 1], c)]
  IN raised

Retagged(s) == IF s.tag = None THEN [s EXCEPT !.version = "v9"] ELSE [s EXCEPT !.tag = "v9"]

\* The document of the next release: every package, and the image that carries them.
Upgraded(document) ==
  LET raised == Raises(document)[MaxDepth + 1]
  IN [document EXCEPT !.subject = [i \in DOMAIN @ |-> Retagged(Held(raised, @[i]))],
                      !.components = [i \in DOMAIN @ |-> raised[@[i]]]]

PackageRows(observations) ==
  {o.key : o \in {q \in observations : q.key.resource[1] = "package"}}

\* An upgrade of every package, and of the image that carries them, leaves every
\* finding on the package where it was, once the upgraded document is read to its end.
RowsOutliveUpgrades ==
  LET upgraded == Upgraded(doc) IN
  (Imports /\ (\A s \in Range(doc.subject) : IsContainer(s) /\ s.name # None) /\ ~Walking(Again(upgraded)))
    => PackageRows(Reread(upgraded)) = PackageRows(Observed)

=============================================================================
