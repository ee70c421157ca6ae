--------------------------------- MODULE Hdf ---------------------------------
(***************************************************************************)
(* The HDF adapter (adapters/hdf.py): the profiles of one document are     *)
(* indexed by name, each is traced to the root it hangs under, its         *)
(* controls are rolled up into candidates, the empty copies an overlay     *)
(* leaves behind are shadowed by the copies that carry results, and every  *)
(* identity is folded into one observation.                                *)
(*                                                                         *)
(* Of a control is kept what decides its identity, disposition, severity,  *)
(* clock, waiver and attestation.  Its title stands for the content that   *)
(* orders two copies.                                                      *)
(***************************************************************************)
EXTENDS Evidence, Sequences, Functions

CONSTANTS
  MaxResults,       \* limits.max_results_per_run, of controls and of results
  MaxObservations,  \* limits.max_observations_per_artifact
  MaxProfiles       \* MAX_PROFILES_PER_DOCUMENT

VARIABLES
  doc,       \* the parsed document
  parse      \* the walk: _HdfParse, and the position it has reached

HdfRank ==
  [OPEN |-> 5, ERROR |-> 4, UNKNOWN |-> 3, PASS |-> 2, NOT_REVIEWED |-> 1, NOT_APPLICABLE |-> 0]
Statuses == [failed |-> "OPEN", error |-> "ERROR", passed |-> "PASS", skipped |-> "NOT_REVIEWED"]
HdfSeverityRank ==
  [CRITICAL |-> 5, HIGH |-> 4, MEDIUM |-> 3, LOW |-> 2, INFORMATIONAL |-> 1, UNKNOWN |-> 0]

HighestOf(values, rank) == CHOOSE v \in values : \A w \in values : rank[w] <= rank[v]

-----------------------------------------------------------------------------
(* Profiles. *)

\* The profiles are counted before the platform and the version are asked for.
HdfStart(document) ==
  [step |-> IF document.profiles = <<>> THEN "rejected"
            ELSE IF Len(document.profiles) > MaxProfiles THEN "bound"
            ELSE IF ~document.platform \/ ~document.version THEN "rejected"
            ELSE IF document.target \in Refused THEN "done" ELSE "index",
   at |-> 1, indexed |-> <<>>, refused |-> {}, chain |-> <<>>, roots |-> <<>>, depths |-> <<>>,
   control |-> 0, folds |-> {},
   diagnostics |->
     When(document.target = None, Warning("resource_identity_fallback"))
     \cup When(document.target \in Refused, Error("identity_input_invalid"))]

Noted(p, diagnostics) == [p EXCEPT !.diagnostics = @ \cup diagnostics]
Names(p) == {profile.name : profile \in Range(p.indexed)}
Named(p, name) == CHOOSE profile \in Range(p.indexed) : profile.name = name

Indexed(p, profile) ==
  IF ~profile.object \/ profile.name = None \/ (profile.name \notin Refused /\ profile.name \in Names(p))
  THEN Noted(p, {Error("invalid_profile")})
  ELSE IF profile.name \in Refused
  THEN [Noted(p, {Error("identity_input_invalid")}) EXCEPT !.refused = @ \cup {profile.name}]
  ELSE [p EXCEPT !.indexed = Append(@, profile)]

IndexProfile ==
  /\ parse.step = "index"
  /\ LET q == Indexed(parse, doc.profiles[parse.at])
         last == parse.at = Len(doc.profiles)
     IN parse' = [q EXCEPT !.at = IF last THEN 1 ELSE @ + 1, !.step = IF last THEN "scan" ELSE @]
  /\ UNCHANGED doc

\* The profile the walk up the parent links has come to, and where it comes to next.
Reached(p) == p.chain[Len(p.chain)]
Link(p) == IF p.chain = <<>> THEN p.indexed[p.at].name ELSE Named(p, Reached(p)).parent

\* It goes on while that is a profile no walk has passed.
Climbing(p) == Link(p) \in Names(p) \ (DOMAIN p.roots \cup Range(p.chain))

\* Mutant of Rooted: every profile the walk passed is given the depth it met.
RootedFlat(p, root, base) ==
  LET known == DOMAIN p.roots \cup Range(p.chain) IN
  [p EXCEPT !.chain = <<>>,
            !.roots = [name \in known |-> IF name \in Range(p.chain) THEN root ELSE @[name]],
            !.depths = [name \in known |-> IF name \in Range(p.chain) THEN base + 1 ELSE @[name]]]

\* Every profile the walk passed shares its answer, and counts its depth from it.
Rooted(p, root, base) ==
  LET known == DOMAIN p.roots \cup Range(p.chain)
      Place(name) == CHOOSE i \in DOMAIN p.chain : p.chain[i] = name
  IN [p EXCEPT !.chain = <<>>,
               !.roots = [name \in known |-> IF name \in Range(p.chain) THEN root ELSE @[name]],
               !.depths = [name \in known |-> IF name \in Range(p.chain)
                                              THEN base + Len(p.chain) - Place(name) + 1 ELSE @[name]]]

\* The walk ends at a profile an earlier one passed, at a root, or at a fault: a
\* cycle, or a parent the document has not, which may have been refused before.
Traced(p) ==
  LET link == Link(p) IN
  IF link \in DOMAIN p.roots THEN Rooted(p, p.roots[link], p.depths[link])
  ELSE IF link = None THEN Rooted(p, Reached(p), -1)
  ELSE Rooted(Noted(p, When(link \notin p.refused, Error("invalid_profile"))), None, 0)

-----------------------------------------------------------------------------
(* Controls. *)

\* A backtrace makes any status an error; an unknown status is unknown.
ResultDisposition(result) ==
  IF result.backtrace THEN "ERROR"
  ELSE IF result.status \in DOMAIN Statuses THEN Statuses[result.status] ELSE "UNKNOWN"

\* The result an attestation appended lends neither clock nor text.
Marker(result, attested) == IF attested THEN result.marker ELSE None

ReadResults(control) == {r \in Range(control.results) : r.object}
Attested(control) == control.attestation # None

Expired(control) == \E r \in ReadResults(control) : Marker(r, Attested(control)) = "expired"

ControlClocks(control) ==
  {r.start : r \in {s \in ReadResults(control) : Marker(s, Attested(control)) = None}}

\* Impact 0 first, then no results, then the highest-ranked result.
ControlDisposition(control) ==
  LET read == {ResultDisposition(r) : r \in ReadResults(control)} IN
  IF control.impact = "zero" THEN [disposition |-> "NOT_APPLICABLE", source |-> "impact_zero"]
  ELSE IF read = {} THEN [disposition |-> "ERROR", source |-> "no_results"]
  ELSE [disposition |-> HighestOf(read, HdfRank), source |-> "results"]

\* The override tag, else the severity tag, else the band of the impact.
ControlSeverity(control) ==
  CASE control.override \in DOMAIN HdfSeverityRank -> control.override
    [] control.override \notin DOMAIN HdfSeverityRank ->
         IF control.severity \in DOMAIN HdfSeverityRank THEN control.severity
         ELSE IF control.impact = "zero" THEN "INFORMATIONAL"
         ELSE IF control.impact \in DOMAIN HdfSeverityRank THEN control.impact ELSE "UNKNOWN"

ControlErrors(control) ==
  IF ~control.object \/ control.id = None THEN {Error("invalid_control")}
  ELSE IF control.id \in Refused THEN {Error("identity_input_invalid")}
  ELSE When(~control.array, Error("invalid_control"))

ControlNotes(control) ==
  When(ReadResults(control) # Range(control.results), Error("invalid_control"))
  \cup When(control.waiver # None, Warning("control_waived"))
  \cup When(Attested(control), Warning("control_attested"))
  \cup When(Unusable \in ControlClocks(control), Warning("source_timestamp_invalid"))

HdfKey(document, root, control) ==
  [root |-> root, record |-> control.id,
   resource |-> IF document.target # None THEN <<"target", document.target>> ELSE <<"scan", root>>]

ControlCandidate(key, depth, control) ==
  [key |-> key, depth |-> depth, title |-> control.title, has_results |-> control.results # <<>>,
   disposition |-> ControlDisposition(control).disposition,
   source |-> ControlDisposition(control).source,
   severity |-> ControlSeverity(control), at |-> EarliestOf(ControlClocks(control)),
   waiver |-> control.waiver, attestation |-> control.attestation,
   attested |-> IF ~Attested(control) THEN None ELSE IF Expired(control) THEN "expired" ELSE "true"]

NextProfile(p) == [p EXCEPT !.at = @ + 1, !.control = 0]

\* The controls of a rooted profile.  One that failed and brings none never
\* ran, which is a failed execution.
Opened(p, profile) ==
  LET q == Noted(p, When(profile.status \notin {None, "loaded"}, Warning("profile_not_loaded"))
                    \cup When(profile.status = "failed" /\ profile.array /\ profile.controls = <<>>,
                              Warning(Executed)))
  IN IF ~profile.array THEN NextProfile(Noted(q, {Error("invalid_profile")}))
     ELSE IF Len(profile.controls) > MaxResults THEN [q EXCEPT !.step = "bound"]
     ELSE IF profile.controls = <<>> THEN NextProfile(q) ELSE [q EXCEPT !.control = 1]

Tracing == parse.step = "scan" /\ parse.at \in DOMAIN parse.indexed /\ parse.control = 0
Profile == parse.indexed[parse.at]

Climb ==
  /\ Tracing /\ Climbing(parse)
  /\ parse' = [parse EXCEPT !.chain = Append(@, Link(parse))]
  /\ UNCHANGED doc

\* A profile whose walk has ended: its controls are read when it has a root.
OpenProfile ==
  /\ Tracing /\ ~Climbing(parse)
  /\ LET q == Traced(parse) IN
     parse' = IF q.roots[Profile.name] = None THEN NextProfile(q) ELSE Opened(q, Profile)
  /\ UNCHANGED doc

\* One control entry; a cap refuses the artifact.
Scanned(p, profile, control) ==
  LET key == HdfKey(doc, p.roots[profile.name], control)
      folds == p.folds \cup {ControlCandidate(key, p.depths[profile.name], control)}
  IN IF ControlErrors(control) # {} THEN Noted(p, ControlErrors(control))
     ELSE IF \/ Len(control.results) > MaxResults
             \/ Cardinality({c.key : c \in folds}) > MaxObservations
     THEN [p EXCEPT !.step = "bound"]
     ELSE [Noted(p, ControlNotes(control)) EXCEPT !.folds = folds]

ScanControl ==
  /\ parse.step = "scan" /\ parse.control # 0
  /\ LET scanned == Scanned(parse, Profile, Profile.controls[parse.control])
         last == parse.control = Len(Profile.controls)
     IN parse' = IF scanned.step = "bound" THEN scanned
                 ELSE IF last THEN NextProfile(scanned)
                 ELSE [scanned EXCEPT !.control = @ + 1]
  /\ UNCHANGED doc

-----------------------------------------------------------------------------
(* Shadowing and folding. *)

OfKey(candidates, key) == {c \in candidates : c.key = key}

\* The first of some copies by their content; the outermost first when shadowed.
InOrder(copies) ==
  CHOOSE c \in copies : \A d \in copies : c.title <= d.title
OutermostFirst(copies) ==
  CHOOSE c \in copies :
    \A d \in copies : c.depth < d.depth \/ (c.depth = d.depth /\ c.title <= d.title)

\* A group no survivor carries passes to all of them from the outermost empty
\* copy that carries one.
HandOver(kept, shadowed) ==
  LET waived == {c \in shadowed : c.waiver # None}
      attested == {c \in shadowed : c.attested # None}
      Waive(c) == IF waived # {} /\ \A k \in kept : k.waiver = None
                  THEN [c EXCEPT !.waiver = OutermostFirst(waived).waiver] ELSE c
      Attest(c) == IF attested # {} /\ \A k \in kept : k.attested = None
                   THEN [c EXCEPT !.attested = OutermostFirst(attested).attested,
                                  !.attestation = OutermostFirst(attested).attestation] ELSE c
  IN {Attest(Waive(c)) : c \in kept}

\* Mutant of Shadow: the outermost copy stands for the others.
ShadowByDepth(candidates) ==
  HandOver({OutermostFirst(candidates)}, candidates \ {OutermostFirst(candidates)})

\* The empty copies of a control go where any copy carries results.
Shadow(candidates) ==
  LET kept == {c \in candidates : c.has_results} IN
  IF kept = {} THEN candidates ELSE HandOver(kept, candidates \ kept)

\* An expired attestation is kept over a current one.
AssembleControl(key, candidates) ==
  LET expired == {c \in candidates : c.attested = "expired"}
      attested == IF expired # {} THEN expired ELSE {c \in candidates : c.attested # None}
      waived == {c \in candidates : c.waiver # None}
  IN [key |-> key,
      disposition |-> HighestOf({c.disposition : c \in candidates}, HdfRank),
      severity |-> HighestOf({c.severity : c \in candidates}, HdfSeverityRank),
      at |-> EarliestOf({c.at : c \in candidates}),
      waiver |-> IF waived = {} THEN None ELSE InOrder(waived).waiver,
      attestation |-> IF attested = {} THEN None ELSE InOrder(attested).attestation,
      attested |-> IF attested = {} THEN None ELSE InOrder(attested).attested]

HdfAssembled(p) ==
  {AssembleControl(key, Shadow(OfKey(p.folds, key))) : key \in {c.key : c \in p.folds}}

HdfStep == IndexProfile \/ Climb \/ OpenProfile \/ ScanControl

HdfDone ==
  \/ parse.step \in {"rejected", "bound", "done"}
  \/ parse.step = "scan" /\ parse.at \notin DOMAIN parse.indexed

HdfOutput(p) ==
  CASE p.step = "rejected" -> Refusal(TRUE, "artifact_parse_failed", TRUE)
    [] p.step = "bound" -> Refusal(TRUE, "artifact_parse_failed", FALSE)
    [] OTHER -> Reading(HdfAssembled(p),
                        p.diagnostics \cup When(p.folds = {}, Error("no_observations")), Absent)

-----------------------------------------------------------------------------
(* What a finished walk must have made of the document. *)

Observed == HdfOutput(parse).observations

Imports == parse.step = "scan" /\ ~HasErrors(parse.diagnostics) /\ parse.folds # {}

\* Every copy of a control under a root.
Copies ==
  UNION {{[key |-> HdfKey(doc, parse.roots[profile.name], control), control |-> control] :
            control \in Range(profile.controls)} :
         profile \in {p \in Range(parse.indexed) : parse.roots[p.name] # None}}

FailuresWin ==
  Imports => \A copy \in Copies :
    (/\ copy.control.impact # "zero"
     /\ \E r \in Range(copy.control.results) : r.status = "failed" /\ ~r.backtrace)
      => \E o \in Observed : o.key = copy.key /\ o.disposition = "OPEN"

GroupsKept ==
  Imports => \A copy \in Copies : \E o \in Observed :
    /\ o.key = copy.key
    /\ copy.control.waiver # None => o.waiver # None
    /\ Attested(copy.control) => o.attested # None
    /\ Expired(copy.control) => o.attested = "expired"

\* The names on the way up the parent links from a profile, none once they end.
Lineage(p, name) ==
  LET up[k \in 0..Len(p.indexed)] ==
        IF k = 0 THEN name
        ELSE IF up[k - 1] \in Names(p) THEN Named(p, up[k - 1]).parent ELSE None
  IN up

RootsTraced ==
  (parse.step = "scan" /\ parse.at \notin DOMAIN parse.indexed) =>
    \A name \in Names(parse) :
      LET up == Lineage(parse, name)
          ends == {k \in DOMAIN up : up[k] \in Names(parse) /\ Named(parse, up[k]).parent = None}
      IN IF parse.roots[name] # None
         THEN ends = {parse.depths[name]} /\ up[parse.depths[name]] = parse.roots[name]
         ELSE ends = {} /\ HasErrors(parse.diagnostics)

=============================================================================
