------------------------------ MODULE Coverage ------------------------------
(***************************************************************************)
(* Coverage clocks and coverage gaps (reports/coverage.py, reports/gaps.py,*)
(* reports/inventory.py and record_coverage_gaps of history/writers.py).   *)
(*                                                                         *)
(* An inventory lists the resources a scan is expected to reach.  Every    *)
(* entry carries clocks; a clock is anchored by a verification, or by the  *)
(* entry's expectedSince, and its window closes when its rule's time runs  *)
(* out.  A window that closed empty is recorded, once, as a gap of the     *)
(* event store.  Evidence may be ingested late, and a later reading of the *)
(* same bytes withdraws what the earlier one observed: the evidence is the *)
(* observations of the current streams alone (ArtifactHistory).  The       *)
(* inventory is a file the operator edits between runs, and class and      *)
(* as-of are chosen anew by every command, so a recorded gap is later read *)
(* against a derivation that need not be the one that recorded it.         *)
(*                                                                         *)
(* The walk over a clock's sorted verifications (_run) is stated without a *)
(* loop: its anchors are a set, and an anchor's window lapses when no      *)
(* verification falls inside it.                                           *)
(***************************************************************************)
EXTENDS Integers, Sequences, FiniteSets

CONSTANTS
  MaxTime,     \* the last instant of the model; every as-of is at most this
  MaxRuns,     \* bound: as-of instants at which gaps are recorded
  Due,         \* class -> selected coverage rule -> start -> due instant
  Pool,        \* the readings of artifacts an ingest may attempt
  Number,      \* what each all-numeric parser version compares as
  TextRank,    \* where each parser version sorts as text
  Documents    \* the inventory documents the operator may write

Time == 0 .. MaxTime

\* After every as-of: an absent decommissionedAt, and an absent observedAt.
Never == MaxTime + 1

\* An instant with no UTC form, as only an earlier build could have recorded.
OutOfRange == MaxTime + 2

CoverageRules == {"MVX", "NMV", "PCD", "PDD", "PSD"}
Verifying == {"OPEN", "PASS", "NOT_APPLICABLE"}

ASSUME TimeAssumption == MaxTime \in Nat /\ MaxRuns \in Nat

\* Coverage timeframes are positive and a later start is never due earlier.
ASSUME DueAssumption ==
  \A c \in DOMAIN Due :
    /\ DOMAIN Due[c] \subseteq CoverageRules
    /\ \A r \in DOMAIN Due[c] :
         /\ Due[c][r] \in [Time -> Nat]
         /\ \A t \in Time : Due[c][r][t] > t
         /\ \A t, u \in Time : t <= u => Due[c][r][t] <= Due[c][r][u]

\* A reading yields its rows, or fails; a reading of a failed invocation may
\* be recorded with the failure beside it.  One parser version always reads
\* the same rows from the same bytes.
ASSUME PoolAssumption ==
  \A x \in Pool :
    /\ x.read \in BOOLEAN /\ x.unsuccessful \in BOOLEAN
    /\ x.class \in {"none", "execution", "content"}
    /\ ~x.read => x.class # "none" /\ x.rows = {}
    /\ \A o \in x.rows : o.origin = "artifact" /\ o.at \in Time \cup {Never, OutOfRange}
    /\ \A y \in Pool :
         (/\ x.read /\ y.read /\ x.artifact = y.artifact
          /\ x.parser = y.parser /\ x.version = y.version) => x.rows = y.rows

\* A document is finite, so each group of its entries has an earliest member.
ASSUME DocumentsAssumption ==
  \A d \in Documents :
    /\ \A e \in d : e.since \in Time /\ e.gone \in Time \cup {Never} /\ e.attested \subseteq Time
    /\ \A m \in SUBSET d : m # {} => \E e \in m : \A f \in m : e.since <= f.since

VARIABLES
  streams,     \* each artifact's recorded readings and failures, in order
  evidence,    \* the artifact observations every command reads back from them
  inventory,   \* the document --inventory names
  gaps         \* the recorded gaps, one per coverage stream of the store

vars == <<streams, evidence, inventory, gaps>>

-----------------------------------------------------------------------------
(* The store's artifacts, and the evidence read back from them.            *)

Artifacts == {x.artifact : x \in Pool}
Parsers == {x.parser : x \in Pool}
Versions == {x.version : x \in Pool}

\* The split of one artifact's streams, and the writers of one.
Split == INSTANCE ArtifactHistory
           WITH Instants <- {x.instant : x \in Pool}, LibraryCallers <- FALSE,
                MaxStreams <- 0, streams <- <<>>, ran <- "nothing"

\* What the readings of some of an artifact's streams observed.
RowsOf(a, S) ==
  UNION {x.rows : x \in {y \in Pool : /\ y.artifact = a /\ y.read
                                      /\ \E r \in S : r.parser = y.parser
                                                     /\ r.version = y.version}}

\* The artifact observations a command reads back: those of the current
\* streams, so a newer reading of the same bytes, or its failure, withdraws
\* what an older one observed.
Rehydrated(store) ==
  UNION {RowsOf(a, {store[a][i] : i \in Split!CurrentReadings(store[a])}) : a \in Artifacts}

-----------------------------------------------------------------------------
(* The inventory.                                                          *)

Ref(type, id) == [type |-> type, id |-> id]
Identities(e) == {e.ref} \cup e.aliases

\* What the reader accepts: one owner per identity, no package, clocks that
\* can run, and attestations only where no detection result can verify.
Readable(d) ==
  /\ \A e \in d :
       /\ \A i \in Identities(e) : i.type # "package"
       /\ e.ref \notin e.aliases
       /\ e.gone >= e.since
       /\ e.machine <=> e.drift # "none"
       /\ e.machine => e.attested = {}
  /\ \A e, f \in d : e # f => Identities(e) \cap Identities(f) = {}

\* The entry an exact pair or alias names, as a set of at most one.
EntryFor(d, resource) == {e \in d : resource \in Identities(e)}
Members(d, group) == {e \in d : e.group = group}
GroupRef(group) == Ref("logical", group)

\* Unknown drift takes PDD, the shorter window.
EntryRules(e) ==
  IF e.machine THEN {"MVX", IF e.drift = "no" THEN "PCD" ELSE "PDD"} ELSE {"NMV"}

ResourceClocks(d) ==
  UNION {{[rule |-> r, subject |-> e.ref, over |-> {e}] : r \in EntryRules(e)} : e \in d}

GroupClocks(d) ==
  {[rule |-> "PSD", subject |-> GroupRef(g), over |-> Members(d, g)] :
     g \in {e.group : e \in d} \ {"none"}}

Clocks(d) == ResourceClocks(d) \cup GroupClocks(d)

-----------------------------------------------------------------------------
(* Filing the evidence.                                                    *)

\* A recorded gap is an observation too: open, on its clock's own resource,
\* at the instant its window closed.
GapObservation(g) ==
  [origin |-> "system", source |-> "coverage", record |-> "coverage-gap",
   resource |-> g.id.subject, at |-> g.id.close, disposition |-> "OPEN"]

Observations == evidence \cup {GapObservation(g) : g \in gaps}

\* Every CycloneDX record but the scope's is a row, and a row examines nothing.
Row(o) == o.source = "cyclonedx" /\ o.record # "scope"

\* A system observation records a failure of the process, and a package is
\* covered by its subject's scope record.
Countable(o) == o.origin = "artifact" /\ o.resource.type # "package"

\* Evidence within the cutoff, timed, before the entry was decommissioned.
Examines(o, e, asOf) ==
  /\ Countable(o)
  /\ ~Row(o)
  /\ o.resource \in Identities(e)
  /\ o.at \in Time
  /\ o.at <= asOf
  /\ o.at <= e.gone

\* The tool determined a status; a scope record verifies only as PASS.
Determines(o) ==
  /\ o.disposition \in Verifying
  /\ o.source = "cyclonedx" => o.disposition = "PASS"

Attested(e, asOf) == {t \in e.attested : t <= asOf /\ t <= e.gone}

ExaminedAt(over, asOf) ==
  UNION {{o.at : o \in {p \in Observations : Examines(p, e, asOf)}} \cup Attested(e, asOf) :
           e \in over}

VerifiedAt(over, asOf) ==
  UNION {{o.at : o \in {p \in Observations :
                           Examines(p, e, asOf) /\ e.machine /\ Determines(p)}}
           \cup Attested(e, asOf) : e \in over}

\* Mutant of FiledUnder: a sample group is looked up as an entry.
FiledUnderEntry(d, rule, subject) == EntryFor(d, subject)

\* The entries whose evidence a recorded gap is read against: a sample
\* group's members, or the entry that names its subject today.
FiledUnder(d, rule, subject) ==
  IF rule = "PSD" THEN {e \in d : GroupRef(e.group) = subject} ELSE EntryFor(d, subject)

-----------------------------------------------------------------------------
(* One clock, walked to as-of.                                             *)

\* A group is expected from its earliest member's expectedSince.
Since(over) == CHOOSE s \in {e.since : e \in over} : \A e \in over : s <= e.since

\* A clock stops once every resource it covers is decommissioned.
StoppedBefore(over, t) == \A e \in over : e.gone < t

\* Mutant of Reaching: the last earlier verification always anchors.
ReachingAlways(verified, since, due) ==
  {v \in verified : v <= since /\ \A u \in verified : u <= since => u <= v}

\* The last verification at or before `since` anchors the clock if its
\* window reaches `since`.
Reaching(verified, since, due) ==
  {v \in verified : /\ v <= since
                    /\ \A u \in verified : u <= since => u <= v
                    /\ due[v] >= since}

Anchors(verified, since, due) ==
  {[at |-> v, kind |-> "verification"] :
     v \in Reaching(verified, since, due) \cup {v \in verified : v > since}}
  \cup (IF Reaching(verified, since, due) = {}
        THEN {[at |-> since, kind |-> "declared"]}
        ELSE {})

After(verified, anchor) == {v \in verified : v > anchor.at}

\* Mutant of Lapsed: a resumed window is dropped.
LapsedUnresumed(over, verified, anchor, close, asOf) ==
  After(verified, anchor) = {} /\ asOf > close /\ ~StoppedBefore(over, close)

\* The anchor's window closed empty: the next verification came after it,
\* or none came and the clock was still running when it closed.
Lapsed(over, verified, anchor, close, asOf) ==
  /\ \A v \in After(verified, anchor) : v > close
  /\ \/ After(verified, anchor) # {}
     \/ asOf > close /\ ~StoppedBefore(over, close)

Window(k, class, anchor) ==
  [rule |-> k.rule, subject |-> k.subject, anchorAt |-> anchor.at, anchor |-> anchor.kind,
   close |-> Due[class][k.rule][anchor.at]]

\* The anchors of a clock's windows; a clock runs only from expectedSince.
LapsedAnchors(k, class, asOf) ==
  LET verified == VerifiedAt(k.over, asOf)
      due == Due[class][k.rule]
  IN  {a \in Anchors(verified, Since(k.over), due) :
         Since(k.over) <= asOf /\ Lapsed(k.over, verified, a, due[a.at], asOf)}

ClockWindows(k, class, asOf) == {Window(k, class, a) : a \in LapsedAnchors(k, class, asOf)}

Windows(d, class, asOf) == UNION {ClockWindows(k, class, asOf) : k \in Clocks(d)}

\* The first of the statuses that applies.
Status(k, class, asOf) ==
  LET verified == VerifiedAt(k.over, asOf)
      due == Due[class][k.rule]
      since == Since(k.over)
      last == CHOOSE a \in Anchors(verified, since, due) : After(verified, a) = {}
  IN  CASE since > asOf -> "unanchored"
        [] since <= asOf /\ ExaminedAt(k.over, asOf) = {} -> "missing"
        [] since <= asOf /\ ExaminedAt(k.over, asOf) # {} ->
             IF last.kind = "declared" THEN "undetermined"
             ELSE IF Lapsed(k.over, verified, last, due[last.at], asOf) THEN "stale"
             ELSE "current"

-----------------------------------------------------------------------------
(* Gaps.                                                                   *)

\* One case per rule and job, else per rule and resource; a resource of type
\* job cannot spell an entry's job.
ContextKey(d, w) ==
  LET jobs == IF w.rule = "PSD" THEN {} ELSE {e.job : e \in EntryFor(d, w.subject)} \ {""}
  IN  IF jobs = {}
      THEN [rule |-> w.rule, form |-> "resource", of |-> w.subject]
      ELSE [rule |-> w.rule, form |-> "job", of |-> Ref("job", CHOOSE j \in jobs : TRUE)]

\* Mutant of GapId: the case, not the resource, tells two gaps apart.
GapIdByCase(d, w) == [rule |-> w.rule, subject |-> Ref("case", ""), close |-> w.close,
                      context |-> ContextKey(d, w)]

\* The gap's id, which names its stream: never the anchor, the as-of, the
\* ingest time or the inventory.
GapId(d, w) ==
  [rule |-> w.rule, subject |-> w.subject, close |-> w.close, context |-> ContextKey(d, w)]

\* What is written.  The class is no part of the stored record; it is kept
\* here so that two runs can be compared.
Gap(d, class, asOf, w) ==
  [id |-> GapId(d, w), anchorAt |-> w.anchorAt, anchor |-> w.anchor,
   document |-> d, ingestedAt |-> asOf, class |-> class]

RecordedIds == {g.id : g \in gaps}
DerivedIds(d, class, asOf) == {GapId(d, w) : w \in Windows(d, class, asOf)}

\* Mutant of Disproved: only the clock's last verification is asked.
DisprovedByLast(g, d, asOf) ==
  \E v \in VerifiedAt(FiledUnder(d, g.id.rule, g.id.subject), asOf) :
    /\ g.anchorAt < v /\ v <= g.id.close
    /\ \A u \in VerifiedAt(FiledUnder(d, g.id.rule, g.id.subject), asOf) : u <= v

\* A verification inside the recorded window, filed by the subject's name.
Disproved(g, d, asOf) ==
  \E v \in VerifiedAt(FiledUnder(d, g.id.rule, g.id.subject), asOf) :
    g.anchorAt < v /\ v <= g.id.close

\* How a report reads one recorded gap.
GapNote(g, d, class, asOf) ==
  IF g.id \in DerivedIds(d, class, asOf) THEN "derived"
  ELSE IF Disproved(g, d, asOf) THEN "coverage_gap_contradicted"
  ELSE "coverage_gap_unmatched"

\* A disposition answers a whole case, so a false positive is advised only
\* when every gap the case carries is contradicted.
Advised(g, d, class, asOf) ==
  \A h \in gaps : h.id.context = g.id.context
                 => GapNote(h, d, class, asOf) = "coverage_gap_contradicted"

\* A run stops before deriving anything when the class's policy lacks a
\* coverage rule, and when an observation's clock has no UTC form.
Derivable(class) ==
  /\ Readable(inventory)
  /\ CoverageRules \subseteq DOMAIN Due[class]
  /\ \A o \in Observations : o.at # OutOfRange

-----------------------------------------------------------------------------
(* The commands.                                                           *)

\* What one reading adds to its artifact's streams: nothing that is there.
Recorded(S, x) ==
  LET kept == IF x.read THEN Split!RecordIngest(S, x.parser, x.version, x.unsuccessful) ELSE S
  IN  IF x.class = "none" THEN kept
      ELSE Split!RecordFailure(kept, x.parser, x.version, x.class, x.instant)

\* ingest: a reading already recorded changes nothing, and a failure is
\* refused when another reading of the bytes answers it.
Ingest(x) ==
  /\ Recorded(streams[x.artifact], x) # streams[x.artifact]
  /\ ~x.read => ~Split!ReadElsewhere(streams[x.artifact], x.parser, x.version, x.class)
  /\ streams' = [streams EXCEPT ![x.artifact] = Recorded(@, x)]
  /\ evidence' = Rehydrated(streams')
  /\ UNCHANGED <<inventory, gaps>>

EditInventory(d) ==
  /\ inventory' = d
  /\ UNCHANGED <<streams, evidence, gaps>>

\* cases coverage: one transaction derives the windows and appends a stream
\* for each gap the store lacks.  Two gaps of one id would collide at version
\* 0 and nothing would be written.
RecordGaps(class, asOf) ==
  /\ Cardinality({g.ingestedAt : g \in gaps}) < MaxRuns
  /\ Derivable(class)
  /\ \A w, x \in Windows(inventory, class, asOf) :
       GapId(inventory, w) = GapId(inventory, x) => w = x
  /\ gaps' = gaps \cup {Gap(inventory, class, asOf, w) :
                          w \in {x \in Windows(inventory, class, asOf) :
                                   GapId(inventory, x) \notin RecordedIds}}
  /\ UNCHANGED <<streams, evidence, inventory>>

Init ==
  /\ streams = [a \in Artifacts |-> <<>>]
  /\ evidence = Rehydrated(streams)
  /\ inventory \in Documents
  /\ gaps = {}

IngestSome == \E x \in Pool : Ingest(x)
EditSome == \E d \in Documents : EditInventory(d)
RecordSome == \E class \in DOMAIN Due, asOf \in Time : RecordGaps(class, asOf)

Next == IngestSome \/ EditSome \/ RecordSome

Spec == Init /\ [][Next]_vars
-----------------------------------------------------------------------------
(* Properties.                                                             *)

\* The variables hold what their comments say, and a coverage stream holds
\* one gap.
TypeOK ==
  /\ streams \in [Artifacts -> Seq(Split!Artifact \cup Split!Failure)]
  /\ evidence = Rehydrated(streams)
  /\ inventory \in Documents
  /\ \A g \in gaps : /\ g.id.close \in Nat
                     /\ g.anchorAt \in Time
                     /\ g.document \in Documents
                     /\ g.ingestedAt \in Time
                     /\ g.class \in DOMAIN Due
  /\ \A g, h \in gaps : g.id = h.id => g = h

\* Some verification, or the declaration nothing earlier reached past, still
\* holds at the instant.
Covered(k, class, asOf, instant) ==
  LET verified == VerifiedAt(k.over, asOf)
      due == Due[class][k.rule]
      since == Since(k.over)
  IN  \/ \E v \in verified : v <= instant /\ instant <= due[v]
      \/ /\ instant <= due[since]
         /\ ~\E v \in verified : v <= since /\ since <= due[v]

\* The instants of a clock that runs, from expectedSince to as-of.
Running(k, asOf) == {t \in Time : Since(k.over) <= t /\ t <= asOf /\ ~StoppedBefore(k.over, t)}

\* _run walks from anchor to anchor and keeps one of them at a time.  What it
\* lists is nonetheless every lapse and only lapses: an instant is uncovered
\* exactly when it lies past the close of a listed window that no
\* verification has yet resumed; and a clock that still runs reads current
\* exactly when a verification holds at as-of, whatever the walk passed.
WindowsAreTheLapses ==
  \A class \in DOMAIN Due, asOf \in Time :
    Derivable(class) =>
      \A k \in Clocks(inventory) :
        /\ \A t \in Running(k, asOf) :
             Covered(k, class, asOf, t)
               <=> ~\E w \in ClockWindows(k, class, asOf) :
                      /\ w.close < t
                      /\ \A v \in VerifiedAt(k.over, asOf) : ~(w.close < v /\ v <= t)
        /\ asOf \in Running(k, asOf) =>
             (Status(k, class, asOf) = "current"
                <=> \E v \in VerifiedAt(k.over, asOf) : asOf <= Due[class][k.rule][v])

\* A later as-of, over the same evidence and inventory, still derives every
\* gap an earlier one derived, so cases coverage may be run at any as-of.
WindowsOnlyGrow ==
  \A class \in DOMAIN Due, asOf, later \in Time :
    Derivable(class) /\ asOf <= later =>
      DerivedIds(inventory, class, asOf) \subseteq DerivedIds(inventory, class, later)

\* The evidence a report reads a gap against, found by the subject's name, has
\* no verification inside a window the derivation, which found it by the
\* clock, lists: no derived gap could be called contradicted.
WindowsHoldNoVerification ==
  \A class \in DOMAIN Due, asOf \in Time :
    Derivable(class) =>
      \A w \in Windows(inventory, class, asOf) :
        \A v \in VerifiedAt(FiledUnder(inventory, w.rule, w.subject), asOf) :
          ~(w.anchorAt < v /\ v <= w.close)

\* No two windows of a run share a gap id, so no run loses its whole batch to
\* a collision at version 0, two resources of one job closing together too.
GapNamesOneWindow ==
  \A class \in DOMAIN Due, asOf \in Time :
    Derivable(class) =>
      \A w, x \in Windows(inventory, class, asOf) :
        GapId(inventory, w) = GapId(inventory, x) => w = x

\* Read under the inventory and class that recorded it, at its as-of or later,
\* a gap goes unmatched only when its anchor is gone: the declaration, now that
\* evidence from before expectedSince reaches past it, or a verification no
\* current reading makes, its own withdrawn by a newer reading or failure.
\* No other withdrawal, and no other late evidence, loses a recorded gap.
OnlyUnanchoredGapsGoUnmatched ==
  \A g \in gaps, asOf \in Time :
    /\ Derivable(g.class)
    /\ g.document = inventory
    /\ g.ingestedAt <= asOf
    /\ GapNote(g, inventory, g.class, asOf) = "coverage_gap_unmatched"
    => \E k \in Clocks(inventory) :
         /\ k.rule = g.id.rule /\ k.subject = g.id.subject
         /\ IF g.anchor = "declared"
            THEN Reaching(VerifiedAt(k.over, asOf), Since(k.over), Due[g.class][k.rule]) # {}
            ELSE g.anchorAt \notin VerifiedAt(k.over, asOf)

\* A recorded gap is an open observation on the clock's own resource, at the
\* instant the clock lapsed.  It never becomes the evidence that moves a
\* window, so recording is idempotent.
RecordingMovesNoWindow ==
  [][gaps' # gaps =>
       \A class \in DOMAIN Due, asOf \in Time :
         Derivable(class) => Windows(inventory, class, asOf)' = Windows(inventory, class, asOf)]_vars

\* The verifications that contradict a recorded gap.
Disproofs(g, d, asOf) ==
  {v \in VerifiedAt(FiledUnder(d, g.id.rule, g.id.subject), asOf) :
     g.anchorAt < v /\ v <= g.id.close}

\* Advice an operator may have acted on is taken back only with the evidence
\* for it: under an inventory left alone, no further evidence and no later
\* as-of lets a contradicted gap be derived or go unmatched, unless a newer
\* reading withdraws a verification that contradicted it.  A case advised as
\* a false positive is still advised, unless one of its gaps lost a
\* contradiction so, another of its windows has been recorded, or it carries
\* one that a run of another class, or of a later as-of, had recorded: that
\* one may yet be derived.
ContradictedStays ==
  [][inventory' = inventory =>
       \A g \in gaps, asOf \in Time :
         /\ g.ingestedAt <= asOf
         /\ Derivable(g.class) /\ Derivable(g.class)'
         /\ GapNote(g, inventory, g.class, asOf) = "coverage_gap_contradicted"
         => \A later \in asOf .. MaxTime :
              /\ Disproofs(g, inventory, asOf) \subseteq Disproofs(g, inventory, later)'
                 => GapNote(g, inventory, g.class, later)' = "coverage_gap_contradicted"
              /\ Advised(g, inventory, g.class, asOf)
                 => \/ Advised(g, inventory, g.class, later)'
                    \/ \E h \in gaps' :
                         /\ h.id.context = g.id.context
                         /\ \/ h \notin gaps
                            \/ h.class # g.class
                            \/ h.ingestedAt > asOf
                            \/ ~(Disproofs(h, inventory, asOf)
                                    \subseteq Disproofs(h, inventory, later)')]_vars

\* What ADR 0015 Decision 38 and docs/CLI.md give as the reason of an unmatched
\* gap: the run's inventory, as-of, class or calendar zone may differ from
\* the recording run's.
UnmatchedMeansInputsDiffer ==
  \A g \in gaps :
    Derivable(g.class) /\ g.document = inventory =>
      GapNote(g, inventory, g.class, g.ingestedAt) # "coverage_gap_unmatched"
=============================================================================
