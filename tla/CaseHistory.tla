----------------------------- MODULE CaseHistory -----------------------------
(***************************************************************************)
(* Cases: what `cases correlate', `cases attest-detection' and `cases      *)
(* evaluate' write (src/src/complyroll/history/writers.py), and what a     *)
(* report from the store and `store verify' make of it                     *)
(* (reports/replay.py, reports/records.py, history/order.py), while        *)
(* `ingest' records readings in any order between them.                    *)
(*                                                                         *)
(* Each command is one store transaction, so it is one action, except      *)
(* that `attest-detection --all-missing' chooses its cases in a read       *)
(* before its transaction.  A case is kept as the fold of its stream.      *)
(***************************************************************************)
EXTENDS Integers, FiniteSets, FiniteSetsExt

CONSTANTS
    Identities,      \* correlation keys: source type, record id and context, in key order
    TrackingIds,     \* 64-bit digests of identities
    TrackingId,      \* the digest of each identity
    System,          \* the identities of reserved source types
    Artifacts,       \* artifact digests
    Versions,        \* versions of the parser that reads them
    Times,           \* clocks
    Results,         \* what a reading may say: [identity, open, at]
    Names,           \* what an evaluation may rename a record to
    Dispositions,    \* recorded dispositions
    Reductions,      \* completed PAIN reductions
    Files,           \* evaluations files: sets of entries
    Attested,        \* the instants an operator attests
    Sweeps,          \* processes that run --all-missing
    Nothing,         \* no override, no disposition
    Library,         \* whether a caller may record without ingest's refusals
    Contents,        \* bound: the sets of results a reading may hold
    MaxReadings      \* bound: readings recorded

NoTime == 0
Nobody == -1
Idle   == {Nothing}

Observation ==
    {[artifact |-> a, version |-> v, identity |-> r.identity, open |-> r.open, at |-> r.at] :
        a \in Artifacts, v \in Versions, r \in Results}

\* An entry selects the identities its match keys fit; only the full triple selects just one
\* whatever else is stored.
Entry == [selects : SUBSET Identities, full : BOOLEAN, completed : Times,
          override : Names \cup {Nothing}, disposition : Dispositions \cup {Nothing},
          reductions : SUBSET Reductions]

ASSUME CaseAssumption ==
    /\ Identities \subseteq Nat /\ IsFiniteSet(Identities)
    /\ TrackingId \in [Identities -> TrackingIds]
    /\ TrackingIds \subseteq Names /\ Nothing \notin Names
    /\ System \subseteq Identities
    /\ Versions \subseteq Nat
    /\ Times \subseteq Nat \ {NoTime}
    /\ Results \subseteq [identity : Identities, open : BOOLEAN, at : Times \cup {NoTime}]
    /\ \A r \in Results : r.identity \in System => r.at # NoTime
    /\ Nothing \notin Dispositions
    /\ Files \subseteq SUBSET Entry
    /\ \A f \in Files : IsFiniteSet(f)
    /\ \A f \in Files : \A e \in f : e.full => \E i \in Identities : e.selects = {i}
    /\ Attested \subseteq Times
    /\ Library \in BOOLEAN
    /\ Contents \subseteq SUBSET Results
    /\ MaxReadings \in Nat

VARIABLES
    read,       \* the readings recorded: pairs of an artifact and a version
    observed,   \* their observations
    asked,      \* whether every reading so far passed ingest's refusals
    cases,      \* the fold of each case stream
    selected    \* what each sweep has chosen, or Idle

vars == <<read, observed, asked, cases, selected>>

Case == [holder : Identities \cup {Nobody}, links : SUBSET Observation,
         attested : Attested \cup {NoTime}, completed : Times \cup {NoTime},
         override : Names \cup {Nothing}, disposition : Dispositions \cup {Nothing},
         reductions : SUBSET Reductions]

NoCase == [holder |-> Nobody, links |-> {}, attested |-> NoTime, completed |-> NoTime,
           override |-> Nothing, disposition |-> Nothing, reductions |-> {}]

Known(C) == {t \in TrackingIds : C[t].holder # Nobody}

-----------------------------------------------------------------------------
(* Correlation v0. *)

\* The newest reading of an artifact is the one rehydrated.
Newest(a, v) == \A w \in Versions : <<a, w>> \in read => w <= v

OpenNow == {o \in observed : o.open /\ Newest(o.artifact, o.version)}

Groups     == {o.identity : o \in OpenNow}
Members(i) == {o \in OpenNow : o.identity = i}
Clocks(i)  == {o.at : o \in Members(i)} \ {NoTime}
Partial(i) == Clocks(i) # {} /\ \E o \in Members(i) : o.at = NoTime

\* A mapping by tracking id keeps the last of two groups that share one.
Holding(t)    == {i \in Groups : TrackingId[i] = t}
GroupedIds    == {TrackingId[i] : i \in Groups}
GroupOf(t)    == Max(Holding(t))

\* resolve_detection_time: a source clock wins over an attestation; NoTime is `missing'.
Detected(i, attested) == IF Clocks(i) # {} THEN Min(Clocks(i)) ELSE attested

\* evaluation_order_diagnostic's ERROR: a partial group's detection time is only the earliest
\* known.
Precedes(i, attested, completed) ==
    /\ completed # NoTime
    /\ completed < Detected(i, attested)
    /\ ~Partial(i)

-----------------------------------------------------------------------------
(* Ingest. *)

Held == {o.identity : o \in observed}

\* Mutated form: two identities of one reading are not weighed against each other.
RefusedByHistory(content) ==
    \E i \in {r.identity : r \in content}, j \in Held : i # j /\ TrackingId[i] = TrackingId[j]

\* tracking_id_refusals: the id is held by another identity, in the log or in this run.
Refused(content) ==
    LET brought == {r.identity : r \in content}
    IN \E i \in brought, j \in Held \cup brought : i # j /\ TrackingId[i] = TrackingId[j]

Record(a, v, content) ==
    /\ <<a, v>> \notin read
    /\ Cardinality(read) < MaxReadings
    /\ read' = read \cup {<<a, v>>}
    /\ observed' = observed \cup
          {[artifact |-> a, version |-> v, identity |-> r.identity, open |-> r.open,
            at |-> r.at] : r \in content}
    /\ UNCHANGED <<cases, selected>>

Ingest(a, v, content) ==
    /\ ~Refused(content)
    /\ Record(a, v, content)
    /\ UNCHANGED asked

\* record_ingest, called by another program: nothing is refused.
RecordUnasked(a, v, content) ==
    /\ Library
    /\ Record(a, v, content)
    /\ asked' = FALSE

-----------------------------------------------------------------------------
(* cases correlate. *)

Unlinked(C, i) == Members(i) \ C[TrackingId[i]].links

\* Every group reads its stream before any of them appends, so the second of two groups under
\* one id that both append meets another version than it read.
Conflict(C) ==
    \E i, j \in Groups :
        /\ i # j /\ TrackingId[i] = TrackingId[j]
        /\ Unlinked(C, i) # {} /\ Unlinked(C, j) # {}

\* case.created for an id with no case, then a link per observation the case lacks.
Linked(C) ==
    [t \in TrackingIds |->
        IF t \in GroupedIds
        THEN [C[t] EXCEPT !.holder = IF @ = Nobody THEN GroupOf(t) ELSE @,
                          !.links = @ \cup UNION {Unlinked(C, i) : i \in Holding(t)}]
        ELSE C[t]]

Correlate ==
    /\ ~Conflict(cases)
    /\ cases' = Linked(cases)
    /\ UNCHANGED <<read, observed, asked, selected>>

-----------------------------------------------------------------------------
(* cases attest-detection. *)

LinkTimed(case) == \E l \in case.links : l.at # NoTime

\* The cases an attestation is appended to: no link of theirs carries a source clock, and
\* their latest attestation says something else.
Attestable(C, T, at) == {t \in T : ~LinkTimed(C[t]) /\ C[t].attested # at}

\* The attestation would time a current group later than its evaluation.
AttestationBlocked(C, T, at) ==
    \E t \in Attestable(C, T, at) \cap GroupedIds :
        /\ Clocks(GroupOf(t)) = {}
        /\ Precedes(GroupOf(t), at, C[t].completed)

AttestedCases(C, T, at) ==
    [t \in TrackingIds |->
        IF t \in Attestable(C, T, at) THEN [C[t] EXCEPT !.attested = at] ELSE C[t]]

\* attest_detection: an unknown case or one blocked case refuses them all.
Attest(T, at) ==
    /\ T \subseteq Known(cases)
    /\ ~AttestationBlocked(cases, T, at)
    /\ cases' = AttestedCases(cases, T, at)
    /\ UNCHANGED <<read, observed, asked>>

AttestCases(T, at) == Attest(T, at) /\ UNCHANGED selected

MissingDetection(C) == {t \in Known(C) : C[t].attested = NoTime /\ ~LinkTimed(C[t])}

\* --all-missing folds the cases, and attests what it chose in a transaction of its own.
SweepSelect(s) ==
    /\ selected[s] = Idle
    /\ selected' = [selected EXCEPT ![s] = MissingDetection(cases)]
    /\ UNCHANGED <<read, observed, asked, cases>>

SweepAttest(s, at) ==
    /\ selected[s] # Idle
    /\ Attest(selected[s], at)
    /\ selected' = [selected EXCEPT ![s] = Idle]

SweepRefused(s, at) ==
    /\ selected[s] # Idle
    /\ AttestationBlocked(cases, selected[s], at)
    /\ selected' = [selected EXCEPT ![s] = Idle]
    /\ UNCHANGED <<read, observed, asked, cases>>

-----------------------------------------------------------------------------
(* cases evaluate. *)

Candidates(C, e) == {t \in Known(C) : C[t].holder \in e.selects}

\* _match_cases: each entry selects one case, no case is selected twice, and a system record
\* only by its full triple.
Matched(C, f) ==
    /\ \A e \in f :
          /\ Cardinality(Candidates(C, e)) = 1
          /\ \A t \in Candidates(C, e) : C[t].holder \in System => e.full
    /\ \A e, d \in f : Candidates(C, e) \cap Candidates(C, d) # {} => e = d

Touched(C, f)     == {t \in TrackingIds : \E e \in f : t \in Candidates(C, e)}
EntryFor(C, f, t) == CHOOSE e \in f : t \in Candidates(C, e)

\* Mutated form: an entry is ordered against the clocks the case's links carry.
OrderedByLinks(C, f) ==
    \A t \in Touched(C, f) \cap GroupedIds :
        \A l \in C[t].links : l.at <= EntryFor(C, f, t).completed

\* _require_evaluation_order, against each current group of a matched case.
Ordered(C, f) ==
    \A t \in Touched(C, f) \cap GroupedIds :
        ~Precedes(GroupOf(t), C[t].attested, EntryFor(C, f, t).completed)

Effective(C, t) == IF C[t].override = Nothing THEN t ELSE C[t].override

Stated(C, f, t) ==
    IF t \in Touched(C, f) /\ EntryFor(C, f, t).override # Nothing
    THEN EntryFor(C, f, t).override
    ELSE Effective(C, t)

\* An override reaches a report only through a current evaluation.
Unread(C, t) == C[t].completed = NoTime /\ Effective(C, t) # t

Claimants(C, f) ==
    {t \in Known(C) \cap GroupedIds : t \in Touched(C, f) \/ ~Unread(C, t)}

\* Mutated form: only the cases of the file are compared.
UniqueInFile(C, f) ==
    \A t, u \in Touched(C, f) : Stated(C, f, t) = Stated(C, f, u) => t = u

\* _require_unique_effective_ids.
Unique(C, f) ==
    \A t, u \in Claimants(C, f) : Stated(C, f, t) = Stated(C, f, u) => t = u

Accepted(C, f) == Matched(C, f) /\ Ordered(C, f) /\ Unique(C, f)

\* Mutated form: the time a disposition was filed is compared too.
AppendedClerical(case, e) ==
    {k \in {"completed"} : e.completed # case.completed}
        \cup {k \in {"override"} : e.override \notin {Nothing, case.override}}
        \cup {k \in {"disposition"} : e.disposition # Nothing}
        \cup {k \in {"reductions"} : ~(e.reductions \subseteq case.reductions)}

\* What a matched entry appends, by the field of the case it changes; an omission retracts
\* nothing.
Appended(case, e) ==
    {k \in {"completed"} : e.completed # case.completed}
        \cup {k \in {"override", "disposition"} : e[k] \notin {Nothing, case[k]}}
        \cup {k \in {"reductions"} : ~(e.reductions \subseteq case.reductions)}

EvaluatedCase(case, e) ==
    LET next(k) == IF k \in Appended(case, e) THEN e[k] ELSE case[k]
    IN [case EXCEPT !.completed = next("completed"), !.override = next("override"),
                    !.disposition = next("disposition"),
                    !.reductions = @ \cup next("reductions")]

EvaluatedCases(C, f) ==
    [t \in TrackingIds |->
        IF t \in Touched(C, f) THEN EvaluatedCase(C[t], EntryFor(C, f, t)) ELSE C[t]]

Evaluate(f) ==
    /\ Accepted(cases, f)
    /\ cases' = EvaluatedCases(cases, f)
    /\ UNCHANGED <<read, observed, asked, selected>>

-----------------------------------------------------------------------------
(* A report from the store, and store verify. *)

CaseOf(C, i) == C[TrackingId[i]]

\* The id a report publishes a group under.
Published(C, i) ==
    IF CaseOf(C, i).completed # NoTime THEN Effective(C, TrackingId[i]) ELSE TrackingId[i]

\* Mutated form: only the group a mapping by id keeps is asked.
CollisionsOfMapping(C) ==
    {t \in GroupedIds : \E u \in GroupedIds :
        t # u /\ Published(C, GroupOf(t)) = Published(C, GroupOf(u))}

\* tracking_id_collision_faults.
Collisions(C) ==
    {t \in GroupedIds : \E i \in Holding(t), j \in Groups :
        i # j /\ Published(C, i) = Published(C, j)}

\* evaluation_order_faults, which reads the groups as a mapping.
OrderFaults(C) ==
    {t \in Known(C) \cap GroupedIds : Precedes(GroupOf(t), C[t].attested, C[t].completed)}

DispositionFaults(C) ==
    {t \in Known(C) : C[t].disposition # Nothing /\ C[t].completed = NoTime}

\* The faults audit_history finds among the cases of a log it can fold.
Faults(C) == OrderFaults(C) \cup Collisions(C) \cup DispositionFaults(C)

Undetected(C) == {i \in Groups : Detected(i, CaseOf(C, i).attested) = NoTime}

Misordered(C) ==
    {i \in Groups : Precedes(i, CaseOf(C, i).attested, CaseOf(C, i).completed)}

\* compile_record_set: a record is checked before the ids of the records are compared.
Compiles(C) ==
    /\ DispositionFaults(C) = {}
    /\ Undetected(C) = {}
    /\ Misordered(C) = {}
    /\ \A i, j \in Groups : Published(C, i) = Published(C, j) => i = j

-----------------------------------------------------------------------------
Init ==
    /\ read = {} /\ observed = {} /\ asked = TRUE
    /\ cases = [t \in TrackingIds |-> NoCase]
    /\ selected = [s \in Sweeps |-> Idle]

Next ==
    \/ \E a \in Artifacts, v \in Versions, content \in Contents :
          Ingest(a, v, content) \/ RecordUnasked(a, v, content)
    \/ Correlate
    \/ \E T \in SUBSET TrackingIds, at \in Attested : AttestCases(T, at)
    \/ \E s \in Sweeps :
          \/ SweepSelect(s)
          \/ \E at \in Attested : SweepAttest(s, at) \/ SweepRefused(s, at)
    \/ \E f \in Files : Evaluate(f)

Spec == Init /\ [][Next]_vars

-----------------------------------------------------------------------------
\* One type invariant: nothing is ever appended to a case nobody created.
TypeOK ==
    /\ read \subseteq Artifacts \X Versions
    /\ observed \subseteq Observation
    /\ asked \in BOOLEAN
    /\ cases \in [TrackingIds -> Case]
    /\ \A t \in TrackingIds : cases[t].holder = Nobody => cases[t] = NoCase
    /\ selected \in [Sweeps -> (SUBSET TrackingIds) \cup {Idle}]

\* As long as every reading passed ingest's refusals, a case holds observations of the one
\* record it was created for, no other record can be published under its evaluation, and
\* correlate never meets a version conflict (tracking_id_refusals).
CaseHoldsOneRecord ==
    asked =>
        /\ \A t \in Known(cases) :
              /\ \A l \in cases[t].links : l.identity = cases[t].holder
              /\ \A i \in Groups : TrackingId[i] = t => i = cases[t].holder
        /\ ~Conflict(cases)

\* A command an operator repeats, because its first answer was lost, is accepted again and
\* appends nothing (correlate_cases, apply_evaluations).
RetryAppendsNothing ==
    [][cases' # cases =>
          /\ cases' = Linked(cases) => \A i \in Groups : Unlinked(cases', i) = {}
          /\ \A f \in Files : cases' = EvaluatedCases(cases, f) /\ Accepted(cases, f) =>
                /\ Accepted(cases', f)
                /\ \A t \in Touched(cases', f) :
                      Appended(cases'[t], EntryFor(cases', f, t)) = {}]_vars

\* What a report refuses, a missing detection time apart, store verify names, and it names
\* nothing else, though one reads the groups as a list and the other in part as a mapping
\* (audit_history, tracking_id_collision_faults).
VerifyNamesRefusals == Compiles(cases) <=> Undetected(cases) = {} /\ Faults(cases) = {}

\* When every record of a report has its case, no command on cases makes a report that
\* compiled stop compiling (_require_unique_effective_ids, _require_evaluation_order,
\* _require_attestation_order).
CommandsKeepReport ==
    [][(/\ cases' # cases
        /\ \A i \in Groups : CaseOf(cases, i).holder = i
        /\ Compiles(cases)) => Compiles(cases')]_vars

\* No command on cases leaves an evaluation before its record's own detection time, whatever
\* else is wrong with the log and however the record came by its clock (ADR 0008, amendment
\* 2026-10-14).
NoOrderFaultWritten ==
    [][cases' # cases => OrderFaults(cases') \subseteq OrderFaults(cases)]_vars

\* Re-attesting an attested case takes an explicit --case (ADR 0008): a sweep never does it.
SweepNeverRevises ==
    [][(\E s \in Sweeps : selected[s] # Idle /\ selected'[s] = Idle) =>
          \A t \in Known(cases) :
              cases[t].attested # NoTime => cases'[t].attested = cases[t].attested]_vars

\* A case to which no attestation applies is one a report times from a source clock
\* (ADR 0008; _any_link_is_timestamped).
NotApplicableIsTimed ==
    \A t \in Known(cases) \cap GroupedIds :
        LinkTimed(cases[t]) => Clocks(GroupOf(t)) # {}
=============================================================================
