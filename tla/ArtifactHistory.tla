--------------------------- MODULE ArtifactHistory ---------------------------
(***************************************************************************)
(* The streams recorded for one artifact digest, and which of them a       *)
(* report reads: rules R1 to R6 of _split_streams                          *)
(* (src/src/complyroll/history/fold.py), with the writers that record      *)
(* readings and failures (history/writers.py) and the refusals `ingest'    *)
(* makes before it calls them (cli.py).                                    *)
(*                                                                         *)
(* One digest stands for all: the rules compare streams of one digest      *)
(* only.  A stream's place in `streams' is its recorded order.             *)
(***************************************************************************)
EXTENDS Integers, Sequences, FiniteSets

CONSTANTS
    Parsers,         \* parser names
    Versions,        \* parser versions as they are spelled
    Number,          \* what each all-numeric spelling compares as: 1, 01 and 1.0 are one
    TextRank,        \* where each spelling sorts as text
    Instants,        \* the instants a failure may be observed at
    LibraryCallers,  \* whether a caller may record without ingest's refusals
    MaxStreams       \* bound: streams of the digest

ASSUME HistoryAssumption ==
    /\ DOMAIN Number \subseteq Versions
    /\ \A v \in DOMAIN Number : Number[v] \in Int
    /\ TextRank \in [Versions -> Int]
    /\ \A v, w \in Versions : TextRank[v] = TextRank[w] => v = w
    /\ LibraryCallers \in BOOLEAN
    /\ MaxStreams \in Nat

VARIABLES
    streams,    \* the digest's artifact and failure streams, in recorded order
    ran         \* what the last call did

vars == <<streams, ran>>

\* A parse failure is decided exactly as a content failure is.
Classes == {"execution", "content"}

\* The head carries execution_unsuccessful when the scanner says its invocation failed.
Artifact == [kind : {"artifact"}, parser : Parsers, version : Versions,
             unsuccessful : BOOLEAN]

\* A system observation's identity is the digest and the instant, never the parser.
Failure == [kind : {"failure"}, parser : Parsers, version : Versions, class : Classes,
            observation : Instants, head : {"failure.recorded", "failure.held"}]

Readings(S) == {i \in DOMAIN S : S[i].kind = "artifact"}
Failures(S) == {i \in DOMAIN S : S[i].kind = "failure"}

-----------------------------------------------------------------------------
(* Versions. *)

\* Every version of the digest decides together how all of them compare.
Numeric(S) == \A i \in DOMAIN S : S[i].version \in DOMAIN Number

Key(v, numeric) == IF numeric THEN Number[v] ELSE TextRank[v]

\* The later recorded stream wins a tie.
Newest(S, C) ==
    LET key(i) == Key(S[i].version, Numeric(S))
    IN CHOOSE i \in C :
          \A j \in C : key(j) < key(i) \/ (key(j) = key(i) /\ j <= i)

-----------------------------------------------------------------------------
(* The split. *)

\* R3 and R4: whether one reading of the digest supersedes one failure.
Outranks(reading, failure, numeric) ==
    IF failure.class = "execution"
    THEN /\ reading.parser = failure.parser
         /\ Key(reading.version, numeric) >= Key(failure.version, numeric)
         /\ ~reading.unsuccessful
    ELSE \/ reading.parser # failure.parser
         \/ Key(reading.version, numeric) >= Key(failure.version, numeric)

\* Mutated form: only the newest reading is asked.
StandingAgainstWinner(S) ==
    {f \in Failures(S) :
        \A r \in Readings(S) :
            r = Newest(S, Readings(S)) => ~Outranks(S[r], S[f], Numeric(S))}

Standing(S) ==
    {f \in Failures(S) : \A r \in Readings(S) : ~Outranks(S[r], S[f], Numeric(S))}

\* R6: of the standing failures that hold one observation, the first recorded carries it.
Carrier(S, f) ==
    CHOOSE c \in Standing(S) :
        /\ S[c].observation = S[f].observation
        /\ \A g \in Standing(S) : S[g].observation = S[f].observation => c <= g

\* Mutated form: nothing is dormant.
DormantNever(S) == {}

Dormant(S) == {f \in Standing(S) : Carrier(S, f) # f}

\* R1: the newest reading of the digest.
Winner(S) == Newest(S, Readings(S))

\* Mutated forms: R2 weighs dormant holds, or decides for its own two versions whether they
\* compare as numbers.
NewerFailuresHeld(S) ==
    {f \in Failures(S) :
        /\ S[f].parser = S[Winner(S)].parser
        /\ Key(S[f].version, Numeric(S)) > Key(S[Winner(S)].version, Numeric(S))}

\* R2: the failures under the winner's parser that could no longer read the bytes, when no
\* other parser has read them.
NewerFailures(S) ==
    {f \in Failures(S) \ Dormant(S) :
        /\ S[f].parser = S[Winner(S)].parser
        /\ Key(S[f].version, Numeric(S)) > Key(S[Winner(S)].version, Numeric(S))}

Retired(S) ==
    /\ Readings(S) # {} /\ NewerFailures(S) # {}
    /\ \A r \in Readings(S) : S[r].parser = S[Winner(S)].parser

\* The stream that replaces a superseded reading.
Replacement(S) == IF Retired(S) THEN Newest(S, NewerFailures(S)) ELSE Winner(S)

CurrentReadings(S) == {r \in Readings(S) : ~Retired(S) /\ r = Winner(S)}
CurrentFailures(S) == Standing(S) \ Dormant(S)
Current(S)         == CurrentReadings(S) \cup CurrentFailures(S)

-----------------------------------------------------------------------------
(* The writers. *)

Reading(p, v, unsuccessful) ==
    [kind |-> "artifact", parser |-> p, version |-> v, unsuccessful |-> unsuccessful]

Known(S, kind, p, v) ==
    \E i \in DOMAIN S : S[i].kind = kind /\ S[i].parser = p /\ S[i].version = v

\* record_ingest: one stream per parser version, recorded once.
RecordIngest(S, p, v, unsuccessful) ==
    IF Known(S, "artifact", p, v) THEN S ELSE Append(S, Reading(p, v, unsuccessful))

Held(S, t) == \E f \in Failures(S) : S[f].observation = t

\* A failure another stream of the digest already holds is written beneath it.
HeadType(S, t) == IF Held(S, t) THEN "failure.held" ELSE "failure.recorded"

\* record_failure: written whole when it is new.
RecordFailure(S, p, v, class, t) ==
    IF Known(S, "failure", p, v)
    THEN S
    ELSE Append(S, [kind |-> "failure", parser |-> p, version |-> v, class |-> class,
                    observation |-> t, head |-> HeadType(S, t)])

\* Mutated form: only the current readings are asked.
ReadElsewhereNow(S, p, v, class) ==
    LET numeric == Numeric(S) /\ v \in DOMAIN Number
    IN \E r \in CurrentReadings(S) :
          \/ S[r].parser # p
          \/ Key(S[r].version, numeric) >= Key(v, numeric)

\* reading_elsewhere: a current reading R2 could not replace, or any reading that would
\* supersede the failure at birth. The failure's own version joins the comparison.
ReadElsewhere(S, p, v, class) ==
    LET numeric == Numeric(S) /\ v \in DOMAIN Number
        pending == [parser |-> p, version |-> v, class |-> class]
    IN \/ \E r \in CurrentReadings(S) :
             \/ S[r].parser # p
             \/ Key(S[r].version, numeric) >= Key(v, numeric)
       \/ \E r \in Readings(S) : Outranks(S[r], pending, numeric)

-----------------------------------------------------------------------------
(* One ingest run over this digest; each is one transaction. *)

Init ==
    /\ streams = <<>>
    /\ ran = "nothing"

Ends(S, what) ==
    /\ Len(S) <= MaxStreams
    /\ streams' = S
    /\ ran' = what

\* The artifact reads; `flag' is --record-failed-imports. A reading of a failed invocation is
\* recorded with the failure beside it, which no refusal weighs.
IngestReading(p, v, unsuccessful, t, flag) ==
    LET read == RecordIngest(streams, p, v, unsuccessful)
    IN IF unsuccessful /\ flag
       THEN Ends(RecordFailure(read, p, v, "execution", t), "side record")
       ELSE Ends(read, "reading")

\* The artifact does not read, under one name or under two that pick two parsers: by name
\* order, all of them are weighed before any is recorded.
FailedReadings ==
    {failed \in UNION {[1..n -> [parser : Parsers, version : Versions, class : Classes]] :
                          n \in 1..2} :
        Len(failed) = 2 => failed[1].parser # failed[2].parser}

Refused(S, failed) ==
    \E i \in DOMAIN failed :
        ReadElsewhere(S, failed[i].parser, failed[i].version, failed[i].class)

\* record_detection_failure for each failing reading in turn.
RecordOne(S, reading, t) ==
    RecordFailure(S, reading.parser, reading.version, reading.class, t)

RecordAll(S, failed, t) ==
    LET first == RecordOne(S, failed[1], t)
    IN IF Len(failed) = 1 THEN first ELSE RecordOne(first, failed[2], t)

IngestFailures(failed, t) ==
    /\ ~Refused(streams, failed)
    /\ Ends(RecordAll(streams, failed, t), "failures")

IngestRefused(failed) ==
    /\ Refused(streams, failed)
    /\ ran' = "refusal"
    /\ UNCHANGED streams

\* A caller of the library records a failure without asking.
RecordUnasked(p, v, class, t) ==
    /\ LibraryCallers
    /\ Ends(RecordFailure(streams, p, v, class, t), "library")

Step ==
    \/ \E p \in Parsers, v \in Versions, t \in Instants :
          \/ \E unsuccessful, flag \in BOOLEAN : IngestReading(p, v, unsuccessful, t, flag)
          \/ \E class \in Classes : RecordUnasked(p, v, class, t)
    \/ \E failed \in FailedReadings :
          IngestRefused(failed) \/ \E t \in Instants : IngestFailures(failed, t)

Next == Len(streams) < MaxStreams /\ Step

Spec == Init /\ [][Next]_vars
-----------------------------------------------------------------------------
TypeOK ==
    /\ streams \in Seq(Artifact \cup Failure)
    /\ ran \in {"nothing", "reading", "side record", "failures", "refusal", "library"}

\* A digest somebody recorded anything of is never left with nothing current to report
\* (_split_streams: deciding the comparison per rule could leave it so).
SomethingCurrent == streams # <<>> => Current(streams) # {}

\* Every failure no reading resolved reaches a report through exactly one current stream,
\* its own or the one carrying its observation (R6).
CarriedOnce ==
    \A f \in Standing(streams) :
        Cardinality({c \in CurrentFailures(streams) :
                        streams[c].observation = streams[f].observation}) = 1

\* Whatever replaces a superseded reading is itself current, so no report names a stream it
\* does not carry as the replacement (_replaced_readings).
ReplacementCurrent ==
    Readings(streams) # {} => Replacement(streams) \in Current(streams)

\* A log with no hold has nothing dormant and is split by R1 to R5 alone.
NoHoldNothingDormant ==
    (\A f \in Failures(streams) : streams[f].head # "failure.held")
        => Dormant(streams) = {}

\* A failed reading that ingest records is not superseded by the fold that follows, unless
\* another reading of the same run changes how the digest's versions compare
\* (reading_elsewhere).
NotSupersededAtBirth ==
    [][LET new == DOMAIN streams' \ DOMAIN streams
       IN (/\ ran' = "failures"
           /\ (Numeric(streams') <=> Numeric(streams)) \/ Cardinality(new) = 1)
             => new \subseteq Standing(streams')]_vars

\* A failure some reading resolved stays resolved, whatever is recorded later, as long as the
\* digest's versions go on comparing as they did (_failure_is_superseded).
ResolvedStays ==
    [][(Numeric(streams') <=> Numeric(streams)) =>
          Failures(streams) \ Standing(streams) \subseteq
             Failures(streams') \ Standing(streams')]_vars
=============================================================================
