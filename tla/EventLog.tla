------------------------------ MODULE EventLog ------------------------------
(***************************************************************************)
(* What the event store promises its callers, with no file, lock, process  *)
(* or transaction in sight: one log that only ever grows, by whole groups  *)
(* of new events, and a schema mark that never falls behind its events.    *)
(***************************************************************************)
EXTENDS Integers, Sequences, FiniteSets

CONSTANTS Streams, EventIds, Supported

VARIABLES log, mark

\* Every stream numbers its own events 1, 2, 3, ... in log order.
Numbered(l) ==
    \A i \in 1..Len(l) :
        l[i].version = Cardinality({j \in 1..i : l[j].stream = l[i].stream})

OncePerIdentifier(l) == \A i, j \in 1..Len(l) : l[i].id = l[j].id => i = j

Init == log = <<>> /\ mark \in {0, 1}

\* An empty path becomes a store.
Create == mark = 0 /\ mark' = 1 /\ UNCHANGED log

\* One or more events join the end of the log, and the mark covers what they need.
Record ==
    /\ mark # 0
    /\ Len(log') > Len(log)
    /\ SubSeq(log', 1, Len(log)) = log
    /\ \A i \in Len(log) + 1..Len(log') :
          log'[i].stream \in Streams /\ log'[i].id \in EventIds /\ log'[i].need <= mark'
    /\ Numbered(log') /\ OncePerIdentifier(log')
    /\ mark' \in mark..Supported

Next == Create \/ Record

Spec == Init /\ [][Next]_<<log, mark>>
=============================================================================
