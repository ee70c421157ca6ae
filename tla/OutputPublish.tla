---------------------------- MODULE OutputPublish ----------------------------
(***************************************************************************)
(* `complyroll report' writing its outputs (src/src/complyroll/cli.py,     *)
(* _write_all_or_nothing): every output is staged beside its destination,  *)
(* every destination that exists is copied beside itself, then the         *)
(* destinations are replaced one rename at a time.  A rename that fails    *)
(* puts the replaced ones back, and putting one back may fail too.         *)
(*                                                                         *)
(* What a file holds is the run that wrote it.  Removing a temporary or a  *)
(* kept copy is taken to succeed; the code suppresses its error.           *)
(***************************************************************************)
EXTENDS Naturals, Sequences, FiniteSets

CONSTANTS
    Commands,    \* report commands, one process each
    Targets,     \* the destinations in the order they are written
    Overlap,     \* whether two commands may write the same outputs at once
    Before,      \* the reports that were there before any run
    Missing      \* no file

ASSUME OutputAssumption ==
    /\ Targets \in Seq({Targets[i] : i \in DOMAIN Targets}) /\ Targets # <<>>
    /\ \A i, j \in DOMAIN Targets : Targets[i] = Targets[j] => i = j
    /\ Overlap \in BOOLEAN
    /\ Before # Missing /\ {Before, Missing} \cap Commands = {}

Places   == {Targets[i] : i \in DOMAIN Targets}
Reports  == Commands \cup {Before}

VARIABLES
    file,        \* what each destination holds
    staged,      \* the temporaries each run has beside the destinations
    keeper,      \* the copy each run kept of a destination, or Missing
    doing,       \* what each run is doing
    next,        \* the target it is at
    published,   \* how many targets it has replaced
    stranded,    \* the destinations it could not put back
    met          \* history: what each destination held when the run preserved it

outputVars == <<file, staged, keeper, doing, next, published, stranded, met>>

Active   == {"stage", "preserve", "replace", "restore"}
Finished == {"written", "failed", "mixed", "crashed"}
OutputPhases == {"idle"} \cup Active \cup Finished

OutputInit ==
    /\ file \in [Places -> {Before, Missing}]
    /\ staged = [w \in Commands |-> {}]
    /\ keeper = [w \in Commands |-> [d \in Places |-> Missing]]
    /\ doing = [w \in Commands |-> "idle"]
    /\ next = [w \in Commands |-> 1]
    /\ published = [w \in Commands |-> 0]
    /\ stranded = [w \in Commands |-> {}]
    /\ met = [w \in Commands |-> [d \in Places |-> Missing]]

OutputGoto(w, phase) == doing' = [doing EXCEPT ![w] = phase]

At(w) == Targets[next[w]]

\* Move to the next target, or to the next phase when this was the last one.
Advance(w, phase) ==
    IF next[w] < Len(Targets)
    THEN next' = [next EXCEPT ![w] = @ + 1] /\ UNCHANGED doing
    ELSE next' = [next EXCEPT ![w] = 1] /\ OutputGoto(w, phase)

NoTemporaries(w) == staged' = [staged EXCEPT ![w] = {}]
NoKeepers(w)     == keeper' = [keeper EXCEPT ![w] = [d \in Places |-> Missing]]

Begin(w) ==
    /\ doing[w] = "idle"
    /\ Overlap \/ \A v \in Commands : doing[v] \notin Active
    /\ OutputGoto(w, "stage")
    /\ UNCHANGED <<file, staged, keeper, next, published, stranded, met>>

Stage(w) ==
    /\ doing[w] = "stage"
    /\ staged' = [staged EXCEPT ![w] = @ \cup {At(w)}]
    /\ Advance(w, "preserve")
    /\ UNCHANGED <<file, keeper, published, stranded, met>>

\* The temporary is listed before it is written, so a failed write discards it too.
StageFails(w) ==
    /\ doing[w] = "stage"
    /\ NoTemporaries(w)
    /\ OutputGoto(w, "failed")
    /\ UNCHANGED <<file, keeper, next, published, stranded, met>>

Preserve(w) ==
    /\ doing[w] = "preserve"
    /\ keeper' = [keeper EXCEPT ![w] = [@ EXCEPT ![At(w)] = file[At(w)]]]
    /\ met' = [met EXCEPT ![w] = [@ EXCEPT ![At(w)] = file[At(w)]]]
    /\ Advance(w, "replace")
    /\ UNCHANGED <<file, staged, published, stranded>>

PreserveFails(w) ==
    /\ doing[w] = "preserve" /\ file[At(w)] # Missing
    /\ NoKeepers(w) /\ NoTemporaries(w)
    /\ OutputGoto(w, "failed")
    /\ UNCHANGED <<file, next, published, stranded, met>>

\* After the last rename the kept copies are removed and the command returns.
Replace(w) ==
    /\ doing[w] = "replace"
    /\ file' = [file EXCEPT ![At(w)] = w]
    /\ staged' = [staged EXCEPT ![w] = @ \ {At(w)}]
    /\ published' = [published EXCEPT ![w] = @ + 1]
    /\ Advance(w, "written")
    /\ IF next[w] = Len(Targets) THEN NoKeepers(w) ELSE UNCHANGED keeper
    /\ UNCHANGED <<stranded, met>>

ReplaceFails(w) ==
    /\ doing[w] = "replace"
    /\ next' = [next EXCEPT ![w] = 1]
    /\ OutputGoto(w, "restore")
    /\ UNCHANGED <<file, staged, keeper, published, stranded, met>>

\* Mutated form: a destination that had no file is left alone.
RestoreKept(w) ==
    /\ doing[w] = "restore" /\ next[w] <= published[w]
    /\ \/ /\ file' = [file EXCEPT ![At(w)] = IF keeper[w][At(w)] = Missing
                                             THEN file[At(w)] ELSE keeper[w][At(w)]]
          /\ keeper' = [keeper EXCEPT ![w] = [@ EXCEPT ![At(w)] = Missing]]
          /\ UNCHANGED stranded
       \/ /\ stranded' = [stranded EXCEPT ![w] = @ \cup {At(w)}]
          /\ UNCHANGED <<file, keeper>>
    /\ next' = [next EXCEPT ![w] = @ + 1]
    /\ UNCHANGED <<staged, doing, published, met>>

\* Put one destination back: rename its kept copy over it, or remove it if it had no file.
\* Either may fail, and the others are still put back.
Restore(w) ==
    /\ doing[w] = "restore" /\ next[w] <= published[w]
    /\ \/ /\ file' = [file EXCEPT ![At(w)] = keeper[w][At(w)]]
          /\ keeper' = [keeper EXCEPT ![w] = [@ EXCEPT ![At(w)] = Missing]]
          /\ UNCHANGED stranded
       \/ /\ stranded' = [stranded EXCEPT ![w] = @ \cup {At(w)}]
          /\ UNCHANGED <<file, keeper>>
    /\ next' = [next EXCEPT ![w] = @ + 1]
    /\ UNCHANGED <<staged, doing, published, met>>

\* Mutated form: every kept copy is removed, the ones of stranded destinations too.
GiveUpCleanly(w) ==
    /\ doing[w] = "restore" /\ next[w] > published[w]
    /\ NoTemporaries(w) /\ NoKeepers(w)
    /\ OutputGoto(w, IF stranded[w] = {} THEN "failed" ELSE "mixed")
    /\ UNCHANGED <<file, next, published, stranded, met>>

\* Every temporary goes, and every kept copy but those of stranded destinations.
GiveUp(w) ==
    /\ doing[w] = "restore" /\ next[w] > published[w]
    /\ NoTemporaries(w)
    /\ keeper' = [keeper EXCEPT ![w] =
                    [d \in Places |-> IF d \in stranded[w] THEN @[d] ELSE Missing]]
    /\ OutputGoto(w, IF stranded[w] = {} THEN "failed" ELSE "mixed")
    /\ UNCHANGED <<file, next, published, stranded, met>>

OutputCrash(w) ==
    /\ doing[w] \in Active
    /\ OutputGoto(w, "crashed")
    /\ UNCHANGED <<file, staged, keeper, next, published, stranded, met>>

OutputStep(w) ==
    \/ Stage(w) \/ StageFails(w) \/ Preserve(w) \/ PreserveFails(w)
    \/ Replace(w) \/ ReplaceFails(w) \/ Restore(w) \/ GiveUp(w)

OutputNext == \E w \in Commands : Begin(w) \/ OutputStep(w) \/ OutputCrash(w)

OutputSpec == OutputInit /\ [][OutputNext]_outputVars
-----------------------------------------------------------------------------
OutputTypeOK ==
    /\ file \in [Places -> Reports \cup {Missing}]
    /\ staged \in [Commands -> SUBSET Places]
    /\ keeper \in [Commands -> [Places -> Reports \cup {Missing}]]
    /\ met \in [Commands -> [Places -> Reports \cup {Missing}]]
    /\ doing \in [Commands -> OutputPhases]
    /\ next \in [Commands -> 1..Len(Targets) + 1]
    /\ \A w \in Commands : next[w] > Len(Targets) => doing[w] \in {"restore"} \cup Finished
    /\ published \in [Commands -> 0..Len(Targets)]
    /\ stranded \in [Commands -> SUBSET Places]

\* A command that succeeds has written every output, and one that fails has left every
\* destination as it was: restored, or removed again where there was no file. Either leaves
\* no temporary and no copy beside them (_write_all_or_nothing).
AllOrNothing ==
    [][\A w \in Commands :
          /\ doing[w] # "written" /\ doing'[w] = "written" => \A d \in Places : file'[d] = w
          /\ doing[w] = "restore" /\ doing'[w] = "failed" => file' = met[w]
          /\ doing'[w] \in {"written", "failed"} =>
                staged'[w] = {} /\ \A d \in Places : keeper'[w][d] = Missing]_outputVars

\* At every step, a crash included, what a destination held is still beside it or in place
\* until every output is written; a destination that could not be put back keeps its copy
\* and is named (_roll_back). Commands that overlap are
\* not ordered by the code, and what they preserve is one another's output.
PreviousRecoverable ==
    ~Overlap => \A w \in Commands, d \in Places :
        file[d] = w /\ doing[w] # "written" =>
            /\ keeper[w][d] = met[w][d]
            /\ doing[w] = "mixed" => d \in stranded[w]

=============================================================================
