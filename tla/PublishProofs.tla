--------------------------- MODULE PublishProofs ---------------------------
(***************************************************************************)
(* Theorems about the two ways the command publishes files (cli.py): of    *)
(* StorePublish, for any number of runs and artifacts, and of              *)
(* OutputPublish, for any number of report commands, none overlapping      *)
(* another, and any number of destinations.                                *)
(***************************************************************************)
EXTENDS StorePublish, OutputPublish, TLAPS

-----------------------------------------------------------------------------
(* A store: where each run writes, and what it has recorded.               *)


\* A run at the path has found a store there; a build keeps to its own name until its link.
Placed(r) ==
    /\ at[r] \in {Path, r}
    /\ pc[r] \in {"start", "reserve"} => at[r] = Path
    /\ pc[r] \in {"link", "discard"} => at[r] = r
    /\ at[r] = Path /\ pc[r] \in {"parse", "open", "recording", "closing"} => dest \in Files
    /\ pc[r] \in {"report", "recorded"} => dest \in Files
    /\ pc[r] = "discard" /\ code[r] = "ok" => dest = r

\* What a run recorded is where it should be by then: in the file or its log until the close,
\* in the file itself from then on.
Kept(r) ==
    /\ pc[r] = "closing" /\ code[r] = "ok" => Brings[r] \subseteq Recorded(Contents(at[r]))
    /\ pc[r] = "link" => Brings[r] \subseteq Recorded(main[r])
    /\ pc[r] \in {"report", "recorded"} => Brings[r] \subseteq Recorded(Stored)

Whole == dest \in Runs => Brings[dest] \subseteq Recorded(main[dest])

AllPlaced == \A r \in Runs : Placed(r)

AllKept == ~diskFails => Whole /\ \A r \in Runs : Kept(r)

IInv == TypeOK /\ AllPlaced /\ AllKept

-----------------------------------------------------------------------------
(* What every step keeps. *)

\* Only the run that moves changes what it knows.
OthersStill(r) ==
    \A q \in Runs \ {r} : pc'[q] = pc[q] /\ at'[q] = at[q] /\ code'[q] = code[q]

\* No file loses a row, no log but the one its own run discards does, and what is at the
\* path stays there.
NothingLost(r) ==
    /\ dest \in Files => dest' = dest
    /\ \A f \in Files : main[f] \subseteq main'[f]
    /\ dest \in Files => main[dest] \cup wal[Path] \subseteq main'[dest] \cup wal'[Path]
    /\ \A q \in Runs \ {r} : main[q] \cup wal[q] \subseteq main'[q] \cup wal'[q]

Proper(r) == TypeOK' /\ OthersStill(r) /\ NothingLost(r) /\ Placed(r)'

LEMMA Distinct ==
    /\ Path \notin Runs /\ Path \in Names /\ Path # Absent
    /\ Absent \notin Files /\ Absent \notin Runs /\ Dangling \notin Files
    /\ Dangling # Absent /\ Runs \subseteq Files /\ Runs \subseteq Names
BY PublishAssumption DEF Files, Names

LEMMA CheckPathProper ==
    ASSUME TypeOK, AllPlaced, NEW r \in Runs, CheckPath(r), UNCHANGED diskFails
    PROVE  Proper(r)
<1>1. TypeOK'
      BY DEF TypeOK, CheckPath, DiskKept, Goto, Exit, Phases, Connected, Ended
<1>2. OthersStill(r) /\ NothingLost(r)
      BY DEF TypeOK, CheckPath, DiskKept, Goto, Exit, OthersStill, NothingLost
<1>3. Placed(r)'
      BY Distinct DEF TypeOK, AllPlaced, Placed, CheckPath, DiskKept, Goto, Exit
<1> QED BY <1>1, <1>2, <1>3 DEF Proper

LEMMA ReserveProper ==
    ASSUME TypeOK, AllPlaced, NEW r \in Runs, Reserve(r), UNCHANGED diskFails
    PROVE  Proper(r)
<1>1. TypeOK'
      BY DEF TypeOK, Reserve, Goto, Exit, Phases, Connected, Ended, Names
<1>2. OthersStill(r) /\ NothingLost(r)
      BY DEF TypeOK, Reserve, Goto, Exit, OthersStill, NothingLost
<1>3. Placed(r)'
      BY Distinct DEF TypeOK, AllPlaced, Placed, Reserve, Goto, Exit
<1> QED BY <1>1, <1>2, <1>3 DEF Proper

LEMMA ParseProper ==
    ASSUME TypeOK, AllPlaced, NEW r \in Runs, Parse(r), UNCHANGED diskFails
    PROVE  Proper(r)
<1>1. TypeOK'
      BY DEF TypeOK, Parse, DiskKept, Goto, Exit, WayOut, Phases, Connected, Ended
<1>2. OthersStill(r) /\ NothingLost(r)
      BY DEF TypeOK, Parse, DiskKept, Goto, Exit, OthersStill, NothingLost
<1>3. Placed(r)'
      BY Distinct DEF TypeOK, AllPlaced, Placed, Parse, DiskKept, Goto, Exit, WayOut
<1> QED BY <1>1, <1>2, <1>3 DEF Proper

LEMMA OpenStoreProper ==
    ASSUME TypeOK, AllPlaced, NEW r \in Runs, OpenStore(r), UNCHANGED diskFails
    PROVE  Proper(r)
<1>1. TypeOK'
      BY DEF TypeOK, OpenStore, Goto, Exit, WayOut, Phases, Connected, Ended
<1>2. OthersStill(r) /\ NothingLost(r)
      BY DEF TypeOK, OpenStore, Goto, Exit, OthersStill, NothingLost
<1>3. Placed(r)'
      BY Distinct DEF TypeOK, AllPlaced, Placed, OpenStore, Goto, Exit, WayOut
<1> QED BY <1>1, <1>2, <1>3 DEF Proper

LEMMA RecordIngestProper ==
    ASSUME TypeOK, AllPlaced, NEW r \in Runs, NEW a \in Artifacts, RecordIngest(r, a),
           UNCHANGED diskFails
    PROVE  Proper(r)
<1>1. TypeOK'
      BY DEF TypeOK, RecordIngest, DiskKept
<1>2. OthersStill(r) /\ NothingLost(r)
      BY DEF TypeOK, RecordIngest, DiskKept, OthersStill, NothingLost
<1>3. Placed(r)'
      BY DEF AllPlaced, Placed, RecordIngest, DiskKept
<1> QED BY <1>1, <1>2, <1>3 DEF Proper

LEMMA CommitProper ==
    ASSUME TypeOK, AllPlaced, NEW r \in Runs, Commit(r), UNCHANGED diskFails
    PROVE  Proper(r)
<1>1. TypeOK'
  <2>1. [artifact : pending[r] \ Recorded(Contents(at[r])), by : {r}] \in SUBSET Row
        BY DEF TypeOK, Row
  <2> DEFINE new == [artifact : pending[r] \ Recorded(Contents(at[r])), by : {r}]
  <2> HIDE DEF new
  <2>2. wal' = [wal EXCEPT ![at[r]] = @ \cup new]
        BY DEF Commit, new
  <2> QED BY <2>1, <2>2 DEF TypeOK, Commit, Goto, Phases, Connected, Ended, new
<1>2. OthersStill(r) /\ NothingLost(r)
      BY Distinct DEF TypeOK, Commit, Goto, OthersStill, NothingLost, Names
<1>3. Placed(r)'
      BY DEF TypeOK, AllPlaced, Placed, Commit, Goto
<1> QED BY <1>1, <1>2, <1>3 DEF Proper

LEMMA RollbackProper ==
    ASSUME TypeOK, AllPlaced, NEW r \in Runs, Rollback(r), UNCHANGED diskFails
    PROVE  Proper(r)
<1>1. TypeOK'
      BY DEF TypeOK, Rollback, Goto, Exit, Phases, Connected, Ended
<1>2. OthersStill(r) /\ NothingLost(r)
      BY DEF TypeOK, Rollback, Goto, Exit, OthersStill, NothingLost
<1>3. Placed(r)'
      BY DEF TypeOK, AllPlaced, Placed, Rollback, Goto, Exit
<1> QED BY <1>1, <1>2, <1>3 DEF Proper

LEMMA CloseProper ==
    ASSUME TypeOK, AllPlaced, NEW r \in Runs, Close(r), UNCHANGED diskFails
    PROVE  Proper(r)
<1>0. /\ at[r] \in Names /\ FileAt(at[r]) \in Files
      /\ at[r] = Path => FileAt(at[r]) = dest
      /\ at[r] # Path => FileAt(at[r]) = r /\ at[r] = r
      BY Distinct DEF TypeOK, AllPlaced, Placed, Close, FileAt
<1>1. TypeOK'
      BY <1>0 DEF TypeOK, Close, Checkpointed, Goto, AfterClose, WayOut,
                  Phases, Connected, Ended
<1>2. OthersStill(r) /\ NothingLost(r)
  <2>1. OthersStill(r) /\ dest' = dest
        BY DEF TypeOK, Close, Goto, OthersStill
  <2>2. CASE UNCHANGED <<main, wal>>
        BY <2>1, <2>2 DEF NothingLost
  <2>3. CASE Checkpointed(r)
        BY <1>0, <2>1, <2>3, Distinct DEF TypeOK, Checkpointed, NothingLost
  <2> QED BY <2>1, <2>2, <2>3 DEF Close
<1>3. Placed(r)'
      BY Distinct DEF TypeOK, AllPlaced, Placed, Close, Goto, AfterClose, WayOut
<1> QED BY <1>1, <1>2, <1>3 DEF Proper

LEMMA LinkProper ==
    ASSUME TypeOK, AllPlaced, NEW r \in Runs, Link(r), UNCHANGED diskFails
    PROVE  Proper(r)
<1>1. TypeOK'
      BY DEF TypeOK, Link, Goto, Exit, Phases, Connected, Ended, Files
<1>2. OthersStill(r) /\ NothingLost(r)
      BY Distinct DEF TypeOK, Link, Goto, Exit, OthersStill, NothingLost
<1>3. Placed(r)'
      BY Distinct DEF TypeOK, AllPlaced, Placed, Link, Goto, Exit
<1> QED BY <1>1, <1>2, <1>3 DEF Proper

LEMMA DiscardProper ==
    ASSUME TypeOK, AllPlaced, NEW r \in Runs, Discard(r), UNCHANGED diskFails
    PROVE  Proper(r)
<1>1. TypeOK'
      BY DEF TypeOK, Discard, Goto, Verdict, Phases, Connected, Ended
<1>2. OthersStill(r) /\ NothingLost(r)
      BY Distinct DEF TypeOK, Discard, Goto, OthersStill, NothingLost
<1>3. Placed(r)'
      BY Distinct DEF TypeOK, AllPlaced, Placed, Discard, Goto, Verdict
<1> QED BY <1>1, <1>2, <1>3 DEF Proper

LEMMA ReportProper ==
    ASSUME TypeOK, AllPlaced, NEW r \in Runs, Report(r), UNCHANGED diskFails
    PROVE  Proper(r)
<1>1. TypeOK'
      BY DEF TypeOK, Report, DiskKept, Goto, Phases, Connected, Ended
<1>2. OthersStill(r) /\ NothingLost(r)
      BY DEF TypeOK, Report, DiskKept, Goto, OthersStill, NothingLost
<1>3. Placed(r)'
      BY DEF TypeOK, AllPlaced, Placed, Report, DiskKept, Goto
<1> QED BY <1>1, <1>2, <1>3 DEF Proper

LEMMA CrashProper ==
    ASSUME TypeOK, AllPlaced, NEW r \in Runs, Crash(r), UNCHANGED diskFails
    PROVE  Proper(r)
<1>1. TypeOK'
      BY DEF TypeOK, Crash, Goto, Phases, Connected, Ended
<1>2. OthersStill(r) /\ NothingLost(r)
      BY DEF TypeOK, Crash, Goto, OthersStill, NothingLost
<1>3. Placed(r)'
      BY DEF TypeOK, AllPlaced, Placed, Crash, Goto
<1> QED BY <1>1, <1>2, <1>3 DEF Proper

LEMMA StepProper ==
    ASSUME TypeOK, AllPlaced, NEW r \in Runs, Step(r) \/ Crash(r), UNCHANGED diskFails
    PROVE  Proper(r)
BY CheckPathProper, ReserveProper, ParseProper, OpenStoreProper, RecordIngestProper,
   CommitProper, RollbackProper, CloseProper, LinkProper, DiscardProper, ReportProper,
   CrashProper
   DEF Step

LEMMA OthersPlaced ==
    ASSUME TypeOK, AllPlaced, NEW r \in Runs, Proper(r)
    PROVE  AllPlaced'
<1> SUFFICES ASSUME NEW q \in Runs \ {r} PROVE Placed(q)'
    BY DEF AllPlaced, Proper
<1>1. Placed(q) /\ pc'[q] = pc[q] /\ at'[q] = at[q] /\ code'[q] = code[q]
      BY DEF AllPlaced, Proper, OthersStill
<1>2. dest \in Files => dest' = dest
      BY DEF Proper, NothingLost
<1> QED BY <1>1, <1>2, Distinct DEF Placed

LEMMA NextPlaced ==
    TypeOK /\ AllPlaced /\ [Next]_vars => TypeOK' /\ AllPlaced'
<1> SUFFICES ASSUME TypeOK, AllPlaced, [Next]_vars PROVE TypeOK' /\ AllPlaced'
    OBVIOUS
<1>1. CASE UNCHANGED vars
      BY <1>1 DEF vars, TypeOK, AllPlaced, Placed
<1>2. CASE Next
  <2>1. PICK r \in Runs : Step(r) \/ Crash(r)
        BY <1>2 DEF Next
  <2>2. Proper(r)
        BY <1>2, <2>1, StepProper DEF Next
  <2> QED BY <2>2, OthersPlaced DEF Proper
<1> QED BY <1>1, <1>2

LEMMA InitPlaced ==
    Init => TypeOK /\ AllPlaced
<1> SUFFICES ASSUME Init PROVE TypeOK /\ AllPlaced
    OBVIOUS
<1>1. TypeOK
      BY PublishAssumption, Distinct DEF Init, TypeOK, Files, Names, Phases
<1>2. AllPlaced
      BY DEF Init, AllPlaced, Placed
<1> QED BY <1>1, <1>2

LEMMA PlacedInvariant == Spec => [](TypeOK /\ AllPlaced)
BY InitPlaced, NextPlaced, PTL DEF Spec

-----------------------------------------------------------------------------
(* On a sound disk, what a run recorded stays with it. *)

LEMMA RecordedGrows ==
    ASSUME NEW X, NEW Y, X \subseteq Y
    PROVE  Recorded(X) \subseteq Recorded(Y)
BY DEF Recorded

LEMMA OthersKept ==
    ASSUME TypeOK, AllPlaced, NEW r \in Runs, Proper(r), NEW q \in Runs \ {r}, Kept(q)
    PROVE  Kept(q)'
<1>1. /\ Placed(q) /\ pc'[q] = pc[q] /\ at'[q] = at[q] /\ code'[q] = code[q]
      /\ q # Path /\ q \in Files
      BY Distinct DEF AllPlaced, Proper, OthersStill
<1>2. NothingLost(r)
      BY DEF Proper
<1>3. ASSUME pc[q] = "closing"
      PROVE  Contents(at[q]) \subseteq Contents(at[q])'
  <2>1. CASE at[q] = q
        BY <1>1, <1>2, <2>1 DEF NothingLost, Contents, FileAt
  <2>2. CASE at[q] = Path
    <3>1. dest \in Files
          BY <1>1, <1>3, <2>2 DEF Placed
    <3> QED BY <1>1, <1>2, <2>2, <3>1 DEF NothingLost, Contents, FileAt
  <2> QED BY <1>1, <2>1, <2>2 DEF Placed
<1>4. pc[q] \in {"report", "recorded"} => Stored \subseteq Stored'
  <2>1. pc[q] \in {"report", "recorded"} => dest \in Files
        BY <1>1 DEF Placed
  <2> QED BY <1>2, <2>1 DEF NothingLost, Stored, Contents, FileAt
<1>5. main[q] \subseteq main'[q]
      BY <1>1, <1>2 DEF NothingLost
<1>6. /\ pc[q] = "closing" => Recorded(Contents(at[q])) \subseteq Recorded(Contents(at[q]))'
      /\ pc[q] \in {"report", "recorded"} => Recorded(Stored) \subseteq Recorded(Stored)'
      /\ Recorded(main[q]) \subseteq Recorded(main'[q])
      BY <1>3, <1>4, <1>5, RecordedGrows
<1> QED BY <1>1, <1>6 DEF Kept

LEMMA WholeStays ==
    ASSUME TypeOK, NEW r \in Runs, NothingLost(r), Whole, dest' = dest
    PROVE  Whole'
<1>1. dest \in Runs => main[dest] \subseteq main'[dest]
      BY Distinct DEF NothingLost
<1> QED BY <1>1, RecordedGrows DEF Whole

LEMMA CommitKept ==
    ASSUME TypeOK, AllPlaced, NEW r \in Runs, Commit(r)
    PROVE  Kept(r)'
<1> DEFINE new == [artifact : pending[r] \ Recorded(Contents(at[r])), by : {r}]
           Now == main[FileAt(at[r])] \cup (wal[at[r]] \cup new)
<1>1. pending[r] = Brings[r] /\ wal' = [wal EXCEPT ![at[r]] = @ \cup new]
      BY DEF Commit
<1>2. Contents(at[r])' = Now
  <2>1. at[r] \in Names /\ at' = at /\ main' = main /\ dest' = dest
        BY DEF TypeOK, Commit
  <2> HIDE DEF new
  <2> QED BY <1>1, <2>1 DEF TypeOK, Contents, FileAt
<1>3. ASSUME NEW a \in Brings[r] PROVE a \in Recorded(Now)
  <2>1. CASE a \in Recorded(Contents(at[r]))
        BY <2>1 DEF Recorded, Contents
  <2>2. CASE a \notin Recorded(Contents(at[r]))
    <3>1. [artifact |-> a, by |-> r] \in new
          BY <1>1, <2>2
    <3> HIDE DEF new
    <3>2. [artifact |-> a, by |-> r] \in Now /\ [artifact |-> a, by |-> r].artifact = a
          BY <3>1
    <3> QED BY <3>2 DEF Recorded
  <2> QED BY <2>1, <2>2
<1> HIDE DEF Now
<1>4. pc'[r] = "closing"
      BY DEF TypeOK, Commit, Goto
<1> QED BY <1>2, <1>3, <1>4 DEF Kept

LEMMA CloseKept ==
    ASSUME TypeOK, AllPlaced, NEW r \in Runs, Close(r), ~diskFails, Kept(r)
    PROVE  Kept(r)'
<1>1. /\ at[r] \in {Path, r} /\ pc[r] = "closing" /\ r # Path /\ r \in Files
      /\ at[r] = Path => dest \in Files
      /\ at' = at /\ dest' = dest /\ code' = code
      BY Distinct DEF AllPlaced, Placed, Close
<1>2. pc'[r] = AfterClose(r)
      BY DEF TypeOK, Close, Goto
<1>3. CASE code[r] # "ok"
      BY <1>2, <1>3 DEF AfterClose, WayOut, Kept
<1>4. CASE code[r] = "ok" /\ at[r] = r
  <2>1. AloneAt(r)
        BY <1>4, Distinct DEF AllPlaced, Placed, AloneAt
  <2>2. Checkpointed(r)
        BY <2>1 DEF Close
  <2>3. main'[r] = Contents(r)
        BY <1>1, <1>4, <2>2 DEF TypeOK, Checkpointed, Contents, FileAt
  <2>4. pc'[r] = "link"
        BY <1>2, <1>4 DEF AfterClose
  <2>5. Brings[r] \subseteq Recorded(main'[r])
        BY <1>1, <1>4, <2>3 DEF Kept
  <2> QED BY <2>4, <2>5 DEF Kept
<1>5. CASE code[r] = "ok" /\ at[r] = Path
  <2>1. pc'[r] = "report"
        BY <1>1, <1>2, <1>5 DEF AfterClose
  <2>2. Contents(Path) \subseteq Stored'
    <3>1. CASE UNCHANGED <<main, wal>>
          BY <1>1, <1>5, <3>1 DEF Stored, Contents, FileAt
    <3>2. CASE Checkpointed(r)
          BY <1>1, <1>5, <3>2, Distinct DEF TypeOK, Checkpointed, Stored, Contents, FileAt
    <3> QED BY <3>1, <3>2 DEF Close
  <2>3. Brings[r] \subseteq Recorded(Stored')
        BY <1>1, <1>5, <2>2, RecordedGrows DEF Kept
  <2> QED BY <2>1, <2>3 DEF Kept
<1> QED BY <1>1, <1>3, <1>4, <1>5

\* The link is where what was built becomes what is stored.
LEMMA LinkKept ==
    ASSUME TypeOK, AllPlaced, NEW r \in Runs, Link(r), Proper(r), Whole, Kept(r)
    PROVE  Kept(r)' /\ Whole'
<1>1. pc'[r] = "discard" /\ main' = main
      BY DEF TypeOK, Link, Goto
<1>2. Kept(r)'
      BY <1>1 DEF Kept
<1>3. CASE dest' = r
      BY <1>1, <1>2, <1>3 DEF Whole, Kept, Link
<1>4. CASE dest' = dest
      BY <1>2, <1>4, WholeStays DEF Proper
<1> QED BY <1>3, <1>4 DEF Link

LEMMA DiscardKept ==
    ASSUME TypeOK, AllPlaced, NEW r \in Runs, Discard(r), Whole
    PROVE  Kept(r)'
<1>1. CASE code[r] = "ok"
  <2>1. dest = r /\ dest' = dest /\ main' = main /\ pc'[r] = "report"
        BY <1>1 DEF TypeOK, AllPlaced, Placed, Discard, Goto, Verdict
  <2>2. Brings[r] \subseteq Recorded(main[r])
        BY <2>1 DEF Whole
  <2>3. main[r] \subseteq Stored'
        BY <2>1, Distinct DEF Stored, Contents, FileAt
  <2>4. Brings[r] \subseteq Recorded(Stored')
        BY <2>2, <2>3, RecordedGrows
  <2> QED BY <2>1, <2>4 DEF Kept
<1>2. CASE code[r] # "ok"
      BY <1>2 DEF TypeOK, Discard, Goto, Verdict, Kept
<1> QED BY <1>1, <1>2

LEMMA ReportKept ==
    ASSUME TypeOK, NEW r \in Runs, Report(r), Kept(r)
    PROVE  Kept(r)'
BY DEF TypeOK, Report, DiskKept, Goto, Kept, Stored, Contents, FileAt

\* Everywhere else the run has nothing recorded, or nothing it may lose.
LEMMA ElsewhereKept ==
    ASSUME TypeOK, NEW r \in Runs,
           \/ CheckPath(r) \/ Reserve(r) \/ Parse(r) \/ OpenStore(r) \/ Rollback(r)
           \/ Crash(r) \/ \E a \in Artifacts : RecordIngest(r, a)
    PROVE  Kept(r)' /\ dest' = dest
<1>1. /\ dest' = dest
      /\ pc'[r] \notin {"link", "report", "recorded"}
      /\ pc'[r] = "closing" => code'[r] # "ok"
      BY DEF TypeOK, CheckPath, Reserve, Parse, OpenStore, Rollback, Crash, RecordIngest,
             DiskKept, Goto, Exit, WayOut
<1> QED BY <1>1 DEF Kept

LEMMA StepKept ==
    ASSUME TypeOK, AllPlaced, NEW r \in Runs, Step(r) \/ Crash(r), UNCHANGED diskFails,
           ~diskFails, Whole, \A q \in Runs : Kept(q)
    PROVE  Whole' /\ \A q \in Runs : Kept(q)'
<1>1. Proper(r)
      BY StepProper
<1>2. \A q \in Runs \ {r} : Kept(q)'
      BY <1>1, OthersKept
<1>3. CASE Link(r)
      BY <1>1, <1>2, <1>3, LinkKept
<1>4. CASE ~Link(r)
  <2>1. Kept(r)' /\ dest' = dest
    <3>1. CASE Commit(r)
          BY <3>1, CommitKept DEF Commit
    <3>2. CASE Close(r)
          BY <3>2, CloseKept DEF Close
    <3>3. CASE Discard(r)
          BY <3>3, DiscardKept DEF Discard
    <3>4. CASE Report(r)
          BY <3>4, ReportKept DEF Report, DiskKept
    <3>5. CASE \/ CheckPath(r) \/ Reserve(r) \/ Parse(r) \/ OpenStore(r) \/ Rollback(r)
               \/ Crash(r) \/ \E a \in Artifacts : RecordIngest(r, a)
          BY <3>5, ElsewhereKept
    <3> QED BY <1>4, <3>1, <3>2, <3>3, <3>4, <3>5 DEF Step
  <2> QED BY <1>1, <1>2, <2>1, WholeStays DEF Proper
<1> QED BY <1>3, <1>4

LEMMA InitInvariant == Init => IInv
<1>1. Init => AllKept
      BY Distinct, PublishAssumption DEF Init, AllKept, Whole, Kept, Files
<1> QED BY <1>1, InitPlaced DEF IInv

LEMMA NextInvariant == IInv /\ [Next]_vars => IInv'
<1> SUFFICES ASSUME IInv, [Next]_vars PROVE AllKept'
    BY NextPlaced DEF IInv
<1>1. CASE UNCHANGED vars
      BY <1>1 DEF IInv, vars, AllKept, Whole, Kept, Stored, Contents, FileAt
<1>2. CASE Next
  <2>1. PICK r \in Runs : Step(r) \/ Crash(r)
        BY <1>2 DEF Next
  <2>2. UNCHANGED diskFails
        BY <1>2 DEF Next
  <2> QED BY <2>1, <2>2, StepKept DEF IInv, AllKept
<1> QED BY <1>1, <1>2

LEMMA Invariant == Spec => []IInv
BY InitInvariant, NextInvariant, PTL DEF Spec

-----------------------------------------------------------------------------
(* On any disk, what a run recorded shows at the path as a whole. *)

Mine(r, rows) == \E row \in rows : row.by = r

Early == {"start", "reserve", "parse", "open", "recording"}

\* A run's own file holds its rows alone until it is the store, and all of them or none.
OwnFile(r) ==
    /\ pc[r] \in Early => main[r] = {} /\ wal[r] = {} /\ code[r] = "ok"
    /\ pc[r] = "link" => code[r] = "ok"
    /\ \A row \in wal[r] : row.by = r
    /\ Mine(r, wal[r]) => Brings[r] \subseteq Recorded(wal[r])
    /\ dest # r => \A row \in main[r] : row.by = r
    /\ dest # r /\ Mine(r, main[r]) => Brings[r] \subseteq Recorded(main[r])

\* Its rows are in the store because it wrote there or became it, and never once it failed.
AtPath(r) ==
    /\ dest = r => /\ at[r] = r /\ code[r] = "ok"
                   /\ pc[r] \in {"discard", "report", "recorded", "crashed"}
    /\ Mine(r, Stored) =>
          /\ Brings[r] \subseteq Recorded(Stored)
          /\ at[r] = Path \/ dest = r
          /\ pc[r] \notin Early \cup {"failed"} /\ code[r] = "ok"

LogClear == dest \notin Files => wal[Path] = {}

Accounted == LogClear /\ \A r \in Runs : OwnFile(r) /\ AtPath(r)

\* What a run's step may do to the rows of the others.
Frame(r) ==
    /\ \A row \in Stored' : row \in Stored \/ row.by = r
    /\ \A q \in Runs \ {r} : wal'[q] = wal[q] /\ (main'[q] = main[q] \/ dest = q)
    /\ dest' = dest \/ (dest = Absent /\ dest' = r)
    /\ LogClear'

Accounts(r) == Frame(r) /\ OwnFile(r)' /\ AtPath(r)'

LEMMA OthersAccounted ==
    ASSUME TypeOK, AllPlaced, Accounted, NEW r \in Runs, Proper(r), Frame(r), NEW q \in Runs \ {r}
    PROVE  OwnFile(q)' /\ AtPath(q)'
<1>1. /\ pc'[q] = pc[q] /\ at'[q] = at[q] /\ code'[q] = code[q] /\ wal'[q] = wal[q]
      /\ dest' = q <=> dest = q
      /\ OwnFile(q) /\ AtPath(q)
      BY Distinct DEF Proper, OthersStill, Frame, Accounted
<1>2. Stored \subseteq Stored'
      BY Distinct DEF Proper, NothingLost, Stored, Contents, FileAt
<1>3. Recorded(Stored) \subseteq Recorded(Stored')
      BY <1>2, RecordedGrows
<1>4. OwnFile(q)'
  <2>1. CASE dest = q
        BY <1>1, <2>1 DEF OwnFile, AtPath, Early
  <2>2. CASE dest # q
        BY <1>1, <2>2 DEF OwnFile, Frame
  <2> QED BY <2>1, <2>2
<1>5. Mine(q, Stored') => Mine(q, Stored)
      BY DEF Mine, Frame
<1>6. AtPath(q)'
      BY <1>1, <1>3, <1>5 DEF AtPath
<1> QED BY <1>4, <1>6

\* A step that leaves the files alone, and the phase where the run's rows are hidden only
\* when there are none.
Quiet(r) ==
    /\ UNCHANGED <<dest, main, wal>>
    /\ pc'[r] # "link"
    /\ pc'[r] \in Early => pc[r] \in Early /\ code'[r] = code[r]
    /\ pc[r] \notin Early =>
          /\ pc'[r] \in {"recorded", "crashed"}
          /\ code'[r] = code[r] /\ at'[r] = at[r]

LEMMA QuietAccounts ==
    ASSUME TypeOK, AllPlaced, Accounted, NEW r \in Runs, Quiet(r)
    PROVE  Accounts(r)
<1>1. OwnFile(r) /\ AtPath(r) /\ LogClear
      BY DEF Accounted
<1>2. dest' = dest /\ main' = main /\ wal' = wal /\ Stored' = Stored
      BY DEF Quiet, Stored, Contents, FileAt
<1>3. Frame(r)
      BY <1>1, <1>2 DEF Frame, LogClear
<1>4. OwnFile(r)'
      BY <1>1, <1>2 DEF OwnFile, Quiet
<1>5. pc[r] \in Early => dest # r /\ ~Mine(r, Stored)
      BY <1>1 DEF AtPath, Early
<1>6. AtPath(r)'
      BY <1>1, <1>2, <1>5 DEF AtPath, Quiet, Early
<1> QED BY <1>3, <1>4, <1>6 DEF Accounts

LEMMA QuietSteps ==
    ASSUME TypeOK, AllPlaced, NEW r \in Runs,
           \/ CheckPath(r) \/ Reserve(r) \/ Parse(r) \/ OpenStore(r) \/ Rollback(r)
           \/ Report(r) \/ Crash(r) \/ \E a \in Artifacts : RecordIngest(r, a)
    PROVE  Quiet(r)
BY DEF TypeOK, CheckPath, Reserve, Parse, OpenStore, Rollback, Report, Crash, RecordIngest,
       DiskKept, Goto, Exit, WayOut, Quiet, Early, Ended

LEMMA CommitAccounts ==
    ASSUME TypeOK, AllPlaced, Accounted, NEW r \in Runs, Commit(r)
    PROVE  Accounts(r)
<1> DEFINE new == [artifact : pending[r] \ Recorded(Contents(at[r])), by : {r}]
<1>1. /\ pending[r] = Brings[r] /\ wal' = [wal EXCEPT ![at[r]] = @ \cup new]
      /\ UNCHANGED <<dest, temps, main, at, code>>
      /\ pc[r] = "recording" /\ pc'[r] = "closing"
      BY DEF TypeOK, Commit, Goto
<1>2. \A row \in new : row.by = r
      OBVIOUS
<1>3. ASSUME NEW a \in Brings[r] PROVE a \in Recorded(Contents(at[r]) \cup new)
  <2>1. CASE a \in Recorded(Contents(at[r]))
        BY <2>1 DEF Recorded
  <2>2. CASE a \notin Recorded(Contents(at[r]))
    <3>1. [artifact |-> a, by |-> r] \in new
          BY <1>1, <2>2
    <3> HIDE DEF new
    <3>2. [artifact |-> a, by |-> r] \in Contents(at[r]) \cup new
          /\ [artifact |-> a, by |-> r].artifact = a
          BY <3>1
    <3> QED BY <3>2 DEF Recorded
  <2> QED BY <2>1, <2>2
<1> HIDE DEF new
<1>4. /\ OwnFile(r) /\ AtPath(r) /\ LogClear /\ Placed(r)
      /\ main[r] = {} /\ wal[r] = {} /\ code[r] = "ok" /\ dest # r /\ ~Mine(r, Stored)
      BY <1>1 DEF Accounted, AllPlaced, OwnFile, AtPath, Early
<1>5. CASE at[r] = r
  <2>1. /\ wal'[r] = new /\ wal'[Path] = wal[Path] /\ \A q \in Runs \ {r} : wal'[q] = wal[q]
        /\ Stored' = Stored
        BY <1>1, <1>4, <1>5, Distinct DEF TypeOK, Stored, Contents, FileAt
  <2>2. Brings[r] \subseteq Recorded(wal'[r])
        BY <1>3, <1>4, <1>5, <2>1, Distinct DEF Contents, FileAt
  <2>3. OwnFile(r)'
        BY <1>1, <1>2, <1>4, <2>1, <2>2 DEF OwnFile, Early, Mine
  <2>4. AtPath(r)'
        BY <1>1, <1>4, <2>1 DEF AtPath, Mine
  <2>5. Frame(r)
        BY <1>1, <1>4, <2>1 DEF Frame, LogClear
  <2> QED BY <2>3, <2>4, <2>5 DEF Accounts
<1>6. CASE at[r] = Path
  <2>1. dest \in Files
        BY <1>1, <1>4, <1>6 DEF Placed
  <2>2. /\ Stored' = Contents(Path) \cup new /\ Stored = Contents(Path)
        /\ \A q \in Runs : wal'[q] = wal[q]
        BY <1>1, <1>6, <2>1, Distinct DEF TypeOK, Stored, Contents, FileAt
  <2>3. Brings[r] \subseteq Recorded(Stored')
        BY <1>3, <1>6, <2>2
  <2>4. OwnFile(r)'
        BY <1>1, <1>4, <2>2 DEF OwnFile, Early, Mine
  <2>5. AtPath(r)'
        BY <1>1, <1>4, <1>6, <2>3 DEF AtPath, Early
  <2>6. Frame(r)
        BY <1>1, <1>2, <2>1, <2>2 DEF Frame, LogClear
  <2> QED BY <2>4, <2>5, <2>6 DEF Accounts
<1> QED BY <1>4, <1>5, <1>6 DEF Placed

LEMMA CloseAccounts ==
    ASSUME TypeOK, AllPlaced, Accounted, NEW r \in Runs, Close(r)
    PROVE  Accounts(r)
<1>1. /\ OwnFile(r) /\ AtPath(r) /\ LogClear /\ Placed(r) /\ pc[r] = "closing"
      /\ UNCHANGED <<dest, temps, at, code>> /\ pc'[r] = AfterClose(r) /\ dest # r
      BY DEF TypeOK, Accounted, AllPlaced, AtPath, Close, Goto
<1>2. /\ pc'[r] \notin Early
      /\ code[r] = "ok" => pc'[r] # "failed"
      /\ pc'[r] = "link" => code[r] = "ok"
      BY <1>1 DEF AfterClose, WayOut, Early
<1>3. CASE UNCHANGED <<main, wal>>
  <2>1. Stored' = Stored
        BY <1>1, <1>3 DEF Stored, Contents, FileAt
  <2> QED BY <1>1, <1>2, <1>3, <2>1 DEF Accounts, Frame, OwnFile, AtPath, LogClear
<1>4. CASE Checkpointed(r) /\ at[r] = r
  <2>1. /\ main'[r] = main[r] \cup wal[r] /\ wal'[r] = {} /\ wal'[Path] = wal[Path]
        /\ \A f \in Files \ {r} : main'[f] = main[f]
        /\ \A q \in Runs \ {r} : wal'[q] = wal[q]
        BY <1>4, Distinct DEF TypeOK, Checkpointed, FileAt
  <2>2. Stored' = Stored
        BY <1>1, <2>1 DEF Stored, Contents, FileAt
  <2>3. Mine(r, main'[r]) => Brings[r] \subseteq Recorded(main'[r])
        BY <1>1, <2>1, RecordedGrows DEF OwnFile, Mine, Recorded
  <2>4. OwnFile(r)'
        BY <1>1, <1>2, <2>1, <2>3 DEF OwnFile, Mine
  <2>5. Frame(r) /\ AtPath(r)'
        BY <1>1, <1>2, <2>1, <2>2, Distinct DEF Frame, AtPath, LogClear
  <2> QED BY <2>4, <2>5 DEF Accounts
<1>5. CASE Checkpointed(r) /\ at[r] = Path
  <2>1. dest \in Files
        BY <1>1, <1>5 DEF Placed
  <2>2. /\ main'[dest] = main[dest] \cup wal[Path] /\ wal'[Path] = {}
        /\ \A f \in Files \ {dest} : main'[f] = main[f]
        /\ \A q \in Runs : wal'[q] = wal[q]
        BY <1>5, <2>1, Distinct DEF TypeOK, Checkpointed, FileAt
  <2>3. Stored' = Stored
        BY <1>1, <2>1, <2>2 DEF Stored, Contents, FileAt
  <2>4. main'[r] = main[r]
        BY <1>1, <2>2, Distinct
  <2>5. OwnFile(r)'
        BY <1>1, <1>2, <2>2, <2>4 DEF OwnFile
  <2>6. Frame(r)
        BY <1>1, <2>1, <2>2, <2>3, Distinct DEF Frame, LogClear
  <2>7. AtPath(r)'
        BY <1>1, <1>2, <2>3 DEF AtPath
  <2> QED BY <2>5, <2>6, <2>7 DEF Accounts
<1> QED BY <1>1, <1>3, <1>4, <1>5 DEF Close, Placed

LEMMA LinkAccounts ==
    ASSUME TypeOK, AllPlaced, Accounted, NEW r \in Runs, Link(r)
    PROVE  Accounts(r)
<1>1. /\ OwnFile(r) /\ AtPath(r) /\ LogClear /\ Placed(r)
      /\ pc[r] = "link" /\ pc'[r] = "discard" /\ at[r] = r /\ dest # r
      /\ UNCHANGED <<main, wal, at>>
      BY DEF TypeOK, Accounted, AllPlaced, Placed, AtPath, Link, Goto
<1>2. ~Mine(r, Stored)
      BY <1>1, Distinct DEF AtPath
<1>3. CASE dest' = dest
  <2>1. Stored' = Stored
        BY <1>1, <1>3 DEF Stored, Contents, FileAt
  <2> QED BY <1>1, <1>2, <1>3, <2>1 DEF Accounts, Frame, OwnFile, AtPath, LogClear, Early
<1>4. CASE dest = Absent /\ dest' = r /\ UNCHANGED code
  <2>1. Stored' = main[r] /\ \A row \in main[r] : row.by = r
        BY <1>1, <1>4, Distinct DEF Stored, Contents, FileAt, LogClear, OwnFile
  <2>2. code[r] = "ok"
        BY <1>1 DEF OwnFile
  <2>3. OwnFile(r)'
        BY <1>1, <1>4 DEF OwnFile, Early
  <2>4. AtPath(r)'
        BY <1>1, <1>4, <2>1, <2>2 DEF AtPath, OwnFile, Early
  <2>5. Frame(r)
        BY <1>1, <1>4, <2>1, Distinct DEF Frame, LogClear
  <2> QED BY <2>3, <2>4, <2>5 DEF Accounts
<1> QED BY <1>3, <1>4 DEF Link

LEMMA DiscardAccounts ==
    ASSUME TypeOK, AllPlaced, Accounted, NEW r \in Runs, Discard(r)
    PROVE  Accounts(r)
<1>1. /\ OwnFile(r) /\ AtPath(r) /\ LogClear /\ Placed(r)
      /\ pc[r] = "discard" /\ pc'[r] = Verdict(r) /\ at[r] = r
      /\ UNCHANGED <<dest, main, at, code>>
      /\ wal'[r] = {} /\ wal'[Path] = wal[Path] /\ \A q \in Runs \ {r} : wal'[q] = wal[q]
      BY Distinct DEF TypeOK, Accounted, AllPlaced, Placed, Discard, Goto
<1>2. Stored' = Stored
      BY <1>1 DEF Stored, Contents, FileAt
<1>3. OwnFile(r)'
      BY <1>1 DEF OwnFile, Mine, Verdict, Early
<1>4. AtPath(r)'
      BY <1>1, <1>2 DEF AtPath, Verdict, Early
<1>5. Frame(r)
      BY <1>1, <1>2 DEF Frame, LogClear
<1> QED BY <1>3, <1>4, <1>5 DEF Accounts

LEMMA StepAccounts ==
    ASSUME TypeOK, AllPlaced, Accounted, NEW r \in Runs, Step(r) \/ Crash(r)
    PROVE  Accounts(r)
<1>1. CASE \/ CheckPath(r) \/ Reserve(r) \/ Parse(r) \/ OpenStore(r) \/ Rollback(r)
           \/ Report(r) \/ Crash(r) \/ \E a \in Artifacts : RecordIngest(r, a)
      BY <1>1, QuietSteps, QuietAccounts
<1>2. CASE Commit(r) \/ Close(r) \/ Link(r) \/ Discard(r)
      BY <1>2, CommitAccounts, CloseAccounts, LinkAccounts, DiscardAccounts
<1> QED BY <1>1, <1>2 DEF Step

LEMMA InitAccounted == Init => Accounted
<1> SUFFICES ASSUME Init PROVE Accounted
    OBVIOUS
<1>1. \A f \in Files : main[f] = {}
      BY DEF Init
<1>2. \A n \in Names : wal[n] = {}
      BY DEF Init
<1>3. /\ dest \notin Runs /\ Stored = {}
      /\ \A r \in Runs : pc[r] = "start" /\ code[r] = "ok"
      BY <1>1, <1>2, Distinct, PublishAssumption DEF Init, Stored, Contents, FileAt, Files
<1> QED BY <1>1, <1>2, <1>3, Distinct DEF Accounted, LogClear, OwnFile, AtPath, Mine

LEMMA NextAccounted ==
    TypeOK /\ AllPlaced /\ Accounted /\ [Next]_vars => Accounted'
<1> SUFFICES ASSUME TypeOK, AllPlaced, Accounted, [Next]_vars PROVE Accounted'
    OBVIOUS
<1>1. CASE UNCHANGED vars
      BY <1>1 DEF vars, Accounted, LogClear, OwnFile, AtPath, Mine, Stored, Contents, FileAt
<1>2. CASE Next
  <2>1. PICK r \in Runs : Step(r) \/ Crash(r)
        BY <1>2 DEF Next
  <2>2. Proper(r)
        BY <1>2, <2>1, StepProper DEF Next
  <2>3. Accounts(r)
        BY <2>1, StepAccounts
  <2>4. \A q \in Runs \ {r} : OwnFile(q)' /\ AtPath(q)'
        BY <2>2, <2>3, OthersAccounted DEF Accounts
  <2> QED BY <2>3, <2>4 DEF Accounted, Accounts, Frame
<1> QED BY <1>1, <1>2

-----------------------------------------------------------------------------
(* The theorems. *)

\* Every file, log and run is of its type in every reachable state.
THEOREM TypeCorrect == Spec => []TypeOK
BY PlacedInvariant, PTL

\* Nobody removes, replaces or empties the store at the path, even on a disk that fails.
THEOREM StoreNeverShrinks == Spec => StoreOnlyGrows
<1>1. TypeOK /\ AllPlaced /\ [Next]_vars =>
         [(dest \in Files) => (dest' = dest /\ Stored \subseteq Stored')]_vars
  <2> SUFFICES ASSUME TypeOK, AllPlaced, Next, dest \in Files
               PROVE  dest' = dest /\ Stored \subseteq Stored'
      OBVIOUS
  <2>1. PICK r \in Runs : Step(r) \/ Crash(r)
        BY DEF Next
  <2>2. NothingLost(r)
        BY <2>1, StepProper DEF Next, Proper
  <2> QED BY <2>2 DEF NothingLost, Stored, Contents, FileAt
<1> QED BY <1>1, PlacedInvariant, PTL DEF Spec, StoreOnlyGrows

\* A run that says it recorded its artifacts left them all in the store at the path, when the
\* disk takes every write: whatever other runs did, and wherever they died.
THEOREM ReportsAreDurable == Spec => []ClaimsDurable
<1>1. IInv => ClaimsDurable
      BY DEF IInv, AllKept, Kept, ClaimsDurable, ReportedIsStored
<1> QED BY <1>1, Invariant, PTL

\* A store that appeared at the path holds everything its run was given.
THEOREM PublishedIsWhole == Spec => []PublishedWhole
<1>1. IInv => PublishedWhole
  <2> SUFFICES ASSUME IInv, ~diskFails, dest \in Runs
               PROVE  Brings[dest] \subseteq Recorded(Stored)
      BY DEF PublishedWhole
  <2>1. Brings[dest] \subseteq Recorded(main[dest])
        BY DEF IInv, AllKept, Whole
  <2>2. main[dest] \subseteq Stored
        BY Distinct DEF Stored, Contents, FileAt
  <2> QED BY <2>1, <2>2, RecordedGrows
<1> QED BY <1>1, Invariant, PTL

\* What a run recorded shows at the path all together or not at all, and never once the run
\* has failed: no assumption on the disk.
THEOREM NothingHalfRecorded == Spec => []RunsAllOrNothing
<1>1. Accounted => RunsAllOrNothing
      BY DEF Accounted, AtPath, Mine, RunsAllOrNothing
<1> QED BY <1>1, InitPlaced, NextPlaced, InitAccounted, NextAccounted, PTL DEF Spec

-----------------------------------------------------------------------------
(* Report outputs: what a command met, kept and left at its destinations.  *)


Order == 1..Len(Targets)

Empty == [d \in Places |-> Missing]

\* A run's own report is at a destination, or was there when an active run met it.
Shows(w, d) ==
    file[d] = w \/ \E v \in Commands : doing[v] \in Active /\ met[v][d] = w

Alone == \A v, w \in Commands : doing[v] \in Active /\ doing[w] \in Active => v = w

\* Where a run's own report may still be met, what it replaced is kept and named.
Safe(w) ==
    \A d \in Places :
        /\ met[w][d] # w
        /\ Shows(w, d) /\ doing[w] # "written" =>
              /\ keeper[w][d] = met[w][d]
              /\ doing[w] = "mixed" => d \in stranded[w]

Unpublished(w) ==
    doing[w] \in {"idle", "stage", "preserve"} =>
        /\ published[w] = 0 /\ stranded[w] = {}
        /\ \A d \in Places : ~Shows(w, d)

Staging(w) == doing[w] \in {"idle", "stage"} => keeper[w] = Empty /\ met[w] = Empty

Preserving(w) ==
    doing[w] = "preserve" => \A i \in Order :
        i < next[w] => /\ keeper[w][Targets[i]] = file[Targets[i]]
                       /\ met[w][Targets[i]] = file[Targets[i]]

Replacing(w) ==
    doing[w] = "replace" =>
        /\ published[w] = next[w] - 1 /\ stranded[w] = {}
        /\ staged[w] \subseteq {Targets[i] : i \in next[w]..Len(Targets)}
        /\ \A i \in Order :
              /\ keeper[w][Targets[i]] = met[w][Targets[i]]
              /\ IF i < next[w] THEN file[Targets[i]] = w
                                ELSE file[Targets[i]] = met[w][Targets[i]]

Restoring(w) ==
    doing[w] = "restore" =>
        /\ next[w] <= published[w] + 1
        /\ \A i \in Order :
              /\ Targets[i] \in stranded[w] => i < next[w]
              /\ i >= next[w] \/ Targets[i] \in stranded[w] => keeper[w][Targets[i]] = met[w][Targets[i]]
              /\ i > published[w] \/ (i < next[w] /\ Targets[i] \notin stranded[w])
                    => file[Targets[i]] = met[w][Targets[i]]

Over(w) == doing[w] \in {"written", "failed"} => staged[w] = {} /\ keeper[w] = Empty

RunInv(w) ==
    /\ Safe(w) /\ Unpublished(w) /\ Staging(w) /\ Preserving(w)
    /\ Replacing(w) /\ Restoring(w) /\ Over(w)

OutputIInv == OutputTypeOK /\ Alone /\ \A w \in Commands : RunInv(w)

-----------------------------------------------------------------------------
(* Facts every step uses. *)

LEMMA Indices ==
    /\ Len(Targets) \in Nat /\ Len(Targets) > 0 /\ DOMAIN Targets = Order
    /\ \A i \in Order : Targets[i] \in Places
    /\ \A d \in Places : \E i \in Order : d = Targets[i]
    /\ \A i, j \in Order : Targets[i] = Targets[j] => i = j
<1> DEFINE P == {Targets[i] : i \in DOMAIN Targets}
<1>1. Targets \in Seq(P) /\ Targets # <<>>
      BY OutputAssumption
<1>2. Len(Targets) \in Nat /\ Len(Targets) > 0 /\ DOMAIN Targets = 1..Len(Targets)
      BY <1>1
<1> QED BY <1>2, OutputAssumption DEF Order, Places

\* Of the runs that do not move, nothing changes but what the moving one writes to the files.
Apart(w) ==
    \A v \in Commands \ {w} :
        /\ doing'[v] = doing[v] /\ staged'[v] = staged[v] /\ keeper'[v] = keeper[v]
        /\ next'[v] = next[v] /\ published'[v] = published[v]
        /\ stranded'[v] = stranded[v] /\ met'[v] = met[v]

\* No report reappears at a destination but the moving run's.
NoneReturns(w) == \A v \in Commands \ {w}, d \in Places : Shows(v, d)' => Shows(v, d)

LEMMA OthersKeep ==
    ASSUME NEW w \in Commands, Apart(w), NoneReturns(w), doing[w] \in Active \/ UNCHANGED file,
           Alone, NEW v \in Commands \ {w}, RunInv(v)
    PROVE  RunInv(v)'
<1>1. Safe(v)'
      BY DEF Apart, NoneReturns, RunInv, Safe
<1>2. Unpublished(v)'
      BY DEF Apart, NoneReturns, RunInv, Unpublished
<1>3. Staging(v)' /\ Over(v)'
      BY DEF Apart, RunInv, Staging, Over, Empty, Places
<1>4. doing[v] \in {"preserve", "replace", "restore"} => UNCHANGED file
      BY DEF Alone, Active
<1>5. Preserving(v)'
      BY <1>4 DEF Apart, RunInv, Preserving
<1>6. Replacing(v)'
      BY <1>4 DEF Apart, RunInv, Replacing
<1>7. Restoring(v)'
      BY <1>4 DEF Apart, RunInv, Restoring
<1> QED BY <1>1, <1>2, <1>3, <1>5, <1>6, <1>7 DEF RunInv

\* What each step of a run keeps.
OutputProper(w) ==
    /\ OutputTypeOK' /\ Apart(w) /\ NoneReturns(w) /\ RunInv(w)'
    /\ doing'[w] \in Active => doing[w] \in Active \/ \A v \in Commands : doing[v] \notin Active

LEMMA NothingMoved ==
    ASSUME OutputTypeOK, NEW w \in Commands, Apart(w), UNCHANGED <<file, met>>,
           doing[w] \in Active \/ met[w] = Empty, doing[w] # "idle" => doing[w] \in Active
    PROVE  /\ NoneReturns(w)
           /\ \A d \in Places : Shows(w, d)' => Shows(w, d)
<1>1. ASSUME NEW v \in Commands, NEW d \in Places, Shows(v, d)'
      PROVE  Shows(v, d)
  <2>1. CASE file[d] = v
        BY <2>1 DEF Shows
  <2>2. CASE \E u \in Commands : doing'[u] \in Active /\ met[u][d] = v
    <3>1. PICK u \in Commands : doing'[u] \in Active /\ met[u][d] = v
          BY <2>2
    <3>2. u # w => doing[u] \in Active
          BY <3>1 DEF Apart
    <3>3. CASE u = w /\ met[w] = Empty
          BY <3>1, <3>3, OutputAssumption DEF Empty
    <3> QED BY <3>1, <3>2, <3>3 DEF Shows
  <2> QED BY <1>1, <2>1, <2>2 DEF Shows
<1> QED BY <1>1 DEF NoneReturns

\* A run that is not done with its targets is at one of them.
LEMMA AtTarget ==
    ASSUME OutputTypeOK, NEW w \in Commands, doing[w] \in {"stage", "preserve", "replace"}
    PROVE  next[w] \in Order /\ At(w) \in Places /\ At(w) = Targets[next[w]]
<1>1. next[w] \in 1..Len(Targets) + 1 /\ ~(next[w] > Len(Targets)) /\ Len(Targets) \in Nat
      BY Indices DEF OutputTypeOK, Finished
<1>2. next[w] \in Order
      BY <1>1 DEF Order
<1> QED BY <1>2, Indices DEF At

LEMMA AdvanceTyped ==
    ASSUME OutputTypeOK, NEW w \in Commands, NEW phase \in OutputPhases, Advance(w, phase),
           doing[w] \in {"stage", "preserve", "replace"}
    PROVE  /\ next' \in [Commands -> 1..Len(Targets) + 1] /\ next'[w] \in Order
           /\ doing' \in [Commands -> OutputPhases]
           /\ \A v \in Commands \ {w} : doing'[v] = doing[v] /\ next'[v] = next[v]
           /\ IF next[w] < Len(Targets)
              THEN next'[w] = next[w] + 1 /\ doing'[w] = doing[w]
              ELSE next[w] = Len(Targets) /\ next'[w] = 1 /\ doing'[w] = phase
<1>1. next[w] \in Order /\ Len(Targets) \in Nat /\ Len(Targets) > 0
      BY AtTarget, Indices
<1>2. doing \in [Commands -> OutputPhases] /\ next \in [Commands -> 1..Len(Targets) + 1]
      BY DEF OutputTypeOK
<1> QED BY <1>1, <1>2 DEF Advance, OutputGoto, Order

LEMMA BeginProper ==
    ASSUME OutputIInv, ~Overlap, NEW w \in Commands, Begin(w)
    PROVE  OutputProper(w)
<1>1. OutputTypeOK'
      BY DEF OutputIInv, OutputTypeOK, Begin, OutputGoto, OutputPhases, Active, Finished
<1>2. Apart(w) /\ doing[w] = "idle" /\ doing'[w] = "stage"
      BY DEF OutputIInv, OutputTypeOK, Begin, OutputGoto, Apart
<1>3. NoneReturns(w) /\ \A d \in Places : Shows(w, d)' => Shows(w, d)
      BY <1>2, NothingMoved DEF OutputIInv, RunInv, Staging, Begin
<1>4. Safe(w)' /\ Unpublished(w)'
      BY <1>2, <1>3 DEF OutputIInv, RunInv, Safe, Unpublished, Begin
<1>5. Staging(w)' /\ Preserving(w)' /\ Replacing(w)' /\ Restoring(w)' /\ Over(w)'
      BY <1>2 DEF OutputIInv, RunInv, Staging, Preserving, Replacing, Restoring, Over, Begin, Empty
<1> QED BY <1>1, <1>2, <1>3, <1>4, <1>5 DEF OutputProper, RunInv, Begin

LEMMA StageProper ==
    ASSUME OutputIInv, NEW w \in Commands, Stage(w)
    PROVE  OutputProper(w)
<1>1. OutputTypeOK'
  <2>1. At(w) \in Places
        BY AtTarget DEF OutputIInv, Stage
  <2>2. /\ next' \in [Commands -> 1..Len(Targets) + 1] /\ next'[w] \in Order
        /\ doing' \in [Commands -> OutputPhases]
        /\ \A v \in Commands \ {w} : doing'[v] = doing[v] /\ next'[v] = next[v]
        BY AdvanceTyped DEF OutputIInv, Stage, OutputPhases, Active
  <2>3. \A v \in Commands : next'[v] > Len(Targets) => doing'[v] \in {"restore"} \cup Finished
    <3>1. \A v \in Commands \ {w} : next'[v] > Len(Targets) => doing'[v] \in {"restore"} \cup Finished
          BY <2>2 DEF OutputIInv, OutputTypeOK
    <3>2. ~(next'[w] > Len(Targets))
          BY <2>2, Indices DEF Order
    <3> QED BY <3>1, <3>2
  <2> QED BY <2>1, <2>2, <2>3 DEF OutputIInv, OutputTypeOK, Stage
<1>2. Apart(w) /\ doing[w] = "stage" /\ doing'[w] \in {"stage", "preserve"}
      BY DEF OutputIInv, OutputTypeOK, Stage, Advance, OutputGoto, Apart
<1>3. NoneReturns(w) /\ \A d \in Places : Shows(w, d)' => Shows(w, d)
      BY <1>2, NothingMoved DEF OutputIInv, Stage, Active
<1>4. Safe(w)' /\ Unpublished(w)'
      BY <1>2, <1>3 DEF OutputIInv, RunInv, Safe, Unpublished, Stage
<1>5. doing'[w] = "preserve" => next'[w] = 1
      BY <1>2 DEF OutputIInv, OutputTypeOK, Stage, Advance, OutputGoto
<1>6. Staging(w)' /\ Preserving(w)' /\ Replacing(w)' /\ Restoring(w)' /\ Over(w)'
      BY <1>2, <1>5 DEF OutputIInv, RunInv, Staging, Preserving, Replacing, Restoring, Over, Stage,
                        Empty, Order
<1> QED BY <1>1, <1>2, <1>3, <1>4, <1>6 DEF OutputProper, RunInv, Active

LEMMA StageFailsProper ==
    ASSUME OutputIInv, NEW w \in Commands, StageFails(w)
    PROVE  OutputProper(w)
<1>1. OutputTypeOK'
      BY DEF OutputIInv, OutputTypeOK, StageFails, NoTemporaries, OutputGoto, OutputPhases, Active, Finished
<1>2. Apart(w) /\ doing[w] = "stage" /\ doing'[w] = "failed" /\ staged'[w] = {}
      BY DEF OutputIInv, OutputTypeOK, StageFails, NoTemporaries, OutputGoto, Apart
<1>3. NoneReturns(w) /\ \A d \in Places : Shows(w, d)' => Shows(w, d)
      BY <1>2, NothingMoved DEF OutputIInv, StageFails, Active
<1>4. Safe(w)' /\ Unpublished(w)'
      BY <1>2, <1>3 DEF OutputIInv, RunInv, Safe, Unpublished, StageFails
<1>5. Staging(w)' /\ Preserving(w)' /\ Replacing(w)' /\ Restoring(w)' /\ Over(w)'
      BY <1>2 DEF OutputIInv, RunInv, Staging, Preserving, Replacing, Restoring, Over, StageFails, Empty
<1> QED BY <1>1, <1>2, <1>3, <1>4, <1>5 DEF OutputProper, RunInv, Active

LEMMA PreserveFailsProper ==
    ASSUME OutputIInv, NEW w \in Commands, PreserveFails(w)
    PROVE  OutputProper(w)
<1>1. OutputTypeOK'
      BY DEF OutputIInv, OutputTypeOK, PreserveFails, NoTemporaries, NoKeepers, OutputGoto, OutputPhases, Active, Finished
<1>2. Apart(w) /\ doing[w] = "preserve" /\ doing'[w] = "failed" /\ staged'[w] = {} /\ keeper'[w] = Empty
      BY DEF OutputIInv, OutputTypeOK, PreserveFails, NoTemporaries, NoKeepers, OutputGoto, Apart, Empty
<1>3. NoneReturns(w) /\ \A d \in Places : Shows(w, d)' => Shows(w, d)
      BY <1>2, NothingMoved DEF OutputIInv, PreserveFails, Active
<1>4. Safe(w)' /\ Unpublished(w)'
      BY <1>2, <1>3 DEF OutputIInv, RunInv, Safe, Unpublished, PreserveFails
<1>5. Staging(w)' /\ Preserving(w)' /\ Replacing(w)' /\ Restoring(w)' /\ Over(w)'
      BY <1>2 DEF OutputIInv, RunInv, Staging, Preserving, Replacing, Restoring, Over, PreserveFails, Empty
<1> QED BY <1>1, <1>2, <1>3, <1>4, <1>5 DEF OutputProper, RunInv, Active

LEMMA OutputCrashProper ==
    ASSUME OutputIInv, NEW w \in Commands, OutputCrash(w)
    PROVE  OutputProper(w)
<1>1. OutputTypeOK'
      BY DEF OutputIInv, OutputTypeOK, OutputCrash, OutputGoto, OutputPhases, Active, Finished
<1>2. Apart(w) /\ doing[w] \in Active /\ doing'[w] = "crashed"
      BY DEF OutputIInv, OutputTypeOK, OutputCrash, OutputGoto, Apart
<1>3. NoneReturns(w) /\ \A d \in Places : Shows(w, d)' => Shows(w, d)
      BY <1>2, NothingMoved DEF OutputIInv, OutputCrash
<1>4. Safe(w)' /\ Unpublished(w)'
      BY <1>2, <1>3 DEF OutputIInv, RunInv, Safe, Unpublished, OutputCrash, Active
<1>5. Staging(w)' /\ Preserving(w)' /\ Replacing(w)' /\ Restoring(w)' /\ Over(w)'
      BY <1>2 DEF Staging, Preserving, Replacing, Restoring, Over
<1> QED BY <1>1, <1>2, <1>3, <1>4, <1>5 DEF OutputProper, RunInv

LEMMA PreserveProper ==
    ASSUME OutputIInv, NEW w \in Commands, Preserve(w)
    PROVE  OutputProper(w)
<1> DEFINE t == At(w)
<1>1. /\ next[w] \in Order /\ t \in Places /\ t = Targets[next[w]]
      /\ \A i \in Order : i # next[w] => Targets[i] # t
      BY AtTarget, Indices DEF OutputIInv, Preserve
<1>2. /\ next' \in [Commands -> 1..Len(Targets) + 1] /\ next'[w] \in Order
      /\ doing' \in [Commands -> OutputPhases]
      /\ \A v \in Commands \ {w} : doing'[v] = doing[v] /\ next'[v] = next[v]
      /\ IF next[w] < Len(Targets)
         THEN next'[w] = next[w] + 1 /\ doing'[w] = doing[w]
         ELSE next[w] = Len(Targets) /\ next'[w] = 1 /\ doing'[w] = "replace"
      BY AdvanceTyped DEF OutputIInv, Preserve, OutputPhases, Active
<1>3. /\ keeper'[w] = [keeper[w] EXCEPT ![t] = file[t]]
      /\ met'[w] = [met[w] EXCEPT ![t] = file[t]]
      /\ \A v \in Commands \ {w} : keeper'[v] = keeper[v] /\ met'[v] = met[v]
      /\ keeper[w] \in [Places -> Reports \cup {Missing}]
      /\ met[w] \in [Places -> Reports \cup {Missing}]
      /\ file[t] \in Reports \cup {Missing}
      /\ UNCHANGED <<file, staged, published, stranded>> /\ doing[w] = "preserve"
      BY <1>1 DEF OutputIInv, OutputTypeOK, Preserve
<1>4. keeper'[w][t] = file[t] /\ met'[w][t] = file[t]
      BY <1>1, <1>3
<1>5. \A d \in Places \ {t} : keeper'[w][d] = keeper[w][d] /\ met'[w][d] = met[w][d]
      BY <1>1, <1>3
<1>6. OutputTypeOK'
  <2>1. keeper' \in [Commands -> [Places -> Reports \cup {Missing}]]
        BY <1>1, <1>3 DEF OutputIInv, OutputTypeOK, Preserve
  <2>2. met' \in [Commands -> [Places -> Reports \cup {Missing}]]
        BY <1>1, <1>3 DEF OutputIInv, OutputTypeOK, Preserve
  <2>3. \A v \in Commands : next'[v] > Len(Targets) => doing'[v] \in {"restore"} \cup Finished
    <3>1. \A v \in Commands \ {w} : next'[v] > Len(Targets) => doing'[v] \in {"restore"} \cup Finished
          BY <1>2 DEF OutputIInv, OutputTypeOK
    <3>2. ~(next'[w] > Len(Targets))
          BY <1>2, Indices DEF Order
    <3> QED BY <3>1, <3>2
  <2> QED BY <1>2, <1>3, <2>1, <2>2, <2>3 DEF OutputIInv, OutputTypeOK
<1>7. Apart(w)
      BY <1>2, <1>3 DEF Apart
<1>8. ASSUME NEW v \in Commands, NEW d \in Places, Shows(v, d)'
      PROVE  Shows(v, d)
  <2>1. CASE file[d] = v
        BY <2>1 DEF Shows
  <2>2. CASE \E u \in Commands : doing'[u] \in Active /\ met'[u][d] = v
    <3>1. PICK u \in Commands : doing'[u] \in Active /\ met'[u][d] = v
          BY <2>2
    <3>2. CASE u = w /\ d = t
          BY <1>4, <3>1, <3>2 DEF Shows
    <3>3. CASE u = w /\ d # t
          BY <1>3, <1>5, <3>1, <3>3 DEF Shows, Active
    <3>4. CASE u # w
          BY <1>2, <1>3, <3>1, <3>4 DEF Shows
    <3> QED BY <3>2, <3>3, <3>4
  <2> QED BY <1>3, <1>8, <2>1, <2>2 DEF Shows
<1>9. NoneReturns(w)
      BY <1>8 DEF NoneReturns
<1>10. /\ published[w] = 0 /\ stranded[w] = {} /\ \A d \in Places : ~Shows(w, d)
       BY <1>3 DEF OutputIInv, RunInv, Unpublished
<1>11. Safe(w)' /\ Unpublished(w)'
  <2>1. \A d \in Places : ~Shows(w, d)'
        BY <1>8, <1>10
  <2>2. \A d \in Places : met'[w][d] # w
        BY <1>3, <1>4, <1>5, <1>10 DEF OutputIInv, RunInv, Safe, Shows
  <2> QED BY <1>3, <1>10, <2>1, <2>2 DEF Safe, Unpublished
<1>12. \A i \in Order : i <= next[w] =>
          /\ keeper'[w][Targets[i]] = file[Targets[i]]
          /\ met'[w][Targets[i]] = file[Targets[i]]
  <2>1. TAKE i \in Order
  <2>2. CASE i = next[w]
        BY <1>1, <1>4, <2>2
  <2>3. CASE i # next[w]
    <3>1. i <= next[w] => i < next[w]
          BY <1>1, <2>3 DEF Order
    <3> QED BY <1>1, <1>3, <1>5, <2>3, <3>1, Indices DEF OutputIInv, RunInv, Preserving
  <2> QED BY <2>2, <2>3
<1>13. Preserving(w)'
  <2>1. next[w] < Len(Targets) => \A i \in Order : i < next'[w] => i <= next[w]
        BY <1>1, <1>2 DEF Order
  <2> QED BY <1>2, <1>3, <1>12, <2>1 DEF Preserving
<1>14. Replacing(w)'
  <2>1. SUFFICES ASSUME doing'[w] = "replace" PROVE Replacing(w)'
        BY DEF Replacing
  <2>2. next[w] = Len(Targets) /\ next'[w] = 1
        BY <1>2, <1>3, <2>1
  <2>3. \A i \in Order : i <= next[w] /\ ~(i < next'[w])
        BY <2>2 DEF Order
  <2>4. staged[w] \subseteq {Targets[i] : i \in 1..Len(Targets)}
        BY Indices DEF OutputIInv, OutputTypeOK, Order
  <2>5. /\ published'[w] = next'[w] - 1 /\ stranded'[w] = {}
        /\ staged'[w] \subseteq {Targets[i] : i \in next'[w]..Len(Targets)}
        BY <1>3, <1>10, <2>2, <2>4
  <2>6. \A i \in Order :
           /\ keeper'[w][Targets[i]] = met'[w][Targets[i]]
           /\ IF i < next'[w] THEN file'[Targets[i]] = w
                              ELSE file'[Targets[i]] = met'[w][Targets[i]]
        BY <1>3, <1>12, <2>3
  <2> QED BY <2>5, <2>6 DEF Replacing
<1>15. Staging(w)' /\ Restoring(w)' /\ Over(w)'
       BY <1>2, <1>3 DEF Staging, Restoring, Over
<1> QED BY <1>3, <1>6, <1>7, <1>9, <1>11, <1>13, <1>14, <1>15 DEF OutputProper, RunInv, Active

LEMMA OwnReport ==
    ASSUME OutputIInv, NEW w \in Commands, doing[w] \in Active, NEW d \in Places
    PROVE  /\ Shows(w, d) <=> file[d] = w
           /\ met[w][d] # w
<1>1. met[w][d] # w
      BY DEF OutputIInv, RunInv, Safe
<1>2. \A v \in Commands : doing[v] \in Active => v = w
      BY DEF OutputIInv, Alone
<1> QED BY <1>1, <1>2 DEF Shows

LEMMA ReplaceProper ==
    ASSUME OutputIInv, NEW w \in Commands, Replace(w)
    PROVE  OutputProper(w)
<1> DEFINE t == At(w)
<1>1. /\ next[w] \in Order /\ t \in Places /\ t = Targets[next[w]]
      /\ \A i \in Order : i # next[w] => Targets[i] # t
      BY AtTarget, Indices DEF OutputIInv, Replace
<1>2. /\ next' \in [Commands -> 1..Len(Targets) + 1] /\ next'[w] \in Order
      /\ doing' \in [Commands -> OutputPhases]
      /\ \A v \in Commands \ {w} : doing'[v] = doing[v] /\ next'[v] = next[v]
      /\ IF next[w] < Len(Targets)
         THEN next'[w] = next[w] + 1 /\ doing'[w] = doing[w]
         ELSE next[w] = Len(Targets) /\ next'[w] = 1 /\ doing'[w] = "written"
      BY AdvanceTyped DEF OutputIInv, Replace, OutputPhases, Finished
<1>3. /\ file' = [file EXCEPT ![t] = w] /\ file'[t] = w
      /\ \A d \in Places \ {t} : file'[d] = file[d]
      /\ staged'[w] = staged[w] \ {t} /\ published'[w] = published[w] + 1
      /\ \A v \in Commands \ {w} : staged'[v] = staged[v] /\ published'[v] = published[v]
      /\ UNCHANGED <<stranded, met>> /\ doing[w] = "replace"
      BY <1>1 DEF OutputIInv, OutputTypeOK, Replace
<1>4. /\ doing'[w] = "written" => keeper'[w] = Empty
      /\ doing'[w] = "replace" => keeper'[w] = keeper[w]
      /\ \A v \in Commands \ {w} : keeper'[v] = keeper[v]
      /\ keeper' \in [Commands -> [Places -> Reports \cup {Missing}]]
  <2>1. CASE next[w] = Len(Targets)
    <3>1. keeper' = [keeper EXCEPT ![w] = Empty] /\ keeper \in [Commands -> [Places -> Reports \cup {Missing}]]
          BY <1>1, <2>1 DEF OutputIInv, OutputTypeOK, Replace, NoKeepers, Empty
    <3>2. Empty \in [Places -> Reports \cup {Missing}]
          BY DEF Empty
    <3>3. doing'[w] = "written"
          BY <1>2, <2>1, Indices
    <3> QED BY <3>1, <3>2, <3>3
  <2>2. CASE next[w] # Len(Targets)
        BY <1>2, <1>3, <2>2 DEF OutputIInv, OutputTypeOK, Replace
  <2> QED BY <2>1, <2>2
<1>5. /\ published[w] = next[w] - 1 /\ stranded[w] = {}
      /\ staged[w] \subseteq {Targets[i] : i \in next[w]..Len(Targets)}
      /\ \A i \in Order :
            /\ keeper[w][Targets[i]] = met[w][Targets[i]]
            /\ IF i < next[w] THEN file[Targets[i]] = w
                              ELSE file[Targets[i]] = met[w][Targets[i]]
      BY <1>3 DEF OutputIInv, RunInv, Replacing
<1>6. OutputTypeOK'
  <2>1. file' \in [Places -> Reports \cup {Missing}]
        BY <1>1, <1>3 DEF OutputIInv, OutputTypeOK, Reports
  <2>2. staged' \in [Commands -> SUBSET Places]
        BY DEF OutputIInv, OutputTypeOK, Replace
  <2>3. \A v \in Commands : next'[v] > Len(Targets) => doing'[v] \in {"restore"} \cup Finished
    <3>1. \A v \in Commands \ {w} : next'[v] > Len(Targets) => doing'[v] \in {"restore"} \cup Finished
          BY <1>2 DEF OutputIInv, OutputTypeOK
    <3>2. ~(next'[w] > Len(Targets))
          BY <1>2, Indices DEF Order
    <3> QED BY <3>1, <3>2
  <2>4. published'[w] \in 0..Len(Targets)
        BY <1>1, <1>3, <1>5, Indices DEF Order
  <2>5. published' \in [Commands -> 0..Len(Targets)]
        BY <2>4 DEF OutputIInv, OutputTypeOK, Replace
  <2> QED BY <1>2, <1>3, <1>4, <2>1, <2>2, <2>3, <2>5 DEF OutputIInv, OutputTypeOK
<1>7. Apart(w)
      BY <1>2, <1>3, <1>4 DEF Apart
<1>8. NoneReturns(w)
  <2>1. SUFFICES ASSUME NEW v \in Commands \ {w}, NEW d \in Places, Shows(v, d)'
                 PROVE  Shows(v, d)
        BY DEF NoneReturns
  <2>2. CASE file'[d] = v
        BY <1>3, <2>2 DEF Shows
  <2>3. CASE \E u \in Commands : doing'[u] \in Active /\ met'[u][d] = v
    <3>1. PICK u \in Commands : doing'[u] \in Active /\ met[u][d] = v
          BY <1>3, <2>3
    <3>2. doing[u] \in Active
          BY <1>2, <1>3, <3>1 DEF Active
    <3> QED BY <3>1, <3>2 DEF Shows
  <2> QED BY <2>1, <2>2, <2>3 DEF Shows
<1>9. Safe(w)'
  <2>1. \A d \in Places : met'[w][d] # w
        BY <1>3, OwnReport DEF Active
  <2>2. doing'[w] = "replace" => \A d \in Places : keeper'[w][d] = met'[w][d]
        BY <1>3, <1>4, <1>5, Indices
  <2> QED BY <1>2, <1>3, <2>1, <2>2 DEF Safe
<1>10. Replacing(w)'
  <2>1. SUFFICES ASSUME doing'[w] = "replace" PROVE Replacing(w)'
        BY DEF Replacing
  <2>2. next'[w] = next[w] + 1 /\ next[w] \in Nat
        BY <1>1, <1>2, <2>1 DEF Order
  <2>3. published'[w] = next'[w] - 1 /\ stranded'[w] = {}
        BY <1>3, <1>5, <2>2
  <2>4. staged'[w] \subseteq {Targets[i] : i \in next'[w]..Len(Targets)}
    <3>1. SUFFICES ASSUME NEW d \in staged[w], d # t
                   PROVE  \E i \in next'[w]..Len(Targets) : d = Targets[i]
          BY <1>3
    <3>2. PICK i \in next[w]..Len(Targets) : d = Targets[i]
          BY <1>5
    <3>3. i # next[w]
          BY <1>1, <3>1, <3>2
    <3>4. i \in next'[w]..Len(Targets)
          BY <1>1, <2>2, <3>3, Indices DEF Order
    <3> QED BY <3>2, <3>4
  <2>5. ASSUME NEW i \in Order
        PROVE  /\ keeper'[w][Targets[i]] = met'[w][Targets[i]]
               /\ IF i < next'[w] THEN file'[Targets[i]] = w
                                  ELSE file'[Targets[i]] = met'[w][Targets[i]]
    <3>1. keeper'[w][Targets[i]] = met'[w][Targets[i]]
          BY <1>3, <1>4, <1>5, <2>1
    <3>2. CASE i = next[w]
          BY <1>1, <1>3, <2>2, <3>1, <3>2
    <3>3. CASE i # next[w]
      <4>1. i < next'[w] <=> i < next[w]
            BY <2>2, <3>3 DEF Order
      <4>2. file'[Targets[i]] = file[Targets[i]]
            BY <1>1, <1>3, <3>3, Indices
      <4> QED BY <1>3, <1>5, <3>1, <4>1, <4>2
    <3> QED BY <3>2, <3>3
  <2> QED BY <2>3, <2>4, <2>5 DEF Replacing
<1>11. Over(w)'
  <2>1. SUFFICES ASSUME doing'[w] = "written" PROVE staged'[w] = {}
        BY <1>2, <1>3, <1>4 DEF Over
  <2>2. next[w] = Len(Targets)
        BY <1>2, <1>3, <2>1
  <2>3. \A i \in next[w]..Len(Targets) : i = next[w]
        BY <2>2, Indices
  <2>4. staged[w] \subseteq {t}
        BY <1>1, <1>5, <2>3
  <2> QED BY <1>3, <2>4
<1>12. Unpublished(w)' /\ Staging(w)' /\ Preserving(w)' /\ Restoring(w)'
       BY <1>2, <1>3 DEF Unpublished, Staging, Preserving, Restoring
<1> QED BY <1>3, <1>6, <1>7, <1>8, <1>9, <1>10, <1>11, <1>12 DEF OutputProper, RunInv, Active

LEMMA ReplaceFailsProper ==
    ASSUME OutputIInv, NEW w \in Commands, ReplaceFails(w)
    PROVE  OutputProper(w)
<1>1. /\ doing[w] = "replace" /\ doing'[w] = "restore" /\ next'[w] = 1
      /\ \A v \in Commands \ {w} : doing'[v] = doing[v] /\ next'[v] = next[v]
      /\ UNCHANGED <<file, staged, keeper, published, stranded, met>>
      BY DEF OutputIInv, OutputTypeOK, ReplaceFails, OutputGoto
<1>2. OutputTypeOK'
      BY Indices DEF OutputIInv, OutputTypeOK, ReplaceFails, OutputGoto, OutputPhases, Active
<1>3. Apart(w)
      BY <1>1 DEF Apart
<1>4. NoneReturns(w) /\ \A d \in Places : Shows(w, d)' => Shows(w, d)
      BY <1>1, <1>3, NothingMoved DEF OutputIInv, Active
<1>5. Safe(w)'
      BY <1>1, <1>4 DEF OutputIInv, RunInv, Safe
<1>6. Restoring(w)'
  <2>1. /\ published[w] = next[w] - 1 /\ stranded[w] = {} /\ published[w] \in Nat
        /\ \A i \in Order :
              /\ keeper[w][Targets[i]] = met[w][Targets[i]]
              /\ IF i < next[w] THEN file[Targets[i]] = w
                                ELSE file[Targets[i]] = met[w][Targets[i]]
        BY <1>1 DEF OutputIInv, OutputTypeOK, RunInv, Replacing
  <2>2. next[w] \in Order
        BY <1>1, AtTarget DEF OutputIInv
  <2>3. \A i \in Order : (i > published[w] => ~(i < next[w])) /\ ~(i < 1)
        BY <2>1, <2>2 DEF Order
  <2>4. next'[w] <= published'[w] + 1
        BY <1>1, <2>1
  <2> QED BY <1>1, <2>1, <2>3, <2>4 DEF Restoring
<1>7. Unpublished(w)' /\ Staging(w)' /\ Preserving(w)' /\ Replacing(w)' /\ Over(w)'
      BY <1>1 DEF Unpublished, Staging, Preserving, Replacing, Over
<1> QED BY <1>1, <1>2, <1>3, <1>4, <1>5, <1>6, <1>7 DEF OutputProper, RunInv, Active

LEMMA RestoreProper ==
    ASSUME OutputIInv, NEW w \in Commands, Restore(w)
    PROVE  OutputProper(w)
<1> DEFINE t == At(w)
<1>1. /\ doing[w] = "restore" /\ next[w] <= published[w]
      /\ next[w] \in Nat \ {0} /\ published[w] \in 0..Len(Targets)
      BY DEF OutputIInv, OutputTypeOK, Restore
<1>2. /\ next[w] \in Order /\ t \in Places /\ t = Targets[next[w]]
      /\ \A i \in Order : i # next[w] => Targets[i] # t
  <2>1. next[w] \in Order
        BY <1>1, Indices DEF Order
  <2> QED BY <2>1, Indices DEF At
<1>3. \A i \in Order :
         /\ Targets[i] \in stranded[w] => i < next[w]
         /\ i >= next[w] \/ Targets[i] \in stranded[w] => keeper[w][Targets[i]] = met[w][Targets[i]]
         /\ i > published[w] \/ (i < next[w] /\ Targets[i] \notin stranded[w])
               => file[Targets[i]] = met[w][Targets[i]]
      BY <1>1 DEF OutputIInv, RunInv, Restoring
<1>4. keeper[w][t] = met[w][t] /\ t \notin stranded[w]
      BY <1>2, <1>3 DEF Order
<1>5. /\ next' = [next EXCEPT ![w] = next[w] + 1]
      /\ UNCHANGED <<staged, doing, published, met>>
      BY DEF OutputIInv, OutputTypeOK, Restore
<1>6. \/ /\ file' = [file EXCEPT ![t] = met[w][t]]
         /\ keeper' = [keeper EXCEPT ![w] = [@ EXCEPT ![t] = Missing]]
         /\ UNCHANGED stranded
      \/ /\ stranded' = [stranded EXCEPT ![w] = stranded[w] \cup {t}]
         /\ UNCHANGED <<file, keeper>>
      BY <1>4 DEF OutputIInv, OutputTypeOK, Restore
<1>7. /\ \A v \in Commands \ {w} : keeper'[v] = keeper[v] /\ stranded'[v] = stranded[v] /\ next'[v] = next[v]
      /\ \A d \in Places \ {t} : /\ file'[d] = file[d] /\ keeper'[w][d] = keeper[w][d]
                                 /\ d \in stranded'[w] <=> d \in stranded[w]
      /\ \/ file'[t] = met[w][t] /\ t \notin stranded'[w]
         \/ t \in stranded'[w] /\ file'[t] = file[t] /\ keeper'[w][t] = keeper[w][t]
      /\ next'[w] = next[w] + 1
  <2>1. CASE /\ file' = [file EXCEPT ![t] = met[w][t]]
             /\ keeper' = [keeper EXCEPT ![w] = [@ EXCEPT ![t] = Missing]]
             /\ UNCHANGED stranded
        BY <1>2, <1>4, <1>5, <2>1 DEF OutputIInv, OutputTypeOK
  <2>2. CASE /\ stranded' = [stranded EXCEPT ![w] = stranded[w] \cup {t}]
             /\ UNCHANGED <<file, keeper>>
        BY <1>2, <1>5, <2>2 DEF OutputIInv, OutputTypeOK
  <2> QED BY <1>6, <2>1, <2>2
<1>8. OutputTypeOK'
  <2>1. /\ file' \in [Places -> Reports \cup {Missing}]
        /\ keeper' \in [Commands -> [Places -> Reports \cup {Missing}]]
        /\ stranded' \in [Commands -> SUBSET Places]
    <3>1. /\ file \in [Places -> Reports \cup {Missing}]
          /\ keeper \in [Commands -> [Places -> Reports \cup {Missing}]]
          /\ stranded \in [Commands -> SUBSET Places]
          /\ met[w][t] \in Reports \cup {Missing}
          BY <1>2 DEF OutputIInv, OutputTypeOK
    <3>2. CASE /\ file' = [file EXCEPT ![t] = met[w][t]]
               /\ keeper' = [keeper EXCEPT ![w] = [@ EXCEPT ![t] = Missing]]
               /\ UNCHANGED stranded
      <4>1. [keeper[w] EXCEPT ![t] = Missing] \in [Places -> Reports \cup {Missing}]
            BY <3>1
      <4> QED BY <3>1, <3>2, <4>1
    <3>3. CASE /\ stranded' = [stranded EXCEPT ![w] = stranded[w] \cup {t}]
               /\ UNCHANGED <<file, keeper>>
      <4>1. stranded[w] \cup {t} \in SUBSET Places
            BY <1>2, <3>1
      <4> QED BY <3>1, <3>3, <4>1
    <3> QED BY <1>6, <3>2, <3>3
  <2>4. next' \in [Commands -> 1..Len(Targets) + 1]
        BY <1>2, <1>5, Indices DEF OutputIInv, OutputTypeOK, Order
  <2>5. \A v \in Commands : next'[v] > Len(Targets) => doing'[v] \in {"restore"} \cup Finished
        BY <1>1, <1>5, <1>7 DEF OutputIInv, OutputTypeOK
  <2> QED BY <1>5, <2>1, <2>4, <2>5 DEF OutputIInv, OutputTypeOK
<1>9. Apart(w)
      BY <1>5, <1>7 DEF Apart
<1>10. NoneReturns(w)
  <2>1. SUFFICES ASSUME NEW v \in Commands \ {w}, NEW d \in Places, Shows(v, d)'
                 PROVE  Shows(v, d)
        BY DEF NoneReturns
  <2>2. CASE file'[d] = v /\ d = t
        BY <1>1, <1>7, <2>2 DEF Shows, Active
  <2>3. CASE file'[d] = v /\ d # t
        BY <1>7, <2>3 DEF Shows
  <2>4. CASE \E u \in Commands : doing'[u] \in Active /\ met'[u][d] = v
        BY <1>5, <2>4 DEF Shows
  <2> QED BY <2>1, <2>2, <2>3, <2>4 DEF Shows
<1>11. Safe(w)'
  <2>1. \A d \in Places : met'[w][d] # w
        BY <1>1, <1>5, OwnReport DEF Active
  <2>2. ASSUME NEW d \in Places, Shows(w, d)'
        PROVE  keeper'[w][d] = met'[w][d]
    <3>1. \A u \in Commands : doing'[u] \in Active => u = w
          BY <1>1, <1>5 DEF OutputIInv, Alone, Active
    <3>2. file'[d] = w
          BY <2>1, <2>2, <3>1 DEF Shows
    <3>3. CASE d = t
          BY <1>4, <1>5, <1>7, <2>1, <3>2, <3>3
    <3>4. CASE d # t
      <4>1. Shows(w, d)
            BY <1>7, <3>2, <3>4 DEF Shows
      <4> QED BY <1>1, <1>5, <1>7, <3>4, <4>1 DEF OutputIInv, RunInv, Safe
    <3> QED BY <3>3, <3>4
  <2> QED BY <1>1, <1>5, <2>1, <2>2 DEF Safe
<1>12. Restoring(w)'
  <2>1. next'[w] <= published'[w] + 1
        BY <1>1, <1>5, <1>7
  <2>2. ASSUME NEW i \in Order
        PROVE  /\ Targets[i] \in stranded'[w] => i < next'[w]
               /\ i >= next'[w] \/ Targets[i] \in stranded'[w]
                     => keeper'[w][Targets[i]] = met'[w][Targets[i]]
               /\ i > published'[w] \/ (i < next'[w] /\ Targets[i] \notin stranded'[w])
                     => file'[Targets[i]] = met'[w][Targets[i]]
    <3>1. CASE i = next[w]
      <4>1. Targets[i] = t /\ ~(i > published'[w]) /\ ~(i >= next'[w]) /\ i < next'[w]
            BY <1>1, <1>2, <1>5, <1>7, <3>1
      <4> QED BY <1>4, <1>5, <1>7, <4>1
    <3>2. CASE i # next[w]
      <4>1. i < next'[w] <=> i < next[w]
            BY <1>1, <1>7, <3>2 DEF Order
      <4>2. i >= next'[w] => i >= next[w]
            BY <1>1, <1>7 DEF Order
      <4>3. Targets[i] \in Places /\ Targets[i] # t
            BY <1>2, <3>2, Indices
      <4> QED BY <1>3, <1>5, <1>7, <4>1, <4>2, <4>3
    <3> QED BY <3>1, <3>2
  <2> QED BY <2>1, <2>2 DEF Restoring
<1>13. Unpublished(w)' /\ Staging(w)' /\ Preserving(w)' /\ Replacing(w)' /\ Over(w)'
       BY <1>1, <1>5 DEF Unpublished, Staging, Preserving, Replacing, Over
<1> QED BY <1>1, <1>5, <1>8, <1>9, <1>10, <1>11, <1>12, <1>13 DEF OutputProper, RunInv, Active

\* When a run gives up, a destination that still holds its report is a stranded one.
LEMMA LeftBehind ==
    ASSUME OutputIInv, NEW w \in Commands, GiveUp(w), NEW d \in Places
    PROVE  /\ file[d] = w => d \in stranded[w]
           /\ d \in stranded[w] => keeper[w][d] = met[w][d]
           /\ d \notin stranded[w] => file[d] = met[w][d]
<1>1. doing[w] = "restore" /\ next[w] > published[w]
      BY DEF GiveUp
<1>2. PICK i \in Order : d = Targets[i]
      BY Indices
<1>3. i > published[w] \/ i < next[w]
      BY <1>1 DEF OutputIInv, OutputTypeOK, Order
<1>4. /\ d \in stranded[w] => keeper[w][d] = met[w][d]
      /\ d \notin stranded[w] => file[d] = met[w][d]
      BY <1>1, <1>2, <1>3 DEF OutputIInv, RunInv, Restoring
<1> QED BY <1>1, <1>4, OwnReport DEF Active

LEMMA GiveUpProper ==
    ASSUME OutputIInv, NEW w \in Commands, GiveUp(w)
    PROVE  OutputProper(w)
<1>1. /\ doing[w] = "restore" /\ staged'[w] = {}
      /\ doing'[w] = (IF stranded[w] = {} THEN "failed" ELSE "mixed")
      /\ keeper'[w] = [d \in Places |-> IF d \in stranded[w] THEN keeper[w][d] ELSE Missing]
      /\ \A v \in Commands \ {w} : doing'[v] = doing[v] /\ staged'[v] = staged[v] /\ keeper'[v] = keeper[v]
      /\ UNCHANGED <<file, next, published, stranded, met>>
      BY DEF OutputIInv, OutputTypeOK, GiveUp, NoTemporaries, OutputGoto
<1>2. OutputTypeOK'
  <2>1. keeper' \in [Commands -> [Places -> Reports \cup {Missing}]]
    <3>1. keeper'[w] \in [Places -> Reports \cup {Missing}]
          BY <1>1 DEF OutputIInv, OutputTypeOK
    <3> QED BY <1>1, <3>1 DEF OutputIInv, OutputTypeOK, GiveUp
  <2>2. staged' \in [Commands -> SUBSET Places] /\ doing' \in [Commands -> OutputPhases]
        BY DEF OutputIInv, OutputTypeOK, GiveUp, NoTemporaries, OutputGoto, OutputPhases, Finished
  <2>3. \A v \in Commands : next'[v] > Len(Targets) => doing'[v] \in {"restore"} \cup Finished
        BY <1>1 DEF OutputIInv, OutputTypeOK, Finished
  <2> QED BY <1>1, <2>1, <2>2, <2>3 DEF OutputIInv, OutputTypeOK
<1>3. Apart(w)
      BY <1>1 DEF Apart
<1>4. NoneReturns(w) /\ \A d \in Places : Shows(w, d)' => Shows(w, d)
      BY <1>1, <1>3, NothingMoved DEF OutputIInv, Active
<1>5. Safe(w)'
  <2>1. \A d \in Places : Shows(w, d)' => d \in stranded[w] /\ keeper[w][d] = met[w][d]
        BY <1>1, <1>4, OwnReport, LeftBehind DEF Active
  <2>2. \A d \in Places : d \in stranded[w] => keeper'[w][d] = keeper[w][d]
        BY <1>1
  <2> QED BY <1>1, <2>1, <2>2, OwnReport DEF Safe, Active
<1>6. Over(w)'
  <2>1. stranded[w] = {} => keeper'[w] = Empty
        BY <1>1 DEF Empty
  <2> QED BY <1>1, <2>1 DEF Over
<1>7. Unpublished(w)' /\ Staging(w)' /\ Preserving(w)' /\ Replacing(w)' /\ Restoring(w)'
      BY <1>1 DEF Unpublished, Staging, Preserving, Replacing, Restoring
<1> QED BY <1>1, <1>2, <1>3, <1>4, <1>5, <1>6, <1>7 DEF OutputProper, RunInv, Active

-----------------------------------------------------------------------------
(* The invariant, and what follows from it. *)

LEMMA InitOK == OutputInit => OutputIInv
<1> SUFFICES ASSUME OutputInit PROVE OutputIInv
    OBVIOUS
<1>1. OutputTypeOK
      BY Indices DEF OutputInit, OutputTypeOK, Reports, OutputPhases
<1>2. \A w \in Commands : /\ doing[w] = "idle" /\ staged[w] = {} /\ keeper[w] = Empty /\ met[w] = Empty
                      /\ published[w] = 0 /\ stranded[w] = {}
      BY DEF OutputInit, Empty
<1>3. \A w \in Commands, d \in Places : ~Shows(w, d) /\ met[w][d] # w
      BY <1>2, OutputAssumption DEF OutputInit, Shows, Active, Empty
<1>4. \A w \in Commands : RunInv(w)
      BY <1>2, <1>3 DEF RunInv, Safe, Unpublished, Staging, Preserving, Replacing, Restoring, Over
<1> QED BY <1>1, <1>2, <1>4 DEF OutputIInv, Alone, Active

\* Every step is one run's, and a proper one.
LEMMA OutputStepProper ==
    ASSUME OutputIInv, ~Overlap, OutputNext
    PROVE  \E w \in Commands : (Begin(w) \/ OutputStep(w) \/ OutputCrash(w)) /\ OutputProper(w)
<1>1. PICK w \in Commands : Begin(w) \/ OutputStep(w) \/ OutputCrash(w)
      BY DEF OutputNext
<1>2. OutputProper(w)
      BY <1>1, BeginProper, StageProper, StageFailsProper, PreserveProper, PreserveFailsProper,
         ReplaceProper, ReplaceFailsProper, RestoreProper, GiveUpProper, OutputCrashProper DEF OutputStep
<1> QED BY <1>1, <1>2

LEMMA NextOK == ASSUME ~Overlap PROVE OutputIInv /\ [OutputNext]_outputVars => OutputIInv'
<1>1. ASSUME OutputIInv, OutputNext PROVE OutputIInv'
  <2>1. PICK w \in Commands : (Begin(w) \/ OutputStep(w) \/ OutputCrash(w)) /\ OutputProper(w)
        BY <1>1, OutputStepProper
  <2>2. doing[w] \in Active \/ UNCHANGED file
        BY <2>1 DEF Begin, OutputStep, OutputCrash, Stage, StageFails, Preserve, PreserveFails, Replace,
                    ReplaceFails, Restore, GiveUp, Active
  <2>3. \A v \in Commands \ {w} : RunInv(v)'
        BY <1>1, <2>1, <2>2, OthersKeep DEF OutputIInv, OutputProper
  <2>4. Alone'
        BY <1>1, <2>1 DEF OutputIInv, Alone, OutputProper, Apart
  <2> QED BY <2>1, <2>3, <2>4 DEF OutputIInv, OutputProper
<1>2. ASSUME OutputIInv, UNCHANGED outputVars PROVE OutputIInv'
      BY <1>2 DEF OutputIInv, OutputTypeOK, Alone, RunInv, Safe, Shows, Unpublished, Staging, Preserving,
                  Replacing, Restoring, Over, Empty, outputVars
<1> QED BY <1>1, <1>2

LEMMA Invariance == ASSUME ~Overlap PROVE OutputSpec => []OutputIInv
BY InitOK, NextOK, PTL DEF OutputSpec

\* Every variable is of its type, and a run that is not done is at a target
\* (_write_all_or_nothing).
THEOREM OutputTypeCorrect == ASSUME ~Overlap PROVE OutputSpec => []OutputTypeOK
<1>1. OutputIInv => OutputTypeOK
      BY DEF OutputIInv
<1> QED BY <1>1, Invariance, PTL

\* However many outputs a command writes, and whatever earlier commands left behind by
\* failing or dying: what a destination held when a run began is beside it or in place until
\* the run has written everything, and what it could not put back is named (_roll_back).
THEOREM PreviousKept == ASSUME ~Overlap PROVE OutputSpec => []PreviousRecoverable
<1>1. OutputIInv => PreviousRecoverable
      BY DEF OutputIInv, RunInv, Safe, Shows, PreviousRecoverable
<1> QED BY <1>1, Invariance, PTL

\* A command that succeeds has written every output and a command that fails has changed
\* none, and neither leaves a temporary or a copy, for any number of outputs
\* (_write_all_or_nothing).
THEOREM AllWrittenOrNone == ASSUME ~Overlap PROVE OutputSpec => AllOrNothing
<1> DEFINE A == \A w \in Commands :
                   /\ doing[w] # "written" /\ doing'[w] = "written" => \A d \in Places : file'[d] = w
                   /\ doing[w] = "restore" /\ doing'[w] = "failed" => file' = met[w]
                   /\ doing'[w] \in {"written", "failed"} =>
                         staged'[w] = {} /\ \A d \in Places : keeper'[w][d] = Missing
<1>1. ASSUME OutputIInv, OutputIInv', OutputNext, NEW w \in Commands
      PROVE  /\ doing[w] # "written" /\ doing'[w] = "written" => \A d \in Places : file'[d] = w
             /\ doing[w] = "restore" /\ doing'[w] = "failed" => file' = met[w]
             /\ doing'[w] \in {"written", "failed"} =>
                   staged'[w] = {} /\ \A d \in Places : keeper'[w][d] = Missing
  <2>1. PICK v \in Commands : (Begin(v) \/ OutputStep(v) \/ OutputCrash(v)) /\ OutputProper(v)
        BY <1>1, OutputStepProper
  <2>2. doing[w] # doing'[w] => v = w
        BY <2>1 DEF OutputProper, Apart
  <2>3. doing'[w] \in {"written", "failed"} =>
           staged'[w] = {} /\ \A d \in Places : keeper'[w][d] = Missing
        BY <1>1 DEF OutputIInv, RunInv, Over, Empty
  <2>4. ASSUME doing[w] # "written", doing'[w] = "written"
        PROVE  \A d \in Places : file'[d] = w
    <3>1. Replace(w)
          BY <1>1, <2>1, <2>2, <2>4 DEF OutputIInv, OutputTypeOK, Begin, OutputStep, OutputCrash, Stage, StageFails, Preserve,
             PreserveFails, ReplaceFails, Restore, GiveUp, OutputGoto, Advance
    <3>2. /\ next[w] \in Order /\ At(w) \in Places /\ At(w) = Targets[next[w]]
          /\ next[w] = Len(Targets)
          BY <1>1, <2>4, <3>1, AtTarget, AdvanceTyped DEF OutputIInv, Replace, OutputPhases, Finished
    <3>3. \A i \in Order : i < next[w] => file[Targets[i]] = w
          BY <1>1, <3>1 DEF OutputIInv, RunInv, Replacing, Replace
    <3>4. \A i \in Order : i < next[w] \/ i = next[w]
          BY <3>2 DEF Order
    <3>5. file' = [file EXCEPT ![At(w)] = w] /\ file \in [Places -> Reports \cup {Missing}]
          BY <1>1, <3>1 DEF OutputIInv, OutputTypeOK, Replace
    <3> QED BY <3>2, <3>3, <3>4, <3>5, Indices
  <2>5. ASSUME doing[w] = "restore", doing'[w] = "failed"
        PROVE  file' = met[w]
    <3>1. GiveUp(w) /\ stranded[w] = {}
          BY <1>1, <2>1, <2>2, <2>5 DEF OutputIInv, OutputTypeOK, Begin, OutputStep, OutputCrash, Stage, StageFails, Preserve,
             PreserveFails, Replace, ReplaceFails, Restore, GiveUp, OutputGoto
    <3>2. \A d \in Places : file[d] = met[w][d]
          BY <1>1, <3>1, LeftBehind
    <3>3. file \in [Places -> Reports \cup {Missing}] /\ met[w] \in [Places -> Reports \cup {Missing}]
          BY <1>1 DEF OutputIInv, OutputTypeOK
    <3>4. file' = file
          BY <3>1 DEF GiveUp
    <3> QED BY <3>2, <3>3, <3>4
  <2> QED BY <2>3, <2>4, <2>5
<1>2. ASSUME OutputIInv, OutputIInv', UNCHANGED outputVars, NEW w \in Commands
      PROVE  /\ doing[w] # "written" /\ doing'[w] = "written" => \A d \in Places : file'[d] = w
             /\ doing[w] = "restore" /\ doing'[w] = "failed" => file' = met[w]
             /\ doing'[w] \in {"written", "failed"} =>
                   staged'[w] = {} /\ \A d \in Places : keeper'[w][d] = Missing
      BY <1>2 DEF OutputIInv, RunInv, Over, Empty, outputVars
<1>3. OutputIInv /\ OutputIInv' /\ [OutputNext]_outputVars => [A]_outputVars
      BY <1>1, <1>2
<1> HIDE DEF A
<1>4. OutputSpec => [][A]_outputVars
      BY <1>3, Invariance, PTL DEF OutputSpec
<1> QED BY <1>4 DEF AllOrNothing, A

=============================================================================
