---------------------------- MODULE StorePublish ----------------------------
(***************************************************************************)
(* `complyroll ingest' (src/src/complyroll/cli.py): several runs record    *)
(* their artifacts at one path.  A store that is there is opened in place; *)
(* a new one is built under a temporary name beside the path and linked to *)
(* it once the whole run succeeded.  Runs may crash at any statement.      *)
(*                                                                         *)
(* A SQLite file is two files here: the database itself, which follows its *)
(* inode through the link, and the write-ahead log, which is found by name.*)
(***************************************************************************)

CONSTANTS
    Runs,          \* runs of the command, one process each; a retry is another run
    Artifacts,     \* artifact files, told apart by digest
    Brings,        \* the artifacts each run is given
    FirstPaths,    \* what may be at the path when the first run starts
    Path,          \* the --db path
    Earlier,       \* the store that was there before any run
    Dangling,      \* a symbolic link with nothing behind it
    Absent         \* nothing is there

ASSUME PublishAssumption ==
    /\ Brings \in [Runs -> (SUBSET Artifacts) \ {{}}]
    /\ FirstPaths \subseteq {Absent, Earlier, Dangling}
    /\ Absent \notin {Path, Earlier, Dangling} /\ Earlier \notin {Path, Dangling}
    /\ Runs \cap {Path, Earlier, Dangling, Absent} = {}

VARIABLES
    dest,      \* what is at the path: Absent, Dangling, or the file built by Earlier or a run
    temps,     \* the runs whose temporary name still exists
    main,      \* by file: the rows in the database file itself
    wal,       \* by name: the committed rows only its write-ahead log holds
    writer,    \* by name: the run inside a write transaction there, or Absent
    pc,        \* where each run is
    at,        \* the name each run writes to
    pending,   \* the artifacts each run has recorded and not committed
    code,      \* how each run will exit
    diskFails  \* whether the disk may fill or fail outside a transaction; never changes

vars == <<dest, temps, main, wal, writer, pc, at, pending, code, diskFails>>

Names == Runs \cup {Path}
Files == Runs \cup {Earlier}

\* One artifact's stream, and the run that recorded it.
Row == [artifact : Artifacts, by : Runs]

FileAt(name) == IF name = Path THEN dest ELSE name

\* What a connection that opens the name finds.
Contents(name) == main[FileAt(name)] \cup wal[name]

Recorded(rows) == {row.artifact : row \in rows}

\* What anyone finds at the path.
Stored == IF dest \in Files THEN Contents(Path) ELSE {}

Connected == {"recording", "closing"}
Ended     == {"recorded", "failed", "crashed"}
Phases    == {"start", "reserve", "parse", "open", "link", "discard", "report"}
             \cup Connected \cup Ended

Init ==
    /\ dest \in FirstPaths
    /\ temps = {}
    /\ main = [f \in Files |-> {}]
    /\ wal = [n \in Names |-> {}]
    /\ writer = [n \in Names |-> Absent]
    /\ pc = [r \in Runs |-> "start"]
    /\ at = [r \in Runs |-> Path]
    /\ pending = [r \in Runs |-> {}]
    /\ code = [r \in Runs |-> "ok"]
    /\ diskFails \in BOOLEAN

Goto(r, phase) == pc' = [pc EXCEPT ![r] = phase]

Exit(r, how) == code' = [code EXCEPT ![r] = how]

\* A build discards its temporary on every way out; a run in place just ends.
WayOut(r) == IF at[r] = r THEN "discard" ELSE "failed"

DiskKept == UNCHANGED <<dest, temps, main, wal, writer>>

CheckPath(r) ==
    /\ pc[r] = "start"
    /\ \/ dest = Dangling /\ Goto(r, "failed") /\ Exit(r, "error")
       \/ dest = Absent /\ Goto(r, "reserve") /\ UNCHANGED code
       \/ dest \in Files /\ Goto(r, "parse") /\ UNCHANGED code
    /\ DiskKept /\ UNCHANGED <<at, pending>>

\* Mutated form: the store is built at the path itself.
ReserveAtPath(r) ==
    /\ pc[r] = "reserve"
    /\ dest' = (IF dest = Absent THEN r ELSE dest)
    /\ Goto(r, "parse")
    /\ UNCHANGED <<temps, main, wal, writer, at, pending, code>>

\* An empty file under a name of the run's own.
Reserve(r) ==
    /\ pc[r] = "reserve"
    /\ \/ /\ temps' = temps \cup {r}
          /\ at' = [at EXCEPT ![r] = r]
          /\ Goto(r, "parse")
          /\ UNCHANGED code
       \/ /\ Goto(r, "failed")
          /\ Exit(r, "error")
          /\ UNCHANGED <<temps, at>>
    /\ UNCHANGED <<dest, main, wal, writer, pending>>

\* Every artifact is read before the store is opened; one damaged artifact ends the run.
Parse(r) ==
    /\ pc[r] = "parse"
    /\ \/ Goto(r, "open") /\ UNCHANGED code
       \/ Goto(r, WayOut(r)) /\ Exit(r, "error")
    /\ DiskKept /\ UNCHANGED <<at, pending>>

\* Open the store and take its write lock, or give up: the store is busy or refused.
OpenStore(r) ==
    /\ pc[r] = "open"
    /\ \/ /\ writer[at[r]] = Absent
          /\ writer' = [writer EXCEPT ![at[r]] = r]
          /\ Goto(r, "recording")
          /\ UNCHANGED code
       \/ /\ Goto(r, WayOut(r))
          /\ Exit(r, "error")
          /\ UNCHANGED writer
    /\ UNCHANGED <<dest, temps, main, wal, at, pending>>

\* Mutated form: each artifact is recorded in a transaction of its own.
RecordIngestAlone(r, a) ==
    /\ pc[r] = "recording" /\ a \in Brings[r] \ pending[r]
    /\ pending' = [pending EXCEPT ![r] = @ \cup {a}]
    /\ wal' = [wal EXCEPT ![at[r]] =
                  @ \cup ({[artifact |-> a, by |-> r]} \ {[artifact |-> b, by |-> r] :
                             b \in Recorded(Contents(at[r]))})]
    /\ UNCHANGED <<dest, temps, main, writer, pc, at, code>>

\* record_ingest joins the run's transaction.
RecordIngest(r, a) ==
    /\ pc[r] = "recording" /\ a \in Brings[r] \ pending[r]
    /\ pending' = [pending EXCEPT ![r] = @ \cup {a}]
    /\ DiskKept /\ UNCHANGED <<pc, at, code>>

\* The run ends its transaction: everything it recorded, but for what the store already
\* held, or nothing.
Commit(r) ==
    /\ pc[r] = "recording" /\ pending[r] = Brings[r]
    /\ wal' = [wal EXCEPT ![at[r]] =
                  @ \cup [artifact : pending[r] \ Recorded(Contents(at[r])), by : {r}]]
    /\ writer' = [writer EXCEPT ![at[r]] = Absent]
    /\ pending' = [pending EXCEPT ![r] = {}]
    /\ Goto(r, "closing")
    /\ UNCHANGED <<dest, temps, main, at, code>>

\* A refusal, an error on any artifact or a COMMIT that fails.
Rollback(r) ==
    /\ pc[r] = "recording"
    /\ writer' = [writer EXCEPT ![at[r]] = Absent]
    /\ pending' = [pending EXCEPT ![r] = {}]
    /\ Exit(r, "error")
    /\ Goto(r, "closing")
    /\ UNCHANGED <<dest, temps, main, wal, at>>

AloneAt(r) == \A q \in Runs \ {r} : pc[q] \in Connected => at[q] # at[r]

\* The last connection to close copies the log into the file and removes it.
Checkpointed(r) ==
    /\ main' = [main EXCEPT ![FileAt(at[r])] = @ \cup wal[at[r]]]
    /\ wal' = [wal EXCEPT ![at[r]] = {}]

AfterClose(r) ==
    IF code[r] # "ok" THEN WayOut(r) ELSE IF at[r] = r THEN "link" ELSE "report"

\* Mutated form: the store is still open, and its log beside it, when it is linked.
CloseLate(r) ==
    /\ pc[r] = "closing"
    /\ Goto(r, AfterClose(r))
    /\ DiskKept /\ UNCHANGED <<at, pending, code>>

\* SQLite reports no error when it could not copy the log at the close.
Close(r) ==
    /\ pc[r] = "closing"
    /\ \/ AloneAt(r) /\ Checkpointed(r)
       \/ ~AloneAt(r) /\ UNCHANGED <<main, wal>>
       \/ diskFails /\ UNCHANGED <<main, wal>>
    /\ Goto(r, AfterClose(r))
    /\ UNCHANGED <<dest, temps, writer, at, pending, code>>

\* Mutated form: the build replaces whatever is at the path.
LinkReplacing(r) ==
    /\ pc[r] = "link"
    /\ dest' = r
    /\ Goto(r, "discard")
    /\ UNCHANGED <<temps, main, wal, writer, at, pending, code>>

\* os.link refuses a name that is taken, by a store or by a link; a disk may refuse it too.
Link(r) ==
    /\ pc[r] = "link"
    /\ \/ dest = Absent /\ dest' = r /\ UNCHANGED code
       \/ dest # Absent /\ Exit(r, "conflict") /\ UNCHANGED dest
       \/ diskFails /\ Exit(r, "error") /\ UNCHANGED dest
    /\ Goto(r, "discard")
    /\ UNCHANGED <<temps, main, wal, writer, at, pending>>

Verdict(r) == IF code[r] = "ok" THEN "report" ELSE "failed"

\* Unlink the temporary name and its log; an error on any of them is suppressed.
Discard(r) ==
    /\ pc[r] = "discard"
    /\ \/ temps' = temps \ {r}
       \/ diskFails /\ UNCHANGED temps
    /\ wal' = [wal EXCEPT ![r] = {}]
    /\ Goto(r, Verdict(r))
    /\ UNCHANGED <<dest, main, writer, at, pending, code>>

\* The summary, with its "recorded" lines, is written only here.
Report(r) ==
    /\ pc[r] = "report"
    /\ Goto(r, "recorded")
    /\ DiskKept /\ UNCHANGED <<at, pending, code>>

\* The process dies: its transaction is gone, its temporary and every log stay.
Crash(r) ==
    /\ pc[r] \notin Ended
    /\ writer' = [n \in Names |-> IF writer[n] = r THEN Absent ELSE writer[n]]
    /\ pending' = [pending EXCEPT ![r] = {}]
    /\ Goto(r, "crashed")
    /\ UNCHANGED <<dest, temps, main, wal, at, code>>

Step(r) ==
    \/ CheckPath(r) \/ Reserve(r) \/ Parse(r) \/ OpenStore(r)
    \/ \E a \in Artifacts : RecordIngest(r, a)
    \/ Commit(r) \/ Rollback(r) \/ Close(r) \/ Link(r) \/ Discard(r) \/ Report(r)

Next == UNCHANGED diskFails /\ \E r \in Runs : Step(r) \/ Crash(r)

Spec == Init /\ [][Next]_vars
-----------------------------------------------------------------------------
TypeOK ==
    /\ dest \in Files \cup {Absent, Dangling}
    /\ temps \in SUBSET Runs
    /\ main \in [Files -> SUBSET Row]
    /\ wal \in [Names -> SUBSET Row]
    /\ writer \in [Names -> Runs \cup {Absent}]
    /\ pc \in [Runs -> Phases]
    /\ at \in [Runs -> Names]
    /\ pending \in [Runs -> SUBSET Artifacts]
    /\ code \in [Runs -> {"ok", "error", "conflict"}]
    /\ diskFails \in BOOLEAN

\* A run that printed its "recorded" lines left every artifact it was given in the store at
\* the path (_run_ingest: no run ever claims to have recorded observations it then
\* discarded).
ReportedIsStored ==
    \A r \in Runs : pc[r] = "recorded" => Brings[r] \subseteq Recorded(Stored)

\* On a disk that takes every write it is asked for, that holds whatever other runs did and
\* wherever they died.
ClaimsDurable == ~diskFails => ReportedIsStored

\* What a run records becomes visible at the path all together or not at all, and not at all
\* when the run fails (one transaction around every artifact of the run; a build that did
\* not finish is never published).
RunsAllOrNothing ==
    \A r \in Runs : (\E row \in Stored : row.by = r) =>
        /\ Brings[r] \subseteq Recorded(Stored)
        /\ pc[r] # "failed"

\* The path never shows a store that is still being built: a store that appeared there holds
\* everything its run was given, on a disk that takes every write (_build_and_publish_store).
PublishedWhole ==
    ~diskFails /\ dest \in Runs => Brings[dest] \subseteq Recorded(Stored)

\* Nobody removes, replaces or empties the store at the path: what one run committed there
\* survives every other run's failure, discard, checkpoint and crash.
StoreOnlyGrows ==
    [][(dest \in Files) => (dest' = dest /\ Stored \subseteq Stored')]_vars
=============================================================================
