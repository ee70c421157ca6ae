----------------------------- MODULE EventStore -----------------------------
(***************************************************************************)
(* The append-only SQLite event store (src/src/complyroll/store/sqlite.py) *)
(* as several processes use it: each connection opens the file statement   *)
(* by statement, then appends in a transaction of its own or in a block    *)
(* that several appends and projection updates join.                       *)
(*                                                                         *)
(* The file runs in write-ahead mode, so one connection writes at a time   *)
(* and every statement outside a write transaction reads the last commit.  *)
(* `disk' is that commit, `work' is the pending state of the lock holder.  *)
(* A busy BEGIN IMMEDIATE on an open store changes nothing and is a        *)
(* stuttering step here.                                                   *)
(***************************************************************************)
EXTENDS Integers, Sequences, FiniteSets, Functions

CONSTANTS
    Conns,           \* store connections, one per process
    Streams,         \* stream identifiers
    EventIds,        \* event identifiers
    Projections,     \* projection names
    Supported,       \* SUPPORTED_SCHEMA_VERSION
    MaxBatch,        \* MAX_EVENTS_PER_APPEND
    PageLimit,       \* events one read page returns at most
    FirstFiles,      \* the files a run may start from
    CatchesInside,   \* whether a caller may catch an append's error in its block
    MaxEvents,       \* bound: events in the log
    MaxEdits,        \* bound: out-of-band edits of the file
    NoConn           \* no connection holds the write lock

ASSUME ConstantsAssumption ==
    /\ Streams # {}
    /\ Supported \in Nat \ {0}
    /\ MaxBatch \in Nat \ {0}
    /\ PageLimit \in Nat \ {0}
    /\ MaxEvents \in Nat
    /\ MaxEdits \in Nat
    /\ CatchesInside \in BOOLEAN
    /\ NoConn \notin Conns

Schemas == 1..Supported                 \* SCHEMA_VERSION .. SUPPORTED_SCHEMA_VERSION

VARIABLES
    disk,        \* the committed file
    work,        \* the file as the lock holder sees it; equal to disk when nobody does
    lock,        \* the connection inside BEGIN IMMEDIATE .. COMMIT, or NoConn
    pc,          \* what each connection is doing
    reg,         \* values an opening connection has read and not yet judged
    noted,       \* the stream version each caller read and will pass as expected_version
    seen,        \* the rows each caller has read from the log, page by page
    edits,       \* out-of-band edits so far
    overtaken    \* history: another connection moved the noted stream since it was read

vars == <<disk, work, lock, pc, reg, noted, seen, edits, overtaken>>

-----------------------------------------------------------------------------
(* The file. *)

\* A batch that repeats an identifier is refused before anything is read.
Batches == UNION {Injection(1..n, EventIds) : n \in 1..MaxBatch}

\* `need' is the schema the event requires; `batch', kept for the properties only, is the
\* batch it was appended in.
Row == [stream : Streams, version : Nat \ {0}, id : EventIds, need : Schemas,
        batch : Batches]

\* The header ids are named, not numbered: "complyroll" is APPLICATION_ID, "none" is 0.
AppIds  == {"none", "complyroll", "other"}
Objects == {"none", "expected", "altered"}

NewFile(app, marker, objects, migrations) ==
    [app |-> app, marker |-> marker, objects |-> objects, migrations |-> migrations,
     rows |-> <<>>, counter |-> 0, checkpoints |-> [p \in Projections |-> 0]]

EmptyFile    == NewFile("none", 0, "none", {})
CreatedFile  == NewFile("complyroll", 1, "expected", {1})  \* what the constructor writes
ForeignFile  == NewFile("other", 0, "altered", {})
UnmarkedFile == NewFile("none", 0, "altered", {})
NewerFile    == NewFile("complyroll", Supported + 1, "expected", 1..Supported + 1)

ASSUME FirstFilesAssumption ==
    FirstFiles \subseteq {EmptyFile, CreatedFile, ForeignFile, UnmarkedFile, NewerFile}

\* The file with another log, or with another mark.
WithLog(db, rows, counter) ==
    [app |-> db.app, marker |-> db.marker, objects |-> db.objects,
     migrations |-> db.migrations, rows |-> rows, counter |-> counter,
     checkpoints |-> db.checkpoints]

WithMark(db, marker, migrations) ==
    [app |-> db.app, marker |-> marker, objects |-> db.objects,
     migrations |-> migrations, rows |-> db.rows, counter |-> db.counter,
     checkpoints |-> db.checkpoints]

Highest(S) == CHOOSE n \in S \cup {0} : \A m \in S : m <= n

Latest(db)       == Highest(DOMAIN db.rows)
RowsOf(db, s)    == {i \in DOMAIN db.rows : db.rows[i].stream = s}
Versions(db, s)  == {db.rows[i].version : i \in RowsOf(db, s)}
StreamVersion(db, s) == Highest(Versions(db, s))
Ids(db)          == {db.rows[i].id : i \in DOMAIN db.rows}

\* COUNT = MAX and MIN = 1, or nothing stored.
Contiguous(S) == S = 1..Cardinality(S)

CounterIntact(db)           == db.counter = Latest(db)
SequencesContiguous(db)     == Contiguous(DOMAIN db.rows)
StreamContiguous(db, s)     == Contiguous(Versions(db, s))  \* UNIQUE (stream_id, version)
AllStreamsContiguous(db)    == \A s \in Streams : StreamContiguous(db, s)
MigrationsPresent(db, m)    == Schemas \cap 1..m \subseteq db.migrations

\* The file the store itself would have left.
Healthy(db) ==
    /\ db.app = "complyroll" /\ db.marker \in Schemas /\ db.objects = "expected"
    /\ db.migrations = 1..db.marker
    /\ SequencesContiguous(db) /\ CounterIntact(db) /\ AllStreamsContiguous(db)

\* _mark_schema refuses a marker out of range, another program's file, and a migration
\* record above the marker; otherwise it records every migration up to the one needed.
MarkRefused(db, need) ==
    \/ db.marker \notin Schemas
    \/ db.app # "complyroll"
    \/ db.marker < need /\ \E m \in db.migrations : m > db.marker

\* Mutated form: the migrations are recorded and user_version stays where it was.
MarkSchemaUnmoved(db, need) ==
    IF db.marker >= need
    THEN db
    ELSE [db EXCEPT !.migrations = @ \cup (db.marker + 1)..need]

MarkSchema(db, need) ==
    IF db.marker >= need
    THEN db
    ELSE WithMark(db, need, db.migrations \cup (db.marker + 1)..need)

\* Insert the first k events as the stream's next versions. AUTOINCREMENT numbers a row past
\* both the counter and the last row.
LastNumber(db) == IF db.counter > Latest(db) THEN db.counter ELSE Latest(db)

\* Mutated form: the offsets of a batch count from 0, so its first event reuses a version.
InsertedRowsFromZero(db, s, events, k, need) ==
    [i \in DOMAIN db.rows \cup LastNumber(db) + 1..LastNumber(db) + k |->
        IF i \in DOMAIN db.rows
        THEN db.rows[i]
        ELSE [stream |-> s, version |-> StreamVersion(db, s) + (i - LastNumber(db)) - 1,
              id |-> events[i - LastNumber(db)], need |-> need, batch |-> events]]

InsertedRows(db, s, events, k, need) ==
    [i \in DOMAIN db.rows \cup LastNumber(db) + 1..LastNumber(db) + k |->
        IF i \in DOMAIN db.rows
        THEN db.rows[i]
        ELSE [stream |-> s, version |-> StreamVersion(db, s) + (i - LastNumber(db)),
              id |-> events[i - LastNumber(db)], need |-> need, batch |-> events]]

Insert(db, s, events, k, need) ==
    WithLog(db, InsertedRows(db, s, events, k, need),
                IF k = 0 THEN db.counter ELSE LastNumber(db) + k)

-----------------------------------------------------------------------------
(* Connections. *)

Opening    == {"read_app", "read_marker", "read_objects", "initialize", "locked",
               "reread_app", "reread_objects", "migrations", "counter", "latest",
               "history"}
InWrite    == {"locked", "single", "block", "commit", "failed", "raised"}
Phases     == {"closed", "refused", "ready"} \cup Opening \cup InWrite

View(c) == IF lock = c THEN work ELSE disk

\* Nothing read yet; also what a connection past its open holds.
NothingRead == [app |-> "none", marker |-> 0, objects |-> "none", counter |-> 0]

\* A caller that has read nothing expects a new stream.
NewStream(s) == [stream |-> s, version |-> 0]

Init ==
    /\ disk \in FirstFiles
    /\ work = disk
    /\ lock = NoConn
    /\ pc = [c \in Conns |-> "closed"]
    /\ reg = [c \in Conns |-> NothingRead]
    /\ noted \in [Conns -> {NewStream(s) : s \in Streams}]
    /\ seen = [c \in Conns |-> <<>>]
    /\ edits = 0
    /\ overtaken = [c \in Conns |-> FALSE]

Goto(c, phase) == pc' = [pc EXCEPT ![c] = phase]

Forget(c) == reg' = [reg EXCEPT ![c] = NothingRead]

\* A check the open makes: go on to the next phase, or raise and close.
Judge(c, accepted, phase) ==
    IF accepted THEN Goto(c, phase) /\ UNCHANGED reg ELSE Goto(c, "refused") /\ Forget(c)

Unheard == UNCHANGED <<noted, seen, overtaken>>
FileKept == UNCHANGED <<disk, work, lock, edits>>

(* The constructor: connect, then one statement per step. *)

Open(c) ==
    /\ pc[c] \in {"closed", "refused"}
    /\ Goto(c, "read_app")
    /\ UNCHANGED reg
    /\ FileKept /\ Unheard

OpenReadApp(c) ==
    /\ pc[c] = "read_app"
    /\ reg' = [reg EXCEPT ![c].app = disk.app]
    /\ Goto(c, "read_marker")
    /\ FileKept /\ Unheard

OpenReadMarker(c) ==
    /\ pc[c] = "read_marker"
    /\ reg' = [reg EXCEPT ![c].marker = disk.marker]
    /\ Goto(c, "read_objects")
    /\ FileKept /\ Unheard

\* The objects complete the first look; an empty unmarked file is to be initialized.
OpenReadObjects(c) ==
    /\ pc[c] = "read_objects"
    /\ IF \/ reg[c].app = "other"
          \/ reg[c].marker > Supported
          \/ reg[c].marker = 0 /\ disk.objects # "none"
       THEN Goto(c, "refused") /\ Forget(c)
       ELSE /\ Goto(c, IF reg[c].marker = 0 THEN "initialize" ELSE "migrations")
            /\ reg' = [reg EXCEPT ![c].objects = disk.objects]
    /\ FileKept /\ Unheard

\* BEGIN IMMEDIATE for the schema; a held lock outlasts busy_timeout_ms and fails the open.
OpenBeginInitialize(c) ==
    /\ pc[c] = "initialize" /\ lock = NoConn
    /\ lock' = c
    /\ Goto(c, "locked")
    /\ UNCHANGED <<disk, work, reg, edits>> /\ Unheard

OpenBusy(c) ==
    /\ pc[c] = "initialize" /\ lock # NoConn
    /\ Goto(c, "closed")
    /\ Forget(c)
    /\ FileKept /\ Unheard

\* Under the lock the marker is read again: the schema is created, or objects with no
\* marker are refused, or a peer was first and its file is judged like any reopen.
OpenInitialize(c) ==
    /\ pc[c] = "locked" /\ work.marker = 0 /\ work.objects = "none"
    /\ disk' = CreatedFile
    /\ work' = disk'
    /\ lock' = NoConn
    /\ Forget(c)
    /\ Goto(c, "ready")
    /\ UNCHANGED edits /\ Unheard

OpenRefuseUnmarked(c) ==
    /\ pc[c] = "locked" /\ work.marker = 0 /\ work.objects # "none"
    /\ lock' = NoConn
    /\ Goto(c, "refused")
    /\ Forget(c)
    /\ UNCHANGED <<disk, work, edits>> /\ Unheard

OpenAfterPeer(c) ==
    /\ pc[c] = "locked" /\ work.marker # 0
    /\ lock' = NoConn
    /\ reg' = [reg EXCEPT ![c].marker = work.marker]
    /\ Goto(c, "reread_app")
    /\ UNCHANGED <<disk, work, edits>> /\ Unheard

OpenRereadApp(c) ==
    /\ pc[c] = "reread_app"
    /\ reg' = [reg EXCEPT ![c].app = disk.app]
    /\ Goto(c, "reread_objects")
    /\ FileKept /\ Unheard

OpenRereadObjects(c) ==
    /\ pc[c] = "reread_objects"
    /\ IF reg[c].marker > Supported
       THEN Goto(c, "refused") /\ Forget(c)
       ELSE Goto(c, "migrations") /\ reg' = [reg EXCEPT ![c].objects = disk.objects]
    /\ FileKept /\ Unheard

\* _verify_existing_schema judges the marking and the objects read so far, then reads the
\* stored definitions and the migration records, which no writer of the store removes.
OpenVerifySchema(c) ==
    /\ pc[c] = "migrations"
    /\ Judge(c, /\ reg[c].app = "complyroll"
                /\ reg[c].marker \in Schemas
                /\ reg[c].objects # "none" /\ disk.objects = "expected"
                /\ MigrationsPresent(disk, reg[c].marker),
             "counter")
    /\ FileKept /\ Unheard

\* _require_sequence_counter_intact reads the counter in one statement and the last row in
\* the next, outside any transaction.
OpenReadCounter(c) ==
    /\ pc[c] = "counter"
    /\ reg' = [reg EXCEPT ![c].counter = disk.counter]
    /\ Goto(c, "latest")
    /\ FileKept /\ Unheard

OpenReadLatest(c) ==
    /\ pc[c] = "latest"
    /\ Judge(c, reg[c].counter = Latest(disk), "history")
    /\ FileKept /\ Unheard

OpenCheckHistory(c) ==
    /\ pc[c] = "history"
    /\ Goto(c, IF SequencesContiguous(disk) /\ AllStreamsContiguous(disk)
               THEN "ready" ELSE "refused")
    /\ Forget(c)
    /\ FileKept /\ Unheard

(* Reads. *)

\* current_stream_version: what the caller will pass as expected_version.
ReadVersion(c, s) ==
    /\ pc[c] \in {"ready", "block"}
    /\ noted' = [noted EXCEPT ![c] = [stream |-> s, version |-> StreamVersion(View(c), s)]]
    /\ overtaken' = [overtaken EXCEPT ![c] = FALSE]
    /\ UNCHANGED <<pc, reg, seen>>
    /\ FileKept

\* Mutated form: the page starts at the last sequence seen, not past it.
ReadPageRepeating(c) ==
    /\ pc[c] \in {"ready", "block"}
    /\ LET from == IF seen[c] = <<>> THEN 1 ELSE Len(seen[c])
       IN /\ from \in DOMAIN View(c).rows
          /\ seen' = [seen EXCEPT ![c] = Append(@, View(c).rows[from])]
    /\ UNCHANGED <<pc, reg, noted, overtaken>>
    /\ FileKept

\* read_all(after_sequence = the last one seen): a page past a hole is refused. Inside a block
\* the caller reads what the block has appended too.
ReadPage(c) ==
    /\ pc[c] \in {"ready", "block"}
    /\ LET after == Len(seen[c])
           page  == {i \in DOMAIN View(c).rows :
                        /\ i > after
                        /\ Cardinality({j \in DOMAIN View(c).rows : after < j /\ j < i})
                               < PageLimit}
       IN /\ page # {}
          /\ page = after + 1 .. after + Cardinality(page)
          /\ seen' = [seen EXCEPT ![c] =
                        @ \o [k \in 1..Cardinality(page) |-> View(c).rows[after + k]]]
    /\ UNCHANGED <<pc, reg, noted, overtaken>>
    /\ FileKept

(* Write transactions. *)

\* transaction(): hold the lock across a block; nesting is refused.
BeginBlock(c) ==
    /\ pc[c] = "ready" /\ lock = NoConn
    /\ lock' = c
    /\ Goto(c, "block")
    /\ UNCHANGED <<disk, work, reg, edits>> /\ Unheard

\* An append or a projection update outside a block opens its own transaction.
BeginSingle(c) ==
    /\ pc[c] = "ready" /\ lock = NoConn
    /\ lock' = c
    /\ Goto(c, "single")
    /\ UNCHANGED <<disk, work, reg, edits>> /\ Unheard

\* Where a joined or a single operation goes when it returns, and when it raises.
Returned(c) == IF pc[c] = "single" THEN "commit" ELSE "block"

\* Mutated form: an operation that raised ends its transaction like one that returned.
RaisedCommits(c) == Returned(c)

Raised(c)   == IF pc[c] = "single" THEN "failed" ELSE "raised"

\* Mutated forms: one of append's checks is missing.
AppendAllowedAtAnyVersion(c, need) ==
    /\ CounterIntact(work)
    /\ SequencesContiguous(work)
    /\ StreamContiguous(work, noted[c].stream)
    /\ ~MarkRefused(work, need)

AppendAllowedPastHoles(c, need) ==
    /\ CounterIntact(work)
    /\ StreamContiguous(work, noted[c].stream)
    /\ StreamVersion(work, noted[c].stream) = noted[c].version
    /\ ~MarkRefused(work, need)

AppendAllowedAtAnyCounter(c, need) ==
    /\ SequencesContiguous(work)
    /\ StreamContiguous(work, noted[c].stream)
    /\ StreamVersion(work, noted[c].stream) = noted[c].version
    /\ ~MarkRefused(work, need)

\* The checks append makes, under the lock and in this order, before it inserts.
AppendAllowed(c, need) ==
    /\ CounterIntact(work)
    /\ SequencesContiguous(work)
    /\ StreamContiguous(work, noted[c].stream)
    /\ StreamVersion(work, noted[c].stream) = noted[c].version
    /\ ~MarkRefused(work, need)

AppendEvents(c, events, need) ==
    /\ pc[c] \in {"single", "block"}
    /\ AppendAllowed(c, need)
    /\ \A i \in 1..Len(events) : events[i] \notin Ids(work)
    /\ work' = Insert(MarkSchema(work, need), noted[c].stream, events, Len(events), need)
    /\ Goto(c, Returned(c))
    /\ UNCHANGED <<disk, lock, reg, edits>> /\ Unheard

\* The UNIQUE event_id stops the batch part way: the marking and the rows before it are
\* pending in the transaction when the error leaves append.
AppendConflict(c, events, need) ==
    /\ pc[c] \in {"single", "block"}
    /\ AppendAllowed(c, need)
    /\ \E k \in 0..Len(events) - 1 :
          /\ events[k + 1] \in Ids(work)
          /\ \A i \in 1..k : events[i] \notin Ids(work)
          /\ work' = Insert(MarkSchema(work, need), noted[c].stream, events, k, need)
    /\ Goto(c, Raised(c))
    /\ UNCHANGED <<disk, lock, reg, edits>> /\ Unheard

AppendRefused(c, need) ==
    /\ pc[c] \in {"single", "block"}
    /\ ~AppendAllowed(c, need)
    /\ Goto(c, Raised(c))
    /\ UNCHANGED reg
    /\ FileKept /\ Unheard

\* Mutated form: the checkpoint is not held against the last stored sequence.
AdvanceProjectionAnywhere(c, p, expected, last) ==
    /\ pc[c] \in {"single", "block"}
    /\ expected <= last
    /\ work.checkpoints[p] = expected
    /\ work' = [work EXCEPT !.checkpoints[p] = last]
    /\ Goto(c, Returned(c))
    /\ UNCHANGED <<disk, lock, reg, edits>> /\ Unheard

AdvanceProjection(c, p, expected, last) ==
    /\ pc[c] \in {"single", "block"}
    /\ expected <= last
    /\ IF work.checkpoints[p] = expected /\ last <= Latest(work)
       THEN /\ work' = [work EXCEPT !.checkpoints[p] = last]
            /\ Goto(c, Returned(c))
       ELSE /\ UNCHANGED work
            /\ Goto(c, Raised(c))
    /\ UNCHANGED <<disk, lock, reg, edits>> /\ Unheard

ResetProjection(c, p, expected) ==
    /\ pc[c] \in {"single", "block"}
    /\ IF work.checkpoints[p] = expected
       THEN /\ work' = [work EXCEPT !.checkpoints[p] = 0]
            /\ Goto(c, Returned(c))
       ELSE /\ UNCHANGED work
            /\ Goto(c, Raised(c))
    /\ UNCHANGED <<disk, lock, reg, edits>> /\ Unheard

\* The streams a commit by c lets grow, as every other caller's note sees it.
Commit(c) ==
    /\ pc[c] \in {"block", "commit"}
    /\ disk' = work
    /\ work' = work
    /\ lock' = NoConn
    /\ Goto(c, "ready")
    /\ overtaken' = [d \in Conns |->
                        \/ overtaken[d]
                        \/ d # c /\ Versions(work, noted[d].stream)
                                       # Versions(disk, noted[d].stream)]
    /\ UNCHANGED <<reg, noted, seen, edits>>

\* The transaction is gone and so is what its caller knew from inside it.
Dropped(c, phase) ==
    /\ work' = disk
    /\ lock' = NoConn
    /\ Goto(c, phase)
    /\ noted' = [noted EXCEPT ![c] = NewStream(@.stream)]
    /\ overtaken' = [overtaken EXCEPT ![c] = FALSE]
    /\ seen' = [seen EXCEPT ![c] = <<>>]
    /\ UNCHANGED <<disk, reg, edits>>

\* Mutated form: a COMMIT that fails is reported and nothing is rolled back.
CommitFailsHeld(c) ==
    /\ pc[c] \in {"block", "commit"}
    /\ Goto(c, "ready")
    /\ UNCHANGED reg
    /\ FileKept /\ Unheard

\* COMMIT fails and is rolled back.
CommitFails(c) == pc[c] \in {"block", "commit"} /\ Dropped(c, "ready")

\* The operation was refused, or it or its caller raised for a reason of its own: a payload
\* over the cap, a full disk, an error in the caller's code.
Rollback(c) == pc[c] \in {"single", "block", "failed", "raised"} /\ Dropped(c, "ready")

\* The rollback itself fails: the connection is closed and forgotten.
Abandon(c) ==
    pc[c] \in {"single", "block", "commit", "failed", "raised"} /\ Dropped(c, "closed")

\* A caller may catch a joined operation's error inside its block and go on.
Catch(c) ==
    /\ CatchesInside
    /\ pc[c] = "raised"
    /\ Goto(c, "block")
    /\ UNCHANGED reg
    /\ FileKept /\ Unheard

\* The process ends, by close() or by a crash; SQLite discards what it had not committed.
Stop(c) ==
    /\ pc[c] \notin {"closed", "refused"}
    /\ work' = (IF lock = c THEN disk ELSE work)
    /\ lock' = (IF lock = c THEN NoConn ELSE lock)
    /\ Goto(c, "closed")
    /\ Forget(c)
    /\ noted' = [noted EXCEPT ![c] = NewStream(@.stream)]
    /\ overtaken' = [overtaken EXCEPT ![c] = FALSE]
    /\ seen' = [seen EXCEPT ![c] = <<>>]
    /\ UNCHANGED <<disk, edits>>

(* Another program edits the file through a connection of its own. *)

\* Where row i may move without breaking UNIQUE (stream_id, version).
FreeStreams(db, i) == {s \in Streams : db.rows[i].version \notin Versions(db, s)}

RowDeleted(db) ==
    {[db EXCEPT !.rows = Restrict(db.rows, DOMAIN db.rows \ {i})] : i \in DOMAIN db.rows}

RowMoved(db) ==
    UNION {{[db EXCEPT !.rows[i].stream = s] : s \in FreeStreams(db, i)} :
           i \in DOMAIN db.rows}

CounterLowered(db)   == {[db EXCEPT !.counter = n] : n \in 0..db.counter}
MarkerRewritten(db)  == {[db EXCEPT !.marker = m] : m \in 0..Supported + 1}
MigrationDeleted(db) == {[db EXCEPT !.migrations = db.migrations \ {m}] : m \in db.migrations}
AppRewritten(db)     == {[db EXCEPT !.app = a] : a \in AppIds}
ObjectsAltered(db)   == {[db EXCEPT !.objects = "altered"]}

EditedFiles(db) ==
    RowDeleted(db) \cup RowMoved(db) \cup CounterLowered(db) \cup MarkerRewritten(db)
    \cup MigrationDeleted(db) \cup AppRewritten(db) \cup ObjectsAltered(db)

EditOutOfBand ==
    /\ lock = NoConn /\ edits < MaxEdits
    /\ disk.objects # "none"
    /\ disk' \in EditedFiles(disk) \ {disk}
    /\ work' = disk'
    /\ edits' = edits + 1
    /\ UNCHANGED <<lock, pc, reg>> /\ Unheard

-----------------------------------------------------------------------------

OpenStep(c) ==
    \/ Open(c) \/ OpenReadApp(c) \/ OpenReadMarker(c) \/ OpenReadObjects(c)
    \/ OpenBeginInitialize(c) \/ OpenBusy(c) \/ OpenInitialize(c)
    \/ OpenRefuseUnmarked(c) \/ OpenAfterPeer(c) \/ OpenRereadApp(c)
    \/ OpenRereadObjects(c) \/ OpenVerifySchema(c) \/ OpenReadCounter(c)
    \/ OpenReadLatest(c) \/ OpenCheckHistory(c)

ReadStep(c) == ReadPage(c) \/ \E s \in Streams : ReadVersion(c, s)

AppendStep(c) ==
    \E need \in Schemas :
        \/ AppendRefused(c, need)
        \/ \E events \in Batches :
              /\ Cardinality(DOMAIN work.rows) + Len(events) <= MaxEvents
              /\ AppendEvents(c, events, need) \/ AppendConflict(c, events, need)

ProjectionStep(c) ==
    \E p \in Projections, expected \in 0..MaxEvents :
        \/ ResetProjection(c, p, expected)
        \/ \E last \in 0..MaxEvents : AdvanceProjection(c, p, expected, last)

\* How a write transaction ends once its caller is done with it.
EndStep(c) == Commit(c) \/ CommitFails(c) \/ Rollback(c) \/ Abandon(c)

Next ==
    \/ \E c \in Conns :
          \/ OpenStep(c) \/ ReadStep(c) \/ BeginBlock(c) \/ BeginSingle(c)
          \/ AppendStep(c) \/ ProjectionStep(c) \/ EndStep(c) \/ Catch(c) \/ Stop(c)
    \/ EditOutOfBand

Spec == Init /\ [][Next]_vars

\* The code inside a write transaction is straight-line: it commits, or raises and is rolled
\* back, and waits for nobody while it holds the lock. Nothing else is fair: no caller has to
\* write, and SQLite's busy handler promises no waiter its turn.
HeldStep(c) ==
    EndStep(c) \/ OpenInitialize(c) \/ OpenRefuseUnmarked(c) \/ OpenAfterPeer(c)

FairSpec == Spec /\ \A c \in Conns : WF_vars(HeldStep(c))
-----------------------------------------------------------------------------
(* What the store promises. *)

IsRows(rows) ==
    /\ DOMAIN rows \subseteq Nat \ {0} /\ IsFiniteSet(DOMAIN rows)
    /\ rows \in [DOMAIN rows -> Row]

IsFile(db) ==
    /\ db \in [app : AppIds, marker : 0..Supported + 1, objects : Objects,
               migrations : SUBSET (1..Supported + 1), rows : {db.rows}, counter : Nat,
               checkpoints : [Projections -> Nat]]
    /\ IsRows(db.rows)

\* The one type invariant.
TypeOK ==
    /\ IsFile(disk) /\ IsFile(work)
    /\ lock \in Conns \cup {NoConn}
    /\ pc \in [Conns -> Phases]
    /\ reg \in [Conns -> [app : AppIds, marker : 0..Supported + 1, objects : Objects,
                         counter : Nat]]
    /\ noted \in [Conns -> [stream : Streams, version : Nat]]
    /\ seen \in [Conns -> Seq(Row)]
    /\ edits \in Nat
    /\ overtaken \in [Conns -> BOOLEAN]

\* No connection is ever left inside a transaction its caller is done with, and none writes
\* outside one: a failed COMMIT, a rollback that fails and a crash all give the lock back
\* (_write_transaction, the hole ADR 0004's first amendment closed).
LockOnlyInsideWrite ==
    /\ \A c \in Conns : lock = c <=> pc[c] \in InWrite
    /\ lock = NoConn => work = disk

\* Committed and pending history alike number events 1, 2, 3, ... with no hole, each stream
\* numbers its own 1, 2, 3, ... in the same order, and the counter stands at the last row.
GapFree(db) ==
    /\ db.rows \in Seq(Row)
    /\ db.counter = Len(db.rows)
    /\ \A i \in 1..Len(db.rows) :
          db.rows[i].version =
             Cardinality({j \in 1..i : db.rows[j].stream = db.rows[i].stream})

HistoryGapFree == edits = 0 => GapFree(disk) /\ GapFree(work)

\* The marker and its migration records move with the events that need them or not at all.
SchemaCoversEvents ==
    edits = 0 /\ disk.app = "complyroll" =>
        /\ disk.migrations = 1..disk.marker
        /\ \A i \in DOMAIN disk.rows : disk.rows[i].need <= disk.marker

\* A checkpoint never claims an event the log does not hold.
CheckpointsWithinHistory ==
    edits = 0 => \A p \in Projections : disk.checkpoints[p] <= Len(disk.rows)

\* Pages read one statement at a time, between other processes' commits, join into a prefix
\* of the log: nothing skipped or repeated, and nothing of a transaction that is not the
\* reader's own and not committed (read_all, transaction).
PagesArePrefix ==
    edits = 0 => \A c \in Conns :
        /\ Len(seen[c]) <= Len(View(c).rows)
        /\ seen[c] = SubSeq(View(c).rows, 1, Len(seen[c]))

\* No append lands on a stream another process has moved since the caller read its version.
NoLostUpdate ==
    [][\A c \in Conns :
          lock = c /\ pc[c] \in {"single", "block"} /\ work'.counter > work.counter
             => ~overtaken[c]]_vars

\* The store's own steps only ever extend history.
HistoryOnlyGrows ==
    [][edits' = edits => \A i \in DOMAIN disk.rows :
          i \in DOMAIN disk'.rows /\ disk'.rows[i] = disk.rows[i]]_vars

\* No event goes into a file with a hole before its end, a truncated tail, or another
\* program's mark, even when the damage came after this connection's clean open.
NothingAppendedPastDamage ==
    [][DOMAIN disk'.rows # DOMAIN disk.rows /\ edits' = edits =>
          /\ disk.app = "complyroll" /\ disk.marker \in Schemas
          /\ DOMAIN disk.rows = 1..disk.counter]_vars

\* The store never makes a damaged file look whole again: whatever one edit broke (a row
\* deleted or moved, the counter, the marker, a migration record) stays for verify to find.
DamageNeverHealed ==
    [][edits' = edits /\ disk.objects # "none" /\ ~Healthy(disk) => ~Healthy(disk')]_vars

\* An append stores its whole batch, on consecutive rows, or none of it.
BatchesAtomic ==
    edits = 0 => \A i \in DOMAIN disk.rows :
        LET batch == disk.rows[i].batch
        IN \E first \in 1..i :
              /\ first + Len(batch) - 1 \in i..Len(disk.rows)
              /\ \A k \in 1..Len(batch) : disk.rows[first + k - 1].id = batch[k]

\* Whoever takes the write lock gives it back, so one failing writer never wedges the rest.
LockReleased == \A c \in Conns : (lock = c) ~> (lock # c)

\* An open that meets a peer creating the same file waits for it or verifies what it made;
\* it never takes a store half seen for another program's file.
FirstOpenersAgree ==
    [][\A c \in Conns :
          pc[c] \in {"read_objects", "migrations"} /\ pc'[c] = "refused"
             => disk.app # "complyroll" \/ disk.objects # "expected"]_vars

\* An open refuses the counter and the last row only when they disagree in the file.
HealthyCounterOpens ==
    [][\A c \in Conns : pc[c] = "latest" /\ pc'[c] = "refused" => ~CounterIntact(disk)]_vars

\* What the store promises of its log, whoever writes.
Log == INSTANCE EventLog WITH
          log <- disk.rows, mark <- disk.marker

ImplementsEventLog == Log!Spec
=============================================================================
