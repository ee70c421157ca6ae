-------------------------- MODULE EventStoreProofs --------------------------
(***************************************************************************)
(* Theorems about EventStore, for every value of its constants: any number *)
(* of connections, streams, identifiers and projections, any batch and     *)
(* page size.  The first part proves the invariants of the store; the      *)
(* second what a caller of it may rely on: what a reader pages through,    *)
(* what an append may land on, what a commit leaves in the file, and that  *)
(* the file implements EventLog.                                           *)
(***************************************************************************)
EXTENDS EventStore, TLAPS, FiniteSetTheorems, SequenceTheorems

\* Rows numbered without a hole are a sequence.
LEMMA RowSequence ==
    ASSUME NEW k \in Nat, NEW rows, IsRows(rows), DOMAIN rows = 1..k
    PROVE  rows \in Seq(Row) /\ Len(rows) = k
<1>1. rows \in [1..k -> Row]
      BY DEF IsRows
<1> QED BY <1>1

-----------------------------------------------------------------------------
(* Highest, the MAX(...) of the store's queries. *)

\* A finite, nonempty set of numbers has a greatest element.
LEMMA FiniteHasGreatest ==
    ASSUME NEW S \in SUBSET Nat, IsFiniteSet(S), S # {}
    PROVE  \E n \in S : \A m \in S : m <= n
<1> DEFINE Bad == {U \in FiniteSubsetsOf(Nat) :
                     U # {} /\ ~ \E n \in U : \A m \in U : m <= n}
<1>1. SUFFICES ASSUME S \in Bad PROVE FALSE
      BY DEF FiniteSubsetsOf
<1>2. PICK U \in Bad : \A V \in Bad : <<V, U>> \notin StrictSubsetOrdering(Nat)
      BY <1>1, WFMin, FS_StrictSubsetOrderingWellFounded
<1>3. PICK x \in U : TRUE
      OBVIOUS
<1>4. /\ U \ {x} \in FiniteSubsetsOf(Nat)
      /\ U \in FiniteSubsetsOf(Nat)
      BY <1>3, FS_RemoveElement DEF FiniteSubsetsOf
<1>5. U \ {x} \notin Bad
      BY <1>2, <1>3, <1>4 DEF StrictSubsetOrdering, FiniteSubsetsOf
<1>6. CASE U \ {x} = {}
      BY <1>3, <1>4, <1>6 DEF FiniteSubsetsOf
<1>7. CASE U \ {x} # {}
  <2>1. PICK n \in U \ {x} : \A m \in U \ {x} : m <= n
        BY <1>4, <1>5, <1>7
  <2>2. x \in Nat /\ n \in Nat
        BY <1>4 DEF FiniteSubsetsOf
  <2>3. \E k \in U : \A m \in U : m <= k
    <3>1. CASE x <= n
          BY <2>1, <3>1
    <3>2. CASE n < x
          BY <2>1, <2>2, <3>2, <1>4 DEF FiniteSubsetsOf
    <3> QED BY <2>2, <3>1, <3>2
  <2> QED BY <2>3
<1> QED BY <1>6, <1>7

\* MAX over a finite set of numbers: a member of it, or 0 when it is empty.
LEMMA HighestProperties ==
    ASSUME NEW S \in SUBSET Nat, IsFiniteSet(S)
    PROVE  /\ Highest(S) \in Nat
           /\ Highest(S) \in S \cup {0}
           /\ \A m \in S : m <= Highest(S)
<1>1. \E n \in S \cup {0} : \A m \in S : m <= n
  <2>1. CASE S = {}
        BY <2>1
  <2>2. CASE S # {}
        BY <2>2, FiniteHasGreatest
  <2> QED BY <2>1, <2>2
<1>2. Highest(S) \in S \cup {0} /\ \A m \in S : m <= Highest(S)
      BY <1>1, Zenon DEF Highest
<1>3. S \cup {0} \subseteq Nat
      OBVIOUS
<1> QED BY <1>2, <1>3

\* MAX of 1, 2, ..., n.
LEMMA HighestOfInterval ==
    ASSUME NEW n \in Nat
    PROVE  Highest(1..n) = n
<1>1. IsFiniteSet(1..n) /\ 1..n \in SUBSET Nat
      BY FS_Interval
<1>2. /\ Highest(1..n) \in 1..n \cup {0}
      /\ \A m \in 1..n : m <= Highest(1..n)
      BY <1>1, HighestProperties
<1> QED BY <1>2

\* The versions of one stream are finitely many numbers.
LEMMA VersionsFinite ==
    ASSUME NEW db, IsRows(db.rows), NEW s
    PROVE  /\ RowsOf(db, s) \subseteq DOMAIN db.rows /\ IsFiniteSet(RowsOf(db, s))
           /\ Versions(db, s) \in SUBSET (Nat \ {0}) /\ IsFiniteSet(Versions(db, s))
           /\ StreamVersion(db, s) \in Nat
           /\ Latest(db) \in Nat /\ \A i \in DOMAIN db.rows : i <= Latest(db)
<1>1. RowsOf(db, s) \subseteq DOMAIN db.rows /\ IsFiniteSet(RowsOf(db, s))
      BY FS_Subset DEF RowsOf, IsRows
<1>2. Versions(db, s) \in SUBSET (Nat \ {0})
      BY DEF Versions, RowsOf, IsRows, Row
<1>3. IsFiniteSet(Versions(db, s))
  <2> DEFINE version == [i \in RowsOf(db, s) |-> db.rows[i].version]
  <2>1. version \in Surjection(RowsOf(db, s), Versions(db, s))
        BY DEF Surjection, Versions
  <2> QED BY <1>1, <2>1, FS_Surjection
<1>4. StreamVersion(db, s) \in Nat
      BY <1>2, <1>3, HighestProperties DEF StreamVersion
<1>5. Latest(db) \in Nat /\ \A i \in DOMAIN db.rows : i <= Latest(db)
      BY HighestProperties DEF Latest, IsRows
<1> QED BY <1>1, <1>2, <1>3, <1>4, <1>5

-----------------------------------------------------------------------------
(* Type correctness. *)

\* A batch is a nonempty sequence of identifiers.
LEMMA BatchType ==
    ASSUME NEW events \in Batches
    PROVE  /\ events \in Seq(EventIds) /\ Len(events) \in 1..MaxBatch
           /\ \A i \in 1..Len(events) : events[i] \in EventIds
BY ConstantsAssumption DEF Batches, Injection

\* Recording the schema an event needs leaves a well-formed file with the same history.
LEMMA MarkSchemaType ==
    ASSUME NEW db, IsFile(db), NEW need \in Schemas
    PROVE  /\ IsFile(MarkSchema(db, need))
           /\ MarkSchema(db, need).rows = db.rows
           /\ MarkSchema(db, need).counter = db.counter
           /\ MarkSchema(db, need).objects = db.objects
<1>1. /\ db.migrations \cup (db.marker + 1)..need \in SUBSET (1..Supported + 1)
      /\ need \in 0..Supported + 1
      BY ConstantsAssumption DEF IsFile, Schemas
<1>2. \/ MarkSchema(db, need) = db
      \/ MarkSchema(db, need) = WithMark(db, need, db.migrations \cup (db.marker + 1)..need)
      BY DEF MarkSchema
<1> QED BY <1>1, <1>2 DEF WithMark, IsFile

\* Inserting the first events of a batch leaves a well-formed file and every row it had.
LEMMA InsertType ==
    ASSUME NEW db, IsFile(db), NEW s \in Streams, NEW events \in Batches,
           NEW k \in 0..Len(events), NEW need \in Schemas
    PROVE  LET new == Insert(db, s, events, k, need)
           IN  /\ IsFile(new)
               /\ new.rows = InsertedRows(db, s, events, k, need)
               /\ new.counter = IF k = 0 THEN db.counter ELSE LastNumber(db) + k
               /\ new.objects = db.objects
<1> DEFINE last == LastNumber(db)
           rows == InsertedRows(db, s, events, k, need)
<1>1. /\ IsRows(db.rows) /\ Len(events) \in Nat
      /\ last \in Nat /\ StreamVersion(db, s) \in Nat
      BY VersionsFinite, BatchType DEF IsFile, LastNumber
<1>2. IsRows(rows)
  <2>1. DOMAIN rows = DOMAIN db.rows \cup last + 1..last + k
        BY DEF InsertedRows
  <2>2. DOMAIN rows \subseteq Nat \ {0}
        BY <1>1, <2>1 DEF IsRows
  <2>3. IsFiniteSet(DOMAIN rows)
    <3>1. IsFiniteSet(DOMAIN db.rows)
          BY <1>1 DEF IsRows
    <3>2. IsFiniteSet(last + 1..last + k)
          BY <1>1, FS_Interval
    <3>3. IsFiniteSet(DOMAIN db.rows \cup last + 1..last + k)
          BY <3>1, <3>2, FS_Union, Zenon
    <3> QED BY <2>1, <3>3
  <2>4. ASSUME NEW i \in DOMAIN rows PROVE rows[i] \in Row
    <3>1. CASE i \in DOMAIN db.rows
          BY <3>1, <2>1, <1>1 DEF InsertedRows, IsRows
    <3>2. CASE i \notin DOMAIN db.rows
      <4>1. i - last \in 1..Len(events)
            BY <3>2, <2>1, <1>1
      <4>2. events[i - last] \in EventIds
            BY <4>1, BatchType
      <4>3. rows[i] = [stream |-> s, version |-> StreamVersion(db, s) + (i - last),
                       id |-> events[i - last], need |-> need, batch |-> events]
            BY <3>2, <2>1 DEF InsertedRows
      <4>4. StreamVersion(db, s) + (i - last) \in Nat \ {0}
            BY <4>1, <1>1
      <4> QED BY <4>2, <4>3, <4>4 DEF Row
    <3> QED BY <3>1, <3>2
  <2>5. rows = [i \in DOMAIN rows |-> rows[i]]
        BY DEF InsertedRows
  <2> QED BY <2>2, <2>3, <2>4, <2>5 DEF IsRows
<1>3. (IF k = 0 THEN db.counter ELSE last + k) \in Nat
      BY <1>1 DEF IsFile
<1> HIDE DEF last, rows
<1>4. Insert(db, s, events, k, need)
         = WithLog(db, rows, IF k = 0 THEN db.counter ELSE last + k)
      BY DEF Insert, last, rows
<1>5. /\ IsFile(WithLog(db, rows, IF k = 0 THEN db.counter ELSE last + k))
      /\ WithLog(db, rows, IF k = 0 THEN db.counter ELSE last + k).rows = rows
      /\ WithLog(db, rows, IF k = 0 THEN db.counter ELSE last + k).counter
            = IF k = 0 THEN db.counter ELSE last + k
      /\ WithLog(db, rows, IF k = 0 THEN db.counter ELSE last + k).objects = db.objects
      BY <1>2, <1>3 DEF WithLog, IsFile
<1> QED BY <1>4, <1>5 DEF last, rows

\* Every file a run starts from is well formed and holds no history.
LEMMA FirstFileType ==
    ASSUME NEW db \in FirstFiles
    PROVE  IsFile(db) /\ db.rows = <<>> /\ db.counter = 0
<1>1. ASSUME NEW app \in AppIds, NEW marker \in 0..Supported + 1, NEW objects \in Objects,
             NEW migrations \in SUBSET (1..Supported + 1)
      PROVE  LET new == NewFile(app, marker, objects, migrations)
             IN  IsFile(new) /\ new.rows = <<>> /\ new.counter = 0
  <2>1. IsRows(<<>>)
        BY FS_EmptySet DEF IsRows
  <2> QED BY <2>1 DEF NewFile, IsFile
<1>2. db \in {EmptyFile, CreatedFile, ForeignFile, UnmarkedFile, NewerFile}
      BY FirstFilesAssumption
<1>3. /\ 0 \in 0..Supported + 1 /\ 1 \in 0..Supported + 1
      /\ Supported + 1 \in 0..Supported + 1
      /\ {} \in SUBSET (1..Supported + 1) /\ {1} \in SUBSET (1..Supported + 1)
      /\ 1..Supported + 1 \in SUBSET (1..Supported + 1)
      BY ConstantsAssumption
<1>4. {"none", "complyroll", "other"} \subseteq AppIds
      /\ {"none", "expected", "altered"} \subseteq Objects
      BY DEF AppIds, Objects
<1> QED BY <1>1, <1>2, <1>3, <1>4
        DEF EmptyFile, CreatedFile, ForeignFile, UnmarkedFile, NewerFile

\* The file the constructor creates.
LEMMA CreatedFileType == IsFile(CreatedFile) /\ CreatedFile.rows = <<>>
<1>1. IsRows(<<>>)
      BY FS_EmptySet DEF IsRows
<1> QED BY <1>1, ConstantsAssumption DEF CreatedFile, NewFile, IsFile, AppIds, Objects

LEMMA InitType == Init => TypeOK
<1> SUFFICES ASSUME Init PROVE TypeOK
    OBVIOUS
<1>1. IsFile(disk) /\ IsFile(work)
      BY FirstFileType DEF Init
<1>2. /\ pc \in [Conns -> Phases]
      /\ reg \in [Conns -> [app : AppIds, marker : 0..Supported + 1, objects : Objects,
                           counter : Nat]]
      BY ConstantsAssumption DEF Init, NothingRead, AppIds, Objects, Phases
<1>3. noted \in [Conns -> [stream : Streams, version : Nat]]
      BY DEF Init, NewStream
<1>4. seen \in [Conns -> Seq(Row)] /\ overtaken \in [Conns -> BOOLEAN]
      BY DEF Init
<1> QED BY <1>1, <1>2, <1>3, <1>4 DEF Init, TypeOK

\* Opening reads the file into reg, and creates it when it is empty.
LEMMA OpenStepType ==
    ASSUME TypeOK, NEW c \in Conns, OpenStep(c)
    PROVE  TypeOK'
<1> USE DEF TypeOK, Goto, Forget, Judge, FileKept, Unheard, Phases, Opening, InWrite
<1>1. NothingRead \in [app : AppIds, marker : 0..Supported + 1, objects : Objects,
                       counter : Nat]
      BY ConstantsAssumption DEF NothingRead, AppIds, Objects
<1>2. /\ disk.app \in AppIds /\ disk.marker \in 0..Supported + 1
      /\ disk.objects \in Objects /\ disk.counter \in Nat
      /\ work.marker \in 0..Supported + 1
      BY DEF IsFile
<1> DEFINE Learned == [reg EXCEPT ![c].objects = disk.objects]
<1>3. Learned \in [Conns -> [app : AppIds, marker : 0..Supported + 1, objects : Objects,
                              counter : Nat]]
       BY <1>2
<1>4. [reg EXCEPT ![c] = NothingRead]
          \in [Conns -> [app : AppIds, marker : 0..Supported + 1, objects : Objects,
                        counter : Nat]]
       BY <1>1
<1>5. CASE Open(c)                BY <1>5 DEF Open
<1>6. CASE OpenReadApp(c)         BY <1>2, <1>6 DEF OpenReadApp
<1>7. CASE OpenReadMarker(c)      BY <1>2, <1>7 DEF OpenReadMarker
<1>8. CASE OpenReadObjects(c)
  <2>1. reg' = Learned \/ reg' = [reg EXCEPT ![c] = NothingRead]
        BY <1>8 DEF OpenReadObjects
  <2>2. pc' \in [Conns -> Phases]
        BY <1>8 DEF OpenReadObjects
  <2> HIDE DEF Learned
  <2> QED BY <1>8, <1>3, <1>4, <2>1, <2>2 DEF OpenReadObjects
<1>9. CASE OpenBeginInitialize(c) BY <1>9 DEF OpenBeginInitialize
<1>10. CASE OpenBusy(c)            BY <1>1, <1>10 DEF OpenBusy
<1>11. CASE OpenInitialize(c)      BY <1>1, <1>11, CreatedFileType DEF OpenInitialize
<1>12. CASE OpenRefuseUnmarked(c) BY <1>1, <1>12 DEF OpenRefuseUnmarked
<1>13. CASE OpenAfterPeer(c)      BY <1>2, <1>13 DEF OpenAfterPeer
<1>14. CASE OpenRereadApp(c)      BY <1>2, <1>14 DEF OpenRereadApp
<1>15. CASE OpenRereadObjects(c)
  <2>1. reg' = Learned \/ reg' = [reg EXCEPT ![c] = NothingRead]
        BY <1>15 DEF OpenRereadObjects
  <2>2. pc' \in [Conns -> Phases]
        BY <1>15 DEF OpenRereadObjects
  <2> HIDE DEF Learned
  <2>3. reg' \in [Conns -> [app : AppIds, marker : 0..Supported + 1, objects : Objects,
                            counter : Nat]]
        BY <1>3, <1>4, <2>1
  <2>4. UNCHANGED <<disk, work, lock, noted, seen, edits, overtaken>>
        BY <1>15 DEF OpenRereadObjects
  <2> QED BY <2>2, <2>3, <2>4
<1>16. CASE OpenVerifySchema(c)
  <2>1. reg' = reg \/ reg' = [reg EXCEPT ![c] = NothingRead]
        BY <1>16 DEF OpenVerifySchema
  <2>2. pc' \in [Conns -> Phases]
        BY <1>16 DEF OpenVerifySchema
  <2>3. reg' \in [Conns -> [app : AppIds, marker : 0..Supported + 1, objects : Objects,
                            counter : Nat]]
        BY <1>4, <2>1
  <2>4. UNCHANGED <<disk, work, lock, noted, seen, edits, overtaken>>
        BY <1>16 DEF OpenVerifySchema
  <2> QED BY <2>2, <2>3, <2>4
<1>17. CASE OpenReadCounter(c)    BY <1>2, <1>17 DEF OpenReadCounter
<1>18. CASE OpenReadLatest(c)
  <2>1. reg' = reg \/ reg' = [reg EXCEPT ![c] = NothingRead]
        BY <1>18 DEF OpenReadLatest
  <2>2. pc' \in [Conns -> Phases]
        BY <1>18 DEF OpenReadLatest
  <2> QED BY <1>18, <1>4, <2>1, <2>2 DEF OpenReadLatest
<1>19. CASE OpenCheckHistory(c)   BY <1>1, <1>19 DEF OpenCheckHistory
<1> QED BY <1>5, <1>6, <1>7, <1>8, <1>9, <1>10, <1>11, <1>12, <1>13, <1>14, <1>15, <1>16,
           <1>17, <1>18, <1>19 DEF OpenStep

\* Reading moves rows of the file, in order, to the caller.
LEMMA ReadStepType ==
    ASSUME TypeOK, NEW c \in Conns, ReadStep(c)
    PROVE  TypeOK'
<1>1. IsFile(View(c)) /\ IsRows(View(c).rows)
      BY DEF TypeOK, View, IsFile
<1>2. ASSUME NEW s \in Streams, ReadVersion(c, s) PROVE TypeOK'
  <2>1. StreamVersion(View(c), s) \in Nat
        BY <1>1, VersionsFinite
  <2>2. noted' \in [Conns -> [stream : Streams, version : Nat]]
        BY <1>2, <2>1 DEF ReadVersion, TypeOK
  <2> QED BY <1>2, <2>2 DEF ReadVersion, TypeOK, FileKept
<1>3. CASE ReadPage(c)
  <2> DEFINE rows  == View(c).rows
             after == Len(seen[c])
             page  == {i \in DOMAIN rows :
                         /\ i > after
                         /\ Cardinality({j \in DOMAIN rows : after < j /\ j < i})
                               < PageLimit}
             read  == [k \in 1..Cardinality(page) |-> rows[after + k]]
  <2>1. /\ page = after + 1 .. after + Cardinality(page)
        /\ seen' = [seen EXCEPT ![c] = @ \o read]
        BY <1>3 DEF ReadPage
  <2>2. /\ after \in Nat /\ seen[c] \in Seq(Row)
        /\ page \subseteq DOMAIN rows /\ Cardinality(page) \in Nat
    <3>1. IsFiniteSet(page)
          BY <1>1, FS_Subset DEF IsRows
    <3> QED BY <3>1, FS_CardinalityType DEF TypeOK
  <2>3. \A k \in 1..Cardinality(page) : after + k \in page
    <3> HIDE DEF page, after
    <3> QED BY <2>1, <2>2
  <2>4. \A k \in 1..Cardinality(page) : rows[after + k] \in Row
        BY <1>1, <2>2, <2>3 DEF IsRows
  <2>5. read \in Seq(Row)
    <3> HIDE DEF page, rows, after
    <3> QED BY <2>2, <2>4
  <2>6. seen' \in [Conns -> Seq(Row)]
    <3> HIDE DEF read
    <3> QED BY <2>1, <2>2, <2>5 DEF TypeOK
  <2> HIDE DEF read, page, rows, after
  <2> QED BY <1>3, <2>6 DEF ReadPage, TypeOK, FileKept
<1> QED BY <1>2, <1>3 DEF ReadStep

\* An append writes events of known streams, identifiers and schemas.
LEMMA AppendStepType ==
    ASSUME TypeOK, NEW c \in Conns, AppendStep(c)
    PROVE  TypeOK'
<1> USE DEF TypeOK, Goto, Forget, FileKept, Unheard, Phases, Opening, InWrite
<1>1. Returned(c) \in Phases /\ Raised(c) \in Phases
      BY DEF Returned, Raised
<1>2. noted[c].stream \in Streams
      OBVIOUS
<1>3. ASSUME NEW need \in Schemas, AppendRefused(c, need) PROVE TypeOK'
      BY <1>1, <1>3 DEF AppendRefused
<1>4. ASSUME NEW need \in Schemas, NEW events \in Batches, NEW k \in 0..Len(events),
             work' = Insert(MarkSchema(work, need), noted[c].stream, events, k, need)
      PROVE  IsFile(work')
      BY <1>2, <1>4, MarkSchemaType, InsertType
<1>5. ASSUME NEW need \in Schemas, NEW events \in Batches, AppendEvents(c, events, need)
      PROVE  TypeOK'
  <2>1. Len(events) \in 0..Len(events)
        BY BatchType
  <2>2. IsFile(work')
        BY <1>4, <1>5, <2>1 DEF AppendEvents
  <2> QED BY <1>1, <1>5, <2>2 DEF AppendEvents
<1>6. ASSUME NEW need \in Schemas, NEW events \in Batches, AppendConflict(c, events, need)
      PROVE  TypeOK'
  <2>1. PICK k \in 0..Len(events) - 1 :
               work' = Insert(MarkSchema(work, need), noted[c].stream, events, k, need)
        BY <1>6 DEF AppendConflict
  <2>2. k \in 0..Len(events)
        BY BatchType
  <2>3. IsFile(work')
        BY <1>4, <2>1, <2>2
  <2> QED BY <1>1, <1>6, <2>3 DEF AppendConflict
<1> QED BY <1>3, <1>5, <1>6 DEF AppendStep

LEMMA ProjectionStepType ==
    ASSUME TypeOK, NEW c \in Conns, ProjectionStep(c)
    PROVE  TypeOK'
<1> USE DEF TypeOK, Goto, Unheard, Phases, Opening, InWrite
<1>1. Returned(c) \in Phases /\ Raised(c) \in Phases
      BY DEF Returned, Raised
<1>2. ASSUME NEW p \in Projections, NEW n \in Nat,
             work' = [work EXCEPT !.checkpoints[p] = n]
      PROVE  IsFile(work')
      BY <1>2 DEF IsFile
<1>3. ASSUME NEW p \in Projections, NEW expected \in 0..MaxEvents,
             ResetProjection(c, p, expected)
      PROVE  TypeOK'
  <2>1. IsFile(work')
        BY <1>2, <1>3 DEF ResetProjection
  <2>2. pc' \in [Conns -> Phases]
        BY <1>1, <1>3 DEF ResetProjection
  <2> QED BY <1>3, <2>1, <2>2 DEF ResetProjection
<1>4. ASSUME NEW p \in Projections, NEW expected \in 0..MaxEvents, NEW last \in 0..MaxEvents,
             AdvanceProjection(c, p, expected, last)
      PROVE  TypeOK'
  <2>1. IsFile(work')
        BY <1>2, <1>4 DEF AdvanceProjection
  <2>2. pc' \in [Conns -> Phases]
        BY <1>1, <1>4 DEF AdvanceProjection
  <2> QED BY <1>4, <2>1, <2>2 DEF AdvanceProjection
<1> QED BY <1>3, <1>4 DEF ProjectionStep

\* Taking the lock, ending a transaction by any way, and stopping.
LEMMA LockStepType ==
    ASSUME TypeOK, NEW c \in Conns,
           BeginBlock(c) \/ BeginSingle(c) \/ EndStep(c) \/ Catch(c) \/ Stop(c)
    PROVE  TypeOK'
<1> USE DEF TypeOK, Goto, Forget, FileKept, Unheard, Phases, Opening, InWrite
<1>1. CASE BeginBlock(c) BY <1>1 DEF BeginBlock
<1>2. CASE BeginSingle(c) BY <1>2 DEF BeginSingle
<1>3. CASE Catch(c) BY <1>3 DEF Catch
<1>4. CASE Commit(c)
  <2>1. IsFile(disk') /\ IsFile(work')
        BY <1>4 DEF Commit
  <2> QED BY <1>4, <2>1 DEF Commit
<1>5. ASSUME NEW phase \in Phases, Dropped(c, phase) PROVE TypeOK'
      BY <1>5 DEF Dropped, NewStream
<1>6. CASE CommitFails(c) \/ Rollback(c) \/ Abandon(c)
      BY <1>5, <1>6 DEF CommitFails, Rollback, Abandon
<1>7. CASE Stop(c)
  <2>1. IsFile(disk') /\ IsFile(work')
        BY <1>7 DEF Stop
  <2>2. reg' \in [Conns -> [app : AppIds, marker : 0..Supported + 1, objects : Objects,
                           counter : Nat]]
        BY <1>7, ConstantsAssumption DEF Stop, NothingRead, AppIds, Objects
  <2> QED BY <1>7, <2>1, <2>2 DEF Stop, NewStream
<1> QED BY <1>1, <1>2, <1>3, <1>4, <1>6, <1>7 DEF EndStep

\* An edit leaves a file SQLite can still read.
LEMMA EditType ==
    ASSUME TypeOK, EditOutOfBand
    PROVE  TypeOK'
<1>1. ASSUME NEW db, IsFile(db), NEW new \in EditedFiles(db) PROVE IsFile(new)
  <2> USE <1>1 DEF IsFile
  <2>1. CASE new \in RowDeleted(db)
    <3>1. PICK i \in DOMAIN db.rows :
                 new = [db EXCEPT !.rows = Restrict(db.rows, DOMAIN db.rows \ {i})]
          BY <2>1 DEF RowDeleted
    <3>2. IsRows(Restrict(db.rows, DOMAIN db.rows \ {i}))
      <4>1. IsFiniteSet(DOMAIN db.rows \ {i})
            BY FS_RemoveElement DEF IsRows
      <4> QED BY <4>1 DEF IsRows, Restrict
    <3> QED BY <3>1, <3>2
  <2>2. CASE new \in RowMoved(db)
    <3>1. PICK i \in DOMAIN db.rows, s \in Streams : new = [db EXCEPT !.rows[i].stream = s]
          BY <2>2 DEF RowMoved, FreeStreams
    <3> DEFINE row == [db.rows[i] EXCEPT !.stream = s]
    <3>2. db.rows[i] \in Row
          BY DEF IsRows
    <3>3. row \in Row
          BY <3>2 DEF Row
    <3> HIDE DEF row
    <3>4. IsRows([db.rows EXCEPT ![i] = row])
          BY <3>3 DEF IsRows
    <3>5. new = [db EXCEPT !.rows = [db.rows EXCEPT ![i] = row]]
          BY <3>1 DEF row
    <3> QED BY <3>4, <3>5
  <2>3. CASE new \in CounterLowered(db)   BY <2>3 DEF CounterLowered
  <2>4. CASE new \in MarkerRewritten(db)  BY <2>4 DEF MarkerRewritten
  <2>5. CASE new \in MigrationDeleted(db) BY <2>5 DEF MigrationDeleted
  <2>6. CASE new \in AppRewritten(db)     BY <2>6 DEF AppRewritten
  <2>7. CASE new \in ObjectsAltered(db)   BY <2>7 DEF ObjectsAltered, Objects
  <2> QED BY <2>1, <2>2, <2>3, <2>4, <2>5, <2>6, <2>7 DEF EditedFiles
<1>2. IsFile(disk') /\ IsFile(work')
      BY <1>1 DEF EditOutOfBand, TypeOK
<1> QED BY <1>2 DEF EditOutOfBand, Unheard, TypeOK

\* Every state of the store is well typed, whatever the constants.
THEOREM TypeCorrect == Spec => []TypeOK
<1>1. Init => TypeOK
      BY InitType
<1>2. TypeOK /\ [Next]_vars => TypeOK'
  <2> SUFFICES ASSUME TypeOK, [Next]_vars PROVE TypeOK'
      OBVIOUS
  <2>1. CASE UNCHANGED vars
        BY <2>1 DEF vars, TypeOK
  <2>2. CASE Next
        BY <2>2, OpenStepType, ReadStepType, AppendStepType, ProjectionStepType,
           LockStepType, EditType DEF Next
  <2> QED BY <2>1, <2>2
<1> QED BY <1>1, <1>2, PTL DEF Spec

-----------------------------------------------------------------------------
(* The write lock. *)

\* A transaction that has just taken the lock has nothing pending yet.
FreshLock == \A c \in Conns : pc[c] \in {"locked", "single"} => work = disk

LockInv == LockOnlyInsideWrite /\ FreshLock

LEMMA OpenStepLock ==
    ASSUME TypeOK, LockInv, NEW c \in Conns, OpenStep(c)
    PROVE  LockInv'
<1> USE ConstantsAssumption
    DEF LockInv, LockOnlyInsideWrite, FreshLock, InWrite, Goto, FileKept, Unheard
<1>1. pc \in [Conns -> Phases]
      BY DEF TypeOK
<1>2. CASE Open(c) \/ OpenReadApp(c) \/ OpenReadMarker(c) \/ OpenReadObjects(c)
      BY <1>1, <1>2 DEF Open, OpenReadApp, OpenReadMarker, OpenReadObjects
<1>3. CASE OpenBeginInitialize(c)
      BY <1>1, <1>3 DEF OpenBeginInitialize
<1>4. CASE OpenBusy(c)
      BY <1>1, <1>4 DEF OpenBusy
<1>5. CASE OpenInitialize(c)
      BY <1>1, <1>5 DEF OpenInitialize
<1>6. CASE OpenRefuseUnmarked(c)
      BY <1>1, <1>6 DEF OpenRefuseUnmarked
<1>7. CASE OpenAfterPeer(c)
      BY <1>1, <1>7 DEF OpenAfterPeer
<1>8. CASE OpenRereadApp(c) \/ OpenRereadObjects(c)
      BY <1>1, <1>8 DEF OpenRereadApp, OpenRereadObjects
<1>9. CASE OpenVerifySchema(c) \/ OpenReadCounter(c) \/ OpenReadLatest(c)
      BY <1>1, <1>9 DEF OpenVerifySchema, OpenReadCounter, OpenReadLatest, Judge
<1>10. CASE OpenCheckHistory(c)
       BY <1>1, <1>10 DEF OpenCheckHistory
<1> QED BY <1>2, <1>3, <1>4, <1>5, <1>6, <1>7, <1>8, <1>9, <1>10 DEF OpenStep

LEMMA WriteStepLock ==
    ASSUME TypeOK, LockInv, NEW c \in Conns,
           BeginBlock(c) \/ BeginSingle(c) \/ AppendStep(c) \/ ProjectionStep(c)
    PROVE  LockInv'
<1> USE ConstantsAssumption
    DEF LockInv, LockOnlyInsideWrite, FreshLock, InWrite, Goto, FileKept, Unheard
<1>1. pc \in [Conns -> Phases]
      BY DEF TypeOK
<1>2. CASE BeginBlock(c)
      BY <1>1, <1>2 DEF BeginBlock
<1>3. CASE BeginSingle(c)
      BY <1>1, <1>3 DEF BeginSingle
<1>4. ASSUME pc[c] \in {"single", "block"}, lock' = lock,
             \E phase \in {"commit", "block", "failed", "raised"} : Goto(c, phase)
      PROVE  LockInv'
      BY <1>1, <1>4
<1>5. /\ Returned(c) \in {"commit", "block", "failed", "raised"}
      /\ Raised(c) \in {"commit", "block", "failed", "raised"}
      BY DEF Returned, Raised
<1>6. CASE AppendStep(c)
      BY <1>4, <1>5, <1>6 DEF AppendStep, AppendRefused, AppendEvents, AppendConflict
<1>7. CASE ProjectionStep(c)
      BY <1>4, <1>5, <1>7 DEF ProjectionStep, AdvanceProjection, ResetProjection
<1> QED BY <1>2, <1>3, <1>6, <1>7

LEMMA EndStepLock ==
    ASSUME TypeOK, LockInv, NEW c \in Conns, EndStep(c) \/ Catch(c) \/ Stop(c)
    PROVE  LockInv'
<1> USE ConstantsAssumption
    DEF LockInv, LockOnlyInsideWrite, FreshLock, InWrite, Goto, FileKept, Unheard
<1>1. pc \in [Conns -> Phases]
      BY DEF TypeOK
<1>2. CASE Commit(c)
      BY <1>1, <1>2 DEF Commit
<1>3. ASSUME NEW phase \in {"ready", "closed"}, Dropped(c, phase), pc[c] \in InWrite
      PROVE  LockInv'
      BY <1>1, <1>3 DEF Dropped
<1>4. CASE CommitFails(c) \/ Rollback(c) \/ Abandon(c)
      BY <1>3, <1>4 DEF CommitFails, Rollback, Abandon
<1>5. CASE Catch(c)
      BY <1>1, <1>5 DEF Catch
<1>6. CASE Stop(c)
      BY <1>1, <1>6 DEF Stop
<1> QED BY <1>2, <1>4, <1>5, <1>6 DEF EndStep

LEMMA LockInvariant == Spec => []LockInv
<1>1. Init => LockInv
      BY ConstantsAssumption DEF Init, LockInv, LockOnlyInsideWrite, FreshLock, InWrite
<1>2. TypeOK /\ LockInv /\ [Next]_vars => LockInv'
  <2> SUFFICES ASSUME TypeOK, LockInv, [Next]_vars PROVE LockInv'
      OBVIOUS
  <2> USE DEF LockInv, LockOnlyInsideWrite, FreshLock
  <2>1. ASSUME NEW c \in Conns, ReadStep(c) PROVE LockInv'
        BY <2>1 DEF ReadStep, ReadPage, ReadVersion, FileKept
  <2>2. CASE EditOutOfBand
        BY <2>2 DEF EditOutOfBand
  <2>3. CASE UNCHANGED vars
        BY <2>3 DEF vars
  <2> QED BY <2>1, <2>2, <2>3, OpenStepLock, WriteStepLock, EndStepLock DEF Next
<1> QED BY <1>1, <1>2, TypeCorrect, PTL DEF Spec

\* A connection holds the lock exactly while it is inside a write transaction, and nothing is
\* pending when nobody is: no failed COMMIT, failed ROLLBACK or crash leaves it held
\* (_write_transaction).
THEOREM LockReturned == Spec => []LockOnlyInsideWrite
<1>1. LockInv => LockOnlyInsideWrite
      BY DEF LockInv
<1> QED BY <1>1, LockInvariant, PTL

-----------------------------------------------------------------------------
(* History only grows. *)

\* What the lock holder has pending extends what is committed.
WorkExtendsDisk ==
    \A i \in DOMAIN disk.rows : i \in DOMAIN work.rows /\ work.rows[i] = disk.rows[i]

\* A file with no schema holds no history and no marker.
EmptyUntilCreated ==
    \A db \in {disk, work} : db.objects = "none" => DOMAIN db.rows = {} /\ db.marker = 0

GrowthInv == WorkExtendsDisk /\ EmptyUntilCreated

\* What an append leaves in the file the lock holder sees.
LEMMA AppendedFile ==
    ASSUME NEW db, IsFile(db), NEW s \in Streams, NEW events \in Batches,
           NEW k \in 0..Len(events), NEW need \in Schemas
    PROVE  LET new == Insert(MarkSchema(db, need), s, events, k, need)
           IN  /\ \A i \in DOMAIN db.rows : i \in DOMAIN new.rows /\ new.rows[i] = db.rows[i]
               /\ new.objects = db.objects
<1>1. /\ IsFile(MarkSchema(db, need)) /\ MarkSchema(db, need).rows = db.rows
      /\ MarkSchema(db, need).objects = db.objects
      BY MarkSchemaType
<1> DEFINE marked == MarkSchema(db, need)
<1> HIDE DEF marked
<1>2. /\ Insert(marked, s, events, k, need).rows = InsertedRows(marked, s, events, k, need)
      /\ Insert(marked, s, events, k, need).objects = marked.objects
      BY <1>1, InsertType DEF marked
<1> QED BY <1>1, <1>2 DEF InsertedRows, marked

LEMMA AppendStepGrows ==
    ASSUME TypeOK, GrowthInv, NEW c \in Conns, AppendStep(c)
    PROVE  GrowthInv'
<1> USE DEF GrowthInv, WorkExtendsDisk, EmptyUntilCreated
<1>1. IsFile(work) /\ noted[c].stream \in Streams
      BY DEF TypeOK
<1>2. ASSUME NEW need \in Schemas, NEW events \in Batches, NEW k \in 0..Len(events),
             AppendAllowed(c, need), disk' = disk,
             work' = Insert(MarkSchema(work, need), noted[c].stream, events, k, need)
      PROVE  GrowthInv'
  <2>1. /\ \A i \in DOMAIN work.rows : i \in DOMAIN work'.rows /\ work'.rows[i] = work.rows[i]
        /\ work'.objects = work.objects
        BY <1>1, <1>2, AppendedFile
  <2>2. work.objects # "none"
        BY <1>2 DEF AppendAllowed, MarkRefused, Schemas
  <2> QED BY <1>2, <2>1, <2>2
<1>3. ASSUME NEW need \in Schemas, AppendRefused(c, need) PROVE GrowthInv'
      BY <1>3 DEF AppendRefused, FileKept
<1>4. ASSUME NEW need \in Schemas, NEW events \in Batches, AppendEvents(c, events, need)
      PROVE  GrowthInv'
  <2>1. Len(events) \in 0..Len(events)
        BY BatchType
  <2> QED BY <1>2, <1>4, <2>1 DEF AppendEvents
<1>5. ASSUME NEW need \in Schemas, NEW events \in Batches, AppendConflict(c, events, need)
      PROVE  GrowthInv'
  <2>1. PICK k \in 0..Len(events) - 1 :
               work' = Insert(MarkSchema(work, need), noted[c].stream, events, k, need)
        BY <1>5 DEF AppendConflict
  <2>2. k \in 0..Len(events)
        BY BatchType
  <2> QED BY <1>2, <1>5, <2>1, <2>2 DEF AppendConflict
<1> QED BY <1>3, <1>4, <1>5 DEF AppendStep

LEMMA ProjectionStepGrows ==
    ASSUME TypeOK, GrowthInv, NEW c \in Conns, ProjectionStep(c)
    PROVE  GrowthInv'
<1>1. /\ disk' = disk
      /\ \/ work' = work
         \/ \E p \in Projections, n \in Nat : work' = [work EXCEPT !.checkpoints[p] = n]
  <2>1. ASSUME NEW p \in Projections, NEW expected \in 0..MaxEvents,
               ResetProjection(c, p, expected)
        PROVE  <1>1!2 /\ disk' = disk
        BY <2>1 DEF ResetProjection
  <2>2. ASSUME NEW p \in Projections, NEW expected \in 0..MaxEvents,
               NEW last \in 0..MaxEvents, AdvanceProjection(c, p, expected, last)
        PROVE  <1>1!2 /\ disk' = disk
        BY <2>2 DEF AdvanceProjection
  <2> QED BY <2>1, <2>2 DEF ProjectionStep
<1>2. work'.rows = work.rows /\ work'.objects = work.objects /\ work'.marker = work.marker
      BY <1>1 DEF TypeOK, IsFile
<1> QED BY <1>1, <1>2 DEF GrowthInv, WorkExtendsDisk, EmptyUntilCreated

\* Every other step keeps the file, commits or drops what is pending, or creates the store.
LEMMA OtherStepGrows ==
    ASSUME TypeOK, LockInv, GrowthInv, NEW c \in Conns,
           \/ OpenStep(c) \/ ReadStep(c) \/ BeginBlock(c) \/ BeginSingle(c)
           \/ EndStep(c) \/ Catch(c) \/ Stop(c)
    PROVE  GrowthInv'
<1> USE DEF GrowthInv, WorkExtendsDisk, EmptyUntilCreated
<1>1. CASE OpenInitialize(c)
      BY <1>1, CreatedFileType DEF OpenInitialize, CreatedFile, NewFile
<1>2. CASE OpenStep(c) /\ ~OpenInitialize(c)
      BY <1>2 DEF OpenStep, Open, OpenReadApp, OpenReadMarker, OpenReadObjects,
         OpenBeginInitialize, OpenBusy, OpenRefuseUnmarked, OpenAfterPeer, OpenRereadApp,
         OpenRereadObjects, OpenVerifySchema, OpenReadCounter, OpenReadLatest,
         OpenCheckHistory, FileKept
<1>3. CASE ReadStep(c) \/ BeginBlock(c) \/ BeginSingle(c) \/ Catch(c)
      BY <1>3 DEF ReadStep, ReadPage, ReadVersion, BeginBlock, BeginSingle, Catch, FileKept
<1>4. CASE EndStep(c)
      BY <1>4 DEF EndStep, Commit, CommitFails, Rollback, Abandon, Dropped
<1>5. CASE Stop(c)
      BY <1>5 DEF Stop
<1> QED BY <1>1, <1>2, <1>3, <1>4, <1>5

\* An edit never removes the schema, so it cannot make a store look like an empty file.
LEMMA EditKeepsObjects ==
    ASSUME NEW db, IsFile(db), db.objects # "none", NEW new \in EditedFiles(db)
    PROVE  new.objects # "none"
<1> USE DEF IsFile
<1>1. CASE new \in RowDeleted(db)
      BY <1>1 DEF RowDeleted
<1>4. CASE new \in RowMoved(db)
  <2>1. PICK i \in DOMAIN db.rows, s \in Streams : new = [db EXCEPT !.rows[i].stream = s]
        BY <1>4 DEF RowMoved, FreeStreams
  <2> DEFINE moved == [db.rows EXCEPT ![i] = [db.rows[i] EXCEPT !.stream = s]]
  <2>2. new = [db EXCEPT !.rows = moved]
        BY <2>1
  <2> HIDE DEF moved
  <2> QED BY <2>2
<1>2. CASE new \in CounterLowered(db) \cup MarkerRewritten(db) \cup MigrationDeleted(db)
      BY <1>2 DEF CounterLowered, MarkerRewritten, MigrationDeleted
<1>3. CASE new \in AppRewritten(db) \cup ObjectsAltered(db)
      BY <1>3 DEF AppRewritten, ObjectsAltered
<1> QED BY <1>1, <1>2, <1>3, <1>4 DEF EditedFiles

LEMMA GrowthInvariant == Spec => [](TypeOK /\ LockInv /\ GrowthInv)
<1>1. Init => GrowthInv
  <2> SUFFICES ASSUME Init PROVE GrowthInv
      OBVIOUS
  <2>1. disk \in {EmptyFile, CreatedFile, ForeignFile, UnmarkedFile, NewerFile}
        BY FirstFilesAssumption DEF Init
  <2>2. DOMAIN disk.rows = {}
        BY FirstFileType DEF Init
  <2>3. disk.objects = "none" => disk.marker = 0
        BY <2>1 DEF EmptyFile, CreatedFile, ForeignFile, UnmarkedFile, NewerFile, NewFile
  <2> QED BY <2>2, <2>3 DEF Init, GrowthInv, WorkExtendsDisk, EmptyUntilCreated
<1>2. TypeOK /\ LockInv /\ GrowthInv /\ [Next]_vars => GrowthInv'
  <2> SUFFICES ASSUME TypeOK, LockInv, GrowthInv, [Next]_vars PROVE GrowthInv'
      OBVIOUS
  <2>1. CASE EditOutOfBand
    <3>1. disk'.objects # "none"
          BY <2>1, EditKeepsObjects DEF EditOutOfBand, TypeOK
    <3> QED BY <2>1, <3>1 DEF EditOutOfBand, GrowthInv, WorkExtendsDisk, EmptyUntilCreated
  <2>2. CASE UNCHANGED vars
        BY <2>2 DEF vars, GrowthInv, WorkExtendsDisk, EmptyUntilCreated
  <2> QED BY <2>1, <2>2, AppendStepGrows, ProjectionStepGrows, OtherStepGrows DEF Next
<1> QED BY <1>1, <1>2, TypeCorrect, LockInvariant, PTL DEF Spec

\* The store's own steps never remove, renumber or rewrite a committed event: not an append,
\* a rollback, a crash or the creation of the file (append, _write_transaction,
\* _initialize_schema_unchecked).
THEOREM CommittedHistoryStays == Spec => HistoryOnlyGrows
<1>1. TypeOK /\ LockInv /\ GrowthInv /\ [Next]_vars
         => [edits' = edits => \A i \in DOMAIN disk.rows :
                i \in DOMAIN disk'.rows /\ disk'.rows[i] = disk.rows[i]]_vars
  <2> SUFFICES ASSUME TypeOK, LockInv, GrowthInv, Next, edits' = edits,
                      NEW i \in DOMAIN disk.rows
               PROVE  i \in DOMAIN disk'.rows /\ disk'.rows[i] = disk.rows[i]
      BY DEF vars
  <2>1. ~EditOutOfBand
        BY DEF EditOutOfBand, TypeOK
  <2>2. PICK c \in Conns :
               \/ OpenStep(c) \/ ReadStep(c) \/ BeginBlock(c) \/ BeginSingle(c)
               \/ AppendStep(c) \/ ProjectionStep(c) \/ EndStep(c) \/ Catch(c) \/ Stop(c)
        BY <2>1 DEF Next
  <2>3. CASE OpenInitialize(c)
    <3>1. work.objects = "none" /\ i \in DOMAIN work.rows
          BY <2>3 DEF OpenInitialize, GrowthInv, WorkExtendsDisk
    <3> QED BY <3>1 DEF GrowthInv, EmptyUntilCreated
  <2>4. CASE Commit(c)
        BY <2>4 DEF Commit, GrowthInv, WorkExtendsDisk
  <2>5. CASE ~OpenInitialize(c) /\ ~Commit(c)
    <3>1. CASE OpenStep(c)
          BY <2>5, <3>1 DEF OpenStep, Open, OpenReadApp, OpenReadMarker, OpenReadObjects,
             OpenBeginInitialize, OpenBusy, OpenRefuseUnmarked, OpenAfterPeer,
             OpenRereadApp, OpenRereadObjects, OpenVerifySchema, OpenReadCounter,
             OpenReadLatest, OpenCheckHistory, FileKept
    <3>2. CASE ReadStep(c) \/ BeginBlock(c) \/ BeginSingle(c) \/ Catch(c) \/ Stop(c)
          BY <3>2 DEF ReadStep, ReadPage, ReadVersion, BeginBlock, BeginSingle, Catch, Stop,
             FileKept
    <3>3. CASE AppendStep(c) \/ ProjectionStep(c)
          BY <3>3 DEF AppendStep, AppendRefused, AppendEvents, AppendConflict,
             ProjectionStep, AdvanceProjection, ResetProjection, FileKept
    <3>4. CASE EndStep(c)
          BY <2>5, <3>4 DEF EndStep, CommitFails, Rollback, Abandon, Dropped
    <3> QED BY <2>2, <3>1, <3>2, <3>3, <3>4
  <2> QED BY <2>3, <2>4, <2>5
<1> QED BY <1>1, GrowthInvariant, PTL DEF Spec, HistoryOnlyGrows

-----------------------------------------------------------------------------
(* History without holes. *)

\* The rows of a stream up to row i of a log.
Before(rows, i, s) == {j \in 1..i : rows[j].stream = s}

\* In a gap-free file the last row, the counter and the number of rows agree.
LEMMA GapFreeLatest ==
    ASSUME NEW db, IsFile(db), GapFree(db)
    PROVE  /\ Len(db.rows) \in Nat /\ DOMAIN db.rows = 1..Len(db.rows)
           /\ Latest(db) = Len(db.rows) /\ LastNumber(db) = Len(db.rows)
<1>1. Len(db.rows) \in Nat /\ DOMAIN db.rows = 1..Len(db.rows)
      BY LenProperties DEF GapFree
<1>2. Latest(db) = Len(db.rows)
      BY <1>1, HighestOfInterval DEF Latest
<1> QED BY <1>1, <1>2 DEF LastNumber, GapFree

LEMMA BeforeFinite ==
    ASSUME NEW rows, NEW i \in Nat, NEW s
    PROVE  IsFiniteSet(Before(rows, i, s)) /\ Cardinality(Before(rows, i, s)) \in Nat
<1>1. IsFiniteSet(1..i)
      BY FS_Interval
<1>2. IsFiniteSet(Before(rows, i, s))
      BY <1>1, FS_Subset DEF Before
<1> QED BY <1>2, FS_CardinalityType

\* A stream of a gap-free file holds exactly the versions from 1 to the number of its rows,
\* so the version after its last is the count of its events plus one.
LEMMA GapFreeVersions ==
    ASSUME NEW db, IsFile(db), GapFree(db), NEW s
    PROVE  /\ Versions(db, s) = 1..Cardinality(RowsOf(db, s))
           /\ StreamVersion(db, s) = Cardinality(RowsOf(db, s))
           /\ RowsOf(db, s) = Before(db.rows, Len(db.rows), s)
<1> DEFINE n == Len(db.rows)
           m == Cardinality(RowsOf(db, s))
           version == [i \in RowsOf(db, s) |-> db.rows[i].version]
<1>1. n \in Nat /\ DOMAIN db.rows = 1..n
      BY GapFreeLatest
<1>2. RowsOf(db, s) = Before(db.rows, n, s)
      BY <1>1 DEF RowsOf, Before
<1>3. IsFiniteSet(RowsOf(db, s)) /\ m \in Nat
      BY <1>1, <1>2, BeforeFinite
<1>4. ASSUME NEW i \in RowsOf(db, s)
      PROVE  /\ i \in 1..n /\ version[i] = Cardinality(Before(db.rows, i, s))
             /\ i \in Before(db.rows, i, s)
             /\ Before(db.rows, i, s) \in SUBSET RowsOf(db, s)
      BY <1>1 DEF RowsOf, Before, GapFree
<1>5. ASSUME NEW i \in RowsOf(db, s) PROVE version[i] \in 1..m
  <2>1. /\ IsFiniteSet(Before(db.rows, i, s)) /\ version[i] \in Nat
        /\ Before(db.rows, i, s) # {}
        BY <1>4, BeforeFinite
  <2>2. version[i] <= m
        BY <1>3, <1>4, FS_Subset
  <2>3. version[i] # 0
        BY <1>4, <2>1, FS_EmptySet
  <2> HIDE DEF version, m
  <2> QED BY <1>3, <2>1, <2>2, <2>3
<1>6. ASSUME NEW i \in RowsOf(db, s), NEW j \in RowsOf(db, s), i < j
      PROVE  version[i] # version[j]
  <2>1. /\ Before(db.rows, i, s) \in SUBSET Before(db.rows, j, s)
        /\ j \notin Before(db.rows, i, s) /\ j \in Before(db.rows, j, s)
    <3>1. i \in Nat /\ j \in Nat
          BY <1>1, <1>4
    <3>2. j \in Before(db.rows, j, s)
          BY <1>4
    <3>3. /\ Before(db.rows, i, s) \in SUBSET Before(db.rows, j, s)
          /\ j \notin Before(db.rows, i, s)
          BY <3>1, <1>6 DEF Before
    <3> QED BY <3>2, <3>3
  <2>2. IsFiniteSet(Before(db.rows, j, s))
        BY <1>4, BeforeFinite
  <2>3. Cardinality(Before(db.rows, j, s)) # Cardinality(Before(db.rows, i, s))
        BY <2>1, <2>2, FS_Subset
  <2> QED BY <1>4, <2>3
<1>7. version \in Injection(RowsOf(db, s), 1..m)
  <2>1. version \in [RowsOf(db, s) -> 1..m]
        BY <1>5
  <2>2. \A i, j \in RowsOf(db, s) : version[i] = version[j] => i = j
        BY <1>1, <1>4, <1>6
  <2> HIDE DEF version, m
  <2> QED BY <2>1, <2>2 DEF Injection, IsInjective
<1>8. version \in Surjection(RowsOf(db, s), 1..m)
  <2>1. IsFiniteSet(1..m) /\ Cardinality(1..m) = m
        BY <1>3, FS_Interval
  <2> HIDE DEF version
  <2> QED BY <1>7, <2>1, FS_Injection
<1>9. Versions(db, s) = 1..m
  <2>1. Versions(db, s) = {version[i] : i \in RowsOf(db, s)}
        BY DEF Versions
  <2> HIDE DEF version, m
  <2> QED BY <1>5, <1>8, <2>1 DEF Surjection
<1>10. StreamVersion(db, s) = m
       BY <1>3, <1>9, HighestOfInterval DEF StreamVersion
<1> QED BY <1>2, <1>9, <1>10

\* Inserting events at the end of a gap-free file leaves it gap-free.
LEMMA InsertGapFree ==
    ASSUME NEW db, IsFile(db), GapFree(db), NEW s \in Streams, NEW events \in Batches,
           NEW k \in 0..Len(events), NEW need \in Schemas
    PROVE  GapFree(Insert(db, s, events, k, need))
<1> DEFINE n   == Len(db.rows)
           new == Insert(db, s, events, k, need)
<1>1. /\ n \in Nat /\ DOMAIN db.rows = 1..n /\ LastNumber(db) = n /\ db.counter = n
      /\ k \in Nat
      BY GapFreeLatest, BatchType DEF GapFree
<1>2. /\ IsFile(new) /\ IsRows(new.rows) /\ new.rows = InsertedRows(db, s, events, k, need)
      /\ new.counter = IF k = 0 THEN n ELSE n + k
      BY <1>1, InsertType DEF IsFile
<1>3. DOMAIN new.rows = 1..n + k
      BY <1>1, <1>2 DEF InsertedRows
<1>4. /\ \A i \in 1..n : new.rows[i] = db.rows[i]
      /\ \A i \in n + 1..n + k : /\ new.rows[i].stream = s
                                 /\ new.rows[i].version = StreamVersion(db, s) + (i - n)
      BY <1>1, <1>2, <1>3 DEF InsertedRows
<1> HIDE DEF new
<1>5. new.rows \in Seq(Row) /\ Len(new.rows) = n + k
  <2>1. n + k \in Nat
        BY <1>1
  <2> QED BY <1>2, <1>3, <2>1, RowSequence
<1>6. new.counter = n + k
      BY <1>1, <1>2
<1>7. ASSUME NEW i \in 1..n
      PROVE  new.rows[i].version = Cardinality(Before(new.rows, i, new.rows[i].stream))
  <2>1. Before(new.rows, i, new.rows[i].stream) = Before(db.rows, i, db.rows[i].stream)
    <3>1. i \in Nat /\ new.rows[i] = db.rows[i]
          BY <1>1, <1>4
    <3>2. \A j \in 1..i : new.rows[j] = db.rows[j]
          BY <1>1, <1>4
    <3> QED BY <3>1, <3>2 DEF Before
  <2>2. db.rows[i].version = Cardinality(Before(db.rows, i, db.rows[i].stream))
        BY DEF GapFree, Before
  <2> QED BY <1>4, <2>1, <2>2
<1>8. ASSUME NEW i \in n + 1..n + k
      PROVE  new.rows[i].version = Cardinality(Before(new.rows, i, s))
  <2>1. Before(new.rows, i, s) = Before(db.rows, n, s) \cup (n + 1..i)
    <3>1. i \in Nat /\ 1..i = (1..n) \cup (n + 1..i) /\ n + 1..i \subseteq n + 1..n + k
          BY <1>1
    <3>2. \A j \in 1..n : new.rows[j] = db.rows[j]
          BY <1>4
    <3>3. \A j \in n + 1..i : new.rows[j].stream = s
          BY <1>4, <3>1
    <3> QED BY <3>1, <3>2, <3>3, Zenon DEF Before
  <2>2. Before(db.rows, n, s) \cap (n + 1..i) = {}
        BY <1>1 DEF Before
  <2>3. /\ IsFiniteSet(Before(db.rows, n, s)) /\ Cardinality(Before(db.rows, n, s)) \in Nat
        /\ IsFiniteSet(n + 1..i) /\ Cardinality(n + 1..i) = i - n
    <3>1. n + 1 \in Int /\ i \in Int /\ n + 1 <= i
          BY <1>1
    <3>2. IsFiniteSet(n + 1..i) /\ Cardinality(n + 1..i) = i - (n + 1) + 1
          BY <3>1, FS_Interval
    <3> QED BY <1>1, <3>1, <3>2, BeforeFinite
  <2>4. Cardinality(Before(new.rows, i, s)) = Cardinality(Before(db.rows, n, s)) + (i - n)
    <3> DEFINE old   == Before(db.rows, n, s)
               added == n + 1..i
    <3>1. Cardinality(old \cup added)
             = Cardinality(old) + Cardinality(added) - Cardinality(old \cap added)
      <4> HIDE DEF old, added
      <4> QED BY <2>3, FS_Union DEF old, added
    <3>2. Cardinality(old \cap added) = 0
          BY <2>2, FS_EmptySet
    <3> HIDE DEF old, added
    <3> QED BY <1>1, <2>1, <2>3, <3>1, <3>2 DEF old, added
  <2> QED BY <1>4, <2>4, GapFreeVersions
<1>9. ASSUME NEW i \in 1..Len(new.rows)
      PROVE  new.rows[i].version = Cardinality({j \in 1..i :
                                                   new.rows[j].stream = new.rows[i].stream})
  <2>1. i \in 1..n \/ i \in n + 1..n + k
        BY <1>1, <1>5
  <2> QED BY <1>4, <1>7, <1>8, <2>1 DEF Before
<1> QED BY <1>5, <1>6, <1>9 DEF GapFree, new

\* A file created or found empty holds no event, so it has no hole.
LEMMA EmptyGapFree ==
    ASSUME NEW db, db.rows = <<>>, db.counter = 0
    PROVE  GapFree(db)
BY EmptySeq DEF GapFree

\* The log and every stream stay numbered 1, 2, 3, ... without a hole, committed or pending,
\* through every interleaving, failed batch, rollback and crash, until another program edits
\* the file (append, _current_stream_version, _write_transaction).
THEOREM NoHoles == Spec => []HistoryGapFree
<1>1. Init => HistoryGapFree
      BY FirstFileType, EmptyGapFree DEF Init, HistoryGapFree
<1>2. TypeOK /\ HistoryGapFree /\ [Next]_vars => HistoryGapFree'
  <2> SUFFICES ASSUME TypeOK, HistoryGapFree, [Next]_vars, edits' = 0
               PROVE  GapFree(disk)' /\ GapFree(work)'
      BY DEF HistoryGapFree
  <2>1. ~EditOutOfBand
        BY DEF EditOutOfBand, TypeOK
  <2>2. CASE UNCHANGED vars
        BY <2>2 DEF vars, HistoryGapFree
  <2>3. ASSUME NEW c \in Conns, OpenStep(c) PROVE GapFree(disk)' /\ GapFree(work)'
    <3>1. GapFree(CreatedFile)
          BY EmptyGapFree DEF CreatedFile, NewFile
    <3> QED BY <2>3, <3>1 DEF OpenStep, Open, OpenReadApp, OpenReadMarker, OpenReadObjects,
            OpenBeginInitialize, OpenBusy, OpenInitialize, OpenRefuseUnmarked,
            OpenAfterPeer, OpenRereadApp, OpenRereadObjects, OpenVerifySchema,
            OpenReadCounter, OpenReadLatest, OpenCheckHistory, FileKept, HistoryGapFree
  <2>4. ASSUME NEW c \in Conns,
               \/ ReadStep(c) \/ BeginBlock(c) \/ BeginSingle(c)
               \/ EndStep(c) \/ Catch(c) \/ Stop(c)
        PROVE  GapFree(disk)' /\ GapFree(work)'
        BY <2>4 DEF ReadStep, ReadPage, ReadVersion, BeginBlock, BeginSingle, Catch, EndStep,
           Commit, CommitFails, Rollback, Abandon, Dropped, Stop, FileKept, HistoryGapFree
  <2>5. ASSUME NEW c \in Conns, ProjectionStep(c) PROVE GapFree(disk)' /\ GapFree(work)'
    <3>1. disk' = disk /\ edits' = edits /\ work'.rows = work.rows
          /\ work'.counter = work.counter
          BY <2>5 DEF ProjectionStep, AdvanceProjection, ResetProjection, TypeOK, IsFile
    <3> QED BY <3>1 DEF GapFree, HistoryGapFree
  <2>6. ASSUME NEW c \in Conns, AppendStep(c) PROVE GapFree(disk)' /\ GapFree(work)'
    <3>1. ASSUME NEW need \in Schemas, NEW events \in Batches, NEW k \in 0..Len(events),
                 work' = Insert(MarkSchema(work, need), noted[c].stream, events, k, need),
                 GapFree(work)
          PROVE  GapFree(work')
      <4> DEFINE marked == MarkSchema(work, need)
      <4>1. IsFile(marked) /\ marked.rows = work.rows /\ marked.counter = work.counter
            BY MarkSchemaType DEF TypeOK
      <4> HIDE DEF marked
      <4>2. GapFree(marked)
            BY <3>1, <4>1 DEF GapFree
      <4>3. noted[c].stream \in Streams
            BY DEF TypeOK
      <4> QED BY <3>1, <4>1, <4>2, <4>3, InsertGapFree DEF marked
    <3>2. disk' = disk /\ edits' = edits
          BY <2>6 DEF AppendStep, AppendRefused, AppendEvents, AppendConflict, FileKept
    <3>3. GapFree(work')
      <4>1. ASSUME NEW need \in Schemas, AppendRefused(c, need) PROVE GapFree(work')
            BY <3>2, <4>1 DEF AppendRefused, FileKept, HistoryGapFree
      <4>2. ASSUME NEW need \in Schemas, NEW events \in Batches,
                   AppendEvents(c, events, need)
            PROVE  GapFree(work')
        <5>1. Len(events) \in 0..Len(events)
              BY BatchType
        <5> QED BY <3>1, <3>2, <4>2, <5>1 DEF AppendEvents, HistoryGapFree
      <4>3. ASSUME NEW need \in Schemas, NEW events \in Batches,
                   AppendConflict(c, events, need)
            PROVE  GapFree(work')
        <5>1. PICK k \in 0..Len(events) - 1 :
                 work' = Insert(MarkSchema(work, need), noted[c].stream, events, k, need)
              BY <4>3 DEF AppendConflict
        <5>2. k \in 0..Len(events)
              BY BatchType
        <5> QED BY <3>1, <3>2, <5>1, <5>2 DEF HistoryGapFree
      <4> QED BY <2>6, <4>1, <4>2, <4>3 DEF AppendStep
    <3> QED BY <3>2, <3>3 DEF HistoryGapFree
  <2> QED BY <2>1, <2>2, <2>3, <2>4, <2>5, <2>6 DEF Next
<1> QED BY <1>1, <1>2, TypeCorrect, PTL DEF Spec

-----------------------------------------------------------------------------
(* How one step of the store changes the file. *)

FileUnchanged == disk' = disk /\ work' = work

Created ==
    /\ work = disk /\ disk.objects = "none"
    /\ disk' = CreatedFile /\ work' = CreatedFile

Committed == \E c \in Conns : Commit(c)

Discarded == disk' = disk /\ work' = disk

\* An append put the first k events of a batch into the pending file.
Appended ==
    \E c \in Conns, need \in Schemas, events \in Batches : \E k \in 0..Len(events) :
        /\ AppendAllowed(c, need)
        /\ \A i \in 1..k : events[i] \notin Ids(work)
        /\ disk' = disk
        /\ work' = Insert(MarkSchema(work, need), noted[c].stream, events, k, need)

Projected ==
    /\ disk' = disk
    /\ \E p \in Projections, n \in Nat :
          n <= Latest(work) /\ work' = [work EXCEPT !.checkpoints[p] = n]

LEMMA AppendStepFile ==
    ASSUME TypeOK, NEW c \in Conns, AppendStep(c)
    PROVE  FileUnchanged \/ Appended
<1>1. ASSUME NEW need \in Schemas, AppendRefused(c, need) PROVE FileUnchanged
      BY <1>1 DEF AppendRefused, FileKept, FileUnchanged
<1>2. ASSUME NEW need \in Schemas, NEW events \in Batches, AppendEvents(c, events, need)
      PROVE  Appended
  <2>1. Len(events) \in 0..Len(events)
        BY BatchType
  <2> QED BY <1>2, <2>1 DEF AppendEvents, Appended
<1>3. ASSUME NEW need \in Schemas, NEW events \in Batches, AppendConflict(c, events, need)
      PROVE  Appended
  <2>1. PICK k \in 0..Len(events) - 1 :
           /\ \A i \in 1..k : events[i] \notin Ids(work)
           /\ work' = Insert(MarkSchema(work, need), noted[c].stream, events, k, need)
        BY <1>3 DEF AppendConflict
  <2>2. k \in 0..Len(events)
        BY BatchType
  <2> QED BY <1>3, <2>1, <2>2 DEF AppendConflict, Appended
<1> QED BY <1>1, <1>2, <1>3 DEF AppendStep

LEMMA ProjectionStepFile ==
    ASSUME TypeOK, NEW c \in Conns, ProjectionStep(c)
    PROVE  FileUnchanged \/ Projected
<1>1. ASSUME NEW p \in Projections, NEW expected \in 0..MaxEvents,
             ResetProjection(c, p, expected)
      PROVE  FileUnchanged \/ Projected
  <2>1. Latest(work) \in Nat
        BY VersionsFinite DEF TypeOK, IsFile
  <2> QED BY <1>1, <2>1 DEF ResetProjection, FileUnchanged, Projected
<1>2. ASSUME NEW p \in Projections, NEW expected \in 0..MaxEvents,
             NEW last \in 0..MaxEvents, AdvanceProjection(c, p, expected, last)
      PROVE  FileUnchanged \/ Projected
      BY <1>2, ConstantsAssumption DEF AdvanceProjection, FileUnchanged, Projected
<1> QED BY <1>1, <1>2 DEF ProjectionStep

LEMMA FileStep ==
    ASSUME TypeOK, LockInv, [Next]_vars, edits' = edits
    PROVE  FileUnchanged \/ Created \/ Committed \/ Discarded \/ Appended \/ Projected
<1>1. ~EditOutOfBand
      BY DEF EditOutOfBand, TypeOK
<1>2. CASE UNCHANGED vars
      BY <1>2 DEF vars, FileUnchanged
<1>3. ASSUME NEW c \in Conns, OpenInitialize(c) PROVE Created
      BY <1>3 DEF OpenInitialize, Created, LockInv, FreshLock
<1>4. ASSUME NEW c \in Conns, OpenStep(c), ~OpenInitialize(c) PROVE FileUnchanged
      BY <1>4 DEF OpenStep, Open, OpenReadApp, OpenReadMarker, OpenReadObjects,
         OpenBeginInitialize, OpenBusy, OpenRefuseUnmarked, OpenAfterPeer, OpenRereadApp,
         OpenRereadObjects, OpenVerifySchema, OpenReadCounter, OpenReadLatest,
         OpenCheckHistory, FileKept, FileUnchanged
<1>5. ASSUME NEW c \in Conns, ReadStep(c) \/ BeginBlock(c) \/ BeginSingle(c) \/ Catch(c)
      PROVE  FileUnchanged
      BY <1>5 DEF ReadStep, ReadPage, ReadVersion, BeginBlock, BeginSingle, Catch, FileKept,
         FileUnchanged
<1>6. ASSUME NEW c \in Conns, EndStep(c) PROVE Committed \/ Discarded
      BY <1>6 DEF EndStep, CommitFails, Rollback, Abandon, Dropped, Committed, Discarded
<1>7. ASSUME NEW c \in Conns, Stop(c) PROVE FileUnchanged \/ Discarded
      BY <1>7 DEF Stop, FileUnchanged, Discarded
<1> QED BY <1>1, <1>2, <1>3, <1>4, <1>5, <1>6, <1>7, AppendStepFile, ProjectionStepFile
        DEF Next

\* No step of the store counts as an edit.
LEMMA NoEdit ==
    ASSUME Next, ~EditOutOfBand
    PROVE  edits' = edits
<1>1. ASSUME NEW c \in Conns, OpenStep(c) PROVE edits' = edits
      BY <1>1 DEF OpenStep, Open, OpenReadApp, OpenReadMarker, OpenReadObjects,
         OpenBeginInitialize, OpenBusy, OpenInitialize, OpenRefuseUnmarked, OpenAfterPeer,
         OpenRereadApp, OpenRereadObjects, OpenVerifySchema, OpenReadCounter, OpenReadLatest,
         OpenCheckHistory, FileKept
<1>2. ASSUME NEW c \in Conns, ReadStep(c) \/ BeginBlock(c) \/ BeginSingle(c) \/ Catch(c)
      PROVE  edits' = edits
      BY <1>2 DEF ReadStep, ReadPage, ReadVersion, BeginBlock, BeginSingle, Catch, FileKept
<1>3. ASSUME NEW c \in Conns, AppendStep(c) \/ ProjectionStep(c) PROVE edits' = edits
      BY <1>3 DEF AppendStep, AppendRefused, AppendEvents, AppendConflict, ProjectionStep,
         AdvanceProjection, ResetProjection, FileKept
<1>4. ASSUME NEW c \in Conns, EndStep(c) \/ Stop(c) PROVE edits' = edits
      BY <1>4 DEF EndStep, Commit, CommitFails, Rollback, Abandon, Dropped, Stop
<1> QED BY <1>1, <1>2, <1>3, <1>4 DEF Next

\* A file once edited stays so, and one that is not edited has not just been.
LEMMA EditsOnlyGrow ==
    ASSUME TypeOK, [Next]_vars, edits' = 0
    PROVE  edits = 0 /\ edits' = edits
<1>1. CASE EditOutOfBand
      BY <1>1 DEF EditOutOfBand, TypeOK
<1>2. CASE UNCHANGED vars
      BY <1>2 DEF vars
<1> QED BY <1>1, <1>2, NoEdit

-----------------------------------------------------------------------------
(* What an append leaves. *)

\* The pending file after an append of the first k events: the log it had with k rows more,
\* and the mark the events need.
LEMMA AppendLeaves ==
    ASSUME NEW db, IsFile(db), NEW s \in Streams, NEW events \in Batches,
           NEW k \in 0..Len(events), NEW need \in Schemas
    PROVE  LET new    == Insert(MarkSchema(db, need), s, events, k, need)
               marked == MarkSchema(db, need)
           IN  /\ IsFile(new)
               /\ new.rows = InsertedRows(db, s, events, k, need)
               /\ new.counter = IF k = 0 THEN db.counter ELSE LastNumber(db) + k
               /\ new.app = db.app /\ new.objects = db.objects
               /\ new.marker = marked.marker /\ new.migrations = marked.migrations
               /\ new.checkpoints = db.checkpoints
<1> DEFINE marked == MarkSchema(db, need)
           new    == Insert(marked, s, events, k, need)
<1>1. /\ IsFile(marked) /\ marked.rows = db.rows /\ marked.counter = db.counter
      /\ marked.objects = db.objects
      BY MarkSchemaType
<1>2. marked.app = db.app /\ marked.checkpoints = db.checkpoints
      BY DEF MarkSchema, WithMark
<1> HIDE DEF marked
<1>3. /\ IsFile(new) /\ new.rows = InsertedRows(marked, s, events, k, need)
      /\ new.counter = IF k = 0 THEN marked.counter ELSE LastNumber(marked) + k
      /\ new.objects = marked.objects
      BY <1>1, InsertType
<1>4. /\ new.app = marked.app /\ new.marker = marked.marker
      /\ new.migrations = marked.migrations /\ new.checkpoints = marked.checkpoints
      BY DEF Insert, WithLog
<1>5. LastNumber(marked) = LastNumber(db) /\ StreamVersion(marked, s) = StreamVersion(db, s)
      BY <1>1 DEF LastNumber, Latest, StreamVersion, Versions, RowsOf
<1>6. InsertedRows(marked, s, events, k, need) = InsertedRows(db, s, events, k, need)
      BY <1>1, <1>5 DEF InsertedRows
<1> QED BY <1>1, <1>2, <1>3, <1>4, <1>5, <1>6 DEF marked

\* A log and the log with k events of one batch after it, row by row.
Joined(rows, new, last, s, version, events, k, need) ==
    /\ last \in Nat /\ k \in Nat /\ \A i \in DOMAIN rows : i \in Nat /\ i <= last
    /\ DOMAIN new = DOMAIN rows \cup (last + 1..last + k)
    /\ \A i \in DOMAIN rows : new[i] = rows[i]
    /\ \A i \in last + 1..last + k :
          /\ new[i].stream = s /\ new[i].need = need /\ new[i].batch = events
          /\ new[i].id = events[i - last] /\ new[i].version = version + (i - last)

LEMMA RowsAdded ==
    ASSUME NEW db, IsFile(db), NEW s \in Streams, NEW events \in Batches,
           NEW k \in 0..Len(events), NEW need \in Schemas
    PROVE  Joined(db.rows, InsertedRows(db, s, events, k, need), LastNumber(db), s,
                  StreamVersion(db, s), events, k, need)
<1> DEFINE last == LastNumber(db)
           rows == InsertedRows(db, s, events, k, need)
<1>1. /\ last \in Nat /\ k \in Nat /\ \A i \in DOMAIN db.rows : i \in Nat /\ i <= last
  <2>1. Latest(db) \in Nat /\ db.counter \in Nat /\ \A i \in DOMAIN db.rows : i <= Latest(db)
        BY VersionsFinite DEF IsFile
  <2>2. \A i \in DOMAIN db.rows : i \in Nat
        BY DEF IsFile, IsRows
  <2> QED BY <2>1, <2>2, BatchType DEF LastNumber
<1>2. DOMAIN rows = DOMAIN db.rows \cup (last + 1..last + k)
      BY DEF InsertedRows
<1>3. \A i \in DOMAIN db.rows : rows[i] = db.rows[i]
      BY DEF InsertedRows
<1>4. ASSUME NEW i \in last + 1..last + k
      PROVE  rows[i] = [stream |-> s, version |-> StreamVersion(db, s) + (i - last),
                        id |-> events[i - last], need |-> need, batch |-> events]
      BY <1>1, <1>4 DEF InsertedRows
<1>5. ASSUME NEW i \in last + 1..last + k
      PROVE  /\ rows[i].stream = s /\ rows[i].need = need /\ rows[i].batch = events
             /\ rows[i].id = events[i - last]
             /\ rows[i].version = StreamVersion(db, s) + (i - last)
  <2>1. rows[i] = [stream |-> s, version |-> StreamVersion(db, s) + (i - last),
                   id |-> events[i - last], need |-> need, batch |-> events]
        BY <1>4, <1>5
  <2> HIDE DEF last, rows
  <2> QED BY <2>1
<1> QED BY <1>1, <1>2, <1>3, <1>5 DEF Joined

-----------------------------------------------------------------------------
(* The schema mark and its migration records. *)

Covered(db) ==
    db.app = "complyroll" =>
        /\ db.migrations = 1..db.marker
        /\ \A i \in DOMAIN db.rows : db.rows[i].need <= db.marker

\* The mark is raised before the rows that need it, in the same pending file.
LEMMA AppendCovered ==
    ASSUME NEW db, IsFile(db), Covered(db), NEW s \in Streams, NEW events \in Batches,
           NEW k \in 0..Len(events), NEW need \in Schemas,
           db.app = "complyroll", db.marker \in Schemas
    PROVE  Covered(Insert(MarkSchema(db, need), s, events, k, need))
<1> DEFINE new == Insert(MarkSchema(db, need), s, events, k, need)
<1>1. /\ db.marker \in Nat /\ need \in Nat \ {0}
      /\ \A i \in DOMAIN db.rows : db.rows[i].need \in Nat
      BY ConstantsAssumption DEF Schemas, IsFile, IsRows, Row
<1>2. /\ new.marker = MarkSchema(db, need).marker
      /\ new.migrations = MarkSchema(db, need).migrations
      /\ new.rows = InsertedRows(db, s, events, k, need)
      BY AppendLeaves
<1> HIDE DEF new
<1>3. /\ new.marker = (IF db.marker >= need THEN db.marker ELSE need)
      /\ new.migrations = (IF db.marker >= need THEN db.migrations
                           ELSE db.migrations \cup (db.marker + 1)..need)
      BY <1>2 DEF MarkSchema, WithMark
<1>4. new.migrations = 1..new.marker
  <2>1. CASE db.marker >= need
        BY <1>3, <2>1 DEF Covered
  <2>2. CASE ~(db.marker >= need)
    <3>1. new.migrations = 1..db.marker \cup (db.marker + 1)..need /\ new.marker = need
          BY <1>3, <2>2 DEF Covered
    <3> QED BY <1>1, <2>2, <3>1
  <2> QED BY <2>1, <2>2
<1>5. Joined(db.rows, new.rows, LastNumber(db), s, StreamVersion(db, s), events, k, need)
      BY <1>2, RowsAdded
<1>6. ASSUME NEW i \in DOMAIN new.rows PROVE new.rows[i].need <= new.marker
  <2>1. CASE i \in DOMAIN db.rows
    <3>1. new.rows[i] = db.rows[i]
          BY <1>5, <2>1 DEF Joined
    <3>2. db.rows[i].need <= db.marker
          BY <2>1 DEF Covered
    <3> QED BY <1>1, <1>3, <2>1, <3>1, <3>2
  <2>2. CASE i \notin DOMAIN db.rows
    <3>1. new.rows[i].need = need
      <4>1. DOMAIN new.rows = DOMAIN db.rows
                                 \cup (LastNumber(db) + 1..LastNumber(db) + k)
            BY <1>5 DEF Joined
      <4>2. i \in LastNumber(db) + 1..LastNumber(db) + k
            BY <1>6, <2>2, <4>1
      <4> QED BY <1>5, <4>2 DEF Joined
    <3> QED BY <1>1, <1>3, <3>1
  <2> QED BY <2>1, <2>2
<1> QED BY <1>4, <1>6 DEF Covered, new

CoverInv == edits = 0 => Covered(disk) /\ Covered(work)

\* The marker and its migration records move with the events that need them: no commit leaves
\* an event an older build would misread behind a mark that build accepts, however batches,
\* refusals, rollbacks and crashes interleave (_mark_schema, append).
THEOREM MarkCoversHistory == Spec => []SchemaCoversEvents
<1>1. Init => CoverInv
  <2> SUFFICES ASSUME Init PROVE Covered(disk)
      BY DEF CoverInv, Init
  <2>1. disk \in {EmptyFile, CreatedFile, ForeignFile, UnmarkedFile, NewerFile}
        BY FirstFilesAssumption DEF Init
  <2>2. DOMAIN disk.rows = {}
        BY FirstFileType DEF Init
  <2>3. disk.app = "complyroll" => disk.migrations = 1..disk.marker
    <3>1. CASE disk = CreatedFile
      <4>1. disk.migrations = {1} /\ disk.marker = 1
            BY <3>1 DEF CreatedFile, NewFile
      <4> QED BY <4>1
    <3>2. CASE disk = NewerFile
          BY <3>2 DEF NewerFile, NewFile
    <3>3. CASE disk \in {EmptyFile, ForeignFile, UnmarkedFile}
          BY <3>3 DEF EmptyFile, ForeignFile, UnmarkedFile, NewFile
    <3> QED BY <2>1, <3>1, <3>2, <3>3
  <2> QED BY <2>2, <2>3 DEF Covered
<1>2. TypeOK /\ LockInv /\ CoverInv /\ [Next]_vars => CoverInv'
  <2> SUFFICES ASSUME TypeOK, LockInv, CoverInv, [Next]_vars, edits' = 0
               PROVE  Covered(disk') /\ Covered(work')
      BY DEF CoverInv, Covered
  <2>1. Covered(disk) /\ Covered(work) /\ edits' = edits
        BY EditsOnlyGrow DEF CoverInv
  <2>2. CASE Created
    <3>1. Covered(CreatedFile)
          BY DEF Covered, CreatedFile, NewFile
    <3> QED BY <2>2, <3>1 DEF Created
  <2>3. CASE Appended
    <3>1. PICK c \in Conns, need \in Schemas, events \in Batches :
             \E k \in 0..Len(events) :
                /\ AppendAllowed(c, need) /\ disk' = disk
                /\ work' = Insert(MarkSchema(work, need), noted[c].stream, events, k, need)
          BY <2>3 DEF Appended
    <3>2. work.app = "complyroll" /\ work.marker \in Schemas
          BY <3>1 DEF AppendAllowed, MarkRefused
    <3>3. IsFile(work) /\ noted[c].stream \in Streams
          BY DEF TypeOK
    <3> QED BY <2>1, <3>1, <3>2, <3>3, AppendCovered
  <2>4. CASE Projected
    <3>1. /\ disk' = disk /\ work'.rows = work.rows /\ work'.app = work.app
          /\ work'.marker = work.marker /\ work'.migrations = work.migrations
          BY <2>4 DEF Projected, TypeOK, IsFile
    <3> QED BY <2>1, <3>1 DEF Covered
  <2> QED BY <2>1, <2>2, <2>3, <2>4, FileStep
          DEF FileUnchanged, Committed, Commit, Discarded
<1>3. CoverInv => SchemaCoversEvents
      BY DEF CoverInv, Covered, SchemaCoversEvents
<1> QED BY <1>1, <1>2, <1>3, TypeCorrect, LockInvariant, PTL DEF Spec

-----------------------------------------------------------------------------
(* Projection checkpoints. *)

Within(db) == \A p \in Projections : db.checkpoints[p] <= Latest(db)

\* An append never moves the end of the log back.
LEMMA AppendLatest ==
    ASSUME NEW db, IsFile(db), NEW s \in Streams, NEW events \in Batches,
           NEW k \in 0..Len(events), NEW need \in Schemas
    PROVE  LET new == Insert(MarkSchema(db, need), s, events, k, need)
           IN  /\ Latest(db) \in Nat /\ Latest(new) \in Nat /\ Latest(db) <= Latest(new)
               /\ new.checkpoints = db.checkpoints
<1> DEFINE new == Insert(MarkSchema(db, need), s, events, k, need)
<1>1. /\ IsFile(new) /\ new.rows = InsertedRows(db, s, events, k, need)
      /\ new.checkpoints = db.checkpoints
      BY AppendLeaves
<1> HIDE DEF new
<1>2. DOMAIN db.rows \subseteq DOMAIN new.rows
  <2>1. Joined(db.rows, new.rows, LastNumber(db), s, StreamVersion(db, s), events, k, need)
        BY <1>1, RowsAdded
  <2> QED BY <2>1 DEF Joined
<1>3. /\ Latest(new) \in Nat /\ \A i \in DOMAIN new.rows : i <= Latest(new)
      /\ Latest(db) \in Nat
      BY <1>1, VersionsFinite DEF IsFile
<1>4. Latest(db) \in DOMAIN db.rows \cup {0}
  <2>1. DOMAIN db.rows \in SUBSET Nat /\ IsFiniteSet(DOMAIN db.rows)
        BY DEF IsFile, IsRows
  <2> QED BY <2>1, HighestProperties DEF Latest
<1>5. Latest(db) <= Latest(new)
      BY <1>2, <1>3, <1>4
<1> QED BY <1>1, <1>3, <1>5 DEF new

WithinInv == edits = 0 => Within(disk) /\ Within(work)

\* No projection ever records having seen an event the committed log does not hold: not when a
\* block that advanced it is rolled back, when its peer's append fails, or after a reset
\* (advance_projection, reset_projection).
THEOREM CheckpointsStayWithin == Spec => []CheckpointsWithinHistory
<1>1. Init => WithinInv
  <2> SUFFICES ASSUME Init PROVE Within(disk)
      BY DEF WithinInv, Init
  <2>1. disk \in {EmptyFile, CreatedFile, ForeignFile, UnmarkedFile, NewerFile}
        BY FirstFilesAssumption DEF Init
  <2>2. ASSUME NEW p \in Projections PROVE disk.checkpoints[p] = 0
        BY <2>1 DEF EmptyFile, CreatedFile, ForeignFile, UnmarkedFile, NewerFile, NewFile
  <2>3. Latest(disk) \in Nat
        BY InitType, VersionsFinite DEF TypeOK, IsFile
  <2> QED BY <2>2, <2>3 DEF Within
<1>2. TypeOK /\ LockInv /\ WithinInv /\ [Next]_vars => WithinInv'
  <2> SUFFICES ASSUME TypeOK, LockInv, WithinInv, [Next]_vars, edits' = 0
               PROVE  Within(disk') /\ Within(work')
      BY DEF WithinInv, Within, Latest
  <2>1. Within(disk) /\ Within(work) /\ edits' = edits
        BY EditsOnlyGrow DEF WithinInv
  <2>2. CASE Created
    <3>1. \A p \in Projections : CreatedFile.checkpoints[p] = 0
          BY DEF CreatedFile, NewFile
    <3>2. Latest(CreatedFile) \in Nat
          BY CreatedFileType, VersionsFinite DEF IsFile
    <3> QED BY <2>2, <3>1, <3>2 DEF Created, Within
  <2>3. CASE Appended
    <3>1. PICK c \in Conns, need \in Schemas, events \in Batches :
             \E k \in 0..Len(events) :
                /\ disk' = disk
                /\ work' = Insert(MarkSchema(work, need), noted[c].stream, events, k, need)
          BY <2>3 DEF Appended
    <3>2. IsFile(work) /\ noted[c].stream \in Streams
          BY DEF TypeOK
    <3>3. /\ Latest(work) \in Nat /\ Latest(work') \in Nat /\ Latest(work) <= Latest(work')
          /\ work'.checkpoints = work.checkpoints
          BY <3>1, <3>2, AppendLatest
    <3>4. \A p \in Projections : work.checkpoints[p] \in Nat
          BY <3>2 DEF IsFile
    <3> QED BY <2>1, <3>1, <3>3, <3>4 DEF Within
  <2>4. CASE Projected
    <3>1. PICK p \in Projections, n \in Nat :
             n <= Latest(work) /\ work' = [work EXCEPT !.checkpoints = [@ EXCEPT ![p] = n]]
          BY <2>4, Zenon DEF Projected
    <3>2. /\ disk' = disk /\ work'.rows = work.rows
          /\ work'.checkpoints = [work.checkpoints EXCEPT ![p] = n]
          /\ work.checkpoints \in [Projections -> Nat]
          BY <2>4, <3>1 DEF Projected, TypeOK, IsFile
    <3>3. Latest(work') = Latest(work)
          BY <3>2 DEF Latest
    <3> QED BY <2>1, <3>1, <3>2, <3>3 DEF Within
  <2> QED BY <2>1, <2>2, <2>3, <2>4, FileStep
          DEF FileUnchanged, Committed, Commit, Discarded
<1>3. TypeOK /\ HistoryGapFree /\ WithinInv => CheckpointsWithinHistory
      BY GapFreeLatest DEF HistoryGapFree, WithinInv, Within, CheckpointsWithinHistory, TypeOK
<1> QED BY <1>1, <1>2, <1>3, TypeCorrect, LockInvariant, NoHoles, PTL DEF Spec

-----------------------------------------------------------------------------
(* Damage: another program may have edited the file at any time. *)

Sound(db) ==
    /\ db.app = "complyroll" /\ db.marker \in Schemas
    /\ DOMAIN db.rows = 1..db.counter

\* Until an append has found the file sound, what is pending is the log and the mark that
\* are committed.
JudgedInv ==
    \/ Sound(disk)
    \/ /\ work.rows = disk.rows /\ work.counter = disk.counter
       /\ work.app = disk.app /\ work.marker = disk.marker

LEMMA AllowedIsSound ==
    ASSUME NEW c \in Conns, NEW need \in Schemas, IsFile(work), AppendAllowed(c, need)
    PROVE  Sound(work)
<1>1. work.app = "complyroll" /\ work.marker \in Schemas
      BY DEF AppendAllowed, MarkRefused
<1>2. DOMAIN work.rows = 1..Cardinality(DOMAIN work.rows) /\ work.counter = Latest(work)
      BY DEF AppendAllowed, SequencesContiguous, Contiguous, CounterIntact
<1>3. Cardinality(DOMAIN work.rows) \in Nat
      BY FS_CardinalityType DEF IsFile, IsRows
<1>4. Latest(work) = Cardinality(DOMAIN work.rows)
      BY <1>2, <1>3, HighestOfInterval DEF Latest
<1> QED BY <1>1, <1>2, <1>4 DEF Sound

LEMMA JudgedInvariant == Spec => []JudgedInv
<1>1. Init => JudgedInv
      BY DEF Init, JudgedInv
<1>2. TypeOK /\ LockInv /\ JudgedInv /\ [Next]_vars => JudgedInv'
  <2> SUFFICES ASSUME TypeOK, LockInv, JudgedInv, [Next]_vars PROVE JudgedInv'
      OBVIOUS
  <2> USE DEF JudgedInv, Sound
  <2>1. CASE EditOutOfBand
        BY <2>1 DEF EditOutOfBand
  <2>2. CASE ~EditOutOfBand
    <3>1. edits' = edits
      <4>1. CASE UNCHANGED vars
            BY <4>1 DEF vars
      <4> QED BY <2>2, <4>1, NoEdit
    <3>2. CASE Created
          BY <3>2 DEF Created
    <3>3. CASE Committed
          BY <3>3 DEF Committed, Commit
    <3>4. CASE Discarded
          BY <3>4 DEF Discarded
    <3>5. CASE Appended
      <4>1. PICK c \in Conns, need \in Schemas : AppendAllowed(c, need) /\ disk' = disk
            BY <3>5 DEF Appended
      <4>2. Sound(work)
            BY <4>1, AllowedIsSound DEF TypeOK
      <4> QED BY <4>1, <4>2
    <3>6. CASE Projected
      <4>1. /\ disk' = disk /\ work'.rows = work.rows /\ work'.app = work.app
            /\ work'.marker = work.marker /\ work'.counter = work.counter
            BY <3>6 DEF Projected, TypeOK, IsFile
      <4> QED BY <4>1
    <3>7. CASE FileUnchanged
          BY <3>7 DEF FileUnchanged
    <3> QED BY <3>1, <3>2, <3>3, <3>4, <3>5, <3>6, <3>7, FileStep
  <2> QED BY <2>1, <2>2
<1> QED BY <1>1, <1>2, TypeCorrect, LockInvariant, PTL DEF Spec

\* No event is committed to a file with a hole before its end, a truncated tail or another
\* program's mark, though the damage may have come after the writer's clean open (append).
THEOREM NothingPastDamage == Spec => NothingAppendedPastDamage
<1>1. TypeOK /\ LockInv /\ GrowthInv /\ JudgedInv /\ [Next]_vars
         => [DOMAIN disk'.rows # DOMAIN disk.rows /\ edits' = edits =>
                /\ disk.app = "complyroll" /\ disk.marker \in Schemas
                /\ DOMAIN disk.rows = 1..disk.counter]_vars
  <2> SUFFICES ASSUME TypeOK, LockInv, GrowthInv, JudgedInv, [Next]_vars,
                      DOMAIN disk'.rows # DOMAIN disk.rows, edits' = edits
               PROVE  Sound(disk)
      BY DEF vars, Sound
  <2>1. ~Created
    <3>1. DOMAIN CreatedFile.rows = {}
          BY DEF CreatedFile, NewFile
    <3> QED BY <3>1 DEF Created, GrowthInv, EmptyUntilCreated
  <2>2. Committed
        BY <2>1, FileStep DEF FileUnchanged, Discarded, Appended, Projected
  <2> QED BY <2>2 DEF Committed, Commit, JudgedInv
<1> QED BY <1>1, GrowthInvariant, JudgedInvariant, PTL DEF Spec, NothingAppendedPastDamage

\* An append that is allowed leaves every other stream as it was.
LEMMA OtherStreamsKept ==
    ASSUME NEW db, IsFile(db), NEW s \in Streams, NEW events \in Batches,
           NEW k \in 0..Len(events), NEW need \in Schemas, NEW t \in Streams, t # s
    PROVE  Versions(Insert(MarkSchema(db, need), s, events, k, need), t) = Versions(db, t)
<1> DEFINE new == Insert(MarkSchema(db, need), s, events, k, need)
           last == LastNumber(db)
<1>1. new.rows = InsertedRows(db, s, events, k, need)
      BY AppendLeaves
<1> HIDE DEF new
<1>2. Joined(db.rows, new.rows, last, s, StreamVersion(db, s), events, k, need)
      BY <1>1, RowsAdded
<1> HIDE DEF last
<1>3. RowsOf(new, t) = RowsOf(db, t)
      BY <1>2 DEF Joined, RowsOf
<1>4. \A i \in RowsOf(db, t) : new.rows[i] = db.rows[i]
      BY <1>2 DEF Joined, RowsOf
<1> QED BY <1>3, <1>4 DEF Versions, new

LEMMA AppendHealsNothing ==
    ASSUME IsFile(work), NEW c \in Conns, NEW need \in Schemas, AppendAllowed(c, need),
           noted[c].stream \in Streams, NEW events \in Batches, NEW k \in 0..Len(events),
           Healthy(Insert(MarkSchema(work, need), noted[c].stream, events, k, need))
    PROVE  Healthy(work)
<1> DEFINE s   == noted[c].stream
           new == Insert(MarkSchema(work, need), s, events, k, need)
<1>1. /\ new.objects = work.objects
      /\ new.marker = MarkSchema(work, need).marker
      /\ new.migrations = MarkSchema(work, need).migrations
      BY AppendLeaves
<1>2. \A t \in Streams : t # s => Versions(new, t) = Versions(work, t)
      BY OtherStreamsKept
<1>3. Healthy(new)
      OBVIOUS
<1> HIDE DEF new
<1>4. /\ work.app = "complyroll" /\ work.marker \in Schemas
      /\ SequencesContiguous(work) /\ CounterIntact(work)
      BY DEF AppendAllowed, MarkRefused
<1>5. work.objects = "expected" /\ new.migrations = 1..new.marker
      BY <1>1, <1>3 DEF Healthy
<1>6. work.migrations = 1..work.marker
  <2>1. CASE work.marker >= need
        BY <1>1, <1>5, <2>1 DEF MarkSchema
  <2>2. CASE ~(work.marker >= need)
    <3>1. work.migrations \cup (work.marker + 1)..need = 1..need
          BY <1>1, <1>5, <2>2 DEF MarkSchema, WithMark
    <3>2. work.marker \in Nat \ {0} /\ need \in Nat \ {0} /\ work.marker < need
          BY <1>4, <2>2, ConstantsAssumption DEF Schemas
    <3>3. \A m \in work.migrations : ~(m > work.marker)
          BY <3>2 DEF AppendAllowed, MarkRefused
    <3>4. ASSUME NEW m \in work.migrations PROVE m \in 1..work.marker
      <4>1. m \in 1..need /\ ~(m > work.marker)
            BY <3>1, <3>3
      <4> QED BY <3>2, <4>1
    <3>5. ASSUME NEW m \in 1..work.marker PROVE m \in work.migrations
      <4>1. m \in 1..need /\ m \notin (work.marker + 1)..need
            BY <3>2
      <4> QED BY <3>1, <4>1
    <3> QED BY <3>4, <3>5
  <2> QED BY <2>1, <2>2
<1>7. ASSUME NEW t \in Streams PROVE StreamContiguous(work, t)
  <2>1. CASE t = s
        BY <2>1 DEF AppendAllowed
  <2>2. CASE t # s
        BY <1>2, <1>3, <2>2 DEF Healthy, AllStreamsContiguous, StreamContiguous
  <2> QED BY <2>1, <2>2
<1> QED BY <1>4, <1>5, <1>6, <1>7 DEF Healthy, AllStreamsContiguous

\* What was wrong with the committed file is wrong with the pending one.
UnhealedInv == disk.objects # "none" /\ ~Healthy(disk) => ~Healthy(work)

LEMMA UnhealedInvariant == Spec => []UnhealedInv
<1>1. Init => UnhealedInv
      BY DEF Init, UnhealedInv
<1>2. TypeOK /\ LockInv /\ UnhealedInv /\ [Next]_vars => UnhealedInv'
  <2> SUFFICES ASSUME TypeOK, LockInv, UnhealedInv, [Next]_vars,
                      disk'.objects # "none", ~Healthy(disk'), Healthy(work')
               PROVE  FALSE
      BY DEF UnhealedInv, Healthy, SequencesContiguous, CounterIntact, AllStreamsContiguous,
         StreamContiguous, Latest, Versions, RowsOf
  <2>1. CASE EditOutOfBand
        BY <2>1 DEF EditOutOfBand
  <2>2. CASE ~EditOutOfBand
    <3>1. edits' = edits
      <4>1. CASE UNCHANGED vars
            BY <4>1 DEF vars
      <4> QED BY <2>2, <4>1, NoEdit
    <3>2. ~Appended
      <4> SUFFICES ASSUME Appended PROVE FALSE
          OBVIOUS
      <4>1. PICK c \in Conns, need \in Schemas, events \in Batches :
               \E k \in 0..Len(events) :
                  /\ AppendAllowed(c, need) /\ disk' = disk
                  /\ work' = Insert(MarkSchema(work, need), noted[c].stream, events, k, need)
            BY DEF Appended
      <4>2. IsFile(work) /\ noted[c].stream \in Streams
            BY DEF TypeOK
      <4>3. Healthy(work)
            BY <4>1, <4>2, AppendHealsNothing
      <4> QED BY <4>1, <4>3 DEF UnhealedInv
    <3>3. ~Projected
      <4> SUFFICES ASSUME Projected PROVE FALSE
          OBVIOUS
      <4>1. /\ disk' = disk /\ work'.rows = work.rows /\ work'.app = work.app
            /\ work'.marker = work.marker /\ work'.counter = work.counter
            /\ work'.objects = work.objects /\ work'.migrations = work.migrations
            BY DEF Projected, TypeOK, IsFile
      <4>2. Healthy(work)
            BY <4>1 DEF Healthy, SequencesContiguous, CounterIntact, AllStreamsContiguous,
               StreamContiguous, Latest, Versions, RowsOf
      <4> QED BY <4>1, <4>2 DEF UnhealedInv
    <3> QED BY <3>1, <3>2, <3>3, FileStep
            DEF FileUnchanged, Created, Committed, Commit, Discarded, UnhealedInv
  <2> QED BY <2>1, <2>2
<1> QED BY <1>1, <1>2, TypeCorrect, LockInvariant, PTL DEF Spec

\* No step of the store makes a file another program damaged look whole again: no append fills
\* a hole, no mark covers a missing migration record, and no open re-creates what was lost
\* (append, _mark_schema, _initialize_schema_unchecked).
THEOREM DamageStaysVisible == Spec => DamageNeverHealed
<1>1. TypeOK /\ LockInv /\ UnhealedInv /\ [Next]_vars
         => [edits' = edits /\ disk.objects # "none" /\ ~Healthy(disk) => ~Healthy(disk')]_vars
  <2> SUFFICES ASSUME TypeOK, LockInv, UnhealedInv, [Next]_vars, edits' = edits,
                      disk.objects # "none", ~Healthy(disk)
               PROVE  ~Healthy(disk')
      BY DEF vars
  <2>1. ~Healthy(work)
        BY DEF UnhealedInv
  <2>2. ~Created
        BY DEF Created
  <2>3. disk' = disk \/ disk' = work
        BY <2>2, FileStep DEF FileUnchanged, Committed, Commit, Discarded, Appended, Projected
  <2> QED BY <2>1, <2>3
<1> QED BY <1>1, UnhealedInvariant, TypeCorrect, LockInvariant, PTL DEF Spec, DamageNeverHealed

-----------------------------------------------------------------------------
(* What the callers know, beside the file. *)

NotesKept == UNCHANGED <<seen, noted, overtaken>>

\* The lock changes hands with nothing pending.
LockPassed == work = disk /\ UNCHANGED <<disk, work>> /\ NotesKept

AppendedBy(c) ==
    /\ lock = c /\ UNCHANGED <<disk, lock>> /\ NotesKept
    /\ \E need \in Schemas, events \in Batches : \E k \in 0..Len(events) :
          /\ AppendAllowed(c, need)
          /\ work' = Insert(MarkSchema(work, need), noted[c].stream, events, k, need)

CheckpointMoved ==
    /\ UNCHANGED <<disk, lock>> /\ NotesKept
    /\ work'.rows = work.rows /\ work'.counter = work.counter

\* The transaction of c, or c itself, is gone, with what c knew.
Ended(c) ==
    /\ \/ lock = c /\ lock' = NoConn /\ work' = disk
       \/ lock # c /\ UNCHANGED <<lock, work>>
    /\ disk' = disk
    /\ noted' = [noted EXCEPT ![c] = NewStream(@.stream)]
    /\ overtaken' = [overtaken EXCEPT ![c] = FALSE]
    /\ seen' = [seen EXCEPT ![c] = <<>>]

LEMMA OpenStepView ==
    ASSUME TypeOK, LockInv, NEW c \in Conns, OpenStep(c)
    PROVE  \/ UNCHANGED <<disk, work, lock>> /\ NotesKept
           \/ LockPassed
           \/ Created /\ NotesKept
<1> USE DEF NotesKept, Unheard, LockInv, LockOnlyInsideWrite, FreshLock
<1>1. CASE OpenInitialize(c)
      BY <1>1 DEF OpenInitialize, Created
<1>2. CASE OpenBeginInitialize(c)
      BY <1>2 DEF OpenBeginInitialize, LockPassed
<1>3. CASE OpenRefuseUnmarked(c) \/ OpenAfterPeer(c)
      BY <1>3 DEF OpenRefuseUnmarked, OpenAfterPeer, LockPassed
<1>4. CASE ~(OpenInitialize(c) \/ OpenBeginInitialize(c) \/ OpenRefuseUnmarked(c)
             \/ OpenAfterPeer(c))
      BY <1>4 DEF OpenStep, Open, OpenReadApp, OpenReadMarker, OpenReadObjects, OpenBusy,
         OpenRereadApp, OpenRereadObjects, OpenVerifySchema, OpenReadCounter, OpenReadLatest,
         OpenCheckHistory, FileKept
<1> QED BY <1>1, <1>2, <1>3, <1>4

LEMMA WriteStepView ==
    ASSUME TypeOK, LockInv, NEW c \in Conns, AppendStep(c) \/ ProjectionStep(c)
    PROVE  \/ UNCHANGED <<disk, work, lock>> /\ NotesKept
           \/ AppendedBy(c)
           \/ CheckpointMoved
<1>1. ASSUME pc[c] \in {"single", "block"} PROVE lock = c
      BY <1>1 DEF LockInv, LockOnlyInsideWrite, InWrite
<1>2. ASSUME NEW need \in Schemas, AppendRefused(c, need)
      PROVE  UNCHANGED <<disk, work, lock>> /\ NotesKept
      BY <1>2 DEF AppendRefused, FileKept, Unheard, NotesKept
<1>3. ASSUME NEW need \in Schemas, NEW events \in Batches, AppendEvents(c, events, need)
      PROVE  AppendedBy(c)
  <2>1. Len(events) \in 0..Len(events)
        BY BatchType
  <2> QED BY <1>1, <1>3, <2>1 DEF AppendEvents, AppendedBy, Unheard, NotesKept
<1>4. ASSUME NEW need \in Schemas, NEW events \in Batches, AppendConflict(c, events, need)
      PROVE  AppendedBy(c)
  <2>1. PICK k \in 0..Len(events) - 1 :
           work' = Insert(MarkSchema(work, need), noted[c].stream, events, k, need)
        BY <1>4 DEF AppendConflict
  <2>2. k \in 0..Len(events)
        BY BatchType
  <2> QED BY <1>1, <1>4, <2>1, <2>2 DEF AppendConflict, AppendedBy, Unheard, NotesKept
<1>5. CASE ProjectionStep(c)
  <2>1. UNCHANGED <<disk, lock>> /\ NotesKept
        BY <1>5 DEF ProjectionStep, AdvanceProjection, ResetProjection, Unheard, NotesKept
  <2>2. work'.rows = work.rows /\ work'.counter = work.counter
        BY <1>5 DEF ProjectionStep, AdvanceProjection, ResetProjection, TypeOK, IsFile
  <2> QED BY <2>1, <2>2 DEF CheckpointMoved
<1> QED BY <1>2, <1>3, <1>4, <1>5 DEF AppendStep

LEMMA EndStepView ==
    ASSUME TypeOK, LockInv, NEW c \in Conns, EndStep(c) \/ Stop(c)
    PROVE  (lock = c /\ Commit(c)) \/ Ended(c)
<1>1. ASSUME pc[c] \in InWrite PROVE lock = c
      BY <1>1 DEF LockInv, LockOnlyInsideWrite
<1>2. CASE Commit(c)
      BY <1>1, <1>2 DEF Commit, InWrite
<1>3. CASE CommitFails(c) \/ Rollback(c) \/ Abandon(c)
      BY <1>1, <1>3 DEF CommitFails, Rollback, Abandon, Dropped, Ended, InWrite
<1>4. CASE Stop(c)
      BY <1>4 DEF Stop, Ended
<1> QED BY <1>2, <1>3, <1>4 DEF EndStep

LEMMA ViewStep ==
    ASSUME TypeOK, LockInv, [Next]_vars, ~EditOutOfBand
    PROVE  \/ UNCHANGED <<disk, work, lock>> /\ NotesKept
           \/ LockPassed
           \/ Created /\ NotesKept
           \/ CheckpointMoved
           \/ \E c \in Conns :
                 \/ ReadPage(c) \/ \E s \in Streams : ReadVersion(c, s)
                 \/ AppendedBy(c)
                 \/ lock = c /\ Commit(c)
                 \/ Ended(c)
<1>1. CASE UNCHANGED vars
      BY <1>1 DEF vars, NotesKept
<1>2. ASSUME NEW c \in Conns, BeginBlock(c) \/ BeginSingle(c) PROVE LockPassed
      BY <1>2 DEF BeginBlock, BeginSingle, LockPassed, NotesKept, Unheard, LockInv,
         LockOnlyInsideWrite
<1>3. ASSUME NEW c \in Conns, Catch(c) PROVE UNCHANGED <<disk, work, lock>> /\ NotesKept
      BY <1>3 DEF Catch, FileKept, NotesKept, Unheard
<1> QED BY <1>1, <1>2, <1>3, OpenStepView, WriteStepView, EndStepView DEF Next, ReadStep

-----------------------------------------------------------------------------
(* Pages. *)

\* Every row of `old' is still where it was.
Keeps(old, new) == \A i \in DOMAIN old : i \in DOMAIN new /\ new[i] = old[i]

\* What one caller has read is what stands in the log it reads.
ReadOf(rows, read) == \A i \in 1..Len(read) : i \in DOMAIN rows /\ rows[i] = read[i]

LEMMA AppendedKeeps ==
    ASSUME TypeOK, NEW c \in Conns, AppendedBy(c)
    PROVE  Keeps(work.rows, work'.rows)
<1>1. PICK need \in Schemas, events \in Batches : \E k \in 0..Len(events) :
         work' = Insert(MarkSchema(work, need), noted[c].stream, events, k, need)
      BY DEF AppendedBy
<1>2. IsFile(work) /\ noted[c].stream \in Streams
      BY DEF TypeOK
<1> QED BY <1>1, <1>2, AppendedFile DEF Keeps

\* From one step to the next every caller's view of the log keeps its rows, unless the step
\* takes back what the caller itself had pending, or fills an empty path.
LEMMA ViewsKeep ==
    ASSUME TypeOK, LockInv, GrowthInv, [Next]_vars, ~EditOutOfBand, NEW d \in Conns,
           ~Ended(d)
    PROVE  Keeps(View(d).rows, View(d)'.rows)
<1> USE DEF View, Keeps
<1>1. CASE UNCHANGED <<disk, work, lock>>
      BY <1>1
<1>2. CASE LockPassed
      BY <1>2 DEF LockPassed
<1>3. CASE Created
      BY <1>3 DEF Created, GrowthInv, EmptyUntilCreated
<1>4. CASE CheckpointMoved
      BY <1>4 DEF CheckpointMoved
<1>5. ASSUME NEW c \in Conns, ReadPage(c) \/ \E s \in Streams : ReadVersion(c, s)
      PROVE  UNCHANGED <<disk, work, lock>>
      BY <1>5 DEF ReadPage, ReadVersion, FileKept
<1>6. ASSUME NEW c \in Conns, AppendedBy(c)
      PROVE  Keeps(View(d).rows, View(d)'.rows)
  <2>1. Keeps(work.rows, work'.rows)
        BY <1>6, AppendedKeeps
  <2>2. disk' = disk /\ lock' = lock
        BY <1>6 DEF AppendedBy
  <2> QED BY <2>1, <2>2
<1>7. ASSUME NEW c \in Conns, lock = c, Commit(c)
      PROVE  Keeps(View(d).rows, View(d)'.rows)
  <2>1. disk' = work /\ lock' = NoConn /\ NoConn # d
        BY <1>7, ConstantsAssumption DEF Commit
  <2> QED BY <2>1 DEF GrowthInv, WorkExtendsDisk
<1>8. ASSUME NEW c \in Conns, Ended(c)
      PROVE  Keeps(View(d).rows, View(d)'.rows)
  <2>1. c # d
        BY <1>8
  <2>2. CASE lock = c /\ lock' = NoConn
    <3>1. lock # d /\ lock' # d /\ disk' = disk
          BY <1>8, <2>1, <2>2, ConstantsAssumption DEF Ended
    <3> QED BY <3>1
  <2>3. CASE UNCHANGED <<lock, work>>
        BY <1>8, <2>3 DEF Ended
  <2> QED BY <1>8, <2>2, <2>3 DEF Ended
<1> QED BY <1>1, <1>2, <1>3, <1>4, <1>5, <1>6, <1>7, <1>8, ViewStep

\* A page is the rows that follow what was read, and nothing else.
LEMMA PageFollows ==
    ASSUME TypeOK, NEW c \in Conns, ReadPage(c), ReadOf(View(c).rows, seen[c])
    PROVE  ReadOf(View(c).rows, seen'[c]) /\ \A d \in Conns : d # c => seen'[d] = seen[d]
<1> DEFINE rows  == View(c).rows
           after == Len(seen[c])
           page  == {i \in DOMAIN rows :
                        /\ i > after
                        /\ Cardinality({j \in DOMAIN rows : after < j /\ j < i}) < PageLimit}
           n     == Cardinality(page)
           read  == [k \in 1..n |-> rows[after + k]]
<1>1. seen[c] \in Seq(Row) /\ after \in Nat /\ IsRows(rows)
  <2>1. seen[c] \in Seq(Row) /\ IsRows(rows)
        BY DEF TypeOK, View, IsFile
  <2> QED BY <2>1, LenProperties
<1>2. n \in Nat
  <2>1. page \subseteq DOMAIN rows /\ IsFiniteSet(DOMAIN rows)
        BY <1>1 DEF IsRows
  <2> HIDE DEF page, rows
  <2> QED BY <2>1, FS_Subset, FS_CardinalityType
<1>3. page = after + 1 .. after + n /\ seen' = [seen EXCEPT ![c] = seen[c] \o read]
      BY DEF ReadPage
<1>4. \A k \in 1..n : after + k \in DOMAIN rows
  <2>1. page \subseteq DOMAIN rows
        OBVIOUS
  <2> HIDE DEF page, rows, n, after
  <2> QED BY <1>1, <1>2, <1>3, <2>1
<1> HIDE DEF page
<1>5. read \in Seq(Row) /\ Len(read) = n
  <2>1. \A k \in 1..n : rows[after + k] \in Row
        BY <1>1, <1>4 DEF IsRows
  <2> HIDE DEF n, rows, after
  <2> QED BY <1>2, <2>1
<1>6. /\ Len(seen[c] \o read) = after + n
      /\ \A i \in 1..after + n :
            (seen[c] \o read)[i] = IF i <= after THEN seen[c][i] ELSE read[i - after]
  <2> HIDE DEF n, read
  <2> QED BY <1>1, <1>2, <1>5, ConcatProperties
<1>7. ASSUME NEW i \in 1..after + n
      PROVE  i \in DOMAIN rows /\ rows[i] = (seen[c] \o read)[i]
  <2>1. CASE i <= after
        BY <1>1, <1>2, <1>6, <2>1 DEF ReadOf
  <2>2. CASE ~(i <= after)
    <3>1. i - after \in 1..n /\ after + (i - after) = i
          BY <1>1, <1>2, <2>2
    <3>2. read[i - after] = rows[i]
          BY <3>1
    <3> QED BY <1>4, <1>6, <2>2, <3>1, <3>2
  <2> QED BY <2>1, <2>2
<1>8. seen'[c] = seen[c] \o read /\ \A d \in Conns : d # c => seen'[d] = seen[d]
      BY <1>3 DEF TypeOK
<1> HIDE DEF read, n
<1> QED BY <1>6, <1>7, <1>8 DEF ReadOf

ReadInv == edits = 0 => \A d \in Conns : ReadOf(View(d).rows, seen[d])

\* However many commits fall between two pages of a reader, what it has read is a prefix of
\* the log, without another process's uncommitted rows; and a reader whose own transaction is
\* dropped starts over (read_all, _read_page, transaction).
THEOREM PagesJoin == Spec => []PagesArePrefix
<1>1. Init => ReadInv
      BY DEF Init, ReadInv, ReadOf
<1>2. TypeOK /\ TypeOK' /\ LockInv /\ GrowthInv /\ ReadInv /\ [Next]_vars => ReadInv'
  <2> SUFFICES ASSUME TypeOK, LockInv, GrowthInv, ReadInv, [Next]_vars, edits' = 0,
                      NEW d \in Conns
               PROVE  ReadOf(View(d)'.rows, seen'[d])
      BY DEF ReadInv
  <2>1. (\A c \in Conns : ReadOf(View(c).rows, seen[c])) /\ ~EditOutOfBand
        BY EditsOnlyGrow DEF ReadInv, EditOutOfBand, TypeOK
  <2>2. CASE Ended(d)
    <3>1. seen'[d] = <<>>
          BY <2>2 DEF Ended, TypeOK
    <3> QED BY <3>1 DEF ReadOf
  <2>3. CASE ~Ended(d)
    <3>1. Keeps(View(d).rows, View(d)'.rows)
          BY <2>1, <2>3, ViewsKeep
    <3>2. ReadOf(View(d).rows, seen'[d])
      <4>1. CASE seen' = seen
            BY <2>1, <4>1
      <4>2. ASSUME NEW c \in Conns, ReadPage(c) PROVE ReadOf(View(d).rows, seen'[d])
            BY <2>1, <4>2, PageFollows
      <4>3. ASSUME NEW c \in Conns, Ended(c) PROVE seen'[d] = seen[d]
            BY <2>3, <4>3 DEF Ended, TypeOK
      <4> QED BY <2>1, <4>1, <4>2, <4>3, ViewStep
              DEF NotesKept, LockPassed, CheckpointMoved, AppendedBy, Commit, ReadVersion
    <3> QED BY <3>1, <3>2 DEF Keeps, ReadOf
  <2> QED BY <2>2, <2>3
<1>3. TypeOK /\ LockInv /\ HistoryGapFree /\ ReadInv => PagesArePrefix
  <2> SUFFICES ASSUME TypeOK, HistoryGapFree, ReadInv, edits = 0, NEW c \in Conns
               PROVE  /\ Len(seen[c]) <= Len(View(c).rows)
                      /\ seen[c] = SubSeq(View(c).rows, 1, Len(seen[c]))
      BY DEF PagesArePrefix
  <2> DEFINE rows == View(c).rows
             read == seen[c]
  <2>1. rows \in Seq(Row) /\ read \in Seq(Row) /\ ReadOf(rows, read)
        BY DEF TypeOK, HistoryGapFree, GapFree, View, ReadInv
  <2> HIDE DEF rows, read
  <2>2. Len(rows) \in Nat /\ DOMAIN rows = 1..Len(rows) /\ Len(read) \in Nat
        /\ DOMAIN read = 1..Len(read)
        BY <2>1, LenProperties
  <2>3. Len(read) <= Len(rows)
        BY <2>1, <2>2 DEF ReadOf
  <2>4. read = SubSeq(rows, 1, Len(read))
        BY <2>1, <2>2, <2>3 DEF ReadOf
  <2> QED BY <2>3, <2>4 DEF rows, read
<1> QED BY <1>1, <1>2, <1>3, GrowthInvariant, NoHoles, PTL DEF Spec

-----------------------------------------------------------------------------
(* Optimistic versions. *)

LEMMA StreamVersionGrows ==
    ASSUME NEW old, NEW new, IsFile(old), IsFile(new), Keeps(old.rows, new.rows), NEW s
    PROVE  /\ StreamVersion(old, s) \in Nat /\ StreamVersion(new, s) \in Nat
           /\ StreamVersion(old, s) <= StreamVersion(new, s)
<1>1. /\ Versions(old, s) \in SUBSET Nat /\ IsFiniteSet(Versions(old, s))
      /\ Versions(new, s) \in SUBSET Nat /\ IsFiniteSet(Versions(new, s))
      BY VersionsFinite DEF IsFile
<1>2. Versions(old, s) \subseteq Versions(new, s)
      BY DEF Keeps, Versions, RowsOf
<1>3. /\ StreamVersion(old, s) \in Nat /\ StreamVersion(old, s) \in Versions(old, s) \cup {0}
      /\ StreamVersion(new, s) \in Nat
      /\ \A m \in Versions(new, s) : m <= StreamVersion(new, s)
      BY <1>1, HighestProperties DEF StreamVersion
<1> QED BY <1>2, <1>3

Current(d) == StreamVersion(View(d), noted[d].stream)

\* A note never runs ahead of its stream, and falls behind one another caller moved.
NoteInv ==
    edits = 0 => \A d \in Conns :
        noted[d].version <= Current(d) /\ (overtaken[d] => noted[d].version < Current(d))

LEMMA NoteStep ==
    ASSUME TypeOK, TypeOK', LockInv, GrowthInv, HistoryGapFree, NoteInv, [Next]_vars,
           edits' = 0, NEW d \in Conns
    PROVE  noted'[d].version <= Current(d)' /\ (overtaken'[d] => noted'[d].version < Current(d)')
<1>1. /\ ~EditOutOfBand /\ edits = 0
      /\ \A c \in Conns : noted[c].version <= Current(c)
                          /\ (overtaken[c] => noted[c].version < Current(c))
      BY EditsOnlyGrow DEF NoteInv, EditOutOfBand, TypeOK
<1>2. /\ IsFile(View(d)) /\ IsFile(View(d)') /\ noted[d].version \in Nat
      /\ noted'[d].version \in Nat
      BY DEF View, TypeOK
<1>3. CASE Ended(d)
  <2>1. noted'[d].version = 0 /\ ~overtaken'[d]
        BY <1>3 DEF Ended, TypeOK, NewStream
  <2>2. Current(d)' \in Nat
        BY <1>2, VersionsFinite DEF Current, IsFile
  <2> QED BY <2>1, <2>2
<1>4. CASE ~Ended(d)
  <2>1. Keeps(View(d).rows, View(d)'.rows)
        BY <1>1, <1>4, ViewsKeep
  <2>2. ASSUME noted'[d] = noted[d]
        PROVE  /\ Current(d) \in Nat /\ Current(d)' \in Nat /\ Current(d) <= Current(d)'
               /\ noted'[d].version <= Current(d)'
               /\ overtaken[d] => noted'[d].version < Current(d)'
    <3>1. Current(d)' = StreamVersion(View(d)', noted[d].stream)
          BY <2>2 DEF Current
    <3>2. Current(d) \in Nat /\ Current(d)' \in Nat /\ Current(d) <= Current(d)'
          BY <1>2, <2>1, <3>1, StreamVersionGrows DEF Current
    <3> QED BY <1>1, <1>2, <2>2, <3>2
  <2>3. ASSUME NEW c \in Conns, NEW s \in Streams, ReadVersion(c, s)
        PROVE  noted'[d].version <= Current(d)'
               /\ (overtaken'[d] => noted'[d].version < Current(d)')
    <3>1. CASE c = d
      <4>1. noted'[d] = [stream |-> s, version |-> StreamVersion(View(d), s)]
            /\ ~overtaken'[d] /\ View(d)' = View(d)
            BY <2>3, <3>1 DEF ReadVersion, TypeOK, FileKept, View
      <4>2. StreamVersion(View(d), s) \in Nat
            BY <1>2, VersionsFinite DEF IsFile
      <4> QED BY <4>1, <4>2 DEF Current
    <3>2. CASE c # d
      <4>1. noted'[d] = noted[d] /\ overtaken'[d] = overtaken[d]
            BY <2>3, <3>2 DEF ReadVersion, TypeOK
      <4> QED BY <2>2, <4>1
    <3> QED BY <3>1, <3>2
  <2>4. ASSUME NEW c \in Conns, lock = c, Commit(c)
        PROVE  noted'[d].version <= Current(d)'
               /\ (overtaken'[d] => noted'[d].version < Current(d)')
    <3>1. noted' = noted /\ disk' = work /\ lock' = NoConn /\ NoConn # d
          BY <2>4, ConstantsAssumption DEF Commit
    <3>2. overtaken'[d] => \/ overtaken[d]
                           \/ /\ d # c
                              /\ Versions(work, noted[d].stream) # Versions(disk, noted[d].stream)
          BY <2>4 DEF Commit
    <3>3. ASSUME d # c, Versions(work, noted[d].stream) # Versions(disk, noted[d].stream)
          PROVE  Current(d) # Current(d)'
      <4>1. Current(d) = StreamVersion(disk, noted[d].stream)
            BY <2>4, <3>3 DEF Current, View
      <4>2. Current(d)' = StreamVersion(work, noted[d].stream)
            BY <3>1 DEF Current, View
      <4>3. /\ IsFile(disk) /\ IsFile(work) /\ GapFree(disk) /\ GapFree(work)
            BY <1>1 DEF TypeOK, HistoryGapFree
      <4>4. /\ Versions(disk, noted[d].stream) = 1..StreamVersion(disk, noted[d].stream)
            /\ Versions(work, noted[d].stream) = 1..StreamVersion(work, noted[d].stream)
            BY <4>3, GapFreeVersions
      <4> QED BY <3>3, <4>1, <4>2, <4>4
    <3>4. noted'[d] = noted[d] /\ Current(d) \in Nat /\ Current(d)' \in Nat
          /\ Current(d) <= Current(d)' /\ noted[d].version <= Current(d)
          BY <1>1, <2>2, <3>1
    <3>5. ASSUME overtaken'[d] PROVE noted[d].version < Current(d)'
      <4>1. CASE overtaken[d]
            BY <1>1, <1>2, <3>4, <4>1
      <4>2. CASE Current(d) # Current(d)'
            BY <1>2, <3>4, <4>2
      <4> QED BY <3>2, <3>3, <3>5, <4>1, <4>2
    <3> QED BY <2>2, <3>4, <3>5
  <2>5. CASE noted' = noted /\ overtaken' = overtaken
        BY <2>2, <2>5
  <2>6. ASSUME NEW c \in Conns, Ended(c)
        PROVE  noted'[d] = noted[d] /\ overtaken'[d] = overtaken[d]
        BY <1>4, <2>6 DEF Ended, TypeOK
  <2>7. ASSUME NEW c \in Conns, ReadPage(c) PROVE noted' = noted /\ overtaken' = overtaken
        BY <2>7 DEF ReadPage
  <2> QED BY <1>1, <2>2, <2>3, <2>4, <2>5, <2>6, <2>7, ViewStep
          DEF NotesKept, LockPassed, CheckpointMoved, AppendedBy
<1> QED BY <1>3, <1>4

LEMMA NoteInvariant == Spec => []NoteInv
<1>1. Init => NoteInv
  <2> SUFFICES ASSUME Init, NEW d \in Conns
               PROVE  noted[d].version <= Current(d)
                      /\ (overtaken[d] => noted[d].version < Current(d))
      BY DEF NoteInv
  <2>1. noted[d].version = 0 /\ ~overtaken[d]
        BY DEF Init, NewStream
  <2>2. Current(d) \in Nat
        BY InitType, VersionsFinite DEF Current, View, TypeOK, IsFile
  <2> QED BY <2>1, <2>2
<1>2. TypeOK /\ TypeOK' /\ LockInv /\ GrowthInv /\ HistoryGapFree /\ NoteInv /\ [Next]_vars
         => NoteInv'
      BY NoteStep DEF NoteInv
<1> QED BY <1>1, <1>2, GrowthInvariant, NoHoles, PTL DEF Spec

Unedited == edits = 0

LEMMA NeverEdited ==
    ASSUME MaxEdits = 0
    PROVE  Spec => []Unedited
<1>1. Init => Unedited
      BY DEF Init, Unedited
<1>2. Unedited /\ [Next]_vars => Unedited'
      BY NoEdit DEF EditOutOfBand, vars, Unedited
<1> QED BY <1>1, <1>2, PTL DEF Spec

\* On a file no other program edits, an append never lands on a stream that another process
\* has moved since the caller read its version, whatever was committed, rolled back or lost in
\* between (append's expected_version, _current_stream_version).
THEOREM NothingOverwrittenUnseen ==
    ASSUME MaxEdits = 0
    PROVE  Spec => NoLostUpdate
<1>1. ASSUME TypeOK, LockInv, GrowthInv, HistoryGapFree, NoteInv, Unedited, [Next]_vars,
             NEW c \in Conns, lock = c, work'.counter > work.counter
      PROVE  ~overtaken[c]
  <2> USE <1>1 DEF Unedited
  <2>1. ~EditOutOfBand
        BY ConstantsAssumption DEF EditOutOfBand, TypeOK
  <2>2. work.counter \in Nat /\ disk.counter \in Nat
        BY DEF TypeOK, IsFile
  <2>3. disk.counter <= work.counter
    <3>1. /\ Len(disk.rows) \in Nat /\ DOMAIN disk.rows = 1..Len(disk.rows)
          /\ Len(work.rows) \in Nat /\ DOMAIN work.rows = 1..Len(work.rows)
          /\ disk.counter = Len(disk.rows) /\ work.counter = Len(work.rows)
          BY GapFreeLatest DEF TypeOK, HistoryGapFree, GapFree
    <3>2. DOMAIN disk.rows \subseteq DOMAIN work.rows
          BY DEF GrowthInv, WorkExtendsDisk
    <3> QED BY <3>1, <3>2
  <2>4. ~Created
    <3>1. CreatedFile.counter = 0
          BY DEF CreatedFile, NewFile
    <3> QED BY <2>2, <3>1 DEF Created
  <2>5. \A d \in Conns : ~ReadPage(d) /\ (\A s \in Streams : ~ReadVersion(d, s))
        BY <2>2 DEF ReadPage, ReadVersion, FileKept
  <2>6. \A d \in Conns : ~(lock = d /\ Commit(d)) /\ ~Ended(d)
        BY <2>2, <2>3 DEF Commit, Ended
  <2>7. PICK d \in Conns : AppendedBy(d)
        BY <2>1, <2>2, <2>4, <2>5, <2>6, ViewStep DEF LockPassed, CheckpointMoved
  <2>8. StreamVersion(work, noted[c].stream) = noted[c].version
        BY <2>7 DEF AppendedBy, AppendAllowed
  <2>9. noted[c].version \in Nat
        BY DEF TypeOK
  <2> QED BY <2>8, <2>9 DEF NoteInv, Current, View
<1>2. TypeOK /\ LockInv /\ GrowthInv /\ HistoryGapFree /\ NoteInv /\ Unedited /\ [Next]_vars
         => [\A c \in Conns :
                lock = c /\ pc[c] \in {"single", "block"} /\ work'.counter > work.counter
                   => ~overtaken[c]]_vars
      BY <1>1
<1> QED BY <1>2, GrowthInvariant, NoHoles, NoteInvariant, NeverEdited, PTL
        DEF Spec, NoLostUpdate

-----------------------------------------------------------------------------
(* Whole batches. *)

\* The batch a row came in stands around it, from row `first' on.
InBatch(rows, i) ==
    \E first \in 1..i :
        /\ first + Len(rows[i].batch) - 1 \in i..Len(rows)
        /\ \A k \in 1..Len(rows[i].batch) : rows[first + k - 1].id = rows[i].batch[k]

WholeBatches(rows) == \A i \in DOMAIN rows : InBatch(rows, i)

\* An append that put its whole batch in leaves whole batches.
LEMMA AppendWhole ==
    ASSUME NEW db, IsFile(db), GapFree(db), WholeBatches(db.rows), NEW s \in Streams,
           NEW events \in Batches, NEW need \in Schemas
    PROVE  WholeBatches(Insert(MarkSchema(db, need), s, events, Len(events), need).rows)
<1> DEFINE n    == Len(db.rows)
           m    == Len(events)
           rows == Insert(MarkSchema(db, need), s, events, m, need).rows
<1>1. /\ n \in Nat /\ DOMAIN db.rows = 1..n /\ LastNumber(db) = n
      /\ m \in 1..MaxBatch /\ m \in Nat /\ m \in 0..Len(events)
      BY GapFreeLatest, BatchType
<1>2. rows = InsertedRows(db, s, events, m, need)
      BY <1>1, AppendLeaves
<1>3. Joined(db.rows, rows, n, s, StreamVersion(db, s), events, m, need)
      BY <1>1, <1>2, RowsAdded
<1>4. IsRows(rows)
      BY <1>1, AppendLeaves DEF IsFile
<1> HIDE DEF rows, m
<1>5. DOMAIN rows = 1..n + m
      BY <1>1, <1>3 DEF Joined
<1>6. rows \in Seq(Row) /\ Len(rows) = n + m
  <2>1. n + m \in Nat
        BY <1>1
  <2> QED BY <1>4, <1>5, <2>1, RowSequence
<1>7. ASSUME NEW i \in 1..n PROVE InBatch(rows, i)
  <2> DEFINE batch == db.rows[i].batch
  <2>1. Len(batch) \in Nat
        BY <1>1, BatchType DEF IsFile, IsRows, Row
  <2>2. PICK first \in 1..i : /\ first + Len(batch) - 1 \in i..n
                              /\ \A k \in 1..Len(batch) : db.rows[first + k - 1].id = batch[k]
        BY <1>1 DEF WholeBatches, InBatch
  <2>3. rows[i] = db.rows[i]
        BY <1>1, <1>3 DEF Joined
  <2>4. first + Len(batch) - 1 \in i..Len(rows)
        BY <1>1, <1>6, <2>2
  <2>5. ASSUME NEW k \in 1..Len(batch) PROVE rows[first + k - 1].id = batch[k]
    <3>1. first + k - 1 \in 1..n
          BY <1>1, <2>1, <2>2
    <3>2. rows[first + k - 1] = db.rows[first + k - 1]
          BY <1>1, <1>3, <3>1 DEF Joined
    <3> QED BY <2>2, <3>2
  <2> QED BY <2>3, <2>4, <2>5 DEF InBatch
<1>8. ASSUME NEW i \in n + 1..n + m PROVE InBatch(rows, i)
  <2>1. rows[i].batch = events
        BY <1>3 DEF Joined
  <2>2. n + 1 \in 1..i /\ (n + 1) + Len(events) - 1 \in i..Len(rows)
        BY <1>1, <1>6 DEF m
  <2>3. ASSUME NEW k \in 1..Len(events) PROVE rows[(n + 1) + k - 1].id = events[k]
    <3>1. (n + 1) + k - 1 \in n + 1..n + m /\ ((n + 1) + k - 1) - n = k
          BY <1>1 DEF m
    <3> QED BY <1>3, <3>1 DEF Joined
  <2> QED BY <2>1, <2>2, <2>3 DEF InBatch
<1>9. \A i \in DOMAIN rows : i \in 1..n \/ i \in n + 1..n + m
      BY <1>1, <1>5
<1>10. WholeBatches(rows)
       BY <1>7, <1>8, <1>9 DEF WholeBatches
<1> QED BY <1>10 DEF rows, m

\* A caller that may still commit has whole batches pending.
AtomicInv ==
    edits = 0 =>
        /\ WholeBatches(disk.rows)
        /\ \A d \in Conns : pc[d] \in {"block", "commit"} => WholeBatches(work.rows)

LEMMA AtomicStep ==
    ASSUME ~CatchesInside, TypeOK, LockInv, GrowthInv, HistoryGapFree, AtomicInv, [Next]_vars,
           edits' = 0
    PROVE  /\ WholeBatches(disk'.rows)
           /\ \A d \in Conns : pc'[d] \in {"block", "commit"} => WholeBatches(work'.rows)
<1>1. /\ ~EditOutOfBand /\ edits = 0 /\ WholeBatches(disk.rows)
      /\ \A d \in Conns : pc[d] \in {"block", "commit"} => WholeBatches(work.rows)
      BY EditsOnlyGrow DEF AtomicInv, EditOutOfBand, TypeOK
<1>2. /\ pc \in [Conns -> Phases]
      /\ \A c, d \in Conns : pc[c] \in InWrite /\ pc[d] \in InWrite => c = d
      /\ \A c \in Conns : pc[c] \in InWrite => lock = c
      /\ \A c \in Conns : pc[c] \in {"locked", "single"} => work = disk
      /\ (lock = NoConn => work = disk)
      BY DEF TypeOK, LockInv, LockOnlyInsideWrite, FreshLock
<1>3. ASSUME NEW c \in Conns, pc[c] \in {"single", "block"} PROVE WholeBatches(work.rows)
      BY <1>1, <1>2, <1>3
<1>4. ASSUME NEW c \in Conns, OpenStep(c)
      PROVE  /\ WholeBatches(disk'.rows)
             /\ \A d \in Conns : pc'[d] \in {"block", "commit"} => WholeBatches(work'.rows)
  <2>1. CASE OpenInitialize(c)
    <3>1. WholeBatches(CreatedFile.rows)
          BY DEF WholeBatches, CreatedFile, NewFile
    <3> QED BY <2>1, <3>1 DEF OpenInitialize
  <2>2. CASE ~OpenInitialize(c)
    <3>1. disk' = disk /\ work' = work
          BY <1>4, <2>2 DEF OpenStep, Open, OpenReadApp, OpenReadMarker, OpenReadObjects,
             OpenBeginInitialize, OpenBusy, OpenRefuseUnmarked, OpenAfterPeer, OpenRereadApp,
             OpenRereadObjects, OpenVerifySchema, OpenReadCounter, OpenReadLatest,
             OpenCheckHistory, FileKept
    <3>2. ASSUME NEW d \in Conns, pc'[d] \in {"block", "commit"}
          PROVE  pc[d] \in {"block", "commit"}
          BY <1>2, <1>4, <2>2, <3>2 DEF OpenStep, Open, OpenReadApp, OpenReadMarker,
             OpenReadObjects, OpenBeginInitialize, OpenBusy, OpenRefuseUnmarked,
             OpenAfterPeer, OpenRereadApp, OpenRereadObjects, OpenVerifySchema,
             OpenReadCounter, OpenReadLatest, OpenCheckHistory, Goto, Judge
    <3> QED BY <1>1, <3>1, <3>2
  <2> QED BY <2>1, <2>2
<1>5. ASSUME NEW c \in Conns, ReadStep(c) \/ BeginBlock(c) \/ BeginSingle(c) \/ Catch(c)
      PROVE  /\ disk' = disk /\ work' = work
             /\ \A d \in Conns : pc'[d] \in {"block", "commit"} => WholeBatches(work.rows)
  <2>1. CASE ReadStep(c)
        BY <1>1, <2>1 DEF ReadStep, ReadPage, ReadVersion, FileKept
  <2>2. CASE BeginBlock(c) \/ BeginSingle(c)
        BY <1>1, <1>2, <2>2 DEF BeginBlock, BeginSingle, Goto
  <2> QED BY <1>5, <2>1, <2>2 DEF Catch
<1>6. ASSUME NEW c \in Conns, pc[c] \in {"single", "block"},
             Goto(c, Raised(c)) \/ Goto(c, "failed") \/ Goto(c, "raised")
      PROVE  \A d \in Conns : pc'[d] \notin {"block", "commit"}
  <2>1. pc'[c] \notin {"block", "commit"}
        BY <1>2, <1>6 DEF Goto, Raised
  <2>2. ASSUME NEW d \in Conns, d # c PROVE pc'[d] = pc[d] /\ pc[d] \notin InWrite
        BY <1>2, <1>6, <2>2 DEF Goto, InWrite
  <2> QED BY <2>1, <2>2 DEF InWrite
<1>7. ASSUME NEW c \in Conns, AppendStep(c)
      PROVE  /\ disk' = disk
             /\ \A d \in Conns : pc'[d] \in {"block", "commit"} => WholeBatches(work'.rows)
  <2>1. ASSUME NEW need \in Schemas, AppendRefused(c, need)
        PROVE  /\ disk' = disk
               /\ \A d \in Conns : pc'[d] \in {"block", "commit"} => WholeBatches(work'.rows)
        BY <1>6, <2>1 DEF AppendRefused, FileKept
  <2>2. ASSUME NEW need \in Schemas, NEW events \in Batches, AppendConflict(c, events, need)
        PROVE  /\ disk' = disk
               /\ \A d \in Conns : pc'[d] \in {"block", "commit"} => WholeBatches(work'.rows)
        BY <1>6, <2>2 DEF AppendConflict
  <2>3. ASSUME NEW need \in Schemas, NEW events \in Batches, AppendEvents(c, events, need)
        PROVE  /\ disk' = disk
               /\ \A d \in Conns : pc'[d] \in {"block", "commit"} => WholeBatches(work'.rows)
    <3>1. IsFile(work) /\ GapFree(work) /\ noted[c].stream \in Streams
          BY <1>1 DEF TypeOK, HistoryGapFree
    <3>2. WholeBatches(work.rows)
          BY <1>3, <2>3 DEF AppendEvents
    <3>3. WholeBatches(work'.rows)
          BY <2>3, <3>1, <3>2, AppendWhole DEF AppendEvents
    <3> QED BY <2>3, <3>3 DEF AppendEvents
  <2> QED BY <1>7, <2>1, <2>2, <2>3 DEF AppendStep
<1>8. ASSUME NEW c \in Conns, ProjectionStep(c)
      PROVE  /\ disk' = disk
             /\ \A d \in Conns : pc'[d] \in {"block", "commit"} => WholeBatches(work'.rows)
  <2>1. disk' = disk /\ pc[c] \in {"single", "block"}
        BY <1>8 DEF ProjectionStep, AdvanceProjection, ResetProjection
  <2>2. work'.rows = work.rows
        BY <1>8 DEF ProjectionStep, AdvanceProjection, ResetProjection, TypeOK, IsFile
  <2> QED BY <1>3, <2>1, <2>2
<1>9. ASSUME NEW c \in Conns, EndStep(c) \/ Stop(c)
      PROVE  /\ WholeBatches(disk'.rows)
             /\ \A d \in Conns : pc'[d] \in {"block", "commit"} => WholeBatches(work'.rows)
  <2>1. CASE Commit(c)
        BY <1>1, <2>1 DEF Commit
  <2>2. CASE CommitFails(c) \/ Rollback(c) \/ Abandon(c)
        BY <1>1, <2>2 DEF CommitFails, Rollback, Abandon, Dropped
  <2>3. CASE Stop(c)
    <3>1. CASE lock = c
          BY <1>1, <2>3, <3>1 DEF Stop
    <3>2. CASE lock # c
          BY <1>1, <1>2, <2>3, <3>2 DEF Stop, Goto
    <3> QED BY <3>1, <3>2
  <2> QED BY <1>9, <2>1, <2>2, <2>3 DEF EndStep
<1>10. CASE UNCHANGED vars
       BY <1>1, <1>10 DEF vars
<1> QED BY <1>1, <1>4, <1>5, <1>7, <1>8, <1>9, <1>10 DEF Next

\* Where no caller catches an append's error inside its own block, a batch is stored whole or
\* not at all, through every conflict part way, failed COMMIT, rollback and crash (append,
\* _write_transaction).
THEOREM BatchesStayWhole ==
    ASSUME ~CatchesInside
    PROVE  Spec => []BatchesAtomic
<1>1. Init => AtomicInv
  <2>1. Init => DOMAIN disk.rows = {}
        BY FirstFileType DEF Init
  <2> QED BY <2>1 DEF Init, AtomicInv, WholeBatches
<1>2. TypeOK /\ LockInv /\ GrowthInv /\ HistoryGapFree /\ AtomicInv /\ [Next]_vars
         => AtomicInv'
      BY AtomicStep DEF AtomicInv
<1>3. AtomicInv => BatchesAtomic
      BY DEF AtomicInv, BatchesAtomic, WholeBatches, InBatch
<1> QED BY <1>1, <1>2, <1>3, GrowthInvariant, NoHoles, PTL DEF Spec

-----------------------------------------------------------------------------
(* The store implements the abstract log. *)

Once(rows) == \A i, j \in 1..Len(rows) : rows[i].id = rows[j].id => i = j

LEMMA NoRows ==
    ASSUME NEW rows \in Seq(Row), DOMAIN rows = {}
    PROVE  rows = <<>>
<1>1. Len(rows) \in Nat /\ DOMAIN rows = 1..Len(rows)
      OBVIOUS
<1>2. Len(rows) = 0
  <2>1. Len(rows) > 0 => 1 \in DOMAIN rows
        BY <1>1
  <2> QED BY <1>1, <2>1
<1> QED BY <1>2, EmptySeq

LEMMA SameCount == \A S : Log!Cardinality(S) = Cardinality(S)
BY DEF Cardinality, Log!Cardinality

\* What a commit of `new' over `db' may change: nothing of the log and the mark, or the log by
\* some rows and the mark upwards.
Recordable(db, new) ==
    \/ new.rows = db.rows /\ new.marker = db.marker
    \/ /\ Len(db.rows) < Len(new.rows)
       /\ db.marker # 0 /\ db.marker <= new.marker /\ new.marker \in Schemas
       /\ new.app = "complyroll"

\* An append of new identifiers leaves every identifier once, and what it leaves pending may
\* be committed.
LEMMA AppendRecordable ==
    ASSUME NEW db, NEW old, IsFile(db), IsFile(old), GapFree(db), GapFree(old),
           Once(db.rows), Recordable(old, db), db.app = "complyroll", db.marker \in Schemas,
           NEW s \in Streams, NEW events \in Batches, NEW need \in Schemas,
           \A i \in 1..Len(events) : events[i] \notin Ids(db)
    PROVE  LET new == Insert(MarkSchema(db, need), s, events, Len(events), need)
           IN  Once(new.rows) /\ Recordable(old, new)
<1> DEFINE n   == Len(db.rows)
           m   == Len(events)
           new == Insert(MarkSchema(db, need), s, events, m, need)
<1>1. /\ n \in Nat /\ DOMAIN db.rows = 1..n /\ LastNumber(db) = n
      /\ m \in 1..MaxBatch /\ m \in Nat /\ m > 0 /\ m \in 0..Len(events)
      BY GapFreeLatest, BatchType
<1>2. /\ new.rows = InsertedRows(db, s, events, m, need) /\ IsRows(new.rows)
      /\ new.app = db.app
  <2>1. /\ IsFile(new) /\ new.app = db.app
        /\ new.rows = InsertedRows(db, s, events, m, need)
        BY <1>1, AppendLeaves
  <2> HIDE DEF new, m
  <2> QED BY <2>1 DEF IsFile
<1>3. Joined(db.rows, new.rows, n, s, StreamVersion(db, s), events, m, need)
      BY <1>1, <1>2, RowsAdded
<1>4. new.marker \in Schemas /\ db.marker <= new.marker
      BY <1>1, ConstantsAssumption DEF Insert, WithLog, MarkSchema, WithMark, Schemas
<1>5. \A i, j \in 1..m : events[i] = events[j] => i = j
      BY <1>1 DEF Batches, Injection, IsInjective
<1> HIDE DEF new, m
<1>6. DOMAIN new.rows = 1..n + m
      BY <1>1, <1>3 DEF Joined
<1>7. new.rows \in Seq(Row) /\ Len(new.rows) = n + m
  <2>1. n + m \in Nat
        BY <1>1
  <2> QED BY <1>2, <1>6, <2>1, RowSequence
<1>8. /\ \A i \in 1..n : new.rows[i].id = db.rows[i].id /\ db.rows[i].id \in Ids(db)
      /\ \A i \in n + 1..n + m : i - n \in 1..m /\ new.rows[i].id = events[i - n]
  <2>1. \A i \in 1..n : new.rows[i] = db.rows[i] /\ db.rows[i].id \in Ids(db)
        BY <1>1, <1>3 DEF Joined, Ids
  <2>2. \A i \in n + 1..n + m : i - n \in 1..m
        BY <1>1
  <2>3. \A i \in n + 1..n + m : new.rows[i].id = events[i - n]
        BY <1>3 DEF Joined
  <2> QED BY <2>1, <2>2, <2>3
<1>9. \A i \in n + 1..n + m : new.rows[i].id \notin Ids(db)
      BY <1>8 DEF m
<1>10. ASSUME NEW i \in 1..n + m, NEW j \in 1..n + m, new.rows[i].id = new.rows[j].id
       PROVE  i = j
  <2>1. CASE i \in 1..n /\ j \in 1..n
        BY <1>8, <1>10, <2>1 DEF Once
  <2>2. CASE i \in n + 1..n + m /\ j \in n + 1..n + m
    <3>1. i - n \in 1..m /\ j - n \in 1..m /\ events[i - n] = events[j - n]
          BY <1>8, <1>10, <2>2
    <3>2. i - n = j - n
          BY <1>5, <3>1
    <3> QED BY <1>1, <2>2, <3>2
  <2>3. CASE (i \in 1..n /\ j \in n + 1..n + m) \/ (j \in 1..n /\ i \in n + 1..n + m)
        BY <1>8, <1>9, <1>10, <2>3
  <2> QED BY <1>1, <2>1, <2>2, <2>3
<1>11. Once(new.rows)
       BY <1>7, <1>10 DEF Once
<1>12. Recordable(old, new)
  <2>1. Len(old.rows) \in Nat /\ old.marker \in Int /\ db.marker \in Int
        BY ConstantsAssumption DEF GapFree, IsFile
  <2>2. CASE db.rows = old.rows /\ db.marker = old.marker
        BY <1>1, <1>2, <1>4, <1>7, <2>1, <2>2 DEF Recordable, Schemas
  <2>3. CASE ~(db.rows = old.rows /\ db.marker = old.marker)
        BY <1>1, <1>2, <1>4, <1>7, <2>1, <2>3, ConstantsAssumption DEF Recordable, Schemas
  <2> QED BY <2>2, <2>3
<1> QED BY <1>11, <1>12 DEF new, m

\* What a caller may still commit, committed, is a step of the abstract log.
PendingRecordable == Once(work.rows) /\ Recordable(disk, work)

RecordInv ==
    edits = 0 =>
        /\ Once(disk.rows)
        /\ \A d \in Conns : pc[d] \in {"block", "commit"} => PendingRecordable

LEMMA RecordStep ==
    ASSUME ~CatchesInside, TypeOK, LockInv, GrowthInv, HistoryGapFree, RecordInv, [Next]_vars,
           edits' = 0
    PROVE  /\ Once(disk'.rows)
           /\ \A d \in Conns : pc'[d] \in {"block", "commit"} => PendingRecordable'
<1>1. /\ ~EditOutOfBand /\ edits = 0 /\ Once(disk.rows)
      /\ \A d \in Conns : pc[d] \in {"block", "commit"} => PendingRecordable
      BY EditsOnlyGrow DEF RecordInv, EditOutOfBand, TypeOK
<1>2. /\ pc \in [Conns -> Phases]
      /\ \A c, d \in Conns : pc[c] \in InWrite /\ pc[d] \in InWrite => c = d
      /\ \A c \in Conns : pc[c] \in InWrite => lock = c
      /\ \A c \in Conns : pc[c] \in {"locked", "single"} => work = disk
      /\ (lock = NoConn => work = disk)
      BY DEF TypeOK, LockInv, LockOnlyInsideWrite, FreshLock
<1>3. ASSUME NEW c \in Conns, pc[c] \in {"single", "block"} PROVE PendingRecordable
  <2>1. CASE work = disk
        BY <1>1, <2>1 DEF PendingRecordable, Recordable
  <2> QED BY <1>1, <1>2, <1>3, <2>1
<1>11. ASSUME disk' = disk, work' = work, PendingRecordable PROVE PendingRecordable'
       BY <1>11 DEF PendingRecordable
<1>4. ASSUME NEW c \in Conns, OpenStep(c)
      PROVE  /\ Once(disk'.rows)
             /\ \A d \in Conns : pc'[d] \in {"block", "commit"} => PendingRecordable'
  <2>1. CASE OpenInitialize(c)
    <3>1. Once(CreatedFile.rows)
          BY CreatedFileType DEF Once
    <3>2. ASSUME NEW d \in Conns PROVE pc'[d] \notin {"block", "commit"}
      <4>1. CASE d = c
            BY <1>2, <2>1, <4>1 DEF OpenInitialize, Goto
      <4>2. CASE d # c
            BY <1>2, <2>1, <4>2 DEF OpenInitialize, Goto, InWrite
      <4> QED BY <4>1, <4>2
    <3> QED BY <2>1, <3>1, <3>2 DEF OpenInitialize
  <2>2. CASE ~OpenInitialize(c)
    <3>1. disk' = disk /\ work' = work
          BY <1>4, <2>2 DEF OpenStep, Open, OpenReadApp, OpenReadMarker, OpenReadObjects,
             OpenBeginInitialize, OpenBusy, OpenRefuseUnmarked, OpenAfterPeer, OpenRereadApp,
             OpenRereadObjects, OpenVerifySchema, OpenReadCounter, OpenReadLatest,
             OpenCheckHistory, FileKept
    <3>2. ASSUME NEW d \in Conns, pc'[d] \in {"block", "commit"}
          PROVE  pc[d] \in {"block", "commit"}
          BY <1>2, <1>4, <2>2, <3>2 DEF OpenStep, Open, OpenReadApp, OpenReadMarker,
             OpenReadObjects, OpenBeginInitialize, OpenBusy, OpenRefuseUnmarked,
             OpenAfterPeer, OpenRereadApp, OpenRereadObjects, OpenVerifySchema,
             OpenReadCounter, OpenReadLatest, OpenCheckHistory, Goto, Judge
    <3> QED BY <1>1, <1>11, <3>1, <3>2
  <2> QED BY <2>1, <2>2
<1>5. ASSUME NEW c \in Conns, ReadStep(c) \/ BeginBlock(c) \/ BeginSingle(c) \/ Catch(c)
      PROVE  /\ disk' = disk /\ work' = work
             /\ \A d \in Conns : pc'[d] \in {"block", "commit"} => PendingRecordable
  <2>1. CASE ReadStep(c)
        BY <1>1, <2>1 DEF ReadStep, ReadPage, ReadVersion, FileKept
  <2>2. CASE BeginBlock(c) \/ BeginSingle(c)
    <3>1. lock = NoConn /\ work = disk
          BY <1>2, <2>2 DEF BeginBlock, BeginSingle
    <3>2. PendingRecordable
          BY <1>1, <3>1 DEF PendingRecordable, Recordable
    <3> QED BY <2>2, <3>2 DEF BeginBlock, BeginSingle
  <2> QED BY <1>5, <2>1, <2>2 DEF Catch
<1>6. ASSUME NEW c \in Conns, pc[c] \in {"single", "block"},
             Goto(c, Raised(c)) \/ Goto(c, "failed") \/ Goto(c, "raised")
      PROVE  \A d \in Conns : pc'[d] \notin {"block", "commit"}
  <2>1. pc'[c] \notin {"block", "commit"}
        BY <1>2, <1>6 DEF Goto, Raised
  <2>2. ASSUME NEW d \in Conns, d # c PROVE pc'[d] = pc[d] /\ pc[d] \notin InWrite
        BY <1>2, <1>6, <2>2 DEF Goto, InWrite
  <2> QED BY <2>1, <2>2 DEF InWrite
<1>7. ASSUME NEW c \in Conns, AppendStep(c)
      PROVE  /\ disk' = disk
             /\ \A d \in Conns : pc'[d] \in {"block", "commit"} => PendingRecordable'
  <2>1. ASSUME NEW need \in Schemas, AppendRefused(c, need)
        PROVE  /\ disk' = disk
               /\ \A d \in Conns : pc'[d] \in {"block", "commit"} => PendingRecordable'
        BY <1>6, <2>1 DEF AppendRefused, FileKept
  <2>2. ASSUME NEW need \in Schemas, NEW events \in Batches, AppendConflict(c, events, need)
        PROVE  /\ disk' = disk
               /\ \A d \in Conns : pc'[d] \in {"block", "commit"} => PendingRecordable'
        BY <1>6, <2>2 DEF AppendConflict
  <2>3. ASSUME NEW need \in Schemas, NEW events \in Batches, AppendEvents(c, events, need)
        PROVE  /\ disk' = disk
               /\ \A d \in Conns : pc'[d] \in {"block", "commit"} => PendingRecordable'
    <3>1. /\ IsFile(work) /\ GapFree(work) /\ IsFile(disk) /\ GapFree(disk)
          /\ noted[c].stream \in Streams
          BY <1>1 DEF TypeOK, HistoryGapFree
    <3>2. PendingRecordable
          BY <1>3, <2>3 DEF AppendEvents
    <3>3. work.app = "complyroll" /\ work.marker \in Schemas
          BY <2>3 DEF AppendEvents, AppendAllowed, MarkRefused
    <3>4. /\ disk' = disk
          /\ work' = Insert(MarkSchema(work, need), noted[c].stream, events, Len(events), need)
          /\ \A i \in 1..Len(events) : events[i] \notin Ids(work)
          BY <2>3 DEF AppendEvents
    <3>5. Once(work.rows) /\ Recordable(disk, work)
          BY <3>2 DEF PendingRecordable
    <3>6. Once(work'.rows) /\ Recordable(disk, work')
          BY <3>1, <3>3, <3>4, <3>5, AppendRecordable
    <3>7. PendingRecordable'
          BY <3>4, <3>6 DEF PendingRecordable
    <3> QED BY <3>4, <3>7
  <2> QED BY <1>7, <2>1, <2>2, <2>3 DEF AppendStep
<1>8. ASSUME NEW c \in Conns, ProjectionStep(c)
      PROVE  /\ disk' = disk
             /\ \A d \in Conns : pc'[d] \in {"block", "commit"} => PendingRecordable'
  <2>1. disk' = disk /\ pc[c] \in {"single", "block"}
        BY <1>8 DEF ProjectionStep, AdvanceProjection, ResetProjection
  <2>2. work'.rows = work.rows /\ work'.marker = work.marker /\ work'.app = work.app
        BY <1>8 DEF ProjectionStep, AdvanceProjection, ResetProjection, TypeOK, IsFile
  <2>3. PendingRecordable
        BY <1>3, <2>1
  <2>4. PendingRecordable'
        BY <2>1, <2>2, <2>3 DEF PendingRecordable, Once, Recordable
  <2> QED BY <2>1, <2>4
<1>9. ASSUME NEW c \in Conns, EndStep(c) \/ Stop(c)
      PROVE  /\ Once(disk'.rows)
             /\ \A d \in Conns : pc'[d] \in {"block", "commit"} => PendingRecordable'
  <2>1. CASE Commit(c)
    <3>1. disk' = work /\ work' = work /\ PendingRecordable
          BY <1>1, <2>1 DEF Commit
    <3>2. PendingRecordable'
          BY <3>1 DEF PendingRecordable, Recordable
    <3> QED BY <3>1, <3>2 DEF PendingRecordable
  <2>2. CASE disk' = disk /\ work' = disk
    <3>1. PendingRecordable'
          BY <1>1, <2>2 DEF PendingRecordable, Recordable
    <3> QED BY <1>1, <2>2, <3>1
  <2>3. CASE Stop(c) /\ lock # c
    <3>1. disk' = disk /\ work' = work
          BY <2>3 DEF Stop
    <3>2. \A d \in Conns : pc'[d] \in {"block", "commit"} => pc[d] \in {"block", "commit"}
          BY <1>2, <2>3 DEF Stop, Goto
    <3> QED BY <1>1, <1>11, <3>1, <3>2
  <2>4. Commit(c) \/ (disk' = disk /\ work' = disk) \/ (Stop(c) /\ lock # c)
        BY <1>9 DEF EndStep, CommitFails, Rollback, Abandon, Dropped, Stop
  <2> QED BY <2>1, <2>2, <2>3, <2>4
<1>10. CASE UNCHANGED vars
  <2>1. disk' = disk /\ work' = work /\ pc' = pc
        BY <1>10 DEF vars
  <2> QED BY <1>1, <1>11, <2>1
<1>12. ASSUME NEW c \in Conns, ReadStep(c) \/ BeginBlock(c) \/ BeginSingle(c) \/ Catch(c)
       PROVE  /\ Once(disk'.rows)
              /\ \A d \in Conns : pc'[d] \in {"block", "commit"} => PendingRecordable'
       BY <1>1, <1>5, <1>11, <1>12
<1> QED BY <1>1, <1>4, <1>7, <1>8, <1>9, <1>10, <1>12 DEF Next

LEMMA RecordInvariant ==
    ASSUME ~CatchesInside
    PROVE  Spec => []RecordInv
<1>1. Init => RecordInv
  <2>1. Init => disk.rows = <<>>
        BY FirstFileType DEF Init
  <2> QED BY <2>1 DEF Init, RecordInv, Once
<1>2. TypeOK /\ LockInv /\ GrowthInv /\ HistoryGapFree /\ RecordInv /\ [Next]_vars
         => RecordInv'
      BY RecordStep DEF RecordInv
<1> QED BY <1>1, <1>2, GrowthInvariant, NoHoles, PTL DEF Spec

\* The store, with its files, locks, transactions, rollbacks and crashes, implements the log of
\* EventLog: history only ever grows, by whole groups of new events, numbered in every stream,
\* each identifier once, behind a mark that covers them. It holds on a file no other program
\* edits and no newer build wrote, where no caller catches an append's error in its own block.
THEOREM StoreImplementsLog ==
    ASSUME ~CatchesInside, MaxEdits = 0, NewerFile \notin FirstFiles
    PROVE  Spec => ImplementsEventLog
<1>1. Init => Log!Init
  <2> SUFFICES ASSUME Init PROVE disk.rows = <<>> /\ disk.marker \in {0, 1}
      BY DEF Log!Init
  <2>1. disk.rows = <<>>
        BY FirstFileType DEF Init
  <2>2. disk \in {EmptyFile, CreatedFile, ForeignFile, UnmarkedFile}
        BY FirstFilesAssumption DEF Init
  <2> QED BY <2>1, <2>2
          DEF EmptyFile, CreatedFile, ForeignFile, UnmarkedFile, NewFile
<1>2. ASSUME TypeOK, LockInv, GrowthInv, HistoryGapFree, JudgedInv, RecordInv, Unedited,
             [Next]_vars, HistoryGapFree', RecordInv', SchemaCoversEvents', Unedited', TypeOK'
      PROVE  [Log!Next]_<<disk.rows, disk.marker>>
  <2> USE <1>2 DEF Unedited
  <2>1. CASE Created
    <3>1. DOMAIN disk.rows = {} /\ disk.marker = 0
          BY <2>1 DEF Created, GrowthInv, EmptyUntilCreated
    <3>2. disk.rows = <<>>
      <4>1. disk.rows \in Seq(Row)
            BY DEF HistoryGapFree, GapFree
      <4> QED BY <3>1, <4>1, NoRows
    <3>3. disk'.rows = <<>> /\ disk'.marker = 1
          BY <2>1 DEF Created, CreatedFile, NewFile
    <3> QED BY <3>1, <3>2, <3>3 DEF Log!Next, Log!Create
  <2>2. CASE Committed
    <3>1. disk' = work /\ Recordable(disk, work)
          BY <2>2 DEF Committed, Commit, RecordInv, PendingRecordable
    <3>2. CASE work.rows = disk.rows /\ work.marker = disk.marker
          BY <3>1, <3>2
    <3>3. CASE ~(work.rows = disk.rows /\ work.marker = disk.marker)
      <4> DEFINE old == disk.rows
                 new == disk'.rows
                 n   == Len(old)
      <4>1. /\ n < Len(new) /\ disk.marker # 0 /\ disk.marker <= disk'.marker
            /\ disk'.marker \in Schemas /\ disk'.app = "complyroll"
            BY <3>1, <3>3 DEF Recordable
      <4>2. old \in Seq(Row) /\ new \in Seq(Row)
            BY DEF HistoryGapFree, GapFree
      <4>3. \A i \in 1..n : i \in DOMAIN new /\ new[i] = old[i]
            BY <3>1, <4>2 DEF GrowthInv, WorkExtendsDisk
      <4>4. SubSeq(new, 1, n) = old
            BY <4>1, <4>2, <4>3
      <4>5. ASSUME NEW i \in n + 1..Len(new)
            PROVE  new[i].stream \in Streams /\ new[i].id \in EventIds
                   /\ new[i].need <= disk'.marker
        <5>1. i \in DOMAIN new /\ new[i] \in Row
              BY <4>2
        <5> QED BY <4>1, <5>1 DEF Row, SchemaCoversEvents
      <4>6. Log!Numbered(new)
            BY SameCount DEF HistoryGapFree, GapFree, Log!Numbered
      <4>7. Log!OncePerIdentifier(new)
            BY DEF RecordInv, Once, Log!OncePerIdentifier
      <4>8. disk'.marker \in disk.marker..Supported
            BY <4>1, ConstantsAssumption DEF Schemas, TypeOK, IsFile
      <4> HIDE DEF old, new, n
      <4>9. Log!Record
            BY <4>1, <4>4, <4>5, <4>6, <4>7, <4>8 DEF Log!Record, old, new, n
      <4> QED BY <4>9 DEF Log!Next
    <3> QED BY <3>2, <3>3
  <2>3. CASE disk' = disk
        BY <2>3
  <2>4. edits' = edits
        BY DEF Unedited
  <2> QED BY <2>1, <2>2, <2>3, <2>4, FileStep
          DEF FileUnchanged, Discarded, Appended, Projected
<1> QED BY <1>1, <1>2, GrowthInvariant, NoHoles, JudgedInvariant, RecordInvariant,
           MarkCoversHistory, NeverEdited, PTL DEF Spec, ImplementsEventLog, Log!Spec
=============================================================================
