# ComplyRoll in TLA+

ComplyRoll turns scanner artifacts (STIG checklists, SARIF, HDF, CycloneDX) into FedRAMP
vulnerability-detection reports. Persisted runs keep an append-only SQLite event log; cases and
reports are rebuilt from that log. These modules model the parts of it where several processes,
failures, restarts and rules of supersession meet, check them with TLC and prove what matters
most with TLAPS. Paths below are relative to `src/src/complyroll/` unless they say otherwise.

## Inventory

| Component | State it keeps | Operations | What is hard |
|---|---|---|---|
| Event store (`store/sqlite.py`) | one WAL-mode SQLite file: header, schema mark, migration records, event rows, AUTOINCREMENT counter, projection checkpoints; one connection per process | open/initialize, append, transaction block, read pages, checkpoint advance/reset, verify | statement-by-statement opens racing writers, optimistic versions, failed COMMIT/ROLLBACK, crashes, damage by another program |
| CLI ingest and outputs (`cli.py`) | paths: the store, temporaries, report files and their kept copies | build a store beside its path and `os.link` it; stage, replace and roll back report files | two runs creating one store, a crash or a full disk between two steps |
| Repository (`events/repository.py`) | none of its own: rules over streams and events | `append_batch` with contract, placement, head, uniqueness and schema rules; the identity and record checks of a read | a check and the append it guards in different transactions; three judges of one log that must agree |
| History writers (`history/writers.py`) | none: events appended in one transaction per writer | record ingest, failure, hold, coverage gap; correlate, attest, evaluate | retries, resumed streams, idempotence |
| History fold (`history/fold.py`, `history/order.py`) | none: a pure function of the log | which readings of one artifact are current (R1-R6), case states, audit | several parser versions succeed and fail on the same bytes in any order |
| Correlation (`correlation/`) | none | group open observations by record identity | identity collisions |
| Coverage and gaps (`reports/coverage.py`, `reports/gaps.py`, `reports/inventory.py`) | none: derived from evidence, an inventory file and an as-of; the gaps it recorded are events | read an inventory, walk each clock, record the windows that closed empty, say what a recorded gap is today | interval edges; the inventory, the class, the as-of and late evidence differ between the recording run and the report |
| Report compiler and replay (`reports/records.py`, `reports/replay.py`) | none | take one reading of every artifact and decide what stands for it; select the current evaluation of each case; replay from history | several files of one digest, names that hide their format, failures that may or may not be recorded; three reads of a moving log |
| Adapters (`adapters/sarif.py`, `hdf.py`, `cyclonedx.py`, `stig.py`, `common.py`, `failures.py`) | none: one document in, one reading out | walk the document, turn its parts into candidates, fold those of one identity, classify a reading that did not come out whole | a finding that is folded, shadowed, suppressed or judged away; a PASS nobody vouches for; a clock lost in an early return |
| KEV, policy, schemas, rendering, models, STIGroll | none | parse, look up or format one document | pure functions of their input |

How they interact. The CLI opens one repository on one store, enters one `transaction()` block,
calls the writers (which join that block), and closes. The writers read streams through the fold
and append through the repository. Reports and `cases list` open the store, read the log with
several read statements and no transaction, fold it and render. Processes share only the file.

Each component's `status`, sources and note are in `PROJECT.json`; the hazards listed there, each
at its line, are what the properties below were written for.

What makes each component correct:

- **Event store.** History has no hole and no repeated identifier; a batch is stored whole or not
  at all; an append at a stale version is refused; whoever takes the write lock gives it back,
  also when COMMIT or ROLLBACK fails; nothing is appended past damage, and no step of the store
  hides damage; a reader that pages through the log sees a prefix of it.
- **Ingest.** What a run says it recorded is in the store at the path; what a failing run recorded
  is not; a store appears whole or not at all; no run harms the store another one published.
- **Outputs.** A failing command leaves every destination as it found it or names the ones it
  could not put back and keeps their content; a mixed set is never silent.
- **Fold of one artifact.** Of everything recorded for a digest something is current; a superseded
  stream is replaced by a current one; a failure that stands is carried once; a failure a reading
  resolved stays resolved.
- **Cases.** A case is of one record, also when two records share a tracking id; a command given
  twice writes once; no command makes a report that compiled stop compiling, or puts an evaluation
  before its record's detection time; `store verify` names what a report refuses.
- **Repository and audit.** `store verify` names every log a reader refuses; a log the repository
  alone wrote has none of the faults it checks for; a verify beside an appender reports the log
  as it stood at one moment of its run.
- **Coverage.** A clock's windows are exactly its lapses; a later as-of only adds gaps; a gap is
  recorded once and its identifier names one window; what a report says of a recorded gap has a
  reason the operator can find, and advice is taken back only with the evidence it rested on.
- **Adapters.** A failing result stays open whatever stands beside it; a PASS is vouched for; a
  failed invocation keeps its clock; a failure recorded in place of a reading stands for one that
  read nothing; the order of a document's lists does not show; a package keeps its resource over
  an upgrade.
- **Ingest run.** Every file of a run is answered, once per digest and under one name whatever the
  order; a run that stops names every reading that failed.

## Modules

| Module | Models | Proofs |
|---|---|---|
| `EventLog` | what the store promises, with no file, lock or process | |
| `EventStore`, `EventStoreMC` | `store/sqlite.py`: open, initialize, read, append, blocks, projections, commit, crash, edits by another program | `EventStoreProofs` |
| `StorePublish`, `StorePublishMC` | `cli.py`: `ingest` from the path check to the printed summary | `PublishProofs` |
| `OutputPublish`, `OutputPublishMC` | `cli.py`: `_write_all_or_nothing`, `_roll_back` | `PublishProofs` |
| `ArtifactHistory`, `ArtifactHistoryMC` | `history/fold.py`: `_split_streams` (R1 to R6), `reading_elsewhere`; `history/writers.py`: `record_ingest`, `record_failure`; the order `cli.py` calls them in | `ArtifactHistoryProofs` |
| `CaseHistory`, `CaseHistoryMC` | `history/writers.py`: `tracking_id_refusals`, `correlate_cases`, `attest_detection`, `apply_evaluations`; `cli.py`: `attest-detection --all-missing`; `correlation/`; the case fold; `history/order.py`; what `reports/replay.py` and `reports/records.py` refuse | `CaseHistoryProofs` |
| `HistoryAudit`, `HistoryAuditMC` | `events/repository.py`; the strict readers and `audit_history` of `history/fold.py`; `open_for_verification`, `verify_history` of `store/sqlite.py`; `cli.py`: `store verify` | `HistoryAuditProofs` |
| `Coverage`, `CoverageMC` | `reports/coverage.py`, `reports/gaps.py`, `reports/inventory.py`; `history/writers.py`: `record_coverage_gaps` | `CoverageProofs` |
| `Evidence` | `adapters/common.py`, `adapters/failures.py`: readings, their codes and their classification | `IngestProofs` |
| `Sarif`, `Hdf` | one adapter each, step by step | `IngestProofs` |
| `CycloneDx` | `adapters/cyclonedx.py`, step by step | `CycloneDxProofs`, `IngestProofs` |
| `Checklists` | `adapters/stig.py`: CKLB, CKL and XCCDF | |
| `Ingest`, `IngestMC` | `adapters/stig.py`: `ingest_stig_artifact`; `reports/records.py`: `_ingest_all`; composes the adapters | `IngestProofs` |

`EventStore` instantiates `EventLog` and is checked to implement it. `StorePublish` uses the store
at the grain `EventStore` justifies: a write transaction is atomic and exclusive, so it appears there
as one lock and a set of pending artifacts. `ArtifactHistory` in turn takes a whole ingest run to
be one transaction, which is what `StorePublish` shows (`RunsAllOrNothing`). `CaseHistory` takes each
command to be one transaction for the reason `EventStore` gives, and takes the newest reading of an
artifact to be the current one, which is R1 of `ArtifactHistory` where the versions are numbers and
nothing failed. `Coverage` takes a run of `cases coverage` to be one transaction, and
`ArtifactHistory`'s rules for what is current of each artifact, its writers included; `HistoryAudit` takes
its rule for which readings are current. `Ingest`
instantiates the three adapters it steps through (`S`, `H`, `D`) and the checklists (`C`) over one
state, and classifies each reading with `Evidence`; the readings it decides on are what
`ArtifactHistory` records.

A definition whose comment says "Mutated form" is a plausible bug of the definition after it. No
specification uses it; it is there to show that the properties notice that bug.

### EventStore

One connection per process. `disk` is the last commit and `work` the file as the lock holder sees
it; `View(c)` is what a statement of connection `c` reads. In write-ahead mode a statement outside
a transaction reads the last commit, so every `execute` outside a transaction is an action of its
own: the constructor is a chain of them
(`OpenReadApp` to `OpenCheckHistory`), which is how two
processes come to see different halves of each other's work. Inside `BEGIN IMMEDIATE` nobody else
writes, so a call made there (`AppendEvents`, `AppendRefused`, `AppendConflict`,
`AdvanceProjection`, `ResetProjection`) is one action.

| Code | Here |
|---|---|
| `__init__`, `_initialize_schema_unchecked` | `Open`, `OpenReadApp` ... `OpenRereadObjects` |
| `_verify_existing_schema`, `_require_sequence_counter_intact`, `_require_history_contiguous` | `OpenVerifySchema`, `OpenReadCounter`, `OpenReadLatest`, `OpenCheckHistory` |
| `transaction()`, `_write_transaction` | `BeginBlock`, `BeginSingle`, `Commit`, `CommitFails`, `Rollback`, `Abandon`; `pc[c]` is `block`, `single`, `commit`, `failed` or `raised` |
| `append`, `_mark_schema`, AUTOINCREMENT | `AppendAllowed`, `AppendEvents`, `AppendRefused`, `AppendConflict`; `MarkSchema`; `InsertedRows` |
| `advance_projection`, `reset_projection` | `AdvanceProjection`, `ResetProjection` |
| `current_stream_version`, `read_all` | `ReadVersion` (kept in `noted` for the append that follows), `ReadPage` |
| a process dies or calls `close()` | `Stop` |
| another program edits the file | `EditOutOfBand` |

`batch` in a row and `overtaken` are history variables: no guard reads them. A busy
`BEGIN IMMEDIATE` on an open store raises without a change and is a stuttering step. Payload
checks, timestamps and JSON are left out: a payload that is refused is one of the errors behind
`Rollback`.

### StorePublish

A database file follows its inode through `os.link`, its write-ahead log is found by name; that is
why `main` is indexed by file and `wal` by name. A run goes `start`, `reserve`, `parse`, `open`,
`recording`, `closing`, then `link` and `discard` for a new store, then `report`. `diskFails`, fixed
in the first state, says whether the disk may refuse a write outside a transaction; SQLite reports
a failed COMMIT but not a failed copy of the log at close. Runs that race, a retry of the same
artifacts, and a crash at every statement are in.

### OutputPublish

Its names differ from those of `StorePublish`, so that one module can state theorems of both.
One action per file operation: stage, copy beside, rename, put back. `met` records what a command
found when it copied a destination aside. The removal of temporaries and copies, whose errors the
code suppresses, is taken to succeed, so `AllOrNothing` says nothing of a disk that refuses `unlink`.
`Overlap` says whether two commands may run at once; the runs and the theorems take one at a time.

### ArtifactHistory

The rules compare streams of one digest only, so one digest stands for all, and a stream's place in
`streams` is its recorded order. A version is a spelling with an optional number, compared as numbers
only if every version of the digest has one. The observation's identity is the instant, since the code builds it
from the digest and the instant and never from the parser. A parse failure is decided exactly as a
content failure. `IngestReading` and `IngestFailures` are the two ways an ingest run meets one
digest, `IngestFailures` with up to two names that pick two parsers; `RecordUnasked` is a caller
of the library that skips `ingest`'s refusals. The refusal of a copy under a misleading name
records nothing and so appears as no run at all.

### CaseHistory

The log is kept as what the commands read of it: `read` and `observed`, the observations of every
reading, and `cases`, the fold of each case stream by tracking id. A case whose `holder` is
`Nobody` has no stream.

| Code | Here |
|---|---|
| `_identities_held`, `tracking_id_refusals`, `record_ingest` | `Held`, `Refused`, `Ingest`; `RecordUnasked` is another program that calls `record_ingest` |
| `group_open_observations`, `current_groups` | `Groups`, `Members`; `GroupOf`, a mapping that keeps the last of two groups of one id |
| `resolve_detection_time`, `evaluation_order_diagnostic` | `Detected`, `Precedes` |
| `_correlate_cases` | `Correlate`; `Conflict` is the refusal of a second append to one stream |
| `attest_detection`, `_require_attestation_order` | `AttestCases`, `Attest`, `AttestationBlocked` |
| `attest-detection --all-missing` | `SweepSelect`, then `SweepAttest` or `SweepRefused` in a later transaction |
| `_match_cases`, `_require_evaluation_order`, `_require_unique_effective_ids` | `Matched`, `Ordered`, `Unique` |
| `_apply_evaluations` | `Appended`, `Evaluate` |
| `compile_record_set`, `case_evaluations` | `Compiles`, `Undetected`, `Misordered`, `Published` |
| `evaluation_order_faults`, `tracking_id_collision_faults` | `OrderFaults`, `Collisions` |

An identity stands for source type, record id and context; `System` are those of a reserved source
type (a failed reading, a coverage gap), which always have a clock. An entry's match keys are the set
of identities they fit, with `full` for all three given. Of an evaluation only `completedAt` is told
apart, and of an attestation only its instant: its rationale is taken to be the same each time.
Each `Ingest` records one reading; a run of several readings is several such steps, and a run that
is refused, which records nothing, is none of them. A coverage gap arrives as a reading of a system identity. Left out: a clock outside the
range policy can add to, streams that do not fold, links of an older build, and wording.

### HistoryAudit

Three pieces of code judge the same log: the repository admits a batch (`AppendBatch`), the readers
rebuild artifacts, failures, gaps and cases from it (`Refused` is what any of them refuses) and the
audit names its faults (`Audit`). Every row is intact, its digests and numbers are right, and what
varies is what it means. `AppendAround` stores a row past the repository, as a program that calls
the store itself may; `past` remembers which. A scenario is a vocabulary of rows and how many of
them, stored past the repository or not, the log may hold.

| Code | Here |
|---|---|
| `append_batch`, `_require_stream_compatible`, `_require_unseen_observations` | `AppendBatch`, `Admissible`, `Unseen`; a batch marks the schema it needs (`Requires`, `Higher`) |
| `_read_artifact_streams`, `_read_failure_streams`, `_read_coverage_streams`, `fold_all_cases` | `ArtifactsRefused`, `FailuresRefused`, `CoverageRefused`, `CasesRefused`, which make up `Refused` |
| `audit_history`: the walk, its per-kind audits and schema faults | `Faults`, one set of codes of a log and a marker |
| `Observation.__post_init__`, `clock_problem`, `clock_faults` | `RealClock`, `Unclocked`; `WithClocks` adds them after the walk, and `Audit` is both |
| `rehydrate_observation_records`, `_split_streams` | `Current`, by `ArtifactHistory`'s `CurrentReadings` over `StreamsOfDigest` |
| `verify_history` and `store verify` | `ReadMarker`, `ReadMigrations`, `ReadCounter`, `ReadLatest`, `AuditPage`, `Report`, `CheckClocks`, `Return` |

A fault of the store's own reads ends the command before the audit. The pages of the walk and the
marker the schema faults are judged by are read at different moments, which is why `moments`
records the lengths and markers the store had while a verify ran. A length alone would not do: a
hold written behind a recorded head raises the mark of a log whose earlier rows already need it, so a
verify past its walk can judge a shorter log by a later mark.

A clock with no UTC instant (`no_utc`) is refused at append only of a system record, whose identity is
made of it. An artifact's is admitted, and the audit names `clock_out_of_range` while the reading that
has it is current: a newer reading of the bytes, or a newer version's failure to read them, takes the
fault away again. The audit asks this after its walk, in a second reading of the log, and only if the
walk found nothing a reader refuses; a reader that refuses the log by then ends the command
(`history_unreadable`, the command's error and no fault code) or, beside a fault, is passed over.
`clock_faults` itself reads the log more than once, which is one step here. The checks that share its
place (policy deadlines that overflow, evaluation order, colliding ids) are left to `CaseHistory` or out.

### Coverage

| Code | Here |
|---|---|
| `_parse_inventory`, `_parse_entry` | `Readable` |
| `file_evidence`, `_collect`, `_file`; `derive_coverage`'s clocks | `Examines`, `ExaminedAt`, `VerifiedAt`, `FiledUnder`; `ResourceClocks`, `GroupClocks` |
| `_run`, the walk from anchor to anchor | `Anchors`, a set: an anchor's window lapses when no verification falls inside it |
| `derive_coverage`, `coverage_stream_id_of` | `Windows`, `GapId` |
| `record_ingest`, `record_failure` as `ingest` calls them | `Ingest`, by `ArtifactHistory`'s `RecordIngest`, `RecordFailure` and `ReadElsewhere` |
| `rehydrate_observation_records` | `Rehydrated`: what the current readings of each artifact observed |
| `record_coverage_gaps` | `RecordGaps`, one transaction; an identifier the store has is skipped |
| `_coverage_gap_divergences`, `_disproving_evidence`, `_underived_gap` | `GapNote`, `Disproved`, `Advised` |

`streams` holds what was recorded of each artifact, and `evidence` what every command reads back: it is
a function of `streams`, kept as a variable because a property speaks of it before and after a step. One
`Ingest` records one reading of one artifact, or its failure, or a reading of a failed invocation with
the failure beside it. A newer parser's reading of the same bytes, or its failure to read them, withdraws
what an older reading observed, so evidence comes and goes. One parser version reads the same
rows from the same bytes every time (`PoolAssumption`). A failure's own record is an observation of the
process and never counts as evidence. `EditInventory` replaces the file, and `RecordGaps` takes the
class and the as-of the command was given. `Due` gives when a window that starts at an instant runs
out, for each class and rule; `DueAssumption` says that it is later than its start and that a later
start is never due earlier. The code adds calendar months to a wall clock, which keeps to that
except where a zone changes its offset or a month is short: there a later start may be due the same
day or an hour earlier, and the model leaves those days out.

### Evidence, Sarif, Hdf, CycloneDx, Checklists, Ingest

A reading is what an adapter returns: observations, the error codes and all codes of its
diagnostics, whether the format was rejected, the clock a failed invocation declared, and whether
observations were withheld. `Evidence` says what becomes of one that did not come out whole:
imported with a failure beside it, minted as a failure of one class in its place, or fatal.

Each of the three larger adapters is a walk whose state is what the code carries along: `Sarif`
goes run by run and result by result, `Hdf` indexes the profiles and traces each to its root
before it rolls up controls, `CycloneDx` indexes components, reads the subject and then the
vulnerability records. Each ends in a fold of the candidates of one identity. The checklists are
read in one step, since no rule of theirs looks back. The headers say what each abstracts: texts are
names, a severity is its rank, and titles, descriptions and metadata that decide nothing are left
out.

No operator recurses over a document. In `Hdf` the climb from a profile to its root goes link by link
(`Climb`) and its controls are read one at a time (`ScanControl`), and `CycloneDx` reads a record's
entries one at a time (`Entry`), so that an invariant can say what each step leaves. `Lineage`, which
`RootsTraced` compares the roots with, is a recursive function over the links alone; `Levels`, which
says what components a bill lists at any depth, is one over the depths. `OrderIsLost` and
`RowsOutliveUpgrades` read a second bill to its end: `Turned` and `Upgraded` rebuild its components
from the innermost outwards, by as many rounds as there may be levels (`Turns`, `Raises`), and `Again`
follows the walk of that bill for `MaxSteps` steps (`Walks`).

`Ingest` opens a file, dispatches on its suffix and content (`Adapter`), walks it (`Begin`, `Walk`,
`End`) and, once all files are read, decides (`Decide`): readings of one digest elect the lowest
name, failures are held until it is known whether the run stops, and the report says what stands for
each file.

## Runs

| Run | Asks | Shows |
|---|---|---|
| `StoreHealthy` | two processes, two streams, three events, batches of two, pages of one | no half batch, no lost update, pages that join to a prefix, a schema mark that covers its events; every commit is a step of `EventLog`, so no hole and no identifier twice |
| `StoreEdits` | five kinds of first file and one edit by another program at any moment | nothing is appended past damage, damage stays visible |
| `StoreFailures` | projections and caught errors, with a failing COMMIT, ROLLBACK or process at each step; the only run with fairness | checkpoints stay within history; the lock is always given back |
| `PublishRuns` | three ingest runs, sound disk and full disk | durable claims, all or nothing, whole stores, a store that only grows |
| `OutputRuns` | three report commands in turn, two destinations, every operation may fail | previous reports recoverable, all or nothing with no litter left |
| `HistorySplit` | every order of three streams of a digest | rules R1 to R6 leave exactly one account |
| `CasesWritten` | readings, correlations, attestations, a sweep and evaluations files in any order, over three records of which two share a tracking id | one record per case, repeatable commands, a report that stays compiled, no order fault written, verify and report agree |
| `AuditAgrees` | logs of four rows over six vocabularies and of five over a seventh, stored through the repository or past it, and a verify between appends | the audit names what a reader refuses, the repository admits no fault it checks for and no clock out of range but a current artifact's, a verify reports one moment |
| `CoverageWindows` | readings, newer readings and failures of three artifacts in any order, three inventories of which one is refused, two runs of `cases coverage` at any as-of and class | windows are the lapses, a later as-of only adds gaps, none is doubled, an unmatched gap lost its anchor, advice stays while its evidence does |
| `ReadingsClassified` | thousands of SARIF logs, HDF trees, CycloneDX documents and checklists, and runs over three files of shared digests | findings stay open, a PASS is vouched for, failures keep their clock, overlays fold to one control, a minted failure read nothing, order is lost, rows outlive upgrades, every file is answered |
| `StoreOpenDuringAppend`, `AttestInert` | one statement of a docstring or document each | it does not hold; see *Findings* |

`CasesWritten`, `CoverageWindows` and `AuditAgrees` take from one to three minutes each,
the rest less than half a minute. `CHECK_DEADLOCK FALSE` is set where a behaviour is over: its
commands have ended, the digest has its bounded number of streams, the log its bounded number of
rows, or the documents are read. The other runs check deadlock: a connection can always stop,
`correlate` or an attestation can always be given, and an inventory can always be edited.

### Bounds

- **Store.** Two connections are enough for every race in the code, because each check compares
  what one connection read with what one other committed. Two streams tell a stream's version from
  the log's; three events with batches of two allow a batch after an event, an event after a batch,
  a conflict on the second row, and a page boundary inside a batch. `Supported = 2` gives one
  migration to make. In `StoreEdits` a log of two rows has a first row to delete, which leaves a hole,
  a last one, which leaves a short tail, and two streams to move a row between; `MaxEdits = 1`
  because a second edit may itself repair the first. `StoreFailures` has one stream because neither of its questions compares
  streams.
- **Ingest.** Two runs that race and a third that retries the first's artifacts, over three
  artifacts with one in common, cover "already recorded" inside a build, at an existing store
  and after a crash.
- **Outputs.** Two destinations give a rename that succeeded before one that failed; three
  commands give one that starts from a mixed set and one after it.
- **History.** Three streams are a reading, the failure that carries an observation and the hold
  beneath it, or two readings and a failure. The spellings 9, 10, 10.0 and 10-rc make a pair that
  ties as numbers, an order that text reverses, and a version with no number that switches the
  whole digest to text. Two parsers make "another parser read it" true or false; two instants make
  an observation shared or not. The theorems hold for any number of streams.
- **Cases.** Three records: one with and without a clock, a system record that shares its tracking
  id, and one that shares the first's source record id, so that a short match key fits both. Two
  artifacts under two parser versions and three readings give a reading that replaces another, one that
  closes a record that has a case, and two members of one group, one of them without a clock. The
  six files hold an entry with a short key, a rename to another record's id, an exchange of ids, a
  new name with a disposition and a reduction, and an entry for the system record. Two instants put an
  evaluation before, at or after a detection. One sweep suffices beside `AttestCases`, which
  stands for whatever else attests between its two steps; the violation has two sweeps. The
  theorems hold for any records, files, versions and sweeps, and for any digest function.

- **Audit.** Four rows are a head, its row, a second head or row, and one that does not belong. Each
  vocabulary holds what one reader looks at, right and wrong in every way it tells apart, beside an
  event of another kind, and in the first five any of the four rows may come from past the repository. In the mixed one
  a verify also runs beside the appends with pages of two, so that a log grows between its pages: over
  logs of four that the repository wrote, and of three of which one row may not be its own. The sixth
  holds the rows of two failure streams, in logs of five the repository alone wrote: a hold is written behind a recorded
  head, and another stream's hold makes the mark it lacks while a verify is past its walk. The seventh,
  in logs of four the repository alone wrote, has an artifact observation without a UTC instant, a newer
  reading by the same parser and by another, and a newer version's failure: enough to admit such a clock, to
  withdraw it in either way, and to do so between a verify's walk and its second reading. The
  theorems hold for any vocabulary, length and page size.
- **Coverage.** Five instants let a window of each length close before, at and after a
  verification. The inventories are two hosts in one sample group, one of them decommissioned; a
  rename with an alias and a procedure beside it; and one that two entries claim, which the reader
  refuses. The observations are a pass, a finding, an error, a subject's scope record, a row,
  a finding under the new name and a clock out of range, in three artifacts of two parser versions: a newer
  reading that no longer sees the verification, a newer version that cannot read what a failed invocation
  left, and a newer reading that finds the clock the older one had not. A verification that anchored a
  recorded gap is withdrawn there, and so is one that contradicted a gap. Class D's policy lacks a rule. Two runs
  suffice, since a run only meets what earlier ones recorded. Only one class derives here; gaps of
  several classes in one store are left to the theorems, which hold for any documents, readings,
  parser versions, classes, durations and instants.
- **Documents.** Two results of a run give an identity two candidates, two runs or two locations of
  one result a scope with two clocks; four profiles are a wrapper, its base, a copy and a stray or a
  cycle; two entries of an affects list give a record two components. The documents are drawn so
  that every diagnostic and every class of failure occurs. Three files are two of one digest and
  one of another, in two orders. Components nest under the subject and under each other: `MaxDepth = 2`
  is two levels more than the first, where the loader's limit on JSON depth
  (`max_json_depth`, `adapters/safeio.py:109`) leaves room for some sixty. `MaxSteps = 20` is more
  than the walk of any second bill takes: `RereadsEnd` has TLC find each of them at its end.

`MaxReadings`, `MaxEvents`, `MaxEdits`, `MaxStreams`, `MaxTime`, `MaxRuns`, the length of a scenario and the
`Max...` of `Ingest` are bounds of the model alone. `MaxBatch` and `PageLimit`
are limits the code has, made small.

### Fairness

`FairSpec` is weak fairness of `HeldStep`: the end of a write transaction, successful or not. Between
`BEGIN IMMEDIATE` and its end the code is straight-line and waits for nobody, so a process that is
still there goes on; one that is not has crashed, and SQLite drops its transaction. Nothing else is
fair. No caller has to write, and the busy handler promises no waiter its turn, so "every append
eventually succeeds" is neither claimed nor true.

## What is proved

The theorems of a specification are `Spec => ...` for any value of the constants that satisfies the
modules' named assumptions, and a further one where its statement says so; TLC evaluates the
assumptions in every run.

**EventStoreProofs.** `TypeCorrect` is inductive by itself. `LockReturned` needs `FreshLock`
(a connection that has just taken the lock has written nothing yet), since giving the lock back from
there leaves `work` equal to `disk` only for that reason. `CommittedHistoryStays` needs
`WorkExtendsDisk` (the lock holder's rows extend the committed ones) and `EmptyUntilCreated` (a file
without objects has no rows, so initializing it removes none). `NoHoles` carries `GapFree` of both
files: an insert numbers a row past the counter and past the last row, and in a gap-free file both
are its length; the step rests on lemmas about the greatest element of a finite set and about the
versions of a stream in a gap-free log (`GapFreeVersions`, `InsertGapFree`).

The same module proves every safety property of the store. Two lemmas say what one step may do, `FileStep` to
the file and `ViewStep` to what the connections read, so that each invariant has few cases. `CoverInv`
says of both files that their marks cover their rows, since the pending mark is raised before the
rows that need it. `JudgedInv` is why damage is safe: until an append has found the file sound,
what is pending is the log and the mark that are committed. `UnhealedInv` carries the damage over
a transaction that began before it. `ReadInv` and `NoteInv` relate what a caller read to the file
it sees, also inside its own block. `BatchesStayWhole` and `StoreImplementsLog` weigh the pending
file only of a caller that may still commit it: after a conflict part way it holds half a batch,
and the theorems assume that no caller catches that error inside its own block.
`StoreImplementsLog` is the refinement: `RecordInv` says that such a pending file has every
identifier once and differs from the committed one by nothing, or by rows and a mark that
`EventLog` may record; gap-freedom gives the numbering, `SchemaCoversEvents` the mark. It assumes that
no other program edits the file and that no newer build made it. `NothingOverwrittenUnseen` assumes the
first of these.

**PublishProofs.** Of a store, the invariant is `TypeOK`, `AllPlaced` (where each run may write: at the
path or at its own name, and nobody else's) and `AllKept` (on a sound disk, what each run is
entitled to find, from its commit on, at each point of its way out, with `Whole` for a file already
linked). `ReportsAreDurable` and `PublishedIsWhole` follow; `StoreNeverShrinks` follows from `AllPlaced` alone,
so it holds on any disk. `NothingHalfRecorded` holds on any disk too. Its invariant `Accounted` says where
the rows of each run can be: none in a log beside a name nobody writes (`LogClear`), all or
none in its own file (`OwnFile`) and at the path (`AtPath`); `Frame` is what one run's step leaves
of the others, so that each step is argued for one run.

Of report outputs, for any number of them and any sequence of commands, each of which may have
failed or died, one at a time (`~Overlap`), the invariant says run by run and phase by phase which
destinations show which content (`RunInv`), and that no two runs are active (`Alone`).

**CoverageProofs.** The walk is argued as sets: what an anchor is, that verifications at a later as-of
are those at an earlier one and more, and that a window that closed is decided by what lies before
its close. `GrowsWithAsOf` and `NoCollision` are facts of any state. `RecordingIsIdempotent` shows that
a recorded gap, though an observation of the clock's own resource, never counts as evidence.
`WalkIsTheLapses` takes, at any instant, the last anchor before it (`LastAnchor`; a set of verifications has a
latest one): what that anchor's window says is what all of them say. Neither of the remaining two may
assume that evidence only grows. `UnmatchedOnlyWithoutItsAnchor` needs the invariant `GapsWereLapses`: each gap was
a lapse over some set of verifications, which the store need not have any more. A window whose anchor
is still there and which holds no verification today lapses today (`StillLapsed`), so a gap that is neither derived
nor contradicted has lost its anchor. `AdviceStands` needs it too: had a contradicted gap come to be
derived again, on some later anchor, while the verifications inside it stand, then every verification between
the two anchors has a window of the same close, and the last of them the older report knew
lapsed for it already (`DerivedBefore`).

**ArtifactHistoryProofs.** That a newest stream exists is an argument about finite sets (a nonempty
finite set of streams has a least place and a greatest version and place). From it
`SomethingIsCurrent`, `ReplacementIsCurrent` and `FailuresCarriedOnce` follow for every sequence of
streams, whoever wrote it; type correctness then gives them for the specification.
`NothingDormantWithoutHolds` needs what the writers do: the invariant `Written` says that a failure
whose observation an earlier stream holds was written as a hold. `ResolvedFailuresStay` is an action property:
a stream once recorded never changes, so a reading that outranks a failure goes on outranking it
while versions compare as they did. `FailuresStandAtBirth` follows one ingest through its writes: what
the run adds to the digest is failures alone, each one `reading_elsewhere` accepted, and what it weighed
before recording is what the fold compares afterwards (`ComparedAsWeighed`).

**CaseHistoryProofs.** Every property of `CasesWritten` is proved. `OneRecordPerCase` needs that ids of
held identities are distinct while ingest refuses (`DistinctHeld`) and that a case only ever holds
observations of its own id (`OwnId`), which is all that correlation keeps by itself. `RefusalsNamed`
needs no history: if the group a mapping drops is misordered, the one it kept is either
misordered too or published under the same id, so some check of `store verify` sees it. `NoOrderFault` goes
command by command: an attestation that is not blocked either leaves the detection time to a source
clock or comes after it. `ReportsStayCompiled` adds `OverrideEvaluated`, that an override is written with an
evaluation or after one; without it a case whose override no report reads could be published under
an id `_require_unique_effective_ids` did not weigh. `RetriesAppendNothing` holds step by step:
what decides whether a file is accepted is the same before and after it was applied.

**HistoryAuditProofs.** `NoSilentRefusal` is a fact of any log, whoever wrote it: for each kind of
stream, each thing its reader refuses is a fault the audit names. `AdmissionAgrees` needs what the repository's own
rows are like. `LogKept` says of a log with nothing stored past the repository: each row is admissible
(`RowsAdmissible`), an identifier stands once on a stream and a recorded failure's once
in a digest (`ObservedOnce`), a failure or coverage stream opens with its head (`OpenedByHead`), a hold stands beneath a
recorded failure that stored its observation earlier (`HoldsBeneath`), and the marker covers the
streams by the type that heads them (`Marked`). The first keeps every system clock real, so the only
clock the audit can name is one `Unclocked` finds after the walk (`AuditIsFaults`). The last two are why the audit's search for the holder
of an observation and the repository's search for one elsewhere agree, though one looks
at the first reader-visible holder and the other at every row. `OneMomentReported` has `WalkKnown`: at each
statement what verify has read lies at a moment it has recorded, no moment is ahead of the
store, and the codes of the walk (`Walked`) stay those of a moment while rows are added before the clocks
are read.

**IngestProofs** and **CycloneDxProofs.** The second holds what is argued of a bill of materials, which
the first extends to a run. Over every reading: a failure minted in place of a reading stands for nothing read,
and the class it is recorded under is the one the audit reads back from its codes. Of the run,
`FilesAnswered` has `RunInv`: the readings kept and the readings held are, digest by digest, exactly
those of the files passed, in the order of the files, so the elected one has the least name; it
takes names to be numbers, for an order. Of the adapters, `FailureClock` follows `Kept`: the
failed start and end times the SARIF walk carries are those of every failed invocation of the runs it has passed,
refused runs included; it takes the body of a log to be what the loader makes, a sequence of runs
each of which has, lacks or misstates its results. `MintedRead` rests on the classification for SARIF and HDF, and for
CycloneDX on an invariant of a document without a vulnerability: its walk reads the inventory,
which can be rejected but collects no error, and so is never a failure.

`FindingsOpen` and `OverlaysFold` state what the folds owe the documents, with one inductive
invariant for the three walks, `Walking` (`WalksKept`). They assume a document to be of the shape its
loader leaves (`Shaped`: runs, results, profiles, controls, records and entries are sequences, titles
have an order, ratings carry a word) and nothing of its size or content; every document of
`ReadingsClassified` is of that shape.

- SARIF, `Found`: while no error is found, every result the walk has passed has added its candidate on
  each of its resources. The walk alone does not give the property: a fold puts the finding with the
  other candidates of its identity, and `LogFindingsOpen` shows that OPEN outranks whatever they say.
- HDF, `HdfKept`: `Placed` and `Chained` relate the roots and depths known so far to the parent links
  and the profiles the climb under way has passed; `ReadIn` says that every control passed is told of
  at its root and depth. `RootsFound` follows a profile's links as far as its depth, which is below
  the number of profiles since the climb passes none twice, and shows that a profile
  without a root meets no root at any depth. `CopyFailureWins` and `CopyGroupsKept` show that shadowing
  drops only copies with no result of their own and hands their overlays to those that stay.
- CycloneDX, `CdxKept`: `Tallied` puts the candidates in a one-to-one relation with the statements
  the walk has passed, entry by entry. `StatementsFound` sums both sides with `SumCounts`: a sum of
  the sizes of the parts of a finite set is the size of the set, proved for the library's `SumFunction`
  by a least set for which it would fail.

`PassVouched` says that no PASS stands without its evidence. It adds `Vouchsafed` to that invariant,
and to the shapes that every invocation declares success, failure or something else, that lists are
sequences at every depth, that an entry clears versions and never a missing one, and that the
components nest no deeper than the loader reads (`Attested`).

- SARIF, `Owed`: the converse of `Found`. While no error is found every candidate is due to a result
  passed or is the clean candidate of a run passed, and every run passed that lists no result and is
  vouched for has left one. `OwnedWhole` turns both into an equation: the candidates of an identity
  are its results and its clean runs, whence `LogVouched` reads the disposition, severity and clock
  of the fold. That the worst of them is one of them needs the ranks to be bounded (`RankedTop`).
- CycloneDX, `Traced`: the index holds the carriers of the components met (`Seen`), below each of
  which everything is met or still pending. `LevelsGoOn` unfolds the recursive function `Levels`, and
  `WholeReached` shows by a least level missed that a walk with nothing pending has met every
  component at every depth. So a reference resolves as the document means it (`CountsMatch`), and a
  record counts only for an entry for which a match ran.

`BillShown` says what a CycloneDX bill shows as a function of the document alone, `Shown`: one
observation for each identity its statements name, folded of all of them, and one of the bill itself.
The walk is left behind in `Exact`, the part of `Vouchsafed` that makes each candidate the statement
of its place (`AllStated` at the end). Two relations of bills then need no walk:

- `OrderFree`: `Shuffled` relates bills whose components, records and entries are permuted, by any
  permutation and at every depth. `Trees` is such a relation on components; `LevelsPair` carries it
  down `Levels` one depth at a time, so that both bills resolve the same references, and `FoldAlike`
  shows that a fold of statements in a one-to-one relation is the same observation.
- `RowsOutlive`: `Upgraded` relates bills of one tool and container that list the same records, whose
  components, at every depth, differ only in version and in the qualifiers every key strips.
  `UpgradeAkin` shows that no key reads these, and `RowsPair` that the rows are then the same keys.

`OrderLost` and `RowsKept` state the two properties of the run, of the bill the code would be given
next: turned in every list, or one release on. They add that the bill has the parts the model gives
one (`Formed`), and follow from three arguments.

- *What stops a walk is of the bill.* A walk that has not been refused has read components that can be
  read, a tool, a subject and packages that can be recorded, records that are no error themselves and
  no more identities than the bound. `Cleared` says it of the part passed, `FitKept` keeps it, and
  `ImportsFit` makes of it, for a bill that imports, the property `Fits` of the document alone.
- *A bill that fits imports.* By `FitGoesOn` each step over one goes on or ends in observations, so by
  a least step that does not, `RereadShows` has the second reading show `Shown` of its bill.
- *The second bill fits.* `TurnedShuffles` shows that `Turned` is a `Shuffled` bill, `RaisedUpgrades`
  that `Upgraded` builds one in the relation of that name, round by round, and both that it fits when
  the bill does (`ShuffleFits`, `UpgradeFits`). `OrderFree` and `RowsOutlive` say what it then has to show.

Three recursive functions carry this, `Levels`, `Walks` and the rounds of `Turns` and `Raises`. That each
is what its definition says is `RoundsAre`, from finite rounds that exist (`RoundsExist`) and agree
(`RoundsAgree`), each by a least number for which they would not. The assumptions used are that
`MaxObservations` and `MaxSteps` are naturals and that the qualifiers no key reads are spelled in lower case
(`FoldAssumption`), as they are at the constant that lists them. Both properties speak of a second reading that has
come to its end: `MaxSteps` is a constant of the model, so no theorem can say it is enough for a bill
of any size, and `RereadsEnd` shows it is for those of the run.

Theorems whose property no run states are consequences a reader may want by name: the type
invariants, `LockOnlyInsideWrite`, `HistoryOnlyGrows` and `HistoryGapFree` (the runs see them through
`ImplementsEventLog`), that something is always current, that nothing lies dormant without a hold,
`WindowsHoldNoVerification` and `RecordingMovesNoWindow`.

**Only model-checked.** `LockReleased` is liveness under fairness, and ENABLED is out of the prover's
reach.

## Findings

Each is a `violation` run: TLC shows the code reach a state that a document, comment or docstring
excludes.

- `StoreOpenDuringAppend`. The counter and the last row are read in two statements; a commit
  between them makes the open raise an integrity error on a healthy store.
- `AttestInert`. Whether an attestation applies is read from every link of the case, the
  detection time from current readings. After a newer parser's reading without a clock, a report asks for
  an attestation that `attest-detection` calls not applicable.

Statements the models refute that have no run of their own. Each is a definition of its module;
checking it in place of the properties of the configuration named gives the trace.

- *Two first openers.* Two processes open a new path at once; the second reads the header before the
  first one's commit and the objects after it, and refuses a healthy store as another program's
  (`store/sqlite.py:1169`; `docs/decisions/0004-append-only-sqlite-event-store.md:171` has it open
  or wait). `FirstOpenersAgree` with `StoreHealthy.cfg`.
- *A full disk at close.* SQLite reports nothing when the log could not be copied at close; the short
  file is linked, the log unlinked (`cli.py:834`), and the run says what it recorded (docstrings at
  `cli.py:806` and `cli.py:674`). `ReportedIsStored` with `PublishRuns.cfg`.
- *Two sweeps.* A sweep chooses its cases in a read before its transaction (`cli.py:921`); of two that
  chose the same case, the second replaces the instant the first attested, which
  `docs/decisions/0008-persisted-history-and-event-sourced-rebuild.md:152` leaves to an explicit `--case`. `SweepNeverRevises` with
  `CasesWritten.cfg`.
- *An unmatched gap with the same inputs.* A document gives other inputs as the reason of an
  unmatched gap (ADR 0015, Decision 38; `docs/CLI.md:242`). A gap anchored by `expectedSince` also goes
  unmatched when older evidence is ingested late, and one anchored by a verification when a newer
  reading of the bytes, or its failure, withdraws that verification. `UnmatchedMeansInputsDiffer` with
  `CoverageWindows.cfg`; `OnlyUnanchoredGapsGoUnmatched` shows that these are the only other ways.
- *A misplaced event that is not inert.* The audit names an event on a stream it does not belong on
  `event_stream_mismatch`, one "every reader ignores" (`history/fold.py:604`; `docs/CLI.md:22` has no
  report and no case writer refuse it off a case stream). On a coverage stream the reader refuses it
  (`history/fold.py:1257`). `MisplacedIsInert` with `AuditAgrees.cfg`.
- *Catching inside a block.* `append` inserts row by row with no savepoint. A caller that catches a
  duplicate-identifier error inside its `transaction()` block and goes on commits the rows before the
  conflict, half a batch (`store/sqlite.py:538`; the docstring says "Atomically append events"). No
  caller in this repository does that. `BatchesAtomic` with `CatchesInside = TRUE`.
- *Two report commands at once.* Nothing orders their renames over one pair of outputs; both can succeed
  with one's JSON beside the other's Markdown (`cli.py:1708`). `Overlap = TRUE` in `OutputRuns.cfg`.
- *Versions that are not numbers.* Each failing name of a run is weighed alone against what is
  stored (`cli.py:604`). If one run brings two failing names of a digest and the second one's parser
  version is not numeric, the digest's comparison turns to text after the first was accepted, and the
  first may be superseded the moment it is recorded. The same turn, made by any later stream, can let a
  resolved failure stand again. No parser of this build has a version that is not numeric, so
  `NotSupersededAtBirth` and `ResolvedStays` say "unless the comparison turns".

Smaller things a reader of the code may want to know, each visible in the module named.

- `HistoryAudit`: the repository admits an artifact observation whose clock has no UTC instant; `store verify`
  fails the log for it until another reading supersedes it (`clock_out_of_range`, which `history/fold.py:680` gives
  to history an earlier build wrote: no adapter of this build yields such a clock, `adapters/common.py:360`). A batch of a recorded and a held head marks schema 2 only, so the audit names
  `failure_schema_unmarked` beside `failure_overfull`. The repository admits an event other than
  `case.created` on a case stream whose id names no tracking id. A verify during an append may name
  `sequence_counter_mismatch` or `migration_unexpected` on a healthy store (`Races`).
- `EventStore`: `advance_projection` and `reset_projection` check neither the application id nor the
  counter (`store/sqlite.py:1071`).
- `Coverage`: a renamed resource has its lapse recorded again under the new name. Class D, whose policy
  has no MVX rule, cannot derive coverage at all. Evidence from before `expectedSince` can shorten
  the grace the declaration gives. A case may carry gaps that runs of two classes recorded; one of them
  can close when a window of the other class does, and be derived after a report had advised the
  case as a false positive, so `ContradictedStays` leaves such cases out. The same goes for a gap
  recorded at a later as-of than the report's, and for one whose contradiction a newer reading withdrew:
  a case disposed as a false positive on that advice can be derived again.
- `Sarif`: a limit met in the middle of a scan drops the clocks of failed invocations read so far.
  Clean runs of one scope fold to the earliest clock. A run with no invocations still yields a clean PASS
  (documented in ADR 0011).
- `Checklists`: an XCCDF document with one blank rule reference is a parse failure that may be
  recorded though its other results were readable, so `MintedReadNothing` speaks of the other formats.
- `CycloneDx`: a standalone VEX with a structural error is an invalid BOM and may be minted; a listing
  by its supplier with no analysis reads as a match. `RowsOutliveUpgrades` is about container subjects
  with a name.

## Not modelled

The in-memory database, the retry of the switch to write-ahead mode, and SQLite itself below
transactions and the two files. `report --db` reads the log three times with no transaction, so an
ingest between two reads can show; ADR 0004 leaves that to the caller and no property forbids it.
Policy selection and response deadlines, the KEV join, argument parsing, wording, rendering, schema
validation, the STIGroll export, the cleaning of texts, the CCI map, the bounded readers of bytes and
the value classes: pure functions of one input with no state of their own. Streams an older build
left half written.

## Plan

In the order of what matters most:

1. `ReplayRead`: `compile_record_set_from_history` reads the log three times with no transaction,
   while an ingest commits between. To show what a report may mix, against ADR 0008's decision 5.
   Composes with `EventLog`.
2. Policy: response deadlines as operators against a reference definition, in the zone arithmetic the
   code uses, so that the days `DueAssumption` leaves out are shown by name.
3. The KEV join and the selection of the current evaluation, as operators against a reference.

Runs stay few: one per question, with the properties of a component checked together in one
instance wherever its size allows.
