# A TLA+ verification of cyoda-go-spi

`cyoda-go-spi` is the contract between the Cyoda engine and its storage plugins: the Go
interfaces a plugin implements, the value types that cross them, the pure algorithms every
plugin is to share (ordering, merging, selecting, comparing), and a conformance suite
(`spitest/`) that exercises a plugin through the interfaces.  The engine and the plugins are in
other repositories.  This directory holds TLA+ models of the algorithms as they are written in
`src/`, models of the stores, transactions and search jobs as the interfaces promise them and the
conformance suite pins them down, the TLC configurations that check them and the TLAPS proofs about them.

## Inventory

### The system's parts

| Component | State it keeps | Operations | Interacts with |
|---|---|---|---|
| Overlay merges (`merge_ordered.go`, `merge_bounded.go`) | the pull stream's closure: place in the overlay, one-ahead buffer, pending error | one pull; one bounded merge | pulls the committed stream of a store; called by `Search` and `Iterate` of a plugin |
| Scheduled tasks (`persistence.go`, `scheduled_task_helpers.go`, `types.go`) | task rows with their life (arm token), claim, counters; marks; owner liveness records | arm, remove, claim, heartbeat, give back, mark, record, fail, sweep | joins the entity's transaction for some methods and never for others; engine nodes run the claimed tasks |
| Transactions (`transaction.go`, `txcontext.go`, `context.go`) | per transaction: snapshot, read set, write set, savepoints, the operation lock | begin, commit, roll back, join, savepoints, submit and consistency times | every store; the engine |
| Async search jobs (`search_store.go`) | job rows with an epoch, results | create, claim, release, save, complete, cancel, reap | engine workers |
| Entity, model, key-value, message, workflow, audit stores (`persistence.go`) | rows and versions | save, compare-and-save, delete, page, search, iterate | transactions; overlay merges |
| Numeric kernel (`decimal.go`, `numeric*.go`, `eval_leaf.go`) | none | classify a value, widen types, expand an operand to a declared type, evaluate a leaf | filters |
| Temporal kernel (`temporal_subtype.go`) | none | fold an operand to each temporal subtype | filters |
| Filters (`filter*.go`, `prepared_filter.go`, `operand.go`, `condition_filter.go`, `like_pattern.go`, `predicate/`) | none | parse, translate, prepare, match | search |
| Model schema (`model_schema.go`) | the node tree and a lock-free cache of its flattened fields | merge, mutate, collect, encode | filters and the engine read it from many goroutines |
| Order (`order_compare.go`, `order_class.go`, `searcher.go`) | none | classify a field's types, compare entities under order keys | merges, search |
| Unique signatures (`unique_signature.go`) | none | claims of a unique key | stores |
| Plugin registry (`plugin.go`) | name -> plugin, under a lock | register, look up, list | `init` functions of plugins |
| Strict JSON (`strictjson/`) | decoder position | decode, refusing duplicates and depth | condition translation |
| Conformance suite (`spitest/`) | fixtures | one test per clause | a plugin under test |

### How the parts interact

The engine (several nodes, in another repository) calls a plugin through the interfaces of
`persistence.go`, `transaction.go` and `search_store.go`.  A transaction travels in the context
(`context.go`): methods documented as joining read and write through it, methods documented as
never joining write at once.  So the scheduled-task rows are written by two kinds of actors that
do not share a lock: claims, heartbeats, marks and give-backs from the nodes' loops, and the arms
and removals of entity transactions.  Nodes share nothing but the store; what they know of one
another is a liveness record or an epoch in a row, either of which may be stale when it is used.
Inside a plugin, `Search` and `Iterate` merge the committed stream with a transaction's staged
writes by the merges of `merge_*.go`; `ClaimDue` chooses by `SelectClaims`; filters, orders and
comparisons come from the pure kernels.

### What is hard

* Interleavings: two claimers, a claimer and a transaction, a mark and a claim, two transactions
  of which one is rolled back to a savepoint, a commit and a consistency time.
* Failure: an owner that stops heartbeating and comes back; a run that dies between its unsafe
  work and its report; a lost reply or answer; a restart; a committed stream that fails in the
  middle of a merge; a clock that is set back.
* Boundaries: limits and quotas; the resolution of an as-at read; the edge of each numeric type
  and rounding toward the comparison; a time compared with a coarser one.
* Staleness: a field's types widen as values arrive, and a schema is written, read back by another
  version, flattened into a cache and prepared against, each of them before the values it judges.
* Two places that have to agree: the key of a flattened field and the key a condition makes of its
  path; the meaning of a condition and of the filter it becomes, above all under NOT, over arrays
  and over what is absent; the spelling of a signature and the equality it stands for.
* Caller sequences no test runs: re-arming under a running claim, removing a replaced life,
  a call inside the transaction it has to wait for.

What makes each part correct is listed with the runs below; `PROJECT.json` lists each hazard with
its line and the properties that would show it going wrong.

## Modules

| Module | Models | Kind |
|---|---|---|
| `EntityOrder` | `LessByOrder` over comparable values: keys with direction, then id | operators |
| `ViewStream` | what a merge promises: the transaction's view, row by row, or an error | abstract specification |
| `MergeInputs` | what both merges are given: the committed rows and the call that fails, the overlay, the deleted ids | variables and operators |
| `MergeOrdered` | the pull closure of `merge_ordered.go`, one action per pull | state machine, refines `ViewStream` |
| `MergeBounded` | `merge_bounded.go`: prefetch, overlay, refusal above the limit | state machine |
| `SelectClaims` | `SelectClaims` of `scheduled_task_helpers.go`, one action per turn | state machine |
| `ScheduledTasks` | the scheduled-task store, its owners and the transactions that write rows | state machine |
| `SearchJobs` | an asynchronous search job, its executors, claims and results | state machine |
| `Transactions` | transactions over entities, savepoints, `LostRace`, conflicts | state machine |
| `EntityTimeline` | what an entity store promises: one content per entity and instant, changed by whole commits | abstract specification |
| `EntityVersions` | version histories: staged writes, the rows of a commit, creation dates, reads at an instant, bulk save | state machine, refines `EntityTimeline` |
| `ConsistencyTimes` | submit times, the stamp floor, `ConsistencyTime` | state machine |
| `FieldCache` | the compare-and-swap cache of a node's flattened fields, its mutators and readers | state machine |
| `Decimals` | `decimal.go`: scales, rounding, the comparison that avoids scaling | operators |
| `Numerics` | `numeric*.go`: classes of numbers, widening, admission, operands expanded to a declared type | operators |
| `Temporals` | `temporal_subtype.go`: the graphs of subtypes, the hops, the operators they change | operators |
| `LikePattern` | `like_pattern.go`: tokens and the scan | operators |
| `LeafComparison` | `eval_leaf.go`: the expansion of a leaf and its evaluation | operators |
| `FieldSearch` | one field: values widen its types, leaves prepared against them judge what is stored | state machine |
| `ModelSchema` | `model_schema.go`: the tree, its wire form both ways, the flattening | operators |
| `Filters` | `condition_filter.go`, `prepared_filter.go`, `filter_path_resolve.go`: translate, prepare, resolve, match | operators |
| `AttributeOrder` | `order_class.go`, `order_compare.go`: classes and the comparison of entities | operators |
| `UniqueClaims` | `unique_signature.go`: the signature of a unique key, and the store's guard | operators |
| `DocumentSearch` | saves, the schema they extend, a reload of it, a search with its order | state machine, composes the four above |
| `MergesProofs`, `SelectClaimsProofs`, `ScheduledTasksProofs`, `SearchJobsProofs`, `TransactionsProofs`, `EntityVersionsProofs`, `ConsistencyTimesProofs` | theorems about the modules they are named after (`MergesProofs`: about both merges) | proofs |
| `ModelFieldsProofs` | theorems about `FieldCache`, `FieldSearch` and the operators it compares with | proofs |
| `MC*` | constants of the instances for TLC | |

`FieldSearch` EXTENDS `LeafComparison` and `LikePattern`, which rest on `Numerics`, `Temporals` and
`Decimals`; `DocumentSearch` EXTENDS `AttributeOrder` and `UniqueClaims`, which rest on `Filters`,
and that on `ModelSchema` and `LeafComparison`.  So a search of a document uses the very
comparison that `model_fields` checks value by value.

The stores' interfaces have no implementation in this repository, so the store models are built from
what each method is said to do *and* from the clause the conformance suite asserts for it; the
definitions point at the lines of both.  What calls the store (the engine) is modelled by how the
interface says it has to be used.

**MergeOrdered.**  `committed`, `adds`, `deleted` and the failing call (`MergeInputs`) are inputs of
the closure, chosen once.  `ai` is a captured variable; `pos`, the number of calls of the committed stream,
stands for the others (`started`, the one-ahead buffer, the pending error).
`Pull` is one call: every branch of the `for`/`select` cascade with its early returns.
`MergeBounded` EXTENDS the same inputs and adds a limit; `MCMerges` checks both on one instance.

**SelectClaims.**  The outer round and the inner turn of the loop are `Next`; the quota, the
queue positions and the chosen tasks are its local variables.

**ScheduledTasks.**  A row has a life (`arm`), a claim token, an owner, counters and the partial
mark; `marks` are the `MarkUnsafe` records, `alive` the liveness records as the store's clock
judges them.  One store call is one step.  `ClaimDue`, `Heartbeat`, `SweepOwner`, `GiveBackIdle`,
`SweepMarks`, `MarkUnsafe` and `RecordAttempt` never join; `ReconcileForEntity`, `Delete`,
`RemoveLife`, `StampSegment` and `Fail` stage into a transaction's view, which `Commit` writes
back if no row it wrote was written since its `Begin`.  A reply of `ClaimDue` is in `reply` until
it is delivered or lost; `runs` are what the engine's processes are doing.

**SearchJobs.**  `job` is the row (status, epoch, stale claims, released, heartbeat fresh or not,
count, finish time), `rows` its results, `runs` the executors with the epoch each believes it
holds.  An executor clears, saves chunk by chunk, and reports; any call's answer may be lost, so
an executor may repeat or abandon a call that took effect.  `handoffs` is history: the epochs that
ended in a `Release`.

**Transactions.**  `log` is the sequence of commits, each with what it wrote; a transaction's
snapshot is a length of it.  `work` is what is staged and read (`Buffer`, `Deletes`, `ReadSet`,
`WriteSet`), `savepoints` the copies, `lost` and `aborted` what a lost write leaves behind.
`backend` is what the deployment runs on, chosen in `Init` for good: `"locking"` has row locks and a check
at the write (`DetectsAtWrite`), `"buffering"` keeps writes and checks at the commit.  The interface allows both.
`seen` is history: the entities whose committed
state the transaction was told, by a recording read or a comparison, and relies on.

**EntityVersions.**  `history` holds each entity's versions, tombstones included; the version number
is the index.  `staged` is what a transaction wrote, per entity and in order, `base` how much of each history its
`Begin` saw.  `backend` is what the suite leaves to each backend: whether a delete drops the
transaction's own saves of the entity (so that its tombstone is all that is committed), whether a save
drops its delete, and whether an entity created again gets a new creation date.  `Commit` appends
the staged rows at one instant, which may be that of the commit before.  `SaveAll` is
`DefaultSaveAll`: a save refused with `ErrEntityModelMismatch` ends it, what came before stays staged.
`EntityTimeline` has no versions: its `shown` is `AsAt` of every entity and instant, its `view` what `Get` answers.

**ConsistencyTimes.**  A save is open, stamped, committed and acknowledged, in separate steps: the
gap between stamp and commit is what a consistency time has to wait out.  `floor` is the stamp
floor (`LatestRecordedTime`), `clock` the business clock, which any step may set to any reading.
A call of `ConsistencyTime` reserves (raises the floor to C) and then waits, answers or gives up;
it may be made from inside an open transaction, which makes no progress meanwhile.  `seen` and
`known` are history: what was acknowledged, and the highest C returned, when the call began.

**FieldCache.**  A builder changes the nodes of a tree until it hands it to its readers (`Publish`).  A
mutator changes its own node (`Change`) and then empties that node's cache and not its parents'
(`DropCache`), in two steps.  `fields()` loads the cache (`Load`), walks the nodes below one a step
(`Visit`), swaps its flattening in if the cache is still empty (`CompareAndSwap`), and else takes
what is there or its own (`Reload`).  A flattening is the revision of each node as the walk met it.

**FieldSearch.**  `Ingest` gives a value its natural type and adds it to the field's types, which
collapse; `Prepare` expands one condition against the types as they are.  The state keeps the
stored values, the types and the prepared leaf, so that a leaf prepared early judges what came later.
The widths of the numeric types, of a double's digits and of the calendar are constants.

**DocumentSearch.**  `scope` is the model that this behaviour is about: its entities, unique keys,
conditions and orders.  `Save` is guarded by the unique keys and extends the schema by what the
engine's ingestion calls (external); `Reload` writes the schema and reads it back, in today's
spelling or in the older one of one label per node; `Ask` flattens, translates, prepares and
chooses the classes of the order's keys.  Saves and reloads go on after it.

## Runs

| Run | What it shows | Instance |
|---|---|---|
| `merges` | the stream yields the view in order, each row once; a source error is sticky and comes only after rows known to precede it; `MergeOrdered` implements `ViewStream`; the bounded merge gives the whole view or a refusal, never a cut, and reads no further than it must | inputs up to 3 rows, every deleted set and failing call, limits 0 to 3 |
| `merge_ordered_ids` | a *violation*: see Findings | up to 2 rows |
| `select_claims` | turns of tenants choose what is promised, within limit and quotas, the same from a bounded read; the loop ends | up to 4 candidates, 2 tenants, limits 0 and 3 |
| `task_lives` | unsafe work is handed off once per life; each claim is counted once; every claim ends; first committer wins; a row written by an open transaction is nobody else's | 1 task, 2 lives, 3 claims, 2 owners, 2 transactions, 2 disturbances |
| `task_siblings` | never two `RUNNING` tasks of an entity, commits of old views included | 2 tasks, 2 owners, 1 transaction |
| `search_jobs` | results are a prefix of the answer and whole on `SUCCESSFUL`; terminal is final; only losses count as stale claims; the job ends | 2 nodes, 2 hits |
| `transactions` | what a committed transaction was told still held at its commit; no lost update; a lost race stays lost; `LostRace` answers as a check of the history would | 2 transactions, 2 entities, both backends |
| `entity_versions` | an entity has one model for good; its creation date stands; reads of any instant see a timeline in which each commit appears at once, as its transaction saw it | 1 entity of 2 models and 2 contents, 3 staged writes, 2 direct ones; or 2 entities; 2 transactions, 3 instants, 8 backends |
| `consistency_times` | Complete, Final and Monotonic; stamps rise; a call ends | 2 saves of 2 tenants, 2 calls, 1 restart |
| `model_fields` | all reads of a built tree share one flattening; a cache shows its node's own branches unless they changed under the walk; numbers compare as numbers, times as time, patterns as what they mean; nothing stored falls out of its field's types | parent and child, 3 readers, 2 changes; or one field of 26 numbers, of 18 times or of text, 2 saves |
| `document_search` | what is stored is found by every path to it; a search answers what its condition means; an order is strict for all that no key reads as `NaN`, with the missing last; no two entities agree on a unique key and none is refused for another's | 3 models of 11 or 12 entities, some hundred conditions, 22 orders, 3 saves |
| `text_among_numbers` | a *violation*: see Findings | 3 of those entities, 2 orders |

**Bounds and why they are enough.**
`MaxRows` (3): a collision, a deleted row and one row after them fit in one input.
`MaxTasks` (4) with limit 3: one tenant's queue, its quota and the limit can each run out first.
`MaxArms` (2): a life and its replacement under a claim that belongs to the first.
`MaxClaims` (3): a claim, a takeover, and a takeover from that.
`MaxDisturbances` (2) bounds losses, stops, deaths and fresh transactions together: one to set up
a stale actor and one for its successor.
`Hits` (2): a clear between two chunks.  `MaxStale` (1): one lost attempt is allowed, the second
fails the job.  `Instant`: two finish times, so that a second terminal write would show.
`MaxSavepoints` (1): a write, a savepoint, a write and a rollback between them; the proofs cover
nesting.  `MaxOutside` is 1 with row locks and 0 at the commit, for size only; the proofs cover
every value.  `MaxStaged` (3): a save, a delete and a save of one entity in one transaction, or two writes against a
rival's; `MaxVersions` lets two versions be followed by no direct write, after a tombstone and an update of it.
`MaxInstant` (2): the present, an instant before it and one before that.  `Offered` lets one entity vary fully,
or two entities under both models.  `Unit` (2) and `Reading` ({0, 2}): two units, the clock in either, stamps and
consistency times above both by floor steps.  `MaxRestarts` (1): a restart between two calls.
`MaxRevision` (2): a change under a walk and one after it; three readers, so that one may win
and two differ.  The numeric types are scaled down and keep their order and their gaps: integers to 7, 127
and 2047 (`IntegerMax`, `LongMax`, `Int128Max`), doubles of two digits and three decimals, big decimals by
`BigScale`, `BigDigits`, `BigExp`, so that every bound of every type lies among the values tried.
`MaxStored` is 2 in `model_fields`, since a type collapses by pairs, and 3 in `document_search`:
an array, a scalar and an object at one field, or three entities for transitivity.
`DoubleBits` (8), `DoubleLeast` (16) and `DoubleTop` (14) are a sort's doubles: they tell the numbers
of the type `DOUBLE` apart (TLC evaluates that, `DoublesDiffer`), as true doubles do, while 256 and 257 tie.
The orders are of one key in either direction, and of two, the second one descending.  The two halves of `model_fields` share no
state, and `side` says which of them a behaviour is about.
`MaxCoeffDigits` (3) and `MaxNumExp` (2) stand for the 64 digits and the exponent 6144 of a signature.
`CHECK_DEADLOCK FALSE` is set where the system may rightly stop: the bounds are used up, every
transaction has ended, the job is removed, every save is done, or the merge or the search has returned.
Symmetry is used only in runs without a liveness property.

**Fairness.**  All of it is weak and of single, continuously enabled steps.
*SelectClaims*: the loop goes on.
*Tasks*: an owner that runs heartbeats, polls `ClaimDue` and gives back what it does not run,
because those are loops; a reply arrives or its owner stops; a run reports or learns that it was
superseded; a stopped owner's record grows old, because the store's clock runs; a transaction ends.
Losses are disturbances and bounded, so they cannot recur forever.  `ClaimsEnd` says nothing of
the last claim token, after which the bound lets nobody claim.
*Search jobs*: a live executor goes on; a heartbeat nobody renews grows old; a live node polls
`ClaimStale`.  One node always lives.
*Consistency times*: a save that holds a stamp commits or aborts, since its commit is in progress;
a waiting call looks again.  A transaction without a stamp may stay open forever: that is why
`Answers` is a property of the wait and not of the fairness.

## Findings

`text_among_numbers`.  `order_compare.go:10` calls `LessByOrder` a "strict-less-than comparator".  Under the
numeric class it compares what `Float()` makes of the two values (`order_compare.go:75`).  A text `NaN`,
which may be stored after a search has chosen its classes, parses to NaN; `cmpOrderFloat` ties that with
every number, and the next key or the ids decide.  With 2 under the id x, `NaN` under y and 1 under z,
x < y < z, x comes before y and y before z by their ids, and z before x by the key: a sort by this
comparison has no order to find.  `SortsStrictly` shows that nothing else makes it so: of the entities
that no key reads as NaN the order is strict, whatever else came under the keys.

`merge_ordered_ids`.  `merge_ordered.go:8-10` says that on an equal-ID collision the overlay wins
with "exactly one yield for that ID".  The code compares with the caller's order
(`merge_ordered.go:66`), so an overlay row whose sort value differs from its committed version
does not compare equal, and the id is yielded twice, unless the caller also names the id through
`isDeleted`.  `OneYieldInPlace` proves that nothing else makes it so: where each replaced row that is not
named as deleted compares equal with its replacement, an id is yielded once.  `ViewStream` and the
properties of `merges` speak of rows and not of ids, and hold for every input.

Smaller ones, met while modelling and kept out of the runs because the code says both:

* The comment of `ConditionToFilter` has leaves without declared types fall away; `Prepare` refuses
  such a leaf (`ErrUnevaluableLeaf`), and so does the model.
* A flattening walked while the tree is still being built may show a child of one moment and
  another child of a later one.  `OwnBranchesAreCurrent` speaks of a node's own branches for that reason.
* A child's name with a dot in it has the flattened key of a path of two names.
* `NE` with a time coarser than the stored one is false inside the whole period, and `BETWEEN`
  compares whole periods; `TimesCompareChronologically` states both as the code has them.
* A value ingested after a search was prepared, of a kind its types do not admit, gets the answer
  of the operator's polarity.  So `AnswersTheCondition` asks the full meaning of what was stored
  then, and of later entities only that none is found for a value it has not.
* Folded times sort by their text, which is chronological within one subtype and offset; numbers
  that round to the same double tie and fall to the next key (`order_compare.go:14` says IEEE-754).
* Changing a child leaves its parents' caches as they were (`model_schema.go:319`).  The tree is to be built whole
  before it is read (`model_schema.go:129`), so that no promise is broken by it, and no property speaks of it.

## Proofs

All theorems are of the specifications checked above, for any constants that satisfy the named
assumptions (`OrderAssumption`, `LimitsAssumption`, `SelectAssumption`, `TaskAssumption`,
`SizesAreNaturals`, `AbsentIsNoInstant`, `OutsideIsNoTx`, `TombstonesAreEmpty`, `InstantsAreNaturals`,
`EntitiesAreOffered`, `SavesHaveTenants`, `UnitIsPositive`, `ReadingsAreTicks`, and those of
`FieldCache` on the tree), which say only what kind of value each constant is, and `ValuesFit` (see
`ModelFieldsProofs`), which says more.

* **MergesProofs**, the stream: `StreamInOrder`, `ErrorComesAfterFetched`, `ImplementsViewStream`.
  `InOrder` is not inductive: one has to know that all that was yielded sorts before the buffered row,
  the rest of the stream and the rest of the overlay (`AheadOfYielded`); transitivity of the order does
  the rest.  For the other two that is not enough, since both say which rows were yielded: `FrontInv`
  (theorem `FrontInvariance`) has them as exactly the rows of the view before the place the stream has
  reached.  Each pull is then a step of `ViewStream` or a stutter: the next row is the least of those
  left, and the end is told only when none is.  `OneYieldInPlace` follows too (see Findings).
* **MergesProofs**, the page: `PageInvariance`, `PagesAreWhole` (`BoundedOrFail`), `FetchIsBounded`
  (`BoundedFetch`).  A page that is not refused has been filled from every row of the view, so
  what was taken has to be counted: `PageInv` has the rows taken as those before the place reached, none
  twice, and at most `limit + 1` of them.  That the sorted page is the view rests on the cardinality
  of the two sets.
* **SelectClaimsProofs** `ClaimInvariance`, `QuotaRespected` (`WithinQuota`).  The quota counts down what
  was taken only if a tenant's queue holds that tenant's tasks and no others (`OwnQueue`); then what is
  left of a quota and what the tenant was given add up to what its runs in progress left.  `seen` holds an
  entry for each task taken, so that no entity has two.  For these, nothing is used of the sort but
  that it returns what it was given.
* **SelectClaimsProofs** `TurnsInvariance`, `TurnsChosen` (`ChoosesInTurns`).  The loop drops tasks and
  takes them; `Choice` orders a set.  `ChoiceInv` relates the two at every turn: what was taken is exactly
  the tasks of the rounds that are over and, of this round, of the tenants that had their turn
  (`InRounds`), and what stands before a task in `out` is what comes before it in turns (`Lined`).  A
  queue has lost only tasks whose entity was met (`DroppedWereSeen`), so the first one it holds of an
  entity not met is the tenant's task of this round.  A task's round and its place are numbers of tasks
  before it, so the proof counts finite sets: that a set in a strict order has one sequence
  (`InLineSorts`), that the places of the tenants are the order of their first tasks (`TenantPlaces`),
  that a tenant's quota is spent by the number of its rounds (`SpentByRounds`).  A bounded read leaves
  out only tasks of a round beyond the quota or the limit, and no task's round changes
  (`BoundedReadChooses`).
* **ScheduledTasksProofs** `Typed`, `OneRunning`, `FirstCommitter`, `Held`.  A commit writes back
  whole rows of a view that may be old, and could revive a `RUNNING` row whose sibling was claimed
  since.  `SnapshotHolds` (a row without a rival is as the snapshot shows it) and
  `ViewClaimsNothing` (a transaction makes no row `RUNNING`) exclude it.
* **ScheduledTasksProofs** `CountedOnlyOnce`.  The bound has to hold of the rows in transactions'
  views too (`ViewsWithin`); views lag behind, and claim tokens only grow.
* **ScheduledTasksProofs** `MarksStand`, `UnsafeWorkOnlyOnce` (`UnsafeWorkOnce`).  Work is handed off
  once because its mark stands as long as its life does.  A mark is swept when its life is over, and
  that life must not come back: a commit puts back a row of the current life, none, or one that nobody
  was given a claim of, since a transaction whose row was claimed meanwhile has a rival.  A mark is
  cleared only by the run that made it, and nobody else was told of it, because a claim is answered
  once, to one owner, and run once.
* **SearchJobsProofs** `Typed`, `WholeResults`, `FinalOutcome`, `LossesCounted`.  `ResultsWhole`
  rests on the discipline of epochs: no run holds one to come (`EpochsGiven`), no two runs hold
  the same (`OneRunPerEpoch`), and the run that holds the job's own is in step with the rows
  because it cleared them first (`HolderInStep`).  `HandoffInv` counts, with the cardinality of
  the epochs that were not handed off.
* **TransactionsProofs** `Typed`, `NothingLost`, `Serial`, `SameAnswer`, `StaysLost`, for either
  backend and any nesting of savepoints.  `SameAnswer` is `OneAnswer`: where rows are locked, the races
  recorded at the writes are those that a check at the commit would find.
  `WInv` says of a transaction's work, and of each of its
  savepoints inside the next (`WorkGood`), that it is well formed and that a rollback can only
  give back less; `HInv` adds `RowsLocked` and ties the recorded races to the history of commits.
* **EntityVersionsProofs** `VersionsInvariance`, `ModelNeverChanges` (`OneModel`), `DatesAreCarried`
  (`CreationStands`), `ImplementsTimeline`.  A commit appends what was staged long before, so the one
  model has to hold of the versions a `Begin` saw together with the transaction's writes
  (`RowsOfOneModel`); a writer that has lost no race appends to those very versions.  Creation
  dates are kept by the rows of a commit as a whole, whether the backend evicts, unstages or renews.
  That `EntityVersions` implements `EntityTimeline` needs besides that stamps rise with the versions
  (`StampsRise`) and that none is later than now: only then is the latest version what is read as at
  now, and only then does a commit leave the reads of the past alone.
* **ConsistencyTimesProofs** `IsComplete`, `IsMonotonic`, `IsFinal`, `TheyRise`.  Everything rests on
  the floor: no stamp and no reservation is above it (`BelowFloor`), and stamps are issued above it.
  A reservation covers what was acknowledged and returned before (`Covers`), ends a unit, so that no
  read at or below it reaches above it (`ClosesUnit`), and once answered has nothing stamped below it
  left in progress (`Settled`).  That the highest of a set of bounded naturals exists is shown with
  the library's well-foundedness of the naturals.
* **ModelFieldsProofs**, the cache: `Typed`, `Converges` (`OneFlattening`), `OwnBranches`
  (`OwnBranchesAreCurrent`), for any tree and any number of readers.
  Once the tree is built no cache is emptied, so a cache that is filled stays filled with the same
  object and a read that began then returns that object; before that, a flattening is stale for its
  own node only where a change came between the walk and the swap, which `raced` records.
* **ModelFieldsProofs**, the types: `TypesWiden`, `StaysAdmitted` (`StoredStaysAdmitted`).  Every type
  given to `CollapseNumeric` is assignable to the type it gives (`CollapseIsAbove`), so a type is lost from a
  field only to one it widens to.  `StaysAdmitted` rests on `ValuesFit`, an assumption of
  `FieldSearch` about its values: a number's classified type admits it, and so does each type that one of
  its types widens to.  That is a fact about digits and powers of ten, which the provers do not know; TLC evaluates it, in
  `model_fields`, for the values of the run and for every number near the scaled bounds in every scale
  (`ScaledNumbersFit`).  What the theorem adds is the history: any values, in any order and number.
* **ModelFieldsProofs**, the operands: `RoundingKeepsOrder` and `FlooringKeepsOrder` say why a leaf may
  round a number to a type's scale and floor a time to a type's period: with the direction of
  `RoundingModeFor`, or the operator of `MutateDownscaleOp`, no value of the type changes sides, for every
  integer, period and operator; and the floors of a path of hops are a single one.  They are the
  arithmetic under `NumbersCompareExactly` and `TimesCompareChronologically`.  Of powers of ten,
  `RoundingKeepsOrder` supposes that the one in question is positive and above any number of fewer digits;
  TLC evaluates that as well (`PowersOfTen`).
* **ModelFieldsProofs**, the texts: `TextsAreOrdered`, that `CompareText` is a strict total order.  Every
  order ends in a comparison of ids.

## Only model-checked

* `ClaimsEnd`, `Finishes`, `Answers` and `Terminates` are liveness under fairness, which the proof
  system does not reach.
* `NumbersCompareExactly`, `TimesCompareChronologically` and `LikeIsGlob` of `FieldSearch`.  The
  arithmetic of rounding and flooring is proved (see above).  What remains is which condition an operand
  becomes: digits counted by powers of ten, hops found by a search of the graphs, and the scan of a
  pattern, all of them recursive over data.
* `ValuesFit`, the assumption that `StaysAdmitted` rests on.
* `FindsWhatItHolds`, `AnswersTheCondition`, `SortsStrictly` and `UniqueKeysHold` of `DocumentSearch`:
  trees, conditions and signatures are walked by RECURSIVE operators, about which the proof system
  takes no theorem.

## What the models leave out

* ScheduledTasks: `Query`, `Get` and `SchedulerActivity` (reads), tenants (rows of two tenants
  never meet outside `SelectClaims`), due times (which waiting task is due is left open, since
  `NowMs` is each caller's own clock), savepoints and `LostRace` of the transactions around it,
  and the pure validators.  `RemoveLife` is fenced by the life and not by the claim, as the
  interface says: a superseded run can still remove the life its successor runs.
* Transactions: `Join`, refusals of a wrong tenant or an ended transaction, attribution of
  deletes, and the victim a database aborts to break a deadlock.
* SearchJobs: `ClearResults` is one step, fence and delete, since the contract demands it
  (`search_store.go:229`); left out are tenants, the paging of `GetResultIDs`, and self-executing stores, which may refuse
  or ignore the calls modelled here.
* EntityVersions: recorded reads and `CompareAndSave` (in `Transactions`), savepoints, tenants, the
  version of a transaction (`GetVersionByTransaction`), attribution, and the limits of a page and of a
  metadata window.  `DeleteAll` and `SaveAll` are modelled inside a transaction; outside one they are
  single writes in a row.
* ConsistencyTimes: a transaction is one save; how long submit times are kept and which clock the
  reapers read.
* Kernels: the reading of texts (`ParseDecimal`, temporal texts, path grammar, predicates, JSON), the
  regular expressions of `MATCHES_PATTERN`, time-based UUIDs apart from UUIDs, and the storage
  keys a plugin uses for meta fields.
* Condition translation: the coercion marker for pushdown, and the validators whose only guard is a
  limit of depth.
* Attribute order: as a text, an object or an array is its opening bracket alone, and no number of a
  sorted entity has a fraction, so that how one is written does not matter.  Of the texts that parse as a
  number, `NaN`, the infinities and decimal literals are read, and no hexadecimal ones.
* Not modelled at all, with the reason: the model, key-value, message, workflow and audit stores (interfaces of single calls whose code is
  in the plugins, each with one clause a model would restate); the locks of a transaction's state (taken by the plugins and by no code here);
  contexts, the registry, grouped aggregation, strict JSON and the suite's harness, which have no
  state worth the name or no code.

## Plan

The plan's modules are written, checked and, but for what is listed under "Only model-checked", proved
about.  Two things would take the proofs further: facts about powers of ten, from which `ValuesFit`
and the digit counts of `Cmp` would follow for every number; and a proof that the scan of a `LIKE`
pattern ends, from which `LikeIsGlob` would follow by the length of the text.
