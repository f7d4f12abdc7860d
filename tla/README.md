# Shiba: TLA+ models and proofs

Shiba is a PostgreSQL extension that keeps the results of registered queries up to
date. It decodes the WAL of the source tables, cuts every committed transaction into
signed row effects, runs them through a graph of operators and applies what comes out
to a result table. Everything durable is in PostgreSQL tables; one background worker
per database, the Runtime, does the work in many small transactions and may die between
any two of them.

These modules model that machinery from its source (`src/*.rs`, `sql/*.sql`), check it
with TLC on small instances and prove the most important safety properties with TLAPS
for every value of the constants. `PROJECT.json` maps each definition to the lines it
models.

## The system

```
 source tables --WAL--> walsender --pgoutput--> poll_batch --> staging (change_log)
                                                                    |
      publish_source_batch: one chunk of one committed transaction  v
                                                             source EffectStream
                                                                    |
                      published_lsn (advance_..._frontier) ---->  Scan
                                                                    |  EffectStream
                                                          Filter, Project, Join, ...
                                                                    |  EffectStream
                                                                  Sink --> result table
```

| Component | State | Operations | Talks to |
|---|---|---|---|
| Effect stream (`sql/12_effect_stream.sql`, `execution/stream.rs`) | chunks, first retained and next sequence, buffered counters, backpressure latch, latest data and frontier LSN; per consumer a cursor, a durable frontier, an activation LSN | append, advance, attach, detach, collect | producers append, consumers advance, the collector deletes, registration attaches |
| Ingress admission (`ingress.rs`, `admission.rs`, `sql/11_ingress.sql`) | one header per source transaction (open, committed, aborted), staged events, tasks, open payload, the LSNs persisted / published / confirmed / replay-safe | stage a batch, seal, abort, abort a subtransaction, reconcile after a server restart, confirm to the slot | the walsender (sends again after every reconnect), publication |
| Publication (`publication.rs`) | per task the next input row, pending counts, `published_lsn` | publish one chunk, advance the frontier over one transaction | source streams; Scans read `published_lsn` |
| Scan and stateless stages (`execution/linear`) | bootstrap relation, continuation, cursor | bootstrap page, snapshot frontier, data page, frontier | input and output stream |
| Sink (`execution/sink`) | continuation (row ordinal, remaining weight), cursor, the result table | apply a page, pass a frontier | input stream |
| Distinct (`execution/distinct`) | row bag, key multiplicities, published representatives, effect queue | apply a page and reconcile its keys, drain the queue, frontier | input and output stream |
| Aggregate (`execution/aggregate`) | row bag, groups, dirty queue, work rows | apply a page, a page of small groups, a page of one rebuild, retract, insert, frontier | input and output stream |
| TopN (`execution/topn`) | row bag, candidates, visible rows | apply, select, remove, add, clean, frontier | input and output stream |
| Window (`execution/window`) | row bag, partitions, ordered copies, peers, frames, accumulator, candidates, visible rows | apply, enumerate, peers, frames, evaluate, fold, remove, add, clean, frontier | input and output stream |
| Join (`execution/join`) | an arrangement of each side with match and unknown counts, a continuation | open an input, preflight, probe a page, finalize a row, a whole inner page, frontier | two input streams, one output stream |
| Scheduler and runner (`runtime/scheduler.rs`, `execution/runner.rs`) | cache of loaded dataflows, rotation position | run one ready stage for a quantum, one transaction | every stage |
| Runtime identity and lifecycle (`lifecycle.rs`, `worker.rs`, `sql/10_runtime.sql`, `sql/40_lifecycle.sql`) | `runtime_state` row, two advisory locks, the worker registration, the replication slot | activate, register, write trigger, launch, claim, exit, crash, restart, deactivate | user transactions and background processes race for the identity |
| Registration (`execution/register.rs`) | catalog rows of a dataflow, activation LSN | lock sources, provision, attach, copy the snapshot | the publisher, which lags behind the WAL |
| Collection (`runtime/gc.rs`) | none of its own | delete acknowledged chunks, published headers | streams, headers |
| Planner, DDL hook, index management, introspection, dashboard | plans and catalog rows | translate and validate a query; drop | registration |

What is hard here: a crash between any two transactions; replay of decoded changes,
cut differently each time; frontiers that promise the absence of data and are remembered
across transactions; dataflows that join a stream whose publisher is behind; a
backpressure latch that several parties set and clear; queries recomputed page by page,
so that a group, a selection, a frame, the candidates of a row or a single weight is cut
at any place and taken up again from a few columns; two inputs of a Join that advance
independently; and user transactions that race with background processes for the right
to be, or to start, the Runtime. The `hazards` of `PROJECT.json` list them by line.

What makes the parts correct: a stream loses no chunk that a consumer has not read and
its counters are exact; ingress publishes committed rows once, in commit order; an
operator's output at a frontier is its query on the input up to that frontier; what it
emits can be applied; the result relation is the sum of what was emitted; every commit
gets there; and there is one Runtime, of the current generation.

## Modules

| Module | Models |
|---|---|
| `FanoutLog` | abstract specification: an append-only log read in order by readers that join and leave |
| `EffectStream` | one effect stream with retention, collection, watermarks and frontiers; `Kind` selects the rules of source or operator streams |
| `EffectStreamProofs` | theorems about it, and that it implements `FanoutLog` |
| `Lists` | the positions of a set in order, and the sum of a sequence |
| `Induction` | proved facts about minima, sums over sets, sequences and their sums, which the proofs share |
| `Ingress` | the source database's WAL, a walsender (external, nondeterministic), admission, publication, feedback, header collection, Runtime crashes and server restarts |
| `IngressProofs` | theorems about types, progress, accounting, and where published rows come from |
| `IngressDeliveryProofs` | theorems about what must be published, and in which order |
| `SinkPage` | page planning and application of weighted effects, pure operators |
| `SinkPageProofs` | lemmas about those operators: a page and its rest add up to its chunk, within the budget |
| `Sink` | the Sink behind any operator, weights of any size |
| `ChunkLog` | an operator stream as a log, and the rule for what may be appended |
| `OperatorStage` | what the operators with one input share: cursor, admission thresholds, emission, frontiers, and what they owe |
| `VisibleDiff` | the removing and adding legs with which TopN and Window publish a recomputed result |
| `Distinct`, `Aggregate`, `TopN`, `Window` | the kernels, each with the query it computes as a definition over the table |
| `Operators` | the dispatch over those kernels, and their common properties |
| `Join` | the Join kernel, all seven kinds |
| `JoinSink` | a Join composed with the Sink behind it |
| `JoinSinkProofs` | theorems about the pair |
| `Scheduler` | the scheduler's rotation over the stages of `LinearDataflow` |
| `LinearDataflow` | source table, publisher, registration, Scan, transforms, Sink and the operator streams between them, composed (`SinkPage` is shared) |
| `LinearDataflowProofs` | theorems about it, its types and the consistency of the view |
| `RuntimeIdentity` | launch, claim, death, restart and retirement of the Runtime; activation, registration, deactivation |
| `RuntimeIdentityProofs` | theorems about it |
| `MC*` | payloads, transactions, plans and symmetry sets for TLC |

How state and actions correspond to the code:

* **EffectStream.** `next`, `first`, `buffered`, `latestData`, `frontier`,
  `backpressured` are the columns of `effect_streams`; `chunks` is `effect_stream_chunks`;
  `consumers` is `effect_stream_consumers`. `Append`, `Consume`, `Attach`, `Detach`, `Gc`
  are the SQL functions of the same purpose, whole, under the row lock each takes. `log`,
  `total` and `delivered` are history. Rows are sizes only.
* **Ingress.** An LSN is a position in the WAL, a record ends at the next position, 0 is
  NULL. The walsender streams or sends whole, cuts segments anywhere, forgets rolled-back
  subtransactions it has not sent, and resumes from the slot. `pc` is the position of the
  Runtime loop: publish, advance the frontier, ingest. A refused batch ends the Runtime
  (`refused` remembers why). A change has one row image; the start LSN of `Begin` and of
  the first `StreamStart` of one transaction are taken to agree; which sealed headers are
  old enough to be collected is left open. After a server restart that sealed a committed
  transaction as aborted (see below) its header can be collected and claimed again, so
  `PersistedComplete` and `FrontierComplete` are claimed without server restarts only.
* **LinearDataflow.** One kernel transition is one action, which also stands for the
  transaction around it: input cursor, output chunk, continuation and result commit
  together. A transition that returns an error is disabled, because the step rolls back,
  the Runtime restarts and meets the same error; `StepsSucceed` says that this never
  happens. The publisher and the streams appear with the contracts that `Ingress` and
  `EffectStream` establish; backpressure of the source stream is `Ingress`'s subject and
  is left out here, byte budgets are folded into row budgets, effects of source rows weigh
  1 or -1.
* **Sink.** One kernel step is one action. Its input is another module's stream: the
  output of a Join in `JoinSink`.
* **OperatorStage and the four kernels.** `cont` is the operator's continuation row,
  `st` its state relations, `adm` the admitted rows of the checkpoint. One kernel
  transition is one action with a whole budget; a transition that fails is disabled.
  The upstream stage emits any payload of `Inputs` that retracts only what was published,
  and frontiers, in any order its own stream accepts. An aggregate's value is the bag of
  arguments it was given and a window's sum a number: what PostgreSQL's transition
  functions make of them is not the code's. Row order is `Rank`, with ids for ties.
* **Join.** A step of the Join runs several transitions in one transaction, up to the
  quantum; they transform a record `t`, and the action commits it. The condition is a
  three-valued table `Truth`. The whole-chunk path of inner joins, which works on sets
  (`InnerPage`), and the row-by-row path are both there, and the same chunk takes the one
  or the other.
* **Scheduler.** `stage_cursor` is the loaded dataflow's field of that name; it is lost in
  a restart or an eviction. `LinearDataflow` by itself lets stages run in any order, which
  is what its safety run checks; `Scheduler` runs them in the scheduler's order, and only
  the one process is fair.
* **RuntimeIdentity.** A user transaction makes one call. Its effects outside the
  catalog (worker registration, slot) survive its rollback. Its locks go one step after
  its outcome is visible. The five seconds after which a launch counts as lost may pass
  at any time. The exit of the loop on an inactive database is not an action:
  `NoStaleRuntime` shows that no Runtime of an inactive database exists.

## Runs

| Run | Instance | Shows |
|---|---|---|
| `stream_operator` | operator stream, 2 consumers, chunks of 1 or 2 rows and one oversized, high watermarks 3 chunks / 4 rows / 4 bytes, 4 chunks, fair | `UnreadRetained`, `CountersExact`, `BufferBounded`, `FrontiersSound`, refinement of `FanoutLog`, `BackpressureClears`, `ConsumersCatchUp` |
| `stream_source` | source stream, 2 consumers that come and go, 3 LSNs, lagging publisher | `FrontiersSound`, `NothingMissed` |
| `stream_backlog` | the same | violated: `BacklogIgnored` |
| `ingress_crash` | 2 transactions, 2 changes, batches and chunks of 1 row, 1 Runtime crash, fair | `CommitOrder`, `FrontierComplete`, `PersistedComplete`, `FeedbackSafe`, `CommitsPublished` |
| `ingress_restart` | 1 transaction with a subtransaction, commits and aborts, 3 changes, source dropped once, 1 server restart | `OnlyCommittedRows`, `AccountingExact`, `ProgressMonotone` |
| `ingress_restart_aborts` | 1 transaction, 1 server restart | violated: `AbortedInSource` |
| `linear_safety` | filter, 3 commits of 4 shapes, chunks and pages of 2 rows, up to 3 unpublished chunks at registration, crash between publication and frontier | `ViewConsistent` |
| `scheduler_live` | Scan, Filter, Project and Sink in rotation, 2 commits, streams of 2 chunks, pages of 1 row, restarts at any time, fair | `StepsSucceed`, `Converges` |
| `operators` | Distinct, Aggregate (grouped, global), TopN (with ties, without) and Window (partitioned, global) on 3 rows, 4 payloads with multiplicities above 1, 4 chunks at 2 LSNs, pages of 2, TopN also with pages of 1, admission cap 4, fair | `Exact`, `PublishedRetractable`, `FrontiersPass` |
| `join_sink` | the seven join kinds on 2 x 2 rows with a true, a false and an unknown pair, payloads of up to 4 effects, 4 chunks at 2 LSNs, pages of 3, quantum 8, the Sink behind it | `JoinExact`, `TransitionsSucceed`, `FrontierCovers`, `ResultExact`, `SinkApplies`, `StepBounded` |
| `runtime_safety` | 3 transactions of any kind, rollbacks, 1 process death, 1 server restart | `OwnerIsRuntime`, `NoStaleRuntime`, `RegistrationSafe`, `SlotDropSafe` |
| `runtime_live` | 3 concurrent writes, rollbacks, 2 process deaths, fair | `RuntimeReturns` |

What the properties of the dataflow runs say:

* `Exact` compares the sum of the output at every published frontier with the query on
  the table at that LSN. The query is a few lines of set theory (`DistinctQuery`,
  `AggregateQuery`, `TopNQuery`, `WindowQuery`), the kernel dozens of paged transitions.
  For LIMIT with equal ranks several results are right, and one of them has to come out.
* `PublishedRetractable` is what a Sink, or any operator downstream, relies on.
* `FrontiersPass` is liveness of a stage: whatever continuation it is left in, it reaches
  every frontier of its input. It is also how a transition that fails for good would
  show, because such a transition is disabled. One such transition is known and left out
  by name: a TopN selection whose cursor is refused (`SelectionStuck`, see the limits).
* `RuntimeReturns` says two things. A transaction that takes the identity for a launch and
  does not roll back is followed by a Runtime, whatever other launches are rolled back,
  time out or are superseded and whichever processes die. And a launched Runtime returns
  after every death of its process, unless the restart was `Interrupted`: the process that
  PostgreSQL restarts took a transaction that then rolled back, or a superseded process,
  for the Runtime, and gave up.
* `JoinExact` holds whenever no chunk is half done, not only at frontiers, because a
  Join emits as it reads. `TransitionsSucceed` says that no consistency check in a Join
  transaction fails: each compares a count kept with a row against a new scan.
* `StepsSucceed` and `Converges` say that the chain neither fails nor stops: every commit
  is eventually covered by the frontier of the result, whatever restarts do to the
  rotation.

**Bounds.** They are CONSTANTS named `Max...` and appear only in guards of the
environment (commits, crashes, new chunks). They are large enough for the cases that
matter: a stream reaches every watermark and drains again; a transaction spans several
batches, chunks and pages; two transactions overlap; a crash falls between any two
steps; a dataflow joins with backlog on both sides of its activation LSN; three launches
supersede one another; a group, a partition, a selection and a join's candidates are
larger than a page, a selection up to three pages long, which is where its cursor can be
refused; an admission threshold falls inside a chunk. `MaxWeight = 1` in
`operators` stands for 2^63 - 1, so that a difference of two copies is already too large
for one effect. `Ingress` is run with one source: with two, every instance in which
something happens to both was beyond five minutes, so what its definitions say of several
sources is modelled but not checked. Symmetry is used on transactions, in safety runs
only. Deadlock checking is off because every instance ends when its bounds are used up,
and because the real system idles when there is nothing to do.

**Fairness.** Weak fairness, for what a loop of the Runtime repeats: its three phases
(`Ingress`), the scheduler's step as a whole (`Scheduler`: which stage it runs is its
rotation's business and is not assumed fair), the dispatch of a stage that stays ready
(`Operators`), collection, the restart of the process by the postmaster. The walsender
keeps decoding. User transactions that have begun end. Nobody is obliged to write,
register or drop, and nothing is obliged to fail. A restart of the rotation may come
between any two steps, but the process goes on in between. `RuntimeReturns` is claimed
for finitely many transactions and deaths: it takes for granted that the identity is not
contended for ever. It is claimed without server restarts, because a new postmaster has
no registration of the worker, and its next launch is up to a user's transaction. Liveness of source streams is not claimed, because of `stream_backlog`.

## Proofs

**EffectStreamProofs**, for all watermarks, limits, payloads and consumers, from
`StreamAssumption` (low watermarks below high ones, limits positive):

* `TypeCorrect`, `RetentionSafe`, `BackpressureSafe` from `StorageInv`: the retained
  chunks are exactly `first .. next - 1`, every cursor lies in that range, and the
  counters are differences of running sums along the stream (`SumsSound`). The sums
  are needed because the code only adds and subtracts; without them an invariant cannot
  know that what the collector subtracts was once added.
* `FrontierSafe` from `FrontierInv`, which adds where LSNs come from (`LsnsSound`): the
  stream row remembers the highest data and frontier LSN, and a consumer's frontier is one
  it read in the stream or was published to it.
* `NothingIsMissed` from `DeliveryInv`: what a consumer was handed is the log between its
  position at attachment and its cursor, so that attaching below the end, collecting and
  detaching in between cannot make a gap.
* `CountersAreExact` from `AccountingInv`, which ties every stored chunk to the log it was
  cut from: the sum over the stored chunks telescopes into the running sums.
* `ImplementsFanoutLog`: each step is a step of `FanoutLog` or a stutter; appends and
  reads are visible, collection and backpressure are not.

**RuntimeIdentityProofs**, for any number of transactions, deaths and restarts, from
`RuntimeAssumption` (`None` is not a transaction; bounds are naturals):

* `SingleRuntime`, `FreshRuntime` from `IdentityInv`: a process past its try for the
  identity holds it; a transaction about to launch or retire holds it too; an uncommitted
  row belongs to such a holder or only activates an inactive database; so while a Runtime
  runs nobody can change the row that describes it.
* `SlotDrop` from the same invariant: only a holder of the identity drops the slot.
* `RegistrationIsSafe` from `LifecycleInv`: what a registration or a deactivation found
  out under the lifecycle lock (active, no dataflow) stays true until it ends.

**IngressProofs**, for any number of transactions, subtransactions, sources, batches,
crashes and server restarts:

* `TypeCorrect`. `FeedbackIsSafe` and `ProgressIsMonotone` from `SessionInv`: the order of
  the LSNs a session goes through, from the slot over the walsender and the segment it is
  decoding to `persisted_lsn` and `published_lsn`, and what a Runtime that has just
  started may assume of each.
* `AccountingIsExact` from `TxnsInv`: `pending_publications` and the open payload are sums
  over tasks and headers, and a header's state, its end LSN and the frontier agree.
* `RowsAreCommitted` from `RowInv`: an entry of a segment, a staged entry and a row of a
  source stream are each a change of the transaction they stand under, and the transaction
  of a sealed header ended in the WAL as the header says. `OnlyCommittedRowsAppear` is the
  property the runs check. It has the hypothesis that there are no subtransactions; with
  them it is false (see the limits below), and `RowsAreCommitted` says what remains.

**IngressDeliveryProofs** needs two hypotheses, no subtransactions and no server restarts
(`Plain`), because without either the conclusions are false (see the limits below). For
any number of transactions, sources and Runtime crashes:

* `StageInv` follows a transaction to its header: what the walsender has sent of it
  (`SenderLaw`), what the segment still holds (`SegmentLaw`), what is staged (`StreamedLaw`,
  `HeadersLaw`, `ReceivedLaw`) are prefixes of one another, also while a replay after a
  crash runs through changes that are staged already.
* `DeliverInv` follows the header to its sources: a commit that is persisted and not
  published has its header (`DoneLaw`), the header has a task for each source that wants it
  (`TaskLaw`), the stream holds exactly the rows of the tasks before a position
  (`DeliveredLaw`, `StreamLaw`), and tasks are taken in commit order (`QueueLaw`,
  `FrontierLaw`).
* `RowsInCommitOrder`, `PersistedIsComplete`, `FrontierIsComplete` follow.

**JoinSinkProofs**, for all rows, conditions, join kinds, payloads, page and quantum
bounds:

* `JoinInv` types a Join transaction through all its transitions, on the quantum path and
  on the whole-page path of inner joins; it says that a continuation belongs to the chunk at
  the cursor of its side, that LSNs never fall along a stream and rise after a frontier, and
  that a frontier of the output is one both inputs have passed.
* `SinkInv` adds `Exact`: the result, the rest of the chunk at the continuation and the
  chunks after it add up to the output. A page keeps it because `IsPageOf` says that what
  `consume_data` takes and what it leaves, a split weight included, add up to what was
  there; and because a page that finds all its victims changes each row by its net.
* `ResultIsExact`, `FrontierIsCovered` follow. `StepIsBounded` compares the sum over all
  row values with the copies a page asks for; it assumes that there are finitely many row
  values, as the sum is not defined otherwise.

**LinearDataflowProofs**, for any plan, any transactions, any lag of the publisher at
registration, any page, chunk and stream bounds, from `PlanAssumption` (the plan is a
sequence of transforms, effects of source rows weigh 1 or -1, the watermarks are ordered)
and `BatchAssumption`. The only assumption a proof asks for beyond typing is that there
are finitely many row values, which values of a bounded size are: what a transform makes
of a table is a sum over the rows that have one image. `Inv` looks at a stream as what its
effects add up to at each place a reader can stand at, a chunk boundary or between two
effects of a chunk (`NetAt`), and consists of

* `WalLaw`, `SourceLaw`: commits are in LSN order and delete no row that is not there, the
  source stream holds the first `sent` changes, each chunk at the LSN of its transaction,
  and a published LSN covers no commit that is not in the stream;
* `LogLaw`, `CursorLaw`: a stream holds effects of weight 1 or -1, its frontiers are the
  chunks without effects; a stage's frontier is one it has read, and a page continuation
  stands inside the data chunk at its cursor;
* `ScanLaw`: what the Scan has emitted is the snapshot without what is left of the bootstrap
  relation, then the table after exactly the commits its cursor has passed, those in the
  snapshot skipped (`ReachedOf`): its frontier covers no later commit, and it emits none
  before the bootstrap relation is empty;
* `StageLaw`: what a transform has emitted is the image of what it has read, and it has
  passed on the same frontiers; this needs that the image of a sum is the sum of the
  images (`ImgAdd` and the lemmas around it), and that a prefix of the output comes from a
  prefix of the input, however a page was cut;
* `TraceLaw`: at every place in every stream, not only at its end, the sum so far is the
  query on some prefix of the commits, a prefix that covers each frontier before the place
  (before the first frontier: a part of the query on the snapshot). A stream is read long
  after it was written, when its producer's cursor is elsewhere; without this law the Sink
  would know nothing of the place it has reached;
* `SinkLaw`: the result is what the Sink has read, which `IsPageOf` and the net of a page
  keep as in `JoinSinkProofs`.

`TypeCorrect` and `ViewIsConsistent` follow. The second is the claim of `linear_safety`: at
the Sink's place `TraceLaw` names the prefix. That the steps happen at all is `StepsSucceed` and
`Converges`, which TLC checks.

Every inductive invariant was checked with TLC on its run before it was proved.

Sums over data are proved by induction over the natural numbers with a set instead of a
predicate (`NatSetInduction`), as the library's theorems with an operator parameter cannot
be instantiated by the provers; `Induction` derives from it that a recursive function over
an interval or over the subsets of a finite set exists and is unique, which is what the
folds of `Lists` and of the community modules need.

**Only model-checked.** Liveness (`BackpressureClears`, `ConsumersCatchUp`,
`CommitsPublished`, `Converges`, `FrontiersPass`, `RuntimeReturns`), and `StepsSucceed`,
which says that a transition is enabled: fairness and ENABLED are beyond the prover.
`Exact` and `PublishedRetractable` of the kernels with one input: four kernels share the
properties, and each needs an invariant of its own that relates the sums emitted to a
query recomputed over several paged phases. `JoinExact`, `TransitionsSucceed` and
`SinkApplies`, which compare the counts kept with each row to the query over everything
consumed; they hold for payloads that do not cancel, and the proof has to carry that
condition through the half-done continuations of a chunk.

## Disagreements between the code and its comments

Two are recorded as findings with a run each: `stream_backlog` (a Scan that joins with
two chunks of older backlog can never pass the first) and `ingress_restart_aborts` (a
server restart seals a transaction as aborted although it committed).

### Limits of the claims

Modelling showed further cases where the code raises an error again on every restart, or
waits for an event that need not come. They bound what the passing runs claim; each can
be reproduced with the constants given.

| Property | Violated when | What happens |
|---|---|---|
| `SinkSucceeds` (`LinearDataflow`) | `Txns <- SameTxn`, filter plan, pages of 2 | a page inserts a row and deletes it again; its one statement (`sink/runtime.rs` 547-610) cannot see its own insertion and the step fails |
| `ScanSucceeds` (`LinearDataflow`) | `Txns <- OtherSource`, `MaxCommits = 2`, `MaxLag = 0` | `source_frontier_after_chunk` (`linear/storage.rs` 343-366) remembers a published LSN below the chunk just emitted, and the frontier is refused |
| `SealedPrefixReplayable` (`Ingress`) | one transaction, 3 changes, 1 server restart; or aborts and 1 crash | `validate_replay` refuses events of a sealed header that were not staged before (`admission.rs` 443) |
| `RollbackReplayAccepted` (`Ingress`) | `Subs = {s1}`, aborts, 1 crash | `abort_ingress_subtransaction` raises for a sealed header (`sql/11_ingress.sql` 651) |
| `StableIdentity` (`Ingress`) | `Subs = {s1}`, 1 crash | a change staged under its subtransaction comes again without it (`ingress.rs` 562) |
| `PersistedComplete` (`Ingress`) | 2 transactions that commit, 3 changes, batches and chunks of 1 row, 1 server restart, no crash | the restart seals the open header of a transaction as aborted at its start LSN; on replay its first batch is recognised as logged, the header is collected between two batches (`sql/11_ingress.sql`, `reconcile_postmaster_restart`; `runtime/gc.rs`, `gc_change_log`), and its commit claims a new header without the row |
| `OnlyCommittedRows` (`Ingress`) | `Subs = {s1}`, 1 crash | a subtransaction rolled back while nobody is connected leaves its staged rows behind (`publication.rs` 365) |
| `SelectionSucceeds` (`Operators`) | the constants of `operators`, TopN with pages of one row | a page's cursor is the `entry_id` of its last row, the rows come in the order of the query (`topn/runtime.rs` 1307), and `TopNPage::validate` (`topn/machine.rs` 681-683) refuses a page that is not the last one and ends on a lesser `entry_id` than the page before it: a selection of three or more pages can fail, and again on every restart |
| `RejectionJustified` (`RuntimeIdentity`) | 2 writes with rollback, 1 crash | a restarted process meets a busy identity while `owner_pid` still names the dead one, and gives up (`scheduler.rs` 478) |
| `RuntimeReturns` without `Interrupted` (`RuntimeIdentity`) | the constants of `runtime_live` | the identity is held by a writer that then rolls back, or for a moment by a superseded process: the restarted process gives up as in the row above, and no Runtime is left until the next write |
| `RuntimeReturns` (`RuntimeIdentity`) | `MaxReboots = 1`, fair | a server restart leaves the generation and a pending launch or an owner in the catalog but no registered worker: no Runtime comes up until the next write launches one |
| `RuntimeReturns` (`RuntimeIdentity`) | `Lifecycle = TRUE`, fair | an activation leaves the launch to a superseded process that holds the identity for a moment (`lifecycle.rs` 33) |
| `EitherInputWorks` (`JoinSink`) | the constants of `join_sink` | with data on one input only, the Join takes it (`join/runtime.rs` 198-217); data of the other side at a lower LSN is then refused by `record_output_append` (`step.rs` 776) on every restart, although `docs/ARCHITECTURE.md` 238-240 says that the Join can work when either input has data |
| `FrontiersPass` without `LsnsClosed` (`Operators`) | the constants of `operators`, with `MaxChunks = 5` for Aggregate | two data LSNs before one frontier: Aggregate and Window drain in queue or partition order and may emit the greater LSN first; the lesser one is refused by the same check. TopN and Distinct emit at an LSN that never falls |
| `TransitionsSucceed` (`JoinSink`) | `Inputs` with a left payload that inserts a row and deletes it again, inner join | the page of an inner join checks every row against the arrangement at its start (`join/runtime.rs` 1057-1157) and fails; row by row the same chunk passes |
| `SinkApplies` without its exception (`JoinSink`) | the constants of `join_sink`, left join | the update of the only match of a row yields (l, NULL) with weight 1 and -1 in one chunk, and a Sink page with both fails as in the first row of this table |
| `ActiveHasSlot` (`RuntimeIdentity`) | `Lifecycle = TRUE`, rollbacks | a deactivation that rolls back has dropped the slot already (`lifecycle.rs` 298) |

Two more were seen in the code and are not reached by an instance. A group page of the
Aggregate deletes every empty group that was never published
(`aggregate/runtime.rs` 1444), also one still in the dirty queue, which refers to it
ON DELETE RESTRICT; it takes two empty queued groups that do not fit one page. And an
error in any step ends the Runtime, whose rotation over dataflows begins anew at the
lowest OID, so a dataflow that always fails keeps those after it from running.

## Not modelled

Parsing of pgoutput bytes and the replication connection (a nondeterministic walsender
stands for them); SQL expressions (a plan says which rows pass, how they rank and what
they become); byte budgets where row budgets show the same control; 64-bit overflow of
counts and weights, except where the code splits a weight; ORDER BY inside an aggregate;
the scheduler's rotation over several dataflows and its time budget; the tables a drop
removes and the guards on source tables; the planner, a pure translation; index
management, introspection and the dashboard, which no other state depends on.

## Plan

1. Done: effect streams with proofs, ingress and publication, linear dataflow, Runtime
   identity with proofs.
2. Done: Distinct, Aggregate, TopN, Window against their queries; Join against its query,
   composed with the Sink; the scheduler's rotation over a linear dataflow.
3. Done: proofs about `Ingress`, the counters and the delivery of effect streams, the Join's
   transaction and the Sink behind it, the consistency of a linear dataflow.
4. Proofs: the counts of `Join` against the arrangement, and `TransitionsSucceed` and
   `JoinExact` from them, for payloads that do not cancel; the order of LSNs on
   `OperatorStage` for every kernel, and `PublishedRetractable`.
5. Several dataflows under one scheduler with a step that fails, and the drop of a
   dataflow while its stages run; validation of operator graphs in the planner.
