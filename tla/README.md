# Formal models of Engram's memory core

This directory is a verification development of Engram, the memory library under
`src/src/engram`. It holds TLA+ modules translated from the source, TLC
configurations that check them on small instances, and TLAPS proofs of the results
that matter most for every value of the constants. Paths below are relative to
`src/src/engram` unless they start with `tests/` or name a document.

`PROJECT.json` lists every component, every run, every mapped definition with its
source lines, the hazards, the mutants and the theorems.

## The system

Engram keeps an agent's memories. The append-only JSONL event log is the source of
truth; two SQLite databases, one of rows and metadata and one of vectors, are a
projection that can be rebuilt from it. The facade `Engram` is called from any number of threads, and
several processes may open the same directory.

| component | state it keeps | operations | talks to |
|---|---|---|---|
| Event log, `store/buffer.py` | one JSONL file, a lock file beside it | append, tail repair, truncate_before, redact_memory, clear, scan | flock, os.replace; every other component writes or scans it |
| SQLite projection, `store/memory.py` | rows with a state, metadata | upsert, update_state, mark_accessed, delete, purge_by_ttl, drop_all | one commit per statement |
| Vectors, `store/vector.py` | one vector per memory id | upsert, search, delete, drop_all | a database file of its own (`vectors.db`, engine.py:91-92), separate commits |
| Facade, `engine.py` | `_dedup_lock`, the stores | remember, capture, recall, forget, rebuild, snapshot, apply_retention_policy | all stores, pipeline, lifecycle cache |
| Consolidation, `consolidation/pipeline.py` | the cursor `last_consolidated_event_id`; a context per run | run: 17 stages in order, each may raise and is skipped | log, rows, vectors, providers |
| Lifecycle reducer, `consolidation/schema_lifecycle.py` | none (a fold) | reduce_events | the log's lifecycle events |
| Policies, `schema_decision.py`, `schema_family_decision.py` | none | decide, decide_with_family | evidence, reducer states |
| Snapshot cache, `lifecycle_projection.py` | offset, inode, head, snapshot, quorum | get, invalidate | the log's bytes, stat |
| Schema emission, stage SchemaUpdate | an index of summaries and a snapshot per run | create, promote, deprecate, recover, bump | reducer, log, rows |
| Clustering and sharing, `consolidation/schema_family*.py` | none | cluster, gate, siblings, decide_with_family | the prepass of SchemaUpdate |
| Retrieval, `retrieval/` | none that outlives a call | two index searches, fetch, fuse, filter, expansion | rows, vectors, cache, access policy |
| Affect, `affect/` and AffectAPI | temperament and mood in memory; the newest row of each in SQLite | trigger, set_temperament, reset_mood, drift, decay | rows of `affect_log`, log |
| Pins | a table | pin, unpin | log, retention |
| Access control, `security/acl.py` | grants | check, grant, revoke | facade, retrieval, the dedup check of remember |
| Firewall, encryption, audit, `security/`, `audit/` | a sliding window of timestamps; an audit file | validate, encrypt, record | facade |
| Providers, MCP server, CLI, evaluations | none of the protocol | | facade |

What makes it hard:

- **Interleaving.** The log's lock orders writers only; scans and the cache read the
  file bare. Only `remember` takes `_dedup_lock`: forget, recall's reconsolidation,
  every stage of the pipeline and replay write the same rows without it. The snapshot
  cache and the affect state have no lock at all.
- **Atomicity.** Nothing spans two statements: a row and its vector, the drop of rows
  and of metadata, a stored memory and the cursor are separate commits.
- **What a replay cannot know.** Rebuild gives memories new ids and reads affect events
  in a shape of its own; pins and affect rows are written before their event.
- **Stale reads.** Decay, reconsolidation and interference write whole rows they read
  earlier. The cache compares inode, size and head, not content.
- **Crashes and failed steps.** A torn line, a killed run, a stage that raises.
- **Order.** The log is in append order, its ids are in creation order up to the
  millisecond, the cursor compares ids.

What makes each component correct is stated by the properties in the next section.

## Modules

| module | models | its main abstraction |
|---|---|---|
| `EventLog` | what the log promises: events enter whole and at the end, expire, are never reordered | no files, no locks: a function from places to events |
| `BufferStore` | `JSONLBufferStore`, one action per lock, open, write, read or rename | a line is an event number or unreadable; an inode is an index into `files` |
| `BufferStoreProofs` | theorems about it, the scan without a lock and the refinement among them | |
| `Thresholds` | the counts that promote, deprecate and recover a schema, with the assumption `SchemaReducer`, `SchemaEmission` and `SchemaFamily` share | |
| `SchemaReducer` | `_apply`, `decide`, `decide_with_family` as operators | an evidence window is a model value; `Blank` is `""` |
| `SchemaLifecycle` | `reduce_events` over any log | one `Fold` per event |
| `SchemaLifecycleProofs` | theorems about both, and about `LifecycleCache` | |
| `SchemaEmission` | interference's conflicts, SchemaUpdate and persistence of overlapping runs, which write the events that `SchemaReducer` folds for them (quorum 1) and for recall (quorum k), while schemas leave the live states and come back | a pattern is a summary and a text; a run's window is its number |
| `Clustering` | `_cluster_by_jaccard`: union-find with path halving, one action per iteration | a schema is its rank, its features a set, the threshold a fraction |
| `SchemaFamily` | the prepass on top of it: both gates, siblings, `siblings_for`, the decisions of a batch | evidence is chosen |
| `SchemaUpdateProofs` | theorems about these two and about `SchemaEmission` | |
| `LifecycleCache` | `CachedLifecycleSnapshot` under two threads, one action per system call, beside the writers of the file | the file is a sequence of cells, a snapshot is the sequence of events it was folded from |
| `Consolidation` | the cursor, replay, dedup, extraction, interference and persistence of overlapping runs | contents are model values; a run is numbered; the events a run takes up are places of the log |
| `ConsolidationProofs` | theorems about it | |
| `MemoryStore` | remember, forget, recall, decay, suppression, supersession, merge and retention on the same rows and vectors, one action per statement, with and without access control | near-duplicate is equality of contents; which owners a writer may read is chosen anew by each dedup check |
| `MemoryStoreProofs` | theorems about it | |
| `Rebuild` | rebuild (full and incremental) and snapshot beside remember, hard forget, retention of rows and log, and calls that write whole rows back: the memories | a row is numbered and knows the event it was made from |
| `RebuildProofs` | theorems about it | |
| `Restore` | pins, temperament and mood: the calls that change them and persist them in steps, the same rebuild, restart | a level is on a scale `0 .. Top`, the mood its valence |
| `RestoreProofs` | theorems about it | |
| `Recall` | recall and the hybrid search below it, while others forget, delete, revive and write back, deprecate and recover, and change the grant | the BM25 order is a function of what is stored, a score is its ranks and a merit that outweighs them; a ranking is a function from memories to places, as `sources["bm25_rank"]` is |
| `RecallProofs` | theorems about it | |
| `MC*` | the instances | |

How state corresponds to code. In every module a variable `call[p]`, `run[r]`, `pc[p]`
or `scan[r]` is one call's program counter and local variables, and each step of it is
one point where another thread, another process, a failure or a crash can come in
between: a lock, a statement committed to SQLite, a system call. Everything a handler
does between two such points is one action. History variables (`acked`, `dropped`,
`missed`, `overlooked`, `forgotten`, `blurred`, `adrift`, ...) are written by actions,
read by no guard, and are described at the end of each module or where they are declared.
`Rebuild` and `Restore` model two projections of one rebuild that share no row; `Recall`
takes the snapshot that `LifecycleCache` maintains as a set, and what its last steps
write is in `MemoryStore`.

Operators whose name says what they leave out (`CanExcludeIgnoringAppenders`,
`MovedKeepingBallot`, `InvalidatedKeepingOffset`, ...) are not part of the specifications. They are
the plausible mistakes the properties are tested against: with the operator that
follows replaced by its mistaken form, the run named in `PROJECT.json` finds the
property violated.

## Runs

### buffer (`MCBufferStore`, `BufferStore.cfg`)

Two writers, one reader, two events, two rewrites, two faults (short writes, failed
repairs, kills); 1.0 million states. It shows

- `NoLostAppend`: no rewrite swallows an acknowledged append;
- `RewritesStick`: overlapping rewrites do not undo retention or redaction;
- `ScanComplete`: a scan without a lock returns every event that was acknowledged and
  readable when it opened the file, once;
- `ImplementsLog`: the store implements `EventLog` under the mapping
  log = the readable events of the current inode, acked = acknowledged events;
- `CallsReturn`: every call returns or its process dies.

Two writers are enough for every pair of overlapping calls, two rewrites for one to
undo the other, two faults for a fragment that meets a failed repair. The proofs lift
the safety part to any number, the refinement included.

`CallsReturn` assumes weak fairness of each writer's steps within a call (`FairSpec`):
the operating system runs a thread that can run. flock promises no order among
waiters, so there is no strong fairness on locks; the property holds because the
number of calls is bounded here, and would fail by plain starvation with unboundedly
many appenders. Starting a call, kills and reopens are not fair.

What the code does about a torn append is part of it: the repair of the handler takes the
lock anew after the append released it (buffer.py:134-139), so another append may come
first, fuse its line with the fragment and be acknowledged although no scan can read it.
`fused` holds those events: `NoLostAppend` excuses them and nothing else, and `EventLog`
has a step for them (`Fuse`), so that `ImplementsLog` says that this is all that a torn
append costs.

### schema (`MCSchemaLifecycle`, `SchemaLifecycle.cfg`)

Logs of up to ten events of any kind from three emitters, in three windows of which
one is the empty string, quorum 3. `QuorumReached` says that nobody suppresses a schema
alone, `BallotOpen` that votes of an earlier life are void, and `DecisionsAccepted` that
the reducer carries out whatever the policy decides in any state a log can lead to
(all three are proved for logs of any length).
`FreshRecovery` is invariant #5 as far as it holds: the window that condemned a schema
never redeems it. The documentation (schema_lifecycle.py:71-74) states it without
exception, but the reducer remembers the window in `last_window_id` only:
DEPRECATE(w1), BUMP_VERSION(w2), RECOVER(w1) is accepted, and so is any recovery from a
DEPRECATE without a window. The history variable `condemned` is None there. `Ledger` and
`Forward` are not checked here but proved. One schema suffices: the reducer never reads
another's state. Ten events are enough for a deprecation by quorum 3, a recovery, and a
second ballot with leftovers of the first.

### family (`MCSchemaFamily`, `SchemaFamily.cfg`)

Every batch of four schemas whose features are any of three tokens, four thresholds and
five configurations; 0.7 million states under the symmetry of the tokens.
`SingleLinkage`: the clusters are the chains of similar schemas. `BorrowsFromSimilar`:
under a contamination cap of zero nobody borrows evidence from a schema it is not similar
to. `MatesDecideAlike`: with the whole share, cluster-mates of one status are decided
alike, so no evidence counts twice. Four schemas are the fewest with a chain of three
links and with two clusters of two; the proofs lift
all three to any number of schemas, any features and any evidence.

### emission (`MCSchemaEmission`, `SchemaEmission.cfg`)

Two runs, overlapping or not, the first with an emitter identity and the second
without, and an index of one schema; patterns of two texts, each with or without
support; two deprecations from outside, one of them without a window; one failed append
or statement, kill, or cut of the log; thresholds 1, quorum 2 for recall; 0.9 million
states under the symmetry of the texts. Stored schemas leave the live states (decay,
suppression, forget, retention) and come back: a recall revives a faded one
(memory.py:416-426), a call that had read the row writes it back. A CONSTRAINT divides the
instance in two: one summary and two reports with votes and faults, outside votes or demoted
schemas, not both; or two summaries and three reports with neither, so that the second run
meets a schema beyond the limit of its index, which holds the 500 of highest salience
(pipeline.py:838). `NoTwin`: a pattern that comes up again is recognised, unless the runs
overlapped, or the run that made the second schema had not found the first, because that
was not live at the time or was beyond the limit (`missed`); the second schema is then a
live twin as soon as the first one is revived. `RowsMatchLog`: a stored schema is known to the
reducer and a logged one is stored, except for events that failed or were cut and runs
that died. `DecidedAtBirth`: what the first window decided is what both folds show,
whatever comes between. `HiddenIsRecoverable`: a schema that recall hides under quorum k
is deprecated under quorum 1 too, so that a run may recover it; the exception, found by
TLC, is a run that wrote to the schema before its deprecation and recovers it after:
under quorum 1 its window counts as fresh, for recall it is the last one.

Schemas of different summaries meet only where they take each other's place in the index,
so a second summary is needed for that alone. Two runs are enough for every overlap of two,
and two outside votes for a deprecation under quorum 2. The
proofs lift all four, and the types, to any number of summaries, runs, emitters, votes and
faults, any thresholds and any quorum.

### cache (`MCLifecycleCache`, `LifecycleCache.cfg`)

Two threads in one cache and two events, the second of lifecycle type, with two rewrites
(rotation, truncation in place, `invalidate`) that may recycle inode numbers, one fault
(a torn write or a failed stat) and three calls under either of two quorums; 10.0 million
states under the symmetry of threads and inodes. `NoRepeat`: no event is folded twice.
`FreshAnswer`: a call that no write disturbed answers like a full replay. Both are excused
where the cache has no means to notice, and only there: `missed` names the four blind
spots (among them an append between a rebuild's scan and its stat, which every later call
skips, lifecycle_projection.py:212), `crossed` says that two calls changed the cache at
once, which the docstring leaves to its callers although `Engram.recall` takes no lock.
`crossed` is reset when a call rebuilds alone: a rebuild heals the cache. Three calls are
a rebuild, an incremental read and a check on top of it, or two of them crossing. The
proofs lift all these bounds.

### consolidation (`MCConsolidation`, `Consolidation.cfg`)

Two events in three milliseconds, three runs of which two overlap, one failed stage or
kill; 2.6 million states. `LossExplained`: the cursor passes nothing whose content is
not stored, except events of a run that raised and ids its scan could not see.
`OneEpisode`: no event is consolidated twice, except in the three cases the property
names. `NewerFactStays`: a fact fades only for a newer one that is or will be stored.
The first is the test's "no data is lost" (tests/chaos/test_consolidation_kill.py:12-13)
with its exceptions: a stage that raises is skipped and the cursor moves past its events,
and an id that is smaller than the cursor when it is appended is never seen. Two events
are enough for one to pass the other, three runs for an overlap with a successor; the
proofs lift all three to any number of both.

### memory (`MCMemoryStore`, `MemoryStore.cfg`)

Two threads that call the application's operations and run the stages of a consolidation,
two memories, two contents, three calls, one fault, with and without write dedup and access
control; 9.5 million states under the symmetry of threads and contents.
`OneVectorPerContent`: write dedup lets one of two simultaneous duplicates in. Without
access control the one exception is a memory whose embedding failed. With it, remember
compares only with what the writer may read (memory.py:225-243, engine.py:243-251), in a pool
of 32: a neighbour of another owner, without a row, or beyond the pool does not count, and
two vectors of one content are then stored by design. `unseen` holds exactly those pairs. `ForgottenStays`: a forgotten memory comes back only through a write of a row
read before. `VectorsHaveRows`: hard delete leaves no vector behind except in the named
races (`purge_by_ttl`, which deletes rows only, is one). `MergeKeepsOne`: merge never takes
the last live copy, unless another call takes out or writes back the copy it left; larger
instances showed that two recalls are enough for that, each writing back what it read before
the other, and so are two merges at once, each suppressing the copy that the other one
keeps (four calls; without a fault 5.3 million states, run by hand). `LockIsReleased`: no
branch keeps `_dedup_lock`. The proofs lift all five to any number of threads and
memories.

### recall (`MCRecall`, `Recall.cfg`)

One recall over three memories of two agents and of none, from every combination of
configuration, grant, BM25 hits, vector order, merit and missing vectors, with one write
by others between its steps (a forget, a delete, a row or vector that comes back, a
deprecation, a recovery, a grant); 19.8 million states. `SameAnswer`: with access control the
answer is the ranking of what the caller may read, numbered anew as if there were no others.
It does not say that the others leave no trace: BM25 scores are computed over global corpus
statistics (retrieval/engine.py:435-439), so what is stored may turn the order of two readable
hits round, and in this instance it does; the property takes the order from BM25 as it stands.
`NothingHidden`: what was forgotten, deleted or deprecated when the call began, and not brought
back or recovered by others since, is not returned; if the lookup of the lifecycle fails,
the call passes deprecated schemas on purpose (retrieval/engine.py:493-495), and `lenient`
says so.
`TouchedReadable`: the call marks as accessed only what the caller could read during it.
`RespectsRanks`: a memory that both indexes rank better comes first. The properties name
what the code leaves open: the passes of query expansion are not given the filter on
readers, the pool of `limit * 5` hits is cut before that filter, and with a pool of 100 or
more, a limit of 20, a memory on rank 101 would score less than one that was not found.
Three memories are one more than the larger limit, so that one is cut, or one is invisible
between two others; one write is every single change at every point of the call. The proofs
lift all four to any number of memories, limits and writes.

### rebuild (`MCRebuild`, `Rebuild.cfg`)

Two callers that both rebuild, two log events, two rebuilds, one other call (a snapshot, a
retention that purges rows and then may cut the log, or a whole-row write) and one fault,
with and without dedup and access control; 11.9 million states. One such call is enough for
each of them to meet both rebuilds; the proofs allow any number.
`RebuildComplete`: a rebuild that reaches its end brings back each memory of the log,
except where its row was hard-deleted or purged by retention, behind a marker set too early,
or by a race with dedup. It also excepts what an incremental rebuild does not see when
retention has removed the event of its marker: such a rebuild looks for the marker in vain,
replays nothing and marks the end of the log (engine.py:995-999, 1067), although the
docstring says that it replays the events since the snapshot. `MarkerLost` names that case,
and only for the events behind the marker. Replay runs as the system and compares with the
memories of all owners, so with access control a memory may be represented by another
owner's (`HasRow` asks for one of the content). No lock keeps two rebuilds
apart, and what one has brought back the other may drop: the property speaks of rebuilds
that no other has `crossed`, also of those that come after crossed ones and find what these
left. `RebuiltOnce`: a rebuild makes no memory twice, crossed or not. The exceptions are
history variables. `overlooked` covers vectors that a rebuild leaves behind when retention
removed their events: such a vector has no row, and a replayed memory of the same content
is absorbed by it. `exposed` events are upserted beside a rebuild, by a remember or by
another rebuild, which checks and inserts without the lock of dedup. `revived` events have a
row that was gone and was written back whole, by reconsolidation at the end of a recall
(engine.py:1164), by decay (pipeline.py:1177) or by a conflict (pipeline.py:544): beside a
full rebuild that makes two rows. `unseen` ones were written beside a vector of their content
that access control hid from their remember. The drop of a full rebuild clears all three, but
for the upserts under way. The
proofs lift both properties to any number of events, callers, calls and rebuilds.

### rebuild_forgotten (`MCRebuild`, `RebuildForgotten.cfg`)

One caller, two events, one rebuild, nobody beside it and nothing that fails. The claim is
asked when no call is in progress, of the hard forgets in the log that name their row. The
counterexample is remember, forget by id, full rebuild: the row is inserted again under a new
id, the replayed FORGET_REQUEST names the old one, finds no row (engine.py:1022-1028), and the
memory is there when the rebuild has returned.

### restore (`MCRestore`, `Restore.cfg`)

An application and a job that also consolidates and rebuilds; one dimension with two
levels, one pin, two events, one fault, either stage switched on or off; 5.6 million
states. Whenever no call is in progress: `PinsLogged`, the table of pins is what the log
says; `TemperamentRestored` and `MoodRestored`, a restart would give back what is live.
The exceptions are history variables with one meaning each: `blurred` pins (two calls
about one, one during a rebuild, one that failed before its event, events that retention
removed), kinds that are `adrift` (calls that overlapped, a row that failed, a rebuild
whose newest event does not hold the state). Two events are a call and the one that a
rebuild replays wrongly or not at all; the proofs lift all three to any number of
callers, dimensions, pins and events.

### Disagreements between code and documentation

Each run here ends in a counterexample to the quoted sentence.

| run | sentence | what the code does |
|---|---|---|
| `emission_contradicted` | tests/unit/test_schema_contradiction_counting.py:3-8: with enough contradictions in its window a new schema ends in DEPRECATED | the contradicting facts are looked up in the store before persistence has put them there: the count is 0 |
| `rebuild_forgotten` | DESIGN.md:205 and 434: a hard-deleted memory is gone from all stores | replay gives it a new id and the replayed FORGET_REQUEST names the old one |

Where the code leaves a promise open and a passing run depends on it, the property names
the exception with a history variable, so that everything else is still checked: a torn
append (buffer), the scan and the stat of the cache (cache), a stage that raises
(consolidation), and those named above for memory, rebuild, recall and restore.

Met while modelling and not given a run, since a single line shows each:

- schema_family.py's docstring says that a threshold of 0 joins schemas with at least one
  shared property; the code joins any two that have a property each.
- `rebuild` replays AFFECT_OVERRIDE with the metadata as the row, whose dimensions are
  nested one level deeper: the next open finds none of them and takes 0.5 for each.
- `reset_mood` appends no event, so a rebuild brings back the mood before it.
- `AffectAPI.lock` says "Lock a temperament dimension from mutation"; `mutate` never asks.
- A rebuild between the deletion of a pin and its UNPIN event brings the pin back, for
  good if the event fails.
- Without a row of the mood, a restart derives it from the restored temperament, while the
  live mood stays what it was when the temperament was set.
- STATE_TRANSITION carries the new state as the old one (pipeline.py:1173).
- `purge_by_ttl` leaves the vectors of the rows it deletes.
- `rebuild` and `snapshot` speak of a replay of the events since the snapshot
  (engine.py:944-945, 957-958); once retention has removed the marked event, none is replayed.
- Two memories of one content that access control let two owners store are one row after a
  full rebuild, which compares with `acl_filter=None` (engine.py:1008).
- The index comment says a re-emitted pattern is recognised (pipeline.py:832-837); one whose
  schema was faded at that moment is created a second time, and a recall may revive the first.

## Proofs

The eight proof modules hold for all values of the constants that satisfy the named
assumptions (bounds are natural numbers, Quorum and thresholds are positive, None is not
a window, an emitter or a pin, shares and caps are fractions, presets are temperaments). Each proves that an inductive
invariant, `IInv` where it has no name of its own, holds of the specification, and reads
its theorems off it.

**Event log.** `Invariant` proves `Spec => []IInv` for any number of actors, events,
rewrites and faults; `TypeCorrect`, `AppendsSurviveRewrites` (`NoLostAppend`),
`RewritesCompose` (`RewritesStick`) and `LockExcludes` follow. `NoLostAppend` is not
inductive: one has to know that a rewriter's copy is still what it would read now. So
`IInv` adds

- `LockInv`: labels say who holds which lock, and an exclusive holder is alone;
- `CallInv`: an appender's descriptor is the current inode and a rewriter's chunks are
  the rewritten current file (both because the lock covers open to write, read to
  rename);
- `FreshInv`: an event under way is nowhere yet, and belongs to one call;
- `TailInv`: an unterminated tail holds nothing that was acknowledged.

One lemma per action shows that it preserves `IInv`; steps that touch neither files nor
history share `QuietStep`, and steps that write share lemmas about what one write does
to one file.

`ScansAreComplete` proves `ScanComplete` on top of that. `LinesInv` says that no inode
holds an event twice or one that is not born yet, and `ReadInv` that what an open scan
must return is either among what it has returned or ahead of it in the inode it reads:
appends only add ahead of it, and a rename leaves it on the inode it opened.

`StoreImplementsLog` proves `Spec => ImplementsLog`, each step of the store a step of
`EventLog` or a stutter. The mapping filters the current inode to its readable events and
keeps their places, so that a write at the end is a place added behind all others. What it
needs of the invariant is that an event under way is nowhere yet (so `Record` may take it),
that a torn tail holds nothing acknowledged (so it may lapse), and that the copy a
rewriter publishes is the current file filtered (so `Expire` removes what is old and a
redaction removes nothing).

**Lifecycle.** `Invariant` proves `TypeOK`, `Ledger` (the three counts agree with the
status), `QuorumReached` and `BallotOpen`
together with `CountInv` (dissenters are finite, so cardinalities add up, and an
unknown schema has no history), and `FreshRecovery` together with `WindowInv` (a
deprecated schema's last window is the one that condemned it, as long as `condemned`
says so). `LifecycleForward` proves the action property.
`ApplyCases` splits the reducer into its seven outcomes once for all proofs.
`DecisionsCarriedOut` proves `DecisionsAccepted`: whatever evidence, the event that the
policy decides on is one the reducer accepts in every state a log leads to.
`DecisionsLegal` proves that the policy only decides what the reducer accepts,
`DecisionsMonotone` that more evidence does not take a decision back,
`FamilyPolicyNeutral` that a family share of zero changes nothing.

**Snapshot cache.** `NothingFoldedTwice` and `AnswersAreFresh` prove `NoRepeat` and
`FreshAnswer` for any number of threads, events, files and rewrites. The lemmas about texts
come first: what is picked at a set of places is what is picked at the lower ones and then
at the upper ones (`PickedConcat`), so a text that is read in two parts, where the first
does not end within a line, folds to what it folds to at once (`FoldsSplit`). `CacheInv`
says that every event is in the file once (`FileInv`) and that nothing folded lies behind
the offset (`OnceInv`), which suffices for the first theorem, because a rotation never
moves an event back (`Later`). For the second it says what a cache that no call rebuilds
stands for: the fold of the file up to the offset, or nothing when the offset or the head
is empty (`SettledInv`), the one case in which a rewritten file passes the checks. Calls
carry the rest through their system calls: what stat told them is true of a file that only
grew (`SeenInv`), the bytes read continue the snapshot (`NewsInv`, `TailInv`), a rebuild
whose file has not changed since its scan holds all of it (`RebuildInv`). `crossed` and
`missed` stand in it as they stand in the properties.

**Clustering.** `ClustersAreChains` proves `SingleLinkage` of the loops as the code runs
them. `ClusterInv` gives every schema the least member of its class (a history variable) and
says that parents go down within a class and only the least has none (`ForestInv`), so
path halving and hanging the larger root below the smaller keep one tree per class; that
linked pairs the loops have passed are in one class (`CompleteInv`); and that one class is
one chain (`SoundInv`). A chain may have any length: it is a property of all sets closed
under links, so no induction is needed. `NobodyBorrowsThroughChains` proves
`BorrowsFromSimilar`: a cluster that passes the gate with a cap of zero has no pair that is
not similar, and siblings are members of one cluster. `MatesAreAlike` proves
`MatesDecideAlike`: what a schema counts is its own evidence and the sum over its mates, and
`TotalSplit` shows that this is the total of the cluster, whichever member is taken out
first. The sum of the community modules adds in an order of its own; the lemma is an
induction over the size of the set.

**Schema emission.** `EmissionInvariant` proves `Spec => []IInv` of overlapping runs, and the
five properties of run emission follow. Nine parts join `TypeOK`. The rows: runs that were
ever active together are recorded as overlapping (`OverlapInv`); a schema is in its maker's
index (`MakerInv`), and is stored or about to be unless its maker died (`MadeInv`); what is
stored and not in a run's index was stored by a run beside it, has a namesake there, or was
not found (`IndexInv`); so two schemas for one pattern have makers that overlapped, or one
that missed the other (`TwinInv`, which speaks of all that have been stored or may yet be,
whether they are live or not, since any of them may be revived). Facts of a conflict belong to runs past their
persistence (`ConflictInv`). The log: what a run has queued is what is missing of a birth
(`QueueInv`); a schema without CREATE is one whose append is to come, failed or was cut
(`BornInv`); promotions are first events, after the CREATE and once (`PromotedInv`). One
`Effect` lemma per action says what it does to each variable, and the parts are proved from
those. The reducer's states along a log are a recursive function (`States`), so that lemmas
about them (`StatesPromoted`, `StatesHidden`) are inductions along the log.
`DecidedAtBirth` follows under either quorum, and `HiddenIsRecoverable` because a
deprecation that the quorum of recall accepts is accepted under quorum 1 as well: the two
statuses come apart only when one takes a RECOVER that the other finds stale, because a vote
below the quorum does not move the last window.

Natural numbers come without a usable induction theorem (those of the library take an
operator): `Upward` and `LeastOf` get it from the well-foundedness of strict inclusion among
finite sets, and the inductions of this module are instances of them.

**Rows and vectors.** `DedupHolds`, `ForgettingLasts`, `DeletesReachVectors` and
`LockReleased` prove `OneVectorPerContent`, `ForgottenStays`, `VectorsHaveRows` and
`LockIsReleased` for any number of threads, memories and faults. None is inductive alone.
`ControlInv` says what each call knows where it stands, `LockInv` that with dedup on a
remember holds the lock from its check to its return, `DedupInv` that what the check found
stays true until the vector is written (no vector of its content but those it noted as not
compared), `BirthInv` that nobody has seen a memory that has
no row yet. `MergingKeepsOne` proves `MergeKeepsOne` for any number of merges at once. Its
invariant `Merging` says that what a merge has not suppressed itself remains, and that the
loser it is about to suppress has a copy that does. A copy that a second merge takes from
under the first remains in the sense of the history variable `demoted`, and only while the
first counts on it (`CountsOn`); the lemma `CountedRemains` is that no more is needed.

**Pins, temperament, mood.** `PinsAgree`, `TemperamentComesBack` and `MoodComesBack` prove
the three properties of run restore, with rebuilds that overlap each other and every call.
They speak of moments without a call in progress; the invariant says what holds at every
other moment, that whoever will repair a difference is still there: a pin is as the log
has it, or a call holds it, or a rebuild has yet to empty the table or to replay an event
about it (`PinInv`); a row is right, or somebody is about to write it, or a rebuild has
yet to replay an event of its kind or has emptied the table (`RowInv`); the newest event
of a kind is its newest row or awaited (`EventInv`); a call that is alone persists what is
live (`AloneInv`). `Control` says what a call holds where it stands.

**Rebuild.** `RebuildsLoseNothing` and `RebuildsMakeOne` prove `RebuildComplete` and
`RebuiltOnce`, for any number of callers, rebuilders, events, snapshots, retentions,
whole-row writes and faults. `IInv` has three parts. `Control` holds the types, what each call knows where it
stands, the lock of dedup, that a replayed forget names no row, and that rebuilds which no
other has crossed are one (`LoneInv`). `CompleteInv` accounts for every memory of the log:
an upsert beside somebody else's rebuild is exposed (`ExposedInv`); what the marker passes
is covered (`MarkInv`), also behind a rebuild that overlapped others, so what a lone rebuild
starts from is (`SinceInv`), and so is what a leftover vector may absorb (`VectorInv`,
`EmbedInv`) and what a lone scan has passed (`ScanInv`); what it will not see settles
without it (`LateInv`). Rows that forget, retention or a replayed request take away are
`Lost` (what `gone` and `purged` name); a scan that has not met its marker is still before it,
or retention had removed it when the scan opened (`Control`). `OnceInv` says that an event the
replay has yet to reach has no row made by it (`SeenInv`, `CheckedInv`, `DedupInv`, `FullInv`)
unless it has `Raced` (is exposed, unseen or revived), and needs no lone rebuild: a row that
another rebuild makes meanwhile is exposed.

**Consolidation.** `NothingLostUnexplained`, `EpisodesAreSingle` and `FadedFactsAreReplaced`
prove `LossExplained`, `OneEpisode` and `NewerFactStays` for any number of runs, overlapping
as they like, and of events, contents and faults. Nothing of the three is inductive. `IInv`
says that a run's events stand for all it saw after its cursor (`Covers`: dedup drops an
event only for another of its content), that a run that did not raise has each episode
stored or at hand (`Complete`), and that every id up to any run's cursor, not only the
stored one, is accounted for (`CursorInv`: a slow run moves the cursor back to where it has
been). `OrderInv` orders a run that is alone against all others, and `PassedInv` says that
what it consolidated stays behind the cursor every later run reads; `FoundInv` that a fact
that interference found is older than one of the run's own.

**Recall.** `OthersDoNotCount`, `HiddenStaysHidden`, `OnlyReadableIsTouched` and
`RanksAreRespected` prove `SameAnswer`, `NothingHidden`, `TouchedReadable` and
`RespectsRanks` for any number of memories, limits and writes by others. A ranking numbers
a set by a key (`Numbered`); the lemmas say that numbering again after the filter gives what
numbering the filtered set would have given (`NumberedAgain`), that results are totally
ordered by score and then by how they were found (`BeforeOrder`), and that sorting follows
that order (`SortedRanks`). The invariant carries along the call what the indexes answered
(`SameInv`), that nothing hidden becomes a candidate, and nothing condemned a result unless
the fusion was lenient (`HiddenInv`),
and that rankings made from the results keep their order (`OrderInv`).

Every safety property that a passing run checks is stated by a theorem, and so is the
refinement `ImplementsLog`, for every value of the constants that the modules' own ASSUMEs
allow.
Model-checked only is the liveness property `CallsReturn`: liveness under fairness is out of
the proof system's reach here. Consolidation, Recall, SchemaFamily and Rebuild state no type
invariant for their runs: their properties fail to evaluate on values of another kind, and
the proofs state one.

## Not modelled

Floating-point arithmetic (the terms of a score beside its ranks, decay curves, the
calibration tables of `sharing_regime.py` and `calibration.py`), text matching (firewall
patterns, tokenizers, extraction, the type classifier), cryptography, the audit file,
providers, the command line, the MCP
server, and the research harness under `evals/`, `bench/` and `scripts/`. Where such
code decides something the models need (two contents are close, an LLM found a fact),
the models choose it or take it as a constant. The rate limiter of the firewall is a list
that threads rebind without a lock; a property of it would say no more than that. Besides
the checks of recall and the one inside the dedup check of remember (memory.py:225-243), both
modelled, checks of permissions are single guards at the start of an operation.
Relations, typed properties, active emotions, arousal and somatic marks are stored and
read back without a protocol. `export_*`, `trace`, provenance, `active_context` and
`recall_with_filters` only read; `import_from` is a loop over `upsert` or `remember`. Of the
38 thousand lines of Python in the repository the library is 11 thousand, and the mapped
definitions stand for 3.5 thousand of these; the rest is the harness and the parts named
here. Windows, where flock is missing, is not modelled.
`PROJECT.json` gives the reason per component.

## Plan

What is left, most important first:

1. Soft forgets and state transitions in `Rebuild`.
2. Export and import, and the second engine of a federated recall.
3. The event log and consolidation as one composition, with scans over a file that
   retention replaces.
