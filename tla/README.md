# A TLA+ model of the parquet NFS cache

TLA+ modules that model the cache of this repository (`nfscache/`), TLC
configurations that check them on small instances, and TLAPS proofs of the
properties that matter most. Line numbers are those of the source files; where
no file is named they are lines of `nfscache/nfs_cache.py`.

Check a run with `tlc -workers 2 -config <run>.cfg <module>.tla`, the proofs with
`tlapm <module>Proofs.tla`.

## The system

Many processes on many hosts share a directory on NFS. A cache key has a parquet
file, a metadata sidecar that commits it, and a lock directory. A call reads the
source's version, takes the read lock, validates the entry against that version
and returns it; on a miss it takes the write lock, validates again, loads until
the version is the same before and after, writes part files, replaces the parquet
file and then the sidecar.

| Component | State | Operations | Hard behaviour |
| --- | --- | --- | --- |
| Read/write lock of a key (293-582) | `readers/<token>/lock.json`, `writer/lock.json`, one heartbeat thread per lease | acquire and release either lock, scan readers, break stale tokens, remove with retries | every call of every client interleaves; crashes, I/O errors, late heartbeats; check-then-remove by path |
| Cache entry and calls (75-291, 587-783, 915-1035) | the two files, each call's part files and locals, exported files | cached call, streaming call, validate, load, commit, clean up, export | the source changes meanwhile; failures and crashes between two steps; files replaced while they are read; damaged files |
| SQL source version (40-47, 897-913) | none; reads an Oracle table | `COUNT(*)` and `MAX(ORA_ROWSCN)` as the version | which changes the token misses |
| Oracle writers (`database/oracle_write*.py`, `util/swarm_sql.py`) | the table | drop, create, insert, commit; delete and insert in one transaction | several commits per rewrite |
| Connection pool (`database/oracle_pool.py`) | `_pools`, `_lock` of each process | `get_pool`, the factory | double-checked creation, forks, connections that are held while more are wanted |
| Streaming loader (`database/oracle_streaming.py` 211-270, `util/swarm_stream.py` 27-82) | its part file, an open writer, a cursor | query, fetch in batches, write, close, replace | failure half way, interrupts, a table that changes meanwhile |
| Generator (`util/generate_parquets.py`) | a part file | write, replace | several processes on one path |
| Oracle reader (`database/oracle_read.py`) | none | query, fetch all | |
| Keys, paths and argument lookup (810-895, 1047-1067, 1089-1107) | none | pure functions | statements that look alike, joins, arguments by position |
| Oracle to Arrow types (`oracle_streaming.py` 24-208) | none | pure functions | precision boundaries |
| Swarms, demo, settings, containers | none of the cache | drivers | none of their own |

The components meet in four places. The calls use the lock through acquire and
release only. The heartbeat shares nothing with its client but a path. The
version function is a callback into the source. `connect_factory` connects the
version function, and usually the load, with the pool.

### What makes each part correct

- Lock: a writer is alone; a reader's token lives as long as its section; only
  tokens of the dead are broken; a writer whose intent stands gets in, readers get
  in after the last writer, nothing left behind blocks anyone for ever.
- Entry: bytes that pass validation are the content of the version they are
  stored under; a call returns content the source had during the call; no way out of
  a call keeps the lock, and none but a kill, an interrupt or a removal that fails leaves a part file; clients that missed together load once.
- Version token: equal tokens mean equal rows; a stored entry is what the table
  held at its token.
- Streams: an output file is whole or not there; no part file outlives its call; a number of a
  declared type arrives as it is.
- Keys: a call gets the answer of its own statement and columns, as new as the table
  its version is taken of; spellings of one statement share an entry.
- Pool: one per process, never another process's, every connection comes back,
  and never does everyone wait for everyone.

## The modules

| Module | Models | Composition |
| --- | --- | --- |
| `RWLock` | what the lock of a key promises | abstract |
| `MkdirLock` | the lock protocol, one action per file-system call | `RW == INSTANCE RWLock`; implements it for one writer |
| `CachedSource` | what a key promises its callers | abstract |
| `CacheEntry` | calls, validation, load, commit, export on one key | EXTENDS `RWLock`: each lock operation is a step of it; `Promised == INSTANCE CachedSource` |
| `OracleSource` | the SQL version token and the table's writers | says when a table is the source `CacheEntry` assumes |
| `OraclePool` | the pool and the calls that borrow from it | |
| `AtomicFile` | files that change from whole to whole | abstract |
| `ArrowTypes` | column types and the conversion of values | no state |
| `ParquetStream` | the streaming loader and the generator | EXTENDS `ArrowTypes`; `AF == INSTANCE AtomicFile` |
| `SqlCalls` | which entry a SQL call finds, and its version | sequential: a call is one step, which `CacheEntry` takes apart |
| `MC*` | constants of the instances | |
| `*Proofs` | theorems and proofs | EXTEND the module they are about |
| `EntryLockProofs`, `EntryFreshProofs` | how the calls use the lock; what that is worth, up to the promise of `CachedSource` | EXTEND `CacheEntryProofs` one after the other |

### MkdirLock

`owner` says which token directories exist and whose `mkdir` made each, `meta`
which hold a `lock.json`, `age` when each was last touched (the mtime `_is_stale_lock`
reads). `hb` is the path each client's heartbeat thread writes to. The
removal of a token is a subroutine of three steps (`Unlink`, `Rmdir`, `Gone`)
with a target, a place to continue at and a number of retries: breaking is one
removal, releasing is the loop of `_remove_lock_dir_resilient`. `todo` and `found` are the
local variables of `_has_readers`.

| Actions | Code |
| --- | --- |
| `R_Start` to `R_Recheck`, `R_MkdirFails`, `R_MetaFails`, `R_RecheckFails` | `_acquire_read_lock` |
| `W_Start` to `W_Looked`, `W_IoFails`, `W_ScanFails` | `_acquire_write_lock`, `_has_readers` |
| `R_Release`, `W_Release`, `Gone` | `_release_*`, `_remove_lock_dir_resilient` |
| `Unlink`, `Rmdir`, `UnlinkFails`, `RmdirFails` | `_remove_lock_dir` |
| `Beat`, `BeatFails` | `_heartbeat_lock` |
| `Tick`, `Crash` | time and the end of a process |
| `Interrupted`, the "late" branch of `StopHeartbeat` | exceptions that are no `Exception`; a join that gives up after 5 s |

Time. A token's age is a counter that a write resets and `Tick` increments up to `StaleAge + 1`.
The parameters are those of `__init__` (60-69), in ticks: `StaleAge`, `GivenAge` or the default
`DefaultHeartbeat` of `PollAge` and `CapAge`. `Tick` lets no heartbeat be later than
`HeartbeatAge` and no client take longer than `StepAge` between its mkdir and its heartbeat, or its
heartbeat's stop and its rmdir. The clients in `Ahead` have a clock that is `Skew` ticks ahead of the
file server's, and see tokens as that much older. With `HeartbeatAge > StaleAge` a run has
heartbeats as late as can be.

Abstractions. A reader has one token name, its own: the name is unique per acquisition, so the
difference is an acquisition that meets a token the same client left in an
earlier one; `ReleasedLeavesNoToken` and `FaultsAssumption` (no more failures
than retries) keep it from arising, so the branch of `R_Mkdir` for a token that exists is
reached in no run. For the same reason `R_Start` forgets a late write to the last
name. `lock.json` and its `.tmp` file are one step, and
the unlinking of the files of a directory too; a heartbeat that writes between `Unlink` and
`Rmdir`, also one that outlived its join, is a step of its own, so the race the comment at 393-396
describes is there.

Errors of the file system, other than those of mkdir and `lock.json`: a file that stays in its directory (`UnlinkFails`, 575), a
directory that stays (`RmdirFails`), a directory that cannot be listed (`UnlinkFails`, out of the call; `W_ScanFails`, which also covers
the looking at tokens one by one, 370-376), and a second look for the intent that raises (`R_RecheckFails`, 340). The last leaves a token
with a live heartbeat: writers wait for it as long as that process lives. `WriterGetsIn` is checked with crashes only.

### RWLock

Four variables: who reads, who writes, whose intent is announced, who crashed. The intent goes by
its owner's hand or, if the owner is dead, by `AbsBreak`. The refinement maps the
intent to the owner of the directory `writer/`.

### CacheEntry

A number stands for a source's content, its version token and the bytes made from it
together: `parquet` is what the file holds, `meta` the sidecar's kind, version and
checksum. `part`, `metaPart` and `output` belong to the clients. `pc` runs through
`_run_cached`; clients in `Streamers` take the paths of `_run_cached_parquet`
(`sql` and `sql_parquet` of the same SQL share the key) and export afterwards.
Validation reads the files in three steps (sidecar, hash, data) because the file can be
replaced between them. `started`, `lost` and `calls` exist for the properties
and bounds.

A call that raises has the outcome "failed", or "left" where its part files may stay: it was interrupted, or a removal
raised too, and then the second file is not tried (`_remove_file` ignores `FileNotFoundError` only). `part` and `metaPart` are the files under
the names of the client's last call: names are unique (`_part_path`), so `Call` begins with none, and what an earlier call left is
on the share for ever, where nobody looks at it. The two blocks that may clean up one behind the other (702 and 214) are one `Cleanup`.

| Actions | Code |
| --- | --- |
| `Call`, `ReadVersion`, `LockRead`, `Unlock`, `Announce`, `LockWrite`, `Retract` | 157-218, 220-291 |
| `CheckMeta`, `CheckHash`, `ReadParquet` | 587-647, 915-1035 |
| `VersionBefore`, `Load`, `VersionAfter` | 649-661, 261-285 |
| `WritePart`, `WriteMetadata`, `ReplaceParquet`, `ReplaceMeta` | 663-735, 747-783 |
| `LoadFails`, `RetryFails`, `StoreFails`, `Cleanup`, `CleanupFails` | 213-216, 284-289, 701-704, 732-735, 1116-1121 |
| `CopyParquet`, `Export`, `ExportFails` | 737-745 |
| `EntryInterrupted` | 182-218, 245-291: the `finally` blocks run, the `except Exception` blocks do not, so the part files stay |
| `EntryCrash`, `LoseLock`, `BreakIntent`, `SourceChanges`, `Damage` | the environment |

The locks are those `RWLock` promises, for any number of writers. `MkdirLock`
keeps that promise for one writer only (below), so the fault `lock` takes a
client's lock away while it goes on: what is proved or checked with it does not
rest on the promise (`EntryHonest`), the other properties exempt behaviours with a lost lock.

### CachedSource

What is left of a cached call for its caller: it begins, and ends with content the source had since, or by raising. There
is at most one stored content, and it is replaced by newer content only, by a call that has seen it. A streamed answer may
also be a file that was damaged on the share, since the export copies without looking (737-745). `CacheEntry` maps `stored` to the
bytes of the entry while they validate for some version, `phase` to `pc`, `since` to `started` and `answer` to what was
returned. The replacing of the parquet file invalidates the entry, or stores the content if the sidecar is of it already, as where a
file was damaged under its sidecar; the replacing of the sidecar stores it otherwise. All else a call does is a stutter.

### OracleSource

The table is a set of places with rows. A row is the SCN its values were written at
and the SCN `ORA_ROWSCN` reports, which is larger when a neighbour in its block
was written later. `DropTable`, `CreateTable`, `InsertRows` are the commits of
`oracle_write.py`; `Transaction` is any other, e.g. `write_table_generation`. A query
sees what was committed when it started, the fetches of all its batches
included, as Oracle guarantees. Sessions do not exclude one another: what holds,
holds with any lock. When `shrunk` is false and the
table has rows, a token never comes back (`TokensDoNotReturn`), which is `Revert = FALSE` of
`CacheEntry`.

### OraclePool

Threads of several processes call the cached query; each needs a connection for the
probe before the locks and, with the key's write lock held, for the probes and the load.
Threads in `Outer` hold one more around the call, as README.md:62-67 shows. `pools` and `mutex`
are each process's `_pools` and `_lock`; `Fork` copies both. `OuterAssumption`
says that callers leave the pool a connection: `MaxSize` callers that each hold one around
a cached call wait for ever, and nothing in the code prevents it. `CleanForks`
says nobody forks while a thread is in `get_pool`'s lock; otherwise the child inherits a
held lock. The theorems do without it, progress does not. The read lock is left out, no connection is
needed under it.

### ParquetStream, ArrowTypes and AtomicFile

A result is the sequence of its rows, with one value in each; a file is the rows in it and whether it has its
footer. `Execute` takes the table as it is as the cursor's snapshot, `Fetch` is one turn of the loop. The path a stream
gets belongs to it alone, as `_part_path` makes it; the generators share one. A call ends as
`done` or `failed` when its handlers ran, and as `left` or `dead` when they did not: an interrupt is no `Exception`,
the generator's `finally` runs on one.

`Declared` columns have a precision, and a fraction only with `fetch_decimals`; the others, unconstrained NUMBERs among them, are doubles (int64 where the
scale is 0) by design, and `NumbersArrive` says nothing of them.
`ArrowTypes` has a number as its digits before and after the point, which is what a conversion tells apart, and the
Python type the driver returns it as. What the driver returns and `pa.array` takes is modelled from its use here: int64
holds each whole number of 18 digits, a double each of 15, an int that a double cannot hold raises, a
`Decimal` is rounded.

`AtomicFile` is what both promise: a file is only ever replaced by one that was whole when the call promised it.

### SqlCalls

A text is a sequence of words, blanks, quotes and semicolons: `Normalize`, `TableFrom` and the lookups of
arguments are those of the code on such texts. `Words` is what the text means to Oracle. A call has the
parameters and arguments of a decorated function, and names the ones its body uses. Fingerprints either are all
different or, with `collide`, all the same. A function that writes elsewhere than to the path it was given leaves no part
file to describe (717), and its call raises. Arguments that `bind_partial` refuses (832-835) are left out: they are no call of the function. An entry's content says which statement, columns and rows it was made of, so
that an answer can be compared with what the call asked for.

## The runs

| Run | Checks | Result |
| --- | --- | --- |
| `lock_one_writer` | `WriterExcludesOthers`, `ReadersKeepTokens`, `BreaksSpareTheLiving`, `WriterGetsIn`, `ReaderGetsIn`, `ImplementsRWLock`: a writer that also reads, two readers, two crashes | holds |
| `lock_any_fault` | `TypeOK`, `IntactExclusion`, `ScanCovers`, `ReleasedLeavesNoToken`, `OrphanIntentGoes`: two writers, a reader, one fault of any kind, a heartbeat longer than the stale age | holds |
| `lock_release_steals` | `WriterExcludesOthers` with two writers and no fault | violated |
| `lock_break_race` | `BreaksSpareTheLiving` with two writers and a crash | violated |
| `lock_interrupted` | `ReaderGetsIn` with an interrupt | violated |
| `entry` | `EntryTypeOK`, `EntryHonest`, `ReturnedIsFresh`, `NoLitter`, `ValidEntriesAreKept`, `CallsKeepToTheLock`, `CallsSeeTheSource`, `SomeCallGoesOn`, `CallsEnd` | holds |
| `source` | `SourceTypeOK`, `SameTokenSameRows`, `AnswersMatchVersion`, `TokensDoNotReturn` | holds |
| `source_rewritten` | `LoadsAreStable` | violated |
| `pool` | `OnePoolPerProcess`, `OwnPoolsOnly`, `NothingKept`, `SomeThreadGoesOn`, `SomeoneReturns` | holds |
| `stream` | `PartsGone`, `NumbersArrive`, `StreamsDeliver`, `ImplementsAtomicFile`, `StreamsEnd`: a stream, two generators, one fault | holds |
| `calls` | `AnswersAreRight`, `FirstTableIsFresh`, `StatementsStayApart`, `SpellingsShare` | holds |
| `calls_readme_example` | `ExampleIsAnswered` | violated |

### What the violated runs show

- `lock_release_steals`: the release of writer 1 removes `writer/`; writer 2 makes its own before
  `lock_path.exists()` (399); the loop removes that one. Then writer 1, a reader or a third
  writer gets in beside writer 2. No fault and no late heartbeat is needed, only a second
  writer that polls in that window.
- `lock_break_race`: two clients find an intent stale; the second removes by name what
  the first has already replaced (537-543).
- `lock_interrupted`: a KeyboardInterrupt while a writer waits for readers passes the
  `except Exception` at 374. The intent stays and its heartbeat goes on, so it never becomes stale while the process lives. (One during the
  release also leaves the directory, but the heartbeat was told to stop (413): after one late write at the most the intent becomes stale and is broken.)
- `source_rewritten`: equal versions before and after a load do not mean
  that nothing changed. Table tokens come back when an empty table is dropped and created again. (File hashes do when a file is
  generated again with its seed: `EntryHonest` fails with `Revert = TRUE`.)
- `calls_readme_example`: README.md:56-57 decorates a function of `sql`, `filename` and `connection`; the path argument is only
  found under the names `parquet_path` and `output_path` (818), so the call raises `TypeError`.

What the exceptions stated in the properties of `calls` stand for: columns that are passed by position are not in the key (108);
literals that differ in their blanks are one statement (812); a semicolon behind a blank makes two entries' texts of one key, which
then replace each other; a version says nothing of any table but the first after FROM, which may be a word of `extract(year from x)` or a
quoted name without its quotes (46, 879). Two facts of the entry are not properties of a run: the export copies after the lock was
released (152), so it may be of a later version than the one validated (`ReturnedIsFresh` allows versions of the time of the call), and a
sidecar that is not UTF-8 makes every call raise (935) until it is removed (`CallsEnd` counts that as an end).

Two instances of `WriterExcludesOthers` belong together: with one
writer it is proved, with two it is refuted. What is left with any number of writers and any
fault is `IntactExclusion`: exclusion is lost only after a token was lost.

### Bounds, and why they are enough

- `StaleAge = 1`, and 2 with `HeartbeatAge`, `StepAge` and `Skew` of 1 in `lock_one_writer`, the border of `OnlyCrashes`: ages distinguish fresh, old and stale; the protocol compares with one threshold.
- `Retries = 1`: a removal that is retried and one that is not both occur; the code retries five times. The proofs have any number.
- `MaxFaults`: 2 in `lock_one_writer` (a reader and a writer, or two readers crash), 1 in `lock_any_fault`, 1 in `entry`,
  2 in `pool`, 1 in `stream`. Removals that fail behind another failure (`CleanupFails`) do not count. Each action that can fail, fails in some behaviour.
- Clients: a reader needs a writer and a breaker to lose its token; two writers and a reader are the least that
  show the violated properties. `entry` has one client of each kind with two calls, so that each finds the other's entry,
  an own one, none, or a damaged one.
- `MaxSource = 2`: a change before and a change during the load.
- `OracleSource`: two places (a block shared or not), three commits, two column lists. `source` is symmetric in places and sessions,
  and checks no liveness.
- `ParquetStream`: results of up to two rows in batches of one (none, one, two turns of the loop; batches of more rows differ only in what
  `NextBatch` holds, which the proofs cover), columns on either side of int64 and decimal128, unconstrained, and none at all; one change of the table.
- `SqlCalls`: fourteen calls in pairs that are alike but for one thing, two entries at a time, two states of each of three tables.
- `OraclePool`: `MaxSize = 2` with one connection held outside leaves one, so that acquire waits.

`CHECK_DEADLOCK FALSE` appears in the runs of `CacheEntry` and `ParquetStream`, where calls are bounded by `MaxCalls`: the system really stops.

### Fairness

- `MkdirLock`: each client takes its next step, sections end (the callers' work is finite), heartbeat threads run and time
  passes. Nobody has to start an acquisition, no fault has to happen. All of it is weak fairness; the polling loops have no
  turn to lose, they find the directory gone or stale at some iteration because it stays so in the properties checked.
  `WriterGetsIn` starts where the intent stands, since nothing orders the writers that
  compete for it, and `ReaderGetsIn` where no writer comes any more.
- `CacheEntry`: each call takes its next step, and the intent of a crashed client is broken in the end, which is what
  `OrphanIntentGoes` and `ReaderGetsIn` show of the lock. Load retries end because `MaxSource` bounds the changes: with a source that
  never rests the code's loop does not end either.
- `ParquetStream`: a call that runs takes its next step; nobody has to call. The loop ends because a cursor's rows are those of its statement.
- `OraclePool`: threads take their next steps; nobody has to begin a call, and the retries count as faults.

## The proofs

| Theorem | Statement | Assumes |
| --- | --- | --- |
| `TypeCorrect` | `[]TypeOK` | |
| `DefaultHeartbeatInTime` | `DefaultHeartbeat <= StaleAge <=> PollAge <= StaleAge` | |
| `ExclusionWhileIntact`, `ScansCover` | `[]IntactExclusion`, `[]ScanCovers` | |
| `ReleasesLeaveNothing` | `[]ReleasedLeavesNoToken` | |
| `TokensAreKept` | `[]ReadersKeepTokens` | `OnlyCrashes` |
| `OneWriterExcludes` | `[]WriterExcludesOthers` | `OnlyCrashes`, `OneWriter` |
| `OnlyTheDeadAreBroken` | `BreaksSpareTheLiving` | `OnlyCrashes`, `OneWriter` |
| `OneWriterImplementsRWLock` | `ImplementsRWLock` | `OnlyCrashes`, `OneWriter` |
| `EntryTypeCorrect` | `[]EntryTypeOK` | |
| `EntriesAreHonest` | `[]EntryHonest` | `~Revert` |
| `CallsLeaveNoLitter` | `[]NoLitter` | |
| `CallsUseTheLock` | `[]CallsKeepToTheLock` | |
| `EntryImplementsRWLock` | `AbsSpec` of `RWLock` | `"lock" \notin EntryFaults` |
| `CallsNeverAllWait` | `[]SomeCallGoesOn` | |
| `AnswersAreFresh` | `[]ReturnedIsFresh` | `~Revert` |
| `NobodyLoadsTwice` | `ValidEntriesAreKept` | `~Revert` |
| `CallsAreAnsweredFromTheSource` | `CallsSeeTheSource` | `~Revert` |
| `EntryImplementsCachedSource` | `PromiseSpec` of `CachedSource` | `~Revert`, `"lock" \notin EntryFaults` |
| `SourceTypeCorrect` | `[]SourceTypeOK` | |
| `TokensNameRows` | `[]SameTokenSameRows` | |
| `AnswersAreOfTheirVersion` | `[]AnswersMatchVersion` | |
| `TokensAreNeverReused` | `TokensDoNotReturn` | |
| `OnePool`, `OwnPools`, `EverythingIsGivenBack` | `[]OnePoolPerProcess`, `[]OwnPoolsOnly`, `[]NothingKept` | |
| `ThreadsNeverAllWait` | `[]SomeThreadGoesOn` | `CleanForks` |
| `StreamTypeCorrect`, `PartsGoAlways` | `[]StreamTypeOK`, `[]PartsGone` | |
| `FilesAreAtomic` | `ImplementsAtomicFile` | |
| `StreamsAreLoads` | `[]StreamsDeliver` | |
| `DeclaredIsExact`, `NumbersAlwaysArrive` | a declared column converts exactly; `[]NumbersArrive` | |
| `AnswersAreAlwaysRight`, `FirstTablesAreFresh` | `[]AnswersAreRight`, `[]FirstTableIsFresh` | |
| `NoOtherStatement` | `[]StatementsStayApart` | every call is `Plain`, its text a sequence |
| `SpellingsAreShared` | `[]SpellingsShare` | the same, and texts with the same words have blanks between the same of them |
| `PlainCallsAreAnswered` | `[]EveryAnswerIsRight`: `AnswersAreRight` without its condition on other calls | every call is `Plain`, names its columns and has no blanks in literals; fingerprints differ |

They hold for all values of the constants under the named assumptions of the modules.
`OnlyCrashes` is `HeartbeatAge + Skew <= StaleAge`, the same of `StepAge`, and no fault but crashes: an I/O error lets a token go unheard of, a
late heartbeat or a clock that is further ahead lets a live one be broken, and the properties fail then. `OneWriter` is needed because of
`lock_release_steals`. `~Revert` says a version never comes back, as `TokensAreNeverReused` proves of a table that has rows, until a transaction only removes some.
`EntryImplementsRWLock` and `EntryImplementsCachedSource` leave out the fault that breaks the lock's promise, and the other theorems about `CacheEntry` have every fault, the
properties exempting what happens after a lock was lost. `CleanForks` is needed because of oracle_pool.py:40; `OuterAssumption` is an assumption of the
module. `Plain` says that the function runs the text the cache looks up and that the text closes its literals: `x '` and `x ' ;` would
share an entry. The last assumption is there because `a=1` and `a = 1` are the same words to Oracle and two texts to the cache, which loads
each; inside literals it follows from the words. `MCSqlCalls` has TLC check
both assumptions of the calls of its runs.

The arguments:

- Exclusion. `IntactExclusion` is not inductive. What carries it is `ScanCovers`: from the listing to the answer,
  each reader that is in with its token is still to be looked at or was seen. A reader gets in only if it found no intent after making its token, so
  while the writer's intent stands none is added.
- Tokens. `TokenInv` says who may be removing a reader's token: its reader, or, if it is dead, anyone. A tick never makes
  a kept token stale, so the look that starts a breaking finds a dead owner, and the dead stay dead.
- One writer. `IntentInv` says the directory `writer/` is the one writer's own from its mkdir to its release, and whoever else is removing it
  found it stale when the writer was dead.
- Refinement. `LockInv`, all of the above, makes each step of the protocol a step of `RWLock` or a stutter: the
  recheck begins a read, the last look a write, mkdir announces, the rmdir retracts or breaks.
- Honest entries. `HonestInv` follows the data through a call: what was loaded is between the version before it and the source now,
  so equal versions make it that version's; the metadata describes the part file it was made from. No lock occurs in it. Two
  clients without a lock may interleave their replaces; then checksum and bytes differ and the entry is rejected.
- Use of the lock. `PathInv` ties the side of the lock and the outcome to the place a call is at; with it and `DeadInv` (the dead of the lock are the
  calls that died) `CallsKeepToTheLock` is inductive: whoever is taken for a holder is where it believes it holds the lock, and the converse until a lock is
  lost. Each step of a call is then a step of `RWLock` or none of its business (`EntryImplementsRWLock`). That is the module the protocol of `MkdirLock` implements, so the two halves of the system meet there.
- Waiting calls. A call that waits for the write lock waits for readers, who all go on: no reader asks for anything before it has
  given its lock back. A call that waits for the intent waits for its owner, who is one that goes on, waits for such readers, or is dead.
- Fresh answers. `KnowsInv` says a call's version is of a moment of the call. `StaysInv`: under one lock the bytes are those of the sidecar that was
  read before them. `ReturnInv` is the difficult part, the exports that copy after the release: whoever may still replace the entry has read
  its version since the exporter's validation, so the bytes copied are not older than the call.
- The promise. With `EntryInv`, `HonestInv` and `FreshInv`, each step is one of `CachedSource` or a stutter: `StepsMove` says that a call's step takes
  nobody's answer away, `StoredIs` that what is stored is what a call on its version would accept, `ReplacedParquet` and `ReplacedMeta` that it is
  replaced by a newer version only, because the writer rejected the older one under the lock it still holds.
- One load. `RejectedInv`: the entry that was rejected under the write lock is not of the source's version then, and since versions only grow, of no
  version that can be loaded under this lock. Without `~Revert` the version may come back to the one that was rejected for its damage, or for its age.
- Releases. While a reader's release runs, the token it finds is its own and each failure, or each late write, uses one fault and one
  retry of the loop; `FaultsAssumption` leaves a retry for the last.
- Litter. A part file exists only between its making and the end of the block that removes it (`PartsInv`), whatever failed there; the
  exceptions, interrupts and removals that fail, are on their way out and never return (`Leaving`).
- Files. A part file under its own name holds `Written(c, got[c])`, the first rows of the call's snapshot; at the end of the
  cursor that is all of them, and the replace installs what was promised. Nobody else writes under that name.
  `StreamsDeliver` adds what the caller gets to know: a stream is `done` behind its replace only, and its path is its own.
- Numbers. A declared integer of at most 18 digits is an int64, a longer one a decimal128 of its own precision, a
  declared fraction a decimal128 of its precision and scale: the digits a value may have fit.
- Answers. Each entry is what some call would have loaded with some contents of the tables (`EntriesInv`). On a hit the texts are equal, so
  the tables are, so the version compares the rows of that table; what texts are normalized to does not matter. It does for who is
  unmistakable: without blanks in literals a statement's words are those of its normalized text (`SqlDecidesStatement`).
- Other statements. The kept places of a text are enumerated in order by `Place`, and by nothing else (`PlaceIsUnique`). So the words of what is kept
  of a text are those of the text, what `RStrip` takes of a text it takes of its words, and the words Oracle sees and those of the
  normalized text are the same but for semicolons at the end. Equal normalized texts have equal words.
- Spellings. Conversely a normalized text is its words and the set of those that blanks stand behind, and nothing else: `Number` gives word k the number
  2k and the blank behind it 2k + 1 (`NumberIs`), which keeps the order of the places, so by `PlaceIsUnique` the text is the one `Spelled` builds from the two
  (`SpelledIs`). `NormalizeIs` says that of a tidy text nothing but semicolons at the end is taken. Equal texts have equal keys, tables and versions, so who
  got an answer (`HitInv`) shares its entry.
- Tokens of a table. All present rows have an SCN not larger than the clock, and if two snapshots differ, a row that is new in the later one
  has a later SCN or the later one has fewer rows. A commit that does not only remove rows adds one whose SCN is later than any there was (`CommitIsNew`), so the
  maximum it leaves is new, or the table was created again and is empty; which is why `TokensDoNotReturn` is about tokens of rows.
- Pool. `MutexInv` makes the second look and the creation one critical section per process; `PoolsInv` says a process that does not run yet
  has no pool under its key in any process, so what it inherits is never its own.
- Waiting threads. Who holds a pool's lock never waits, and who holds the key's lock waits for that or for a connection only. So if all wait, some pool has
  `MaxSize` connections out, each held around a call by another thread of `Outer` (`NeedsInv`), and `OuterAssumption` says there are not so many.

Only model-checked: the liveness properties, which are out of the prover's reach (`SomeCallGoesOn` and `SomeThreadGoesOn` are what is proved
in their stead; that whoever does not wait can take its next step is an ENABLED, checked by TLC on the instances). Each other property of a passing run is a theorem.

## Not modelled

- Wording of messages, the layout of metadata, what `df.write_parquet` and `ParquetWriter` do inside a file.
- `_cache_path` and `_part_path`: the sanitizing and hashing of names and their lengths, and the keys of file sources. They are string
  functions whose details no property here tells apart; two keys with one path are caught by `source_key` as colliding fingerprints are in `SqlCalls`.
- The case of names and of columns (both are upper-cased), comments and quoting inside identifiers of a statement.
- Oracle's reader (`oracle_read.py` and its container) infers dtypes batch by batch and concatenates the frames; what Polars makes of batches that disagree is not in this repository.
- The identifier and type mapping of the table writers, random data, settings, and the swarms' waves of processes: the swarms and the demo are clients like
  those of the models, without state the cache shares.
- What the file system may do beyond atomic mkdir, rmdir and replace (NFS attribute caches that show an old directory, or an old
  mtime): such a look is like a late or an early one, and the lock has no defence against it.

## Plan

Done: the lock and its abstract specification with the parameters of its heartbeat, the entry and its calls, the version token, the pool, the streaming
loader with the Arrow types, the keys of SQL calls, with the theorems above. Left:
`ParquetStream` as the `Load` of `CacheEntry` in one composition; today its part file inside the cache's and the cache's own
are two models that meet in `AtomicFile` and in `StreamsDeliver`, which is what `Load` does of a stream that returns or raises.
