# MilanSQL verification project

MilanSQL is a header-only C++17 SQL database. This directory holds TLA+ models of the parts of it
where several sessions or threads, a crash, an unreliable network or a stale copy of the data meet,
the TLC configurations that check them, and proofs that the TLA+ proof system (TLAPS) checks. Paths
below are relative to `src/src/` of the repository. `dispatch.hpp` and `main.cpp` at the top of that
directory are live; its top-level `engine.hpp`, `http_server.hpp` and the like are old copies that
nothing includes, and `src/audit_src/` is another copy.

## The system and its parts

| Part | State it keeps | Operations | Hard behaviour |
| --- | --- | --- | --- |
| Lock manager (`locking/lock_manager.hpp`) | holders and type of each table lock, owner of each row lock | LOCK/UNLOCK TABLES, FOR UPDATE | upgrades, downgrades, re-acquires in any order |
| Transaction manager (`mvcc/transaction_manager.hpp`) | last id, active ids, committed ids (pruned at 10000) | beginTx, commitTx, rollbackTx, isCommitted, minActiveTxId | an answer about an id that was pruned |
| Transactions (`engine/engine.hpp`) | row versions with xmin/xmax, a buffer and savepoints per session | BEGIN, COMMIT, ROLLBACK, SAVEPOINT and its two inverses, DML, TRUNCATE, VACUUM, foreign keys, UNIQUE | statements of sessions interleave; checks are made when a statement is buffered, effects happen at COMMIT; a COMMIT that fails half way |
| Tables, indexes, B-tree (`engine/engine.hpp`, `engine/btree.hpp`) | a vector of rows, positions of rows by value | DML, VACUUM, CREATE/DROP INDEX, SELECT with and without index | positions go stale when rows move; text order against number order; splits |
| Joins (`executor/`, `engine/engine.hpp`) | none | nested loop, hash, merge, indexed nested loop | four algorithms chosen by sizes and statistics must give one answer |
| Result caches (`cache/query_cache.hpp`, `cache/user_query_cache.hpp`) | results with an age | SELECT, DML, COMMIT, ROLLBACK, SET CACHE, FLUSH | a result that outlives the change of its table |
| Binlog and change events (`dispatch.hpp`, `cdc/cdc_manager.hpp`) | the statements and events written | every DML in and outside a transaction | what is recorded and what the table becomes are decided at different times |
| Database file (`storage/storage.hpp`) | `database.milan`, its temporary file, what of both is on disk | save, load | power loss between any two steps; two writers share the temporary name |
| Paged tables (`storage/page_manager.hpp`, `storage/paged_table.hpp`) | page cache, one file per table | INSERT, SELECT | eviction while a reference is held; a process that dies between growing the file and writing the page |
| Write-ahead log (`engine/engine.hpp`, `wal/wal_recovery.hpp`) | a log per session | append, commit record and fsync, delete, scan, recover | torn tails, several transactions in one file |
| COMMIT, persist, startup (`dispatch.hpp`, `main.cpp`, `server/http_server.hpp`) | memory, file and logs together | the order of apply, log, persist, delete, answer; restart | crash at every step; failing saves; the REPL's write-behind thread has no lock |
| Connection pool (`pool/connection_pool.hpp`) | idle connections, counters, limits, waiters | acquire, release, health check, configure, resize, prewarm, shutdown, reopen | waits without the lock, notified waiters that are overtaken or time out |
| Server pool (`server/server.hpp`) | queue of connections, workers | accept, enqueue, worker loop, stop | one wakeup per client; a task is a whole connection |
| Parallel pool (`parallel/thread_pool.hpp`) | queue of chunks, threads, futures | submit, worker loop, resize, parallelScan | resizing while scans submit and wait |
| Event scheduler (`scheduler/event_scheduler.hpp`) | events, their file, collected statements | CREATE/DROP/ALTER EVENT, SET EVENT_SCHEDULER, scheduler thread, start | collection under the lock, execution after it; the file is rewritten in place |
| Replication (`replication/`) | binlog, positions, acknowledgements | write, poll, replay, STOP/START SLAVE | lost and broken answers, restarts, positions in memory, long polls racing writes |
| Parser, optimizer, servers, security, data models, tooling | | | sequential or I/O; see "Not modelled" |

How they interact: a statement reaches `dispatchCommand` from a server or the REPL. The HTTP server
runs it under `engineMutex_`, so statements of sessions interleave one by one. A SELECT asks the
result cache first and fills it afterwards; DML invalidates it. Outside a transaction DML changes
the tables and then calls `persistFn()`; inside one it is appended to the session's buffer and log.
BEGIN takes an id from the transaction manager; COMMIT applies the buffer, writes and syncs the
commit record, persists the database, deletes the log and answers. VACUUM asks the transaction
manager for the oldest active id. On a master every data-changing statement is also written to the
binlog, from which replicas poll. The scheduler thread runs the statements of due events through
the same dispatch.

What makes each part correct is what its runs check (below). PROJECT.json lists the hazards with
the line each one bites at.

## Modules

Concurrency:

- `ReadersWriterLock` is the abstract specification of a table lock: many readers or one writer.
  `LockManager` is `lock_manager.hpp`, one action per method, and is shown to implement it.
- `ServerPool` is `ThreadPool` and the accept loop of `server.hpp`. A worker is ready to look at the
  queue, waiting on the condition variable, busy with a client or gone; `notify_one` picks any
  waiting worker, and spurious wakeups happen.
- `ParallelPool` is `thread_pool.hpp`: submit up to the unlock and its notification are two steps,
  `resize` is three (stop, joined, started). `count` is a history variable: how often each row was
  processed. Its rounding up is also that of `parallelFilter_` in the engine.
- `EventScheduler` is `event_scheduler.hpp` and the event statements of `dispatch.hpp` against a
  clock. Every change rewrites the file, may fail to open it, or is cut off by a crash.
- `ConnectionPool` is `connection_pool.hpp`.

Transactions:

- `TransactionManager` is `transaction_manager.hpp`. `committedEver` is a history variable: the ids
  that were ever committed, which the code forgets when it prunes.
- `SerialStore` is the abstract specification of transactions: tables without versions, buffers and
  an atomic COMMIT that replays the buffer on the current tables. `Transactions` composes the
  engine's buffers, savepoints, row versions, UNIQUE and foreign-key checks and VACUUM with
  `TransactionManager` (INSTANCE) and is shown to implement `SerialStore` (mapping: a table is its
  rows with xmax = 0, which is what `selectWhere` returns). A SELECT without a WHERE goes another way
  (`dispatch.hpp:3636`, `selectAllFiltered`, `applyRls_`), which does not ask for xmax: it shows rows that
  a committed DELETE has stamped until VACUUM takes them, so nothing here is said of it. UPDATE may
  set the key, which no UNIQUE check sees (`checkSetConstraints` knows CHECK only); `rekeyed` marks such rows.
  `quoted` says that the value of a condition is written in quotes: the physical DELETE and UPDATE also
  compare without them, `stampDeleteWhere` does not, so that in a transaction such a DELETE deletes
  nothing. `SerialStore` says so too.
- `ChangeFeeds` is what every statement writes to the binlog and to the change events, in a
  transaction and outside. `apart` and `unseen` are history variables: a statement was executed that
  the binlog, or the change events, do not record faithfully. `quoted`, `blank` and `expr` say how the
  value of a condition and the new value are written, on which the hooks depend: the one of DELETE
  looks for the value with its quotes, and `hasExpr` takes a literal of several words for an expression.

The engine's memory:

- `OrderedIndex` is the abstract specification of an index: a map from keys to the rows inserted.
  `BTree` is `btree.hpp` (a recursive tree of nodes) and is shown to implement it.
- `TableStore` is a table with one indexed column: all statements that change rows or the index,
  and both paths of `selectWhere`. A string has the number that it is (`Number`, what `compareValues`
  asks) and the one it begins with (`Prefix`, what `std::stod` reads in `rangeCollect` and in BETWEEN). `Joins` extends it with the four join algorithms and their choice.
- `QueryCaches` is the engine's and the HTTP server's result cache with every statement that fills,
  uses or invalidates them, and those that change a table without coming to `invalidateCache`
  (`WriteUnseen`, `CommitThrows`): REPLACE, INSERT IGNORE, foreign-key actions, and whatever throws before it.

The way to the disk:

- `AtomicFile` is `atomicWriteFile` step by step over a file system that keeps what was synced and
  any part of the rest (names, inodes, chunks). That the open for the fsync or the fsync itself fails
  (`storage.hpp:79-80`), which the code ignores, is left out.
- `WriteAheadLog` has both ends of a log: the records sessions append and what `scanWal` and
  `recover` make of whatever survives. A torn line is no record, a wrong checksum, or a record with
  a shorter id. `Radix` is the base of a written id, 10 in the code. A file may fail to be opened, synced
  or removed at any call, which the session does not notice. Startup does not look at it: after a
  crash it is as it was, ids start over and the session appends to it. `spoiled` is a history variable
  that says which of the two a file has met.
- `Durability` composes the steps of COMMIT, single statements, the write-behind thread, crash and
  restart. The save of a statement is one step there, as `AtomicFile` justifies for saves that do not
  overlap; the write-behind thread reads the tables and renames its file in two steps, and writes what
  it read first with any part of what changed meanwhile. An operation of a COMMIT may throw, an
  INSERT of several rows may fail at a later one, and a transaction may change tables before COMMIT. History
  variables: `half` has the transactions and statements that failed half way, `raced` those whose
  save overlapped the thread's. `repl` selects the REPL or the HTTP server.
- `PagedTables` is the page cache and the files of paged tables. A statement is one step whose
  outcomes are a set: completed, or cut off by the end of the process after any of its writes. In each
  statement one kind of call on a file may fail throughout (`Fault`: the open that counts the pages, the
  open that reads one, the writes, the growth), which the code does not notice; `io` is a history
  variable that says whether one has. The
  use of a reference that eviction has invalidated (`Dangling`) has three outcomes.
- `Replication` is the binlog, the master's handling of a poll, and the replica's loop.

`MCConcurrency`, `MCTransactions`, `MCEngine` and `MCStorage` give the sets of statements, sizes and
schedules. Each puts several components side by side: the variable `part` chooses the one that
moves, the others stay in an initial state, so that TLC explores the graph of each component and
not their product. `LockManagerProofs`, `TransactionsProofs`, `EngineProofs`, `DurabilityProofs`,
`ReplicationProofs`, `ConcurrencyProofs`, `StorageProofs` and `SelectionsProofs` hold the proofs.
`Selections` has the one helper that several modules share: the entries of a sequence at some
positions, in order.

Operators whose name has an underscore (`Write_OldPos`) are mutants: plausible mistakes that stand
before the definition they replace and that make the property named for them in PROJECT.json fail.

## Runs

| Run | Questions | Bounds, and why they suffice | Result |
| --- | --- | --- | --- |
| `concurrency` | Are table locks exclusive, are row locks kept, is it a readers-writer lock? Is a wakeup of a worker ever lost, and is every client served? Does a parallel scan see every row once and end, also when the pool is resized? Does an event run when due and no more often? Do row versions and VACUUM stay invisible to sessions that read with a WHERE, and are dead versions reclaimed? | three threads: two readers remain when one of three releases; three clients for two workers and a queue of two: full queue, idle workers and overtaking; tables with fewer rows than parts and with a short last chunk; an event with and without AT over two days; two sessions with five kinds of statements (INSERT, UPDATE of a key, UPDATE of all rows, DELETE with and without quotes), PruneAt 1 so that stamps are pruned | holds |
| `storage` | Does an answered COMMIT survive, is the file never half a transaction, is nothing unsaved unreported? Is the file whole and the last save kept after any crash? Would recovery replay exactly the committed transactions? Are rows of paged tables kept? Are the pool's counters right, connections exclusive, waiters never left beside a free connection? | two sessions (one in the REPL), two operations each, three transactions; two writers, two chunks, three saves; two commits in one log, with ids in base 2 so that a cut-off id is another transaction's, and files of up to two records that fail or are left by a restart (`MaxSpoiled`; longer ones say nothing, for no property speaks of them); two paged tables and five rows with a cache of two pages, so that one table evicts the other's only page, with failing calls among the first three rows (`MaxFaulty`); three clients, symmetric, for at most two connections | holds, under the conditions the properties state |
| `engine` | Does pruning change an answer of isCommitted or move the horizon back? Do index and scan agree, and the four joins? Does a cached result outlive a change, or two lifetimes? Does whoever replays the binlog or the change events have the table? | PruneAt 2 and six transactions: several prunings while older ones run; strings whose text and number order differ, two that are one number, and one that only begins with a number, as a date does; a join threshold of 2 for 10; a table and one that inherits from it; three statements of thirteen kinds, quoted and not, with words and expressions, in and outside two transactions | holds, under the conditions the properties state |
| `transaction_checks` | Do two INSERTs of a UNIQUE key ever both take effect, through interleaved COMMITs and failing ones? Do savepoints keep their prefix? Is the B-tree balanced and the map an index promises? | two kinds of sessions apart: two tables with a cascading key and two savepoint names, and one table whose key UPDATEs set; two buffered statements; eight keys at degree 2 make three levels; sessions and names symmetric | holds, under the conditions the properties state |
| `replication` | Does a replica execute all statements up to its position, none twice, acknowledge only those, and catch up? | one replica, three positions, two faults, batches of two, positions in base 2 so that a cut-off numeral is a different position | holds, under the conditions the properties state |
| `snapshot` | Does a transaction read a consistent snapshot, as ARCHITECTURE.md:102 and :115 say? | two sessions, one table | violated: SELECT never compares xmin with the reader's id |
| `rollback_undoes` | "ROLLBACK; -- undoes the delete" (docs/sql-reference.html:859) | two sessions, three statements | violated: an UPDATE with an expression is applied before the test for a transaction |
| `log_not_recovered` | Does startup replay a committed log, as the docs say? | one session, two transactions | violated: startup opens `database.milan.wal`, sessions write `database.milan.wal.sess_*` |
| `replication_from_pos` | "slave has durably applied everything up to fromPos" (`master_repl.hpp:236`) | no faults at all | violated: a write between the second read and `getCurrentPos()` is skipped |
| `deleted_joined` | is a deleted row invisible (docs/internals.html:181) in a join? | a table of up to three rows | violated: only the first table of a join is filtered by xmax |
| `user_cache` | "Invalidated on INSERT/UPDATE/DELETE/DDL for affected table" (`user_query_cache.hpp:6`) | two sessions, caches of one and two entries | violated: INSERT and DELETE name the table without its first letter |
| `for_update` | "SELECT FOR UPDATE acquires a row-level exclusive lock" (docs/architecture.html:782) | the same | violated: an answer from the cache takes no lock |

`ReplaysTheCommitted` speaks of the log and its recovery as a pair. Durability of a committed
transaction does not come from it: `log_not_recovered` shows that the session logs are not read at
startup, and `AckedIsDurable` that the answer waits for `save()`.

Conditions in properties say which hazards the code does not handle:

- `FileIsWhole` excludes overlapping saves, `DiskIsAtomic` the REPL, and `AckedIsDurable` and
  `UnsavedIsReported` the REPL from the first overlap on: the write-behind thread can then rename what it
  read before over what was answered. `DiskIsAtomic` excepts transactions and INSERTs that failed
  half way, as their clients were told, since the save of another session writes the half;
  `UnsavedIsReported` excepts what a transaction that was not answered as committed has changed at once.
- `ReplaysTheCommitted` speaks of a file that met no failing call and no restart. A TX_BEGIN that was not
  written, or ids that start over in an old file, make the first entry of an id the wrong one.
- `UniqueKeys` excepts rows whose key an UPDATE has set.
- `NoLostWakeup` excludes waiters whose deadline has passed: one that was notified and gives up takes the
  wakeup with it.
- `EngineCacheIsCurrent` is about statements and COMMITs answered with success, other than REPLACE,
  INSERT IGNORE and the actions of foreign keys; what the others changed is in an old result until it
  expires (`AnswersExpire`).
- In `Replication`, `skipped` marks replicas hit by the race of `replication_from_pos`, `broken`
  those that restarted or replayed a broken answer (statements may then run twice), and `renumbered`
  a master that restarted after a failed binlog write and hands out positions again.
- `NoExtraRun` holds as long as every save of the events file can open it.
- `FeedsFollowTable` holds until a statement is executed that its feed does not record: for the binlog
  statements and COMMITs of transactions, an INSERT that fails at a later row, a failing save; for the
  change events everything but INSERT, UPDATE with a WHERE to literals (of one word, if it has one
  condition) and DELETE with a WHERE whose value is not in quotes (if it has one condition), outside
  transactions.
- `IndexAgreesWithScan` is about the rows whose value both paths evaluate alike (`Alike`): without NULL,
  which an index finds in ranges; for `=` without different strings of one number, of which an index
  finds the one as written; for ranges without pairs that begin with numbers and are not both numbers,
  such as dates, which an index compares by their years and a scan as text. BETWEEN is evaluated alike.
- `PagedRowsAreKept` excludes everything from the first failing call on a page file on, rows too large for a page, and tables whose file ends in a page of
  zeros after a crash: that page carries number 0, and the next INSERT replaces page 0.

Deadlock is checked in `storage`, `transaction_checks`, `replication` and the violation runs, not in
`concurrency` (a pool that stops ends) and `engine` (the bound on transaction ids ends behaviours).

### Fairness

- `ServerPool`: weak fairness of each worker's step. Clients promise nothing, for the sockets have
  no timeout: `PoolServes` allows clients that never leave to keep others waiting.
- `ParallelPool`: weak fairness of each thread, of the scans and of the resizing thread. They are
  running threads, and the work of a chunk is finite.
- `EventScheduler`: weak fairness of `Collect` and `Execute`: the thread loops every second, and a
  statement ends or throws, which the loop catches.
- `Transactions`: weak fairness of `VacuumAll`. The auto-vacuum thread of the server runs it
  every 60 s. Sessions promise nothing, so `VacuumReclaims` allows a transaction to stay open for
  ever.
- `Replication`: the replay loop and the 5 s limit of a synchronous write go on (weak fairness).
  Polling is strongly fair: the replica asks again after every failure, so the assumption is that a
  connection attempted for ever succeeds now and then, step by step. Writes, STOP/START SLAVE,
  faults and restarts are not fair.

## Proofs

A component's proofs are in a module of their own. `StorageProofs`, `ConcurrencyProofs` and
`EngineProofs` are about the compositions `MCStorage`, `MCConcurrency` and `MCEngine` that the runs
check: a component moves by its own
steps and rests while another moves. All theorems hold for every value of the constants.

`LockManagerProofs`, from the inductive invariant `LockInv` = `TypeOK` and `WriteLockIsExclusive`
(the type part is needed because an entry that exists has a holder, on which joining and upgrading
rely); for any set of threads, tables and rows:

- `LocksAreExclusive`: the type invariant and exclusion of WRITE locks;
- `RowLocksAreNotStolen`: an action property, a row lock changes hands only by release;
- `TableLocksImplementReadersWriterLock`: refinement, with one lemma for acquire and one for release.

`EngineProofs`. The transaction manager, from `TmInv` = `TypeOK`, `PrunedAreBelow` (a committed id that was
pruned is below every active id) and `CommittedAreNotActive` (ids are not reused); neither
`CommittedForEver` nor `ActiveIsNotCommitted` is inductive alone. For any pruning size and number
of transactions:

- `CommitStatusIsRight`: pruning never makes a committed id look uncommitted, and a running one is
  never reported committed;
- `HorizonAdvances`: the boundary of VACUUM never moves back.

The result caches, from `CachesInv`: no two entries of a cache have one key and no more are kept than
fit (`CacheShape`), an entry of the engine's cache has missed no change of its table that was answered with success and is as old as
its answer (`EngineEntryOK`), one of the HTTP server's at most a lifetime older (`UserEntryOK`). For
any tables, parents, queries, sizes and lifetime:

- `EngineAnswersAreCurrent`: the engine's cache has no entry from before a change that was answered with
  success;
- `NoAnswerOutlivesTwoLifetimes`: an answer passes through two caches and is older than neither
  allows.

A table with its index and the joins, from `StoreInv`: the index lists, for every value, positions of
rows of that value, each once, and all of those that are alive (`IndexOf`; after CREATE INDEX dead
ones too). `Lists(s, A)` says that a sequence lists a set, each element once; what concatenation,
selection and `FlattenSeq` do to it (`FlattenIsList`) carries all of the following. For any strings,
numbers, rows, left sides and threshold:

- `IndexAndScanAgree`: `ComparisonsAgree` for the two ways to compare values that are `Alike`, `IndexFinds` for the rows;
- `StrategiesAgree`: each algorithm lists `Joined`, by a lemma of its own (`NestedLoopIsJoin`,
  `HashJoinIsJoin`, `IndexedIsJoin`, `MergeJoinIsJoin`). The merge is a recursive function of the two
  pointers: that there is one is shown by induction over the distance to the ends (`MergeExists`),
  and by the same induction that from two pointers on it lists the matches that are left
  (`MergeFinds`), for which both sides must be sorted (`SortedIsSorted`) and runs maximal
  (`RunEndFacts`);

Binlog and change events, from `FeedInv`: a key is alive in one value (`FeedShape`), replaying the
binlog gives the table with all its row versions and not only what SELECT shows (`ReplicaHas`),
because a later statement finds its rows among them, and replaying the events on the table as it was
when they began gives the visible rows (`ReaderHas`). The loops over rows, statements and events are
recursive functions; that each exists, that two with one start and one step agree, and that they keep
what every step keeps is shown once (`LoopExists`, `LoopSame`, `LoopKeeps`). Replaying a longer log is
replaying the rest on the result (`ReplicaAppend`, `FollowGoesOn`), the events of a recorded INSERT,
DELETE or UPDATE change the reader's table as the statement does (`RecordedFollows`), and a statement
without events leaves it alone (`UnloggedChangesNothing`). For any rows, statements and sessions and
histories of any length:

- `FeedsAreFaithful`: whoever replays either feed has the table, under the conditions listed above.
  It needs that only UPDATE and DELETE have a WHERE and that a table is loaded with every key once.

Of all four:

- `EngineTypes`: their type invariants.

`TransactionsProofs`, from `Inv` = `Shape`, `Nested` (a savepoint counts no more statements than the
buffer has, and no fewer than the savepoints before it) and `Keyed` (a UNIQUE key is alive once among the rows whose key no UPDATE has set).
`ApplyAll` and `SerialStore`'s `RunAll` are recursive functions; what they compute is shown by
induction over the buffer, one statement at a time (`ApplyAllResult`, `CommitView`). For any
sessions, tables, statements, names and foreign-key action:

- `KeysStayUnique`: a UNIQUE column shows a key twice only where an UPDATE has set it, although INSERTs are
  checked only when they are applied, also after a COMMIT that throws half way;
- `SavepointsKeepTheirPrefix`: an action property of the buffers, for which `Nested` is needed;
- `EngineUsesTheManager`: the engine's calls are steps of `TransactionManager`, from `Ids` (an open
  transaction's id is active), so that the two theorems above hold of the engine;
- `SessionsSeeASerialStore`: refinement of `SerialStore`. What a SELECT with a WHERE shows is a function of the row
  versions (`View`); each statement changes it as `SerialStore` says whether it stamps versions or
  removes them (`StatementView`), a COMMIT by all statements of its buffer (`CommitView`), and VACUUM
  not at all (`VacuumView`). The theorem has two hypotheses, and both are needed: no UNIQUE column,
  because a COMMIT that throws leaves the statements before it applied, and no foreign-key action,
  because CASCADE takes children away when the DELETE is buffered and RESTRICT looks then;
- `TransactionsAreWellFormed`: the type invariant, from `Inv`, `Ids` and `Bounded` (row versions carry
  ids that were given out, tables and buffers are within their bounds, an open transaction has an id
  and no other session has). It is not inductive alone: COMMIT and DELETE stamp versions with the id
  of the session (`ApplyAllStamped`, `CascadeStamped`), which must be known to be an active one; and
  the bound of the model is one on all tables together, from which that of each follows by counting
  (`RoomForEach`).

`ConcurrencyProofs`:

- `TransactionsAreSerial`: `SessionsSeeASerialStore` for the composition, in which its hypotheses
  hold; the lemmas of `TransactionsProofs` are used through INSTANCE.
- `NoWakeupIsLost`, from `PoolInv`: a worker sleeps only while as many others are on their way to the
  queue as it has clients. The argument is about numbers of workers: `enqueue` makes one more ready
  or finds none asleep, taking a client removes one from the ready and one from the queue. For any
  finite set of workers, any clients and any length of the queue.
- `ScansSeeEveryRowOnce`, from `ScanInv`: every part of a scan is at one place (not submitted, in the
  queue, on one thread, done; `TasksOnce`), the rows counted are those of the parts done
  (`RowsCounted`), and a scan that returns has all results (`ScanStages`). `ChunkSize` rounds up, so
  the parts cover the rows and do not overlap: arithmetic on any number of rows, parts and threads.
- `EventsRunNoMoreOften`, from `EventInv`: in memory and in the file alike, an event that ran at some
  time is not due before its schedule allows it again, and a single run is disabled. The file must be
  in the invariant because a restart reads it. One hypothesis: AT goes with an interval of at least a
  day, as in the code's comment ("EVERY n DAY AT"); a shorter one is the exception noted below.
- `SharedStateIsWellFormed`: the type invariants of all of them, from `Types`: a client is queued once
  or served by one worker, a thread of the parallel pool has a task exactly while it is busy and none
  runs while a resized pool starts, events are named apart in memory and in the file, and what
  `LockManagerProofs` and `TransactionsProofs` show of locks and sessions.

`DurabilityProofs`, for any number of sessions, transactions and operations:

- `AnsweredIsDurable`, from `DurInv`: `TypeOK`, how far each statement has got and what is in memory
  and on disk by then (`SessionOK`), `DiskInMem` (memory has all the file has, so no later save takes
  rows away), `Reading` (what the write-behind thread has read has all the file has, as long as no save
  overlapped), `DownIsEmpty` and `Durable`. What a client was told is committed, without a warning,
  stays in the file: in the server always, in the REPL until the first overlap. `AckedIsDurable` alone is not inductive: an answer relies on the save before it,
  the save on the operations before it.
- `FileHasWholeTransactions` (`DiskIsAtomic`) and `WhatIsUnsavedWasReported` (`UnsavedIsReported`),
  from `SaveInv`: whoever applies or saves holds the mutex (`MutexIsHeld`), so what is in memory is
  whole when it is saved, apart from what failed half way (`MemIsAtomic`), and a row that is only in
  memory belongs to a statement under way, to one whose failure was reported, or was changed at once by
  a transaction that is not committed (`UnsavedIsKnown`). A transaction that has not begun has no rows and
  was told nothing (`Fresh`).

`StorageProofs`:

- `PoolCountsItsConnections`, `ConnectionsHaveOneUser` and `NoWakeupIsLost`, from `PoolInv` =
  `TypeOK`, `Apart` (connections of clients and idle ones are all different), `Counted` and `Woken`
  (as many waiters are notified as there are connections to be had). For any finite sets of clients
  and connections and any limits. The model numbers connections from a set twice as large as the
  largest limit, so that a new one can be picked.
- `DatabaseFileIsWhole`, from `FileInv`: which inode each name refers to, in the directory and on disk
  (`Placed`, `Distinct`), and how much of the data of each is synced at each step of a writer
  (`Versions`, `Progress`). For any writers, chunks, inodes and versions, as long as no two saves
  overlap.
- `RecoveryReplaysTheCommitted` (`ReplaysTheCommitted`), from `LogInv` = `LogShape`, which every file keeps, and
  `LogGood` for one that met no failure and no restart: what is left of the file after
  a crash is a prefix of it and perhaps a torn record, so the invariant describes the scan of every
  prefix. `History` has the state of `scanWal` after each record: the committed entries are the first
  ones and agree with the transactions that COMMIT applied (`CommittedUpTo`), no two entries share an
  id (`OwnIds`), so the loops with `break` find the right one (`FirstIsOnly`), and a commit line or a
  checksum is about the last entry (`Fits`). `EndState` is the state after the last record. That
  `scanWal` computes this scan is shown by induction over the records (`ScanIsUnique`), and that a
  torn record changes nothing case by case (`TornIsHarmless`). For any operations, transactions in
  one file and base of the ids.
- `AnsweredRowsStay` (`PagedRowsAreKept`), from `PagesInv` = `PagesShape`, which holds whatever fails, and
  `PagesSound` as long as nothing has: between statements the cache is clean and
  agrees with the files (`CleanCache`), a page carries its own number or 0 (`OwnNumbers`), no row is
  later than the last one issued (`NoneAfter`), and a table without a page of zeros has the answered
  rows, in order (`RowsKept`). A statement reads, evicts, writes and flushes within one step, so
  `Midway(m, f, t, P)` says what holds in its middle: pages of `t` are those of the files `f` it
  started from or from the set `P` of pages it writes, each at its own number, and only those are
  dirty. Each operation of the page manager keeps it; with it `InsertRowResult` gives the outcomes of
  `insertRow` (dead on the way, row added to the last page, page allocated), `PagesAfterInsert` the
  files after them, and `ScanKeeps`, by induction over the pages, that a scan changes no file. For
  any tables, rows, sizes and any cache with room for one page, also when the reference in `readPage`
  dangles.
- `StorageIsWellFormed` (`AllTypeOK`): the type invariants of all of them and, through
  `DurabilityProofs`, of the commit path. That of the pages is
  shown operation by operation also for calls that fail: a page that is put into the cache replaces
  the entry of its number, and room is made for it first.

`ReplicationProofs`, from `Following` = `Shape` and, unless positions were given out twice, `Kept`:
positions grow along the binlog (`PositionsGrow`), nothing is missing below a replica's position or
below an item it has yet to replay once those before it are replayed (`NothingMissing`), and what it
has to replay lies beyond its position in the order of the binlog (`InOrder`). For any replicas,
positions, batch size, base of the numerals and number of faults: `TypeCorrect`, `ReplicasFollow` and
`AcknowledgedIsExecuted`.

`SelectionsProofs` is about `Selections`: the loops that keep some entries of a vector in their order
(DELETE, VACUUM, `runHealthCheck`, `readFrom`, `dropEvent`, `recover`, the page cache) written as functions of positions, since the
prover knows nothing of `SelectSeq`: selecting twice, appending, and that a selection reads each
position once. `SetInduction` is induction over the natural numbers for a set instead of a
predicate, which the prover's library does not offer in a usable form.

The assumptions are the named ASSUMEs of the modules: `NoThread` is no thread, `NoSession` and
`BaseLog` are no sessions, a transaction has an operation, workers, clients and connections are
finitely many, so are tables, `NoClient` is no client, a day has ticks, the page cache has room for a
page, statements are of the known kinds, sizes and bounds are natural numbers.
TLC evaluates them in the runs.

Only model-checked:

- liveness under fairness (`PoolServes`, `ScanEnds`, `DueIsRun`, `VacuumReclaims`, `CatchesUp`) and
  ENABLED, which the prover does not do;
- `TreeIsBalanced` and `ImplementsOrderedIndex`: the B-tree is a tree of nodes, its operations are
  RECURSIVE operators, which cost the prover its SMT backend, and induction over trees is out of
  its reach.

## Not modelled

The repository has some 108 000 lines of C++, of which a quarter are stale copies and most of the
rest is sequential: parsing, formatting, protocols, functions on values. The models cover the code
that keeps shared or persistent state.

- Data: values, types and expressions are model values. The parser, optimizer, SQL functions,
  compression and the data models (graph, document, spatial, time series, columns) are sequential
  code whose state space is their input.
- I/O and protocol framing of the HTTP, MySQL, PostgreSQL, WebSocket and GraphQL servers;
  authentication, TLS and encryption.
- The double-write buffer, the LSN manager, checkpoints and point-in-time recovery: the engine
  never calls `writePage` or `nextLsn`, and the other two archive and replay `database.milan.wal`,
  which no session writes. The buffer pool counts uses of tables and holds no data.
- In `Transactions`: what a SELECT without a WHERE shows of stamped rows, SET NULL, ALTER inside a transaction, triggers, partitions, generated columns,
  row-level security. In `AtomicFile`: the format and the checksum, which is only warned about.
  In `Replication`: authentication, TLS, lag, status and the 30 s failover clock; statements with
  line breaks, which the line-based binlog splits; a statement that contains the line END, at which the
  reader stops (`slave_repl.hpp:177`). A statement that is cut off is executed as a shorter one: `Replication` has it as
  one that the master never wrote. In `PagedTables`: power loss (nothing is synced).
  In `Joins`: several joins in one query and their reordering, which the optimizer does whatever
  their types. In `QueryCaches`: the upper-case key of the HTTP server's cache.
- Two statements that interleave inside the engine: the scheduler and write-behind threads of the
  REPL share no lock with it, and the PostgreSQL server has an engine of its own over the same file.
- Management code (tenants, cloud, serverless, federation, metrics): tables around the engine.

Further places where the code is exposed and no property speaks yet: a table lock is asked for by six of the engine's
statements only (`checkWriteAllowed`), not by UPDATE of all rows or with one condition (`engine.hpp:3411`,
`:3558`, `:3787`), and by no SELECT (`checkReadAllowed` has no caller); an UPDATE refused in the middle of its loop leaves the indexes as they were
(`engine.hpp:3460`), as do REPAIR TABLE (`:10506`) and DELETE of a partitioned table (`:10099`);
COUNT(*) of a paged table ignores WHERE (`dispatch.hpp:3353`); EVERY n AT with an interval below a
day may run at every iteration until it has caught up (`event_scheduler.hpp:176`); the result of
`replWaitForAck` is not looked at (`main.cpp:435`); a binlog write that cannot open the file has used
up its position (`binlog.hpp:44`); two archived log segments of one second have one name
(`pitr_manager.hpp:131`).

PROJECT.json gives a reason for each part.

## Plan

1. `Transactions` composed with `Replication` through `ChangeFeeds`, so that a replica's tables and
   not only its statements are compared with the master's.
2. Cascades that take effect when a statement is buffered, and what ROLLBACK leaves of them.
3. Pure algorithms against reference definitions: run-length and dictionary coding.
