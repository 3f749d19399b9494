----------------------------- MODULE MCStorage -----------------------------
(***************************************************************************)
(* What becomes of a transaction on its way to the disk, the paged tables  *)
(* and the pool of connections, side by side: part chooses the component   *)
(* that moves.  An idle component stays in its initial state.              *)
(***************************************************************************)
EXTENDS Durability, Sequences, FiniteSets, TLC

CONSTANTS Writers, Chunks, Inodes, MaxVersion,
          Ops, MaxOps, MaxRecords, MaxSpoiled, MaxTxId, Radix,
          Clients, Conns, NoConn, Sizes,
          Paged, RowSizes, Capacity, MaxPages, MaxIssued, MaxFaulty

\* Sizes of the connection pool: empty minimum, minimum below and at the maximum.
PoolSizes == {<<0, 1>>, <<1, 2>>, <<2, 2>>, <<1, 1>>, <<0, 2>>}

\* A pool keeps at most its maximum of connections, and a health check asks for new ones
\* before it forgets the old ones.
ASSUME PoolAssumption ==
  /\ IsFiniteSet(Clients) /\ IsFiniteSet(Conns) /\ NoConn \notin Conns
  /\ Sizes \subseteq Nat \X Nat
  /\ \A sz \in Sizes : sz[1] <= sz[2] /\ 2 * sz[2] <= Cardinality(Conns)

\* A file has at least one piece, and 0 is no inode.
ASSUME FileAssumption == Chunks \in Nat \ {0} /\ Inodes \subseteq Nat \ {0} /\ MaxVersion \in Nat

\* The bounds on a session and its log.
ASSUME LogAssumption == MaxOps \in Nat /\ MaxTxId \in Nat

\* The cache has room for a page, and rows are counted in bytes.
ASSUME PagesAssumption == MaxPages \in Nat \ {0} /\ {Capacity, MaxIssued} \subseteq Nat /\ RowSizes \subseteq Nat

\* No definition tells one client of the pool from the other.
Symmetric == Permutations(Clients)

VARIABLES part,
          dir, data, dirDisk, dataDisk, writer, version, saved, overlap,
          file, synced, tx, lastId, loggedTxs, spoiled,
          idle, conn, status, dead, total, active, size, closing, draining, warming, expired,
          pages, cache, issued, answered, io

File == INSTANCE AtomicFile WITH acked <- saved
Log == INSTANCE WriteAheadLog WITH logged <- loggedTxs
Pool == INSTANCE ConnectionPool
Pages == INSTANCE PagedTables WITH file <- pages

fileVars == <<dir, data, dirDisk, dataDisk, writer, version, saved, overlap>>
logVars == <<file, synced, tx, lastId, loggedTxs, spoiled>>
poolVars == <<idle, conn, status, dead, total, active, size, closing, draining, warming, expired>>
pageVars == <<pages, cache, issued, answered, io>>

\* A part that does not move has one of its initial states.
AllInit ==
  /\ part \in {"commit", "file", "log", "pool", "pages"}
  /\ Init /\ File!Init /\ Log!Init /\ Pool!Init /\ Pages!Init
  /\ part # "commit" => ~repl
  /\ part # "pool" => size = <<1, 1>>

AllNext ==
  \/ part = "commit" /\ Next /\ UNCHANGED <<part, fileVars, logVars, poolVars, pageVars>>
  \/ part = "file" /\ File!Next /\ UNCHANGED <<part, vars, logVars, poolVars, pageVars>>
  \/ part = "log" /\ Log!Next /\ UNCHANGED <<part, vars, fileVars, poolVars, pageVars>>
  \/ part = "pool" /\ Pool!Next /\ UNCHANGED <<part, vars, fileVars, logVars, pageVars>>
  \/ part = "pages" /\ Pages!Next /\ UNCHANGED <<part, vars, fileVars, logVars, poolVars>>

AllSpec == AllInit /\ [][AllNext]_<<part, vars, fileVars, logVars, poolVars, pageVars>>
-----------------------------------------------------------------------------
\* The type invariants of the components.
AllTypeOK ==
  CASE part = "commit" -> TypeOK
    [] part = "file" -> File!TypeOK
    [] part = "log" -> Log!TypeOK
    [] part = "pool" -> Pool!TypeOK
    [] part = "pages" -> Pages!TypeOK

\* Stated in AtomicFile: the database file is whole and as new as the last save.
FileIsWhole == File!FileIsWhole

\* Stated in WriteAheadLog: recovery replays what was committed.
ReplaysTheCommitted == Log!ReplaysTheCommitted

\* Stated in ConnectionPool: the counters of the pool agree with its connections.
CountersAgree == Pool!CountersAgree
\* Stated in ConnectionPool: a connection has one user.
NoSharing == Pool!NoSharing
\* Stated in ConnectionPool: a client waits only while the pool is exhausted.
NoLostWakeup == Pool!NoLostWakeup

\* Stated in PagedTables: an answered row stays in its paged table.
PagedRowsAreKept == Pages!PagedRowsAreKept
=============================================================================
