------------------------------ MODULE MCEngine ------------------------------
(***************************************************************************)
(* What the engine keeps in memory: the transaction manager, a table with  *)
(* its index and the joins with it, and the result caches; and what its    *)
(* statements leave in the binlog and the change events.  They stand side  *)
(* by side: part chooses the component that moves, an idle component stays *)
(* in its initial state.                                                   *)
(***************************************************************************)
EXTENDS TransactionManager, Sequences, TLC

CONSTANTS Number, Prefix, Null, MaxRows, Lefts, Threshold,
          Sessions, NoSession, Tables, Parent, Queries, MaxSize, UserSizes, TTL,
          Writers, RowKeys, Loaded, NVals, Statements, MaxStatements

\* The strings "10", "10.0", "2", "2-1", "NULL" and "x": the first three are numbers, in
\* another order, the first two are the same number, and the fourth begins with one.
Strings == <<10, 10, 2, 0, 0, 0>>
Beginnings == <<10, 10, 2, 2, 0, 0>>
\* Left sides of a join: none, one, a value twice, and one that is NULL.
LeftSides == {<<>>, <<3>>, <<3, 1, 3>>, <<5, 6>>}

\* A table and one that inherits from it; a query of each, of both and FOR UPDATE.
TwoTables == {"p", "c"}
Inherits == [t \in {"c"} |-> "p"]
ThreeQueries == {[from |-> "p", also |-> {}, lock |-> FALSE],
                 [from |-> "c", also |-> {}, lock |-> TRUE],
                 [from |-> "c", also |-> {"p"}, lock |-> FALSE]}

\* A table of one row, and statements of every kind; INSERT has two rows or one.
OneRow == <<[key |-> "a", val |-> 1, dead |-> FALSE]>>
Plain == [type |-> "TRUNCATE", keys |-> <<"a">>, where |-> "none", quoted |-> FALSE,
          expr |-> FALSE, blank |-> FALSE, val |-> 1]
EveryKind ==
  {[Plain EXCEPT !.type = "INSERT", !.keys = <<"b", "a">>], [Plain EXCEPT !.type = "INSERT"],
   [Plain EXCEPT !.type = "REPLACE", !.val = 2], [Plain EXCEPT !.type = "IGNORE", !.val = 2],
   [Plain EXCEPT !.type = "UPDATE", !.where = "one", !.val = 2, !.quoted = TRUE],
   [Plain EXCEPT !.type = "UPDATE", !.where = "one", !.val = 2, !.blank = TRUE],
   [Plain EXCEPT !.type = "UPDATE", !.where = "one", !.expr = TRUE, !.blank = TRUE],
   [Plain EXCEPT !.type = "UPDATE", !.where = "many", !.expr = TRUE, !.blank = TRUE],
   [Plain EXCEPT !.type = "UPDATE"],
   [Plain EXCEPT !.type = "DELETE", !.where = "one"],
   [Plain EXCEPT !.type = "DELETE", !.where = "one", !.quoted = TRUE],
   [Plain EXCEPT !.type = "DELETE"], Plain}

\* A query names its tables; a cache has room for an entry: setMaxEntries makes 1 of 0.
ASSUME CacheAssumption ==
  /\ \A q \in Queries : q.from \in Tables
  /\ MaxSize \in Nat \ {0} /\ UserSizes \subseteq Nat \ {0} /\ TTL \in Nat

\* The strings in their order, each with the number that it is and the one it begins with; the
\* rows that are joined with the table have such strings.
ASSUME StringsAssumption ==
  /\ Number \in Seq(Nat) /\ Prefix \in [DOMAIN Number -> Nat]
  /\ \A v \in DOMAIN Number : Number[v] # 0 => Prefix[v] = Number[v]
  /\ MaxRows \in Nat /\ Lefts \subseteq Seq(DOMAIN Number)

VARIABLES part,
          rows, indexed, index,
          engine, user, enabled, maxEntries, buffered, holder, claims,
          versions, buffer, binlog, cdcOn, events, issued, base, apart, unseen, changed, survived

Store == INSTANCE Joins
Caches == INSTANCE QueryCaches
Feeds == INSTANCE ChangeFeeds WITH Sessions <- Writers, Keys <- RowKeys, rows <- versions

\* Only UPDATE and DELETE have a WHERE; the table that is loaded has a key once.
ASSUME FeedsAssumption ==
  /\ NVals \in Nat \ {0} /\ MaxStatements \in Nat
  /\ \A st \in Statements : st \in Feeds!Statement /\ (st.where # "none" => st.type \in {"UPDATE", "DELETE"})
  /\ Loaded \in Seq(Feeds!Version)
  /\ \A a, b \in Feeds!Visible(Loaded) : a.key = b.key => a = b

\* No definition tells one of these sessions from the other.
Symmetric == Permutations(Writers)

store == <<rows, indexed, index>>
caches == <<engine, user, enabled, maxEntries, buffered, holder, claims>>
feeds == <<versions, buffer, binlog, cdcOn, events, issued, base, apart, unseen, changed, survived>>

\* A part that does not move has one of its initial states.
AllInit(parts) ==
  /\ part \in parts
  /\ Init /\ Store!Init /\ Caches!Init /\ Feeds!Init
  /\ part # "caches" => maxEntries = 1

AllNext ==
  \/ part = "transactions" /\ Next /\ UNCHANGED <<part, store, caches, feeds>>
  \/ part = "store" /\ Store!Next /\ UNCHANGED <<part, vars, caches, feeds>>
  \/ part = "caches" /\ Caches!Next /\ UNCHANGED <<part, vars, store, feeds>>
  \/ part = "feeds" /\ Feeds!Next /\ UNCHANGED <<part, vars, store, caches>>

all == <<part, vars, store, caches, feeds>>

AllSpec == AllInit({"transactions", "store", "caches", "feeds"}) /\ [][AllNext]_all
StoreSpec == AllInit({"store"}) /\ [][AllNext]_all
CachesSpec == AllInit({"caches"}) /\ [][AllNext]_all
FeedsSpec == AllInit({"feeds"}) /\ [][AllNext]_all
-----------------------------------------------------------------------------
\* The type invariants of the components.
AllTypeOK == TypeOK /\ Store!TypeOK /\ Caches!TypeOK /\ Feeds!TypeOK

\* Stated in TableStore: a SELECT answers the same with an index and without.
IndexAgreesWithScan == part = "store" => Store!IndexAgreesWithScan
\* Stated in Joins: a join is the same with every strategy.
JoinsAgree == part = "store" => Store!JoinsAgree
\* Stated in Joins: a deleted row is not joined.
DeletedIsNotJoined == Store!DeletedIsNotJoined

\* Stated in QueryCaches: the engine's cache has no entry from before a change.
EngineCacheIsCurrent == Caches!EngineCacheIsCurrent
\* Stated in QueryCaches: no answer is older than two lifetimes.
AnswersExpire == Caches!AnswersExpire
\* Stated in QueryCaches: nor has the HTTP server's cache.
UserCacheIsCurrent == Caches!UserCacheIsCurrent
\* Stated in QueryCaches: who was answered FOR UPDATE holds the locks.
ForUpdateLocks == Caches!ForUpdateLocks

\* Stated in ChangeFeeds: whoever replays the binlog or the change events has the table.
FeedsFollowTable == Feeds!FeedsFollowTable
\* Stated in ChangeFeeds: ROLLBACK leaves nothing of a transaction.
RollbackUndoes == Feeds!RollbackUndoes
=============================================================================
