---------------------------- MODULE QueryCaches ----------------------------
(***************************************************************************)
(* The two result caches: the engine's (src/cache/query_cache.hpp, used by *)
(* SELECT in dispatch.hpp) and the one of the HTTP server in front of it   *)
(* (src/cache/user_query_cache.hpp, used by handleQueryForUser).  Every    *)
(* statement runs under the server's engineMutex_, so it is one step.      *)
(*                                                                         *)
(* What a result says is left out: an entry remembers whether its tables   *)
(* have changed since it was stored.  Its ages are counted in ticks up to  *)
(* the point from where they make no difference.                           *)
(***************************************************************************)
EXTENDS Naturals, Sequences, FiniteSets, Selections

CONSTANTS Sessions, Tables, NoSession,
          Parent,       \* child table -> the table it INHERITS
          Queries,      \* records [from, also, lock]: first table, joined tables, FOR UPDATE
          MaxSize,      \* maxSize_
          UserSizes,    \* what query_cache_size is set to
          TTL

VARIABLES engine, user,    \* the caches, most recently used entry first
          enabled,         \* enabled_ of the engine's cache
          maxEntries,      \* maxEntries_ of the HTTP server's cache
          buffered,        \* sessions with an open transaction -> the tables it changes
          holder,          \* table -> the session that holds its row locks
          claims           \* history: <<session, table>> answered FOR UPDATE in its transaction

vars == <<engine, user, enabled, maxEntries, buffered, holder, claims>>

Entry == [key : Queries,
          table : Tables,           \* what invalidates it
          missed : {"no", "silently", "yes"},  \* history: its tables have changed since then
          age : 0..(TTL + 1),       \* since it was stored
          since : 0..(2 * TTL + 1)] \* history: since the query was evaluated

\* The tables whose rows a SELECT FROM t returns: t and those that inherit from it.
Children(t) == {c \in DOMAIN Parent : Parent[c] = t}
Family(t) == {t} \cup Children(t)
InTx == DOMAIN buffered

\* The shape of the state; the caches stay within their limits, also when a limit is
\* lowered, and hold a query once.
TypeOK ==
  /\ engine \in Seq(Entry) /\ Len(engine) <= MaxSize
  /\ user \in Seq(Entry) /\ Len(user) <= maxEntries
  /\ \A c \in {engine, user} : \A i, j \in DOMAIN c : c[i].key = c[j].key => i = j
  /\ enabled \in BOOLEAN /\ maxEntries \in UserSizes
  /\ InTx \subseteq Sessions /\ \A s \in InTx : buffered[s] \subseteq Tables
  /\ holder \in [Tables -> Sessions \cup {NoSession}]
  /\ claims \subseteq Sessions \X Tables

Init ==
  /\ engine = <<>> /\ user = <<>> /\ enabled = TRUE /\ maxEntries \in UserSizes
  /\ buffered = [s \in {} |-> {}] /\ holder = [t \in Tables |-> NoSession]
  /\ claims = {}
-----------------------------------------------------------------------------
(* The operations of a cache, a sequence with the most recently used entry first. *)

Entries(c) == {c[i] : i \in DOMAIN c}
Keys(c) == {e.key : e \in Entries(c)}
Lookup(c, k) == CHOOSE e \in Entries(c) : e.key = k
Drop(c, k) == Picked(c, {i \in DOMAIN c : c[i].key # k})
First(c, n) == Picked(c, {i \in DOMAIN c : i <= n})

\* get: there is an entry, and it is not too old.
Hit(c, k) == k \in Keys(c) /\ Lookup(c, k).age <= TTL

\* Mutant: a hit renews the age.
Touch_Renew(c, k) == <<[Lookup(c, k) EXCEPT !.age = 0]>> \o Drop(c, k)
\* A hit: the entry moves to the front and keeps its age.
Touch(c, k) == <<Lookup(c, k)>> \o Drop(c, k)

\* Mutant: evicts when the cache is over its limit, not at it.
EnginePut_LateEviction(c, e) ==
  <<e>> \o Drop(IF Len(c) > MaxSize THEN First(c, Len(c) - 1) ELSE c, e.key)
\* QueryCache::put: a full cache loses its oldest entry, also when the key is replaced.
EnginePut(c, e) ==
  <<e>> \o Drop(IF Len(c) >= MaxSize THEN First(c, Len(c) - 1) ELSE c, e.key)

\* UserQueryCache::put.
UserPut(e) == <<e>> \o First(Drop(user, e.key), maxEntries - 1)

\* invalidate: every entry of these tables, whether the cache is switched on or not.
Invalidate(c, ts) == Picked(c, {i \in DOMAIN c : c[i].table \notin ts})

\* Mutant: the ancestors' entries stay.
Affected_NoAncestors(t) == {t}
\* Engine::invalidateCache: the table and its ancestors.
Affected(t) == {a \in Tables : t \in Family(a)}

\* History: what the entries of the tables ts answer has changed.
Outdate(c, ts, how) == [i \in DOMAIN c |->
  IF c[i].table \in ts /\ c[i].missed # "yes" THEN [c[i] EXCEPT !.missed = how] ELSE c[i]]
\* The tables FROM which a SELECT reads one of ts.
Readers(ts) == {a \in Tables : ts \cap Family(a) # {}}
-----------------------------------------------------------------------------
(* SELECT, as dispatchCommand executes it. *)

Fresh(q) == [key |-> q, table |-> q.from, missed |-> "no", age |-> 0, since |-> 0]
\* Joins are not cached by the engine.
Cached(q) == enabled /\ q.also = {}

CacheHit(s, q, e) ==
  /\ Cached(q) /\ Hit(engine, q)
  /\ e = Lookup(engine, q)
  /\ engine' = Touch(engine, q)
  /\ UNCHANGED holder

\* A miss, which drops an entry that is too old: evaluate, FOR UPDATE take the locks or
\* fail, and store the output unless it is an empty result.
CacheMiss(s, q, e) ==
  /\ ~(Cached(q) /\ Hit(engine, q))
  /\ e = Fresh(q)
  /\ IF q.lock
     THEN holder[q.from] \in {s, NoSession} /\ holder' = [holder EXCEPT ![q.from] = s]
     ELSE UNCHANGED holder
  /\ IF Cached(q)
     THEN engine' \in {Drop(engine, q), EnginePut(Drop(engine, q), e)}
     ELSE UNCHANGED engine

\* The answer is e.
Answered(s, q, e) ==
  /\ e \in {Fresh(q)} \cup Entries(engine)
  /\ CacheHit(s, q, e) \/ CacheMiss(s, q, e)

\* What a transaction was promised.
Claimed(s, q) == IF q.lock /\ s \in InTx THEN claims \cup {<<s, q.from>>} ELSE claims

\* A client of the TCP server or the REPL.
Select(s, q) ==
  /\ \E e \in {Fresh(q)} \cup Entries(engine) : Answered(s, q, e)
  /\ claims' = Claimed(s, q)
  /\ UNCHANGED <<user, enabled, maxEntries, buffered>>

\* What the HTTP server stores: an entry as old as new, under the first table of FROM.
StoredByHttp(e) == [e EXCEPT !.age = 0, !.missed = "no"]

\* handleQueryForUser with a SELECT: its own cache first, then the engine.
HttpSelect(s, q) ==
  /\ claims' = Claimed(s, q)
  /\ \/ /\ Hit(user, q)
        /\ user' = Touch(user, q)
        /\ UNCHANGED <<engine, holder>>
     \/ /\ ~Hit(user, q)
        /\ \E e \in {Fresh(q)} \cup Entries(engine) :
             Answered(s, q, e) /\ user' = UserPut(StoredByHttp(e))
  /\ UNCHANGED <<enabled, maxEntries, buffered>>
-----------------------------------------------------------------------------
(* Statements that change a table.  A transaction buffers its changes.                     *)

\* What handleQueryForUser invalidates after a statement: the name begins 7 characters after
\* the start of " TABLE ", " INTO " or " FROM ", so INSERT and DELETE ("INSERT" here) lose its
\* first letter and name no table, unlike UPDATE and TRUNCATE ("UPDATE").
HttpInvalidates(by, t) == IF by = "UPDATE" THEN {t} ELSE {}

\* INSERT, UPDATE, DELETE and TRUNCATE, over HTTP (by says which) or not (by = "TCP"): change
\* the table or buffer the change, and invalidate; UPDATE and DELETE with a WHERE that are
\* buffered leave the engine's cache alone.  In a transaction TRUNCATE and an UPDATE with an
\* expression change the table all the same.
Write(s, by, t) ==
  \E changed \in {{t}} \cup (IF s \in InTx THEN {{}} ELSE {}) :
    /\ buffered' = IF changed = {} THEN [buffered EXCEPT ![s] = @ \cup {t}] ELSE buffered
    /\ engine' \in {Outdate(Invalidate(engine, Affected(t)), Readers(changed), "yes")}
                   \cup (IF changed = {} THEN {engine} ELSE {})
    /\ user' = Outdate(Invalidate(user, HttpInvalidates(by, t)),
                       IF by = "TCP" THEN {} ELSE changed, "yes")
    /\ UNCHANGED <<enabled, maxEntries, holder, claims>>

\* A change that does not come to invalidateCache: the statement ends in an error, because a
\* later row of an INSERT is refused or the save fails; or it is REPLACE, INSERT IGNORE or
\* the action of a foreign key on t, in a transaction too.
WriteUnseen(t) ==
  /\ engine' = Outdate(engine, Readers({t}), "silently")
  /\ UNCHANGED <<user, enabled, maxEntries, buffered, holder, claims>>
-----------------------------------------------------------------------------
Begin(s) ==
  /\ s \notin InTx
  /\ buffered' = [x \in InTx \cup {s} |-> IF x = s THEN {} ELSE buffered[x]]
  /\ UNCHANGED <<engine, user, enabled, maxEntries, holder, claims>>

\* The transaction of s ends.
Ended(s) ==
  /\ s \in InTx
  /\ buffered' = [x \in InTx \ {s} |-> buffered[x]]
  /\ holder' = [t \in Tables |-> IF holder[t] = s THEN NoSession ELSE holder[t]]
  /\ claims' = {c \in claims : c[1] # s}
  /\ UNCHANGED <<enabled, maxEntries>>

\* COMMIT applies the changes and clears the engine's cache.
Commit(s) ==
  /\ Ended(s)
  /\ engine' = <<>>
  /\ UNCHANGED user

\* COMMIT fails at an operation: those before it have changed their tables, the cache is not
\* cleared and the transaction stays open.
CommitThrows(s) ==
  /\ s \in InTx
  /\ \E ts \in SUBSET buffered[s] : engine' = Outdate(engine, Readers(ts), "silently")
  /\ UNCHANGED <<user, enabled, maxEntries, buffered, holder, claims>>

Rollback(s) == Ended(s) /\ UNCHANGED <<engine, user>>

\* SET CACHE ON | OFF: the entries stay.
SetEnabled(b) ==
  /\ enabled' = b
  /\ UNCHANGED <<engine, user, maxEntries, buffered, holder, claims>>

\* SET query_cache_size.
SetMaxEntries(n) ==
  /\ maxEntries' = n /\ enabled' = TRUE
  /\ user' = First(user, n)
  /\ UNCHANGED <<engine, buffered, holder, claims>>

\* FLUSH QUERY CACHE, and USE BRANCH.
Flush ==
  /\ engine' = <<>> /\ user' = <<>>
  /\ UNCHANGED <<enabled, maxEntries, buffered, holder, claims>>

Older(e) == [e EXCEPT !.age = IF @ > TTL THEN @ ELSE @ + 1,
                      !.since = IF @ > 2 * TTL THEN @ ELSE @ + 1]
Tick ==
  /\ engine' = [i \in DOMAIN engine |-> Older(engine[i])]
  /\ user' = [i \in DOMAIN user |-> Older(user[i])]
  /\ UNCHANGED <<enabled, maxEntries, buffered, holder, claims>>

Next ==
  \/ Flush \/ Tick
  \/ \E b \in BOOLEAN : SetEnabled(b)
  \/ \E n \in UserSizes : SetMaxEntries(n)
  \/ \E t \in Tables : WriteUnseen(t)
  \/ \E s \in Sessions :
       \/ \E q \in Queries : Select(s, q) \/ HttpSelect(s, q)
       \/ \E t \in Tables, by \in {"TCP", "INSERT", "UPDATE"} : Write(s, by, t)
       \/ Begin(s) \/ Commit(s) \/ CommitThrows(s) \/ Rollback(s)

Spec == Init /\ [][Next]_vars
-----------------------------------------------------------------------------
\* The engine's cache has no entry from before a statement or a COMMIT that changed the
\* query's table or a table that inherits from it and was answered with success, also when
\* the cache was off meanwhile.  REPLACE, INSERT IGNORE, the actions of foreign keys and
\* statements that end in an error are excepted: they leave a stale entry until it expires
\* or another statement changes the table.
EngineCacheIsCurrent ==
  \A i \in DOMAIN engine : engine[i].missed # "yes"

\* No answer is older than the two lifetimes an entry can have, the second one in the HTTP
\* server's cache, which stores what the engine's cache answered as if it were new.  This
\* also bounds how long a change that invalidates nothing stays unseen.
AnswersExpire ==
  /\ \A i \in DOMAIN engine : engine[i].age <= TTL => engine[i].since <= TTL
  /\ \A i \in DOMAIN user : user[i].age <= TTL => user[i].since <= 2 * TTL

\* user_query_cache.hpp:6, "Invalidated on INSERT/UPDATE/DELETE/DDL for affected table": no
\* entry of the HTTP server's cache is from before a change made over HTTP to its table.
UserCacheIsCurrent == \A i \in DOMAIN user : user[i].missed # "yes"

\* docs/architecture.html:782, "SELECT FOR UPDATE acquires a row-level exclusive lock via the
\* lock manager": a transaction that was answered FOR UPDATE holds the locks until it ends.
ForUpdateLocks == \A c \in claims : holder[c[2]] = c[1]
=============================================================================
