---------------------------- MODULE ChangeFeeds ----------------------------
(***************************************************************************)
(* What leaves the engine beside its tables: the binlog that replicas      *)
(* replay (dispatchCommand writes it, src/dispatch.hpp) and the change     *)
(* events of a table with CDC (src/cdc/cdc_manager.hpp, recorded by        *)
(* insertRow, updateWhere, updateWhereConds, deleteWhere and               *)
(* deleteWhereConds of src/engine/engine.hpp), for every statement that    *)
(* changes rows, in a transaction and outside.  A statement runs under the *)
(* server's engineMutex_, so it is one step.                               *)
(*                                                                         *)
(* One table whose key is UNIQUE.  UPDATE sets val and selects on key.     *)
(* Left out: savepoints and VACUUM (see Transactions), triggers, foreign   *)
(* keys, inherited and partitioned tables, the text of events.             *)
(***************************************************************************)
EXTENDS Naturals, Sequences, Selections

CONSTANTS Sessions, Keys,
          Loaded,        \* the rows read from the database file, by the replica too
          NVals,         \* the values are 1 .. NVals
          Statements,    \* the statements the sessions issue
          MaxStatements  \* bound: statements issued and COMMITs that failed

VARIABLES rows,      \* the table's row versions
          buffer,    \* sessions with an open transaction -> txBuffer
          binlog,    \* the statements in database.binlog
          cdcOn,     \* enabled_
          events,    \* log_
          issued,    \* statements issued and COMMITs that failed
          base,      \* history: the table when CDC was enabled, and the events before
          apart,     \* history: a statement was logged that was not applied, or not logged that was
          unseen,    \* history: since then, statements that record nothing
          changed,   \* history: sessions whose open transaction already changed the table
          survived   \* history: changes of a transaction that was rolled back

vars == <<rows, buffer, binlog, cdcOn, events, issued, base, apart, unseen, changed, survived>>

Values == 1 .. NVals
Text == 0      \* an expression that was not evaluated, in an event
Image == [key : Keys, val : Values \cup {Text}]
Version == [key : Keys, val : Values, dead : BOOLEAN]
\* where: the number of conditions; quoted: the value of the condition is written in quotes,
\* the rows have it without; expr: the new value is an expression of the old one; blank: the
\* new value has a blank in it, as an expression has, and as a literal may.
Statement == [type : {"INSERT", "REPLACE", "IGNORE", "UPDATE", "DELETE", "TRUNCATE"},
              keys : Seq(Keys), where : {"none", "one", "many"}, quoted : BOOLEAN,
              expr : BOOLEAN, blank : BOOLEAN, val : Values]

InTx == DOMAIN buffer
ImageOf(row) == [key |-> row.key, val |-> row.val]
\* What a SELECT with a WHERE returns.
Visible(rs) == {ImageOf(rs[i]) : i \in {j \in DOMAIN rs : ~rs[j].dead}}

\* The shape of the state; a key is visible once.
TypeOK ==
  /\ rows \in Seq(Version)
  /\ \A a, b \in Visible(rows) : a.key = b.key => a = b
  /\ InTx \subseteq Sessions /\ \A s \in InTx : buffer[s] \in Seq(Statement)
  /\ binlog \in Seq(Statements) /\ issued \in 0 .. MaxStatements
  /\ events \in Seq([old : SUBSET Image, new : SUBSET Image])
  /\ base.rows \subseteq Image /\ base.events \in 0 .. Len(events)
  /\ {cdcOn, apart, unseen, survived} \subseteq BOOLEAN
  /\ changed \subseteq InTx

Init ==
  /\ rows = Loaded /\ buffer = [s \in {} |-> <<>>] /\ binlog = <<>>
  /\ cdcOn = FALSE /\ events = <<>> /\ issued = 0
  /\ base = [rows |-> Visible(Loaded), events |-> 0]
  /\ apart = FALSE /\ unseen = FALSE /\ changed = {} /\ survived = FALSE
-----------------------------------------------------------------------------
(* What a statement does to the rows *)

Matches(st, row) == st.where = "none" \/ \E i \in DOMAIN st.keys : st.keys[i] = row.key
Matching(rs, st) == {i \in DOMAIN rs : Matches(st, rs[i])}
Conflicts(row, k) == ~row.dead /\ row.key = k

\* insertRow, insertOrReplace, insertOrIgnore for the next key; INSERT throws on a conflict.
InsertNext(acc, st, k) ==
  LET rs == acc.rows
      held == {i \in DOMAIN rs : Conflicts(rs[i], k)}
      new == [key |-> k, val |-> st.val, dead |-> FALSE]
  IN  IF ~acc.ok \/ (held # {} /\ st.type = "IGNORE") THEN acc
      ELSE IF held # {} /\ st.type = "INSERT" THEN [acc EXCEPT !.ok = FALSE]
      ELSE [acc EXCEPT !.rows = Append(Picked(rs, DOMAIN rs \ held), new)]

\* The rows of the statement, one after the other.
InsertRows(acc, st) ==
  LET after[n \in 0 .. Len(st.keys)] ==
        IF n = 0 THEN acc ELSE InsertNext(after[n - 1], st, st.keys[n])
  IN  after[Len(st.keys)]

\* evalSetExpr, of an expression that changes the value.
EvalSetExpr(v) == 1 + (v % NVals)
UpdatedRow(st, row) ==
  IF ~Matches(st, row) THEN row
  ELSE [row EXCEPT !.val = IF st.expr THEN EvalSetExpr(@) ELSE st.val]

\* A statement outside a transaction, as a replica executes it too: deleted versions are
\* updated and deleted like the others.
Executed(acc, st) ==
  CASE st.type \in {"INSERT", "REPLACE", "IGNORE"} -> InsertRows(acc, st)
    [] st.type = "UPDATE" -> [acc EXCEPT !.rows = [i \in DOMAIN @ |-> UpdatedRow(st, @[i])]]
    [] st.type \in {"DELETE", "TRUNCATE"} ->
         [acc EXCEPT !.rows = Picked(@, DOMAIN @ \ Matching(@, st))]

\* matchedRows of deleteWhere, and stampDeleteWhere, compare with the text as it is written.
AsWritten(st) == ~(st.where = "one" /\ st.quoted)
\* hasExpr of updateWhere: a value of several words is taken for an expression.
HasExpr(st) == st.where = "one" /\ st.blank

\* applyOp in a COMMIT: DELETE only marks the rows.
MarkedRow(st, row) == [row EXCEPT !.dead = @ \/ (AsWritten(st) /\ Matches(st, row))]
Applied(acc, op) ==
  IF acc.ok /\ op.type = "DELETE"
  THEN [acc EXCEPT !.rows = [i \in DOMAIN @ |-> MarkedRow(op, @[i])]]
  ELSE IF acc.ok THEN Executed(acc, op) ELSE acc

Start(rs) == [rows |-> rs, ok |-> TRUE]

\* applyAndCommit: the operations of a buffer, up to one that throws.
ApplyAll(rs, ops) ==
  LET after[n \in 0 .. Len(ops)] == IF n = 0 THEN Start(rs) ELSE Applied(after[n - 1], ops[n])
  IN  after[Len(ops)]
-----------------------------------------------------------------------------
(* What a statement leaves in the binlog and in the events *)

\* The UPDATE, DELETE, INSERT and TRUNCATE cases of dispatchCommand, when nothing throws: with
\* a WHERE only if a row was counted.
Logged(rs, st) == st.where = "none" \/ Matching(rs, st) # {}

\* Mutant: the old rows are collected when they have been updated.
Recorded_OldAfter(rs, st) ==
  LET after == Executed(Start(rs), st).rows
      matched == Picked(IF st.type = "UPDATE" THEN after ELSE rs, Matching(rs, st))
      inserted == SubSeq(after, Len(rs) + 1, Len(after))
      NewOf(r) == [key |-> r.key, val |-> IF st.expr THEN Text ELSE st.val]
  IN  CASE st.type = "INSERT" ->
             [i \in DOMAIN inserted |-> [old |-> {}, new |-> {ImageOf(inserted[i])}]]
        [] st.type = "UPDATE" /\ st.where # "none" /\ ~HasExpr(st) ->
             [i \in DOMAIN matched |-> [old |-> {ImageOf(matched[i])}, new |-> {NewOf(matched[i])}]]
        [] st.type = "DELETE" /\ st.where # "none" /\ AsWritten(st) ->
             [i \in DOMAIN matched |-> [old |-> {ImageOf(matched[i])}, new |-> {}]]
        [] OTHER -> <<>>
\* The CDC hooks: an event for each row of an INSERT, and for each row version that an UPDATE
\* or DELETE with a WHERE matches.  UPDATE with one condition and a value with a blank has no
\* hook, with several it records an expression's text; DELETE with one condition looks for the
\* value with its quotes, which no row has.
Recorded(rs, st) ==
  LET after == Executed(Start(rs), st).rows
      matched == Picked(rs, Matching(rs, st))
      inserted == SubSeq(after, Len(rs) + 1, Len(after))
      NewOf(r) == [key |-> r.key, val |-> IF st.expr THEN Text ELSE st.val]
  IN  CASE st.type = "INSERT" ->
             [i \in DOMAIN inserted |-> [old |-> {}, new |-> {ImageOf(inserted[i])}]]
        [] st.type = "UPDATE" /\ st.where # "none" /\ ~HasExpr(st) ->
             [i \in DOMAIN matched |-> [old |-> {ImageOf(matched[i])}, new |-> {NewOf(matched[i])}]]
        [] st.type = "DELETE" /\ st.where # "none" /\ AsWritten(st) ->
             [i \in DOMAIN matched |-> [old |-> {ImageOf(matched[i])}, new |-> {}]]
        [] OTHER -> <<>>

\* The statements whose every effect outside a transaction has an event.
Tracked(st) ==
  \/ st.type = "INSERT"
  \/ st.type = "UPDATE" /\ st.where # "none" /\ ~st.expr /\ ~HasExpr(st)
  \/ st.type = "DELETE" /\ st.where # "none" /\ AsWritten(st)
-----------------------------------------------------------------------------
(* Statements *)

\* Executed at once in a transaction too: TRUNCATE, and UPDATE with one condition and what is
\* taken for an expression.
Immediate(st) == st.type = "TRUNCATE" \/ (st.type = "UPDATE" /\ HasExpr(st))
\* These throw in a transaction.
Refused(st) == st.type \in {"REPLACE", "IGNORE"} \/ st.where = "many"

\* persistFn, then dispatch_binlogWrite: a save that fails throws before it.
Log(st) == \E saved \in BOOLEAN :
  /\ binlog' = IF saved THEN Append(binlog, st) ELSE binlog
  /\ apart' = (apart \/ ~saved)

Direct(s, st) ==
  LET result == Executed(Start(rows), st)
  IN  /\ issued < MaxStatements /\ issued' = issued + 1
      /\ s \in InTx => Immediate(st)
      /\ rows' = result.rows
      /\ events' = IF cdcOn THEN events \o Recorded(rows, st) ELSE events
      /\ IF result.ok /\ Logged(rows, st) THEN Log(st)
         ELSE binlog' = binlog /\ apart' = (apart \/ ~result.ok)
      /\ unseen' = (unseen \/ ~Tracked(st))
      /\ changed' = IF s \in InTx /\ st.type # "TRUNCATE" /\ Visible(rows') # Visible(rows)
                    THEN changed \cup {s} ELSE changed
      /\ UNCHANGED <<buffer, cdcOn, base, survived>>

\* In a transaction: an INSERT is an operation per row.  The caller is told of 0 rows, which
\* writes to the binlog all but UPDATE and DELETE with a WHERE.
Buffer(s, st) ==
  LET ops == IF st.type = "INSERT" THEN [i \in DOMAIN st.keys |-> [st EXCEPT !.keys = <<st.keys[i]>>]]
             ELSE <<st>>
  IN  /\ issued < MaxStatements /\ issued' = issued + 1
      /\ s \in InTx /\ ~Immediate(st) /\ ~Refused(st)
      /\ buffer' = [buffer EXCEPT ![s] = @ \o ops]
      /\ binlog' \in IF st.where = "none" THEN {binlog, Append(binlog, st)} ELSE {binlog}
      /\ apart' = (apart \/ st.where = "none")
      /\ UNCHANGED <<rows, cdcOn, events, base, unseen, changed, survived>>

Begin(s) ==
  /\ s \notin InTx
  /\ buffer' = [x \in InTx \cup {s} |-> IF x = s THEN <<>> ELSE buffer[x]]
  /\ UNCHANGED <<rows, binlog, cdcOn, events, issued, base, apart, unseen, changed, survived>>

\* COMMIT applies the buffer, and writes to neither feed.
Commit(s) ==
  LET result == ApplyAll(rows, buffer[s])
  IN  /\ s \in InTx /\ result.ok
      /\ rows' = result.rows
      /\ buffer' = [x \in InTx \ {s} |-> buffer[x]]
      /\ changed' = changed \ {s}
      /\ apart' = (apart \/ buffer[s] # <<>>) /\ unseen' = (unseen \/ buffer[s] # <<>>)
      /\ UNCHANGED <<binlog, cdcOn, events, issued, base, survived>>

\* COMMIT when an INSERT conflicts: what came before it stays, and the transaction open.
CommitThrows(s) ==
  LET result == ApplyAll(rows, buffer[s])
  IN  /\ issued < MaxStatements /\ issued' = issued + 1
      /\ s \in InTx /\ ~result.ok
      /\ rows' = result.rows
      /\ changed' = IF Visible(rows') # Visible(rows) THEN changed \cup {s} ELSE changed
      /\ apart' = TRUE /\ unseen' = TRUE
      /\ UNCHANGED <<buffer, binlog, cdcOn, events, base, survived>>

Rollback(s) ==
  /\ s \in InTx
  /\ buffer' = [x \in InTx \ {s} |-> buffer[x]]
  /\ changed' = changed \ {s}
  /\ survived' = (survived \/ s \in changed)
  /\ UNCHANGED <<rows, binlog, cdcOn, events, issued, base, apart, unseen>>

\* ALTER TABLE ... ENABLE CDC and DISABLE CDC; the events stay.
EnableCdc ==
  /\ ~cdcOn /\ cdcOn' = TRUE
  /\ base' = [rows |-> Visible(rows), events |-> Len(events)] /\ unseen' = FALSE
  /\ UNCHANGED <<rows, buffer, binlog, events, issued, apart, changed, survived>>
DisableCdc ==
  /\ cdcOn /\ cdcOn' = FALSE
  /\ UNCHANGED <<rows, buffer, binlog, events, issued, base, apart, unseen, changed, survived>>

Next ==
  \/ EnableCdc \/ DisableCdc
  \/ \E s \in Sessions :
       \/ Begin(s) \/ Commit(s) \/ CommitThrows(s) \/ Rollback(s)
       \/ \E st \in Statements : Direct(s, st) \/ Buffer(s, st)

Spec == Init /\ [][Next]_vars
-----------------------------------------------------------------------------
\* A replica that executes the statements of a binlog, from the same database file on.
ReplicaRows(log) ==
  LET after[n \in 0 .. Len(log)] ==
        IF n = 0 THEN Loaded ELSE Executed(Start(after[n - 1]), log[n]).rows
  IN  after[Len(log)]
Replica == Visible(ReplicaRows(binlog))

\* A reader that follows the events: it replaces a row that it has.
Followed(acc, e) == IF e.old \subseteq acc THEN (acc \ e.old) \cup e.new ELSE acc
FollowAll(start, evs) ==
  LET after[n \in 0 .. Len(evs)] == IF n = 0 THEN start ELSE Followed(after[n - 1], evs[n])
  IN  after[Len(evs)]
Follower == FollowAll(base.rows, SubSeq(events, base.events + 1, Len(events)))

\* Whoever replays a feed has the table.  The binlog: as long as no transaction logged a
\* statement or committed one, no INSERT failed at a later row and no save failed.  The
\* events: since CDC was enabled, as long as only these were executed, outside transactions:
\* INSERT; UPDATE with a WHERE that sets literals, of one word unless it has several
\* conditions; DELETE with several conditions, or one whose value is not in quotes.  Also when an
\* INSERT failed half way and when the table holds versions that transactions deleted.
FeedsFollowTable ==
  /\ ~apart => Replica = Visible(rows)
  /\ cdcOn /\ ~unseen => Follower = Visible(rows)

\* docs/sql-reference.html:859, "ROLLBACK; -- undoes the delete", of the statements between
\* BEGIN and ROLLBACK (DML; TRUNCATE is DDL): nothing a transaction changed stays when it is
\* rolled back.
RollbackUndoes == ~survived
=============================================================================
