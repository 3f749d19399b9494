---------------------------- MODULE SerialStore ----------------------------
(***************************************************************************)
(* What the engine promises its sessions: tables change only by whole      *)
(* statements outside transactions and by whole transactions at COMMIT.    *)
(* No row versions, ids, stamps or VACUUM here; rows are <<key, value>>.   *)
(* One thing depends on the transaction: a DELETE in one whose condition   *)
(* has a value in quotes deletes nothing.                                  *)
(***************************************************************************)
EXTENDS Naturals, Sequences, Selections

CONSTANTS Sessions, Tables,
          Ops   \* the statements: [type, tbl, key, val, set, to, quoted]

VARIABLES content,   \* table -> sequence of [key, val]
          open,      \* the sessions with a transaction in progress
          buffer     \* session -> the statements its transaction will apply

vars == <<content, open, buffer>>

\* UPDATE of a row.
Set(row, op) == IF op.set = "val" THEN [row EXCEPT !.val = op.val] ELSE [row EXCEPT !.key = op.to]

\* The effect of one statement on the contents of its table, at once and at COMMIT.
Effect(rows, op) ==
  CASE op.type = "INSERT" -> Append(rows, [key |-> op.key, val |-> op.val])
    [] op.type = "UPDATE_WHERE" ->
         [i \in DOMAIN rows |-> IF rows[i].key = op.key THEN Set(rows[i], op) ELSE rows[i]]
    [] op.type = "UPDATE_ALL" -> [i \in DOMAIN rows |-> Set(rows[i], op)]
    [] op.type = "DELETE_WHERE" -> Picked(rows, {i \in DOMAIN rows : rows[i].key # op.key})
    [] op.type = "DELETE_ALL" -> <<>>
EffectAtCommit(rows, op) ==
  IF op.type = "DELETE_WHERE" /\ op.quoted THEN rows ELSE Effect(rows, op)

Run(db, op) == [db EXCEPT ![op.tbl] = Effect(@, op)]
RunAtCommit(db, op) == [db EXCEPT ![op.tbl] = EffectAtCommit(@, op)]
\* The statements ops of a transaction, one after the other.
RunAll(db, ops) ==
  LET after[n \in 0 .. Len(ops)] == IF n = 0 THEN db ELSE RunAtCommit(after[n - 1], ops[n])
  IN  after[Len(ops)]

Init == /\ content = [t \in Tables |-> <<>>]
        /\ open = {}
        /\ buffer = [s \in Sessions |-> <<>>]

Begin(s) ==
  /\ s \notin open
  /\ open' = open \cup {s}
  /\ buffer' = [buffer EXCEPT ![s] = <<>>]
  /\ UNCHANGED content

\* A statement outside a transaction takes effect at once.
AutoCommit(op) ==
  /\ content' = Run(content, op)
  /\ UNCHANGED <<open, buffer>>

\* A statement inside a transaction takes effect at COMMIT.
Defer(s, op) ==
  /\ s \in open
  /\ buffer' = [buffer EXCEPT ![s] = Append(@, op)]
  /\ UNCHANGED <<content, open>>

\* ROLLBACK TO SAVEPOINT forgets the latest statements.
Forget(s, n) ==
  /\ s \in open
  /\ n \in 0 .. Len(buffer[s])
  /\ buffer' = [buffer EXCEPT ![s] = SubSeq(@, 1, n)]
  /\ UNCHANGED <<content, open>>

\* TRUNCATE is not part of any transaction.
Truncate(t) ==
  /\ content' = [content EXCEPT ![t] = <<>>]
  /\ UNCHANGED <<open, buffer>>

Commit(s) ==
  /\ s \in open
  /\ content' = RunAll(content, buffer[s])
  /\ open' = open \ {s}
  /\ buffer' = [buffer EXCEPT ![s] = <<>>]

Rollback(s) ==
  /\ s \in open
  /\ open' = open \ {s}
  /\ buffer' = [buffer EXCEPT ![s] = <<>>]
  /\ UNCHANGED content

Next ==
  \/ \E op \in Ops : AutoCommit(op)
  \/ \E t \in Tables : Truncate(t)
  \/ \E s \in Sessions :
       \/ Begin(s) \/ Commit(s) \/ Rollback(s)
       \/ \E op \in Ops : Defer(s, op)
       \/ \E n \in 0 .. Len(buffer[s]) : Forget(s, n)

Spec == Init /\ [][Next]_vars
=============================================================================
