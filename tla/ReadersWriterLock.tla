------------------------- MODULE ReadersWriterLock -------------------------
(***************************************************************************)
(* What a table lock promises: per table, any number of readers or one     *)
(* writer.  The abstract specification that LockManager (LOCK TABLE) is    *)
(* shown to implement.  Nothing here refers to how the locks are kept.     *)
(***************************************************************************)
CONSTANTS Threads, Tables

VARIABLES readers,   \* table -> the threads that hold it shared
          writers    \* table -> the threads that hold it exclusively

vars == <<readers, writers>>

Init == /\ readers = [t \in Tables |-> {}]
        /\ writers = [t \in Tables |-> {}]

\* A table no other thread holds exclusively may be shared.
GrantRead(th, t) ==
  /\ writers[t] \subseteq {th}
  /\ readers' = [readers EXCEPT ![t] = @ \cup {th}]
  /\ writers' = [writers EXCEPT ![t] = {}]

\* A table no other thread holds in any mode may be held exclusively.
GrantWrite(th, t) ==
  /\ readers[t] \cup writers[t] \subseteq {th}
  /\ readers' = [readers EXCEPT ![t] = {}]
  /\ writers' = [writers EXCEPT ![t] = {th}]

\* A thread gives up everything it holds.
ReleaseAll(th) ==
  /\ readers' = [t \in Tables |-> readers[t] \ {th}]
  /\ writers' = [t \in Tables |-> writers[t] \ {th}]

Next == \E th \in Threads :
          \/ ReleaseAll(th)
          \/ \E t \in Tables : GrantRead(th, t) \/ GrantWrite(th, t)

Spec == Init /\ [][Next]_vars
=============================================================================
