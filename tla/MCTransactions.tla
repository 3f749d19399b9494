--------------------------- MODULE MCTransactions ---------------------------
(***************************************************************************)
(* Transactions on the tables, and the B-tree behind an index, side by     *)
(* side: part chooses the one that moves, the other stays in its initial   *)
(* state.  The transactions are of two kinds: with savepoints on a parent  *)
(* and a child table, and with UPDATEs of a UNIQUE key.                    *)
(***************************************************************************)
EXTENDS Transactions, TLC

CONSTANTS k1, k2, v1, v2, T, NKeys, Rows, MaxKeys

Op(type, t, k, v) ==
  [type |-> type, tbl |-> t, key |-> k, val |-> v, set |-> "val", to |-> k, quoted |-> FALSE]

\* One of each kind on one table; only the columns a kind uses differ.
OneTableOps ==
  {Op("INSERT", Parent, k1, v1), Op("INSERT", Parent, k2, v1),
   Op("UPDATE_WHERE", Parent, k1, v2), Op("UPDATE_ALL", Parent, k1, v1),
   Op("DELETE_WHERE", Parent, k1, v1), Op("DELETE_ALL", Parent, k1, v1)}

\* Rows of a parent and a child table, and a DELETE that cascades.
TwoTableOps ==
  {Op("INSERT", Parent, k1, v1), Op("INSERT", Child, k1, v1), Op("DELETE_WHERE", Parent, k1, v1)}
\* Rows of one table, an UPDATE of their key and a DELETE.
KeyOps ==
  {Op("INSERT", Parent, k1, v1), Op("INSERT", Parent, k2, v1), Op("DELETE_WHERE", Parent, k1, v1),
   [Op("UPDATE_WHERE", Parent, k1, v1) EXCEPT !.set = "key", !.to = k2]}
BothOps == TwoTableOps \cup KeyOps

\* No definition tells one session from the other, nor one savepoint name.
Symmetric == Permutations(Sessions) \cup Permutations(Names)

VARIABLES part, root

Tree == INSTANCE BTree
Family == INSTANCE Transactions WITH Ops <- TwoTableOps
Keyed == INSTANCE Transactions WITH Ops <- KeyOps, Names <- {}

all == <<part, vars, root>>

AllInit(parts) == part \in parts /\ Init /\ Tree!Init
AllNext ==
  \/ part = "family" /\ Family!Next /\ UNCHANGED <<part, root>>
  \/ part = "keys" /\ Keyed!Next /\ UNCHANGED <<part, root>>
  \/ part = "tree" /\ Tree!Next /\ UNCHANGED <<part, vars>>

AllSpec == AllInit({"family", "keys", "tree"}) /\ [][AllNext]_all
TransactionsSpec == AllInit({"transactions"}) /\ [][Next /\ UNCHANGED <<part, root>>]_all
-----------------------------------------------------------------------------
\* Stated in BTree: the tree stays balanced and its rows in order.
TreeIsBalanced == part = "tree" => Tree!TreeIsBalanced
\* Stated in BTree: the tree is the map that an index promises.
ImplementsOrderedIndex ==
  Tree!Index!Init /\ [][part = "tree" => [Tree!Index!Next]_(Tree!Index!vars)]_all
=============================================================================
