------------------------------ MODULE MemTree ------------------------------
(***************************************************************************)
(* core/mempool.go, type memTree: the fee tree of the pool, a search tree  *)
(* meant to be height-balanced.  Transactions of equal fee hang on one     *)
(* node, in the chain "same" points along.                                 *)
(*                                                                         *)
(* A tree is Nil or a node.  A node has its key, its two subtrees, the     *)
(* height it stores and its chain: the node itself first, then those       *)
(* reached through same, each with its txRec and its tx.  A call that      *)
(* panics (a nil dereference, or ErrTxRecNotFound) yields Panic, which     *)
(* every caller passes on.                                                 *)
(***************************************************************************)
EXTENDS Transaction

LOCAL INSTANCE SequencesExt

Nil == [height |-> 0]
Panic == [height |-> -1]

CreateMemTreeNode(t) ==
  [key |-> GetFees(t), chain |-> <<[rec |-> TxRecord(t), tx |-> t]>>,
   left |-> Nil, right |-> Nil, height |-> 1]

Higher(m, n) == IF m > n THEN m ELSE n

BalanceFactor(n) == IF n = Nil THEN 0 ELSE n.left.height - n.right.height

\* Mutant: the stored height is left as it was.
Grown_Stale(n) == IF Panic \in {n.left, n.right} THEN Panic ELSE n

\* n with its height recomputed after a call on a subtree.
Grown(n) ==
  IF Panic \in {n.left, n.right}
  THEN Panic
  ELSE [n EXCEPT !.height = 1 + Higher(n.left.height, n.right.height)]

\* Mutant: the middle subtree goes to the wrong side.
RightRotate_Crossed(n) ==
  IF n.left \in {Nil, Panic}
  THEN Panic
  ELSE Grown([n.left EXCEPT !.right = Grown([n EXCEPT !.left = n.right,
                                                      !.right = n.left.right])])

RightRotate(n) ==
  IF n.left \in {Nil, Panic}
  THEN Panic
  ELSE Grown([n.left EXCEPT !.right = Grown([n EXCEPT !.left = n.left.right])])

LeftRotate(n) ==
  IF n.right \in {Nil, Panic}
  THEN Panic
  ELSE Grown([n.right EXCEPT !.left = Grown([n EXCEPT !.right = n.right.left])])

\* The rotations of insertAtNode.  On the right side the two cases are taken
\* the wrong way round: two steps right get the double rotation.
BalanceAfterInsert(n, key) ==
  CASE n = Panic -> Panic
    [] BalanceFactor(n) > 1 ->
         IF key < n.left.key
         THEN RightRotate(n)
         ELSE RightRotate([n EXCEPT !.left = LeftRotate(@)])
    [] BalanceFactor(n) < -1 ->
         IF key > n.right.key
         THEN LeftRotate([n EXCEPT !.right = RightRotate(@)])
         ELSE LeftRotate(n)
    [] OTHER -> n

RECURSIVE InsertAtNode(_, _)
InsertAtNode(n, new) ==
  CASE n = Nil -> new
    [] new.key = n.key -> [n EXCEPT !.chain = @ \o new.chain]
    [] new.key < n.key ->
         BalanceAfterInsert(Grown([n EXCEPT !.left = InsertAtNode(@, new)]), new.key)
    [] new.key > n.key ->
         BalanceAfterInsert(Grown([n EXCEPT !.right = InsertAtNode(@, new)]), new.key)

RECURSIVE SmallestNode(_)
SmallestNode(n) == IF n.left = Nil THEN n ELSE SmallestNode(n.left)

\* n with the chain of its smallest node cut off behind the node itself.
RECURSIVE WithoutSmallestChain(_)
WithoutSmallestChain(n) ==
  IF n.left = Nil
  THEN [n EXCEPT !.chain = <<Head(@)>>]
  ELSE [n EXCEPT !.left = WithoutSmallestChain(@)]

BalanceAfterRemove(n) ==
  CASE n = Panic -> Panic
    [] BalanceFactor(n) > 1 ->
         IF BalanceFactor(n.left) >= 0
         THEN RightRotate(n)
         ELSE RightRotate([n EXCEPT !.left = LeftRotate(@)])
    [] BalanceFactor(n) < -1 ->
         IF BalanceFactor(n.right) <= 0
         THEN LeftRotate(n)
         ELSE LeftRotate([n EXCEPT !.right = RightRotate(@)])
    [] OTHER -> n

\* Takes rec off the chain of n, behind the node itself.
RemoveFromChain(n, rec) ==
  LET behind == {i \in 2 .. Len(n.chain) : n.chain[i].rec = rec}
  IN  IF behind = {}
      THEN Panic
      ELSE [n EXCEPT !.chain =
              RemoveAt(@, CHOOSE i \in behind : \A j \in behind : i <= j)]

\* Mutant: the chain of the successor is not brought up with it.
TakenOver_NoChain(n, s) == <<[rec |-> Head(s.chain).rec, tx |-> Head(n.chain).tx]>>

\* The chain a node with two children takes over from its successor s: key,
\* txRec and the rest of the chain, but not tx.
TakenOver(n, s) ==
  <<[rec |-> Head(s.chain).rec, tx |-> Head(n.chain).tx]>> \o Tail(s.chain)

\* removeAtNode.  Both comparisons of the search ask whether the fee is below
\* the key, so it never goes right.
RECURSIVE RemoveAtNode(_, _)
RemoveAtNode(n, rec) ==
  CASE n = Nil -> Nil
    [] n # Nil /\ rec.fee < n.key ->
         BalanceAfterRemove(Grown([n EXCEPT !.left = RemoveAtNode(@, rec)]))
    [] OTHER ->
         IF Head(n.chain).rec # rec
         THEN RemoveFromChain(n, rec)
         ELSE IF Len(n.chain) > 1
         THEN \* the next in the chain takes the place, with its own height
              [n EXCEPT !.chain = Tail(@), !.height = 1]
         ELSE IF n.left = Nil /\ n.right = Nil
         THEN Nil
         ELSE IF n.left = Nil \/ n.right = Nil
         THEN BalanceAfterRemove(Grown(IF n.left = Nil THEN n.right ELSE n.left))
         ELSE LET s == SmallestNode(n.right)
              IN  BalanceAfterRemove(Grown(
                    [n EXCEPT
                       !.key = s.key,
                       !.chain = TakenOver(n, s),
                       !.right = RemoveAtNode(WithoutSmallestChain(@),
                                              Head(s.chain).rec)]))

RECURSIVE Descending(_)
\* The transactions of a tree in the order getMaxElements visits them.
Descending(n) ==
  IF n = Nil
  THEN <<>>
  ELSE Descending(n.right) \o [i \in DOMAIN n.chain |-> n.chain[i].tx]
                           \o Descending(n.left)

\* Mutant: the first element is not counted.
MaxElements_OneMore(n, k) ==
  LET all == Descending(n)
  IN  SubSeq(all, 1, IF k < Len(all) THEN k + 1 ELSE Len(all))

\* getMaxElements: what it sends, asked for k elements.
MaxElements(n, k) ==
  LET all == Descending(n)
  IN  SubSeq(all, 1, IF k < Len(all) THEN k ELSE Len(all))

RECURSIVE Nodes(_)
\* The nodes of a tree (as subtrees).
Nodes(n) == IF n = Nil THEN {} ELSE {n} \cup Nodes(n.left) \cup Nodes(n.right)

RECURSIVE Depth(_)
\* The real height of a tree.
Depth(n) == IF n = Nil THEN 0 ELSE 1 + Higher(Depth(n.left), Depth(n.right))

=============================================================================
