---------------------------- MODULE MempoolTree ----------------------------
(***************************************************************************)
(* core/mempool.go, type MemPool with its fee tree.  Implements Mempool:   *)
(* a panic of the tree is a death of the process.                          *)
(*                                                                         *)
(* The chainstate is fixed here; Mempool lets it change.                   *)
(***************************************************************************)
EXTENDS MemTree, FiniteSets

VARIABLES
  txmap,           \* TXID -> fee of every pooled transaction
  outsReferenced,  \* the outputs referred to by pooled transactions
  root,            \* internalTree.root
  alive,           \* the process runs
  removed          \* history: the pool had a removal since the process started

vars == <<txmap, outsReferenced, root, alive, removed>>

Init ==
  /\ txmap = [i \in {} |-> 0]
  /\ outsReferenced = {}
  /\ root = Nil
  /\ alive = TRUE
  /\ removed = FALSE

\* AddTX gets as far as the tree.
Accepts(t) ==
  /\ alive
  /\ ValidateTransaction(t, Outpoint)
  /\ InputSet(t) \cap outsReferenced = {}

Inserted(t) == InsertAtNode(root, CreateMemTreeNode(t))
Removed(t) == RemoveAtNode(root, TxRecord(t))

\* The process ends, by itself or through a panic, with all its memory.
Die ==
  /\ alive' = FALSE
  /\ txmap' = [i \in {} |-> 0]
  /\ outsReferenced' = {}
  /\ root' = Nil
  /\ removed' = FALSE

AddTX(t) ==
  /\ Accepts(t)
  /\ Inserted(t) # Panic
  /\ outsReferenced' = outsReferenced \cup InputSet(t)
  /\ txmap' = [i \in DOMAIN txmap \cup {TxId[t]} |->
                 IF i = TxId[t] THEN GetFees(t) ELSE txmap[i]]
  /\ root' = Inserted(t)
  /\ UNCHANGED <<alive, removed>>

AddTXPanics(t) == Accepts(t) /\ Inserted(t) = Panic /\ Die

RemoveTX(t) ==
  /\ alive
  /\ TxId[t] \in DOMAIN txmap
  /\ Removed(t) # Panic
  /\ root' = Removed(t)
  /\ txmap' = [i \in DOMAIN txmap \ {TxId[t]} |-> txmap[i]]
  /\ outsReferenced' = outsReferenced \ InputSet(t)
  /\ removed' = TRUE
  /\ UNCHANGED alive

RemoveTXPanics(t) ==
  /\ alive
  /\ TxId[t] \in DOMAIN txmap
  /\ Removed(t) = Panic
  /\ Die

ProcessDies == alive /\ Die

Restart ==
  /\ ~alive
  /\ alive' = TRUE
  /\ UNCHANGED <<txmap, outsReferenced, root, removed>>

Next ==
  \/ \E t \in Tx : AddTX(t)
  \/ \E t \in Tx : AddTXPanics(t)
  \/ \E t \in Tx : RemoveTX(t)
  \/ \E t \in Tx : RemoveTXPanics(t)
  \/ ProcessDies
  \/ Restart

Spec == Init /\ [][Next]_vars

-----------------------------------------------------------------------------
Pooled == {t \in Tx : TxId[t] \in DOMAIN txmap}

\* The fees of the nodes and chain members of a tree.
Keys(n) == {m.key : m \in Nodes(n)}

CopiesInTree ==
  [r \in [fee : 0 .. Uint64 - 1, txid : TxIds] |->
     LET hits(n) == {i \in DOMAIN n.chain : n.chain[i].rec = r}
     IN  Cardinality(UNION {{<<n, i>> : i \in hits(n)} : n \in Nodes(root)})]

Abstract == INSTANCE Mempool
  WITH unspent <- Outpoint, internalTree <- CopiesInTree, MaxCopies <- Cardinality(Tx)

\* The pool with its tree does what the pool promises, panics and rotations
\* included: AddTX and RemoveTX are the steps of Mempool, and a panic is a
\* death of the process.
ImplementsMempool == Abstract!Spec

\* The tree stays a search tree through insertions, both kinds of rotation and
\* removals, and equal fees, and no others, share a node.
SearchOrder ==
  \A n \in Nodes(root) :
    /\ \A k \in Keys(n.left) : k < n.key
    /\ \A k \in Keys(n.right) : k > n.key
    /\ \A i \in DOMAIN n.chain : n.chain[i].rec.fee = n.key

\* Without removals, the height a node stores is its real height: the balance
\* factors insertAtNode goes by are right.
HeightsExact == removed \/ \A n \in Nodes(root) : n.height = Depth(n)

\* Without removals, GetMaxTXs(k) offers a block builder k pooled transactions,
\* highest fee first, and leaves out only transactions that pay no more than
\* any it offers.
OffersHighest == removed \/
  \A k \in 0 .. Cardinality(Tx) :
    LET offer == MaxElements(root, k)
        offered == {offer[i] : i \in DOMAIN offer}
    IN  /\ offered \subseteq Pooled
        /\ Cardinality(offered) = Len(offer)
        /\ Len(offer) = IF k < Cardinality(Pooled) THEN k ELSE Cardinality(Pooled)
        /\ \A i, j \in DOMAIN offer : i < j => GetFees(offer[i]) >= GetFees(offer[j])
        /\ \A s \in offered, t \in Pooled \ offered : GetFees(s) >= GetFees(t)

\* "if the newNode followed the right and then the left path, the case is
\* "right left"": the double rotation finds the node it turns around.
InsertFindsRotation == \A t \in Tx : Accepts(t) => Inserted(t) # Panic

\* "going right if the record fee is greater": the record of a pooled
\* transaction is found wherever it is in the tree.
PooledIsFound == \A t \in Pooled : Removed(t) # Panic

\* "making sure the invalid transaction is removed from mempool if exists":
\* what was removed is offered to no block builder.
OffersOnlyPooled ==
  LET offer == Descending(root) IN \A i \in DOMAIN offer : offer[i] \in Pooled

=============================================================================
