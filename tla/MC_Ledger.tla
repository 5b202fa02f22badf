------------------------------ MODULE MC_Ledger ------------------------------
(***************************************************************************)
(* A chainstate with a record p of two outputs, from height 2, a coinbase, *)
(* and a record q of one, from height 3.  Regular transactions:            *)
(*   x  spends the first output of p and makes two,                        *)
(*   y  spends both outputs of p, in conflict with x,                      *)
(*   z  spends the first output of x and makes two, the second above       *)
(*      MaxValidAmount: the sum of the two wraps,                          *)
(*   v  spends the second output of p,                                     *)
(*   s  spends the output of c4.                                           *)
(* Coinbases c1, ... have no input, as the ones the tests build, except    *)
(* cm, which NewCoinbaseTransaction built: it refers to a null output, and *)
(* cp and cq, which no constructor builds and nobody signed: cp refers to  *)
(* both outputs of p and has no output, cq refers to that of q.            *)
(*   b1 = c1 x,  b2 = c2 y,  b3 = c3 z,  b4 = c4 x y (a conflict inside),  *)
(*   b5 = c5 x with one more than subsidy and fees for its coinbase,       *)
(*   bc = c4 alone,  bm = cm x,  bp = cp x,  bs = c3 s,  bv = c2 v,        *)
(*   bh = c4 x, whose header the cfg takes for one that exhausts the       *)
(*     stack,  bq = cq alone,                                              *)
(*   bu = c1 y with a merkle root that is not its own.                     *)
(* The cfg chooses the blocks that are offered.                            *)
(***************************************************************************)
EXTENDS Ledger, SequencesExt

CONSTANTS
  Offered,  \* the blocks offered
  Again     \* those that may be confirmed twice

mcBlocks == [b1 |-> <<"c1", "x">>, b2 |-> <<"c2", "y">>, b3 |-> <<"c3", "z">>,
             b4 |-> <<"c4", "x", "y">>, b5 |-> <<"c5", "x">>, bc |-> <<"c4">>,
             bm |-> <<"cm", "x">>, bp |-> <<"cp", "x">>, bs |-> <<"c3", "s">>,
             bv |-> <<"c2", "v">>, bq |-> <<"cq">>, bu |-> <<"c1", "y">>,
             bh |-> <<"c4", "x">>]
mcTx == UNION {{mcBlocks[b][i] : i \in DOMAIN mcBlocks[b]} : b \in Offered}

mcTxId == [t \in mcTx |-> t]
mcSpends == [x |-> << <<"p", 0>> >>, y |-> << <<"p", 0>>, <<"p", 1>> >>,
             z |-> << <<"x", 0>> >>,
             v |-> << <<"p", 1>> >>, s |-> << <<"c4", 0>> >>,
             cm |-> << <<"null", 0>> >>, cp |-> << <<"p", 1>>, <<"p", 0>> >>,
             cq |-> << <<"q", 0>> >>]
mcIns == [t \in mcTx |-> IF t \in DOMAIN mcSpends THEN mcSpends[t] ELSE <<>>]
mcOutValues ==
  [t \in mcTx |->
     CASE t = "x" -> <<2, 2>> [] t = "z" -> <<1, 15>>
       [] t = "y" -> <<9>> [] t = "s" -> <<1>> [] t = "cp" -> <<>>
       [] t \in {"c1", "c2"} -> <<5>> [] t = "c3" -> <<4>> [] t = "c5" -> <<6>>
       [] OTHER -> <<3>>]
mcOutputValue ==
  [t \in mcTx |-> FoldLeft(+, 0, mcOutValues[t]) % 16]

mcInitialValue == [o \in {<<"p", 0>>, <<"p", 1>>, <<"q", 0>>} |-> IF o = <<"p", 0>> THEN 6 ELSE 5]
mcOutpoint ==
  DOMAIN mcInitialValue \cup {<<"null", 0>>, <<"x", 0>>, <<"c4", 0>>}
    \cup UNION {{<<t, v>> : v \in 0 .. Len(mcOutValues[t]) - 1} : t \in mcTx}
mcInputValue ==
  [t \in mcTx |-> CASE t \in {"y", "cp"} -> 11 [] t = "x" -> 6 [] t \in {"v", "cq"} -> 5
                    [] t = "z" -> 2 [] t = "s" -> 3 [] t = "cm" -> 15 [] OTHER -> 0]
mcMinFee == [t \in mcTx |-> 1]
mcAuthentic == [t \in mcTx |-> t \notin {"cp", "cq"}]
mcIsCoinbase == [t \in mcTx |-> t = "cm"]
mcBlockHeight == [t \in mcTx |-> IF t = "cm" THEN 1 ELSE 0]

mcTxs == [b \in Offered |-> mcBlocks[b]]
mcLinked == [b \in Offered |-> TRUE]
mcWellFormed == [b \in Offered |-> b # "bu"]
mcMaxConfirms == [b \in Offered |-> IF b \in Again THEN 2 ELSE 1]
mcInitialCoins == [p |-> [stamp |-> 5, unspent |-> {0, 1}], q |-> [stamp |-> 6, unspent |-> {0}]]

=============================================================================
