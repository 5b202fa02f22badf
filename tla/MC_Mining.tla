------------------------------ MODULE MC_Mining ------------------------------
(***************************************************************************)
(* Four pooled transactions over three unspent outputs:                    *)
(*   a  spends the first, with a fee of 1,                                 *)
(*   b  spends the first and the second, with a fee of 2,                  *)
(*   i  spends the third, with bad signatures,                             *)
(*   f  spends the third, with a fee that makes its coinbase too high.     *)
(* The subsidy halves and the target changes with the second block and     *)
(* with every second one after it.                                         *)
(***************************************************************************)
EXTENDS Mining, SequencesExt

CONSTANTS MaxBlocks

mcOut == {<<"out", 1>>, <<"out", 2>>, <<"out", 3>>}
mcNull == <<"null", 0>>
mcOutpoint == mcOut \cup {mcNull}
mcPool == {<<"a">>, <<"b">>, <<"i">>, <<"f">>}
mcCoinbases == (0 .. 12) \X (1 .. MaxBlocks)
mcTx == mcPool \cup mcCoinbases
mcTxId == [t \in mcTx |-> t]
mcIns == [t \in mcTx |-> CASE t = <<"a">> -> << <<"out", 1>> >>
                           [] t = <<"b">> -> << <<"out", 1>>, <<"out", 2>> >>
                           [] t \in {<<"i">>, <<"f">>} -> << <<"out", 3>> >>
                           [] OTHER -> <<mcNull>>]
mcInputValue == [t \in mcTx |-> CASE t = <<"a">> -> 4 [] t = <<"b">> -> 6
                                  [] t \in {<<"i">>, <<"f">>} -> 13 [] OTHER -> 9]
mcOutValues == [t \in mcTx |-> CASE t = <<"a">> -> <<1, 2>> [] t = <<"b">> -> <<4>>
                                 [] t = <<"i">> -> <<12>> [] t = <<"f">> -> <<1>>
                                 [] OTHER -> <<t[1]>>]
mcOutputValue == [t \in mcTx |-> FoldLeft(+, 0, mcOutValues[t])]
mcMinFee == [t \in mcTx |-> 1]
mcAuthentic == [t \in mcTx |-> t # <<"i">>]
mcCoinbase == [c \in mcCoinbases |-> c]

mcBits(e, m) == [exp |-> e, mant |-> m]
mcMaxDifficulty == mcBits(4, 511)
mcGenesisBits == {mcBits(4, 300), mcBits(4, 1), mcBits(3, 77),
                  mcBits(0, 9), mcBits(6, 100)}

=============================================================================
