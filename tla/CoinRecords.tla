---------------------------- MODULE CoinRecords ----------------------------
(***************************************************************************)
(* db/chainstate.go: the records of the chainstate as its callers see      *)
(* them, a function from TXIDs to [stamp, unspent], where unspent is the   *)
(* set of vouts and stamp is 2*height + coinbase flag.  CoinStore shows    *)
(* that the records the code writes are read as these.                     *)
(***************************************************************************)
EXTENDS Integers

NoRecords == [i \in {} |-> 0]

UnspentIn(cs) == UNION {{<<i, v>> : v \in cs[i].unspent} : i \in DOMAIN cs}

\* The records of the batch over those of the chainstate.
Overlay(cs, b) == [i \in DOMAIN cs \cup DOMAIN b |->
                     IF i \in DOMAIN b THEN b[i] ELSE cs[i]]

WithoutRecord(cs, i) == [j \in DOMAIN cs \ {i} |-> cs[j]]

\* Mutant: a record is kept when its last output is spent.
RemoveUtxo_KeepsKey(cs, o) ==
  [cs EXCEPT ![o[1]] = [stamp |-> 0, unspent |-> @.unspent \ {o[2]}]]

\* Chainstate.RemoveUtxo of an unspent output.  Unless it was the last one, the
\* record is rewritten through a new transaction without height and coinbase
\* flag.
RemoveUtxo(cs, o) ==
  IF cs[o[1]].unspent = {o[2]}
  THEN WithoutRecord(cs, o[1])
  ELSE [cs EXCEPT ![o[1]] = [stamp |-> 0, unspent |-> @.unspent \ {o[2]}]]

=============================================================================
