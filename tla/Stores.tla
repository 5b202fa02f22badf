------------------------------- MODULE Stores -------------------------------
(***************************************************************************)
(* A database of package db from its creation on: one that keeps the       *)
(* chainstate (CoinStore), or blocks or undo records (PageStore), opened,  *)
(* used, lost with the process and opened again.                           *)
(***************************************************************************)
EXTENDS CoinStore, PageStore

VARIABLE kind  \* what the database keeps

vars == <<coinVars, pageVars, kind>>

\* A TXID is a hash; the key of a page is one too, and a byte.
ASSUME StoresAssumption ==
  Txid \cap (PagedKey \X (0 .. PageNumbers - 1)) = {}

Init ==
  /\ InitDB
  /\ byBatch = {}
  /\ InitPages
  /\ kind \in {"chainstate", "pages"}

Open == NewDBwrapper /\ UNCHANGED <<byBatch, pageVars, kind>>

CloseOrDie == Lost /\ call' = None /\ UNCHANGED <<byBatch, lastWritten, kind>>

UseChainstate == kind = "chainstate" /\ CoinStep /\ UNCHANGED <<pageVars, kind>>

UsePages == kind = "pages" /\ PageStep /\ UNCHANGED <<byBatch, kind>>

Next == Open \/ CloseOrDie \/ UseChainstate \/ UsePages

Spec == Init /\ [][Next]_vars

-----------------------------------------------------------------------------
IsEntries(e, keys) ==
  /\ DOMAIN e \subseteq keys
  /\ \A k \in DOMAIN e : e[k].mask \subseteq ObfKey

\* No entry is masked by two keys, a closed handle has no key and no batch, and
\* a call is under way only on an open one.
TypeOK ==
  /\ isObfuscated \in BOOLEAN /\ open \in BOOLEAN
  /\ kind \in {"chainstate", "pages"}
  /\ storedKey \in SUBSET ObfKey /\ mask \in SUBSET ObfKey
  /\ open => mask = storedKey
  /\ IsEntries(store, IF kind = "pages" THEN PagedKey \X (0 .. PageNumbers - 1) ELSE Txid)
  /\ \A k \in DOMAIN store : store[k].mask \in {{}, storedKey}
  /\ IsEntries(currentBatch, Txid)
  /\ byBatch \subseteq Txid
  /\ call # None => open /\ call.page < PageNumbers
  /\ ~open => mask = {} /\ currentBatch = NoEntries

=============================================================================
