------------------------------ MODULE DBwrapper ------------------------------
(***************************************************************************)
(* db/dbwrapper.go: one LevelDB database with obfuscated values and one    *)
(* batch.  What was written to LevelDB survives the process, the handle    *)
(* and its batch do not.                                                   *)
(*                                                                         *)
(* obfuscateValue XORs a value with the obfuscation key.  An entry is its  *)
(* data and the set of keys it is XORed with, so that XORing twice with    *)
(* one key takes it off again.  An entry whose mask is not empty is noise. *)
(***************************************************************************)
EXTENDS Integers

CONSTANT ObfKey  \* the keys generateObfuscationKey may come up with

VARIABLES
  isObfuscated,  \* the argument of NewDBwrapper, always the same for a database
  open,          \* a handle is open
  storedKey,     \* durable: {the obfuscation key in the database}, or {}
  mask,          \* the handle's obfuscationKey: {that key}, or {} in a plain one
  store,         \* durable: key -> entry
  currentBatch   \* the handle's batch: key -> entry

dbVars == <<isObfuscated, open, storedKey, mask, store, currentBatch>>

NoEntries == [k \in {} |-> 0]

InitDB ==
  /\ isObfuscated \in BOOLEAN
  /\ open = FALSE
  /\ storedKey = {}
  /\ mask = {}
  /\ store = NoEntries
  /\ currentBatch = NoEntries

\* Mutant: a new key is made up at every start.
NewDBwrapper_FreshKey ==
  /\ ~open
  /\ open' = TRUE
  /\ IF isObfuscated
     THEN \E k \in ObfKey : mask' = {k} /\ storedKey' = {k}
     ELSE UNCHANGED <<mask, storedKey>>
  /\ UNCHANGED <<isObfuscated, store, currentBatch>>

\* The key in the database is used; without one, a new key is generated and put.
NewDBwrapper ==
  /\ ~open
  /\ open' = TRUE
  /\ IF ~isObfuscated THEN mask' = {} ELSE
       IF storedKey # {} THEN mask' = storedKey ELSE \E k \in ObfKey : mask' = {k}
  /\ storedKey' = mask'
  /\ UNCHANGED <<isObfuscated, store, currentBatch>>

\* Mutant: the batch belongs to no handle.
Lost_KeepsBatch ==
  /\ open
  /\ open' = FALSE
  /\ mask' = {}
  /\ UNCHANGED <<isObfuscated, storedKey, store, currentBatch>>

\* Close, or the end of the process.
Lost ==
  /\ open
  /\ open' = FALSE
  /\ mask' = {}
  /\ currentBatch' = NoEntries
  /\ UNCHANGED <<isObfuscated, storedKey, store>>

ObfuscateValue(e) == [e EXCEPT !.mask = (@ \ mask) \cup (mask \ @)]

With(entries, k, e) == [j \in DOMAIN entries \cup {k} |-> IF j = k THEN e ELSE entries[j]]

\* The effects of the operations on an open handle.
Insert(k, v) ==
  /\ store' = With(store, k, ObfuscateValue([data |-> v, mask |-> {}]))
  /\ UNCHANGED <<isObfuscated, open, storedKey, mask, currentBatch>>

PutInBatch(k, v) ==
  /\ currentBatch' = With(currentBatch, k, [data |-> v, mask |-> {}])
  /\ UNCHANGED <<isObfuscated, open, storedKey, mask, store>>

WriteBatch ==
  /\ store' = [k \in DOMAIN store \cup DOMAIN currentBatch |->
                 IF k \in DOMAIN currentBatch THEN currentBatch[k] ELSE store[k]]
  /\ currentBatch' = NoEntries
  /\ UNCHANGED <<isObfuscated, open, storedKey, mask>>

Delete(k) ==
  /\ store' = [j \in DOMAIN store \ {k} |-> store[j]]
  /\ UNCHANGED <<isObfuscated, open, storedKey, mask, currentBatch>>

Get(k) == ObfuscateValue(store[k])
Legible(k) == Get(k).mask = {}

\* The same for the next handle, if none is open.
WillBeLegible(k) == store[k].mask = IF open THEN mask ELSE storedKey

=============================================================================
