------------------------------- MODULE Mining -------------------------------
(***************************************************************************)
(* core/block.go: a miner that puts blocks together from pooled            *)
(* transactions, gives them the target of GetTargetForBlock, calls         *)
(* MineBlock, also again on the same block, and appends what it mined or   *)
(* what it receives to the chain of headers.                               *)
(*                                                                         *)
(* Nothing in src/ calls MineBlock or GetTargetForBlock: what the caller   *)
(* does (NewBlock, Adopt, ReceiveHeader, Abandon) is taken from their      *)
(* parameters and from the tests.  The unspent outputs do not change while *)
(* a block is mined.                                                       *)
(*                                                                         *)
(* A hash is a number chosen when a header is tried: one call never tries  *)
(* a header twice (StaleMeansExhausted counts them), and every call on a   *)
(* block has a new merkle root.                                            *)
(***************************************************************************)
EXTENDS BlockChecks, Target

CONSTANTS
  Unspent,                   \* the unspent outputs of the chainstate
  Coinbase,                  \* Coinbase[<<v, h>>]: of NewCoinbaseTransaction, for height h
  NullOutpoint, NullValue,   \* the output its input refers to, 0xffffffff
  Pooled,                    \* the transactions in the pool at first
  MaxNumberOfTXsInBlock,     \* params.MaxNumberOfTXsInBlock
  Nonces,                    \* number of values of the nonce, 2^32
  MaxTimeBumps,              \* 30
  Hash,                      \* the hashes a header may have
  GenesisBits,               \* the values params.GenesisTargetBits may be given
  RetargetInterval,          \* params.RetargetInterval
  ExpectedTimePerBlockInSec, \* params.ExpectedTimePerBlockInSec
  Stamps,                    \* timestamps of headers received
  MaxHeight                  \* bound: height of the chain of headers

VARIABLES
  height,      \* of the last block
  lastHeader,  \* its header
  ownStamp,    \* history: MineBlock set the timestamp of lastHeader
  pooled,      \* the transactions in the pool
  pc,          \* what has become of the block in hand
  txs,         \* its allBlockTx
  header,      \* its header
  timeBumps,   \* local variable of MineBlock
  firstNonce,  \* history: the nonce MineBlock started with
  tried,       \* history: the <<timestamp, nonce>> that missed the target
  calls        \* history: MineBlock calls that began to mine the block

chainVars == <<height, lastHeader, ownStamp>>
loopVars == <<timeBumps, firstNonce, tried>>
vars == <<chainVars, pooled, pc, txs, header, loopVars, calls>>

Nonce == 0 .. Nonces - 1
IsMined(t) == Ins[t] = <<NullOutpoint>>

ASSUME MiningAssumption ==
  /\ Coinbase \in [(0 .. MaxValidAmount) \X (1 .. MaxHeight) -> Tx]
  /\ \A v \in 0 .. MaxValidAmount : \A h \in 1 .. MaxHeight :
       LET t == Coinbase[<<v, h>>]
       IN  IsMined(t) /\ InputValue[t] = NullValue /\ OutValues[t] = <<v>>
  /\ NullOutpoint \notin Unspent
  /\ Pooled \subseteq Tx
  /\ MaxNumberOfTXsInBlock \in Nat /\ MaxTimeBumps \in Nat /\ MaxHeight \in Nat
  /\ Nonces \in Nat \ {0}
  /\ Stamps \subseteq Nat
  /\ RetargetInterval \in Nat \ {0}
  /\ ExpectedTimePerBlockInSec \in Nat \ {0}
  /\ GenesisBits \subseteq Bits

Header(ts, n, b) == [timestamp |-> ts, nonce |-> n, bits |-> b]

NoBlock ==
  /\ pc = "idle" /\ txs = <<>> /\ header = Header(0, 0, lastHeader.bits)
  /\ timeBumps = 0 /\ firstNonce = 0 /\ tried = {} /\ calls = 0

Init ==
  /\ height = 0
  /\ \E b \in GenesisBits : lastHeader = Header(0, 0, b)
  /\ ownStamp = FALSE
  /\ pooled = Pooled
  /\ NoBlock

(***************************************************************************)
(* GetTargetForBlock, for the block after lastHeader.                      *)
(***************************************************************************)
AtRetarget == (height + 1) % RetargetInterval = 0

\* The block before the interval.  The first interval has none: genesis stands
\* for it, with a block's time more.
IsFirstRetarget == RetargetInterval > height
IntervalStart == IF IsFirstRetarget THEN 0 ELSE height - RetargetInterval

\* bc.chain never has more than the genesis block, see Ledger.
ChainLength == 1
NoIntervalStart == AtRetarget /\ IntervalStart >= ChainLength

\* Mutant: the time compensation has the wrong sign.
FirstStamp_Minus == IF IsFirstRetarget THEN -ExpectedTimePerBlockInSec ELSE 0

\* The timestamp of the genesis block is 0.
FirstStamp == IF IsFirstRetarget THEN ExpectedTimePerBlockInSec ELSE 0

ExpectedTime == ExpectedTimePerBlockInSec * RetargetInterval

BitsFor(stamp) ==
  ApplyCoeffToTarget(stamp - FirstStamp, ExpectedTime, lastHeader.bits)

GetTargetForBlock ==
  IF AtRetarget THEN BitsFor(lastHeader.timestamp) ELSE lastHeader.bits

(***************************************************************************)
(* The caller of MineBlock.                                                *)
(***************************************************************************)
NewBlock(list, nonce) ==
  /\ pc = "idle" /\ height < MaxHeight
  /\ ~NoIntervalStart
  /\ pc' = "new"
  /\ txs' = list
  /\ header' = Header(0, nonce, GetTargetForBlock)
  /\ UNCHANGED <<chainVars, pooled, loopVars, calls>>

\* "Out of bounds getting first interval block".
TargetPanics ==
  /\ pc = "idle" /\ NoIntervalStart
  /\ pc' = "dead"
  /\ UNCHANGED <<chainVars, pooled, txs, header, loopVars, calls>>

DropBlock ==
  /\ pc' = "idle" /\ txs' = <<>> /\ header' = Header(0, 0, lastHeader'.bits)
  /\ timeBumps' = 0 /\ firstNonce' = 0 /\ tried' = {} /\ calls' = 0

Extend(h, own) ==
  /\ height' = height + 1
  /\ lastHeader' = h
  /\ ownStamp' = own
  /\ DropBlock
  /\ UNCHANGED pooled

\* InsertBlock accepts the block that was mined.
Adopt ==
  /\ pc = "mined"
  /\ Offending(txs, Unspent) = {} /\ ValidateCoinbase(txs, height + 1)
  /\ Extend(header, TRUE)

\* A block comes from another miner.
ReceiveHeader(ts) ==
  /\ pc = "idle" /\ height < MaxHeight
  /\ ~NoIntervalStart
  /\ Extend(Header(ts, 0, GetTargetForBlock), FALSE)

Abandon ==
  /\ pc \in {"mined", "stale", "refused"}
  /\ UNCHANGED <<chainVars, pooled>>
  /\ DropBlock

(***************************************************************************)
(* MineBlock.                                                              *)
(***************************************************************************)
CanCall == pc \in {"new", "mined", "stale"}

\* The comment says "initializing the nonce", and the timestamp is set.
Restamped == [header EXCEPT !.timestamp = 0]

Refuse ==
  /\ pc' = "refused"
  /\ header' = Restamped
  /\ UNCHANGED <<chainVars, txs, loopVars, calls>>

\* Mutant: the block is not validated.
Rejected_None == {}

\* ValidateBlockTx before the coinbase is there: the first place goes unchecked.
Rejected == Offending(txs, Unspent)

RefuseTx ==
  /\ CanCall
  /\ Rejected # {}
  /\ pooled' = {t \in pooled : TxId[t] # TxId[txs[Min(Rejected)]]}
  /\ Refuse

\* Mutant: the subsidy of the last block instead of the one to be mined.
CoinbaseValue_LastHeight ==
  (BlockSubsidy(height) + GetBlockFees(txs, FALSE)) % Uint64

CoinbaseValue == (BlockSubsidy(height + 1) + GetBlockFees(txs, FALSE)) % Uint64

\* ErrExceededMaxTX, or NewCoinbaseTransaction returns ErrInvalidValue.
RefuseBlock ==
  /\ CanCall
  /\ Rejected = {}
  /\ Len(txs) > MaxNumberOfTXsInBlock \/ ~ValueIsValid(CoinbaseValue)
  /\ Refuse
  /\ UNCHANGED pooled

StartMining ==
  /\ CanCall
  /\ Rejected = {}
  /\ Len(txs) <= MaxNumberOfTXsInBlock /\ ValueIsValid(CoinbaseValue)
  /\ txs' = <<Coinbase[<<CoinbaseValue, height + 1>>]>> \o txs
  /\ header' = Restamped
  /\ firstNonce' = header.nonce
  /\ timeBumps' = 0
  /\ tried' = {}
  /\ calls' = calls + 1
  /\ pc' = "mining"
  /\ UNCHANGED <<chainVars, pooled>>

Hit(hash) ==
  /\ pc = "mining" /\ ~ExpandPanics(header.bits)
  /\ hash < ExpandBits(header.bits)
  /\ pc' = "mined"
  /\ UNCHANGED <<chainVars, pooled, txs, header, loopVars, calls>>

\* Mutant: the nonce has no width.
NextNonce_Wide == header.nonce + 1

NextNonce == (header.nonce + 1) % Nonces

Miss(hash) ==
  /\ pc = "mining" /\ ~ExpandPanics(header.bits)
  /\ hash >= ExpandBits(header.bits)
  /\ tried' = tried \cup {<<header.timestamp, header.nonce>>}
  /\ UNCHANGED <<chainVars, pooled, txs, firstNonce, calls>>

TryNext(hash) ==
  /\ Miss(hash)
  /\ NextNonce # 0
  /\ header' = [header EXCEPT !.nonce = NextNonce]
  /\ UNCHANGED <<pc, timeBumps>>

\* Mutant: the nonces are started over with nothing changed.
BumpTime_Forgets(hash) ==
  /\ Miss(hash)
  /\ NextNonce = 0 /\ timeBumps < MaxTimeBumps
  /\ header' = [header EXCEPT !.nonce = 0]
  /\ UNCHANGED <<pc, timeBumps>>

BumpTime(hash) ==
  /\ Miss(hash)
  /\ NextNonce = 0 /\ timeBumps < MaxTimeBumps
  /\ header' = [header EXCEPT !.nonce = 0, !.timestamp = @ + 1]
  /\ timeBumps' = timeBumps + 1
  /\ UNCHANGED pc

\* Mutant: gives up one bump early.
GoStale_Early(hash) ==
  /\ Miss(hash)
  /\ NextNonce = 0 /\ timeBumps >= MaxTimeBumps - 1
  /\ header' = [header EXCEPT !.nonce = 0]
  /\ pc' = "stale"
  /\ UNCHANGED timeBumps

\* ErrStaleBlock.
GoStale(hash) ==
  /\ Miss(hash)
  /\ NextNonce = 0 /\ timeBumps >= MaxTimeBumps
  /\ header' = [header EXCEPT !.nonce = 0]
  /\ pc' = "stale"
  /\ UNCHANGED timeBumps

ExpandDies ==
  /\ pc = "mining" /\ ExpandPanics(header.bits)
  /\ pc' = "dead"
  /\ UNCHANGED <<chainVars, pooled, txs, header, loopVars, calls>>

\* One round of the loop.
TryNonce ==
  \/ \E hash \in Hash : Hit(hash)
  \/ \E hash \in Hash : TryNext(hash)
  \/ \E hash \in Hash : BumpTime(hash)
  \/ \E hash \in Hash : GoStale(hash)
  \/ ExpandDies

Lists == UNION {[1 .. n -> pooled] : n \in 0 .. MaxNumberOfTXsInBlock + 1}

Next ==
  \/ \E list \in {l \in Lists : IsInjective(l)} : \E n \in Nonce : NewBlock(list, n)
  \/ TargetPanics
  \/ Adopt
  \/ \E ts \in Stamps : ReceiveHeader(ts)
  \/ Abandon
  \/ RefuseTx
  \/ RefuseBlock
  \/ StartMining
  \/ TryNonce

\* The loop of MineBlock does not wait for anything.
Spec == Init /\ [][Next]_vars /\ WF_vars(TryNonce)

-----------------------------------------------------------------------------
\* No block is mined a third time: the second coinbase of it would not pass.
TypeOK ==
  /\ height \in 0 .. MaxHeight
  /\ lastHeader \in [timestamp : Nat, nonce : Nonce, bits : Bits]
  /\ header \in [timestamp : 0 .. MaxTimeBumps, nonce : Nonce, bits : Bits]
  /\ ownStamp \in BOOLEAN
  /\ pooled \subseteq Pooled
  /\ pc \in {"idle", "new", "mining", "mined", "stale", "refused", "dead"}
  /\ txs \in Seq(Tx)
  /\ timeBumps \in 0 .. MaxTimeBumps /\ firstNonce \in Nonce /\ calls \in 0 .. 2
  /\ tried \subseteq (0 .. MaxTimeBumps) \X Nonce

\* The first transaction of the list, which MineBlock does not look at, would
\* have passed.
FirstPasses ==
  Len(txs) = 1 \/ /\ ValidateTransaction(txs[2], Unspent)
                  /\ \A i \in 3 .. Len(txs) : InputSet(txs[2]) \cap InputSet(txs[i]) = {}

\* A mined block passes ValidateBlockTx exactly if it was mined by the first call
\* and the first transaction it was given is valid and conflicts with no other: a
\* second call leaves the coinbase of the first among the others.
MinedIsValid ==
  pc = "mined" => (Offending(txs, Unspent) = {} <=> calls = 1 /\ FirstPasses)

\* What the miner takes is exactly what ValidateCoinbase grants for the height of
\* the new block: across a halving, and on a second call, where the claimed value
\* of the first coinbase counts as a fee on both sides.
TakesItsDue ==
  pc \in {"mining", "mined", "stale"} =>
    OutputValue[txs[1]] = (BlockSubsidy(height + 1) + GetBlockFees(txs, TRUE)) % Uint64

\* ErrStaleBlock means that no header with a timestamp MineBlock may set meets
\* the target, but for the nonces below the one it started with, which are not
\* tried at timestamp 0: the nonce is not initialized.
StaleMeansExhausted ==
  pc = "stale" =>
    tried = {a \in (0 .. MaxTimeBumps) \X Nonce : a[1] > 0 \/ a[2] >= firstNonce}

\* MineBlock comes to an end, also for a target nothing can meet.
MiningEnds == pc = "mining" ~> pc # "mining"

Retargeted == pc \notin {"idle", "dead"} /\ AtRetarget
Coeff == Limited(lastHeader.timestamp - FirstStamp, ExpectedTime)

\* A retarget multiplies the target by the limited coefficient, rounded down to
\* the form it chose, unless that exceeds the highest target.  If it leaves the
\* first mantissa byte empty, it has kept the byte added for precision.
\* (GenesisBits has no target that is above MaxDifficulty in its compact form and
\* less than four times it as a number.)
RetargetRounds ==
  Retargeted =>
    LET b == header.bits
        prev == lastHeader.bits
        exact == prev.mant * Coeff[1] * PowerOfByte[prev.exp]
        lost == exact - b.mant * Coeff[2] * PowerOfByte[b.exp]
    IN  /\ lost >= 0
        /\ b = MaxDifficulty \/ lost < Coeff[2] * PowerOfByte[b.exp]
        /\ \/ b.mant >= Byte * Byte \/ prev.exp = 0
           \/ lost * Byte < Coeff[2] * PowerOfByte[prev.exp]

\* The longer the interval took, the higher the new target, whatever forms the
\* rounding goes through.
RetargetMonotone ==
  Retargeted => \A ts \in Stamps : ts <= lastHeader.timestamp =>
    ExpandBits(BitsFor(ts)) <= ExpandBits(header.bits)

\* A chain whose miners take their timestamps from MineBlock, which counts from
\* zero, makes the first retarget quarter the target, however long it took.
OwnStampsQuarter ==
  Retargeted /\ ownStamp => header.bits = ApplyCoeffToTarget(1, 4, lastHeader.bits)

=============================================================================
