SPECIFICATION Spec
CONSTANTS
  Tx <- mcTx
  Outpoint <- mcOutpoint
  TxId <- mcTxId
  Ins <- mcIns
  InputValue <- mcInputValue
  OutValues <- mcOutValues
  OutputValue <- mcOutputValue
  MinFee <- mcMinFee
  Authentic <- mcAuthentic
  MaxValidAmount = 12
  Uint64 = 16
  InitialBlockSubsidy = 3
  SubsidyHalvingInterval = 2
  Byte = 8
  TargetLen = 5
  MaxDifficulty <- mcMaxDifficulty
  Unspent <- mcOut
  Coinbase <- mcCoinbase
  NullOutpoint <- mcNull
  NullValue = 9
  Pooled <- mcPool
  MaxNumberOfTXsInBlock = 2
  Nonces = 2
  MaxTimeBumps = 1
  Hash = {0, 900, 32767}
  GenesisBits <- mcGenesisBits
  RetargetInterval = 2
  ExpectedTimePerBlockInSec = 3
  Stamps = {0, 5, 7, 9, 16, 40}
  MaxHeight = 3
  MaxBlocks = 3
INVARIANTS
  TypeOK
  MinedIsValid
  TakesItsDue
  StaleMeansExhausted
  RetargetRounds
  RetargetMonotone
  OwnStampsQuarter
PROPERTY MiningEnds
CHECK_DEADLOCK FALSE
