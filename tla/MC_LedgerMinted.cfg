SPECIFICATION Spec
CONSTANTS
  Again = {}
  Offered = {"bm"}
  Block = {"bm"}
  Tx <- mcTx
  Outpoint <- mcOutpoint
  TxId <- mcTxId
  Ins <- mcIns
  InputValue <- mcInputValue
  OutValues <- mcOutValues
  OutputValue <- mcOutputValue
  MinFee <- mcMinFee
  Authentic <- mcAuthentic
  MaxValidAmount = 12
  Uint64 = 16
  Txs <- mcTxs
  IsCoinbase <- mcIsCoinbase
  BlockHeight <- mcBlockHeight
  InitialBlockSubsidy = 3
  SubsidyHalvingInterval = 1000
  OfferedAt = 1
  Linked <- mcLinked
  WellFormed <- mcWellFormed
  InitialValue <- mcInitialValue
  InitialCoins <- mcInitialCoins
  HeaderAnswers = {"bm"}
  CanCrash = FALSE
  CanFail = FALSE
  MaxConfirms <- mcMaxConfirms
  MaxCopies = 2
INVARIANTS
  CoinbaseConfirms
CHECK_DEADLOCK FALSE
