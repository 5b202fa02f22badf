SPECIFICATION FairSpec
CONSTANTS
  Again = {"bc", "bs", "b1", "bv"}
  Offered = {"b1", "b2", "b3", "b4", "b5", "bc", "bv", "bs", "bq"}
  Block = {"b1", "b2", "b3", "b4", "b5", "bc", "bv", "bs", "bq"}
  Tx <- mcTx
  Outpoint <- mcOutpoint
  TxId <- mcTxId
  Ins <- mcIns
  InputValue <- mcInputValue
  OutValues <- mcOutValues
  OutputValue <- mcOutputValue
  MinFee <- mcMinFee
  Authentic <- mcAuthentic
  MaxValidAmount = 12
  Uint64 = 16
  Txs <- mcTxs
  IsCoinbase <- mcIsCoinbase
  BlockHeight <- mcBlockHeight
  InitialBlockSubsidy = 3
  SubsidyHalvingInterval = 1000
  OfferedAt = 1
  Linked <- mcLinked
  WellFormed <- mcWellFormed
  InitialValue <- mcInitialValue
  InitialCoins <- mcInitialCoins
  HeaderAnswers = {"b1", "b2", "b3", "b4", "b5", "bc", "bv", "bs", "bq"}
  CanCrash = FALSE
  CanFail = FALSE
  MaxConfirms <- mcMaxConfirms
  MaxCopies = 2
INVARIANTS
  NoDoubleSpend
  ConfirmedLeavesPool
PROPERTIES
  ImplementsUtxoSet
  AcceptedIsConfirmed
CHECK_DEADLOCK FALSE
