SPECIFICATION Spec
CONSTANTS
  Again = {}
  Offered = {"b1", "bv"}
  Block = {"b1", "bv"}
  Tx <- mcTx
  Outpoint <- mcOutpoint
  TxId <- mcTxId
  Ins <- mcIns
  InputValue <- mcInputValue
  OutValues <- mcOutValues
  OutputValue <- mcOutputValue
  MinFee <- mcMinFee
  Authentic <- mcAuthentic
  MaxValidAmount = 12
  Uint64 = 16
  Txs <- mcTxs
  IsCoinbase <- mcIsCoinbase
  BlockHeight <- mcBlockHeight
  InitialBlockSubsidy = 3
  SubsidyHalvingInterval = 1000
  OfferedAt = 1
  Linked <- mcLinked
  WellFormed <- mcWellFormed
  InitialValue <- mcInitialValue
  InitialCoins <- mcInitialCoins
  HeaderAnswers = {"b1", "bv"}
  CanCrash = FALSE
  CanFail = FALSE
  MaxConfirms <- mcMaxConfirms
  MaxCopies = 2
INVARIANTS
  UndoHasStamp
CHECK_DEADLOCK FALSE
