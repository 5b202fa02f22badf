SPECIFICATION Spec
CONSTANTS
  Again = {}
  Offered = {"b1"}
  Block = {"b1"}
  Tx <- mcTx
  Outpoint <- mcOutpoint
  TxId <- mcTxId
  Ins <- mcIns
  InputValue <- mcInputValue
  OutValues <- mcOutValues
  OutputValue <- mcOutputValue
  MinFee <- mcMinFee
  Authentic <- mcAuthentic
  MaxValidAmount = 12
  Uint64 = 16
  Txs <- mcTxs
  IsCoinbase <- mcIsCoinbase
  BlockHeight <- mcBlockHeight
  InitialBlockSubsidy = 3
  SubsidyHalvingInterval = 1000
  OfferedAt = 1
  Linked <- mcLinked
  WellFormed <- mcWellFormed
  InitialValue <- mcInitialValue
  InitialCoins <- mcInitialCoins
  HeaderAnswers = {"b1"}
  CanCrash = TRUE
  CanFail = FALSE
  MaxConfirms <- mcMaxConfirms
  MaxCopies = 2
INVARIANTS
  AllOrNothing
