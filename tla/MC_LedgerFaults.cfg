SPECIFICATION Spec
CONSTANTS
  Again = {"bc"}
  Offered = {"b1", "b3", "b4", "b5", "bc", "bh", "bp", "bs", "bu"}
  Block = {"b1", "b3", "b4", "b5", "bc", "bh", "bp", "bs", "bu"}
  Tx <- mcTx
  Outpoint <- mcOutpoint
  TxId <- mcTxId
  Ins <- mcIns
  InputValue <- mcInputValue
  OutValues <- mcOutValues
  OutputValue <- mcOutputValue
  MinFee <- mcMinFee
  Authentic <- mcAuthentic
  MaxValidAmount = 12
  Uint64 = 16
  Txs <- mcTxs
  IsCoinbase <- mcIsCoinbase
  BlockHeight <- mcBlockHeight
  InitialBlockSubsidy = 3
  SubsidyHalvingInterval = 1000
  OfferedAt = 1
  Linked <- mcLinked
  WellFormed <- mcWellFormed
  InitialValue <- mcInitialValue
  InitialCoins <- mcInitialCoins
  HeaderAnswers = {"b1", "b3", "b4", "b5", "bc", "bp", "bs"}
  CanCrash = TRUE
  CanFail = TRUE
  MaxConfirms <- mcMaxConfirms
  MaxCopies = 2
INVARIANTS
  TypeOK
  NoEmptyRecord
  IndexedIsStored
  LostIsRecoverable
  NoDoubleSpend
  ConfirmedLeavesPool
  SpendSucceeds
  CreatedByConfirmed
  SupplyBounded
PROPERTY AppliesAtOnce
