SPECIFICATION Spec
CONSTANTS
  Tx <- mcTx
  Outpoint <- mcOutpoint
  TxId <- mcTxId
  Ins <- mcIns
  InputValue <- mcInputValue
  OutValues <- mcOutValues
  OutputValue <- mcOutputValue
  MinFee <- mcMinFee
  Authentic <- mcAuthentic
  MaxValidAmount = 7
  Uint64 = 8
INVARIANTS
  SearchOrder
  HeightsExact
  OffersHighest
PROPERTY ImplementsMempool
