SPECIFICATION Spec
CONSTANTS
  ObfKey = {k1, k2}
  ByteSize = 2
  Txid <- mcTxid
  Outputs <- mcOutputs
  CoinbaseOf <- mcCoinbaseOf
  HeightOf <- mcHeightOf
  PagedKey <- mcPagedKey
  Contents <- mcContents
  MaxPageSize = 2
  PageNumbers = 3
  None = None
  A = A
  B = B
  D = D
INVARIANTS
  TypeOK
  LegibleUnlessBatched
  ValueKept
  UtxoExistsAgrees
  ReadIsWhole
  ReadIsPagewise
  ReadLastWritten
PROPERTY ImplementsCoins
