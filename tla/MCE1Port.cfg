CONSTANTS
  MF = 2
  NMF = 3
  MaxInFlight = 2
  Prime = 4
  MaxChunk = 3
SPECIFICATION Spec
INVARIANTS RxInOrder TxInOrder RxNotShared TxNotShared
PROPERTIES RxChannel TxChannel NoSubmitWhenStopped RxResyncsClean TxPrimed
