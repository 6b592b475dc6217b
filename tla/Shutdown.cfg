SPECIFICATION FairSpec
CONSTANTS
  cancel = cancel
  fill = fill
  latePlace = latePlace
  readModel = readModel
  fillsOnly = fillsOnly
  Publishers = {cancel, fill, latePlace}
  Subscribers = {readModel, fillsOnly}
  Disconnecting = {latePlace}
  BufferSize = 1
  Batch <- MCBatch
  Filter <- MCFilter
  Wiring <- MCWiring
CHECK_DEADLOCK FALSE
INVARIANTS TypeOK PanicNeedsOutlivingCommand OnceAndInOrder CleanStopProjectsAll
PROPERTY SignalEndsProcess
