SPECIFICATION Spec
CONSTANTS
  Trade = {t1, t2}
  NoTrade = NoTrade
  Asset = {BTC}
  AssetOf <- SoleAsset
  MAX_POSITIONS = 2
  RetryCap = 2
  ConfirmTicks = 2
  RollTrigger = 1
  EntryDays = {2}
  RollDays = {2}
  LossLimit = 1
  ClosePnl <- WinsOrLoses
  RollPnl <- Even
  Disciplined = TRUE
  Commands = {"start_drain"}
  MaxFaults = 1
SYMMETRY TradeSymmetry
INVARIANTS TypeOK BookMatchesExchange NoEntryBeyondLossLimit ConfirmedClose StuckIsEarned AlertOnce
PROPERTIES TerminalIsFinal ImplementsLifecycle
CHECK_DEADLOCK FALSE
