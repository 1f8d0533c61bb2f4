SPECIFICATION FairSpec
CONSTANTS
  Trade = {t1}
  NoTrade = NoTrade
  Asset = {BTC, ETH}
  AssetOf <- SoleAsset
  MAX_POSITIONS = 2
  RetryCap = 2
  ConfirmTicks = 2
  RollTrigger = 1
  EntryDays = {2}
  RollDays = {2}
  LossLimit = 1
  ClosePnl <- Even
  RollPnl <- Even
  Disciplined = TRUE
  Commands <- AllCommands
  MaxFaults = 1
INVARIANT TradesOnlyMonitored
PROPERTIES ExpiredIsResolved FlatStuckIsSettled
CHECK_DEADLOCK FALSE
