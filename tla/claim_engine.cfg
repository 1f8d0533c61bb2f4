SPECIFICATION ClaimSpec
CONSTANTS
  Trade = {t1, t2}
  NoTrade = NoTrade
  Asset = {BTC}
  AssetOf <- SoleAsset
  MAX_POSITIONS = 2
  RetryCap = 2
  ConfirmTicks = 2
  RollTrigger = 1
  EntryDays = {2}
  RollDays = {2}
  LossLimit = 2
  ClosePnl <- WinsOrLoses
  RollPnl <- Even
  Disciplined = TRUE
  Commands <- NoCommands
  MaxFaults = 0
INVARIANT DayOrTicksAsWritten
CHECK_DEADLOCK FALSE
