SPECIFICATION Spec
CONSTANTS
  Asset <- OneAsset
  FeeRate = 3
  MinFeeRate <- McMinFee
  FeeCap = 125
  TimeValue <- McTimeValue
  Grid <- McGrid
  StopPct = 50
  TakeProfitPct = 150
  Limits <- McLimits
  NearTargets = {2, 3}
  FarTargets = {4, 7}
  NearTol = 2
  FarTol = 4
  MaxFarFor1d = 14
  MinNearDte = 2
  EvCap = 400
  Samples <- McSamples
  LnCdf <- McLnCdf
  MaxPositions = 2
  MaxLossPct = 2
  MaxTotalRiskPct = 1
  MaxQty = 5
  MinNetDebit = 10
  CorrelationPct = 5
  Cooldown = 2
  MinLegSize = 1
  AbsSpread = 0
  Frames <- McFrames
  Modes = {"paper", "backtest"}
  Sized = {"paper"}
  MinEv = 25
  ConfirmTicks = 2
  RollTriggerDays = 1
  MinRollGap = 2
  RetryCap = 2
  LossLimit = 2500
  Capital = 40000
  Slippage = 5
  ScanEvery = 2
  MaxTrades = 3
  DayLength = 2
  AestAhead = 1
  LastClock = 6
  LastFrame = 8
INVARIANTS NoCorrelatedPair StaysACalendar LedgerIsPrudent ReportIsTrue FiguresAgree
PROPERTIES ClosingCostsItsFees EntryKeepsTheLimits ImplementsLifecycle
CHECK_DEADLOCK FALSE
