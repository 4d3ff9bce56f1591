SPECIFICATION LifecycleSpec
CONSTANTS
  TokenCh = {slack}
  QrCh = {whatsapp}
  RequiredCh = {slack}
  Extra = {npm}
  Custom = {corp}
  NoEntry = NoEntry
  NoBox = NoBox
  MaxCmds = 4
  MaxFailures = 1
  MaxDeaths = 1
PROPERTIES
  AddKeepsPolicy
CHECK_DEADLOCK FALSE
