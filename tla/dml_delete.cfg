SPECIFICATION Spec
CONSTANTS
  Token <- Words
  Dotted = {"a4", "c4", "x.4"}
  Coloned = {"a6", "c6", "x:6", "m2", "m2/x", "M2/X", "00"}
  V4 = {"a4", "c4"}
  V6 = {"a6", "c6"}
  Mac = {"m2", "m2/x", "M2/X", "00"}
  DefaultMac = "00"
  Width <- MCWidth
  Parts <- MCParts
  TooLong = "too long"
  Lower <- MCLower
  Pieces <- MCPieces
  DefaultInputs <- NoDefaultsIn
  RowInputs <- SomeRows
  WanStates = {"erouter"}
  SyscfgOutcomes = {"ok"}
  BootNameservers <- BothServers
  BootConf <- OneConf
  MaxInstance = 2
  MaxStaged = 2
PROPERTY DeletedDeviceGone
