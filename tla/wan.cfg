SPECIFICATION FairWanSpec
CONSTANTS
  Token <- Words
  Dotted = {"a4", "c4"}
  Coloned = {"a6", "m2", "00"}
  V4 = {"a4", "c4"}
  V6 = {"a6"}
  Mac = {"m2", "00"}
  DefaultMac = "00"
  Width <- MCWidth
  Parts <- MCParts
  TooLong = "too long"
  Lower <- MCLower
  Pieces <- MCPieces
  DefaultInputs <- NewPrimary
  RowInputs <- NoRowsIn
  WanStates = {}
  SyscfgOutcomes = {"ok"}
  BootNameservers <- Servers
  BootConf <- Confs
  MaxInstance = 0
  MaxStaged = 1
  WanNames = {"erouter0", "erouter0.2", "wwan0"}
  ErouterNames = {"erouter0", "erouter0.2"}
  Documents <- OneDocument
  MaxPending = 2
INVARIANTS WanTypeOK WanSettled
PROPERTY WanFollowed
