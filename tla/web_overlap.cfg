SPECIFICATION WebSpec
CONSTANTS
  Token <- Words
  Dotted = {"a4", "c4", "l4"}
  Coloned = {"a6", "c6", "l6", "m1", "m2", "00"}
  V4 = {"a4", "c4", "l4"}
  V6 = {"a6", "c6", "l6"}
  Mac = {"m1", "m2", "00"}
  DefaultMac = "00"
  Width <- MCWidth
  Parts <- MCParts
  TooLong = "too long"
  Lower <- MCLower
  Pieces <- MCPieces
  DefaultInputs <- NoDefaultsIn
  RowInputs <- NoRowsIn
  WanStates = {"erouter", "lte"}
  SyscfgOutcomes = {"ok", "setFails"}
  BootNameservers <- DualServers
  BootConf <- OneConf
  MaxInstance = 2
  MaxStaged = 1
  Blobs <- RaceDocs
  NoBlob = NoBlob
  Missing = Missing
  UseRdkDefault = "use"
  Loopback4 = "l4"
  Loopback6 = "l6"
  Compressed = {"a6", "c6", "l6"}
  WebMac = {"m1", "m2", "00"}
  Nameservers <- DualLists
  RouterModes = {3}
  FileOutcomes = {TRUE, FALSE}
  Interference = {"management", "overlap", "crash"}
INVARIANTS OnlyValidOverrides InstanceOrder
