SPECIFICATION FilesSpec
CONSTANTS
  Token <- Words
  Dotted = {"a4", "c4", "x.4"}
  Coloned = {"a6", "m1", "m2", "00"}
  V4 = {"a4", "c4"}
  V6 = {"a6"}
  Mac = {"m1", "m2", "00"}
  DefaultMac = "00"
  Width <- MCWidth
  Parts <- MCParts
  Main = "main"
  Threads = {"main"}
  Calls <- AllCalls
  Faults = {"open", "rename"}
  BootFiles <- Boots
INVARIANTS FilesTypeOK NoMixture OnlyValidLines
PROPERTIES WholeCall FlagAfterFiles
