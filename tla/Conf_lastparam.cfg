SPECIFICATION MCSpec
CONSTANTS
  l1 = l1 k1 = k1 K1 = K1 k2 = k2 config = config help = help Help = Help helpConfig = helpConfig
  Labels = {l1}
  Keys = {k1, K1, k2, config, help, Help, helpConfig}
  FileKeys = {k1, K1, k2}
  ConfigKey = config HelpKey = help HelpConfigKey = helpConfig
  Arguments <- MCArguments FileLines <- MCFileLines
  OptTypes = {"bool", "uint", "long"} Default = Default Plugins <- OnePlugin
  INFO_NUM = 2 MaxArgs = 0 MaxFileLines = 0 MaxGets = 2
  Fold <- MCFold
  Texts <- AllTexts FileTexts <- TwoTexts
  SEC_NUM = 1 PARAM_NUM = 2
  IntWord = 4 LongWord = 16
  MayFail = FALSE
  Blank = Blank NotSet = NotSet Unset = Unset
  AskedTypes = {"bool"}
  MaxLines = 3 MaxSecs = 3 MaxDefs = 1 MaxDepth = 2
CHECK_DEADLOCK FALSE
INVARIANT AddedIsFound
