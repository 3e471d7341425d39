SPECIFICATION Spec
CONSTANTS
  Names = {"ann", "bob", "long", "ctl", "system:masters"}
  Overlong = {"long"}
  Control = {"ctl"}
  System = {"system:masters"}
  maxGroupCount = 2
  NoHeader = NoHeader
  NotBearer = NotBearer
  NotString = NotString
  Nil = Nil
  KeyIDs = {"k1", "k2"}
  Configs <- MCConfigs
  Segments <- MCSegments
  Chosen = {"ann", "bob"}
  Inputs <- MCInputs
  Catalog <- MCCatalog
  Letters = {"a", "b", "c", "*"}
  Objects <- MCObjects
  Filters <- MCFilters
  Limits <- MCLimits
INVARIANTS
  TypeOK
  ActsForTheTokensUser
  ReadsWhatItNames
  ListsShowWhatWasAsked
