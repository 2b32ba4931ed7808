\* The sample of the README: numeric uid and gid.
SPECIFICATION StartupSpec
CONSTANTS
  Paths <- SamplePath
  UserId <- Passwd
  GroupId <- Group
  Unset = Unset
  Garbled = Garbled
  Broken = Broken
  Irregular = Irregular
  Caps <- KnownCaps
  Ids = {0, 7, 8}
  Hosts <- FullRoot
  Speakers = {}
  Newline = "nl"
  Nul = "nul"
  Characters = {"a", "b", "nl", "nul"}
  ReadSize = 3
  MaxWritten = 5
INVARIANTS
  NumericIdentity
