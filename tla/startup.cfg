\* A file or a directory, becoming a program under every kind of daemon, and
\* the output of one program.
SPECIFICATION StartupSpec
CONSTANTS
  Paths <- AllPaths
  UserId <- Passwd
  GroupId <- Group
  Unset = Unset
  Garbled = Garbled
  Broken = Broken
  Irregular = Irregular
  Caps <- KnownCaps
  Ids = {0, 7, 8}
  Hosts <- AnyHost
  Speakers = {"talker"}
  Newline = "nl"
  Nul = "nul"
  Characters = {"a", "b", "nl", "nul"}
  ReadSize = 3
  MaxWritten = 5
INVARIANTS
  StartupTypeOK
  ListFaithful
  NamesTakePrecedence
  ExecAsConfigured
  FailsOnlyForCause
  TerminalHandedOver
  EnvironmentFiltered
  UserNamed
  SettingsInOrder
  OutputFaithful
  EntriesTrimmed
  ReaderSurvives
