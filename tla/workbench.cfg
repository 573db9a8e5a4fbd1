SPECIFICATION Spec
CONSTANTS
  None = None
  MaxCalls = 2
  Files = {a, b, c}
  MaxPanes = 2
  Edited = {f, g}
  Version = {1, 2}
  Blank = Blank
  Faults = {"read", "save", "all"}
  Cwd = {"p", "q"}
  Name = {"x"}
  Folder = "d"
  Git = {"p"}
  Tracked = {1, 2}
  Content = {1}
  MaxCommits = 2
  Project = {1, 2}
  NewProject = 0
  MaxEvents = 2
  AgentProject = {"a", "b", "c"}
  AgentPanel = "p"
  MaxSeq = 4
  MaxClock = 1
  MaxSessions = 2
  MaxEditors = 2
  MaxTyped = 2
  MaxMade = 3
  Query = {"q", "r"}
  Short = "s"
  Found = {"f", "g"}
  SearchPane = {1}
  MaxHits = 1
  TermProject = {1, 2}
  Adding = {1}
  MaxTabs = 1
  MaxOutput = 1
  Token = {"t"}
  TunnelProject = {"p"}
  TunnelName = {"n"}
  Sharing = {"p", "q"}
  MaxTunnels = 2
  MaxWaiting = 1
INVARIANTS
  PanesOK
  EditorsOK
  ViewsAreFresh
  MirrorIsTrue
  TakenIsSwitched
  TerminalsOK
PROPERTIES
  EditsSurvive
  TypedIsRun
CHECK_DEADLOCK FALSE
