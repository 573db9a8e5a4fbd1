SPECIFICATION Spec
CONSTANTS
  None = None
  RequestEnv = {"e"}
  Param = {"p"}
  AuthType = {"none", "bearer", "apikey"}
  BodyType = {"none", "json"}
  Option = {1, 2}
  MaxSent = 1
  MaxItems = 1
  SendId = {1, 2, 3, 4}
  MaxShown = 2
  Conn = {1, 2, 3}
  EventStream = {1, 2}
  MaxNews = 2
  MaxNotes = 1
  EnvId = {"e", "f"}
  FirstEnvs = {"e"}
  VarName = {"k", "l"}
  VarValue = {1}
  MaxVars = 2
  MaxScripts = 1
  SandboxProject = {"p"}
  Global = "global"
  SandboxValue = {0, 1}
  Default <- UsualConfig
  MaxEdits = 2
  Language = {"a", "b"}
  KnownLanguage = {"a"}
  Detail = {1, 2}
  MaxCalls = 2
INVARIANTS
  ReplayIsSent
  LoadingIsNewest
  
  ManagerIsCurrent
  SectionsOK
  ToolsOK
PROPERTIES
  
  SettingsSurvive
CHECK_DEADLOCK FALSE
