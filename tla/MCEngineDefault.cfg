\* The same hosts, asked about the default instruction alone.
SPECIFICATION Spec
CONSTANTS
  Null = Null
  EmptyObject = EmptyObject
  EmptyText = EmptyText
  Misfit = Misfit
  Table = Table
  NoopDomain = NoopDomain
  Metadata = Metadata
  None = None
  NoConfig = NoConfig
  NotObject = NotObject
  Implemented <- MCImplemented
  Types <- MCTypes
  Pushed <- MCPushed
  CaseOf <- MCCaseOf
  Contexts <- MCContexts
  Configs <- MCConfigs
  HostTypes = {"host"}
  OwnWrites <- MCOwnWrites
  Replacements <- MCReplacements
  MaxCalls = 3
  MaxQueue = 2
INVARIANT DefaultIsNoop
