SPECIFICATION FairSpec
CONSTANTS
  Invocations = {i1, i2}
  Builds = {b1, b2}
  jwt = jwt
  cookie = cookie
  pathJwt = pathJwt
  pathCookie = pathCookie
  pathCookie2 = pathCookie2
  Paths <- MCPaths
  Names <- MCNames
  NameOf <- MCNameOf
  v1 = v1
  Givens <- MCGivens
  Demands <- MCDemands
  Paginations <- MCPaginations
  Values = {v1, v2}
  Absent = Absent
  NoValue = NoValue
  NoBuild = NoBuild
INVARIANTS
  OneBuild
  ImportSeesTheStore
  FirstValueStays
PROPERTIES
  ServedWhenConfigured
  EveryInvocationEnds
