SPECIFICATION Spec
CONSTANTS
  RawTask <- MCRawTask
  Path <- MCPath
  Host <- MCHost
  ToolKey = {"github.read_issue", "egress.fetch"}
  Amount = {1, 2, 3}
  Call <- MCCalls
  GatewaySecret = {"token"}
  Canonical <- MCCanonical
  Unreadable <- MCUnreadable
  Normal <- MCNormal
  Has <- MCHas
  HostEnv = {"KEY", "SOCK", "OTHER"}
  SocketEnv = {"SOCK"}
  HostHome <- MCHostHome
  SshAuthSock <- MCSshAuthSock
  DockerSocket <- MCDockerSocket
INVARIANTS
  FilesFollowPolicy
  NothingBeyondPolicy
  LateRejections
  UnapprovedIsAllowed
  TemplatesAreServed
