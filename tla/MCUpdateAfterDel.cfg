SPECIFICATION ServicesSpec
CONSTANTS
  Services = {"socket"}
  OtherFields <- FspFields
  Publishers = {"vnetd", "fspd"}
  Subscribers = {s1, s2}
  SubDepth = 1
  SockDepth = 1
  Updates = 3
  Restarts = 1
  Shed <- FspShed
  Assigns <- DaemonPrefixes
  Fields <- VnetFields
  Clients = {c1, c2}
  Values = {10, 25, 99}
  Default = 10
  Refused = {99}
  Calls = 2
  PubDepth = 2
  NoEvent = 0
  Pids = {1, 2, 3}
  InitPids = {1, 2}
  Rpcs = {"r1", "r2"}
  RpcMax = 3
  Socks = {x1, x2}
  Indices = {0, 1}
  Bytes = 2
  NoSock = NoSock
INVARIANT
  RemovedIgnored
CHECK_DEADLOCK FALSE
