SPECIFICATION Spec
CONSTANTS
  p1 = p1  p2 = p2  p3 = p3  p4 = p4
  ip1 = ip1  ip2 = ip2  ip3 = ip3
  a1 = a1  a2 = a2
  f1 = f1  f2 = f2
  l1 = l1
  Peers = {p1, p2}
  Ips = {ip1, ip2}
  IpOf <- MCIpOf
  Addresses = {a1, a2}
  Fingerprints = {f1, f2}
  Logins = {l1}
  NoAddress = NoAddress
  NoFingerprint = NoFingerprint
  NoLogin = NoLogin
  Configs <- MCConfigs
  MaxClients = 2
  MaxPendingHandshakes = 1
  MaxPendingPerIp = 1
  MaxQueuedReloads = 1
PROPERTIES
  LoginEnforced
