\* Liveness under FairSpec: two use() that overlap anything.
SPECIFICATION FairSpec
CONSTANTS
  IsNat = FALSE
  udp = udp
  tcp = tcp
  empty = empty
  NoProfile = NoProfile
  Profiles = {tcp}
  Incomplete = {}
  UdpDns = {}
  Executables = {"tun2socks"}
  MaxUses = 2
  MaxCloses = 0
  MaxOverlapping = 2
PROPERTIES
 ConnectingEnds
 StoppingEnds
CHECK_DEADLOCK FALSE
