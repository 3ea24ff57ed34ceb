\* The service is stopped and nobody opens a shell: the only requests are use(-1)
\* and the use() of a profile that lacks its password.
SPECIFICATION FairSpec
CONSTANTS
  IsNat = TRUE
  udp = udp
  tcp = tcp
  empty = empty
  NoProfile = NoProfile
  Profiles = {tcp}
  Incomplete = {tcp}
  UdpDns = {}
  Executables = {"redsocks"}
  MaxUses = 1
  MaxCloses = 0
  MaxOverlapping = 1
PROPERTIES
  StoppingEnds
CHECK_DEADLOCK FALSE
