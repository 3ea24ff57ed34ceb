\* Three use() and two CLOSE one after the other, and two requests that overlap
\* anything, under FairSpec.
SPECIFICATION FairSpec
CONSTANTS
  IsNat = TRUE
  udp = udp
  tcp = tcp
  empty = empty
  NoProfile = NoProfile
  Profiles = {udp, tcp, empty}
  Incomplete = {empty}
  UdpDns = {udp}
  Executables = {"redsocks", "pdnsd"}
  MaxUses = 3
  MaxCloses = 2
  MaxOverlapping = 2
INVARIANTS
  RulesFollow
  NothingLost
PROPERTIES
  Settles
CHECK_DEADLOCK FALSE
