\* Safety: two use(), one CLOSE or revocation and every interleaving of their
\* threads, with a profile that lacks its password.
SPECIFICATION Spec
CONSTANTS
  IsNat = FALSE
  udp = udp
  tcp = tcp
  empty = empty
  NoProfile = NoProfile
  Profiles = {udp, tcp, empty}
  Incomplete = {empty}
  UdpDns = {udp}
  Executables <- FewExecutables
  MaxUses = 2
  MaxCloses = 1
  MaxOverlapping = 3
CONSTRAINT CleanStarts
INVARIANTS
  Consistent
  NothingLost
  CrashNeedsTwoStops
PROPERTIES
  PublishedOrder
CHECK_DEADLOCK FALSE
