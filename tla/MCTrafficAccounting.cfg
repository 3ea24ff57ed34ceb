\* Two sessions and two stops that may overlap, and one edit or end of ss-local.
SPECIFICATION Spec
CONSTANTS
  one = one
  two = two
  Profiles = {one, two}
  NoProfile = NoProfile
  MaxUses = 2
  MaxStops = 2
  MaxBytes = 2
  MaxReports = 2
  MaxLaunches = 2
  MaxEvents = 1
SYMMETRY Alike
INVARIANTS
  CountedOnce
  EditsSurvive
CHECK_DEADLOCK FALSE
