CONSTANTS
  Request = {r1}
  Version = {v1, v2}
  Reviewer = {p1, p2}
  Verdict = {allow}
  Unset = Unset
  MaxEvents = 3
  Faults = {"write_error"}
  MaxFaults = 1
  NoCase = NoCase
  Nobody = Nobody
  Undecided = Undecided
  Garbled = Garbled
SPECIFICATION ApiSpec
SYMMETRY Symmetry
CHECK_DEADLOCK FALSE
INVARIANTS
  EveryTransitionIsRecorded
