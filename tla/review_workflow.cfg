CONSTANTS
  Request = {r1}
  Version = {v1, v2}
  Reviewer = {p1, p2}
  Verdict = {allow, block}
  Unset = Unset
  MaxEvents = 7
  Faults = {"crash", "torn_crash", "write_error"}
  MaxFaults = 2
  NoCase = NoCase
  Nobody = Nobody
  Undecided = Undecided
  Garbled = Garbled
SPECIFICATION ApiSpec
SYMMETRY Symmetry
CHECK_DEADLOCK FALSE
INVARIANTS
  TypeOK
  ProjectionIsReplayable
  StartupSucceeds
  NothingAcknowledgedIsLost
  AuditTrailIsPath
  ClaimantDecides
  SeniorsHandleAppeals
  OneCasePerRequest
  GaugeIsCurrent
  ExportIsTheLastWord
