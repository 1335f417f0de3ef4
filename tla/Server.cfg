\* Two addresses, two requests to a process, one permission; any number of starts.
CONSTANTS
  a1 = a1
  a2 = a2
  p1 = p1
  Addresses = {a1, a2}
  Burst = 1
  Period = 2
  MaxRequests = 2
  Permissions = {p1}
SPECIFICATION Spec
INVARIANTS
  TypeOK
  RecordedIsApplied
  CleanStartCompletes
  AdminsKeepRights
PROPERTIES
  SettingsSurvive
  ImplementsBuckets
  LimitersReleased
