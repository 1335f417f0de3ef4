\* Two tabs of one browser, two users, one of them with a first password.
CONSTANTS
  ann = ann
  bob = bob
  NoUser = NoUser
  NoTab = NoTab
  Users = {ann, bob}
  Fresh = {ann}
  Permissions <- MCPermissions
  Tabs = {1, 2}
  Visited = {"/profile"}
  MaxCalls = 3
  Paid = {ann}
  MaxLoads = 1
  MaxPayments = 1
SPECIFICATION Spec
CHECK_DEADLOCK FALSE
INVARIANTS
  GateFollowsServer
  PermissionsOfUser
  RedirectsSettle
  FlagMarksFirstPassword
PROPERTY PasswordChangeEndsSession
