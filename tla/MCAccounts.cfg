SPECIFICATION Spec
CONSTANTS
  Ids = {admin, u1, u2}
  Admin = admin
  Passwords = {pwAdmin, pwUser}
  AdminPassword = pwAdmin
  MayFail = TRUE
  Threads = {t1, t2}
  NoThread = NoThread
  RelockOutcomes = {"block", "enter"}
  Tokens = {k1, k2}
  NoToken = NoToken
  NoUser = NoUser
  NoPassword = NoPassword
SYMMETRY Symmetry
INVARIANTS
  TypeOK
  NoStaleDecision
  NoSessionOutlivesEviction
  TruthfulSuccess
  RootAdministers
PROPERTIES
  AccountsRetained
  AdminOnly
  ImplementsService
