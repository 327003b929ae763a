SPECIFICATION FairSpec
CONSTANTS
  Ids = {admin, u1}
  Admin = admin
  Passwords = {pwAdmin}
  AdminPassword = pwAdmin
  MayFail = TRUE
  Threads = {t1, t2}
  NoThread = NoThread
  RelockOutcomes = {"enter"}
  Tokens = {k1, k2, k3}
  NoToken = NoToken
  NoUser = NoUser
  NoPassword = NoPassword
PROPERTIES
  DispatchAnswers
  EvictionSweeps
