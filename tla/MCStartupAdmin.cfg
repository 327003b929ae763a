SPECIFICATION Spec
CONSTANTS
  Paths = {p1, p2}
  DefaultPath = p1
  Secrets = {k1, k2}
  DefaultSecret = k1
  NoValue = NoValue
  Names = {admin, u1}
  Admin = admin
  MayFail = FALSE
INVARIANT RootCanLogIn
