SPECIFICATION Spec
CONSTANTS
  Users = {ann}
  Passwords = {pw1, pw2}
  NoPassword = NoPassword
  Calls = {c1, c2, c3, c4}
  RefreshTokens = {t1, t2, t3}
  ResetTokens = {k1, k2}
  Nobody = Nobody
SYMMETRY SessionsSymmetry
CHECK_DEADLOCK FALSE
INVARIANT
  NoSessionOutlivesReset
