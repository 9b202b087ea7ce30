----------------------------- MODULE MCSessions -----------------------------
(***************************************************************************)
(* Small instances of Sessions for TLC.                                    *)
(***************************************************************************)
EXTENDS Sessions, TLC

SessionsSymmetry ==
  Permutations(Calls) \cup Permutations(RefreshTokens)
    \cup Permutations(ResetTokens) \cup Permutations(Passwords)
=============================================================================
