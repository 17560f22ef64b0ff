------------------------------ MODULE MCAccounts ------------------------------
(* Small instances of Accounts for TLC.                                    *)
EXTENDS Accounts, TLC

CONSTANTS u1, u2, e1, p1, p2, s1, k1, k2

MCVouches == (s1 :> e1)

\* What clients submit: everything; the ways to a password session; first logins
\* through the provider beside registration and its mail.
AllOps == {"register", "resend", "verify", "forgot", "reset", "login", "oidc", "erase", "post"}
ResetOps == {"register", "verify", "login", "forgot", "reset"}
UnlinkOps == {"register", "verify", "oidc"}

Interchangeable ==
  Permutations(Requests) \cup Permutations(Users) \cup Permutations(Tokens)
    \cup Permutations(Passwords)

=============================================================================
