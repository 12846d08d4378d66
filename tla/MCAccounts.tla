----------------------------- MODULE MCAccounts -----------------------------
(* Small instances of Accounts: who calls what in each run.                *)
EXTENDS Accounts, TLC

CONSTANTS r1, r2, r3, r4, e1, e2, e3, c1, c2, n1, n2, t1

SendOTP(e, t) == [op |-> "sendOTP", email |-> e, type |-> t,
                  code |-> None, name |-> None, taxId |-> None]
Register(e, c, n) == [op |-> "register", email |-> e, type |-> None,
                      code |-> c, name |-> n, taxId |-> None]
RegisterProvider(e, c, n) == [op |-> "registerProvider", email |-> e, type |-> None,
                              code |-> c, name |-> n, taxId |-> t1]
ForgotPassword(e, c) == [op |-> "forgotPassword", email |-> e, type |-> None,
                         code |-> c, name |-> None, taxId |-> None]

\* A newcomer, and a user who may be soft-deleted: codes of several purposes,
\* presented for an account or for a new password, by the right address or not.
CodeInputs ==
    [r \in Req |->
        {SendOTP(e1, "REGISTER"), SendOTP(e1, "LOGIN"), SendOTP(e2, "FORGOT_PASSWORD"),
         ForgotPassword(e2, c1), Register(e2, c1, n2)}
        \cup {Register(e1, c, n1) : c \in {c1, c2}}]

\* Two businesses with one tax number.
ProviderInputs ==
    [r \in Req |->
        {SendOTP(e1, "REGISTER"), SendOTP(e2, "REGISTER"),
         RegisterProvider(e1, c1, n1), RegisterProvider(e2, c1, n2)}]

\* The same, one request for each part, and what else could take the part, two
\* resets of one known user's password included: liveness is checked without
\* symmetry.
MixedInputs ==
    [r \in Req |->
        CASE r = r1 -> {SendOTP(e1, "REGISTER"), SendOTP(e3, "FORGOT_PASSWORD")}
          [] r = r2 -> {SendOTP(e2, "REGISTER")}
          [] r = r3 -> {RegisterProvider(e1, c1, n1), ForgotPassword(e3, c1)}
          [] r = r4 -> {RegisterProvider(e2, c1, n2), Register(e1, c1, n2),
                        ForgotPassword(e3, c1)}]

Symmetry == Permutations(Req)
=============================================================================
