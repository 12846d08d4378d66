----------------------------- MODULE MCHomeCare -----------------------------
(* A small instance of HomeCare.                                           *)
EXTENDS HomeCare

CONSTANTS c1, c2, e1, e2, k1, n1, t1

Body(op, e, type, k, n, t) ==
    [op |-> op, email |-> e, type |-> type, code |-> k, name |-> n, taxId |-> t]

\* A code for a newcomer or for a user who forgot the password, and whoever
\* presents it.
CallInputs ==
    [c \in Call |->
        IF c = c1 THEN {Body("sendOTP", e1, "REGISTER", None, None, None),
                        Body("sendOTP", e2, "FORGOT_PASSWORD", None, None, None)}
        ELSE {Body("register", e1, None, k1, n1, None),
              Body("registerProvider", e1, None, k1, n1, t1),
              Body("forgotPassword", e2, None, k1, None, None)}]
=============================================================================
