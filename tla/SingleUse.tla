------------------------------ MODULE SingleUse ------------------------------
(***************************************************************************)
(* What the auth service promises of a one-time credential, whichever it   *)
(* is: the OTP of a verificationCode row and the refresh token of a        *)
(* refreshToken row are both rows that are inserted once, deleted at most  *)
(* once, and worth something only to the request whose delete returned     *)
(* the row.  Accounts and Sessions both implement this specification.      *)
(***************************************************************************)
CONSTANTS
    Id,         \* credentials, one per row ever inserted
    Req         \* requests that may spend one

VARIABLES
    issued,     \* every credential ever inserted
    live,       \* the ones whose row is in the table now
    spent       \* <<credential, request>>: the request's delete returned it

vars == <<issued, live, spent>>

Init == issued = {} /\ live = {} /\ spent = {}

\* A fresh credential: a row id is never handed out twice.
Issue(c) ==
    /\ c \notin issued
    /\ issued' = issued \cup {c}
    /\ live' = live \cup {c}
    /\ UNCHANGED spent

\* r's delete finds c.
Spend(c, r) ==
    /\ c \in live
    /\ live' = live \ {c}
    /\ spent' = spent \cup {<<c, r>>}
    /\ UNCHANGED issued

\* Credentials withdrawn with nobody spending them.
Void(S) ==
    /\ live' = live \ S
    /\ UNCHANGED <<issued, spent>>

Next ==
    \/ \E c \in Id : Issue(c)
    \/ \E c \in Id, r \in Req : Spend(c, r)
    \/ \E S \in SUBSET Id : Void(S)

Spec == Init /\ [][Next]_vars

-----------------------------------------------------------------------------
TypeOK == /\ issued \subseteq Id
          /\ live \subseteq issued
          /\ spent \subseteq issued \X Req

(* No credential is spent by two requests, and a spent one is not live: it *)
(* cannot be presented again.                                              *)
AtMostOnce ==
    \A p \in spent :
        /\ p[1] \notin live
        /\ \A q \in spent : p[1] = q[1] => p = q
=============================================================================
