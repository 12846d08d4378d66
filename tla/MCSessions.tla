----------------------------- MODULE MCSessions -----------------------------
(* A small instance of Sessions.                                           *)
EXTENDS Sessions

CONSTANTS r1, r2, r3

\* One request at least meets no fault: there is a bystander.
SomeUnlucky == {r1, r2}
=============================================================================
