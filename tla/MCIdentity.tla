----------------------------- MODULE MCIdentity -----------------------------
(* A small instance of Identity.                                           *)
EXTENDS Identity, TLC

CONSTANTS r1, r2, i1, a, b

\* Nobody has made the role of businesses yet.
CustomerOnly == [customer |-> i1, serviceProvider |-> None]

Google(e, good) == [op |-> "google", email |-> e, good |-> good]
Registration(op, e) == [op |-> op, email |-> e, good |-> TRUE]

\* A callback or a business, and what may get in its way, at its address or
\* elsewhere.
Bodies ==
    (r1 :> {Google(a, TRUE), Google(a, FALSE), Registration("registerProvider", a)})
    @@ (r2 :> {Google(a, TRUE), Google(b, TRUE), Google(None, TRUE),
               Registration("register", a)})

\* One request at least meets no fault: there is a bystander.
SomeUnlucky == {r1}

Symmetry == Permutations(Pod)
=============================================================================
