------------------------------ MODULE MCGateway ------------------------------
(* Small instances of Gateway.                                             *)
EXTENDS Gateway, TLC

Symmetry == Permutations(Call)

\* One route of each kind: public, guarded, and of every shape of pattern.
RouteKinds == {"register", "login", "api", "logout", "google/callback",
               "change-status-provider", "images/upload/presigned-url"}
=============================================================================
