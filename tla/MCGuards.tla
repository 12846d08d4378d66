------------------------------ MODULE MCGuards ------------------------------
(* A small instance of Guards: how the routes are marked.                  *)
EXTENDS Guards

CONSTANTS plain, both, either

\* No mark, and the two conditions; IsPublic()'s guard is in the first.
Marks ==
    [w \in Route |->
        CASE w = both -> [types |-> <<"None", "Bearer">>, condition |-> "and"]
          [] w = either -> [types |-> <<"PaymentAPIKey", "Bearer">>, condition |-> "or"]
          [] OTHER -> None]
=============================================================================
