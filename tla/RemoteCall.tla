------------------------------ MODULE RemoteCall ------------------------------
(***************************************************************************)
(* What the gateway promises of an HTTP call that a handler in another     *)
(* process serves: at most one execution, an answer that is given once and *)
(* is true, and no execution for a caller who was turned away.  A caller   *)
(* who is told nothing knows nothing: the call may have run, may run yet,  *)
(* or may never run.  Gateway implements this specification.               *)
(***************************************************************************)
EXTENDS Naturals

CONSTANTS
    Call,       \* calls, each made once
    None        \* no outcome, no answer

VARIABLES
    asked,      \* calls made
    runs,       \* how often each call's handler was started
    outcome,    \* how it ended
    told        \* what its caller heard

vars == <<asked, runs, outcome, told>>

Init ==
    /\ asked = {}
    /\ runs = [c \in Call |-> 0]
    /\ outcome = [c \in Call |-> None]
    /\ told = [c \in Call |-> None]

Awaits(c) == c \in asked /\ told[c] = None

Ask(c) ==
    /\ c \notin asked
    /\ asked' = asked \cup {c}
    /\ UNCHANGED <<runs, outcome, told>>

Tell(c, what) ==
    /\ Awaits(c)
    /\ told' = [told EXCEPT ![c] = what]
    /\ UNCHANGED <<asked, runs, outcome>>

\* Refused by the gateway's own checks.
TurnAway(c) == runs[c] = 0 /\ Tell(c, "turnedAway")

\* A caller who has given up is served all the same.
Begin(c) ==
    /\ c \in asked /\ runs[c] = 0 /\ told[c] # "turnedAway"
    /\ runs' = [runs EXCEPT ![c] = 1]
    /\ UNCHANGED <<asked, outcome, told>>

End(c) ==
    /\ runs[c] = 1 /\ outcome[c] = None
    /\ \E o \in {"ok", "refused", "thrown"} : outcome' = [outcome EXCEPT ![c] = o]
    /\ UNCHANGED <<asked, runs, told>>

Report(c) ==
    \/ outcome[c] = "ok" /\ Tell(c, "result")
    \/ outcome[c] = "refused" /\ Tell(c, "refusal")

\* Callers of one connection or one pod lose their answers together.
GiveUp(S) ==
    /\ \A c \in S : Awaits(c)
    /\ told' = [c \in Call |-> IF c \in S THEN "none" ELSE told[c]]
    /\ UNCHANGED <<asked, runs, outcome>>

Next ==
    \/ \E c \in Call : Ask(c) \/ TurnAway(c) \/ Begin(c) \/ End(c) \/ Report(c)
    \/ \E S \in SUBSET Call : GiveUp(S)

Spec == Init /\ [][Next]_vars
=============================================================================
