------------------------------ MODULE HomeCare ------------------------------
(***************************************************************************)
(* Gateway and auth service together, for the calls that make accounts:    *)
(* POST auth/otp, auth/register, auth/register-provider and                *)
(* auth/forgot-password.  Module Gateway knows handlers only by how they   *)
(* end, module Accounts requests only from the moment they are dispatched; *)
(* here every HTTP call of the one is a request of the other, and the      *)
(* properties are about what a caller may conclude from an answer.         *)
(*                                                                         *)
(* A step is a step of a part, or of both where a message is dispatched    *)
(* and where a handler returns.                                            *)
(***************************************************************************)
EXTENDS Naturals

CONSTANTS
    Call,        \* HTTP calls, each made once; the requests of Accounts
    Email, Code, Name, TaxId,
    Inputs,      \* the valid bodies each call may have
    Seeded,      \* emails with a user row before the first call
    Deletable,   \* emails whose user row may be soft-deleted from outside src/
    Faults,      \* TRUE: database, e-mail, connections and pods may fail
    Seed,        \* stands for the creator of a seeded user
    None         \* no value

\* The controllers of both sides: the route, and the method its message reaches.
RouteOf(op) ==
    CASE op = "sendOTP" -> "otp"
      [] op = "register" -> "register"
      [] op = "registerProvider" -> "register-provider"
      [] op = "forgotPassword" -> "forgot-password"

AccountRoutes == {"otp", "register", "register-provider", "forgot-password"}

VARIABLES
    up, at, route, valid, admitted, requests, running, replies, answer, ran, ended,
    codes, issued, expired, user, password, deleted, profile, provider,
    pc, in, acct, del, proof, consumed, prior,
    dead,        \* calls whose pod died after it had dispatched them
    known        \* history: the calls answered with a result before this one was made

G == INSTANCE Gateway WITH Route <- AccountRoutes, pc <- at
A == INSTANCE Accounts WITH Req <- Call

ASSUME HomeCareAssumption ==
    /\ Inputs \in [Call -> SUBSET A!Body]
    /\ \A c \in Call : \A i \in Inputs[c] :
        /\ i.op = "sendOTP" => i.type # None
        /\ i.op \in {"register", "registerProvider"} => i.name # None
    /\ Seeded \subseteq Email /\ Deletable \subseteq Email
    /\ Faults \in BOOLEAN
    /\ Seed \notin Call /\ None \notin Call /\ Seed # None /\ None \notin A!Body
    /\ None \notin AccountRoutes \cup {"ok", "refused", "thrown",
                                       "result", "refusal", "none", "turnedAway"}
    /\ None \notin Nat \X {"result", "refusal", "none"}

gateway == <<up, at, route, valid, admitted, requests, running, replies, answer, ran, ended>>
accounts == <<codes, issued, expired, user, password, deleted, profile, provider,
              pc, in, acct, del, proof, consumed, prior>>
vars == <<gateway, accounts, dead, known>>

Init ==
    /\ G!Init /\ up \subseteq {"auth"}
    /\ A!Init
    /\ dead = {}
    /\ known = [c \in Call |-> {}]

\* The caller has been told that c succeeded.
Succeeded(c) == at[c] = "answered" /\ answer[c][2] = "result"

-----------------------------------------------------------------------------
(* The gateway's side.                                                     *)

Arrive(c) ==
    /\ G!Arrive(c)
    /\ \E i \in Inputs[c] : route'[c] = RouteOf(i.op)
    /\ known' = [known EXCEPT ![c] = {q \in Call : Succeeded(q)}]
    /\ UNCHANGED <<accounts, dead>>

Deliver(c) == \E o \in G!Outcome \cup {"noHandler"} : G!Deliver(<<c, o>>)

Forward(c) ==
    /\ G!Guard(c) \/ G!Pipe(c) \/ G!Send(c) \/ Deliver(c)
    /\ UNCHANGED <<accounts, dead, known>>

-----------------------------------------------------------------------------
(* The auth service's side.                                                *)

\* The controller hands the message's data to the method.
Dispatch(c) ==
    /\ G!Dispatch(c)
    /\ A!Start(c) /\ route[c] = RouteOf(in'[c].op)
    /\ UNCHANGED <<dead, known>>

\* What the method does of itself.
Proceeds(c) ==
    \/ A!Step(c)
    \/ A!CreateUser(c) \/ A!CreateProfile(c) \/ A!UpdatePassword(c) \/ A!DeleteCode(c)

Handler(c) == Proceeds(c) \/ A!Throw(c) \/ A!ThrowInBranch(c)

\* c's method returns or throws in this step.
Returns(c) == ~A!Answered(c) /\ pc'[c] \in {"ok", "error"}

Work(c) ==
    /\ c \notin dead
    /\ Handler(c) /\ ~Returns(c)
    /\ UNCHANGED <<gateway, dead, known>>

\* The transport sends what the method returned, or what it threw.
Return(c) ==
    /\ c \notin dead
    /\ Handler(c) /\ Returns(c)
    /\ G!Finish(c) /\ (ended'[c] = "ok" <=> pc'[c] = "ok")
    /\ UNCHANGED <<dead, known>>

\* What a dead pod was doing stops where it was.
Fall(c) ==
    /\ c \in dead
    /\ A!Crash(c)
    /\ UNCHANGED <<gateway, dead, known>>

-----------------------------------------------------------------------------
(* Failures, the clock, and what other software does to the tables.        *)

ServiceDies ==
    /\ G!ServiceDies("auth")
    /\ dead' = dead \cup {c \in Call : pc[c] # "idle"}
    /\ UNCHANGED <<accounts, known>>

\* A death is over, and all its Fall steps taken, before the pod is back.
Restart ==
    /\ \A c \in dead : A!Over(c)
    /\ G!Restart("auth")
    /\ UNCHANGED <<accounts, dead, known>>

LoseConnections ==
    /\ G!Disconnect("auth") \/ G!GatewayDies
    /\ UNCHANGED <<accounts, dead, known>>

Environment ==
    /\ \/ \E k \in codes : A!Expire(k)
       \/ \E e \in Deletable : A!SoftDelete(e)
    /\ UNCHANGED <<gateway, dead, known>>

Quiescent ==
    /\ \A c \in Call : G!Over(c) /\ (pc[c] = "idle" \/ A!Over(c))
    /\ requests \cup running = {} /\ replies = {}
    /\ UNCHANGED vars

Next ==
    \/ \E c \in Call : Arrive(c) \/ Forward(c) \/ Dispatch(c) \/ Work(c) \/ Return(c) \/ Fall(c)
    \/ ServiceDies \/ Restart \/ LoseConnections \/ Environment \/ Quiescent

Spec == Init /\ [][Next]_vars

\* As the parts assume: gateway and services work on, and a message on a
\* living connection arrives.  Nothing obliges a call to fail, or a lost pod
\* to come back.
Fairness ==
    \A c \in Call :
        /\ WF_vars(Forward(c)) /\ WF_vars(Dispatch(c))
        /\ WF_vars((Work(c) \/ Return(c)) /\ Proceeds(c))

FairSpec == Spec /\ Fairness

-----------------------------------------------------------------------------
(* Properties.                                                             *)

Registers(c) == route[c] \in {"register", "register-provider"}

(* Whoever is told over HTTP that a registration succeeded has the account *)
(* entire: its user row, its profile, for a business its serviceProvider   *)
(* row, and an OTP used up.                                                *)
AnsweredIsWhole ==
    \A c \in Call : Succeeded(c) /\ Registers(c) =>
        /\ user[in[c].email] = c
        /\ c \in profile
        /\ consumed[c] # None
        /\ route[c] = "register-provider" => c \in provider

\* The gateway let c through, and has not told its caller otherwise.
Vetted(c) ==
    /\ c \in admitted /\ valid[c]
    /\ answer[c] # None => answer[c][1] \notin {401, 403, 422}

(* Behind every account row and every password written stand two calls the *)
(* gateway vetted: the one that wrote it and, to the same address, the one *)
(* to auth/otp whose code it presented.                                    *)
WritesAreVetted ==
    \A e \in Email : \A c \in {user[e], password[e]} \cap Call :
        /\ Vetted(c) /\ route[c] # "otp"
        /\ proof[c] \in Call /\ Vetted(proof[c])
        /\ route[proof[c]] = "otp" /\ in[proof[c]].email = e

(* For callers who wait for their answers: a code is not accepted from     *)
(* whoever knew, when calling, of a later successful auth/otp for the      *)
(* address and purpose, itself called in the knowledge that the code's     *)
(* call had succeeded.                                                     *)
ResendSupersedes ==
    \A c, b \in Call :
        (/\ proof[c] # None
         /\ b \in known[c] /\ route[b] = "otp"
         /\ in[b].email = in[c].email /\ in[b].type = A!WantedType(in[c].op))
        => proof[c] \notin known[b]

(* Nor is a tax number registered again by a caller who knew of the        *)
(* registration that holds it.                                             *)
TaxIdTakenOnce ==
    \A p, q \in provider : p \in known[q] => in[p].taxId # in[q].taxId

(* Without faults a caller may try again: a call that was answered with    *)
(* anything but success, and in the service overlapped no other for its    *)
(* address, has left neither an account nor a password behind.             *)
SerialFailureIsClean ==
    \A c \in Call, e \in Email :
        (/\ at[c] = "answered" /\ ~Succeeded(c)
         /\ \A q \in Call \ {c} :
                pc[q] # "idle" /\ in[q].email = e => q \in prior[c] \/ c \in prior[q])
        => user[e] # c /\ password[e] # c

(* Every call is answered, unless the gateway dies: whatever the handlers  *)
(* meet in the database, and whether or not their pod survives.            *)
EveryCallAnswered == \A c \in Call : at[c] # "idle" ~> G!Over(c)

(* The safety half of it: a call that waits does so for a living pod, on a *)
(* message not dispatched, a method with something left to do, or a reply  *)
(* on its way.                                                             *)
NobodyForgotten ==
    \A c \in Call : at[c] = "waiting" =>
        /\ "auth" \in up
        /\ \/ c \in requests
           \/ c \notin dead /\ A!Left(c) > 0
           \/ \E o \in G!Outcome \cup {"noHandler"} : <<c, o>> \in replies
=============================================================================
