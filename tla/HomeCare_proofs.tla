--------------------------- MODULE HomeCare_proofs ---------------------------
(***************************************************************************)
(* The composition implements each of its parts, so that what is proved of *)
(* the parts holds of it; one more invariant, PartsAgree, ties the answers *)
(* of the one to the tables of the other.  It is the glue of the joint     *)
(* actions and says nothing of the code; the theorems do.                  *)
(***************************************************************************)
EXTENDS HomeCare, TLAPS

\* The parts once more, with what is proved about them.
GP == INSTANCE Gateway_proofs WITH Route <- AccountRoutes, pc <- at
AP == INSTANCE Accounts_proofs WITH Req <- Call

-----------------------------------------------------------------------------
(* G and GP, A and AP are the same modules.                                *)

LEMMA SameTables ==
    ASSUME NEW w
    PROVE  /\ G!ServiceOf(w) = GP!ServiceOf(w)
           /\ G!IsPublic(w) = GP!IsPublic(w)
           /\ G!Sent(w) = GP!Sent(w) /\ G!Read(w) = GP!Read(w)
           /\ G!Pattern(w) = GP!Pattern(w) /\ G!Patterns(w) = GP!Patterns(w)
           /\ G!HasBody(w) = GP!HasBody(w)
           /\ G!DefaultStatus(w) = GP!DefaultStatus(w)
           /\ G!FailureStatus(w) = GP!FailureStatus(w)
<1>1. /\ G!ServiceOf(w) = GP!ServiceOf(w)
      /\ G!IsPublic(w) = GP!IsPublic(w)
      /\ G!HasBody(w) = GP!HasBody(w)
  BY DEF G!ServiceOf, GP!ServiceOf, G!AuthRoutes, GP!AuthRoutes, G!IsPublic, GP!IsPublic,
     G!HasBody, GP!HasBody
<1>2. G!Sent(w) = GP!Sent(w) /\ G!Read(w) = GP!Read(w)
  BY DEF G!Sent, GP!Sent, G!Read, GP!Read
<1>3. G!Pattern(w) = GP!Pattern(w) /\ G!Patterns(w) = GP!Patterns(w)
  BY DEF G!Pattern, GP!Pattern, G!Patterns, GP!Patterns, G!AuthRoutes, GP!AuthRoutes
<1>4. G!DefaultStatus(w) = GP!DefaultStatus(w) /\ G!FailureStatus(w) = GP!FailureStatus(w)
  BY <1>1 DEF G!DefaultStatus, GP!DefaultStatus, G!FailureStatus, GP!FailureStatus
<1>. QED
  BY <1>1, <1>2, <1>3, <1>4

LEMMA SameGatewayStep ==
    ASSUME NEW c \in Call
    PROVE  /\ G!Arrive(c) <=> GP!Arrive(c)
           /\ G!Guard(c) <=> GP!Guard(c)
           /\ G!Pipe(c) <=> GP!Pipe(c)
           /\ G!Send(c) <=> GP!Send(c)
           /\ G!Dispatch(c) <=> GP!Dispatch(c)
           /\ G!Finish(c) <=> GP!Finish(c)
           /\ \A o : G!Deliver(<<c, o>>) <=> GP!Deliver(<<c, o>>)
<1>. USE SameTables DEF G!caller, GP!caller, G!wire, GP!wire, G!history, GP!history, G!Goto,
     GP!Goto, G!Answer, GP!Answer, G!ReplyWith, GP!ReplyWith, G!Outcome, GP!Outcome
<1>1. G!Arrive(c) <=> GP!Arrive(c)
  BY DEF G!Arrive, GP!Arrive
<1>2. (G!Guard(c) <=> GP!Guard(c)) /\ (G!Pipe(c) <=> GP!Pipe(c))
  BY DEF G!Guard, GP!Guard, G!Pipe, GP!Pipe
<1>3. G!Send(c) <=> GP!Send(c)
  BY DEF G!Send, GP!Send
<1>4. G!Dispatch(c) <=> GP!Dispatch(c)
  BY DEF G!Dispatch, GP!Dispatch
<1>5. G!Finish(c) <=> GP!Finish(c)
  BY DEF G!Finish, GP!Finish
<1>6. ASSUME NEW o PROVE G!Deliver(<<c, o>>) <=> GP!Deliver(<<c, o>>)
  BY DEF G!Deliver, GP!Deliver, G!Callback, GP!Callback, G!Resolve, GP!Resolve,
     G!HandleZodError, GP!HandleZodError
<1>. QED
  BY <1>1, <1>2, <1>3, <1>4, <1>5, <1>6

LEMMA SameLoss ==
    ASSUME NEW s
    PROVE  /\ G!Disconnect(s) <=> GP!Disconnect(s)
           /\ G!ServiceDies(s) <=> GP!ServiceDies(s)
           /\ G!Restart(s) <=> GP!Restart(s)
           /\ G!GatewayDies <=> GP!GatewayDies
<1>. USE SameTables DEF G!caller, GP!caller, G!wire, GP!wire, G!history, GP!history
<1>1. \A received : G!Lose(s, received) <=> GP!Lose(s, received)
  BY DEF G!Lose, GP!Lose, G!WaitingFor, GP!WaitingFor
<1>2. G!ServedBy(s) = GP!ServedBy(s)
  BY DEF G!ServedBy, GP!ServedBy
<1>3. (G!Disconnect(s) <=> GP!Disconnect(s)) /\ (G!ServiceDies(s) <=> GP!ServiceDies(s))
  BY <1>1, <1>2 DEF G!Disconnect, GP!Disconnect, G!ServiceDies, GP!ServiceDies
<1>4. (G!Restart(s) <=> GP!Restart(s)) /\ (G!GatewayDies <=> GP!GatewayDies)
  BY DEF G!Restart, GP!Restart, G!GatewayDies, GP!GatewayDies, G!Over, GP!Over
<1>. QED
  BY <1>3, <1>4

LEMMA SameHandler ==
    ASSUME NEW c \in Call
    PROVE  /\ A!Start(c) <=> AP!Start(c)
           /\ A!Step(c) <=> AP!Step(c)
           /\ A!CreateUser(c) <=> AP!CreateUser(c)
           /\ A!CreateProfile(c) <=> AP!CreateProfile(c)
           /\ A!UpdatePassword(c) <=> AP!UpdatePassword(c)
           /\ A!DeleteCode(c) <=> AP!DeleteCode(c)
           /\ A!Throw(c) <=> AP!Throw(c)
           /\ A!ThrowInBranch(c) <=> AP!ThrowInBranch(c)
           /\ A!Crash(c) <=> AP!Crash(c)
<1>. USE DEF A!tables, AP!tables, A!local, AP!local, A!Goto, AP!Goto, A!Over, AP!Over,
     A!Answered, AP!Answered, A!Pending, AP!Pending, A!Found, AP!Found, A!SameKind,
     AP!SameKind, A!WantedType, AP!WantedType, A!Presented, AP!Presented
<1>1. A!Start(c) <=> AP!Start(c)
  BY DEF A!Start, AP!Start, A!FirstStep, AP!FirstStep
<1>2. A!Step(c) <=> AP!Step(c)
  BY DEF A!Step, AP!Step, A!LookupUser, AP!LookupUser, A!Refused, AP!Refused, A!ClearCodes,
     AP!ClearCodes, A!Superseded, AP!Superseded, A!InsertCode, AP!InsertCode, A!SendMail,
     AP!SendMail, A!ValidateCode, AP!ValidateCode, A!AfterValidate, AP!AfterValidate,
     A!CheckDuplicate, AP!CheckDuplicate, A!Duplicate, AP!Duplicate, A!Fork, AP!Fork,
     A!Settle, AP!Settle, A!AllDone, AP!AllDone, A!AfterJoin, AP!AfterJoin,
     A!CreateServiceProvider, AP!CreateServiceProvider, A!Reply, AP!Reply
<1>3. /\ A!CreateUser(c) <=> AP!CreateUser(c)
      /\ A!CreateProfile(c) <=> AP!CreateProfile(c)
      /\ A!UpdatePassword(c) <=> AP!UpdatePassword(c)
      /\ A!DeleteCode(c) <=> AP!DeleteCode(c)
  BY DEF A!CreateUser, AP!CreateUser, A!CreateProfile, AP!CreateProfile, A!UpdatePassword,
     AP!UpdatePassword, A!DeleteCode, AP!DeleteCode
<1>4. /\ A!Throw(c) <=> AP!Throw(c)
      /\ A!ThrowInBranch(c) <=> AP!ThrowInBranch(c)
      /\ A!Crash(c) <=> AP!Crash(c)
  BY DEF A!Throw, AP!Throw, A!ThrowInBranch, AP!ThrowInBranch, A!Crash, AP!Crash
<1>. QED
  BY <1>1, <1>2, <1>3, <1>4

LEMMA SameEnvironment ==
    /\ \A k : A!Expire(k) <=> AP!Expire(k)
    /\ \A e : A!SoftDelete(e) <=> AP!SoftDelete(e)
BY DEF A!Expire, AP!Expire, A!SoftDelete, AP!SoftDelete, A!local, AP!local

LEMMA SameGateway == G!Spec => GP!Spec
<1>1. G!Init => GP!Init
  BY DEF G!Init, GP!Init, G!Service, GP!Service
<1>2. ASSUME G!Next PROVE GP!Next \/ UNCHANGED GP!vars
  <2>1. ASSUME NEW c \in Call, G!Arrive(c) \/ G!Step(c) PROVE GP!Arrive(c) \/ GP!Step(c)
    BY <2>1, SameGatewayStep DEF G!Step, GP!Step, G!Outcome, GP!Outcome
  <2>2. ASSUME NEW s \in G!Service, G!Disconnect(s) \/ G!ServiceDies(s) \/ G!Restart(s)
        PROVE  GP!Next
    BY <2>2, SameLoss DEF G!Service, GP!Service, GP!Next
  <2>3. CASE G!GatewayDies
    BY <2>3, SameLoss DEF GP!Next
  <2>4. CASE G!Quiescent
    BY <2>4 DEF G!Quiescent, G!vars, G!caller, G!wire, G!history,
       GP!vars, GP!caller, GP!wire, GP!history
  <2>. QED
    BY <1>2, <2>1, <2>2, <2>3, <2>4 DEF G!Next, GP!Next
<1>3. UNCHANGED G!vars => UNCHANGED GP!vars
  BY DEF G!vars, G!caller, G!wire, G!history, GP!vars, GP!caller, GP!wire, GP!history
<1>. QED
  BY <1>1, <1>2, <1>3, PTL DEF G!Spec, GP!Spec

LEMMA SameAccounts == A!Spec => AP!Spec
<1>1. A!Init => AP!Init
  BY DEF A!Init, AP!Init
<1>2. ASSUME A!Next PROVE AP!Next \/ UNCHANGED AP!vars
  <2>1. CASE A!Quiescent
    BY <2>1 DEF A!Quiescent, A!vars, A!tables, A!local, AP!vars, AP!tables, AP!local
  <2>. QED
    BY <1>2, <2>1, SameHandler, SameEnvironment DEF A!Next, AP!Next
<1>3. UNCHANGED A!vars => UNCHANGED AP!vars
  BY DEF A!vars, A!tables, A!local, AP!vars, AP!tables, AP!local
<1>. QED
  BY <1>1, <1>2, <1>3, PTL DEF A!Spec, AP!Spec

-----------------------------------------------------------------------------
(* The composition implements both parts.                                  *)

(* What the gateway does with calls to the account routes, it does here:   *)
(* handlers that are the account operations only restrict when a handler   *)
(* ends, and how.                                                          *)
THEOREM ImplementsGateway == Spec => G!Spec
<1>1. ASSUME [Next]_vars PROVE G!Next \/ UNCHANGED gateway
  <2>1. ASSUME NEW c \in Call, Arrive(c) \/ Forward(c) \/ Dispatch(c) \/ Return(c)
        PROVE  G!Next
    <3>1. G!Arrive(c) \/ G!Step(c)
      BY <2>1 DEF Arrive, Forward, Deliver, Dispatch, Return, G!Step
    <3>. QED
      BY <3>1 DEF G!Next
  <2>2. ASSUME NEW c \in Call, Work(c) \/ Fall(c)
        PROVE  UNCHANGED gateway
    BY <2>2 DEF Work, Fall
  <2>3. CASE ServiceDies \/ Restart \/ LoseConnections
    BY <2>3 DEF ServiceDies, Restart, LoseConnections, G!Next, G!Service
  <2>4. CASE Environment \/ Quiescent \/ UNCHANGED vars
    BY <2>4 DEF Environment, Quiescent, vars
  <2>. QED
    BY <1>1, <2>1, <2>2, <2>3, <2>4 DEF Next
<1>2. UNCHANGED gateway => UNCHANGED G!vars
  BY DEF gateway, G!vars, G!caller, G!wire, G!history
<1>3. Init => G!Init
  BY DEF Init
<1>. QED
  BY <1>1, <1>2, <1>3, PTL DEF Spec, G!Spec

(* The account operations are reached through the gateway alone, and stay  *)
(* what they are: a call is a request that starts when its message is      *)
(* dispatched, and a pod's death is the crash of those it had dispatched.  *)
THEOREM ImplementsAccounts == Spec => A!Spec
<1>1. ASSUME [Next]_vars PROVE A!Next \/ UNCHANGED accounts
  <2>1. ASSUME NEW c \in Call, Dispatch(c) \/ Work(c) \/ Return(c) \/ Fall(c)
        PROVE  A!Next
    <3>1. A!Start(c) \/ Handler(c) \/ A!Crash(c)
      BY <2>1 DEF Dispatch, Work, Return, Fall
    <3>. QED
      BY <3>1 DEF Handler, Proceeds, A!Next
  <2>2. ASSUME NEW c \in Call, Arrive(c) \/ Forward(c)
        PROVE  UNCHANGED accounts
    BY <2>2 DEF Arrive, Forward
  <2>3. CASE Environment
    BY <2>3 DEF Environment, A!Next
  <2>4. CASE ServiceDies \/ Restart \/ LoseConnections \/ Quiescent \/ UNCHANGED vars
    BY <2>4 DEF ServiceDies, Restart, LoseConnections, Quiescent, vars
  <2>. QED
    BY <1>1, <2>1, <2>2, <2>3, <2>4 DEF Next
<1>2. UNCHANGED accounts => UNCHANGED A!vars
  BY DEF accounts, A!vars, A!tables, A!local
<1>3. Init => A!Init
  BY DEF Init
<1>. QED
  BY <1>1, <1>2, <1>3, PTL DEF Spec, A!Spec

\* What the parts assume of their constants.
LEMMA PartsAssumptions ==
    /\ AccountRoutes \subseteq GP!Routes
    /\ Faults \in BOOLEAN
    /\ None \notin AccountRoutes \cup {"ok", "refused", "thrown",
                                       "result", "refusal", "none", "turnedAway"}
    /\ None \notin Nat \X {"result", "refusal", "none"}
    /\ Inputs \in [Call -> SUBSET AP!Body]
    /\ \A r \in Call : \A i \in Inputs[r] :
        /\ i.op = "sendOTP" => i.type # None
        /\ i.op \in {"register", "registerProvider"} => i.name # None
    /\ Seeded \subseteq Email /\ Deletable \subseteq Email
    /\ Seed \notin Call /\ None \notin Call /\ Seed # None /\ None \notin AP!Body
<1>1. AccountRoutes \subseteq GP!Routes
  BY DEF AccountRoutes, GP!Routes, GP!AuthRoutes
<1>2. A!Body = AP!Body
  BY DEF A!Body, AP!Body, A!Ops, AP!Ops, A!Types, AP!Types
<1>. QED
  BY <1>1, <1>2, HomeCareAssumption

\* What holds of the parts, in the composition too.
Inherited ==
    /\ GP!IInv
    /\ AP!TypeOK /\ AP!Placed /\ AP!Rows /\ AP!Owners
    /\ AP!History /\ AP!SupersededCodeRefused

LEMMA InheritedHolds == Spec => []Inherited
<1>1. GP!Spec => []GP!IInv
  BY PartsAssumptions, GP!Inductive
<1>2. AP!Spec => [](AP!TypeOK /\ AP!Placed /\ AP!Rows /\ AP!Owners)
  BY PartsAssumptions, AP!OwnersInvariant
<1>3. AP!Spec => []( /\ AP!TypeOK /\ AP!Placed
                     /\ AP!History /\ AP!SupersededCodeRefused)
  BY PartsAssumptions, AP!HistoryInvariant
<1>. QED
  BY <1>1, <1>2, <1>3, ImplementsGateway, SameGateway, ImplementsAccounts, SameAccounts, PTL
  DEF Inherited

-----------------------------------------------------------------------------
(* The two parts agree.                                                    *)

LEMMA OnlyAuth == \A w \in AccountRoutes : /\ G!ServiceOf(w) = "auth"
                                           /\ G!Pattern(w) \in G!Patterns("auth")
BY DEF AccountRoutes, G!ServiceOf, G!AuthRoutes, G!Pattern, G!Patterns

\* What the gateway's invariant says of a call.
LEMMA OnTheWire ==
    ASSUME Inherited, NEW c \in Call
    PROVE  /\ route[c] \in AccountRoutes \cup {None} /\ (route[c] = None <=> at[c] = "idle")
           /\ at[c] \in {"idle", "guard", "pipe", "send"} =>
                 /\ c \notin requests \cup running
                 /\ ran[c] = 0 /\ answer[c] = None /\ ended[c] = None
           /\ c \in requests => c \notin running /\ ran[c] = 0
           /\ ran[c] = 0 => c \notin running /\ ended[c] = None
           /\ c \in running => ended[c] = None
           /\ ran[c] \in Nat
BY DEF Inherited, GP!IInv, GP!TypeOK, GP!CallInv, GP!Fresh, GP!Once, GP!InFlight, GP!Unsent

LEMMA HandlerStep ==
    ASSUME Inherited, NEW c \in Call, Handler(c)
    PROVE  /\ \A q \in Call \ {c} : pc'[q] = pc[q]
           /\ pc[c] # "idle"
           /\ A!Answered(c) => pc'[c] = pc[c]
           /\ ~A!Answered(c) => pc'[c] \notin {"idle", "crashed"}
           /\ UNCHANGED <<in, prior>>
<1>. USE DEF Inherited, AP!TypeOK, AP!Placed, AP!Before, A!Answered, A!Goto, A!local
<1>1. CASE A!Step(c)
  BY <1>1 DEF A!Step, A!LookupUser, A!ClearCodes, A!InsertCode, A!SendMail, A!ValidateCode,
     A!AfterValidate, A!CheckDuplicate, A!Fork, A!Settle, A!AfterJoin,
     A!CreateServiceProvider, A!Reply
<1>2. CASE A!CreateUser(c) \/ A!CreateProfile(c) \/ A!UpdatePassword(c) \/ A!DeleteCode(c)
  BY <1>2 DEF A!CreateUser, A!CreateProfile, A!UpdatePassword, A!DeleteCode
<1>3. CASE A!Throw(c) \/ A!ThrowInBranch(c)
  BY <1>3 DEF A!Throw, A!ThrowInBranch
<1>. QED
  BY <1>1, <1>2, <1>3 DEF Handler, Proceeds

\* A handler is at work for the gateway's message exactly while the service
\* has it under way on a living pod, it ended there as it did here, it got
\* the operation its route names, and nothing a dead pod had begun goes on.
PartsAgree ==
    /\ dead \subseteq Call
    /\ \A c \in Call :
        /\ c \in requests => pc[c] = "idle"
        /\ pc[c] # "idle" <=> ran[c] > 0
        /\ pc[c] # "idle" => route[c] = RouteOf(in[c].op)
        /\ c \in running <=> pc[c] # "idle" /\ ~A!Answered(c) /\ c \notin dead
        /\ ended[c] = "ok" <=> pc[c] = "ok"
        /\ ended[c] \in {"refused", "thrown"} <=> pc[c] = "error"
        /\ pc[c] = "crashed" => c \in dead
        /\ c \in dead => pc[c] # "idle"

LEMMA InitAgrees == Init => PartsAgree
BY HomeCareAssumption DEF Init, G!Init, A!Init, A!Answered, PartsAgree

LEMMA ArriveAgrees ==
    ASSUME Inherited, PartsAgree, NEW c \in Call, Arrive(c)
    PROVE  PartsAgree'
BY OnTheWire
DEF Arrive, G!Arrive, G!Goto, G!wire, G!history, accounts, PartsAgree, A!Answered,
    Inherited, GP!IInv, GP!TypeOK

LEMMA ForwardAgrees ==
    ASSUME Inherited, PartsAgree, NEW c \in Call, Forward(c)
    PROVE  PartsAgree'
<1>1. /\ \A q \in Call : q \in requests' => q \in requests \/ at[q] = "send"
      /\ UNCHANGED <<route, running, ran, ended, accounts, dead>>
  BY DEF Forward, Deliver, G!Guard, G!Pipe, G!Send, G!Deliver, G!caller, G!wire, G!history
<1>. QED
  BY <1>1, OnTheWire DEF accounts, PartsAgree, A!Answered

LEMMA DispatchAgrees ==
    ASSUME Inherited, PartsAgree, NEW c \in Call, Dispatch(c)
    PROVE  PartsAgree'
<1>1. c \in requests /\ ran[c] = 0 /\ ended[c] = None /\ pc[c] = "idle" /\ c \notin dead
  BY OnTheWire DEF Dispatch, G!Dispatch, PartsAgree
<1>2. route[c] \in AccountRoutes
  BY <1>1, OnTheWire
<1>3. /\ requests' = requests \ {c} /\ running' = running \cup {c}
      /\ ran' = [ran EXCEPT ![c] = @ + 1]
      /\ UNCHANGED <<route, ended, dead>>
  BY <1>2, OnlyAuth DEF Dispatch, G!Dispatch, G!caller
<1>4. /\ pc' = [pc EXCEPT ![c] = pc'[c]] /\ pc'[c] \in {"lookup", "validate"}
      /\ \A q \in Call \ {c} : in'[q] = in[q]
      /\ route[c] = RouteOf(in'[c].op)
  BY DEF Dispatch, A!Start, A!Goto, A!FirstStep, Inherited, AP!TypeOK
<1>. QED
  BY <1>1, <1>2, <1>3, <1>4, OnTheWire, HomeCareAssumption
  DEF PartsAgree, A!Answered, Inherited, AP!TypeOK, GP!IInv, GP!TypeOK

LEMMA WorkAgrees ==
    ASSUME Inherited, PartsAgree, NEW c \in Call, Work(c)
    PROVE  PartsAgree'
BY HandlerStep DEF Work, Returns, gateway, PartsAgree, A!Answered

LEMMA ReturnAgrees ==
    ASSUME Inherited, PartsAgree, NEW c \in Call, Return(c)
    PROVE  PartsAgree'
<1>1. /\ c \in running /\ running' = running \ {c}
      /\ \A q \in Call \ {c} : ended'[q] = ended[q]
      /\ ended'[c] \in {"ok", "refused", "thrown"}
      /\ ended'[c] = "ok" <=> pc'[c] = "ok"
      /\ UNCHANGED <<route, requests, ran, dead>>
  BY DEF Return, G!Finish, G!Outcome, G!caller, Inherited, GP!IInv, GP!TypeOK
<1>2. pc'[c] \in {"ok", "error"} /\ ~A!Answered(c)
  BY DEF Return, Returns
<1>. QED
  BY <1>1, <1>2, HandlerStep DEF Return, PartsAgree, A!Answered

LEMMA FallAgrees ==
    ASSUME Inherited, PartsAgree, NEW c \in Call, Fall(c)
    PROVE  PartsAgree'
BY DEF Fall, A!Crash, A!Goto, A!Answered, gateway, PartsAgree, Inherited, AP!TypeOK

LEMMA LossAgrees ==
    ASSUME Inherited, PartsAgree, ServiceDies \/ Restart \/ LoseConnections
    PROVE  PartsAgree'
<1>1. CASE ServiceDies
  <2>1. /\ running' = running \ G!ServedBy("auth") /\ requests' \subseteq requests
        /\ dead' = dead \cup {c \in Call : pc[c] # "idle"}
        /\ UNCHANGED <<route, ran, ended, accounts>>
    BY <1>1 DEF ServiceDies, G!ServiceDies, G!Lose, G!caller, G!history
  <2>2. \A c \in running : c \in Call => c \in G!ServedBy("auth")
    BY OnTheWire, OnlyAuth DEF G!ServedBy
  <2>. QED
    BY <2>1, <2>2 DEF accounts, PartsAgree, A!Answered
<1>2. CASE Restart \/ LoseConnections
  <2>1. /\ requests' \subseteq requests
        /\ UNCHANGED <<route, running, ran, ended, accounts, dead>>
    BY <1>2 DEF Restart, G!Restart, LoseConnections, G!Disconnect, G!GatewayDies, G!Lose,
       G!caller, G!wire, G!history
  <2>. QED
    BY <2>1 DEF accounts, PartsAgree, A!Answered
<1>. QED
  BY <1>1, <1>2

LEMMA StepAgrees == Inherited /\ PartsAgree /\ [Next]_vars => PartsAgree'
<1>. SUFFICES ASSUME Inherited, PartsAgree, [Next]_vars PROVE PartsAgree'
  OBVIOUS
<1>1. CASE Environment
  BY <1>1 DEF Environment, A!Expire, A!SoftDelete, A!local, gateway, PartsAgree, A!Answered
<1>2. CASE Quiescent \/ UNCHANGED vars
  BY <1>2 DEF Quiescent, vars, gateway, accounts, PartsAgree, A!Answered
<1>. QED
  BY <1>1, <1>2, ArriveAgrees, ForwardAgrees, DispatchAgrees, WorkAgrees, ReturnAgrees,
     FallAgrees, LossAgrees DEF Next

LEMMA PartsAgreeHolds == Spec => []PartsAgree
BY InitAgrees, StepAgrees, InheritedHolds, PTL DEF Spec

-----------------------------------------------------------------------------
(* What an answer tells.                                                   *)

LEMMA ResultIsOk ==
    ASSUME Inherited, PartsAgree, NEW c \in Call, Succeeded(c)
    PROVE  pc[c] = "ok"
<1>1. answer[c] # None
  BY DEF Succeeded, Inherited, GP!IInv, GP!CallInv, GP!Checked
<1>. QED
  BY <1>1 DEF Succeeded, Inherited, GP!IInv, GP!CallInv, GP!Own, PartsAgree

(* A registration answered with success over HTTP is whole.                *)
THEOREM AnsweredIsWholeHolds == Spec => []AnsweredIsWhole
<1>1. Inherited /\ PartsAgree => AnsweredIsWhole
  <2>. SUFFICES ASSUME Inherited, PartsAgree, NEW c \in Call, Succeeded(c), Registers(c)
                PROVE  /\ user[in[c].email] = c
                       /\ c \in profile
                       /\ consumed[c] # None
                       /\ route[c] = "register-provider" => c \in provider
    BY DEF AnsweredIsWhole
  <2>1. pc[c] = "ok"
    BY ResultIsOk
  <2>2. in[c].op \in {"sendOTP", "register", "registerProvider", "forgotPassword"}
    BY <2>1, PartsAssumptions DEF Inherited, AP!TypeOK, AP!Body, AP!Ops
  <2>3. /\ route[c] = RouteOf(in[c].op)
        /\ in[c].op \in {"register", "registerProvider"}
        /\ route[c] = "register-provider" => in[c].op = "registerProvider"
    BY <2>1, <2>2 DEF PartsAgree, Registers, RouteOf
  <2>. QED
    BY <2>1, <2>3 DEF Inherited, AP!Placed, AP!Owners, AP!Registers, AP!Spends
<1>. QED
  BY <1>1, InheritedHolds, PartsAgreeHolds, PTL

(* Every account row and password rests on two calls the gateway vetted.   *)
THEOREM WritesAreVettedHolds == Spec => []WritesAreVetted
<1>1. Inherited /\ PartsAgree => WritesAreVetted
  <2>. SUFFICES ASSUME Inherited, PartsAgree, NEW e \in Email,
                       NEW c \in {user[e], password[e]} \cap Call
                PROVE  /\ Vetted(c) /\ route[c] # "otp"
                       /\ proof[c] \in Call /\ Vetted(proof[c])
                       /\ route[proof[c]] = "otp" /\ in[proof[c]].email = e
    BY DEF WritesAreVetted
  <2>1. ASSUME NEW q \in Call, pc[q] # "idle"
        PROVE  Vetted(q)
    BY <2>1, OnTheWire DEF PartsAgree, Inherited, GP!IInv, GP!CallInv, GP!Checked, Vetted
  <2>2. /\ proof[c] # None /\ in[c].email = e
        /\ pc[c] # "idle" /\ AP!Spends(c)
    BY DEF Inherited, AP!Owners, AP!Placed
  <2>3. /\ proof[c] \in Call /\ in[proof[c]].op = "sendOTP" /\ in[proof[c]].email = e
        /\ pc[proof[c]] # "idle"
    BY <2>2 DEF Inherited, AP!Rows, AP!Authorised, AP!Sent
  <2>4. route[c] # "otp" /\ route[proof[c]] = "otp"
    BY <2>2, <2>3 DEF PartsAgree, RouteOf, AP!Spends, AP!Registers
  <2>. QED
    BY <2>1, <2>2, <2>3, <2>4
<1>. QED
  BY <1>1, InheritedHolds, PartsAgreeHolds, PTL

(* To callers and services the whole is a remote call that runs its        *)
(* handler at most once and answers once and truthfully...                 *)
THEOREM CallsAreRemoteHolds == Spec => G!CallsAreRemote
<1>1. GP!Spec => GP!CallsAreRemote
  BY PartsAssumptions, GP!GatewayImplementsRemoteCall
<1>2. GP!Remote!Init => G!Remote!Init
  BY DEF GP!Remote!Init, G!Remote!Init, GP!heard, G!heard
<1>3. GP!Remote!Next => G!Remote!Next
  BY DEF GP!Remote!Next, G!Remote!Next, GP!Remote!Ask, G!Remote!Ask, GP!Remote!TurnAway,
     G!Remote!TurnAway, GP!Remote!Begin, G!Remote!Begin, GP!Remote!End, G!Remote!End,
     GP!Remote!Report, G!Remote!Report, GP!Remote!GiveUp, G!Remote!GiveUp, GP!Remote!Tell,
     G!Remote!Tell, GP!Remote!Awaits, G!Remote!Awaits, GP!heard, G!heard
<1>4. UNCHANGED GP!Remote!vars => UNCHANGED G!Remote!vars
  BY DEF GP!Remote!vars, G!Remote!vars, GP!heard, G!heard
<1>. QED
  BY <1>1, <1>2, <1>3, <1>4, ImplementsGateway, SameGateway, PTL
  DEF GP!CallsAreRemote, G!CallsAreRemote, GP!Remote!Spec, G!Remote!Spec

(* ... and its OTPs are single-use, whatever is lost on the way.           *)
THEOREM CodesAreSingleUseHolds == Spec => A!CodesAreSingleUse
<1>1. AP!Spec => AP!CodesAreSingleUse
  BY PartsAssumptions, AP!CodesImplementSingleUse
<1>2. AP!Otp!Init => A!Otp!Init
  BY DEF AP!Otp!Init, A!Otp!Init
<1>3. AP!Otp!Next => A!Otp!Next
  BY DEF AP!Otp!Next, A!Otp!Next, AP!Otp!Issue, A!Otp!Issue, AP!Otp!Spend, A!Otp!Spend,
     AP!Otp!Void, A!Otp!Void
<1>4. UNCHANGED AP!Otp!vars => UNCHANGED A!Otp!vars
  BY DEF AP!Otp!vars, A!Otp!vars
<1>. QED
  BY <1>1, <1>2, <1>3, <1>4, ImplementsAccounts, SameAccounts, PTL
  DEF AP!CodesAreSingleUse, A!CodesAreSingleUse, AP!Otp!Spec, A!Otp!Spec

-----------------------------------------------------------------------------
(* What callers know of each other's calls.                                *)

Knows ==
    /\ known \in [Call -> SUBSET Call]
    /\ \A c \in Call :
        /\ \A q \in known[c] : q # c /\ Succeeded(q)
        /\ pc[c] # "idle" => known[c] \subseteq prior[c]

LEMMA SucceededStays ==
    ASSUME Inherited, [Next]_vars, NEW q \in Call, Succeeded(q)
    PROVE  Succeeded(q)'
<1>. USE DEF Inherited, GP!IInv, GP!TypeOK
<1>1. at[q] = "answered"
  BY DEF Succeeded
<1>. SUFFICES at'[q] = at[q] /\ answer'[q] = answer[q]
  BY DEF Succeeded
<1>2. ASSUME NEW c \in Call, Arrive(c)
      PROVE  at'[q] = at[q] /\ answer'[q] = answer[q]
  BY <1>1, <1>2 DEF Arrive, G!Arrive, G!Goto
<1>3. ASSUME NEW c \in Call, Forward(c)
      PROVE  at'[q] = at[q] /\ answer'[q] = answer[q]
  <2>1. CASE G!Guard(c) \/ G!Pipe(c) \/ G!Send(c)
    BY <1>1, <2>1 DEF G!Guard, G!Pipe, G!Send, G!Answer, G!Goto
  <2>2. CASE Deliver(c)
    BY <1>1, <2>2 DEF Deliver, G!Deliver, G!Callback, G!Resolve, G!HandleZodError, G!Answer,
       G!Goto
  <2>. QED
    BY <1>3, <2>1, <2>2 DEF Forward
<1>4. ASSUME NEW c \in Call, Dispatch(c) \/ Work(c) \/ Return(c) \/ Fall(c)
      PROVE  at'[q] = at[q] /\ answer'[q] = answer[q]
  BY <1>4 DEF Dispatch, G!Dispatch, Work, Return, G!Finish, Fall, gateway
<1>5. CASE ServiceDies \/ Restart \/ LoseConnections
  BY <1>1, <1>5 DEF ServiceDies, G!ServiceDies, Restart, G!Restart, LoseConnections,
     G!Disconnect, G!GatewayDies, G!Lose, G!WaitingFor, G!Over
<1>6. CASE Environment \/ Quiescent \/ UNCHANGED vars
  BY <1>6 DEF Environment, Quiescent, vars, gateway
<1>. QED
  BY <1>2, <1>3, <1>4, <1>5, <1>6 DEF Next

LEMMA ResultIsOver ==
    ASSUME Inherited, PartsAgree, NEW c \in Call, Succeeded(c)
    PROVE  A!Over(c)
BY ResultIsOk, PartsAssumptions
DEF Inherited, AP!Placed, AP!Spends, AP!Registers, A!Over, A!Answered, A!Pending

LEMMA StepKnows == Inherited /\ PartsAgree /\ Knows /\ [Next]_vars => Knows'
<1>. SUFFICES ASSUME Inherited, PartsAgree, Knows, [Next]_vars PROVE Knows'
  OBVIOUS
<1>0. known' \in [Call -> SUBSET Call]
  BY DEF Knows, Next, Arrive, Forward, Dispatch, Work, Return, Fall, ServiceDies, Restart,
     LoseConnections, Environment, Quiescent, vars
<1>. SUFFICES ASSUME NEW c \in Call
              PROVE  /\ \A q \in known'[c] : q # c /\ Succeeded(q)'
                     /\ pc'[c] # "idle" => known'[c] \subseteq prior'[c]
  BY <1>0 DEF Knows
<1>1. \A q \in Call : Succeeded(q) => Succeeded(q)'
  BY SucceededStays
<1>2. CASE Arrive(c)
  <2>1. pc'[c] = "idle"
    BY <1>2, OnTheWire DEF Arrive, G!Arrive, accounts, PartsAgree
  <2>2. known'[c] = {q \in Call : Succeeded(q)}
    BY <1>2 DEF Arrive, Knows
  <2>3. ~Succeeded(c)
    BY <1>2 DEF Arrive, G!Arrive, Succeeded
  <2>. QED
    BY <1>1, <2>1, <2>2, <2>3
<1>3. CASE Dispatch(c)
  <2>1. prior'[c] = {q \in Call : A!Over(q)}
    BY <1>3 DEF Dispatch, A!Start, Inherited, AP!TypeOK
  <2>. QED
    BY <1>1, <1>3, <2>1, ResultIsOver DEF Dispatch, Knows
<1>4. CASE ~Arrive(c) /\ ~Dispatch(c)
  <2>1. known'[c] = known[c]
    BY <1>4 DEF Next, Arrive, Forward, Dispatch, Work, Return, Fall, ServiceDies, Restart,
       LoseConnections, Environment, Quiescent, vars, Knows
  <2>2. pc'[c] # "idle" => pc[c] # "idle" /\ prior'[c] = prior[c]
    <3>1. ASSUME NEW q \in Call, Work(q) \/ Return(q)
          PROVE  pc'[c] # "idle" => pc[c] # "idle" /\ prior'[c] = prior[c]
      BY <3>1, HandlerStep DEF Work, Return
    <3>2. ASSUME NEW q \in Call, Fall(q)
          PROVE  pc'[c] # "idle" => pc[c] # "idle" /\ prior'[c] = prior[c]
      BY <3>2 DEF Fall, A!Crash, A!Goto, Inherited, AP!TypeOK
    <3>3. ASSUME NEW q \in Call, Dispatch(q), q # c
          PROVE  pc'[c] = pc[c] /\ prior'[c] = prior[c]
      BY <3>3 DEF Dispatch, A!Start, A!Goto, Inherited, AP!TypeOK
    <3>4. CASE Environment
      BY <3>4 DEF Environment, A!Expire, A!SoftDelete, A!local
    <3>. QED
      BY <1>4, <3>1, <3>2, <3>3, <3>4
      DEF Next, Arrive, Forward, ServiceDies, Restart, LoseConnections, Quiescent, vars,
          accounts
  <2>. QED
    BY <1>1, <2>1, <2>2 DEF Knows
<1>. QED
  BY <1>2, <1>3, <1>4

LEMMA KnowsHolds == Spec => []Knows
<1>1. Init => Knows
  BY DEF Init, A!Init, Knows
<1>. QED
  BY <1>1, StepKnows, InheritedHolds, PartsAgreeHolds, PTL DEF Spec

(* Who waits for answers can rely on a resend: the older code is refused.  *)
THEOREM ResendSupersedesHolds == Spec => []ResendSupersedes
<1>1. Inherited /\ PartsAgree /\ Knows => ResendSupersedes
  <2>. SUFFICES ASSUME Inherited, PartsAgree, Knows, NEW c \in Call, NEW b \in Call,
                       proof[c] # None, b \in known[c], route[b] = "otp",
                       in[b].email = in[c].email, in[b].type = A!WantedType(in[c].op)
                PROVE  proof[c] \notin known[b]
    BY DEF ResendSupersedes
  <2>1. pc[c] # "idle" /\ b \in prior[c]
    BY DEF Inherited, AP!Placed, Knows
  <2>2. pc[b] = "ok" /\ known[b] \subseteq prior[b]
    BY ResultIsOk DEF Knows
  <2>3. in[b].op = "sendOTP"
    <3>1. in[b].op \in {"sendOTP", "register", "registerProvider", "forgotPassword"}
      BY <2>2, PartsAssumptions DEF Inherited, AP!TypeOK, AP!Body, AP!Ops
    <3>. QED
      BY <2>2, <3>1 DEF PartsAgree, RouteOf
  <2>. QED
    BY <2>1, <2>2, <2>3
    DEF Inherited, AP!SupersededCodeRefused, AP!WantedType, A!WantedType
<1>. QED
  BY <1>1, InheritedHolds, PartsAgreeHolds, KnowsHolds, PTL

(* A caller who knew of a provider cannot register its tax number again.   *)
THEOREM TaxIdTakenOnceHolds == Spec => []TaxIdTakenOnce
<1>1. Inherited /\ PartsAgree /\ Knows => TaxIdTakenOnce
  <2>. SUFFICES ASSUME Inherited, PartsAgree, Knows, NEW p \in provider, NEW q \in provider,
                       p \in known[q]
                PROVE  in[p].taxId # in[q].taxId
    BY DEF TaxIdTakenOnce
  <2>1. q \in Call /\ pc[q] # "idle"
    BY DEF Inherited, AP!TypeOK, AP!History
  <2>2. p \in prior[q] /\ p # q
    BY <2>1 DEF Knows
  <2>. QED
    BY <2>1, <2>2 DEF Inherited, AP!History
<1>. QED
  BY <1>1, InheritedHolds, PartsAgreeHolds, KnowsHolds, PTL

-----------------------------------------------------------------------------
(* Without faults.                                                         *)

\* Whoever has been answered has nothing under way, and the truth.
Told ==
    /\ dead = {}
    /\ \A c \in Call : at[c] = "answered" =>
        /\ c \notin requests \cup running
        /\ ended[c] = "ok" => Succeeded(c)

LEMMA ForwardTold ==
    ASSUME Inherited, Told, NEW c \in Call, Forward(c)
    PROVE  Told'
<1>. USE DEF Inherited, GP!IInv, GP!TypeOK
<1>1. /\ UNCHANGED <<running, ended, dead>> /\ requests' \subseteq requests \cup {c}
      /\ \A q \in Call \ {c} : at'[q] = at[q] /\ answer'[q] = answer[q]
  <2>1. CASE G!Guard(c) \/ G!Pipe(c) \/ G!Send(c)
    BY <2>1 DEF Forward, G!Guard, G!Pipe, G!Send, G!Answer, G!Goto, G!wire, G!history
  <2>2. CASE Deliver(c)
    BY <2>2 DEF Forward, Deliver, G!Deliver, G!Callback, G!Resolve, G!HandleZodError,
       G!Answer, G!Goto, G!history
  <2>. QED
    BY <2>1, <2>2 DEF Forward
<1>2. ASSUME at'[c] = "answered"
      PROVE  c \notin requests' \cup running' /\ (ended'[c] = "ok" => Succeeded(c)')
  <2>1. CASE G!Guard(c) \/ G!Pipe(c) \/ G!Send(c)
    BY <1>1, <1>2, <2>1, OnTheWire, HomeCareAssumption
    DEF G!Guard, G!Pipe, G!Send, G!Answer, G!Goto, G!wire
  <2>2. ASSUME NEW o \in G!Outcome \cup {"noHandler"}, G!Deliver(<<c, o>>)
        PROVE  c \notin requests' \cup running' /\ (ended'[c] = "ok" => Succeeded(c)')
    <3>1. CASE at[c] = "waiting"
      <4>1. /\ c \notin requests
            /\ IF o \in GP!Outcome THEN ended[c] = o ELSE ran[c] = 0
        BY <2>2 DEF GP!RepliesInv, GP!Told, G!Deliver, G!Outcome, GP!Outcome
      <4>2. c \notin running
        BY <4>1, OnTheWire, HomeCareAssumption DEF GP!Outcome
      <4>3. o = "ok" => Succeeded(c)'
        BY <2>2, <3>1 DEF G!Deliver, G!Callback, G!Resolve, G!Answer, G!Goto, Succeeded
      <4>4. ended[c] = "ok" => o = "ok"
        BY <4>1, OnTheWire, HomeCareAssumption DEF GP!Outcome
      <4>. QED
        BY <1>1, <2>2, <4>1, <4>2, <4>3, <4>4 DEF G!Deliver
    <3>2. CASE at[c] # "waiting"
      <4>1. UNCHANGED <<at, answer, requests>>
        BY <2>2, <3>2 DEF G!Deliver, G!Callback
      <4>. QED
        BY <1>1, <1>2, <4>1 DEF Told, Succeeded
    <3>. QED
      BY <3>1, <3>2
  <2>. QED
    BY <2>1, <2>2 DEF Forward, Deliver
<1>. QED
  BY <1>1, <1>2 DEF Told, Succeeded

LEMMA StepTold ==
    ASSUME ~Faults, Inherited, PartsAgree, Told, [Next]_vars
    PROVE  Told'
<1>. USE DEF Inherited, GP!IInv, GP!TypeOK
<1>1. ASSUME NEW c \in Call, Arrive(c) PROVE Told'
  BY <1>1 DEF Arrive, G!Arrive, G!Goto, G!wire, G!history, Told, Succeeded
<1>2. ASSUME NEW c \in Call, Dispatch(c) PROVE Told'
  BY <1>2 DEF Dispatch, G!Dispatch, Told, Succeeded
<1>3. ASSUME NEW c \in Call, Work(c) \/ Fall(c) PROVE Told'
  BY <1>3 DEF Work, Fall, gateway, Told, Succeeded
<1>4. ASSUME NEW c \in Call, Return(c) PROVE Told'
  BY <1>4 DEF Return, G!Finish, Told, Succeeded
<1>5. CASE ServiceDies \/ Restart \/ LoseConnections
  BY <1>5 DEF ServiceDies, G!ServiceDies, Restart, G!Restart, G!wire, G!history,
     LoseConnections, G!Disconnect, G!GatewayDies, Told, Succeeded
<1>6. CASE Environment \/ Quiescent \/ UNCHANGED vars
  BY <1>6 DEF Environment, Quiescent, vars, gateway, Told, Succeeded
<1>. QED
  BY <1>1, <1>2, <1>3, <1>4, <1>5, <1>6, ForwardTold DEF Next

(* A caller whose serial call failed without faults has left nothing.      *)
THEOREM SerialFailureIsCleanHolds ==
    ASSUME ~Faults PROVE Spec => []SerialFailureIsClean
<1>1. Init => Told
  BY DEF Init, G!Init, Told
<1>2. Inherited /\ PartsAgree /\ Told /\ [Next]_vars => Told'
  BY StepTold
<1>3. AP!Spec => []AP!SerialRefusalIsClean
  BY PartsAssumptions, AP!SerialRefusalIsCleanHolds
<1>4. Inherited /\ PartsAgree /\ Told /\ AP!SerialRefusalIsClean => SerialFailureIsClean
  <2>. SUFFICES ASSUME Inherited, PartsAgree, Told, AP!SerialRefusalIsClean, NEW c \in Call,
                       NEW e \in Email, at[c] = "answered", ~Succeeded(c),
                       \A q \in Call \ {c} : pc[q] # "idle" /\ in[q].email = e
                                             => q \in prior[c] \/ c \in prior[q]
                PROVE  user[e] # c /\ password[e] # c
    BY DEF SerialFailureIsClean
  <2>1. pc[c] \in {"idle", "error"}
    <3>1. ended[c] # "ok" /\ c \notin running /\ c \notin dead
      BY DEF Told
    <3>. QED
      BY <3>1 DEF PartsAgree, A!Answered
  <2>2. ASSUME user[e] = c \/ password[e] = c PROVE FALSE
    <3>1. in[c].email = e /\ proof[c] # None
      BY <2>2 DEF Inherited, AP!Owners
    <3>2. pc[c] = "error" /\ AP!Spends(c)
      BY <2>1, <3>1 DEF Inherited, AP!Placed
    <3>. QED
      BY <2>2, <3>1, <3>2 DEF AP!SerialRefusalIsClean
  <2>. QED
    BY <2>2
<1>. QED
  BY <1>1, <1>2, <1>3, <1>4, ImplementsAccounts, SameAccounts, InheritedHolds,
     PartsAgreeHolds, PTL DEF Spec

-----------------------------------------------------------------------------
(* Nobody is forgotten.                                                    *)

LEMMA SameLeft == \A c : A!Left(c) = AP!Left(c)
BY DEF A!Left, AP!Left, A!Ahead, AP!Ahead, A!Calls, AP!Calls

LEMMA LeftType == \A c : AP!Left(c) \in Nat
BY DEF AP!Left, AP!Ahead, AP!Calls

(* The gateway forgets no call, and the methods stand still only when they *)
(* are over: whoever waits, waits for something that can go on.            *)
THEOREM NobodyForgottenHolds == Spec => []NobodyForgotten
<1>1. GP!Spec => []GP!NobodyForgotten
  BY PartsAssumptions, GP!NobodyForgottenHolds
<1>2. AP!Spec => []AP!NeverStuck
  BY PartsAssumptions, AP!NeverStuckHolds
<1>3. Inherited /\ PartsAgree /\ GP!NobodyForgotten /\ AP!NeverStuck => NobodyForgotten
  <2>. SUFFICES ASSUME Inherited, PartsAgree, GP!NobodyForgotten, AP!NeverStuck,
                       NEW c \in Call, at[c] = "waiting"
                PROVE  /\ "auth" \in up
                       /\ \/ c \in requests
                          \/ c \notin dead /\ A!Left(c) > 0
                          \/ \E o \in G!Outcome \cup {"noHandler"} : <<c, o>> \in replies
    BY DEF NobodyForgotten
  <2>1. G!ServiceOf(route[c]) = "auth"
    BY OnTheWire, OnlyAuth
  <2>2. ASSUME c \in running PROVE c \notin dead /\ A!Left(c) > 0
    <3>1. pc[c] # "idle" /\ ~A!Answered(c) /\ c \notin dead
      BY <2>2 DEF PartsAgree
    <3>2. AP!Left(c) # 0
      BY <3>1 DEF AP!NeverStuck, AP!Over, AP!Answered, A!Answered
    <3>. QED
      BY <3>1, <3>2, SameLeft, LeftType
  <2>. QED
    BY <2>1, <2>2
    DEF GP!NobodyForgotten, GP!ServiceOf, G!ServiceOf, GP!AuthRoutes, G!AuthRoutes,
        GP!Outcome, G!Outcome
<1>. QED
  BY <1>1, <1>2, <1>3, InheritedHolds, PartsAgreeHolds, ImplementsGateway, SameGateway,
     ImplementsAccounts, SameAccounts, PTL
=============================================================================
