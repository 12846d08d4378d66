---------------------------- MODULE Gateway_proofs ----------------------------
(***************************************************************************)
(* What the gateway keeps true for any number of calls that share its      *)
(* connections, with connections, services and the gateway itself failing. *)
(***************************************************************************)
EXTENDS Gateway, TLAPS

Unsent == {"idle", "guard", "pipe", "send"}
InFlight(c) == c \in requests \cup running

(* Before its message, a call has touched nothing.                         *)
Fresh(c) ==
    pc[c] \in Unsent =>
        ~InFlight(c) /\ answer[c] = None /\ ran[c] = 0 /\ ended[c] = None

(* The checks passed so far.                                               *)
Checked(c) ==
    /\ pc[c] \in {"pipe", "send", "waiting"} => c \in admitted
    /\ pc[c] \in {"send", "waiting"} => valid[c]
    /\ pc[c] \in {"waiting", "dropped"} => answer[c] = None
    /\ pc[c] = "answered" => answer[c] # None
    /\ InFlight(c) \/ ran[c] > 0 =>
          /\ c \in admitted /\ valid[c]
          /\ answer[c] # None => answer[c][1] \notin {401, 403, 422}

(* A message is dispatched once, and its handler ends once.                *)
Once(c) ==
    /\ c \in requests => c \notin running /\ ran[c] = 0
    /\ c \in running => ended[c] = None
    /\ ran[c] = 0 => c \notin running /\ ended[c] = None
    /\ ran[c] <= 1

Own(c) ==
    answer[c] # None =>
        /\ answer[c][2] = "result" => ended[c] = "ok"
        /\ answer[c][2] = "refusal" => ended[c] = "refused"

CallInv(c) == Fresh(c) /\ Checked(c) /\ Once(c) /\ Own(c)

(* A reply on its way tells how the handler of a waiting call ended, or    *)
(* that it has none.                                                       *)
Told(c, o) ==
    /\ pc[c] = "waiting" /\ c \notin requests
    /\ IF o \in Outcome THEN ended[c] = o ELSE ran[c] = 0

RepliesInv ==
    \A c \in Call, o \in Outcome \cup {"noHandler"} : <<c, o>> \in replies => Told(c, o)

IInv == TypeOK /\ RepliesInv /\ \A c \in Call : CallInv(c)

-----------------------------------------------------------------------------
LEMMA InitIInv == Init => IInv
<1> SUFFICES ASSUME Init PROVE IInv
  OBVIOUS
<1>1. TypeOK
  BY DEF Init, TypeOK
<1>2. ASSUME NEW c \in Call PROVE CallInv(c)
  BY DEF Init, CallInv, Fresh, Checked, Once, Own, InFlight, Unsent
<1> QED BY <1>1, <1>2 DEF Init, IInv, RepliesInv

(* A step that touches one call, and no reply but its own.                 *)
LEMMA OneCall ==
    ASSUME IInv, NEW c \in Call, TypeOK', CallInv(c)', RepliesInv',
           \A d \in Call \ {c} :
              /\ pc'[d] = pc[d] /\ valid'[d] = valid[d] /\ answer'[d] = answer[d]
              /\ ran'[d] = ran[d] /\ ended'[d] = ended[d]
              /\ d \in admitted' <=> d \in admitted
              /\ d \in requests' <=> d \in requests
              /\ d \in running' <=> d \in running
    PROVE  IInv'
<1>1. ASSUME NEW d \in Call \ {c} PROVE CallInv(d)'
  BY DEF IInv, CallInv, Fresh, Checked, Once, Own, InFlight
<1> QED BY <1>1 DEF IInv

LEMMA StatusType ==
    ASSUME NEW w
    PROVE  DefaultStatus(w) \in {200, 201, 302} /\ FailureStatus(w) \in {302, 500}
BY DEF DefaultStatus, FailureStatus

LEMMA PairIsAnswer ==
    ASSUME NEW status \in {200, 201, 302, 401, 403, 422, 500}, NEW content \in Content
    PROVE  <<status, content>> # None
<1>1. <<status, content>> \in Nat \X {"result", "refusal", "none"}
  BY DEF Content
<1> QED BY <1>1, GatewayAssumption

-----------------------------------------------------------------------------
(* In the gateway, before the message.                                     *)

LEMMA ArriveKeeps == ASSUME IInv, NEW c \in Call, Arrive(c) PROVE IInv'
<1> USE DEF IInv, wire, history
<1>1. PICK w \in Route, v \in BOOLEAN :
        route' = [route EXCEPT ![c] = w] /\ valid' = [valid EXCEPT ![c] = v]
  BY DEF Arrive
<1>2. pc[c] = "idle" /\ pc' = [pc EXCEPT ![c] = "guard"]
      /\ UNCHANGED <<up, admitted, requests, running, replies, answer, ran, ended>>
  BY DEF Arrive, Goto
<1>3. TypeOK'
  BY <1>1, <1>2, GatewayAssumption DEF TypeOK
<1>4. CallInv(c)'
  BY <1>1, <1>2 DEF TypeOK, CallInv, Fresh, Checked, Once, Own, InFlight, Unsent
<1>5. RepliesInv'
  BY <1>2 DEF RepliesInv, Told, TypeOK
<1> QED BY <1>1, <1>2, <1>3, <1>4, <1>5, OneCall DEF TypeOK

LEMMA GuardKeeps == ASSUME IInv, NEW c \in Call, Guard(c) PROVE IInv'
<1> USE DEF IInv, caller, wire, history
<1>1. pc[c] = "guard" /\ UNCHANGED <<up, route, valid, requests, running, replies, ran, ended>>
  BY DEF Guard
<1>2. CASE admitted' = admitted \cup {c} /\ Goto(c, "pipe") /\ UNCHANGED answer
  <2>1. TypeOK'
    BY <1>1, <1>2 DEF TypeOK, Goto
  <2>2. CallInv(c)'
    BY <1>1, <1>2 DEF TypeOK, Goto, CallInv, Fresh, Checked, Once, Own, InFlight, Unsent
  <2>3. RepliesInv'
    BY <1>1, <1>2 DEF RepliesInv, Told, TypeOK, Goto
  <2> QED BY <1>1, <1>2, <2>1, <2>2, <2>3, OneCall DEF TypeOK, Goto
<1>3. ASSUME NEW status \in {401, 403}, Answer(c, status, "none"), UNCHANGED admitted
      PROVE  IInv'
  <2>1. TypeOK'
    BY <1>1, <1>3 DEF TypeOK, Answer, Goto, Content
  <2>2. CallInv(c)'
    BY <1>1, <1>3, PairIsAnswer
       DEF TypeOK, Answer, Goto, CallInv, Fresh, Checked, Once, Own, InFlight, Unsent, Content
  <2>3. RepliesInv'
    BY <1>1, <1>3 DEF RepliesInv, Told, TypeOK, Answer, Goto
  <2> QED BY <1>1, <1>3, <2>1, <2>2, <2>3, OneCall DEF TypeOK, Answer, Goto
<1> QED BY <1>2, <1>3 DEF Guard

LEMMA PipeKeeps == ASSUME IInv, NEW c \in Call, Pipe(c) PROVE IInv'
<1> USE DEF IInv, caller, wire, history
<1>1. pc[c] = "pipe"
      /\ UNCHANGED <<up, route, valid, admitted, requests, running, replies, ran, ended>>
  BY DEF Pipe
<1>2. \/ valid[c] /\ Goto(c, "send") /\ UNCHANGED answer
      \/ Answer(c, 422, "none")
  BY DEF Pipe
<1>3. TypeOK'
  BY <1>1, <1>2 DEF TypeOK, Answer, Goto, Content
<1>4. CallInv(c)'
  BY <1>1, <1>2, PairIsAnswer
     DEF TypeOK, Answer, Goto, CallInv, Fresh, Checked, Once, Own, InFlight, Unsent, Content
<1>5. RepliesInv'
  BY <1>1, <1>2 DEF RepliesInv, Told, TypeOK, Answer, Goto
<1> QED BY <1>1, <1>2, <1>3, <1>4, <1>5, OneCall DEF TypeOK, Answer, Goto

LEMMA SendKeeps == ASSUME IInv, NEW c \in Call, Send(c) PROVE IInv'
<1> USE DEF IInv, caller, wire, history
<1>1. pc[c] = "send"
      /\ UNCHANGED <<up, route, valid, admitted, running, replies, ran, ended>>
  BY DEF Send
<1>2. \/ requests' = requests \cup {c} /\ Goto(c, "waiting") /\ UNCHANGED answer
      \/ Answer(c, FailureStatus(route[c]), "none") /\ UNCHANGED requests
  BY DEF Send
<1>3. TypeOK'
  BY <1>1, <1>2, StatusType DEF TypeOK, Answer, Goto, Content
<1>4. CallInv(c)'
  BY <1>1, <1>2, StatusType, PairIsAnswer
     DEF TypeOK, Answer, Goto, CallInv, Fresh, Checked, Once, Own, InFlight, Unsent, Content
<1>5. RepliesInv'
  BY <1>1, <1>2 DEF RepliesInv, Told, TypeOK, Answer, Goto
<1> QED BY <1>1, <1>2, <1>3, <1>4, <1>5, OneCall DEF TypeOK, Answer, Goto

-----------------------------------------------------------------------------
(* In the service.                                                         *)

LEMMA DispatchKeeps == ASSUME IInv, NEW c \in Call, Dispatch(c) PROVE IInv'
<1> USE DEF IInv, caller
<1>1. c \in requests /\ requests' = requests \ {c}
      /\ UNCHANGED <<up, pc, route, valid, admitted, answer, ended>>
  BY DEF Dispatch
<1>2. \/ /\ running' = running \cup {c} /\ ran' = [ran EXCEPT ![c] = @ + 1]
         /\ UNCHANGED replies
      \/ ReplyWith(c, "noHandler") /\ UNCHANGED <<running, ran>>
  BY DEF Dispatch
<1>3. pc[c] \notin Unsent
  BY <1>1 DEF CallInv, Fresh, InFlight
<1>4. TypeOK'
  BY <1>1, <1>2 DEF TypeOK, ReplyWith
<1>5. CallInv(c)'
  BY <1>1, <1>2, <1>3 DEF TypeOK, CallInv, Fresh, Checked, Once, Own, InFlight
<1>6. RepliesInv'
  <2>1. \A p \in Outcome \cup {"noHandler"} : <<c, p>> \notin replies
    BY <1>1 DEF RepliesInv, Told
  <2>2. \A d \in Call : d # c => ran'[d] = ran[d]
    <3>1. ran \in [Call -> Nat]
      BY DEF TypeOK
    <3>2. ran' = ran \/ ran' = [ran EXCEPT ![c] = @ + 1]
      BY <1>2
    <3> QED BY <3>1, <3>2
  <2>3. ASSUME NEW d \in Call, NEW p \in Outcome \cup {"noHandler"}, <<d, p>> \in replies'
        PROVE  Told(d, p)'
    <3>1. CASE d # c
      <4>1. <<d, p>> \in replies
        BY <1>2, <2>3, <3>1 DEF ReplyWith
      <4> QED BY <1>1, <2>2, <3>1, <4>1 DEF RepliesInv, Told
    <3>2. CASE d = c
      <4>1. ReplyWith(c, "noHandler") /\ UNCHANGED ran
        BY <1>2, <2>1, <2>3, <3>2
      <4>2. pc[c] = "waiting" /\ p = "noHandler"
        BY <2>1, <2>3, <3>2, <4>1 DEF ReplyWith
      <4>3. ran[c] = 0
        BY <1>1 DEF CallInv, Once
      <4> QED BY <1>1, <3>2, <4>1, <4>2, <4>3 DEF Told, Outcome
    <3> QED BY <3>1, <3>2
  <2> QED BY <2>3 DEF RepliesInv
<1> QED BY <1>1, <1>2, <1>4, <1>5, <1>6, OneCall DEF TypeOK

LEMMA FinishKeeps == ASSUME IInv, NEW c \in Call, Finish(c) PROVE IInv'
<1> USE DEF IInv, caller
<1>1. PICK o \in Outcome : ended' = [ended EXCEPT ![c] = o] /\ ReplyWith(c, o)
  BY DEF Finish
<1>2. c \in running /\ running' = running \ {c}
      /\ UNCHANGED <<up, pc, route, valid, admitted, requests, answer, ran>>
  BY DEF Finish
<1>3. pc[c] \notin Unsent /\ ran[c] # 0 /\ c \notin requests /\ ended[c] = None
  BY <1>2 DEF CallInv, Fresh, Once, InFlight
<1>4. TypeOK'
  BY <1>1, <1>2 DEF TypeOK, ReplyWith
<1>5. CallInv(c)'
  <2>1. answer[c] # None => answer[c][2] \notin {"result", "refusal"}
    BY <1>3, GatewayAssumption DEF CallInv, Own
  <2> QED BY <1>1, <1>2, <1>3, <2>1 DEF TypeOK, CallInv, Fresh, Checked, Once, Own, InFlight
<1>6. RepliesInv'
  <2>1. \A p \in Outcome \cup {"noHandler"} : <<c, p>> \notin replies
    BY <1>3, GatewayAssumption DEF RepliesInv, Told, Outcome
  <2>2. \A d \in Call : d # c => ended'[d] = ended[d]
    BY <1>1 DEF TypeOK
  <2>3. ended'[c] = o
    BY <1>1 DEF TypeOK
  <2>4. ASSUME NEW d \in Call, NEW p \in Outcome \cup {"noHandler"}, <<d, p>> \in replies'
        PROVE  Told(d, p)'
    <3>1. CASE d # c
      <4>1. <<d, p>> \in replies
        BY <1>1, <2>4, <3>1 DEF ReplyWith
      <4> QED BY <1>2, <2>2, <3>1, <4>1 DEF RepliesInv, Told
    <3>2. CASE d = c
      <4>1. pc[c] = "waiting" /\ p = o
        BY <1>1, <2>1, <2>4, <3>2 DEF ReplyWith
      <4> QED BY <1>2, <1>3, <2>3, <3>2, <4>1 DEF Told
    <3> QED BY <3>1, <3>2
  <2> QED BY <2>4 DEF RepliesInv
<1> QED BY <1>1, <1>2, <1>4, <1>5, <1>6, OneCall DEF TypeOK

-----------------------------------------------------------------------------
(* The reply, and no reply.                                                *)

LEMMA DeliverKeeps ==
    ASSUME IInv, NEW c \in Call, NEW o \in Outcome \cup {"noHandler"}, Deliver(<<c, o>>)
    PROVE  IInv'
<1> USE DEF IInv, caller, history
<1>1. <<c, o>> \in replies /\ replies' = replies \ {<<c, o>>}
      /\ UNCHANGED <<up, route, valid, admitted, requests, running, ran, ended>>
  BY DEF Deliver
<1>2. pc[c] = "waiting" /\ (o \in Outcome => ended[c] = o)
  BY <1>1 DEF RepliesInv, Told
<1>3. Resolve(c, o)
  BY <1>2 DEF Deliver, Callback
<1>4. PICK s \in {200, 201, 302, 500}, t \in Content :
        /\ Answer(c, s, t)
        /\ t = "result" => o = "ok"
        /\ t = "refusal" => o = "refused"
  BY <1>3, StatusType DEF Resolve, HandleZodError, Content
<1>5. TypeOK'
  BY <1>1, <1>2, <1>4 DEF TypeOK, Answer, Goto
<1>6. CallInv(c)'
  BY <1>1, <1>2, <1>4, PairIsAnswer
     DEF TypeOK, Answer, Goto, CallInv, Fresh, Checked, Once, Own, InFlight, Unsent, Outcome
<1>7. RepliesInv'
  <2>1. ASSUME NEW p \in Outcome \cup {"noHandler"}, <<c, p>> \in replies
        PROVE  p = o
    <3>1. Told(c, o) /\ Told(c, p)
      BY <1>1, <2>1 DEF RepliesInv
    <3>2. ran[c] = 0 => ended[c] = None
      BY DEF CallInv, Once
    <3> QED BY <3>1, <3>2, GatewayAssumption DEF Told, Outcome
  <2>2. ASSUME NEW d \in Call, NEW p \in Outcome \cup {"noHandler"}, <<d, p>> \in replies'
        PROVE  Told(d, p)'
    <3>1. <<d, p>> \in replies /\ d # c
      BY <1>1, <2>1, <2>2
    <3>2. Told(d, p) /\ pc'[d] = pc[d]
      BY <1>4, <3>1 DEF RepliesInv, Told, TypeOK, Answer, Goto
    <3> QED BY <1>1, <3>2 DEF Told
  <2> QED BY <2>2 DEF RepliesInv
<1> QED BY <1>1, <1>4, <1>5, <1>6, <1>7, OneCall DEF TypeOK, Answer, Goto

LEMMA LoseKeeps ==
    ASSUME IInv, NEW s \in Service, NEW received \in SUBSET requests, Lose(s, received),
           up' \subseteq Service, running' \subseteq running,
           UNCHANGED <<caller, admitted, history>>
    PROVE  IInv'
<1> USE DEF IInv, caller, history
<1>1. /\ requests' = received
      /\ replies' \subseteq replies
      /\ \A c, o : <<c, o>> \in replies' => c \notin WaitingFor(s)
  BY DEF Lose
<1>2. ASSUME NEW c \in Call
      PROVE  \/ pc'[c] = pc[c] /\ answer'[c] = answer[c] /\ c \notin WaitingFor(s)
             \/ /\ pc[c] = "waiting" /\ pc'[c] = "answered" /\ c \in WaitingFor(s)
                /\ answer'[c] = <<FailureStatus(route[c]), "none">>
  BY DEF Lose, WaitingFor, TypeOK
<1>3. TypeOK'
  <2>1. answer' \in [Call -> ({200, 201, 302, 401, 403, 422, 500} \X Content) \cup {None}]
    BY StatusType DEF Lose, TypeOK, Content
  <2>2. pc' \in [Call -> {"idle", "guard", "pipe", "send", "waiting", "answered", "dropped"}]
    BY DEF Lose, TypeOK
  <2> QED BY <1>1, <1>2, <2>1, <2>2 DEF TypeOK
<1>4. ASSUME NEW c \in Call PROVE CallInv(c)'
  BY <1>1, <1>2, StatusType, PairIsAnswer
  DEF CallInv, Fresh, Checked, Once, Own, InFlight, Unsent, Content
<1>5. RepliesInv'
  <2>1. ASSUME NEW c \in Call, NEW o \in Outcome \cup {"noHandler"}, <<c, o>> \in replies'
        PROVE  Told(c, o)'
    <3>1. <<c, o>> \in replies /\ c \notin WaitingFor(s)
      BY <1>1, <2>1
    <3>2. Told(c, o)
      BY <3>1 DEF RepliesInv
    <3>3. pc'[c] = pc[c] /\ c \notin requests'
      BY <1>1, <1>2, <3>1, <3>2 DEF Told
    <3> QED BY <3>2, <3>3 DEF Told
  <2> QED BY <2>1 DEF RepliesInv
<1> QED BY <1>3, <1>4, <1>5

LEMMA GatewayDiesKeeps == ASSUME IInv, GatewayDies PROVE IInv'
<1> USE DEF IInv, caller, history
<1>1. /\ requests' \subseteq requests /\ replies' = {}
      /\ UNCHANGED <<up, route, valid, admitted, running, answer, ran, ended>>
  BY DEF GatewayDies
<1>2. ASSUME NEW c \in Call
      PROVE  \/ pc'[c] = pc[c] /\ (pc[c] = "idle" \/ Over(c))
             \/ pc[c] # "idle" /\ ~Over(c) /\ pc'[c] = "dropped"
  BY DEF GatewayDies, TypeOK
<1>3. TypeOK'
  <2>1. pc' \in [Call -> {"idle", "guard", "pipe", "send", "waiting", "answered", "dropped"}]
    BY DEF GatewayDies, TypeOK
  <2> QED BY <1>1, <1>2, <2>1 DEF TypeOK
<1>4. ASSUME NEW c \in Call PROVE CallInv(c)'
  <2>1. pc[c] # "answered" => answer[c] = None
    BY DEF TypeOK, CallInv, Fresh, Checked, Unsent
  <2> QED BY <1>1, <1>2, <2>1
          DEF TypeOK, CallInv, Fresh, Checked, Once, Own, InFlight, Unsent, Over
<1>5. RepliesInv'
  BY <1>1 DEF RepliesInv
<1> QED BY <1>3, <1>4, <1>5

-----------------------------------------------------------------------------
LEMMA NextIInv == IInv /\ [Next]_vars => IInv'
<1> SUFFICES ASSUME IInv, [Next]_vars PROVE IInv'
  OBVIOUS
<1>1. ASSUME NEW c \in Call, Arrive(c) \/ Step(c) PROVE IInv'
  BY <1>1, ArriveKeeps, GuardKeeps, PipeKeeps, SendKeeps, DispatchKeeps, FinishKeeps,
     DeliverKeeps DEF Step
<1>2. ASSUME NEW s \in Service, Disconnect(s) PROVE IInv'
  <2>1. PICK lost \in SUBSET ServedBy(s) : Lose(s, requests \ lost)
    BY <1>2 DEF Disconnect
  <2>2. requests \ lost \in SUBSET requests
    OBVIOUS
  <2> QED BY <1>2, <2>1, <2>2, LoseKeeps DEF Disconnect, IInv, TypeOK
<1>3. ASSUME NEW s \in Service, ServiceDies(s) PROVE IInv'
  <2>1. requests \ ServedBy(s) \in SUBSET requests
    OBVIOUS
  <2>2. Lose(s, requests \ ServedBy(s)) /\ running' \subseteq running
        /\ UNCHANGED <<caller, admitted, history>>
    BY <1>3 DEF ServiceDies
  <2>3. up' \subseteq Service
    BY <1>3 DEF ServiceDies, IInv, TypeOK
  <2> QED BY <2>1, <2>2, <2>3, LoseKeeps
<1>4. ASSUME NEW s \in Service, Restart(s) PROVE IInv'
  BY <1>4 DEF Restart, IInv, TypeOK, RepliesInv, Told, CallInv, Fresh, Checked, Once, Own,
     InFlight, caller, wire, history
<1>5. CASE GatewayDies
  BY <1>5, GatewayDiesKeeps
<1>6. CASE UNCHANGED vars
  BY <1>6 DEF vars, IInv, TypeOK, RepliesInv, Told, CallInv, Fresh, Checked, Once, Own, InFlight,
     caller, wire, history
<1> QED BY <1>1, <1>2, <1>3, <1>4, <1>5, <1>6 DEF Next, Quiescent

LEMMA Inductive == Spec => []IInv
BY InitIInv, NextIInv, PTL DEF Spec

-----------------------------------------------------------------------------
(* Nobody is forgotten.                                                    *)

Remembered(c) ==
    pc[c] = "waiting" =>
        /\ ServiceOf(route[c]) \in up
        /\ \/ c \in requests \cup running
           \/ \E o \in Outcome \cup {"noHandler"} : <<c, o>> \in replies

LEMMA CallRemembers ==
    ASSUME IInv, NEW d \in Call, Remembered(d), NEW c \in Call, Arrive(c) \/ Step(c)
    PROVE  Remembered(d)'
<1> USE DEF Remembered, IInv, TypeOK, caller, wire, history
<1>1. CASE Arrive(c)
  BY <1>1 DEF Arrive, Goto
<1>2. CASE Guard(c) \/ Pipe(c)
  BY <1>2 DEF Guard, Pipe, Answer, Goto
<1>3. CASE Send(c)
  BY <1>3 DEF Send, Answer, Goto
<1>4. CASE Dispatch(c)
  <2>1. CASE d = c
    <3>1. UNCHANGED <<pc, route, up>>
      BY <1>4 DEF Dispatch
    <3>2. \/ running' = running \cup {c}
          \/ pc[c] = "waiting" => <<c, "noHandler">> \in replies'
      BY <1>4 DEF Dispatch, ReplyWith
    <3> QED BY <2>1, <3>1, <3>2
  <2>2. CASE d # c
    BY <1>4, <2>2 DEF Dispatch, ReplyWith
  <2> QED BY <2>1, <2>2
<1>5. CASE Finish(c)
  <2>1. CASE d = c
    BY <1>5, <2>1 DEF Finish, ReplyWith
  <2>2. CASE d # c
    BY <1>5, <2>2 DEF Finish, ReplyWith
  <2> QED BY <2>1, <2>2
<1>6. ASSUME NEW o \in Outcome \cup {"noHandler"}, Deliver(<<c, o>>)
      PROVE  Remembered(d)'
  <2>1. /\ replies' = replies \ {<<c, o>>}
        /\ UNCHANGED <<up, route, requests, running>>
    BY <1>6 DEF Deliver
  <2>2. pc[c] = "waiting" /\ Resolve(c, o)
    BY <1>6 DEF Deliver, Callback, RepliesInv, Told
  <2>3. pc' = [pc EXCEPT ![c] = "answered"]
    BY <2>2 DEF Resolve, HandleZodError, Answer, Goto
  <2> QED BY <2>1, <2>3
<1> QED BY <1>1, <1>2, <1>3, <1>4, <1>5, <1>6 DEF Step

LEMMA LossRemembers ==
    ASSUME IInv, NEW d \in Call, Remembered(d),
           \/ \E s \in Service : Disconnect(s) \/ ServiceDies(s) \/ Restart(s)
           \/ GatewayDies
    PROVE  Remembered(d)'
<1> USE DEF Remembered, IInv, TypeOK, caller, wire, history
<1>1. ASSUME NEW s \in Service, NEW lost \in SUBSET ServedBy(s), Lose(s, requests \ lost),
             up \ {s} \subseteq up', running \ ServedBy(s) \subseteq running', UNCHANGED route
      PROVE  Remembered(d)'
  <2> SUFFICES ASSUME pc'[d] = "waiting" PROVE Remembered(d)'
    OBVIOUS
  <2>1. pc[d] = "waiting" /\ d \notin WaitingFor(s)
    BY <1>1 DEF Lose, WaitingFor
  <2>2. ServiceOf(route[d]) # s /\ d \notin ServedBy(s)
    BY <2>1 DEF WaitingFor, ServedBy
  <2>3. \A o : <<d, o>> \in replies => <<d, o>> \in replies'
    BY <1>1, <2>1 DEF Lose
  <2>4. d \in requests => d \in requests'
    BY <1>1, <2>2 DEF Lose
  <2> QED BY <1>1, <2>1, <2>2, <2>3, <2>4
<1>2. ASSUME NEW s \in Service, Disconnect(s) \/ ServiceDies(s) PROVE Remembered(d)'
  BY <1>1, <1>2 DEF Disconnect, ServiceDies
<1>3. ASSUME NEW s \in Service, Restart(s) PROVE Remembered(d)'
  BY <1>3 DEF Restart
<1>4. CASE GatewayDies
  BY <1>4 DEF GatewayDies, Over
<1> QED BY <1>2, <1>3, <1>4

(* No connection or pod that is lost, and no pattern without a handler,    *)
(* leaves a call waiting for nothing.                                      *)
THEOREM NobodyForgottenHolds == Spec => []NobodyForgotten
<1> DEFINE Inv == \A c \in Call : Remembered(c)
<1>1. Init => Inv
  BY DEF Init, Remembered
<1>2. IInv /\ Inv /\ [Next]_vars => Inv'
  <2> SUFFICES ASSUME IInv, Inv, [Next]_vars, NEW d \in Call PROVE Remembered(d)'
    OBVIOUS
  <2>1. CASE UNCHANGED vars
    BY <2>1 DEF vars, wire, caller, Remembered
  <2> QED BY <2>1, CallRemembers, LossRemembers DEF Next, Quiescent
<1>3. Inv => NobodyForgotten
  BY DEF Remembered, NobodyForgotten
<1> QED BY <1>1, <1>2, <1>3, Inductive, PTL DEF Spec

-----------------------------------------------------------------------------
(* What holds of the wire.                                                 *)

(* The wire, every call's state and every answer keep their types.         *)
THEOREM TypeCorrect == Spec => []TypeOK
<1>1. IInv => TypeOK
  BY DEF IInv
<1> QED BY <1>1, Inductive, PTL

(* Multiplexed calls are answered with their own handler's outcome.        *)
THEOREM AnswerIsOwnHolds == Spec => []AnswerIsOwn
<1>1. IInv => AnswerIsOwn
  BY DEF IInv, CallInv, Own, AnswerIsOwn
<1> QED BY <1>1, Inductive, PTL

(* Whatever is lost, no handler runs twice for one call.                   *)
THEOREM AtMostOnceHolds == Spec => []AtMostOnce
<1>1. IInv => AtMostOnce
  BY DEF IInv, CallInv, Once, AtMostOnce
<1> QED BY <1>1, Inductive, PTL

(* No handler runs, then or later, for a call the gateway turned away.     *)
THEOREM CheckedBeforeRunHolds == Spec => []CheckedBeforeRun
<1>1. IInv => CheckedBeforeRun
  BY DEF IInv, CallInv, Checked, CheckedBeforeRun
<1> QED BY <1>1, Inductive, PTL

-----------------------------------------------------------------------------
(* The refinement of RemoteCall.                                           *)

LEMMA HeardFunction ==
    /\ heard = [c \in Call |-> heard[c]]
    /\ heard' = [c \in Call |-> heard'[c]]
BY DEF heard

(* One call is answered.                                                   *)
LEMMA AnswerTells ==
    ASSUME IInv, NEW c \in Call, pc[c] \notin {"idle", "answered", "dropped"},
           NEW status \in {200, 201, 302, 401, 403, 422, 500}, NEW content \in Content,
           Answer(c, status, content), UNCHANGED history
    PROVE  Remote!Tell(c, IF status \in {401, 403, 422} THEN "turnedAway" ELSE content)
<1>1. pc' = [pc EXCEPT ![c] = "answered"] /\ answer' = [answer EXCEPT ![c] = <<status, content>>]
  BY DEF Answer, Goto
<1>2. \A d \in Call : /\ d # c => pc'[d] = pc[d] /\ answer'[d] = answer[d]
                      /\ d = c => pc'[d] = "answered" /\ answer'[d] = <<status, content>>
  BY <1>1 DEF IInv, TypeOK
<1>3. heard[c] = None
  BY DEF heard
<1> DEFINE said == IF status \in {401, 403, 422} THEN "turnedAway" ELSE content
<1>4. answer'[c][1] = status /\ answer'[c][2] = content
  BY <1>2
<1>5. \A d \in Call : heard'[d] = IF d = c THEN said ELSE heard[d]
  BY <1>2, <1>4 DEF heard
<1>6. {d \in Call : pc'[d] # "idle"} = {d \in Call : pc[d] # "idle"}
  BY <1>2
<1>7. heard' = [heard EXCEPT ![c] = said]
  BY <1>5, HeardFunction
<1> QED BY <1>3, <1>6, <1>7 DEF Remote!Tell, Remote!Awaits, history

(* Steps after which every call has heard what it had heard before.        *)
LEMMA NothingHeard ==
    ASSUME IInv, NEW c \in Call, NEW p, p \notin {"answered", "dropped"},
           pc[c] \notin {"answered", "dropped"}, Goto(c, p), UNCHANGED answer
    PROVE  UNCHANGED heard
BY DEF IInv, TypeOK, Goto, heard

LEMMA SameHeard ==
    ASSUME UNCHANGED <<pc, answer>>
    PROVE  /\ UNCHANGED heard
           /\ UNCHANGED {d \in Call : pc[d] # "idle"}
BY DEF heard

(* Several calls are told that nothing came back.                          *)
LEMMA LossTells ==
    ASSUME IInv, NEW S \in SUBSET Call, UNCHANGED history,
           \A c \in S : pc[c] \notin {"idle", "answered", "dropped"},
           \A c \in Call \ S : pc'[c] = pc[c] /\ answer'[c] = answer[c],
           \A c \in S : pc'[c] # "dropped" =>
               pc'[c] = "answered" /\ answer'[c] = <<FailureStatus(route[c]), "none">>
    PROVE  Remote!GiveUp(S)
<1>1. \A c \in S : heard[c] = None /\ heard'[c] = "none"
  BY StatusType DEF heard
<1>2. \A c \in Call \ S : heard'[c] = heard[c]
  BY DEF heard
<1>3. UNCHANGED {d \in Call : pc[d] # "idle"}
  BY DEF IInv, TypeOK
<1>4. heard' = [d \in Call |-> IF d \in S THEN "none" ELSE heard[d]]
  BY <1>1, <1>2, HeardFunction
<1> QED BY <1>1, <1>3, <1>4 DEF Remote!GiveUp, Remote!Awaits, history

(* The gateway and its services implement RemoteCall: one execution at     *)
(* most, none for those turned away, one true and final answer.            *)
THEOREM GatewayImplementsRemoteCall == Spec => CallsAreRemote
<1>1. Init => Remote!Init
  BY DEF Init, Remote!Init, heard
<1>2. ASSUME IInv, [Next]_vars PROVE Remote!Next \/ UNCHANGED Remote!vars
  <2> USE DEF caller, wire, history
  <2>1. ASSUME NEW c \in Call, Arrive(c) PROVE Remote!Next
    <3>1. pc[c] = "idle" /\ Goto(c, "guard") /\ UNCHANGED <<answer, ran, ended>>
      BY <2>1 DEF Arrive
    <3>2. UNCHANGED heard
      BY <1>2, <3>1, NothingHeard
    <3>3. {d \in Call : pc'[d] # "idle"} = {d \in Call : pc[d] # "idle"} \cup {c}
      BY <1>2, <3>1 DEF Goto, IInv, TypeOK
    <3>4. Remote!Ask(c)
      BY <3>1, <3>2, <3>3 DEF Remote!Ask
    <3> QED BY <3>4 DEF Remote!Next
  <2>2. ASSUME NEW c \in Call, NEW p \in {"pipe", "send", "waiting"},
               pc[c] \in {"guard", "pipe", "send"}, Goto(c, p), UNCHANGED <<answer, ran, ended>>
        PROVE  UNCHANGED Remote!vars
    <3>1. UNCHANGED heard
      BY <1>2, <2>2, NothingHeard
    <3>2. UNCHANGED {d \in Call : pc[d] # "idle"}
      BY <1>2, <2>2 DEF Goto, IInv, TypeOK
    <3> QED BY <2>2, <3>1, <3>2 DEF Remote!vars
  <2>3. ASSUME NEW c \in Call, pc[c] \in {"guard", "pipe"}, NEW status \in {401, 403, 422},
               Answer(c, status, "none"), UNCHANGED history
        PROVE  Remote!Next
    <3>1. Remote!Tell(c, "turnedAway")
      BY <1>2, <2>3, AnswerTells DEF Content
    <3>2. ran[c] = 0
      BY <1>2, <2>3 DEF IInv, CallInv, Fresh, Unsent
    <3> QED BY <3>1, <3>2 DEF Remote!Next, Remote!TurnAway
  <2>4. ASSUME NEW c \in Call, pc[c] \in {"send", "waiting"},
               Answer(c, FailureStatus(route[c]), "none"), UNCHANGED history
        PROVE  Remote!Next
    <3>1. Remote!GiveUp({c})
      BY <1>2, <2>4, LossTells DEF Answer, Goto, IInv, TypeOK
    <3> QED BY <3>1 DEF Remote!Next
  <2>5. ASSUME NEW c \in Call, Dispatch(c) PROVE Remote!Next \/ UNCHANGED Remote!vars
    <3>1. UNCHANGED <<pc, answer, ended>> /\ c \in requests
      BY <2>5 DEF Dispatch
    <3>2. CASE UNCHANGED ran
      BY <3>1, <3>2, SameHeard DEF Remote!vars
    <3>3. CASE ran' = [ran EXCEPT ![c] = @ + 1]
      <4>0. ran[c] = 0 /\ pc[c] # "idle"
        BY <1>2, <3>1 DEF IInv, CallInv, Fresh, Once, InFlight, Unsent
      <4>1. ran' = [ran EXCEPT ![c] = 1]
        BY <3>3, <4>0
      <4>2. heard[c] # "turnedAway"
        <5>1. pc[c] = "answered" => answer[c][1] \notin {401, 403, 422}
                                    /\ answer[c][2] \in Content
          BY <1>2, <3>1 DEF IInv, TypeOK, CallInv, Checked, InFlight
        <5> QED BY <5>1, GatewayAssumption DEF heard, Content
      <4>3. Remote!Begin(c)
        BY <3>1, <4>0, <4>1, <4>2, SameHeard DEF Remote!Begin
      <4> QED BY <4>3 DEF Remote!Next
    <3> QED BY <2>5, <3>2, <3>3 DEF Dispatch
  <2>6. ASSUME NEW c \in Call, Finish(c) PROVE Remote!Next
    <3>1. UNCHANGED <<pc, answer, ran>> /\ c \in running
      BY <2>6 DEF Finish
    <3>2. ran[c] = 1 /\ ended[c] = None
      BY <1>2, <3>1 DEF IInv, TypeOK, CallInv, Once
    <3>3. Remote!End(c)
      BY <2>6, <3>1, <3>2, SameHeard DEF Remote!End, Finish, Outcome
    <3> QED BY <3>3 DEF Remote!Next
  <2>7. ASSUME NEW c \in Call, NEW o \in Outcome \cup {"noHandler"}, Deliver(<<c, o>>)
        PROVE  Remote!Next
    <3>1. pc[c] = "waiting" /\ (o \in Outcome => ended[c] = o) /\ UNCHANGED history
      BY <1>2, <2>7 DEF Deliver, IInv, RepliesInv, Told
    <3>2. Resolve(c, o)
      BY <2>7, <3>1 DEF Deliver, Callback
    <3>3. CASE o = "ok" /\ Answer(c, DefaultStatus(route[c]), "result")
      <4>1. Remote!Tell(c, "result")
        BY <1>2, <3>1, <3>3, AnswerTells, StatusType DEF Content
      <4> QED BY <3>1, <3>3, <4>1 DEF Remote!Next, Remote!Report, Outcome
    <3>4. CASE o = "refused" /\ Answer(c, DefaultStatus(route[c]), "refusal")
      <4>1. Remote!Tell(c, "refusal")
        BY <1>2, <3>1, <3>4, AnswerTells, StatusType DEF Content
      <4> QED BY <3>1, <3>4, <4>1 DEF Remote!Next, Remote!Report, Outcome
    <3> QED BY <2>4, <3>1, <3>2, <3>3, <3>4 DEF Resolve, HandleZodError
  <2>8. ASSUME NEW s \in Service, NEW received, Lose(s, received), UNCHANGED history
        PROVE  Remote!Next
    <3>1. Remote!GiveUp(WaitingFor(s))
      BY <1>2, <2>8, LossTells DEF Lose, WaitingFor, IInv, TypeOK
    <3>2. WaitingFor(s) \in SUBSET Call
      BY DEF WaitingFor
    <3> QED BY <3>1, <3>2 DEF Remote!Next
  <2>9. CASE GatewayDies
    <3> DEFINE S == {c \in Call : pc[c] # "idle" /\ ~Over(c)}
    <3>1. Remote!GiveUp(S)
      BY <1>2, <2>9, LossTells DEF GatewayDies, Over, IInv, TypeOK
    <3> QED BY <3>1 DEF Remote!Next
  <2>10. ASSUME NEW c \in Call, Guard(c) \/ Pipe(c) \/ Send(c)
         PROVE  Remote!Next \/ UNCHANGED Remote!vars
    BY <2>2, <2>3, <2>4, <2>10 DEF Guard, Pipe, Send
  <2>11. ASSUME NEW s \in Service, Restart(s) PROVE UNCHANGED Remote!vars
    BY <2>11, SameHeard DEF Restart, Remote!vars
  <2>12. CASE UNCHANGED vars
    BY <2>12, SameHeard DEF vars, Remote!vars
  <2> QED BY <1>2, <2>1, <2>5, <2>6, <2>7, <2>8, <2>9, <2>10, <2>11, <2>12
          DEF Next, Step, Quiescent, Disconnect, ServiceDies
<1> QED BY <1>1, <1>2, Inductive, PTL DEF Spec, CallsAreRemote, Remote!Spec
=============================================================================
