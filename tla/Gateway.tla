------------------------------- MODULE Gateway -------------------------------
(***************************************************************************)
(* What becomes of an HTTP call: the gateway's guard and validation pipe,  *)
(* the message to the service over one TCP connection per service, the     *)
(* handler its pattern finds, the reply matched by id, and handleZodError. *)
(*                                                                         *)
(* Operators marked SLIP belong to no action: each is a plausible mistake  *)
(* in the definition that follows it, which some run must notice.          *)
(***************************************************************************)
EXTENDS Naturals

CONSTANTS
    Call,        \* HTTP calls, each made once; the id of its message too
    Route,       \* the routes that are called
    Faults,      \* TRUE: connections drop, pods die
    None         \* no value

\* The routes that send a message (ping answers by itself).
AuthRoutes == {"register", "otp", "login", "refresh-token", "logout", "forgot-password",
               "google-link", "google/callback", "register-provider", "api"}
Routes == AuthRoutes \cup {"change-status-provider", "images/upload/presigned-url"}
Service == {"auth", "manager", "media"}

ASSUME GatewayAssumption ==
    /\ Route \subseteq Routes
    /\ Faults \in BOOLEAN
    /\ None \notin Route \cup {"ok", "refused", "thrown",
                               "result", "refusal", "none", "turnedAway"}
    /\ None \notin Nat \X {"result", "refusal", "none"}

IsPublic(w) == w # "change-status-provider"
HasBody(w) == w \notin {"google-link", "google/callback", "api"}
ServiceOf(w) == IF w \in AuthRoutes THEN "auth"
                ELSE IF w = "change-status-provider" THEN "manager" ELSE "media"

\* What send() is given, { cmd: ... }; the transport makes it a string.
Pattern(w) ==
    <<"cmd", IF w = "google/callback" THEN "google-callback" ELSE w>>

\* @MessagePattern
Patterns(s) ==
    CASE s = "auth" -> {<<"cmd", w>> : w \in AuthRoutes \ {"api"}}
      [] s = "manager" -> {<<"cmd", "change-status-provider">>}
      [] s = "media" -> {<<"images/upload/presigned-url">>}

\* The fields of the data sent, "body" for those of the validated body...
Sent(w) ==
    CASE w = "login" -> {"body", "ip", "userAgent"}
      [] w = "refresh-token" -> {"refreshToken", "ip", "userAgent"}
      [] w = "logout" -> {}
      [] w = "google-link" -> {"ip", "userAgent"}
      [] w = "google/callback" -> {"code", "state"}
      [] w = "api" -> {}
      [] OTHER -> {"body"}

\* ... and those the handler takes from it.
Read(w) ==
    CASE w = "login" -> {"body", "ip", "userAgent"}
      [] w = "refresh-token" -> {"refreshToken", "ip", "userAgent"}
      [] w = "logout" -> {"refreshToken"}
      [] w \in {"google-link", "google/callback", "api"} -> {}
      [] OTHER -> {"body"}

VARIABLES
    up,          \* services that listen
    pc,          \* where each call is in the gateway
    route,       \* its route
    valid,       \* its body passes the schema
    admitted,    \* AuthenticationGuard let it in
    requests,    \* messages a service has yet to dispatch
    running,     \* handlers at work
    replies,     \* <<id, outcome>> on their way back
    answer,      \* <<HTTP status, content>>
    ran,         \* history: how often its handler was started
    ended        \* history: how it ended

caller == <<route, valid>>
wire == <<requests, running, replies>>
history == <<ran, ended>>
vars == <<up, pc, caller, admitted, wire, answer, history>>

Outcome == {"ok", "refused", "thrown"}
Content == {"result", "refusal", "none"}

Init ==
    /\ up \in SUBSET Service
    /\ pc = [c \in Call |-> "idle"]
    /\ route = [c \in Call |-> None]
    /\ valid = [c \in Call |-> FALSE]
    /\ admitted = {}
    /\ requests = {} /\ running = {} /\ replies = {}
    /\ answer = [c \in Call |-> None]
    /\ ran = [c \in Call |-> 0]
    /\ ended = [c \in Call |-> None]

Goto(c, p) == pc' = [pc EXCEPT ![c] = p]

\* googleCallback redirects whatever happens.
DefaultStatus(w) ==
    IF w = "google/callback" THEN 302 ELSE IF HasBody(w) THEN 201 ELSE 200
FailureStatus(w) == IF w = "google/callback" THEN 302 ELSE 500

Answer(c, status, content) ==
    /\ answer' = [answer EXCEPT ![c] = <<status, content>>]
    /\ Goto(c, "answered")

-----------------------------------------------------------------------------
(* Before the message.                                                     *)

Arrive(c) ==
    /\ pc[c] = "idle"
    /\ \E w \in Route, v \in BOOLEAN :
        /\ HasBody(w) \/ v
        /\ route' = [route EXCEPT ![c] = w]
        /\ valid' = [valid EXCEPT ![c] = v]
    /\ Goto(c, "guard")
    /\ UNCHANGED <<up, admitted, wire, answer, history>>

\* AuthenticationGuard: module Guards.
Guard(c) ==
    /\ pc[c] = "guard"
    /\ \/ admitted' = admitted \cup {c} /\ Goto(c, "pipe") /\ UNCHANGED answer
       \/ /\ ~IsPublic(route[c])
          /\ \E status \in {401, 403} : Answer(c, status, "none")
          /\ UNCHANGED admitted
    /\ UNCHANGED <<up, caller, wire, history>>

\* SLIP: the pipe is left to the services.
PipeAbsent(c) ==
    /\ pc[c] = "pipe"
    /\ Goto(c, "send")
    /\ UNCHANGED <<up, caller, admitted, wire, answer, history>>

\* CustomZodValidationPipe
Pipe(c) ==
    /\ pc[c] = "pipe"
    /\ IF valid[c] THEN Goto(c, "send") /\ UNCHANGED answer ELSE Answer(c, 422, "none")
    /\ UNCHANGED <<up, caller, admitted, wire, history>>

Send(c) ==
    /\ pc[c] = "send"
    /\ IF ServiceOf(route[c]) \in up
       THEN /\ requests' = requests \cup {c}
            /\ Goto(c, "waiting")
            /\ UNCHANGED answer
       ELSE Answer(c, FailureStatus(route[c]), "none") /\ UNCHANGED requests
    /\ UNCHANGED <<up, caller, admitted, running, replies, history>>

-----------------------------------------------------------------------------
(* The service.                                                            *)

\* Only a call still waited for has a connection to reply on.
ReplyWith(c, outcome) ==
    replies' = IF pc[c] = "waiting" THEN replies \cup {<<c, outcome>>} ELSE replies

Dispatch(c) ==
    /\ c \in requests
    /\ requests' = requests \ {c}
    /\ IF Pattern(route[c]) \in Patterns(ServiceOf(route[c]))
       THEN /\ running' = running \cup {c}
            /\ ran' = [ran EXCEPT ![c] = @ + 1]
            /\ UNCHANGED replies
       ELSE ReplyWith(c, "noHandler") /\ UNCHANGED <<running, ran>>
    /\ UNCHANGED <<up, pc, caller, admitted, answer, ended>>

\* A handler may succeed, throw an RpcException or anything else; logout
\* without a token fails to verify it and throws an HttpException.
Finish(c) ==
    /\ c \in running
    /\ running' = running \ {c}
    /\ \E o \in Outcome :
        /\ Read(route[c]) \subseteq Sent(route[c]) \/ o = "thrown"
        /\ ended' = [ended EXCEPT ![c] = o]
        /\ ReplyWith(c, o)
    /\ UNCHANGED <<up, pc, caller, admitted, requests, answer, ran>>

-----------------------------------------------------------------------------
(* After the reply.                                                        *)

\* SLIP: undefined is the status.
HandleZodErrorUndefined(c, outcome) ==
    Answer(c, IF outcome = "refused" THEN None ELSE FailureStatus(route[c]), "none")

\* error.response of an RpcException is the HttpException's; its statusCode
\* is undefined, which leaves the route's default status.  googleCallback
\* tells nobody what was refused.
HandleZodError(c, outcome) ==
    IF outcome = "refused" /\ route[c] # "google/callback"
    THEN Answer(c, DefaultStatus(route[c]), "refusal")
    ELSE Answer(c, FailureStatus(route[c]), "none")

Resolve(c, outcome) ==
    IF outcome = "ok" THEN Answer(c, DefaultStatus(route[c]), "result")
    ELSE HandleZodError(c, outcome)

\* SLIP: replies are matched by their order.
CallbackAny(id) == {c \in Call : pc[c] = "waiting"}

\* routingMap
Callback(id) == {c \in {id} : pc[c] = "waiting"}

Deliver(m) ==
    /\ m \in replies
    /\ replies' = replies \ {m}
    /\ \/ \E c \in Callback(m[1]) : Resolve(c, m[2])
       \/ Callback(m[1]) = {} /\ UNCHANGED <<pc, answer>>
    /\ UNCHANGED <<up, caller, admitted, requests, running, history>>

-----------------------------------------------------------------------------
(* Failures.                                                               *)

WaitingFor(s) == {c \in Call : pc[c] = "waiting" /\ ServiceOf(route[c]) = s}

\* SLIP: those who wait are forgotten.
LoseForgotten(s, received) ==
    /\ replies' = {m \in replies : m[1] \notin WaitingFor(s)}
    /\ requests' = received
    /\ UNCHANGED <<pc, answer>>

\* SLIP: those who wait are sent again.
LoseRetried(s, received) ==
    /\ replies' = {m \in replies : m[1] \notin WaitingFor(s)}
    /\ requests' = received \cup WaitingFor(s)
    /\ UNCHANGED <<pc, answer>>

\* The connection's callbacks are all given an error; what the service has
\* received already it may still dispatch.
Lose(s, received) ==
    /\ pc' = [c \in Call |-> IF c \in WaitingFor(s) THEN "answered" ELSE pc[c]]
    /\ answer' = [c \in Call |->
            IF c \in WaitingFor(s) THEN <<FailureStatus(route[c]), "none">> ELSE answer[c]]
    /\ replies' = {m \in replies : m[1] \notin WaitingFor(s)}
    /\ requests' = received

ServedBy(s) == {c \in Call : route[c] # None /\ ServiceOf(route[c]) = s}

Disconnect(s) ==
    /\ Faults /\ s \in up
    /\ \E lost \in SUBSET ServedBy(s) : Lose(s, requests \ lost)
    /\ UNCHANGED <<up, caller, admitted, running, history>>

ServiceDies(s) ==
    /\ Faults /\ s \in up
    /\ up' = up \ {s}
    /\ Lose(s, requests \ ServedBy(s))
    /\ running' = running \ ServedBy(s)
    /\ UNCHANGED <<caller, admitted, history>>

Restart(s) ==
    /\ s \notin up
    /\ up' = up \cup {s}
    /\ UNCHANGED <<pc, caller, admitted, wire, answer, history>>

Over(c) == pc[c] \in {"answered", "dropped"}

\* The callers see their connections reset.
GatewayDies ==
    /\ Faults
    /\ pc' = [c \in Call |-> IF pc[c] = "idle" \/ Over(c) THEN pc[c] ELSE "dropped"]
    /\ replies' = {}
    /\ \E lost \in SUBSET requests : requests' = requests \ lost
    /\ UNCHANGED <<up, caller, admitted, running, answer, history>>

Step(c) ==
    \/ Guard(c) \/ Pipe(c) \/ Send(c) \/ Dispatch(c) \/ Finish(c)
    \/ \E o \in Outcome \cup {"noHandler"} : Deliver(<<c, o>>)

Quiescent ==
    /\ \A c \in Call : Over(c)
    /\ requests \cup running = {} /\ replies = {}
    /\ UNCHANGED vars

Next ==
    \/ \E c \in Call : Arrive(c) \/ Step(c)
    \/ \E s \in Service : Disconnect(s) \/ ServiceDies(s) \/ Restart(s)
    \/ GatewayDies \/ Quiescent

Spec == Init /\ [][Next]_vars

\* Gateway and services work on; a message on a living connection arrives.
Fairness == \A c \in Call : WF_vars(Step(c))

FairSpec == Spec /\ Fairness
-----------------------------------------------------------------------------
(* Properties.                                                             *)

(* The type of the wire, of every call's state and of every answer.        *)
TypeOK ==
    /\ up \subseteq Service
    /\ pc \in [Call -> {"idle", "guard", "pipe", "send", "waiting", "answered", "dropped"}]
    /\ route \in [Call -> Route \cup {None}]
    /\ \A c \in Call : route[c] = None <=> pc[c] = "idle"
    /\ valid \in [Call -> BOOLEAN]
    /\ admitted \subseteq Call /\ requests \subseteq Call /\ running \subseteq Call
    /\ replies \subseteq Call \X (Outcome \cup {"noHandler"})
    /\ answer \in [Call -> ({200, 201, 302, 401, 403, 422, 500} \X Content) \cup {None}]
    /\ ran \in [Call -> Nat]
    /\ ended \in [Call -> Outcome \cup {None}]

(* Calls share a connection, yet each is answered with what its own        *)
(* handler returned: a result means success there, a refusal a refusal.    *)
AnswerIsOwn ==
    \A c \in Call : answer[c] # None =>
        /\ answer[c][2] = "result" => ended[c] = "ok"
        /\ answer[c][2] = "refusal" => ended[c] = "refused"

(* No call is executed twice, whatever connection or pod is lost: nobody   *)
(* retries a message that may have been received.                          *)
AtMostOnce == \A c \in Call : ran[c] <= 1

(* The services' handlers run no guard and no pipe on messages, so the     *)
(* gateway's must come first: no handler runs, then or later, for a call   *)
(* that was not admitted, was not valid, or was told 401, 403 or 422.      *)
CheckedBeforeRun ==
    \A c \in Call : ran[c] > 0 =>
        /\ c \in admitted /\ valid[c]
        /\ answer[c] # None => answer[c][1] \notin {401, 403, 422}

(* auth.error.ts gives every refusal an HTTP status that is no success.    *)
RefusalIsNoSuccess ==
    \A c \in Call : answer[c] # None /\ answer[c][2] = "refusal" => answer[c][1] >= 400

(* LogoutBodySchema declares refreshToken: the handler that reads it gets  *)
(* it.                                                                     *)
HandlersGetTheirFields ==
    \A c \in running : Read(route[c]) \subseteq Sent(route[c])

(* Every call is answered, unless the gateway dies: a lost connection or   *)
(* pod, or a pattern without a handler, leaves nobody waiting.             *)
EveryCallAnswered == \A c \in Call : pc[c] # "idle" ~> Over(c)

(* The safety half of it: a call that waits does so for a living service,  *)
(* on a message not dispatched, a handler at work or a reply on its way.   *)
NobodyForgotten ==
    \A c \in Call : pc[c] = "waiting" =>
        /\ ServiceOf(route[c]) \in up
        /\ \/ c \in requests \cup running
           \/ \E o \in Outcome \cup {"noHandler"} : <<c, o>> \in replies

\* What callers can tell from their answers, or from a connection reset.
heard ==
    [c \in Call |->
        IF pc[c] = "dropped" THEN "none"
        ELSE IF pc[c] # "answered" THEN None
        ELSE IF answer[c][1] \in {401, 403, 422} THEN "turnedAway"
        ELSE answer[c][2]]

Remote == INSTANCE RemoteCall WITH
    asked <- {c \in Call : pc[c] # "idle"},
    runs <- ran,
    outcome <- ended,
    told <- heard

(* Messages, connections and pods add up to calls that run at most once,   *)
(* never for a caller who was turned away, and whose one answer is true    *)
(* and final: no late reply and no lost connection overwrites it.          *)
CallsAreRemote == Remote!Spec
=============================================================================
