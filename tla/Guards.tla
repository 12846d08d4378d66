------------------------------- MODULE Guards -------------------------------
(***************************************************************************)
(* Admission of an HTTP call: AuthenticationGuard, which CommonModule      *)
(* installs for every application, and the guards it runs in turn          *)
(* (libs/common/src/guards).  A route is marked with a list of AuthTypes   *)
(* and a condition; each guard of the list passes or throws, and the and-  *)
(* or the or-loop decides.  The bearer guard awaits the JWT, the roles and *)
(* their permissions, which others may be changing meanwhile.              *)
(*                                                                         *)
(* Operators marked SLIP belong to no action: each is a plausible mistake  *)
(* in the definition that follows it, which some run must notice.          *)
(***************************************************************************)
EXTENDS Naturals, Sequences

CONSTANTS
    Req,         \* calls
    Role,        \* role rows
    Route,       \* a path with its method
    Mark,        \* the @Auth metadata of a route, or None
    Faults,      \* TRUE: the permission query may throw
    None         \* no value

AuthType == {"Bearer", "None", "PaymentAPIKey"}
Payload == [types : Seq(AuthType), condition : {"and", "or"}]

\* What the authorization header holds after its scheme.
Credential == [kind : {"none", "junk", "key"}, roles : {{}}]
                 \cup [kind : {"token"}, roles : SUBSET Role]
NoCredential == [kind |-> "none", roles |-> {}]

ASSUME GuardsAssumption ==
    /\ Mark \in [Route -> Payload \cup {None}]
    /\ Faults \in BOOLEAN
    /\ None \notin Payload /\ None \notin Credential
    /\ None \notin Route /\ None \notin {"unauthorized", "forbidden"}

VARIABLES
    live,        \* roles without deletedAt
    granted,     \* <<role, route>>: the role has a live permission for it
    expired,     \* calls whose access token is past its exp
    pc,          \* where each call is
    route, cred, \* what it asks for, and with what
    at,          \* the guard of the list it is at
    lastError,   \* the or-loop's lastError
    user,        \* request.user: the decoded token
    found,       \* its roles that the query returned
    seenLive,    \* history: roles live at some moment while it was decided
    seenGranted, \* history: roles granted the route at some moment
    steady       \* history: roles live and granted the route throughout

tables == <<live, granted, expired>>
history == <<seenLive, seenGranted, steady>>
request == <<route, cred>>
vars == <<tables, pc, request, at, lastError, user, found, history>>

Decided(r) == pc[r] \in {"admitted", "unauthorized", "forbidden"}
Deciding(r) == pc[r] # "idle" /\ ~Decided(r)

\* getAuthTypeValue: an unmarked route wants a bearer token.
AuthTypeValue(w) ==
    IF Mark[w] = None THEN [types |-> <<"Bearer">>, condition |-> "and"] ELSE Mark[w]

Types(r) == AuthTypeValue(route[r]).types
IsAnd(r) == AuthTypeValue(route[r]).condition = "and"

GrantedTo(w) == {role \in Role : <<role, w>> \in granted}

\* SLIP: an index one too low.
FirstGuardZero == 0

FirstGuard == 1

Init ==
    /\ live \in SUBSET Role
    /\ granted \in SUBSET (Role \X Route)
    /\ expired = {}
    /\ pc = [r \in Req |-> "idle"]
    /\ route = [r \in Req |-> None]
    /\ cred = [r \in Req |-> NoCredential]
    /\ at = [r \in Req |-> FirstGuard]
    /\ lastError = [r \in Req |-> None]
    /\ user = [r \in Req |-> None]
    /\ found = [r \in Req |-> {}]
    /\ seenLive = found /\ seenGranted = found /\ steady = found

Goto(r, p) == pc' = [pc EXCEPT ![r] = p]

Arrive(r) ==
    /\ pc[r] = "idle"
    /\ \E w \in Route, c \in Credential :
        /\ route' = [route EXCEPT ![r] = w]
        /\ cred' = [cred EXCEPT ![r] = c]
        /\ seenGranted' = [seenGranted EXCEPT ![r] = GrantedTo(w)]
        /\ steady' = [steady EXCEPT ![r] = live \cap GrantedTo(w)]
    /\ seenLive' = [seenLive EXCEPT ![r] = live]
    /\ Goto(r, "next")
    /\ UNCHANGED <<tables, at, lastError, user, found>>

-----------------------------------------------------------------------------
(* The two loops.                                                          *)

\* SLIP: the and-loop does not move on.
PassedStays(r) == Goto(r, IF IsAnd(r) THEN "next" ELSE "admitted") /\ UNCHANGED <<at, lastError>>

\* A guard passed.
Passed(r) ==
    /\ IF IsAnd(r)
       THEN Goto(r, "next") /\ at' = [at EXCEPT ![r] = @ + 1]
       ELSE Goto(r, "admitted") /\ UNCHANGED at
    /\ UNCHANGED lastError

\* SLIP: the or-loop does not catch.
FailedAtOnce(r, e) == Goto(r, e) /\ UNCHANGED <<at, lastError>>

\* A guard threw e, an HttpException.
Failed(r, e) ==
    IF IsAnd(r)
    THEN Goto(r, e) /\ UNCHANGED <<at, lastError>>
    ELSE /\ Goto(r, "next")
         /\ at' = [at EXCEPT ![r] = @ + 1]
         /\ lastError' = [lastError EXCEPT ![r] = e]

\* The list is exhausted: and admits, or throws what it caught last.
Exhausted(r) ==
    /\ pc[r] = "next" /\ at[r] > Len(Types(r))
    /\ Goto(r, IF IsAnd(r) THEN "admitted"
               ELSE IF lastError[r] = None THEN "unauthorized" ELSE lastError[r])
    /\ UNCHANGED <<tables, request, at, lastError, user, found, history>>

AtGuard(r, type) == pc[r] = "next" /\ at[r] <= Len(Types(r)) /\ Types(r)[at[r]] = type

PublicGuard(r) ==
    /\ AtGuard(r, "None")
    /\ Passed(r)
    /\ UNCHANGED <<tables, request, user, found, history>>

\* Node's HTTP parser lower-cases header names.
Header(r, name) == IF name = "authorization" THEN cred[r] ELSE NoCredential

ApiKeyGuard(r) ==
    /\ AtGuard(r, "PaymentAPIKey")
    /\ IF Header(r, "Authorization").kind = "key"
       THEN Passed(r) ELSE Failed(r, "unauthorized")
    /\ UNCHANGED <<tables, request, user, found, history>>

-----------------------------------------------------------------------------
(* AccessTokenGuard.                                                       *)

ExtractToken(r) ==
    /\ AtGuard(r, "Bearer")
    /\ IF Header(r, "authorization").kind = "none"
       THEN Failed(r, "unauthorized")
       ELSE Goto(r, "verify") /\ UNCHANGED <<at, lastError>>
    /\ UNCHANGED <<tables, request, user, found, history>>

\* SLIP: the wrong exception.
InvalidForbidden == "forbidden"

InvalidAccessToken == "unauthorized"

VerifyToken(r) ==
    /\ pc[r] = "verify"
    /\ IF cred[r].kind = "token" /\ r \notin expired
       THEN /\ user' = [user EXCEPT ![r] = cred[r]]
            /\ Goto(r, "roles")
            /\ UNCHANGED <<at, lastError>>
       ELSE Failed(r, InvalidAccessToken) /\ UNCHANGED user
    /\ UNCHANGED <<tables, request, found, history>>

\* SLIP: soft-deleted roles are not filtered out.
MatchingRolesAll(r) == cred[r].roles

MatchingRoles(r) == cred[r].roles \cap live

\* validateUserPermission: Prisma reads the roles, then their permissions.
FindRoles(r) ==
    /\ pc[r] = "roles"
    /\ found' = [found EXCEPT ![r] = MatchingRoles(r)]
    /\ Goto(r, "permissions")
    /\ UNCHANGED <<tables, request, at, lastError, user, history>>

FindPermissions(r) ==
    /\ pc[r] = "permissions"
    /\ IF found[r] \cap GrantedTo(route[r]) # {}
       THEN Passed(r) ELSE Failed(r, "forbidden")
    /\ UNCHANGED <<tables, request, user, found, history>>

\* The query's catch.
Throw(r) ==
    /\ Faults
    /\ pc[r] \in {"roles", "permissions"}
    /\ Failed(r, "forbidden")
    /\ UNCHANGED <<tables, request, user, found, history>>

-----------------------------------------------------------------------------
(* Others: nothing under src/ writes roles or permissions.                 *)

ChangeRole(role) ==
    /\ live' = IF role \in live THEN live \ {role} ELSE live \cup {role}
    /\ seenLive' = [r \in Req |-> IF Deciding(r) THEN seenLive[r] \cup live' ELSE seenLive[r]]
    /\ steady' = [r \in Req |-> IF Deciding(r) THEN steady[r] \cap live' ELSE steady[r]]
    /\ UNCHANGED <<granted, expired, pc, request, at, lastError, user, found, seenGranted>>

ChangeGrant(g) ==
    /\ granted' = IF g \in granted THEN granted \ {g} ELSE granted \cup {g}
    /\ seenGranted' = [r \in Req |->
            IF Deciding(r) /\ route[r] = g[2] THEN seenGranted[r] \cup {g[1]} ELSE seenGranted[r]]
    /\ steady' = [r \in Req |->
            IF Deciding(r) /\ route[r] = g[2] THEN steady[r] \ {g[1]} ELSE steady[r]]
    /\ UNCHANGED <<live, expired, pc, request, at, lastError, user, found, seenLive>>

Expire(r) ==
    /\ r \notin expired
    /\ expired' = expired \cup {r}
    /\ UNCHANGED <<live, granted, pc, request, at, lastError, user, found, history>>

Step(r) ==
    \/ Exhausted(r) \/ PublicGuard(r) \/ ApiKeyGuard(r) \/ ExtractToken(r)
    \/ VerifyToken(r) \/ FindRoles(r) \/ FindPermissions(r)

Next ==
    \/ \E r \in Req : Arrive(r) \/ Step(r) \/ Throw(r) \/ Expire(r)
    \/ \E role \in Role : ChangeRole(role)
    \/ \E g \in Role \X Route : ChangeGrant(g)

Spec == Init /\ [][Next]_vars

\* Node resumes every continuation and the database answers.
Fairness == \A r \in Req : WF_vars(Step(r))

FairSpec == Spec /\ Fairness
-----------------------------------------------------------------------------
(* Properties.                                                             *)

Steps == {"idle", "next", "verify", "roles", "permissions",
          "admitted", "unauthorized", "forbidden"}

(* The type of the tables and of every call's local state.                 *)
TypeOK ==
    /\ live \subseteq Role /\ granted \subseteq Role \X Route /\ expired \subseteq Req
    /\ pc \in [Req -> Steps]
    /\ route \in [Req -> Route \cup {None}]
    /\ \A r \in Req : route[r] = None <=> pc[r] = "idle"
    /\ cred \in [Req -> Credential]
    /\ at \in [Req -> Nat \ {0}]
    /\ lastError \in [Req -> {"unauthorized", "forbidden", None}]
    /\ user \in [Req -> Credential \cup {None}]
    /\ found \in [Req -> SUBSET Role]
    /\ seenLive \in [Req -> SUBSET Role]
    /\ seenGranted \in [Req -> SUBSET Role]
    /\ steady \in [Req -> SUBSET Role]

\* r had what a guard of this type is for, at some moment while it ran.
Vouched(r, type) ==
    \/ type = "None"
    \/ type = "PaymentAPIKey" /\ cred[r].kind = "key"
    \/ /\ type = "Bearer" /\ cred[r].kind = "token"
       /\ cred[r].roles \cap seenLive[r] \cap seenGranted[r] # {}

\* r lacked it at some moment, or a fault kept its guard from finding out.
Doubted(r, type) ==
    \/ type = "PaymentAPIKey" /\ cred[r].kind # "key"
    \/ /\ type = "Bearer"
       /\ \/ r \in expired
          \/ cred[r].roles \cap steady[r] = {}
          \/ Faults /\ user[r] # None

(* An admitted call met its route's marking: all the types of an and, one  *)
(* of an or.  For a bearer token some role in it was not deleted and had a *)
(* permission for this very route while the call was being decided.        *)
AdmittedIsVouched ==
    \A r \in Req : pc[r] = "admitted" =>
        IF IsAnd(r) THEN \A i \in DOMAIN Types(r) : Vouched(r, Types(r)[i])
        ELSE \E i \in DOMAIN Types(r) : Vouched(r, Types(r)[i])

(* A call is refused only for a reason: it lacked, at some moment, one     *)
(* type of an and, every type of an or.  Where permission queries may      *)
(* throw, a verified token excuses a refusal.  Calls that present the API  *)
(* key are left out: ApiKeyGuard refuses them without a reason.            *)
RefusalIsJustified ==
    \A r \in Req :
        pc[r] \in {"unauthorized", "forbidden"} /\ cred[r].kind # "key" =>
            IF IsAnd(r) THEN \E i \in DOMAIN Types(r) : Doubted(r, Types(r)[i])
            ELSE \A i \in DOMAIN Types(r) : Doubted(r, Types(r)[i])

(* Forbidden is for callers who have proved who they are: whoever cannot   *)
(* is told Unauthorized, and request.user is set for nobody else.          *)
ForbiddenIsAuthentic ==
    \A r \in Req :
        /\ pc[r] = "forbidden" => user[r] # None
        /\ user[r] # None => user[r] = cred[r] /\ cred[r].kind = "token"

\* Awaits r has still to pass, at most: four at each guard of its list.
Ahead(r) ==
    CASE pc[r] = "next" -> 4 [] pc[r] = "verify" -> 3 [] pc[r] = "roles" -> 2 [] OTHER -> 1
Left(r) == IF Decided(r) THEN 0 ELSE 4 * (Len(Types(r)) + 1 - at[r]) + Ahead(r)

(* Either loop comes to an end, for any list of guards: each step of a     *)
(* call brings it nearer the verdict, and the index never runs past the    *)
(* list or meets a guard that the map of canActivate does not know.        *)
EveryStepCounts ==
    [][\A r \in Req :
        pc[r] # "idle" /\ <<pc[r], at[r]>>' # <<pc[r], at[r]>> => Left(r)' < Left(r)]_vars

NeverStuck ==
    \A r \in Req : pc[r] # "idle" =>
        /\ Left(r) \in Nat
        /\ Left(r) = 0 <=> Decided(r)
        /\ pc[r] = "next" =>
              at[r] > Len(Types(r)) \/ \E type \in AuthType : AtGuard(r, type)

(* Every call is decided, whatever is marked and whoever edits the roles.  *)
EveryCallDecided == \A r \in Req : pc[r] = "next" ~> Decided(r)
=============================================================================
