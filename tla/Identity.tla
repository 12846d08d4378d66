------------------------------ MODULE Identity ------------------------------
(***************************************************************************)
(* Who a caller becomes, and with which role: register, registerProvider   *)
(* and googleCallback of the auth service, and the two objects they share  *)
(* in memory: the OAuth client of GoogleService, which carries the         *)
(* credentials of whoever called setCredentials last, and the role ids     *)
(* that SharedRoleRepository keeps as long as its process lives.           *)
(*                                                                         *)
(* A pod is one process from boot to death; a restarted one is another     *)
(* member of Pod.  How codes come and go, and the provider rows, are in    *)
(* Accounts; what a sign-in does to devices and tokens is in Sessions.     *)
(*                                                                         *)
(* Operators marked SLIP belong to no action: each is a plausible mistake  *)
(* in the definition that follows it, which some run must notice.          *)
(***************************************************************************)
EXTENDS Naturals

CONSTANTS
    Pod,         \* processes of the auth service
    Req,         \* requests they receive
    Email,       \* addresses
    RoleId,      \* ids of role rows
    Inputs,      \* the bodies each request may have
    Seeded,      \* the row that has each name at first, or None
    MaxEdits,    \* bound: how often administrators change rows
    Unlucky,     \* requests whose outside calls may throw
    None         \* no value

\* The names under which roles are looked up.
RoleName == {"customer", "serviceProvider"}

\* A code of a Google account, which may hide its email, or a registration.
\* good: Google accepts the code, the OTP is valid and the business is new.
Body == [op : {"google"}, email : Email \cup {None}, good : BOOLEAN]
            \cup [op : {"register", "registerProvider"}, email : Email, good : BOOLEAN]
NoBody == [op |-> "none"]

ASSUME IdentityAssumption ==
    /\ Seeded \in [RoleName -> RoleId \cup {None}]
    /\ \A m, n \in RoleName : Seeded[m] = Seeded[n] => m = n \/ Seeded[m] = None
    /\ Inputs \in [Req -> SUBSET Body]
    /\ MaxEdits \in Nat
    /\ Unlucky \subseteq Req
    /\ None \notin Pod \cup Req \cup Email \cup RoleId

VARIABLES
    named,       \* the row that has a name, which is unique
    live,        \* rows without deletedAt
    dropped,     \* rows that are gone altogether
    edits,       \* changes of these so far
    account,     \* user rows: who made each, with which role connected
    deleted,     \* addresses whose user row has deletedAt
    lost,        \* registrations whose code's row is gone
    phase,       \* of each pod
    client,      \* whose credentials its OAuth client carries
    cached,      \* the role ids its SharedRoleRepository keeps
    pc,          \* where each request is
    in,          \* its body
    pod,         \* where it is served
    bearer,      \* the request whose credentials its userinfo call carried
    found,       \* the role id in its hands
    calls,       \* those of its last Promise.all, or await, that still run
    session,     \* the address it has signed in
    hit,         \* history: requests that met a fault
    since,       \* history: credentials set after its own, before it used them
    unseen,      \* history: its address has an account it could not see
    seen         \* history: rows that had a name since the pod booted, None for no row

roles == <<named, live, dropped, edits>>
rows == <<account, deleted, lost>>
memory == <<phase, client, cached>>
local == <<in, pod, bearer, found, calls, session>>
history == <<hit, since, unseen, seen>>
vars == <<roles, rows, memory, pc, local, history>>

Answered(r) == pc[r] \in {"ok", "refused", "crashed"}

\* getRole's query: at most one row has the name.
RoleRow(n) == IF named[n] \in live THEN named[n] ELSE None

WantedRole(r) == IF in[r].op = "registerProvider" THEN "serviceProvider" ELSE "customer"

\* data.email of the account whose credentials were sent.
EmailOf(r) == IF in[r].op = "google" THEN in[bearer[r]].email ELSE in[r].email

Init ==
    /\ named = Seeded /\ live = RoleId /\ dropped = {} /\ edits = 0
    /\ account = [e \in Email |-> None] /\ deleted = {} /\ lost = {}
    /\ phase = [p \in Pod |-> "down"]
    /\ client = [p \in Pod |-> None]
    /\ cached = [p \in Pod |-> [n \in RoleName |-> None]]
    /\ pc = [r \in Req |-> "idle"]
    /\ in = [r \in Req |-> NoBody]
    /\ pod = [r \in Req |-> None]
    /\ bearer = pod /\ found = pod /\ session = pod
    /\ calls = [r \in Req |-> {}]
    /\ hit = {} /\ unseen = {}
    /\ since = [r \in Req |-> {}]
    /\ seen = [p \in Pod |-> [n \in RoleName |-> {}]]

Goto(r, p) == pc' = [pc EXCEPT ![r] = p]

Start(r) ==
    /\ pc[r] = "idle"
    /\ \E p \in Pod, i \in Inputs[r] :
        /\ phase[p] = "up"
        /\ in' = [in EXCEPT ![r] = i]
        /\ pod' = [pod EXCEPT ![r] = p]
        /\ Goto(r, IF i.op = "google" THEN "exchange" ELSE "validate")
    /\ UNCHANGED <<roles, rows, memory, bearer, found, calls, session, history>>

\* A registration up to its role: the OTP and the duplicate check.
Validate(r) ==
    /\ pc[r] = "validate"
    /\ Goto(r, IF in[r].good THEN "role" ELSE "refused")
    /\ UNCHANGED <<roles, rows, memory, local, history>>

-----------------------------------------------------------------------------
(* googleCallback.                                                         *)

InFlight(q, p) == pc[q] = "userinfo" /\ pod[q] = p

\* SLIP: the error of getToken is logged, like that of the state above it.
ExchangeCodeSwallowed(r) ==
    /\ pc[r] = "exchange"
    /\ Goto(r, IF in[r].good \/ client[pod[r]] # None THEN "userinfo" ELSE "refused")
    /\ client' = IF in[r].good THEN [client EXCEPT ![pod[r]] = r] ELSE client
    /\ since' = [q \in Req |-> IF in[r].good /\ InFlight(q, pod[r])
                               THEN since[q] \cup {r} ELSE since[q]]
    /\ UNCHANGED <<roles, rows, phase, cached, local, hit, unseen, seen>>

\* getToken throws for a code that Google refuses; else setCredentials, and
\* the userinfo call begins.
ExchangeCode(r) ==
    /\ pc[r] = "exchange"
    /\ IF in[r].good
       THEN /\ client' = [client EXCEPT ![pod[r]] = r]
            /\ since' = [q \in Req |->
                    IF InFlight(q, pod[r]) THEN since[q] \cup {r} ELSE since[q]]
            /\ Goto(r, "userinfo")
       ELSE Goto(r, "refused") /\ UNCHANGED <<client, since>>
    /\ UNCHANGED <<roles, rows, phase, cached, local, hit, unseen, seen>>

\* When the library reads the client's credentials is its own affair: at
\* once, or later if it retries or renews them first.
UserInfo(r) ==
    /\ pc[r] = "userinfo"
    /\ bearer' = [bearer EXCEPT ![r] = client[pod[r]]]
    /\ Goto(r, IF in[client[pod[r]]].email = None THEN "refused" ELSE "find")
    /\ UNCHANGED <<roles, rows, memory, in, pod, found, calls, session, history>>

\* SLIP: only accounts that Google sign-in has made are looked for.
KnownToGoogle(e) ==
    account[e] # None /\ e \notin deleted /\ in[account[e].by].op = "google"

\* findFirst, with deletedAt: null.
KnownUser(e) == account[e] # None /\ e \notin deleted

FindUser(r) ==
    /\ pc[r] = "find"
    /\ Goto(r, IF KnownUser(EmailOf(r)) THEN "reply" ELSE "role")
    /\ unseen' = IF EmailOf(r) \in deleted THEN unseen \cup {r} ELSE unseen
    /\ UNCHANGED <<roles, rows, memory, local, hit, since, seen>>

-----------------------------------------------------------------------------
(* getCustomerRoleId and getServiceProviderRoleId.                         *)

\* SLIP: both getters keep their id in the same field.
FieldShared(n) == "customer"

Field(n) == n

\* createUserIncludeRole is awaited alone, createUser beside
\* deleteVerificationCode.
Fork(r) ==
    /\ Goto(r, "create")
    /\ calls' = [calls EXCEPT ![r] =
            IF in[r].op = "google" THEN {"user"} ELSE {"user", "code"}]

CheckCache(r) ==
    /\ pc[r] = "role"
    /\ LET id == cached[pod[r]][Field(WantedRole(r))] IN
        IF id # None THEN Fork(r) /\ found' = [found EXCEPT ![r] = id]
        ELSE Goto(r, "query") /\ UNCHANGED <<found, calls>>
    /\ UNCHANGED <<roles, rows, memory, in, pod, bearer, session, history>>

\* An Error, not an HttpException, when there is no such row.
QueryRole(r) ==
    /\ pc[r] = "query"
    /\ found' = [found EXCEPT ![r] = RoleRow(WantedRole(r))]
    /\ Goto(r, IF RoleRow(WantedRole(r)) = None THEN "refused" ELSE "store")
    /\ UNCHANGED <<roles, rows, memory, in, pod, bearer, calls, session, history>>

\* SLIP: the whole role is kept instead of its id.
KeptWhole(id) == [id |-> id]

Kept(id) == id

\* The continuation of the query: other requests may have stored meanwhile.
StoreRole(r) ==
    /\ pc[r] = "store"
    /\ cached' = [cached EXCEPT ![pod[r]][Field(WantedRole(r))] = Kept(found[r])]
    /\ Fork(r)
    /\ UNCHANGED <<roles, rows, phase, client, in, pod, bearer, found, session, history>>

-----------------------------------------------------------------------------
(* The Promise.all of a registration, and a callback's one call.           *)

\* The first rejection refuses the request, and the calls left go on behind
\* it; the last success sends it on.
Settle(r, left, ok) ==
    /\ calls' = [calls EXCEPT ![r] = left]
    /\ \/ pc[r] = "create" /\ ~ok /\ Goto(r, "refused")
       \/ pc[r] = "create" /\ ok /\ Goto(r, IF left = {} THEN "reply" ELSE "create")
       \/ pc[r] # "create" /\ UNCHANGED pc

\* user.create: P2002 for a taken address, whether its user has deletedAt or
\* not; P2025 for a role row that is gone, but a soft-deleted one will do.
CreateUser(r) ==
    /\ "user" \in calls[r]
    /\ LET e == EmailOf(r)
           rest == calls[r] \ {"user"}
       IN  IF account[e] = None /\ found[r] \notin dropped
           THEN /\ account' = [account EXCEPT ![e] = [by |-> r, role |-> found[r]]]
                /\ unseen' = unseen \cup {q \in Req \ {r} :
                       pc[q] \in {"role", "query", "store", "create"} /\ EmailOf(q) = e}
                /\ Settle(r, IF in[r].op = "google" THEN rest ELSE rest \cup {"profile"}, TRUE)
           ELSE Settle(r, rest, FALSE) /\ UNCHANGED <<account, unseen>>
    /\ UNCHANGED <<roles, deleted, lost, memory, in, pod, bearer, found, session,
                   hit, since, seen>>

\* The second half of createUser.
CreateProfile(r) ==
    /\ "profile" \in calls[r]
    /\ Settle(r, calls[r] \ {"profile"}, TRUE)
    /\ UNCHANGED <<roles, rows, memory, in, pod, bearer, found, session, history>>

\* P2025 for a code that is gone.
DeleteCode(r) ==
    /\ "code" \in calls[r]
    /\ Settle(r, calls[r] \ {"code"}, r \notin lost)
    /\ UNCHANGED <<roles, rows, memory, in, pod, bearer, found, session, history>>

\* The device and the tokens of a callback, the provider row of a business.
Reply(r) ==
    /\ pc[r] = "reply"
    /\ session' = IF in[r].op = "google" THEN [session EXCEPT ![r] = EmailOf(r)] ELSE session
    /\ Goto(r, "ok")
    /\ UNCHANGED <<roles, rows, memory, in, pod, bearer, found, calls, history>>

-----------------------------------------------------------------------------
(* Faults, others' requests, and administrators: nothing under src/ writes *)
(* role rows or deletedAt.                                                 *)

\* The database or Google fails a call, one in the background included.
Throw(r) ==
    /\ r \in Unlucky
    /\ \/ /\ pc[r] \in {"validate", "exchange", "userinfo", "find", "query", "reply"}
          /\ Goto(r, "refused")
          /\ UNCHANGED calls
       \/ \E c \in calls[r] : Settle(r, calls[r] \ {c}, FALSE)
    /\ hit' = hit \cup {r}
    /\ UNCHANGED <<roles, rows, memory, in, pod, bearer, found, session, since, unseen, seen>>

\* A resend supersedes the code of a registration that has validated it, or
\* another registration spends it.
LoseCode(r) ==
    /\ in[r].op # "google" /\ r \notin lost
    /\ pc[r] \in {"role", "query", "store"} \/ "code" \in calls[r]
    /\ lost' = lost \cup {r}
    /\ UNCHANGED <<roles, account, deleted, memory, pc, local, history>>

Boot(p) ==
    /\ phase[p] = "down"
    /\ phase' = [phase EXCEPT ![p] = "up"]
    /\ seen' = [seen EXCEPT ![p] = [n \in RoleName |-> {RoleRow(n)}]]
    /\ UNCHANGED <<roles, rows, client, cached, pc, local, hit, since, unseen>>

\* With the process go its memory and the requests it was serving.
Die(p) ==
    /\ phase[p] = "up"
    /\ phase' = [phase EXCEPT ![p] = "dead"]
    /\ client' = [client EXCEPT ![p] = None]
    /\ cached' = [cached EXCEPT ![p] = [n \in RoleName |-> None]]
    /\ pc' = [r \in Req |-> IF pod[r] = p /\ ~Answered(r) THEN "crashed" ELSE pc[r]]
    /\ calls' = [r \in Req |-> IF pod[r] = p THEN {} ELSE calls[r]]
    /\ UNCHANGED <<roles, rows, in, pod, bearer, found, session, history>>

\* One more change, and what the pods that are up may see of it.
Edit ==
    /\ edits < MaxEdits
    /\ edits' = edits + 1
    /\ seen' = [p \in Pod |-> [n \in RoleName |->
            IF phase[p] = "up" THEN seen[p][n] \cup {RoleRow(n)'} ELSE seen[p][n]]]

\* A row is inserted or renamed, or loses its name.
NameRole(n, id) ==
    /\ id \notin dropped /\ named[n] # id
    /\ id = None \/ \A m \in RoleName : named[m] # id
    /\ named' = [named EXCEPT ![n] = id]
    /\ UNCHANGED <<live, dropped, rows, memory, pc, local, hit, since, unseen>>
    /\ Edit

\* deletedAt is set, or cleared.
SoftDelete(id) ==
    /\ id \notin dropped
    /\ live' = IF id \in live THEN live \ {id} ELSE live \cup {id}
    /\ UNCHANGED <<named, dropped, rows, memory, pc, local, hit, since, unseen>>
    /\ Edit

DropRole(id) ==
    /\ id \notin dropped
    /\ dropped' = dropped \cup {id}
    /\ live' = live \ {id}
    /\ named' = [n \in RoleName |-> IF named[n] = id THEN None ELSE named[n]]
    /\ UNCHANGED <<rows, memory, pc, local, hit, since, unseen>>
    /\ Edit

\* deletedAt of a user, set or cleared.
SoftDeleteUser(e) ==
    /\ account[e] # None
    /\ deleted' = IF e \in deleted THEN deleted \ {e} ELSE deleted \cup {e}
    /\ UNCHANGED <<named, live, dropped, account, lost, memory, pc, local, hit, since, unseen>>
    /\ Edit

Quiescent ==
    /\ \A r \in Req : (pc[r] = "idle" \/ Answered(r)) /\ calls[r] = {}
    /\ UNCHANGED vars

-----------------------------------------------------------------------------
Step(r) ==
    \/ Validate(r) \/ ExchangeCode(r) \/ UserInfo(r) \/ FindUser(r)
    \/ CheckCache(r) \/ QueryRole(r) \/ StoreRole(r)
    \/ CreateUser(r) \/ CreateProfile(r) \/ DeleteCode(r) \/ Reply(r)

Next ==
    \/ \E r \in Req : Start(r) \/ Step(r) \/ Throw(r) \/ LoseCode(r)
    \/ \E p \in Pod : Boot(p) \/ Die(p)
    \/ \E id \in RoleId : SoftDelete(id) \/ DropRole(id)
    \/ \E e \in Email : SoftDeleteUser(e)
    \/ \E n \in RoleName, id \in RoleId \cup {None} : NameRole(n, id)
    \/ Quiescent

Spec == Init /\ [][Next]_vars
-----------------------------------------------------------------------------
(* Properties.                                                             *)

Steps == {"idle", "validate", "exchange", "userinfo", "find", "role", "query", "store",
          "create", "reply", "ok", "refused", "crashed"}

(* The type of the tables, of the pods' memory and of every request.       *)
TypeOK ==
    /\ named \in [RoleName -> RoleId \cup {None}]
    /\ live \subseteq RoleId /\ dropped \subseteq RoleId
    /\ edits \in 0..MaxEdits
    /\ account \in [Email -> {None} \cup [by : Req, role : RoleId]]
    /\ deleted \subseteq Email /\ lost \subseteq Req
    /\ phase \in [Pod -> {"down", "up", "dead"}]
    /\ client \in [Pod -> Req \cup {None}]
    /\ cached \in [Pod -> [RoleName -> RoleId \cup {None}]]
    /\ pc \in [Req -> Steps]
    /\ in \in [Req -> {NoBody} \cup Body]
    /\ pod \in [Req -> Pod \cup {None}]
    /\ bearer \in [Req -> Req \cup {None}]
    /\ found \in [Req -> RoleId \cup {None}]
    /\ calls \in [Req -> SUBSET {"user", "profile", "code"}]
    /\ session \in [Req -> Email \cup {None}]
    /\ hit \subseteq Req /\ unseen \subseteq Req
    /\ since \in [Req -> SUBSET Req]
    /\ seen \in [Pod -> [RoleName -> SUBSET (RoleId \cup {None})]]

(* A Google callback signs its caller in to the caller's own account, or   *)
(* to that of a callback on the same pod which exchanged its code after    *)
(* this one did and before its userinfo call.  Whose code Google refuses   *)
(* is nobody, although the client still carries an earlier caller's        *)
(* credentials.                                                            *)
OwnAccountUnlessOverlap ==
    \A r \in Req : session[r] # None =>
        /\ in[r].good
        /\ \E q \in since[r] \cup {r} :
            in[q].op = "google" /\ in[q].good /\ pod[q] = pod[r] /\ in[q].email = session[r]

(* The role of an account is one that had the right name, and no           *)
(* deletedAt, at some moment since its maker's pod booted: the cache is    *)
(* never refreshed, but it mixes up no names and makes up no ids.          *)
RoleWasCurrent ==
    \A e \in Email : account[e] # None =>
        LET r == account[e].by IN account[e].role \in seen[pod[r]][WantedRole(r)]

(* Nobody is refused without a cause: a bad code or one lost since, a      *)
(* hidden email, a role that was missing at some moment since the pod      *)
(* booted or is gone, a fault, or an account at the address: another's for *)
(* a registration, which may well have made its own, and for a callback    *)
(* one it could not see, made behind its back or with deletedAt set.       *)
RefusalHasCause ==
    \A r \in Req : pc[r] = "refused" =>
        \/ r \in hit \/ ~in[r].good \/ r \in lost
        \/ bearer[r] # None /\ in[bearer[r]].email = None
        \/ None \in seen[pod[r]][WantedRole(r)] \/ found[r] \in dropped
        \/ IF in[r].op = "google" THEN r \in unseen
           ELSE account[in[r].email] # None /\ account[in[r].email].by # r
=============================================================================
