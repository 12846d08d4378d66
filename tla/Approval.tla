------------------------------ MODULE Approval ------------------------------
(***************************************************************************)
(* Approval of businesses: updateProviderStatus of the manager service,    *)
(* which reads the row, compares and writes in separate calls, and what    *)
(* depends on the row in other processes: the providerId claim, which      *)
(* login reads with the user and signs several awaits later, and a Google  *)
(* sign-in or a refresh leaves out, and VerifiedProviderGuard, which reads *)
(* the claim and then the row.                                             *)
(*                                                                         *)
(* Operators marked SLIP belong to no action: each is a plausible mistake  *)
(* in the definition that follows it, which some run must notice.          *)
(***************************************************************************)
CONSTANTS
    Req,         \* decisions, sign-ins and guarded calls, each made once
    User,        \* ids of users who may register a business
    RowId,       \* ids of serviceProvider rows; both count from one
    Manager,
    Faults,      \* TRUE: database calls may throw, pods may die
    None,        \* SQL null, and no value
    Undefined    \* JavaScript's undefined

Status == {"PENDING", "VERIFIED", "REJECTED"}

Decision == [op : {"decide"}, id : RowId, want : Status, by : Manager]
SignIn == [op : {"login", "google", "refresh"}, user : User]
Entry == [op : {"enter"}, token : Req]     \* the token of an earlier sign-in
NoBody == [op |-> "none"]

ASSUME ApprovalAssumption ==
    /\ Faults \in BOOLEAN
    /\ None \notin Req \cup Manager \cup Status
    /\ None \notin User \cup RowId
    /\ Undefined \notin Req \cup Manager \cup RowId \cup Status \cup {None}

VARIABLES
    owner,       \* the userId of each serviceProvider row, None where there is none
    status,      \* its verificationStatus
    verifiedBy,  \* its verifiedById
    verifiedAt,  \* its verifiedAt: the request whose time it is
    pc,          \* where each request is
    in,          \* its body
    claim,       \* the providerId in a sign-in's hands, then in its token
    was,         \* history: the status its write replaced
    early,       \* history: sign-ins that began after their user's registration
    prior        \* history: the requests over before it began

tables == <<owner, status, verifiedBy, verifiedAt>>
vars == <<tables, pc, in, claim, was, early, prior>>

Over(r) == pc[r] \in {"ok", "notFound", "same", "missing", "error", "crashed"}

Registered(u) == \E id \in RowId : owner[id] = u

Init ==
    /\ owner = [id \in RowId |-> None]
    /\ status = [id \in RowId |-> "PENDING"]
    /\ verifiedBy = [id \in RowId |-> None]
    /\ verifiedAt = [id \in RowId |-> None]
    /\ pc = [r \in Req |-> "idle"]
    /\ in = [r \in Req |-> NoBody]
    /\ claim = [r \in Req |-> None]
    /\ was = [r \in Req |-> None]
    /\ early = {}
    /\ prior = [r \in Req |-> {}]

Goto(r, p) == pc' = [pc EXCEPT ![r] = p]

HasToken(q) == pc[q] = "ok" /\ in[q].op \in {"login", "google", "refresh"}

\* A refresh and a guarded call need a sign-in that is over.
Start(r) ==
    /\ pc[r] = "idle"
    /\ \/ \E i \in Decision :
            in' = [in EXCEPT ![r] = i] /\ Goto(r, "find") /\ UNCHANGED early
       \/ \E i \in SignIn :
            /\ i.op = "refresh" => \E q \in Req : HasToken(q) /\ in[q].user = i.user
            /\ in' = [in EXCEPT ![r] = i]
            /\ early' = IF Registered(i.user) THEN early \cup {r} ELSE early
            /\ Goto(r, "lookup")
       \/ \E q \in Req :
            /\ HasToken(q)
            /\ in' = [in EXCEPT ![r] = [op |-> "enter", token |-> q]]
            /\ Goto(r, "guard") /\ UNCHANGED early
    /\ prior' = [prior EXCEPT ![r] = {q \in Req : Over(q)}]
    /\ UNCHANGED <<tables, claim, was>>

-----------------------------------------------------------------------------
(* The auth service: the row, and the claim in an access token.            *)

\* createServiceProvider, PENDING; userId is unique, and the user row is
\* there before.
CreateServiceProvider(u, id) ==
    /\ ~Registered(u) /\ owner[id] = None
    /\ owner' = [owner EXCEPT ![id] = u]
    /\ UNCHANGED <<status, verifiedBy, verifiedAt, pc, in, claim, was, early, prior>>

\* SLIP: user.id
ProviderIdOfUser(u) == u

\* user.serviceProvider?.id
ProviderId(u) ==
    IF Registered(u) THEN CHOOSE id \in RowId : owner[id] = u ELSE Undefined

\* login passes generateTokens the provider id of the user it has found; a
\* Google sign-in and a refresh pass none.
FindUser(r) ==
    /\ pc[r] = "lookup"
    /\ claim' = [claim EXCEPT ![r] =
            IF in[r].op = "login" THEN ProviderId(in[r].user) ELSE Undefined]
    /\ Goto(r, "sign")
    /\ UNCHANGED <<tables, in, was, early, prior>>

\* After the password, the second factor and the device.
SignAccessToken(r) ==
    /\ pc[r] = "sign"
    /\ Goto(r, "ok")
    /\ UNCHANGED <<tables, in, claim, was, early, prior>>

-----------------------------------------------------------------------------
(* updateProviderStatus.                                                   *)

\* SLIP: the comparison is left out.
FindProviderUnchecked(r) ==
    /\ pc[r] = "find"
    /\ Goto(r, IF owner[in[r].id] = None THEN "notFound" ELSE "update")
    /\ UNCHANGED <<tables, in, claim, was, early, prior>>

FindProvider(r) ==
    /\ pc[r] = "find"
    /\ Goto(r, IF owner[in[r].id] = None THEN "notFound"
               ELSE IF status[in[r].id] = in[r].want THEN "same"
               ELSE "update")
    /\ UNCHANGED <<tables, in, claim, was, early, prior>>

\* The gateway sends the body alone; ActiveUser looks for "user" in it.
Payload(r) == [id |-> in[r].id, verificationStatus |-> in[r].want]
ActiveUserId(m) == IF "user" \in DOMAIN m THEN in[m.user].by ELSE Undefined

\* SLIP: whatever is passed is written.
ColumnWritten(old, value) == value

\* Prisma leaves a column alone whose new value is undefined.
Column(old, value) == IF value = Undefined THEN old ELSE value

\* SLIP: the date of an earlier approval is kept.
DateKept(r) == IF in[r].want = "VERIFIED" THEN r ELSE Undefined

Date(r) == IF in[r].want = "VERIFIED" THEN r ELSE None

AcceptProvider(r) ==
    LET id == in[r].id
        userId == IF in[r].want = "VERIFIED" THEN ActiveUserId(Payload(r)) ELSE None
    IN  /\ pc[r] = "update"
        /\ was' = [was EXCEPT ![r] = status[id]]
        /\ status' = [status EXCEPT ![id] = in[r].want]
        /\ verifiedBy' = [verifiedBy EXCEPT ![id] = Column(@, userId)]
        /\ verifiedAt' = [verifiedAt EXCEPT ![id] = Column(@, Date(r))]
        /\ Goto(r, "reply")
        /\ UNCHANGED <<owner, in, claim, early, prior>>

Reply(r) ==
    /\ pc[r] = "reply"
    /\ Goto(r, "ok")
    /\ UNCHANGED <<tables, in, claim, was, early, prior>>

-----------------------------------------------------------------------------
(* VerifiedProviderGuard.                                                  *)

CheckClaim(r) ==
    /\ pc[r] = "guard"
    /\ Goto(r, IF claim[in[r].token] = Undefined THEN "missing" ELSE "row")
    /\ UNCHANGED <<tables, in, claim, was, early, prior>>

\* A status is a non-empty string, so !verificationStatus is false of each.
Falsy(value) == value \in {None, Undefined}

CheckRow(r) ==
    /\ pc[r] = "row"
    /\ LET id == claim[in[r].token] IN
        Goto(r, IF owner[id] = None \/ Falsy(status[id]) THEN "notFound" ELSE "ok")
    /\ UNCHANGED <<tables, in, claim, was, early, prior>>

-----------------------------------------------------------------------------
Throw(r) ==
    /\ Faults
    /\ pc[r] \in {"lookup", "sign", "find", "update", "row"}
    /\ Goto(r, "error")
    /\ UNCHANGED <<tables, in, claim, was, early, prior>>

Crash(r) ==
    /\ Faults
    /\ pc[r] # "idle" /\ ~Over(r)
    /\ Goto(r, "crashed")
    /\ UNCHANGED <<tables, in, claim, was, early, prior>>

Quiescent == (\A r \in Req : Over(r)) /\ UNCHANGED vars

Step(r) == \/ FindUser(r) \/ SignAccessToken(r)
           \/ FindProvider(r) \/ AcceptProvider(r) \/ Reply(r)
           \/ CheckClaim(r) \/ CheckRow(r)

Next ==
    \/ \E r \in Req : Start(r) \/ Step(r) \/ Throw(r) \/ Crash(r)
    \/ \E u \in User, id \in RowId : CreateServiceProvider(u, id)
    \/ Quiescent

Spec == Init /\ [][Next]_vars
-----------------------------------------------------------------------------
(* Properties.                                                             *)

Steps == {"idle", "lookup", "sign", "find", "update", "reply", "guard", "row", "ok", "notFound", "same",
          "missing", "error", "crashed"}

(* The type of every table and of every request's local state.             *)
TypeOK ==
    /\ owner \in [RowId -> User \cup {None}]
    /\ status \in [RowId -> Status]
    /\ verifiedBy \in [RowId -> Manager \cup {None}]
    /\ verifiedAt \in [RowId -> Req \cup {None}]
    /\ pc \in [Req -> Steps]
    /\ in \in [Req -> {NoBody} \cup Decision \cup SignIn \cup Entry]
    /\ claim \in [Req -> RowId \cup {None, Undefined}]
    /\ was \in [Req -> Status \cup {None}]
    /\ early \subseteq Req
    /\ prior \in [Req -> SUBSET Req]

Decides(r) == in[r].op = "decide"
Overlap(r, q) == r # q /\ r \notin prior[q] /\ q \notin prior[r]

(* An acknowledged decision changed the status, unless another request was *)
(* deciding the same at the same time.                                     *)
AckedDecisionIsChange ==
    \A r \in Req : pc[r] = "ok" /\ Decides(r) =>
        \/ was[r] # in[r].want
        \/ \E q \in Req : /\ Decides(q) /\ was[q] # None /\ Overlap(r, q)
                          /\ in[q].id = in[r].id /\ in[q].want = in[r].want

(* verifiedAt is the time of the decision in force: a row is dated exactly *)
(* while it is verified, by a request that wanted that.                    *)
DatedIffVerified ==
    \A id \in RowId :
        IF status[id] = "VERIFIED"
        THEN verifiedAt[id] # None /\ in[verifiedAt[id]].want = "VERIFIED"
        ELSE verifiedAt[id] = None

(* The guard reads the row of the business that its caller's token was     *)
(* signed for, and finds it.  Who is turned away as no provider has a      *)
(* token from Google or from a refresh, or signed in by password before    *)
(* the registration was over.                                              *)
GuardReadsOwnRow ==
    \A r \in Req : in[r].op = "enter" =>
        LET signIn == in[r].token
            id == claim[signIn]
        IN  /\ pc[r] = "missing" => in[signIn].op # "login" \/ signIn \notin early
            /\ pc[r] \in {"row", "ok"} => id \in RowId /\ owner[id] = in[signIn].user
            /\ pc[r] # "notFound"
=============================================================================
