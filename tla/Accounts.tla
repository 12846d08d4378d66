------------------------------ MODULE Accounts ------------------------------
(***************************************************************************)
(* The account operations of the auth service: sendOTP, register,          *)
(* registerProvider and forgotPassword (apps/auth/src/auth.service.ts),    *)
(* over the tables they share.  The service is one Node process, so code   *)
(* between two awaits is atomic and every database call is a step of its   *)
(* own; nothing is wrapped in a transaction.  Promise.all forks two calls  *)
(* that proceed in any order; when one rejects the caller is answered at   *)
(* once and the other call goes on in the background.                      *)
(*                                                                         *)
(* A request is named by a member of Req and is made once.  A row is named *)
(* by the request that inserted it (its autoincrement id).                 *)
(*                                                                         *)
(* Operators marked SLIP belong to no action: each is a plausible mistake  *)
(* in the definition that follows it, which some run must notice.          *)
(***************************************************************************)
EXTENDS Naturals

CONSTANTS
    Req,         \* requests the service receives
    Email, Code, Name, TaxId,
    Inputs,      \* the bodies each request may have
    Seeded,      \* emails with a user row (and profile) before the first request
    Deletable,   \* emails whose user row may be soft-deleted from outside src/
    Faults,      \* TRUE: database calls may throw, e-mail may fail, pods may die
    Seed,        \* stands for the creator of a seeded user
    None         \* no value

Ops == {"sendOTP", "register", "registerProvider", "forgotPassword"}
Types == {"REGISTER", "FORGOT_PASSWORD", "LOGIN"}

Body == [op : Ops, email : Email, type : Types \cup {None}, code : Code \cup {None},
         name : Name \cup {None}, taxId : TaxId \cup {None}]

ASSUME AccountsAssumption ==
    /\ Inputs \in [Req -> SUBSET Body]
    /\ \A r \in Req : \A i \in Inputs[r] :
        /\ i.op = "sendOTP" => i.type # None
        /\ i.op \in {"register", "registerProvider"} => i.name # None
    /\ Seeded \subseteq Email /\ Deletable \subseteq Email
    /\ Faults \in BOOLEAN
    /\ Seed \notin Req /\ None \notin Req /\ Seed # None /\ None \notin Body

VARIABLES
    codes,       \* verificationCode rows [id, email, type, code]
    issued,      \* ids ever inserted in verificationCode
    expired,     \* ids of rows whose expiresAt has passed
    user,        \* user row of an email: its creator, Seed or None (email is unique)
    password,    \* whose password the row holds: a request, Seed or None
    deleted,     \* emails whose user row has deletedAt set
    profile,     \* customerProfile rows, by the request that created the user
    provider,    \* serviceProvider rows, by the request that created the user
    pc,          \* where each request is
    in,          \* its body
    acct,        \* its Promise.all call on the user table
    del,         \* its Promise.all call on the verificationCode table
    proof,       \* id of the row validateVerificationCode returned to it
    consumed,    \* id of the row its deleteVerificationCode returned
    prior        \* history: the requests over before it began

tables == <<codes, issued, expired, user, password, deleted, profile, provider>>
local == <<in, acct, del, proof, consumed, prior>>
vars == <<tables, pc, local>>

Answered(r) == pc[r] \in {"ok", "error", "crashed"}
Pending(r) == acct[r] \in {"create", "profile", "update"} \/ del[r] = "delete"
Over(r) == Answered(r) /\ ~Pending(r)

Init ==
    /\ codes = {} /\ issued = {} /\ expired = {} /\ deleted = {}
    /\ user = [e \in Email |-> IF e \in Seeded THEN Seed ELSE None]
    /\ password = user
    /\ profile = {} /\ provider = {}
    /\ pc = [r \in Req |-> "idle"]
    /\ in = [r \in Req |-> None]
    /\ acct = [r \in Req |-> "none"]
    /\ del = [r \in Req |-> "none"]
    /\ proof = [r \in Req |-> None]
    /\ consumed = [r \in Req |-> None]
    /\ prior = [r \in Req |-> {}]

Goto(r, p) == pc' = [pc EXCEPT ![r] = p]

-----------------------------------------------------------------------------
(* A request arrives; auth.controller.ts calls the service method.         *)

\* SLIP: register creates the account without validating the OTP first.
FirstStepUnvalidated(op) == IF op \in {"sendOTP", "forgotPassword"} THEN "lookup" ELSE "prepare"

\* SLIP: a message pattern nobody serves.
FirstStepUnserved(op) == IF op = "sendOTP" THEN "lookup" ELSE "unserved"

FirstStep(op) == IF op \in {"sendOTP", "forgotPassword"} THEN "lookup" ELSE "validate"

Start(r) ==
    /\ pc[r] = "idle"
    /\ \E i \in Inputs[r] :
        /\ in' = [in EXCEPT ![r] = i]
        /\ Goto(r, FirstStep(i.op))
    /\ prior' = [prior EXCEPT ![r] = {q \in Req : Over(q)}]
    /\ UNCHANGED <<tables, acct, del, proof, consumed>>

\* sharedUser.findUnique filters on deletedAt.
Found(e) == user[e] # None /\ e \notin deleted

\* sendOTP and forgotPassword begin with the user row.
Refused(i) ==
    IF i.op = "sendOTP" /\ i.type # "FORGOT_PASSWORD"
    THEN i.type = "REGISTER" /\ Found(i.email)
    ELSE ~Found(i.email)

\* SLIP: a refused lookup is repeated until it is granted.
LookupUserRetry(r) ==
    /\ pc[r] = "lookup"
    /\ Goto(r, IF Refused(in[r]) THEN "lookup"
               ELSE IF in[r].op = "sendOTP" THEN "clear" ELSE "validate")
    /\ UNCHANGED <<tables, local>>

LookupUser(r) ==
    /\ pc[r] = "lookup"
    /\ Goto(r, IF Refused(in[r]) THEN "error"
               ELSE IF in[r].op = "sendOTP" THEN "clear" ELSE "validate")
    /\ UNCHANGED <<tables, local>>

-----------------------------------------------------------------------------
(* sendOTP: createVerificationCode is deleteMany, then create.             *)

SameKind(k, i) == k.email = i.email /\ k.type = i.type

\* SLIP: only rows that have expired make room for the new one.
SupersededExpired(r) == {k \in codes : SameKind(k, in[r]) /\ k.id \in expired}

Superseded(r) == {k \in codes : SameKind(k, in[r])}

ClearCodes(r) ==
    /\ pc[r] = "clear"
    /\ codes' = codes \ Superseded(r)
    /\ Goto(r, "insert")
    /\ UNCHANGED <<issued, expired, user, password, deleted, profile, provider, local>>

\* The six digits are drawn at random; (email, code, type) is unique, and
\* nothing catches P2002 here.
InsertCode(r) ==
    /\ pc[r] = "insert"
    /\ \E c \in Code :
        LET taken == \E k \in codes : SameKind(k, in[r]) /\ k.code = c
            row == [id |-> r, email |-> in[r].email, type |-> in[r].type, code |-> c]
        IN  /\ codes' = IF taken THEN codes ELSE codes \cup {row}
            /\ issued' = IF taken THEN issued ELSE issued \cup {r}
            /\ Goto(r, IF taken THEN "error" ELSE "mail")
    /\ UNCHANGED <<expired, user, password, deleted, profile, provider, local>>

SendMail(r) ==
    /\ pc[r] = "mail"
    /\ \E answer \in IF Faults THEN {"ok", "error"} ELSE {"ok"} : Goto(r, answer)
    /\ UNCHANGED <<tables, local>>

-----------------------------------------------------------------------------
(* validateVerificationCode, shared by the three operations that spend.    *)

WantedType(op) == IF op = "forgotPassword" THEN "FORGOT_PASSWORD" ELSE "REGISTER"

\* SLIP: a code is good for any purpose.
PresentedAnyType(r) == {k \in codes : k.email = in[r].email /\ k.code = in[r].code}

\* The row of email_code_type, at most one.
Presented(r) ==
    {k \in codes : /\ k.email = in[r].email
                   /\ k.type = WantedType(in[r].op)
                   /\ k.code = in[r].code}

AfterValidate(op) == IF op = "registerProvider" THEN "dup" ELSE "prepare"

ValidateCode(r) ==
    /\ pc[r] = "validate"
    /\ \/ /\ \A k \in Presented(r) : k.id \in expired
          /\ Goto(r, "error")
          /\ UNCHANGED proof
       \/ \E k \in Presented(r) :
            /\ k.id \notin expired
            /\ proof' = [proof EXCEPT ![r] = k.id]
            /\ Goto(r, AfterValidate(in[r].op))
    /\ UNCHANGED <<tables, in, acct, del, consumed, prior>>

\* SLIP: the tax number is not looked up.
DuplicateName(i) == \E e \in Email : user[e] \in Req /\ in[user[e]].name = i.name

\* findUniqueProviderIncludeNameAndTaxId: no index backs either answer.  Its
\* two reads are one step: what each of them has found stays there.
Duplicate(i) ==
    \/ \E p \in provider : in[p].taxId = i.taxId
    \/ \E e \in Email : user[e] \in Req /\ in[user[e]].name = i.name

CheckDuplicate(r) ==
    /\ pc[r] = "dup"
    /\ Goto(r, IF Duplicate(in[r]) THEN "error" ELSE "prepare")
    /\ UNCHANGED <<tables, local>>

-----------------------------------------------------------------------------
(* Hash the password, find the role, then Promise.all of two calls.        *)

Fork(r) ==
    /\ pc[r] = "prepare"
    /\ acct' = [acct EXCEPT ![r] = IF in[r].op = "forgotPassword" THEN "update" ELSE "create"]
    /\ del' = [del EXCEPT ![r] = "delete"]
    /\ Goto(r, "join")
    /\ UNCHANGED <<tables, in, proof, consumed, prior>>

\* SLIP: createUser, like createUserIncludeRole, makes no customerProfile.
CreateUserOnly(r) ==
    /\ acct[r] = "create"
    /\ IF user[in[r].email] = None
       THEN /\ user' = [user EXCEPT ![in[r].email] = r]
            /\ password' = [password EXCEPT ![in[r].email] = r]
            /\ acct' = [acct EXCEPT ![r] = "done"]
       ELSE /\ acct' = [acct EXCEPT ![r] = "failed"]
            /\ UNCHANGED <<user, password>>
    /\ UNCHANGED <<codes, issued, expired, deleted, profile, provider,
                   pc, in, del, proof, consumed, prior>>

\* user.create: P2002 when the email has a row, soft-deleted or not.
CreateUser(r) ==
    /\ acct[r] = "create"
    /\ IF user[in[r].email] = None
       THEN /\ user' = [user EXCEPT ![in[r].email] = r]
            /\ password' = [password EXCEPT ![in[r].email] = r]
            /\ acct' = [acct EXCEPT ![r] = "profile"]
       ELSE /\ acct' = [acct EXCEPT ![r] = "failed"]
            /\ UNCHANGED <<user, password>>
    /\ UNCHANGED <<codes, issued, expired, deleted, profile, provider,
                   pc, in, del, proof, consumed, prior>>

\* customerProfile.create, second half of createUser.
CreateProfile(r) ==
    /\ acct[r] = "profile"
    /\ profile' = profile \cup {r}
    /\ acct' = [acct EXCEPT ![r] = "done"]
    /\ UNCHANGED <<codes, issued, expired, user, password, deleted, provider,
                   pc, in, del, proof, consumed, prior>>

\* sharedUser.update: its where clause has deletedAt: null, P2025 otherwise.
UpdatePassword(r) ==
    /\ acct[r] = "update"
    /\ IF Found(in[r].email)
       THEN /\ password' = [password EXCEPT ![in[r].email] = r]
            /\ acct' = [acct EXCEPT ![r] = "done"]
       ELSE /\ acct' = [acct EXCEPT ![r] = "failed"]
            /\ UNCHANGED password
    /\ UNCHANGED <<codes, issued, expired, user, deleted, profile, provider,
                   pc, in, del, proof, consumed, prior>>

\* SLIP: deleteMany, which finds nothing wrong with deleting nothing.
DeleteCodeMany(r) ==
    /\ del[r] = "delete"
    /\ codes' = codes \ Presented(r)
    /\ consumed' = [consumed EXCEPT ![r] = proof[r]]
    /\ del' = [del EXCEPT ![r] = "done"]
    /\ UNCHANGED <<issued, expired, user, password, deleted, profile, provider,
                   pc, in, acct, proof, prior>>

\* deleteVerificationCode: returns the row, or P2025 when there is none.
DeleteCode(r) ==
    /\ del[r] = "delete"
    /\ \/ /\ Presented(r) = {}
          /\ del' = [del EXCEPT ![r] = "failed"]
          /\ UNCHANGED <<codes, consumed>>
       \/ \E k \in Presented(r) :
            /\ codes' = codes \ {k}
            /\ consumed' = [consumed EXCEPT ![r] = k.id]
            /\ del' = [del EXCEPT ![r] = "done"]
    /\ UNCHANGED <<issued, expired, user, password, deleted, profile, provider,
                   pc, in, acct, proof, prior>>

\* SLIP: a business is answered before its serviceProvider row is made.
AfterJoinAtOnce(op) == "ok"

AfterJoin(op) == IF op = "registerProvider" THEN "provider" ELSE "ok"

\* SLIP: createUser does not wait for the profile.
AllDoneEarly(r) == acct[r] \in {"profile", "done"} /\ del[r] = "done"

\* Promise.all settles when both calls are done, or at the first rejection.
AllDone(r) == acct[r] = "done" /\ del[r] = "done"

Settle(r) ==
    /\ pc[r] = "join"
    /\ \/ /\ acct[r] = "failed" \/ del[r] = "failed"
          /\ Goto(r, "error")
       \/ /\ AllDone(r)
          /\ Goto(r, AfterJoin(in[r].op))
    /\ UNCHANGED <<tables, local>>

\* serviceProvider.userId is unique, and r has just created its user.
CreateServiceProvider(r) ==
    /\ pc[r] = "provider"
    /\ provider' = provider \cup {r}
    /\ Goto(r, "reply")
    /\ UNCHANGED <<codes, issued, expired, user, password, deleted, profile, local>>

Reply(r) ==
    /\ pc[r] = "reply"
    /\ Goto(r, "ok")
    /\ UNCHANGED <<tables, local>>

-----------------------------------------------------------------------------
(* Faults, the clock, and what other software does to the tables.          *)

\* A call throws without having changed anything: none of the four methods
\* handles it, the request is refused.
Throw(r) ==
    /\ Faults
    /\ pc[r] \in {"lookup", "clear", "insert", "validate", "dup", "prepare", "provider"}
    /\ Goto(r, "error")
    /\ UNCHANGED <<tables, local>>

ThrowInBranch(r) ==
    /\ Faults
    /\ \/ /\ acct[r] \in {"create", "profile", "update"}
          /\ acct' = [acct EXCEPT ![r] = "failed"]
          /\ UNCHANGED del
       \/ /\ del[r] = "delete"
          /\ del' = [del EXCEPT ![r] = "failed"]
          /\ UNCHANGED acct
    /\ UNCHANGED <<tables, pc, in, proof, consumed, prior>>

\* The pod serving r dies between two of its calls.  A death that takes
\* several requests down is several of these steps.
Crash(r) ==
    /\ Faults
    /\ pc[r] # "idle" /\ ~Over(r)
    /\ Goto(r, IF Answered(r) THEN pc[r] ELSE "crashed")
    /\ acct' = [acct EXCEPT ![r] = IF @ \in {"create", "profile", "update"} THEN "lost" ELSE @]
    /\ del' = [del EXCEPT ![r] = IF @ = "delete" THEN "lost" ELSE @]
    /\ UNCHANGED <<tables, in, proof, consumed, prior>>

Expire(k) ==
    /\ k.id \notin expired
    /\ expired' = expired \cup {k.id}
    /\ UNCHANGED <<codes, issued, user, password, deleted, profile, provider, pc, local>>

SoftDelete(e) ==
    /\ user[e] # None /\ e \notin deleted
    /\ deleted' = deleted \cup {e}
    /\ UNCHANGED <<codes, issued, expired, user, password, profile, provider, pc, local>>

\* Every request is over: the service waits for more.
Quiescent ==
    /\ \A r \in Req : Over(r)
    /\ UNCHANGED vars

-----------------------------------------------------------------------------
\* What the service does for r when nothing goes wrong around it.
Step(r) ==
    \/ LookupUser(r) \/ ClearCodes(r) \/ InsertCode(r) \/ SendMail(r)
    \/ ValidateCode(r) \/ CheckDuplicate(r) \/ Fork(r) \/ Settle(r)
    \/ CreateServiceProvider(r) \/ Reply(r)

Next ==
    \/ \E r \in Req :
        \/ Start(r) \/ Step(r)
        \/ CreateUser(r) \/ CreateProfile(r) \/ UpdatePassword(r) \/ DeleteCode(r)
        \/ Throw(r) \/ ThrowInBranch(r) \/ Crash(r)
    \/ \E k \in codes : Expire(k)
    \/ \E e \in Deletable : SoftDelete(e)
    \/ Quiescent

Spec == Init /\ [][Next]_vars

\* The event loop resumes every continuation, and the database answers every
\* call.  Nothing obliges clients to call, codes to expire or faults to occur.
Fairness ==
    \A r \in Req :
        /\ WF_vars(Step(r))
        /\ WF_vars(CreateUser(r) \/ CreateProfile(r) \/ UpdatePassword(r))
        /\ WF_vars(DeleteCode(r))

FairSpec == Spec /\ Fairness
-----------------------------------------------------------------------------
(* Properties.                                                             *)

Steps == {"idle", "lookup", "clear", "insert", "mail", "validate", "dup", "prepare",
          "join", "provider", "reply", "ok", "error", "crashed"}
Registers(r) == in[r].op \in {"register", "registerProvider"}
Spends(r) == Registers(r) \/ in[r].op = "forgotPassword"

(* The type of every table and of every request's local state.             *)
TypeOK ==
    /\ codes \subseteq [id : Req, email : Email, type : Types, code : Code]
    /\ issued \subseteq Req /\ expired \subseteq Req
    /\ user \in [Email -> Req \cup {Seed, None}]
    /\ password \in [Email -> Req \cup {Seed, None}]
    /\ deleted \subseteq Email
    /\ profile \subseteq Req /\ provider \subseteq Req
    /\ pc \in [Req -> Steps]
    /\ in \in [Req -> Body \cup {None}]
    /\ \A r \in Req : pc[r] # "idle" => in[r] \in Inputs[r]
    /\ acct \in [Req -> {"none", "create", "profile", "update", "done", "failed", "lost"}]
    /\ del \in [Req -> {"none", "delete", "done", "failed", "lost"}]
    /\ proof \in [Req -> Req \cup {None}]
    /\ consumed \in [Req -> Req \cup {None}]
    /\ prior \in [Req -> SUBSET Req]

(* A registration answered with success is whole: the user row is the      *)
(* requester's, it has its customerProfile, for a business its             *)
(* serviceProvider, and the OTP row is used up.  createUser, the delete    *)
(* and createServiceProvider share no transaction, so this rests on the    *)
(* awaits of register and registerProvider alone.                          *)
AckedIsComplete ==
    \A r \in Req : pc[r] = "ok" /\ Registers(r) =>
        /\ user[in[r].email] = r
        /\ r \in profile
        /\ consumed[r] # None
        /\ in[r].op = "registerProvider" => r \in provider

(* Two successful answers never rest on the same OTP row, whatever raced:  *)
(* both requests may have validated it, but only one delete returned it.   *)
OneAckPerCode ==
    \A r, q \in Req :
        pc[r] = "ok" /\ Spends(r) /\ pc[q] = "ok" /\ Spends(q) /\ r # q
            => consumed[r] # None /\ consumed[r] # consumed[q]

\* r was let through by an OTP that sendOTP issued to this very email for
\* this very purpose.
Authorised(r, e) ==
    /\ proof[r] \in Req
    /\ in[proof[r]].op = "sendOTP"
    /\ in[proof[r]].email = e
    /\ in[proof[r]].type = WantedType(in[r].op)

(* Every user row, and every password, that a request wrote was authorised *)
(* by an OTP for that address and that purpose, even when the write came   *)
(* from the background half of a Promise.all whose request was refused.    *)
AccountNeedsOwnCode ==
    \A e \in Email :
        /\ user[e] \in Req => Authorised(user[e], e)
        /\ password[e] \in Req => Authorised(password[e], e)

(* A resend supersedes: once sendOTP has answered, no request that begins  *)
(* later is let through by an OTP issued before that sendOTP began.        *)
SupersededCodeRefused ==
    \A r, b \in Req :
        (/\ proof[r] # None
         /\ b \in prior[r] /\ pc[b] = "ok" /\ in[b].op = "sendOTP"
         /\ in[b].email = in[r].email /\ in[b].type = WantedType(in[r].op))
        => proof[r] \notin prior[b]

(* No two providers share a tax number: registerProvider throws            *)
(* ServiceProviderAlreadyExistsException on path taxId when one has it.    *)
TaxIdUnique ==
    \A p, q \in provider : in[p].taxId = in[q].taxId => p = q

(* What the check does give: two providers with one tax number can only    *)
(* come from registrations that overlapped in time.                        *)
TaxIdUniqueUnlessOverlap ==
    \A p, q \in provider :
        p # q /\ in[p].taxId = in[q].taxId => p \notin prior[q]

(* Without faults, a refused request that overlapped no other request for  *)
(* its address has left neither an account nor a password behind.          *)
SerialRefusalIsClean ==
    \A r \in Req :
        (/\ pc[r] = "error" /\ Spends(r)
         /\ \A q \in Req \ {r} : pc[q] # "idle" /\ in[q].email = in[r].email
                                    => q \in prior[r] \/ r \in prior[q])
        => user[in[r].email] # r /\ password[in[r].email] # r

(* Without faults every account gets its customerProfile, also when        *)
(* Promise.all has already refused the request that is creating it.        *)
AccountCompletes ==
    \A r \in Req : (\E e \in Email : user[e] = r) ~> r \in profile

\* Steps r has still to take, at most; a call counts while it runs.
Ahead(r) ==
    CASE pc[r] = "lookup" -> 10
      [] pc[r] = "validate" -> 9
      [] pc[r] = "dup" -> 8
      [] pc[r] = "prepare" -> 7
      [] pc[r] \in {"clear", "join"} -> 3
      [] pc[r] \in {"insert", "provider"} -> 2
      [] pc[r] \in {"mail", "reply"} -> 1
      [] OTHER -> 0
Calls(r) ==
    (IF acct[r] = "create" THEN 2 ELSE IF acct[r] \in {"profile", "update"} THEN 1 ELSE 0)
        + (IF del[r] = "delete" THEN 1 ELSE 0)
Left(r) == Ahead(r) + Calls(r)

(* Every step a request takes, also one that fails, brings it nearer its   *)
(* end, and no step of another sends it back: nothing is ever retried.     *)
EveryStepCounts ==
    [][\A r \in Req :
        pc[r] # "idle" /\ <<pc[r], acct[r], del[r]>>' # <<pc[r], acct[r], del[r]>>
            => Left(r)' < Left(r)]_vars

(* A request with nothing left to do is over, and one that waits for its   *)
(* calls waits for one that runs, or can be answered.                      *)
NeverStuck ==
    \A r \in Req : pc[r] # "idle" =>
        /\ Left(r) = 0 <=> Over(r)
        /\ pc[r] = "join" =>
              Pending(r) \/ "failed" \in {acct[r], del[r]} \/ AllDone(r)

(* The safety half of AccountCompletes: without faults, when the request   *)
(* that made an account is over, the account has its profile.              *)
AccountEndsWhole ==
    \A e \in Email : user[e] \in Req /\ Over(user[e]) => user[e] \in profile

\* The OTP table implements single-use credentials.
Otp == INSTANCE SingleUse WITH
    Id <- Req,
    live <- {k.id : k \in codes},
    spent <- {<<consumed[r], r>> : r \in {q \in Req : consumed[q] # None}}

(* OTP rows are issued once, spent at most once, and a spent or withdrawn  *)
(* row never comes back.                                                   *)
CodesAreSingleUse == Otp!Spec
=============================================================================
