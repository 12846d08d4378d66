------------------------------- MODULE SignIn -------------------------------
(***************************************************************************)
(* What a sign-in rests on: login of auth.service.ts with the password and *)
(* the second factor, and refreshToken, which signs anew for whoever holds *)
(* a refresh token.  Meanwhile forgotPassword replaces the password,       *)
(* sendOTP the LOGIN codes, and others the roles, the second factor and    *)
(* the account itself.                                                     *)
(*                                                                         *)
(* Login decides on a user row it read once, and on roles and a code that  *)
(* it reads later.                                                         *)
(* A LOGIN code is validated and never deleted: it serves any number of    *)
(* sign-ins until it expires or a resend clears it.  The other codes and   *)
(* purposes are in Accounts, the token table's races in Sessions.          *)
(*                                                                         *)
(* Operators marked SLIP belong to no action: each is a plausible mistake  *)
(* in the definition that follows it, which some run must notice.          *)
(***************************************************************************)
EXTENDS Naturals

CONSTANTS
    Req,         \* requests the service receives
    User,        \* emails that have a user row
    Password, Code, Role,
    MaxEdits,    \* bound: how often others change rows, or a code expires
    None         \* no value

\* Request bodies.  totp: whether a totpCode is presented, and is right; the
\* schema refuses a body with both factors.
LoginBody == {b \in [op : {"login"}, user : User, password : Password,
                     totp : {"none", "right", "wrong"}, code : Code \cup {None}] :
                b.totp = "none" \/ b.code = None}
ResetBody == [op : {"forgotPassword"}, user : User, password : Password]
SendBody == [op : {"sendOTP"}, user : User]
RefreshBody == [op : {"refresh"}, token : Req]
NoBody == [op |-> "none"]

ASSUME SignInAssumption ==
    /\ None \notin User \cup Code
    /\ MaxEdits \in Nat

VARIABLES
    password,    \* of each user row
    roles,       \* the roles connected to it
    secret,      \* users whose row has a totpSecret
    deleted,     \* users whose row has deletedAt
    codes,       \* LOGIN code rows, <<user, code>>, that have not expired
    lapsed,      \* those that have
    tokens,      \* refreshToken rows, by the request that signed them
    edits,       \* changes made by others so far
    pc,          \* where each request is
    in,          \* its body
    who,         \* whose user row it works for
    claims,      \* the roles it has read, and signs
    views        \* history: what its user row and LOGIN codes were meanwhile

row == <<password, roles, secret, deleted>>
otp == <<codes, lapsed>>
local == <<in, who, claims>>
vars == <<row, otp, tokens, edits, pc, local, views>>

Over(r) == pc[r] \in {"ok", "refused", "failed"}
Pending(r) == pc[r] # "idle" /\ ~Over(r)

\* What there is to know of a user.
View(u) == [there |-> u \notin deleted, password |-> password[u], roles |-> roles[u],
            secret |-> u \in secret, codes |-> {c \in Code : <<u, c>> \in codes}]

Init ==
    /\ password \in [User -> Password]
    /\ roles \in [User -> SUBSET Role]
    /\ secret \in SUBSET User
    /\ codes \in SUBSET (User \X Code)
    /\ deleted = {} /\ lapsed = {} /\ tokens = {} /\ edits = 0
    /\ pc = [r \in Req |-> "idle"]
    /\ in = [r \in Req |-> NoBody]
    /\ who = [r \in Req |-> None]
    /\ claims = [r \in Req |-> {}]
    /\ views = [r \in Req |-> {}]

Goto(r, p) == pc' = [pc EXCEPT ![r] = p]

\* Requests under way see what has become of their user.
Watch == views' = [r \in Req |-> IF Pending(r) THEN views[r] \cup {View(who[r])'} ELSE views[r]]

Begin(r, i, u, p) ==
    /\ pc[r] = "idle"
    /\ in' = [in EXCEPT ![r] = i]
    /\ who' = [who EXCEPT ![r] = u]
    /\ views' = [views EXCEPT ![r] = {View(u)}]
    /\ Goto(r, p)
    /\ UNCHANGED <<row, otp, tokens, edits, claims>>

-----------------------------------------------------------------------------
(* login.                                                                  *)

StartLogin(r) == \E i \in LoginBody : Begin(r, i, i.user, "user")

\* SLIP: the e-mailed code is no factor.
TotpOnly(r) == IF in[r].totp = "right" THEN "sign" ELSE "refused"

\* A right totpCode is enough; without both, InvalidTOTPAndCode.
SecondFactor(r) == IF in[r].totp = "none" /\ in[r].code # None THEN "code"
                   ELSE IF in[r].totp = "right" THEN "sign" ELSE "refused"

\* One read of the row; bcrypt and TOTP work on what was read.
FindUser(r) ==
    /\ pc[r] = "user"
    /\ Goto(r, IF who[r] \in deleted \/ in[r].password # password[who[r]] THEN "refused"
               ELSE IF who[r] \in secret THEN "roles2FA" ELSE "roles")
    /\ UNCHANGED <<row, otp, tokens, edits, local, views>>

\* Prisma's include, a query of its own; what the row demanded comes after.
FindRoles(r) ==
    /\ pc[r] \in {"roles", "roles2FA"}
    /\ claims' = [claims EXCEPT ![r] = roles[who[r]]]
    /\ Goto(r, IF pc[r] = "roles2FA" THEN SecondFactor(r) ELSE "sign")
    /\ UNCHANGED <<row, otp, tokens, edits, in, who, views>>

\* SLIP: the expiry is not compared.
ValidEver(r) == <<who[r], in[r].code>> \in codes \cup lapsed

\* validateVerificationCode, for LOGIN.
Valid(r) == <<who[r], in[r].code>> \in codes

ValidateCode(r) ==
    /\ pc[r] = "code"
    /\ Goto(r, IF Valid(r) THEN "sign" ELSE "refused")
    /\ UNCHANGED <<row, otp, tokens, edits, local, views>>

\* createDevice and generateTokens.
SignTokens(r) ==
    /\ pc[r] = "sign"
    /\ tokens' = tokens \cup {r}
    /\ Goto(r, "ok")
    /\ UNCHANGED <<row, otp, edits, local, views>>

-----------------------------------------------------------------------------
(* refreshToken.                                                           *)

StartRefresh(r) ==
    \E i \in RefreshBody :
        /\ pc[i.token] = "ok" /\ in[i.token].op \in {"login", "refresh"}
        /\ Begin(r, i, who[i.token], "token")

FindToken(r) ==
    /\ pc[r] = "token"
    /\ Goto(r, IF in[r].token \in tokens THEN "renew" ELSE "refused")
    /\ UNCHANGED <<row, otp, tokens, edits, local, views>>

\* SLIP: the roles are copied from the presented token.
RenewedRolesCopied(r) == claims[in[r].token]

\* SLIP: the user is left out when soft-deleted, and has a role all the same.
RenewedRolesNull(r) == IF who[r] \in deleted THEN {None} ELSE roles[who[r]]

\* The roles of the token row's user, who may be soft-deleted.
RenewedRoles(r) == roles[who[r]]

RenewRoles(r) ==
    /\ pc[r] = "renew"
    /\ claims' = [claims EXCEPT ![r] = RenewedRoles(r)]
    /\ Goto(r, "rotate")
    /\ UNCHANGED <<row, otp, tokens, edits, in, who, views>>

\* The delete decides who of several may go on.
Rotate(r) ==
    /\ pc[r] = "rotate"
    /\ IF in[r].token \in tokens
       THEN tokens' = (tokens \ {in[r].token}) \cup {r} /\ Goto(r, "ok")
       ELSE Goto(r, "refused") /\ UNCHANGED tokens
    /\ UNCHANGED <<row, otp, edits, local, views>>

-----------------------------------------------------------------------------
(* sendOTP of type LOGIN, forgotPassword.                                  *)

StartSend(r) == \E i \in SendBody : Begin(r, i, i.user, "clear")

ClearCodes(r) ==
    /\ pc[r] = "clear"
    /\ codes' = {k \in codes : k[1] # who[r]}
    /\ lapsed' = {k \in lapsed : k[1] # who[r]}
    /\ Goto(r, "insert")
    /\ UNCHANGED <<row, tokens, edits, local>>
    /\ Watch

\* P2002 when another sendOTP has drawn the same code meanwhile.
InsertCode(r) ==
    /\ pc[r] = "insert"
    /\ \E c \in Code :
        IF <<who[r], c>> \in codes \cup lapsed
        THEN Goto(r, "refused") /\ UNCHANGED codes
        ELSE Goto(r, "ok") /\ codes' = codes \cup {<<who[r], c>>}
    /\ UNCHANGED <<row, lapsed, tokens, edits, local>>
    /\ Watch

StartReset(r) == \E i \in ResetBody : Begin(r, i, i.user, "lookup")

\* The user must be there; the FORGOT_PASSWORD code is validated next.
LookupReset(r) ==
    /\ pc[r] = "lookup"
    /\ Goto(r, IF who[r] \in deleted THEN "refused" ELSE "update")
    /\ UNCHANGED <<row, otp, tokens, edits, local, views>>

\* Devices and tokens stay as they are.
UpdatePassword(r) ==
    /\ pc[r] = "update"
    /\ IF who[r] \in deleted THEN Goto(r, "refused") /\ UNCHANGED password
       ELSE Goto(r, "ok") /\ password' = [password EXCEPT ![who[r]] = in[r].password]
    /\ UNCHANGED <<roles, secret, deleted, otp, tokens, edits, local>>
    /\ Watch

-----------------------------------------------------------------------------
(* Others.  Nothing under src/ changes a user's roles, second factor or    *)
(* deletedAt.                                                              *)

\* A call throws, or the pod dies.
Fail(r) ==
    /\ Pending(r)
    /\ Goto(r, "failed")
    /\ UNCHANGED <<row, otp, tokens, edits, local, views>>

Edit(u) ==
    /\ edits < MaxEdits /\ edits' = edits + 1
    /\ \/ /\ \E R \in SUBSET Role : roles' = [roles EXCEPT ![u] = R]
          /\ UNCHANGED <<secret, deleted, otp>>
       \/ /\ secret' = IF u \in secret THEN secret \ {u} ELSE secret \cup {u}
          /\ UNCHANGED <<roles, deleted, otp>>
       \/ /\ deleted' = deleted \cup {u}
          /\ UNCHANGED <<roles, secret, otp>>
       \/ /\ \E k \in codes : k[1] = u /\ codes' = codes \ {k} /\ lapsed' = lapsed \cup {k}
          /\ UNCHANGED <<roles, secret, deleted>>
    /\ UNCHANGED <<password, tokens, pc, local>>
    /\ Watch

Quiescent ==
    /\ \A r \in Req : pc[r] = "idle" \/ Over(r)
    /\ UNCHANGED vars

-----------------------------------------------------------------------------
Step(r) ==
    \/ FindUser(r) \/ FindRoles(r) \/ ValidateCode(r) \/ SignTokens(r)
    \/ FindToken(r) \/ RenewRoles(r) \/ Rotate(r)
    \/ ClearCodes(r) \/ InsertCode(r) \/ LookupReset(r) \/ UpdatePassword(r)

Next ==
    \/ \E r \in Req :
        \/ StartLogin(r) \/ StartRefresh(r) \/ StartSend(r) \/ StartReset(r)
        \/ Step(r) \/ Fail(r)
    \/ \E u \in User : Edit(u)
    \/ Quiescent

Spec == Init /\ [][Next]_vars
-----------------------------------------------------------------------------
(* Properties.                                                             *)

Steps == {"idle", "user", "roles", "roles2FA", "code", "sign", "token", "renew", "rotate",
          "clear", "insert", "lookup", "update", "ok", "refused", "failed"}
Body == LoginBody \cup ResetBody \cup SendBody \cup RefreshBody

(* The type of the tables and of every request's local state.              *)
TypeOK ==
    /\ password \in [User -> Password] /\ roles \in [User -> SUBSET Role]
    /\ secret \subseteq User /\ deleted \subseteq User
    /\ codes \subseteq User \X Code /\ lapsed \subseteq User \X Code
    /\ tokens \subseteq Req
    /\ edits \in 0..MaxEdits
    /\ pc \in [Req -> Steps]
    /\ in \in [Req -> {NoBody} \cup Body]
    /\ who \in [Req -> User \cup {None}]
    /\ claims \in [Req -> SUBSET Role]
    /\ \A r \in Req : \A v \in views[r] : v.there \in BOOLEAN /\ v.codes \subseteq Code

\* The password of r was right, and the account there, when the row read v.
Knows(r, v) == v.there /\ v.password = in[r].password

(* A sign-in rests on one moment of its own when the account was there and *)
(* the password was the account's; it is given the roles of one moment of  *)
(* its own; and, where a second factor was set when the password was       *)
(* right, it rests on a right TOTP, or on a LOGIN code of the account that *)
(* was live at some moment of it.  So the old password opens nothing once  *)
(* a reset is done, nor an old code once it has expired or been            *)
(* superseded.                                                             *)
SignInRests ==
    \A r \in Req : pc[r] = "ok" /\ in[r].op = "login" =>
        /\ \E v, w \in views[r] :
            /\ Knows(r, v)
            /\ v.secret => \/ in[r].totp = "right"
                           \/ in[r].totp = "none" /\ in[r].code \in w.codes
        /\ \E v \in views[r] : claims[r] = v.roles

(* Whoever had the account, the password and the second factor right at    *)
(* every moment of a sign-in is not refused.                               *)
SignInNotRefused ==
    \A r \in Req : pc[r] = "refused" /\ in[r].op = "login" =>
        \E v, w \in views[r] :
            \/ ~Knows(r, v)
            \/ /\ v.secret /\ in[r].totp # "right"
               /\ in[r].totp = "none" => in[r].code \notin w.codes

(* A renewed session has the roles its user had at some moment of the      *)
(* renewal, not those of the token presented: however long a chain of      *)
(* refreshes, a role is outlived by one access token and no more.          *)
RenewalIsCurrent ==
    \A r \in Req : pc[r] = "ok" /\ in[r].op = "refresh" =>
        \E v \in views[r] : claims[r] = v.roles
=============================================================================
