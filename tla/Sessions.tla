------------------------------ MODULE Sessions ------------------------------
(***************************************************************************)
(* Sign-in state of the auth service: login, googleCallback, refreshToken  *)
(* and logout (auth.service.ts, google.service.ts), over the device and    *)
(* refreshToken tables.  As in Accounts every database call is a step, a   *)
(* request is a member of Req made once, and Promise.all answers at the    *)
(* first rejection while its other calls go on.                            *)
(*                                                                         *)
(* A refresh token is named by the request that signed it (each carries a  *)
(* uuid), a device by the request that created it.  What tells two user    *)
(* bodies apart is only whether their secrets are right.                   *)
(*                                                                         *)
(* Operators marked SLIP belong to no action: each is a plausible mistake  *)
(* in the definition that follows it, which some run must notice.          *)
(***************************************************************************)
EXTENDS Naturals

CONSTANTS
    Req,         \* requests the service receives
    User,        \* emails
    Known,       \* those with a user row before the first request
    Unlucky,     \* requests whose database calls may throw, whose pod may die
    None         \* no value

Issuers == {"login", "google", "refresh"}
SignIn == [op : {"login", "google"}, user : User, good : BOOLEAN]
Present == [op : {"refresh", "logout"}, token : Req]
NoBody == [op |-> "none"]

ASSUME SessionsAssumption ==
    /\ Known \subseteq User
    /\ Unlucky \subseteq Req
    /\ None \notin Req

VARIABLES
    users,       \* emails that have a user row
    deleted,     \* of those, the soft-deleted ones
    devices,     \* device rows, by the sign-in that created them
    active,      \* those with isActive
    tokens,      \* refreshToken rows
    issued,      \* tokens ever inserted
    expired,     \* tokens past their exp
    pc,          \* where each request is
    in,          \* its body
    session,     \* the device it works for
    upd,         \* its Promise.all call on the device row
    del,         \* its Promise.all call deleting the presented token
    ins,         \* its generateTokens call
    consumed,    \* the token its deleteRefreshToken returned
    hit          \* history: requests that met a fault

tables == <<users, deleted, devices, active, tokens, issued, expired>>
calls == <<upd, del, ins>>
vars == <<tables, pc, in, session, calls, consumed, hit>>

Answered(r) == pc[r] \in {"ok", "refused", "unauthorized", "revoked", "crashed"}
Pending(r) == "run" \in {upd[r], del[r], ins[r]}
Over(r) == Answered(r) /\ ~Pending(r)

Init ==
    /\ users = Known /\ deleted = {}
    /\ devices = {} /\ active = {} /\ tokens = {} /\ issued = {} /\ expired = {}
    /\ pc = [r \in Req |-> "idle"]
    /\ in = [r \in Req |-> NoBody]
    /\ session = [r \in Req |-> None]
    /\ upd = [r \in Req |-> "none"]
    /\ del = upd /\ ins = upd
    /\ consumed = [r \in Req |-> None]
    /\ hit = {}

Goto(r, p) == pc' = [pc EXCEPT ![r] = p]

-----------------------------------------------------------------------------
(* login and googleCallback.                                               *)

StartSignIn(r) ==
    /\ pc[r] = "idle"
    /\ \E i \in SignIn :
        /\ in' = [in EXCEPT ![r] = i]
        /\ Goto(r, IF i.op = "login" THEN "authenticate" ELSE "exchange")
    /\ UNCHANGED <<tables, session, calls, consumed, hit>>

\* The user row, the password and, for an account that has one, the second
\* factor: any of them may refuse.
Authenticate(r) ==
    /\ pc[r] = "authenticate"
    /\ Goto(r, IF in[r].user \in users \ deleted /\ in[r].good THEN "device" ELSE "refused")
    /\ UNCHANGED <<tables, in, session, calls, consumed, hit>>

\* Google's getToken and userinfo; the callback needs an email.
ExchangeCode(r) ==
    /\ pc[r] = "exchange"
    /\ Goto(r, IF in[r].good THEN "findUser" ELSE "refused")
    /\ UNCHANGED <<tables, in, session, calls, consumed, hit>>

FindGoogleUser(r) ==
    /\ pc[r] = "findUser"
    /\ Goto(r, IF in[r].user \in users \ deleted THEN "device" ELSE "create")
    /\ UNCHANGED <<tables, in, session, calls, consumed, hit>>

\* createUserIncludeRole: P2002 when the email has got a row meanwhile, or
\* has a soft-deleted one.
CreateGoogleUser(r) ==
    /\ pc[r] = "create"
    /\ users' = users \cup {in[r].user}
    /\ Goto(r, IF in[r].user \in users THEN "refused" ELSE "device")
    /\ UNCHANGED <<deleted, devices, active, tokens, issued, expired,
                   in, session, calls, consumed, hit>>

\* The device row, then generateTokens for it.
CreateDevice(r) ==
    /\ pc[r] = "device"
    /\ devices' = devices \cup {r}
    /\ active' = active \cup {r}
    /\ session' = [session EXCEPT ![r] = r]
    /\ ins' = [ins EXCEPT ![r] = "run"]
    /\ Goto(r, "join")
    /\ UNCHANGED <<users, deleted, tokens, issued, expired, in, upd, del, consumed, hit>>

-----------------------------------------------------------------------------
(* refreshToken and logout: clients present tokens they were given.        *)

Delivered(t) == pc[t] = "ok" /\ in[t].op \in Issuers

StartPresent(r) ==
    /\ pc[r] = "idle"
    /\ \E i \in Present :
        /\ Delivered(i.token)
        /\ in' = [in EXCEPT ![r] = i]
        /\ Goto(r, IF i.op = "refresh" THEN "find" ELSE "verify")
    /\ UNCHANGED <<tables, session, calls, consumed, hit>>

\* refreshToken: verify the JWT and find its row, then Promise.all of three
\* calls on what was found.  RefreshTokenRevokedException is an RpcException,
\* not an HttpException: the catch turns it into a bare Unauthorized.
FindToken(r) ==
    /\ pc[r] = "find"
    /\ LET t == in[r].token IN
        \/ /\ t \in expired \/ t \notin tokens
           /\ Goto(r, "unauthorized")
           /\ UNCHANGED <<session, calls>>
        \/ /\ t \notin expired /\ t \in tokens
           /\ Goto(r, "join")
           /\ session' = [session EXCEPT ![r] = session[t]]
           /\ upd' = [upd EXCEPT ![r] = "run"]
           /\ del' = [del EXCEPT ![r] = "run"]
           /\ ins' = [ins EXCEPT ![r] = "run"]
    /\ UNCHANGED <<tables, in, consumed, hit>>

\* updateDevice writes ip and userAgent only: a signed-out device stays so.
UpdateDevice(r) ==
    /\ upd[r] = "run"
    /\ upd' = [upd EXCEPT ![r] = "done"]
    /\ UNCHANGED <<tables, pc, in, session, del, ins, consumed, hit>>

\* SLIP: findUnique where delete was meant.
WithdrawnNone(r) == {}

\* SLIP: rotation deletes every token of the device.
WithdrawnDevice(r) == {t \in tokens : session[t] = session[r]}

Withdrawn(r) == {in[r].token}

\* deleteRefreshToken: P2025 when somebody else has deleted the row.
DeleteToken(r) ==
    /\ del[r] = "run"
    /\ LET t == in[r].token IN
        IF t \in tokens
        THEN /\ tokens' = tokens \ Withdrawn(r)
             /\ consumed' = [consumed EXCEPT ![r] = t]
             /\ del' = [del EXCEPT ![r] = "done"]
        ELSE /\ del' = [del EXCEPT ![r] = "failed"]
             /\ UNCHANGED <<tokens, consumed, hit>>
    /\ UNCHANGED <<users, deleted, devices, active, issued, expired,
                   pc, in, session, upd, ins, hit>>

\* generateTokens: sign both, insert the row of the refresh token.
InsertToken(r) ==
    /\ ins[r] = "run"
    /\ tokens' = tokens \cup {r}
    /\ issued' = issued \cup {r}
    /\ ins' = [ins EXCEPT ![r] = "done"]
    /\ UNCHANGED <<users, deleted, devices, active, expired,
                   pc, in, session, upd, del, consumed, hit>>

\* SLIP: an answer no client knows.
RejectionUnknown(op) == "error"

Rejection(op) == IF op = "refresh" THEN "unauthorized" ELSE "refused"

\* SLIP: the delete is not awaited.
AllDoneButDelete(r) == {upd[r], ins[r]} \subseteq {"none", "done"}

\* SLIP: generateTokens does not await createRefreshToken.
AllDoneButInsert(r) == {upd[r], del[r]} \subseteq {"none", "done"}

AllDone(r) == {upd[r], del[r], ins[r]} \subseteq {"none", "done"}

\* SLIP: the presented token is verified once more after it was deleted.
RejectedLate(r) == \/ "failed" \in {upd[r], del[r], ins[r]}
                   \/ del[r] = "done" /\ in[r].token \in expired

Rejected(r) == "failed" \in {upd[r], del[r], ins[r]}

\* The answer, once no call is awaited any more or one has rejected.
Settle(r) ==
    /\ pc[r] = "join"
    /\ \/ /\ Rejected(r)
          /\ Goto(r, Rejection(in[r].op))
       \/ /\ AllDone(r)
          /\ Goto(r, "ok")
    /\ UNCHANGED <<tables, in, session, calls, consumed, hit>>

\* logout: verify the JWT, delete its row, clear isActive of its device.
VerifyLogout(r) ==
    /\ pc[r] = "verify"
    /\ Goto(r, IF in[r].token \in expired THEN "unauthorized" ELSE "delete")
    /\ UNCHANGED <<tables, in, session, calls, consumed, hit>>

LogoutDelete(r) ==
    /\ pc[r] = "delete"
    /\ LET t == in[r].token IN
        IF t \in tokens
        THEN /\ tokens' = tokens \ {t}
             /\ consumed' = [consumed EXCEPT ![r] = t]
             /\ session' = [session EXCEPT ![r] = session[t]]
             /\ Goto(r, "deactivate")
        ELSE /\ Goto(r, "revoked")
             /\ UNCHANGED <<tokens, consumed, session>>
    /\ UNCHANGED <<users, deleted, devices, active, issued, expired, in, calls, hit>>

Deactivate(r) ==
    /\ pc[r] = "deactivate"
    /\ active' = active \ {session[r]}
    /\ Goto(r, "join")
    /\ UNCHANGED <<users, deleted, devices, tokens, issued, expired,
                   in, session, calls, consumed, hit>>

-----------------------------------------------------------------------------
(* Faults, the clock, and other software.                                  *)

\* A database call, or Google, throws with nothing changed.
Throw(r) ==
    /\ r \in Unlucky
    /\ hit' = hit \cup {r}
    /\ \/ /\ pc[r] \in {"authenticate", "exchange", "findUser", "create", "device"}
          /\ Goto(r, "refused")
       \/ /\ pc[r] \in {"find", "delete", "deactivate"}
          /\ Goto(r, "unauthorized")
    /\ UNCHANGED <<tables, in, session, calls, consumed>>

ThrowInCall(r) ==
    /\ r \in Unlucky
    /\ hit' = hit \cup {r}
    /\ \/ upd[r] = "run" /\ upd' = [upd EXCEPT ![r] = "failed"] /\ UNCHANGED <<del, ins>>
       \/ del[r] = "run" /\ del' = [del EXCEPT ![r] = "failed"] /\ UNCHANGED <<upd, ins>>
       \/ ins[r] = "run" /\ ins' = [ins EXCEPT ![r] = "failed"] /\ UNCHANGED <<upd, del>>
    /\ UNCHANGED <<tables, pc, in, session, consumed>>

Lose(call, r) == [call EXCEPT ![r] = IF @ = "run" THEN "lost" ELSE @]

\* The pod serving r dies between two of its calls.
Crash(r) ==
    /\ r \in Unlucky
    /\ hit' = hit \cup {r}
    /\ pc[r] # "idle" /\ ~Over(r)
    /\ Goto(r, IF Answered(r) THEN pc[r] ELSE "crashed")
    /\ upd' = Lose(upd, r) /\ del' = Lose(del, r) /\ ins' = Lose(ins, r)
    /\ UNCHANGED <<tables, in, session, consumed>>

Expire(t) ==
    /\ t \in issued \ expired
    /\ expired' = expired \cup {t}
    /\ UNCHANGED <<users, deleted, devices, active, tokens, issued,
                   pc, in, session, calls, consumed, hit>>

\* Nothing under src/ sets deletedAt; the queries filter on it.
SoftDelete(u) ==
    /\ u \in users \ deleted
    /\ deleted' = deleted \cup {u}
    /\ UNCHANGED <<users, devices, active, tokens, issued, expired,
                   pc, in, session, calls, consumed, hit>>

Quiescent ==
    /\ \A r \in Req : Over(r)
    /\ UNCHANGED vars

-----------------------------------------------------------------------------
Step(r) ==
    \/ Authenticate(r) \/ ExchangeCode(r) \/ FindGoogleUser(r) \/ CreateGoogleUser(r)
    \/ CreateDevice(r) \/ FindToken(r) \/ Settle(r)
    \/ VerifyLogout(r) \/ LogoutDelete(r) \/ Deactivate(r)

Next ==
    \/ \E r \in Req :
        \/ StartSignIn(r) \/ StartPresent(r) \/ Step(r)
        \/ UpdateDevice(r) \/ DeleteToken(r) \/ InsertToken(r)
        \/ Throw(r) \/ ThrowInCall(r) \/ Crash(r) \/ Expire(r)
    \/ \E u \in User : SoftDelete(u)
    \/ Quiescent

Spec == Init /\ [][Next]_vars

\* Node resumes every continuation and the database answers every call.
Fairness ==
    \A r \in Req : /\ WF_vars(Step(r)) /\ WF_vars(UpdateDevice(r))
                   /\ WF_vars(DeleteToken(r)) /\ WF_vars(InsertToken(r))

FairSpec == Spec /\ Fairness
-----------------------------------------------------------------------------
(* Properties.                                                             *)

Steps == {"idle", "authenticate", "exchange", "findUser", "create", "device", "find",
          "verify", "delete", "deactivate", "join",
          "ok", "refused", "unauthorized", "revoked", "crashed"}
CallStates == {"none", "run", "done", "failed", "lost"}

(* The type of every table and of every request's local state.             *)
TypeOK ==
    /\ users \subseteq User /\ deleted \subseteq users
    /\ devices \subseteq Req /\ active \subseteq devices
    /\ issued \subseteq Req /\ tokens \subseteq issued /\ expired \subseteq issued
    /\ pc \in [Req -> Steps]
    /\ in \in [Req -> {NoBody} \cup SignIn \cup Present]
    /\ session \in [Req -> devices \cup {None}]
    /\ upd \in [Req -> CallStates] /\ del \in [Req -> CallStates]
    /\ ins \in [Req -> CallStates]
    /\ consumed \in [Req -> issued \cup {None}]
    /\ hit \subseteq Req

\* t is in its client's hands and the service would accept it.
Usable(t) == t \in tokens /\ Delivered(t)

(* Rotation leaves one usable refresh token per device: however logins and *)
(* refreshes of one token race, two clients never both hold a live one.    *)
OneTokenPerDevice ==
    \A t, s \in Req :
        Usable(t) /\ Usable(s) /\ session[t] = session[s] => t = s

(* Signing out is final: a device that logout has deactivated has no       *)
(* usable token, even if a refresh of the same token was running, and an   *)
(* acknowledged logout has deactivated it.                                 *)
LogoutFinal ==
    /\ \A t \in Req : Usable(t) => session[t] \in active
    /\ \A r \in Req : pc[r] = "ok" /\ in[r].op = "logout" => session[r] \notin active

(* A token handed to a client works: its row is there until a request      *)
(* presenting that very token has deleted it.                              *)
DeliveredTokenWorks ==
    \A t \in Req : Delivered(t) =>
        t \in tokens \/ \E r \in Req : in[r].op \in {"refresh", "logout"} /\ consumed[r] = t

(* A refresh or a logout is refused only for a token that has expired or   *)
(* that another request has used up, unless the request itself met a       *)
(* fault: nobody is signed out by what befell others.                      *)
RefusalJustified ==
    \A r \in Req : pc[r] \in {"unauthorized", "revoked"} =>
        \/ r \in hit
        \/ in[r].token \in expired
        \/ \E q \in Req \ {r} : consumed[q] = in[r].token

(* The request whose delete returned the row is answered with success,     *)
(* unless it met a fault: a race over one token never leaves everybody     *)
(* refused, whatever befalls the losers.                                   *)
SpenderSucceeds == \A r \in Req : consumed[r] # None ~> pc[r] = "ok" \/ r \in hit

\* Steps r has still to take, at most; a call counts while it runs.
Running(call, r) == IF call[r] = "run" THEN 1 ELSE 0
Ahead(r) ==
    CASE pc[r] = "exchange" -> 6
      [] pc[r] \in {"findUser", "find"} -> 5
      [] pc[r] \in {"authenticate", "create", "verify"} -> 4
      [] pc[r] \in {"device", "delete"} -> 3
      [] pc[r] = "deactivate" -> 2
      [] pc[r] = "join" -> 1
      [] OTHER -> 0
Left(r) == Ahead(r) + Running(upd, r) + Running(del, r) + Running(ins, r)

(* Every step a request takes, also one that fails, brings it nearer its   *)
(* end, and no step of another sends it back: nothing is ever retried.     *)
EveryStepCounts ==
    [][\A r \in Req :
        pc[r] # "idle" /\ <<pc[r], upd[r], del[r], ins[r]>>' # <<pc[r], upd[r], del[r], ins[r]>>
            => Left(r)' < Left(r)]_vars

(* A request with nothing left to do is over, and one that waits for its   *)
(* calls waits for one that runs, or can be answered.                      *)
NeverStuck ==
    \A r \in Req : pc[r] # "idle" =>
        /\ Left(r) = 0 <=> Over(r)
        /\ pc[r] = "join" => Pending(r) \/ Rejected(r) \/ AllDone(r)

(* The safety half of SpenderSucceeds: once over, a spender that met no    *)
(* fault has been answered with success.                                   *)
SpenderNotRefused ==
    \A r \in Req : consumed[r] # None /\ Over(r) => pc[r] = "ok" \/ r \in hit

\* The refreshToken table implements single-use credentials.
Rotation == INSTANCE SingleUse WITH
    Id <- Req,
    live <- tokens,
    spent <- {<<consumed[r], r>> : r \in {q \in Req : consumed[q] # None}}

(* A refresh token is inserted once, spent by at most one refresh or       *)
(* logout, and a spent one never comes back.                               *)
TokensAreSingleUse == Rotation!Spec
=============================================================================
