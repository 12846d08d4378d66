--------------------------- MODULE Identity_proofs ---------------------------
(* Proofs about Identity, for any pods, requests and administrators.       *)
EXTENDS Identity, TLAPS

Proven == {"userinfo", "find", "role", "query", "store", "create", "reply", "ok"}

\* Whoever is on the way to an account, and whoever holds the role for one.
Making == {"role", "query", "store", "create"}
Holds(r) == pc[r] \in {"store", "create"} \/ calls[r] # {}

\* What the place of a request tells of its body and of what it holds.
Placed ==
    \A r \in Req :
        /\ in[r] = NoBody <=> pc[r] = "idle"
        /\ pod[r] = None <=> pc[r] = "idle"
        /\ ~Answered(r) /\ pc[r] # "idle" => phase[pod[r]] = "up"
        /\ pc[r] \in {"exchange", "userinfo", "find"} => in[r].op = "google"
        /\ pc[r] = "validate" => in[r].op # "google"
        /\ pc[r] \in Proven => in[r].good
        /\ pc[r] \in Proven \ {"userinfo"} /\ in[r].op = "google" => bearer[r] # None
        /\ bearer[r] # None => /\ in[r].op = "google" /\ in[r].good
                               /\ pc[r] \notin {"idle", "validate", "exchange", "userinfo"}
        /\ pc[r] \in {"idle", "validate", "exchange", "userinfo", "find", "role", "query"}
               => found[r] = None
        /\ pc[r] \in {"store", "create"} => found[r] # None
        /\ calls[r] # {} =>
            /\ pc[r] \in {"create", "refused"} /\ phase[pod[r]] = "up" /\ found[r] # None
            /\ in[r].op = "google" => pc[r] = "create" /\ calls[r] = {"user"}
        /\ session[r] # None => pc[r] = "ok" /\ in[r].op = "google"

\* q is a callback that Google has accepted on p.
From(q, p) == in[q].op = "google" /\ in[q].good /\ pod[q] = p

\* Whose credentials a client carries, and whose a callback has used.
Carried ==
    /\ \A p \in Pod : client[p] # None => From(client[p], p)
    /\ \A r \in Req : pc[r] = "userinfo" => client[pod[r]] \in since[r] \cup {r}
    /\ \A r \in Req : bearer[r] # None =>
        /\ bearer[r] \in since[r] \cup {r} /\ From(bearer[r], pod[r])
        /\ pc[r] \in Proven => in[bearer[r]].email # None
    /\ \A r \in Req : session[r] # None => bearer[r] # None /\ session[r] = in[bearer[r]].email

\* Whoever has made an account is past it.
Made ==
    \A e \in Email : account[e] # None =>
        /\ pc[account[e].by] \in {"create", "reply", "ok", "refused", "crashed"}
        /\ "user" \notin calls[account[e].by]

\* What a pod has seen covers what it keeps and what its requests hold.
Current ==
    /\ \A p \in Pod, n \in RoleName :
        /\ phase[p] = "down" => seen[p][n] = {} /\ cached[p][n] = None
        /\ phase[p] = "up" => RoleRow(n) \in seen[p][n]
        /\ cached[p][n] # None => cached[p][n] \in seen[p][n]
    /\ \A r \in Req : Holds(r) => found[r] \in seen[pod[r]][WantedRole(r)]
    /\ RoleWasCurrent

\* Whoever is about to make an account that exists has not seen it.
Unseen ==
    \A r \in Req : pc[r] \in Making /\ in[r].op = "google" /\ account[EmailOf(r)] # None
        => r \in unseen

\* What no step undoes.
Lasting ==
    /\ \A r \in Req :
        /\ pc[r] # "idle" => pc'[r] # "idle" /\ in'[r] = in[r] /\ pod'[r] = pod[r]
        /\ bearer[r] # None => bearer'[r] = bearer[r]
        /\ since[r] \subseteq since'[r]
        /\ Answered(r) => pc'[r] = pc[r] /\ found'[r] = found[r] /\ bearer'[r] = bearer[r]
    /\ \A p \in Pod, n \in RoleName : seen[p][n] \subseteq seen'[p][n]
    /\ \A e \in Email : account[e] # None => account'[e] = account[e]
    /\ hit \subseteq hit' /\ unseen \subseteq unseen' /\ dropped \subseteq dropped'
    /\ lost \subseteq lost'

LEMMA InitType == Init => TypeOK
BY IdentityAssumption DEF Init, TypeOK, Steps, NoBody, Body

LEMMA InitInv == Init => Placed /\ Carried /\ Made /\ Current /\ Unseen
BY IdentityAssumption
DEF Init, Placed, Carried, Made, Current, Holds, RoleWasCurrent, Unseen, Making, Proven, NoBody, Answered

\* A request that is about to make an account has an address and a role.
LEMMA MakerHolds ==
    ASSUME TypeOK, Placed, Carried, NEW r \in Req,
           pc[r] \in Proven \ {"userinfo", "find"} \/ calls[r] # {}
    PROVE  /\ EmailOf(r) \in Email
           /\ WantedRole(r) \in RoleName
BY DEF TypeOK, Placed, Carried, EmailOf, WantedRole, RoleName, Body, NoBody, Proven, From

\* The two actions with a choice in them, case by case.
LEMMA Accepted ==
    ASSUME NEW r \in Req, ExchangeCode(r), in[r].good
    PROVE  /\ pc[r] = "exchange" /\ pc' = [pc EXCEPT ![r] = "userinfo"]
           /\ client' = [client EXCEPT ![pod[r]] = r]
           /\ since' = [q \in Req |->
                  IF InFlight(q, pod[r]) THEN since[q] \cup {r} ELSE since[q]]
           /\ UNCHANGED <<named, live, dropped, edits, account, deleted, lost, phase, cached,
                          in, pod, bearer, found, calls, session, hit, unseen, seen>>
BY DEF ExchangeCode, Goto, roles, rows, local

LEMMA Rejected ==
    ASSUME NEW r \in Req, ExchangeCode(r), ~in[r].good
    PROVE  /\ pc[r] = "exchange" /\ pc' = [pc EXCEPT ![r] = "refused"]
           /\ UNCHANGED <<roles, rows, memory, local, history>>
BY DEF ExchangeCode, Goto, memory, history

Free(r) == account[EmailOf(r)] = None /\ found[r] \notin dropped

\* Only r moves; where to, if its Promise.all still waits.
Moves(r) ==
    /\ pc' \in [Req -> Steps]
    /\ \A q \in Req \ {r} : pc'[q] = pc[q] /\ calls'[q] = calls[q]
    /\ pc[r] # "create" => pc'[r] = pc[r]
    /\ pc[r] = "create" => \/ pc'[r] \in {"create", "refused"}
                           \/ pc'[r] = "reply" /\ calls'[r] = {}

\* A call of r ends, and makes nothing.
Ends(r) == Moves(r) /\ \E c \in calls[r] : calls' = [calls EXCEPT ![r] = calls[r] \ {c}]

LEMMA Settled ==
    ASSUME TypeOK, NEW r \in Req, NEW left \in SUBSET {"user", "profile", "code"},
           NEW ok \in BOOLEAN, Settle(r, left, ok)
    PROVE  /\ Moves(r) /\ calls' = [calls EXCEPT ![r] = left] /\ calls'[r] = left
           /\ ok => pc'[r] # "refused" \/ pc[r] = "refused"
           /\ ok /\ left = {} => pc'[r] # "create"
<1>1. calls' = [calls EXCEPT ![r] = left] /\ calls'[r] = left
      /\ \A q \in Req \ {r} : calls'[q] = calls[q]
  BY DEF Settle, TypeOK
<1>2. CASE pc[r] = "create" /\ ~ok
  <2>1. pc' = [pc EXCEPT ![r] = "refused"]
    BY <1>2 DEF Settle, Goto
  <2>2. pc'[r] = "refused" /\ pc' \in [Req -> Steps]
        /\ \A q \in Req \ {r} : pc'[q] = pc[q]
    BY <2>1 DEF TypeOK, Steps
  <2>3. Moves(r)
    BY <1>1, <1>2, <2>2 DEF Moves
  <2>. QED
    BY <1>1, <1>2, <2>2, <2>3
<1>3. CASE pc[r] = "create" /\ ok
  <2>1. PICK to \in {"create", "reply"} :
          pc' = [pc EXCEPT ![r] = to] /\ (left = {} <=> to = "reply")
    BY <1>3 DEF Settle, Goto
  <2>2. pc'[r] = to /\ pc' \in [Req -> Steps] /\ \A q \in Req \ {r} : pc'[q] = pc[q]
    BY <2>1 DEF TypeOK, Steps
  <2>3. Moves(r)
    BY <1>1, <1>3, <2>1, <2>2 DEF Moves
  <2>. QED
    BY <1>1, <1>3, <2>1, <2>2, <2>3
<1>4. CASE pc[r] # "create"
  BY <1>1, <1>4 DEF Settle, Moves, TypeOK
<1>. QED
  BY <1>2, <1>3, <1>4

LEMMA Created ==
    ASSUME TypeOK, NEW r \in Req, CreateUser(r), Free(r)
    PROVE  /\ Moves(r) /\ "user" \in calls[r]
           /\ calls'[r] = IF in[r].op = "google" THEN calls[r] \ {"user"}
                          ELSE (calls[r] \ {"user"}) \cup {"profile"}
           /\ calls' \in [Req -> SUBSET {"user", "profile", "code"}]
           /\ pc'[r] # "refused" \/ pc[r] = "refused"
           /\ calls'[r] = {} => pc'[r] # "create"
           /\ account' = [account EXCEPT ![EmailOf(r)] = [by |-> r, role |-> found[r]]]
           /\ unseen' = unseen \cup
                  {q \in Req \ {r} : pc[q] \in Making /\ EmailOf(q) = EmailOf(r)}
           /\ UNCHANGED <<named, live, dropped, edits, deleted, lost, phase, client, cached,
                          in, pod, bearer, found, session, hit, since, seen>>
<1> DEFINE rest == calls[r] \ {"user"}
           left == IF in[r].op = "google" THEN rest ELSE rest \cup {"profile"}
<1>1. left \in SUBSET {"user", "profile", "code"}
  BY DEF TypeOK
<1>2. Settle(r, left, TRUE)
  BY DEF CreateUser, Free
<1>3. calls' = [calls EXCEPT ![r] = left] /\ Moves(r) /\ calls'[r] = left
      /\ (pc'[r] # "refused" \/ pc[r] = "refused") /\ (left = {} => pc'[r] # "create")
  BY <1>1, <1>2, Settled
<1>4. calls' \in [Req -> SUBSET {"user", "profile", "code"}]
  BY <1>1, <1>3 DEF TypeOK
<1>. QED
  BY <1>3, <1>4 DEF CreateUser, Free, Making, roles, memory

LEMMA NotCreated ==
    ASSUME TypeOK, NEW r \in Req, CreateUser(r), ~Free(r)
    PROVE  /\ Ends(r) /\ "user" \in calls[r]
           /\ UNCHANGED <<roles, rows, memory, in, pod, bearer, found, session, history>>
<1>1. calls[r] \ {"user"} \in SUBSET {"user", "profile", "code"}
  BY DEF TypeOK
<1>2. Settle(r, calls[r] \ {"user"}, FALSE) /\ "user" \in calls[r]
  BY DEF CreateUser, Free
<1>3. Ends(r)
  BY <1>1, <1>2, Settled DEF Ends
<1>. QED
  BY <1>2, <1>3 DEF CreateUser, Free, rows, history

\* The calls that write no user row.
Ended(r) == CreateProfile(r) \/ DeleteCode(r)

LEMMA EndedEnds ==
    ASSUME TypeOK, NEW r \in Req, Ended(r)
    PROVE  /\ Ends(r)
           /\ pc'[r] = "refused" => pc[r] = "refused" \/ r \in lost
           /\ UNCHANGED <<roles, rows, memory, in, pod, bearer, found, session, history>>
<1>0. \A c \in {"profile", "code"} : calls[r] \ {c} \in SUBSET {"user", "profile", "code"}
  BY DEF TypeOK
<1>1. CASE CreateProfile(r)
  BY <1>0, <1>1, Settled DEF CreateProfile, Ends
<1>2. CASE DeleteCode(r)
  <2>1. Settle(r, calls[r] \ {"code"}, r \notin lost) /\ "code" \in calls[r]
    BY <1>2 DEF DeleteCode
  <2>2. (r \notin lost) \in BOOLEAN
    OBVIOUS
  <2>. QED
    BY <1>0, <1>2, <2>1, <2>2, Settled DEF DeleteCode, Ends
<1>. QED
  BY <1>1, <1>2 DEF Ended

\* A fault turns a request away, unless it was turned away before.
Fails(r) ==
    /\ pc[r] \in {"validate", "exchange", "userinfo", "find", "query", "reply"}
    /\ pc' = [pc EXCEPT ![r] = "refused"]
    /\ UNCHANGED calls

LEMMA Thrown ==
    ASSUME TypeOK, NEW r \in Req, Throw(r)
    PROVE  /\ Fails(r) \/ Ends(r)
           /\ hit' = hit \cup {r}
           /\ UNCHANGED <<named, live, dropped, edits, account, deleted, lost, phase, client,
                          cached, in, pod, bearer, found, session, since, unseen, seen>>
<1>1. CASE \E c \in calls[r] : Settle(r, calls[r] \ {c}, FALSE)
  <2>1. PICK c \in calls[r] : Settle(r, calls[r] \ {c}, FALSE)
    BY <1>1
  <2>2. calls[r] \ {c} \in SUBSET {"user", "profile", "code"}
    BY DEF TypeOK
  <2>3. Ends(r)
    BY <2>1, <2>2, Settled DEF Ends
  <2>. QED
    BY <2>3 DEF Throw, roles, rows, memory
<1>2. CASE Fails(r)
  BY <1>2 DEF Throw, roles, rows, memory
<1>. QED
  BY <1>1, <1>2 DEF Throw, Fails, Goto

LEMMA Forked ==
    ASSUME TypeOK, NEW r \in Req, Fork(r)
    PROVE  /\ pc' = [pc EXCEPT ![r] = "create"] /\ pc'[r] = "create"
           /\ calls' \in [Req -> SUBSET {"user", "profile", "code"}]
           /\ calls'[r] = IF in[r].op = "google" THEN {"user"} ELSE {"user", "code"}
           /\ \A q \in Req \ {r} : calls'[q] = calls[q] /\ pc'[q] = pc[q]
BY DEF TypeOK, Fork, Goto

LEMMA Begun ==
    ASSUME NEW r \in Req, Start(r)
    PROVE  \E p \in Pod, i \in Body, to \in {"exchange", "validate"} :
            /\ pc[r] = "idle" /\ phase[p] = "up"
            /\ in' = [in EXCEPT ![r] = i] /\ pod' = [pod EXCEPT ![r] = p]
            /\ pc' = [pc EXCEPT ![r] = to] /\ (to = "exchange" <=> i.op = "google")
            /\ UNCHANGED <<named, live, dropped, edits, account, deleted, lost, phase, client,
                           cached, bearer, found, calls, session, hit, since, unseen, seen>>
<1>1. PICK p \in Pod, i \in Inputs[r] :
        /\ phase[p] = "up"
        /\ in' = [in EXCEPT ![r] = i] /\ pod' = [pod EXCEPT ![r] = p]
        /\ Goto(r, IF i.op = "google" THEN "exchange" ELSE "validate")
  BY DEF Start
<1>2. i \in Body
  BY IdentityAssumption
<1>. QED
  BY <1>1, <1>2 DEF Start, Goto, roles, rows, memory, history

LEMMA PodOf == ASSUME TypeOK, Placed, NEW r \in Req, pc[r] # "idle" PROVE pod[r] \in Pod
BY DEF TypeOK, Placed

LEMMA EndsType ==
    ASSUME TypeOK, NEW r \in Req, Ends(r)
    PROVE  /\ pc' \in [Req -> Steps]
           /\ calls' \in [Req -> SUBSET {"user", "profile", "code"}]
<1>1. pc' \in [Req -> Steps]
  BY DEF Ends, Moves
<1>2. PICK c \in calls[r] : calls' = [calls EXCEPT ![r] = calls[r] \ {c}]
  BY DEF Ends
<1>3. calls \in [Req -> SUBSET {"user", "profile", "code"}]
  BY DEF TypeOK
<1>. QED
  BY <1>1, <1>2, <1>3

LEMMA NextType == TypeOK /\ Placed /\ Carried /\ [Next]_vars => TypeOK'
<1>. SUFFICES ASSUME TypeOK, Placed, Carried, [Next]_vars PROVE TypeOK'
  OBVIOUS
<1>0. CASE UNCHANGED vars
  BY <1>0 DEF TypeOK, Placed, NoBody, Body, Steps, RoleName, vars, roles, rows, memory,
      local, history
<1>1. ASSUME NEW r \in Req, Start(r) PROVE TypeOK'
  <2>1. PICK p \in Pod, i \in Body, to \in {"exchange", "validate"} :
          /\ in' = [in EXCEPT ![r] = i] /\ pod' = [pod EXCEPT ![r] = p]
          /\ pc' = [pc EXCEPT ![r] = to]
    BY <1>1, Begun
  <2>2. in' \in [Req -> {NoBody} \cup Body] /\ pod' \in [Req -> Pod \cup {None}]
        /\ pc' \in [Req -> Steps]
    BY <2>1 DEF TypeOK, Steps
  <2>3. UNCHANGED <<named, live, dropped, edits, account, deleted, lost, phase, client,
                    cached, bearer, found, calls, session, hit, since, unseen, seen>>
    BY <1>1, Begun
  <2>. QED
    BY <2>2, <2>3 DEF TypeOK
<1>2. ASSUME NEW r \in Req, Validate(r) PROVE TypeOK'
  BY <1>2
  DEF TypeOK, Placed, NoBody, Body, Steps, RoleName, Validate, Goto, roles, rows, memory,
      local, history
<1>3. ASSUME NEW r \in Req, ExchangeCode(r) PROVE TypeOK'
  <2>1. CASE in[r].good
    <3>1. since' \in [Req -> SUBSET Req]
      <4>1. since' = [q \in Req |-> IF InFlight(q, pod[r]) THEN since[q] \cup {r} ELSE since[q]]
        BY <1>3, <2>1, Accepted
      <4>. QED
        BY <4>1 DEF TypeOK
    <3>2. client' = [client EXCEPT ![pod[r]] = r] /\ pc' = [pc EXCEPT ![r] = "userinfo"]
      BY <1>3, <2>1, Accepted
    <3>3. client' \in [Pod -> Req \cup {None}] /\ pc' \in [Req -> Steps]
      BY <3>2 DEF TypeOK, Steps
    <3>. QED
      BY <1>3, <2>1, <3>1, <3>2, <3>3, Accepted DEF TypeOK
  <2>2. CASE ~in[r].good
    BY <1>3, <2>2, Rejected DEF TypeOK, Steps, roles, rows, memory, local, history
  <2>. QED
    BY <2>1, <2>2
<1>4. ASSUME NEW r \in Req, UserInfo(r) PROVE TypeOK'
  BY <1>4
  DEF TypeOK, Placed, NoBody, Body, Steps, RoleName, UserInfo, Goto, roles, rows, memory,
      history
<1>5. ASSUME NEW r \in Req, FindUser(r) PROVE TypeOK'
  BY <1>5
  DEF TypeOK, Placed, NoBody, Body, Steps, RoleName, FindUser, Goto, KnownUser,
      roles, rows, memory, local, history
<1>6. ASSUME NEW r \in Req, CheckCache(r) PROVE TypeOK'
  <2>1. cached[pod[r]][WantedRole(r)] \in RoleId \cup {None}
    BY <1>6, MakerHolds, PodOf DEF TypeOK, Proven, CheckCache
  <2>. QED
    <3>1. /\ pc' \in [Req -> Steps]
          /\ calls' \in [Req -> SUBSET {"user", "profile", "code"}]
          /\ found' \in [Req -> RoleId \cup {None}]
      <4>1. CASE cached[pod[r]][WantedRole(r)] # None
        <5>1. Fork(r) /\ found' = [found EXCEPT ![r] = cached[pod[r]][WantedRole(r)]]
          BY <1>6, <4>1 DEF CheckCache, Field
        <5>2. pc' = [pc EXCEPT ![r] = "create"]
              /\ calls' \in [Req -> SUBSET {"user", "profile", "code"}]
          BY <5>1, Forked
        <5>. QED
          BY <2>1, <5>1, <5>2 DEF TypeOK, Steps
      <4>2. CASE cached[pod[r]][WantedRole(r)] = None
        BY <1>6, <4>2 DEF TypeOK, Steps, CheckCache, Field, Goto
      <4>. QED
        BY <4>1, <4>2
    <3>. QED
      BY <1>6, <3>1 DEF TypeOK, CheckCache, roles, rows, memory, history
<1>7. ASSUME NEW r \in Req, QueryRole(r) PROVE TypeOK'
  BY <1>7, MakerHolds
  DEF TypeOK, Steps, Proven, RoleRow, QueryRole, Goto, roles, rows, memory, history
<1>8. ASSUME NEW r \in Req, StoreRole(r) PROVE TypeOK'
  BY <1>8, MakerHolds, PodOf
  DEF TypeOK, Placed, Steps, Proven, StoreRole, Fork, Goto, Field, Kept, roles, rows, local, history
<1>9. ASSUME NEW r \in Req, CreateUser(r) PROVE TypeOK'
  <2>1. CASE Free(r)
    <3>1. EmailOf(r) \in Email /\ found[r] \in RoleId
      BY <1>9, <2>1, MakerHolds, Created DEF TypeOK, Placed
    <3>2. account' \in [Email -> {None} \cup [by : Req, role : RoleId]]
      <4>1. account' = [account EXCEPT ![EmailOf(r)] = [by |-> r, role |-> found[r]]]
        BY <1>9, <2>1, Created
      <4>. QED
        BY <3>1, <4>1 DEF TypeOK
    <3>3. unseen' \subseteq Req /\ calls' \in [Req -> SUBSET {"user", "profile", "code"}]
          /\ pc' \in [Req -> Steps]
      BY <1>9, <2>1, Created DEF TypeOK, Moves
    <3>4. UNCHANGED <<named, live, dropped, edits, deleted, lost, phase, client, cached,
                      in, pod, bearer, found, session, hit, since, seen>>
      BY <1>9, <2>1, Created
    <3>. QED
      BY <3>2, <3>3, <3>4 DEF TypeOK
  <2>2. CASE ~Free(r)
    <3>1. Ends(r) /\ UNCHANGED <<roles, rows, memory, in, pod, bearer, found, session, history>>
      BY <1>9, <2>2, NotCreated
    <3>. QED
      BY <3>1, EndsType DEF TypeOK, roles, rows, memory, history
  <2>. QED
    BY <2>1, <2>2
<1>10. ASSUME NEW r \in Req, Reply(r) PROVE TypeOK'
  BY <1>10, MakerHolds DEF TypeOK, Steps, Proven, Reply, Goto, roles, rows, memory, history
<1>11. ASSUME NEW r \in Req, Throw(r) PROVE TypeOK'
  <2>1. pc' \in [Req -> Steps] /\ calls' \in [Req -> SUBSET {"user", "profile", "code"}]
    <3>1. CASE Fails(r)
      BY <3>1 DEF TypeOK, Fails, Steps
    <3>2. CASE Ends(r)
      BY <3>2, EndsType
    <3>. QED
      BY <1>11, <3>1, <3>2, Thrown
  <2>2. UNCHANGED <<named, live, dropped, edits, account, deleted, lost, phase, client,
                    cached, in, pod, bearer, found, session, since, unseen, seen>>
        /\ hit' = hit \cup {r}
    BY <1>11, Thrown
  <2>. QED
    BY <2>1, <2>2 DEF TypeOK
<1>12. ASSUME NEW p \in Pod, Boot(p) PROVE TypeOK'
  BY <1>12 DEF TypeOK, RoleRow, Boot, roles, rows, local
<1>13. ASSUME NEW p \in Pod, Die(p) PROVE TypeOK'
  BY <1>13
  DEF TypeOK, Placed, NoBody, Body, Steps, RoleName, Die, Answered, roles, rows, local,
      history
<1>14. ASSUME NEW n \in RoleName, NEW id \in RoleId \cup {None}, NameRole(n, id) PROVE TypeOK'
  BY <1>14, IdentityAssumption DEF TypeOK, RoleRow, NameRole, Edit, rows, memory, local
<1>15. ASSUME NEW id \in RoleId, SoftDelete(id) PROVE TypeOK'
  BY <1>15, IdentityAssumption DEF TypeOK, RoleRow, SoftDelete, Edit, rows, memory, local
<1>16. ASSUME NEW id \in RoleId, DropRole(id) PROVE TypeOK'
  BY <1>16, IdentityAssumption DEF TypeOK, RoleRow, DropRole, Edit, rows, memory, local
<1>17. ASSUME NEW r \in Req, Ended(r) PROVE TypeOK'
  <2>1. Ends(r) /\ UNCHANGED <<roles, rows, memory, in, pod, bearer, found, session, history>>
    BY <1>17, EndedEnds
  <2>. QED
    BY <2>1, EndsType DEF TypeOK, roles, rows, memory, history
<1>18. ASSUME NEW r \in Req, LoseCode(r) PROVE TypeOK'
  BY <1>18 DEF TypeOK, LoseCode, roles, memory, local, history
<1>19. ASSUME NEW e \in Email, SoftDeleteUser(e) PROVE TypeOK'
  BY <1>19, IdentityAssumption DEF TypeOK, RoleRow, SoftDeleteUser, Edit, memory, local
<1>. QED
  BY <1>0, <1>1, <1>2, <1>3, <1>4, <1>5, <1>6, <1>7, <1>8, <1>9, <1>10, <1>11,
      <1>12, <1>13, <1>14, <1>15, <1>16, <1>17, <1>18, <1>19 DEF Next, Step, Ended, Quiescent

LEMMA MovePlaced ==
    ASSUME TypeOK, Placed, NEW r \in Req, Moves(r), calls[r] # {},
           in[r].op = "google" => calls'[r] = calls[r] \ {"user"},
           UNCHANGED <<phase, in, pod, bearer, found, session>>
    PROVE  Placed'
BY DEF TypeOK, Placed, Moves, Proven, Answered

LEMMA EndPlaced ==
    ASSUME TypeOK, Placed, NEW r \in Req, Ends(r),
           UNCHANGED <<phase, in, pod, bearer, found, session>>
    PROVE  Placed'
<1>1. PICK c \in calls[r] : calls' = [calls EXCEPT ![r] = calls[r] \ {c}]
  BY DEF Ends
<1>2. in[r].op = "google" => c = "user"
  BY DEF Placed
<1>3. calls'[r] = calls[r] \ {c} /\ Moves(r)
  BY <1>1 DEF TypeOK, Ends
<1>. QED
  BY <1>2, <1>3, MovePlaced

LEMMA NextPlaced == TypeOK /\ Placed /\ Carried /\ [Next]_vars => Placed'
<1>. SUFFICES ASSUME TypeOK, Placed, Carried, [Next]_vars PROVE Placed'
  OBVIOUS
<1>0. CASE UNCHANGED vars
  BY <1>0 DEF TypeOK, Placed, NoBody, Body, Proven, Answered, vars, roles, rows, memory,
      local, history
<1>1. ASSUME NEW r \in Req, Start(r) PROVE Placed'
  <2>1. PICK p \in Pod, i \in Body, to \in {"exchange", "validate"} :
          /\ pc[r] = "idle" /\ phase[p] = "up"
          /\ in' = [in EXCEPT ![r] = i] /\ pod' = [pod EXCEPT ![r] = p]
          /\ pc' = [pc EXCEPT ![r] = to] /\ (to = "exchange" <=> i.op = "google")
          /\ UNCHANGED <<phase, bearer, found, calls, session>>
    BY <1>1, Begun
  <2>2. i # NoBody /\ p # None
    BY IdentityAssumption DEF NoBody, Body
  <2>3. \A q \in Req \ {r} : pc'[q] = pc[q] /\ in'[q] = in[q] /\ pod'[q] = pod[q]
    BY <2>1 DEF TypeOK
  <2>4. pc'[r] = to /\ in'[r] = i /\ pod'[r] = p
    BY <2>1 DEF TypeOK
  <2>. QED
    BY <2>1, <2>2, <2>3, <2>4 DEF Placed, Proven, Answered
<1>2. ASSUME NEW r \in Req, Validate(r) PROVE Placed'
  BY <1>2, IdentityAssumption
  DEF TypeOK, Placed, NoBody, Body, Proven, Answered, Validate, Goto, roles, rows,
      memory, local, history
<1>3. ASSUME NEW r \in Req, ExchangeCode(r) PROVE Placed'
  <2>1. CASE in[r].good
    BY <1>3, <2>1, Accepted, IdentityAssumption DEF TypeOK, Placed, Proven, Answered, InFlight
  <2>2. CASE ~in[r].good
    BY <1>3, <2>2, Rejected, IdentityAssumption DEF TypeOK, Placed, Proven, Answered,
       roles, rows, memory, local, history
  <2>. QED
    BY <2>1, <2>2
<1>4. ASSUME NEW r \in Req, UserInfo(r) PROVE Placed'
  <2>1. client[pod[r]] # None
    BY <1>4, IdentityAssumption DEF TypeOK, Carried, UserInfo
  <2>2. in[r].op = "google" /\ in[r].good
    BY <1>4 DEF Placed, Proven, UserInfo
  <2>. QED
    BY <1>4, <2>1, <2>2 DEF TypeOK, Placed, Proven, Answered, UserInfo, Goto, roles, rows,
       memory, history
<1>5. ASSUME NEW r \in Req, FindUser(r) PROVE Placed'
  BY <1>5, IdentityAssumption
  DEF TypeOK, Placed, NoBody, Body, Proven, Answered, FindUser, Goto, KnownUser,
      roles, rows, memory, local, history
<1>6. ASSUME NEW r \in Req, CheckCache(r) PROVE Placed'
  BY <1>6, IdentityAssumption
  DEF TypeOK, Placed, NoBody, Body, Proven, Answered, CheckCache, Fork, Goto, Field,
      roles, rows, memory, history
<1>7. ASSUME NEW r \in Req, QueryRole(r) PROVE Placed'
  BY <1>7, IdentityAssumption
  DEF TypeOK, Placed, NoBody, Body, Proven, Answered, QueryRole, Goto, roles, rows,
      memory, history
<1>8. ASSUME NEW r \in Req, StoreRole(r) PROVE Placed'
  BY <1>8, IdentityAssumption
  DEF TypeOK, Placed, NoBody, Body, Proven, Answered, StoreRole, Fork, Goto, Field, Kept,
      roles, rows, local, history
<1>9. ASSUME NEW r \in Req, CreateUser(r) PROVE Placed'
  <2>1. CASE Free(r)
    <3>1. UNCHANGED <<phase, in, pod, bearer, found, session>> /\ Moves(r) /\ calls[r] # {}
          /\ (in[r].op = "google" => calls'[r] = calls[r] \ {"user"})
      BY <1>9, <2>1, Created
    <3>. QED
      BY <3>1, MovePlaced
  <2>2. CASE ~Free(r)
    BY <1>9, <2>2, NotCreated, EndPlaced DEF memory
  <2>. QED
    BY <2>1, <2>2
<1>10. ASSUME NEW r \in Req, Reply(r) PROVE Placed'
  BY <1>10, IdentityAssumption
  DEF TypeOK, Placed, NoBody, Body, Proven, Answered, Reply, Goto, roles, rows, memory,
      history
<1>11. ASSUME NEW r \in Req, Throw(r) PROVE Placed'
  <2>1. CASE Fails(r)
    BY <1>11, <2>1, Thrown, IdentityAssumption DEF TypeOK, Placed, Proven, Answered, Fails
  <2>2. CASE Ends(r)
    BY <1>11, <2>2, Thrown, EndPlaced
  <2>. QED
    BY <1>11, <2>1, <2>2, Thrown
<1>12. ASSUME NEW p \in Pod, Boot(p) PROVE Placed'
  BY <1>12, IdentityAssumption
  DEF TypeOK, Placed, NoBody, Body, Proven, Answered, Boot, roles, rows, local
<1>13. ASSUME NEW p \in Pod, Die(p) PROVE Placed'
  BY <1>13, IdentityAssumption
  DEF TypeOK, Placed, NoBody, Body, Proven, Answered, Die, Answered, roles, rows, local,
      history
<1>14. ASSUME NEW n \in RoleName, NEW id \in RoleId \cup {None}, NameRole(n, id) PROVE Placed'
  BY <1>14, IdentityAssumption
  DEF TypeOK, Placed, NoBody, Body, Proven, Answered, NameRole, Edit, memory, local
<1>15. ASSUME NEW id \in RoleId, SoftDelete(id) PROVE Placed'
  BY <1>15, IdentityAssumption
  DEF TypeOK, Placed, NoBody, Body, Proven, Answered, SoftDelete, Edit, memory,
      local
<1>16. ASSUME NEW id \in RoleId, DropRole(id) PROVE Placed'
  BY <1>16, IdentityAssumption
  DEF TypeOK, Placed, NoBody, Body, Proven, Answered, DropRole, Edit, memory, local
<1>17. ASSUME NEW r \in Req, Ended(r) PROVE Placed'
  BY <1>17, EndedEnds, EndPlaced DEF memory
<1>18. ASSUME NEW r \in Req, LoseCode(r) PROVE Placed'
  BY <1>18 DEF Placed, Answered, LoseCode, memory, local
<1>19. ASSUME NEW e \in Email, SoftDeleteUser(e) PROVE Placed'
  BY <1>19 DEF Placed, Answered, SoftDeleteUser, memory, local
<1>. QED
  BY <1>0, <1>1, <1>2, <1>3, <1>4, <1>5, <1>6, <1>7, <1>8, <1>9, <1>10, <1>11,
      <1>12, <1>13, <1>14, <1>15, <1>16, <1>17, <1>18, <1>19 DEF Next, Step, Ended, Quiescent

LEMMA MoveLasts ==
    ASSUME TypeOK, NEW r \in Req, Moves(r),
           \A e \in Email : account[e] # None => account'[e] = account[e],
           hit \subseteq hit', unseen \subseteq unseen',
           UNCHANGED <<in, pod, bearer, found, since, seen, dropped, lost>>
    PROVE  Lasting
BY DEF TypeOK, Lasting, Answered, Moves

LEMMA NextLasting == TypeOK /\ Placed /\ Current /\ [Next]_vars => Lasting
<1>. SUFFICES ASSUME TypeOK, Placed, Current, [Next]_vars PROVE Lasting
  OBVIOUS
<1>0. CASE UNCHANGED vars
  BY <1>0 DEF TypeOK, Placed, Lasting, Answered, vars, roles, rows, memory,
      local, history
<1>1. ASSUME NEW r \in Req, Start(r) PROVE Lasting
  BY <1>1
  DEF TypeOK, Placed, Lasting, Answered, Start, Goto, roles, rows, memory,
      history
<1>2. ASSUME NEW r \in Req, Validate(r) PROVE Lasting
  BY <1>2
  DEF TypeOK, Placed, Lasting, Answered, Validate, Goto, roles, rows, memory,
      local, history
<1>3. ASSUME NEW r \in Req, ExchangeCode(r) PROVE Lasting
  <2>1. CASE in[r].good
    BY <1>3, <2>1, Accepted DEF TypeOK, Placed, Lasting, Answered, InFlight
  <2>2. CASE ~in[r].good
    BY <1>3, <2>2, Rejected DEF TypeOK, Placed, Lasting, Answered, roles, rows, memory, local,
       history
  <2>. QED
    BY <2>1, <2>2
<1>4. ASSUME NEW r \in Req, UserInfo(r) PROVE Lasting
  BY <1>4
  DEF TypeOK, Placed, Lasting, Answered, UserInfo, Goto, roles, rows, memory,
      history
<1>5. ASSUME NEW r \in Req, FindUser(r) PROVE Lasting
  BY <1>5
  DEF TypeOK, Placed, Lasting, Answered, FindUser, Goto, KnownUser, roles, rows,
      memory, local, history
<1>6. ASSUME NEW r \in Req, CheckCache(r) PROVE Lasting
  BY <1>6
  DEF TypeOK, Placed, Lasting, Answered, CheckCache, Fork, Goto, Field, roles, rows,
      memory, history
<1>7. ASSUME NEW r \in Req, QueryRole(r) PROVE Lasting
  BY <1>7
  DEF TypeOK, Placed, Lasting, Answered, QueryRole, Goto, roles, rows, memory,
      history
<1>8. ASSUME NEW r \in Req, StoreRole(r) PROVE Lasting
  BY <1>8
  DEF TypeOK, Placed, Lasting, Answered, StoreRole, Fork, Goto, Field, Kept,
      roles, rows, local, history
<1>9. ASSUME NEW r \in Req, CreateUser(r) PROVE Lasting
  <2>1. CASE Free(r)
    <3>1. \A e \in Email : account[e] # None => account'[e] = account[e]
      <4>1. account' = [account EXCEPT ![EmailOf(r)] = [by |-> r, role |-> found[r]]]
        BY <1>9, <2>1, Created
      <4>. QED
        BY <2>1, <4>1 DEF TypeOK, Free
    <3>2. /\ Moves(r) /\ unseen \subseteq unseen'
          /\ UNCHANGED <<in, pod, bearer, found, hit, since, seen, dropped, lost>>
      BY <1>9, <2>1, Created
    <3>. QED
      BY <3>1, <3>2, MoveLasts
  <2>2. CASE ~Free(r)
    BY <1>9, <2>2, NotCreated, MoveLasts DEF Ends, roles, rows, history
  <2>. QED
    BY <2>1, <2>2
<1>10. ASSUME NEW r \in Req, Reply(r) PROVE Lasting
  BY <1>10
  DEF TypeOK, Placed, Lasting, Answered, Reply, Goto, roles, rows, memory,
      history
<1>11. ASSUME NEW r \in Req, Throw(r) PROVE Lasting
  <2>1. UNCHANGED <<in, pod, bearer, found, since, seen, unseen, dropped, lost, account>>
        /\ hit \subseteq hit'
    BY <1>11, Thrown
  <2>2. CASE Fails(r)
    BY <2>1, <2>2 DEF TypeOK, Lasting, Answered, Fails
  <2>3. CASE Ends(r)
    BY <2>1, <2>3, MoveLasts DEF Ends
  <2>. QED
    BY <1>11, <2>2, <2>3, Thrown
<1>12. ASSUME NEW p \in Pod, Boot(p) PROVE Lasting
  <2>1. \A q \in Pod, n \in RoleName : seen[q][n] \subseteq seen'[q][n]
    BY <1>12 DEF TypeOK, Current, Boot
  <2>. QED
    BY <1>12, <2>1 DEF Lasting, Answered, Boot, roles, rows, local
<1>13. ASSUME NEW p \in Pod, Die(p) PROVE Lasting
  BY <1>13
  DEF TypeOK, Placed, Lasting, Answered, Die, Answered, roles, rows, local,
      history
<1>14. ASSUME NEW n \in RoleName, NEW id \in RoleId \cup {None}, NameRole(n, id) PROVE Lasting
  BY <1>14
  DEF TypeOK, Placed, Lasting, Answered, NameRole, Edit, rows, memory, local
<1>15. ASSUME NEW id \in RoleId, SoftDelete(id) PROVE Lasting
  BY <1>15
  DEF TypeOK, Placed, Lasting, Answered, SoftDelete, Edit, rows, memory, local
<1>16. ASSUME NEW id \in RoleId, DropRole(id) PROVE Lasting
  BY <1>16
  DEF TypeOK, Placed, Lasting, Answered, DropRole, Edit, rows, memory, local
<1>17. ASSUME NEW r \in Req, Ended(r) PROVE Lasting
  BY <1>17, EndedEnds, MoveLasts DEF Ends, roles, rows, history
<1>18. ASSUME NEW r \in Req, LoseCode(r) PROVE Lasting
  BY <1>18 DEF Placed, Lasting, Answered, LoseCode, roles, local, history
<1>19. ASSUME NEW e \in Email, SoftDeleteUser(e) PROVE Lasting
  BY <1>19 DEF TypeOK, Placed, Lasting, Answered, SoftDeleteUser, Edit, memory, local
<1>. QED
  BY <1>0, <1>1, <1>2, <1>3, <1>4, <1>5, <1>6, <1>7, <1>8, <1>9, <1>10, <1>11,
      <1>12, <1>13, <1>14, <1>15, <1>16, <1>17, <1>18, <1>19 DEF Next, Step, Ended, Quiescent

LEMMA NextCarried == TypeOK /\ Placed /\ Carried /\ Current /\ [Next]_vars => Carried'
<1>. SUFFICES ASSUME TypeOK, Placed, Carried, Current, [Next]_vars PROVE Carried'
  OBVIOUS
<1>0. Lasting
  BY NextLasting
\* Callbacks stay accepted, and the histories only grow.
<1>1. \A q \in Req, p \in Pod : From(q, p) => From(q, p)'
  BY <1>0, IdentityAssumption DEF Lasting, Placed, TypeOK, From
<1>2. CASE UNCHANGED <<client, pc, in, pod, bearer, session, since>>
  BY <1>2 DEF Carried, From, Proven
<1>3. ASSUME NEW r \in Req, Start(r) PROVE Carried'
  <2>1. UNCHANGED <<client, bearer, session, since>> /\ pc'[r] \notin Proven
    BY <1>3, Begun DEF TypeOK, Proven
  <2>2. \A q \in Req : pc[q] # "idle" => in'[q] = in[q] /\ pod'[q] = pod[q]
    BY <1>0 DEF Lasting
  <2>3. \A q \in Req : q # r => pc'[q] = pc[q]
    BY <1>3, Begun DEF TypeOK
  <2>4. \A q \in Req : bearer[q] # None => pc[q] # "idle" /\ pod[q] \in Pod /\ bearer[q] \in Req
    BY PodOf DEF Placed, TypeOK
  <2>5. \A q \in Req : From(q, pod[q]) => pc[q] # "idle"
    BY DEF From, Placed, NoBody
  <2>. QED
    BY <1>1, <2>1, <2>2, <2>3, <2>4, <2>5 DEF Carried, TypeOK, Placed, Proven, From
<1>4. ASSUME NEW r \in Req, ExchangeCode(r) PROVE Carried'
  <2>1. CASE in[r].good
    <3>1. in[r].op = "google" /\ bearer[r] = None /\ pod[r] \in Pod /\ From(r, pod[r])
      BY <1>4, <2>1, Accepted, PodOf DEF Placed, From
    <3>2. /\ \A q \in Req : since[q] \subseteq since'[q]
          /\ \A q \in Req : pc[q] = "userinfo" /\ pod[q] = pod[r] => r \in since'[q]
          /\ \A q \in Req \ {r} : pc'[q] = pc[q]
      BY <1>4, <2>1, Accepted DEF TypeOK, InFlight
    <3>3. /\ pc' = [pc EXCEPT ![r] = "userinfo"] /\ client' = [client EXCEPT ![pod[r]] = r]
          /\ UNCHANGED <<in, pod, bearer, session>>
      BY <1>4, <2>1, Accepted
    <3>4. \A p \in Pod : client'[p] # None => From(client'[p], p)
      BY <3>1, <3>3 DEF Carried, TypeOK
    <3>5. \A q \in Req : pc'[q] = "userinfo" => client'[pod[q]] \in since'[q] \cup {q}
      BY <3>1, <3>2, <3>3, PodOf DEF Carried, TypeOK
    <3>6. \A q \in Req : pc'[q] \in Proven /\ bearer[q] # None => pc[q] \in Proven
      BY <3>1, <3>2 DEF Proven
    <3>. QED
      BY <3>2, <3>3, <3>4, <3>5, <3>6 DEF Carried, From
  <2>2. CASE ~in[r].good
    BY <1>4, <2>2, Rejected DEF Carried, TypeOK, Placed, Proven, From, memory, local, history
  <2>. QED
    BY <2>1, <2>2
<1>5. ASSUME NEW r \in Req, UserInfo(r) PROVE Carried'
  BY <1>5, PodOf, IdentityAssumption
  DEF Carried, TypeOK, Placed, Proven, From, UserInfo, Goto, memory, history
<1>6. ASSUME NEW r \in Req,
             \/ Validate(r) \/ FindUser(r) \/ CheckCache(r) \/ QueryRole(r)
             \/ StoreRole(r) \/ LoseCode(r)
      PROVE  Carried'
  <2>1. UNCHANGED <<client, in, pod, bearer, session, since>>
    BY <1>6 DEF Validate, FindUser, CheckCache, QueryRole, StoreRole, LoseCode,
       memory, local, history
  <2>2. \A q \in Req : /\ pc'[q] = "userinfo" => pc[q] = "userinfo"
                       /\ bearer[q] # None /\ pc'[q] \in Proven => pc[q] \in Proven
    BY <1>6 DEF TypeOK, Placed, Proven, Validate, FindUser, CheckCache, QueryRole,
       StoreRole, LoseCode, Fork, Goto
  <2>. QED
    BY <2>1, <2>2 DEF Carried, From
<1>12. ASSUME NEW r \in Req, CreateUser(r) \/ Ended(r) \/ Throw(r) PROVE Carried'
  <2>1. UNCHANGED <<client, in, pod, bearer, session, since>> /\ (Moves(r) \/ Fails(r))
    BY <1>12, Created, NotCreated, EndedEnds, Thrown DEF Ends, memory, history
  <2>2. \A q \in Req : /\ pc'[q] = "userinfo" => pc[q] = "userinfo"
                       /\ pc'[q] \in Proven => pc[q] \in Proven
    BY <2>1 DEF TypeOK, Proven, Moves, Fails
  <2>. QED
    BY <2>1, <2>2 DEF Carried, From
<1>13. ASSUME NEW e \in Email, SoftDeleteUser(e) PROVE Carried'
  BY <1>2, <1>13 DEF SoftDeleteUser, memory, local
<1>7. ASSUME NEW r \in Req, Reply(r) PROVE Carried'
  BY <1>7
  DEF Carried, TypeOK, Placed, Proven, From, EmailOf, Reply, Goto, memory, history
<1>8. ASSUME NEW p \in Pod, Die(p) PROVE Carried'
  BY <1>8 DEF Carried, TypeOK, Proven, From, Die, Answered, local, history
<1>9. ASSUME NEW p \in Pod, Boot(p) PROVE Carried'
  BY <1>2, <1>9 DEF Boot, local
<1>10. ASSUME NEW id \in RoleId, SoftDelete(id) \/ DropRole(id) PROVE Carried'
  BY <1>2, <1>10 DEF SoftDelete, DropRole, memory, local
<1>11. ASSUME NEW n \in RoleName, NEW id \in RoleId \cup {None}, NameRole(n, id) PROVE Carried'
  BY <1>2, <1>11 DEF NameRole, memory, local
<1>. QED
  BY <1>2, <1>3, <1>4, <1>5, <1>6, <1>7, <1>8, <1>9, <1>10, <1>11, <1>12, <1>13
  DEF Next, Step, Ended, Quiescent, vars, memory, local, history

LEMMA NewAccount ==
    ASSUME TypeOK, [Next]_vars, NEW e \in Email, account[e] = None, account'[e] # None
    PROVE  \E r \in Req : /\ CreateUser(r) /\ Free(r) /\ EmailOf(r) = e
                          /\ account'[e] = [by |-> r, role |-> found[r]]
<1>1. account' # account
  OBVIOUS
<1>2. PICK r \in Req : CreateUser(r)
  BY <1>1 DEF Next, Step, Quiescent, Start, Validate, ExchangeCode, UserInfo, FindUser,
     CheckCache, QueryRole, StoreRole, CreateProfile, DeleteCode, Reply, Throw, LoseCode,
     Boot, Die, NameRole, SoftDelete, DropRole, SoftDeleteUser, rows, vars
<1>3. Free(r)
  BY <1>1, <1>2, NotCreated DEF rows
<1>4. account' = [account EXCEPT ![EmailOf(r)] = [by |-> r, role |-> found[r]]]
  BY <1>2, <1>3, Created
<1>5. EmailOf(r) = e /\ account'[e] = [by |-> r, role |-> found[r]]
  BY <1>1, <1>4 DEF TypeOK
<1>. QED
  BY <1>2, <1>3, <1>5

\* The steps of requests, by whom they move.
LEMMA Others ==
    ASSUME TypeOK, NEW r \in Req, NEW q \in Req, q # r,
           Start(q) \/ Step(q) \/ Throw(q) \/ LoseCode(q)
    PROVE  pc'[r] = pc[r] /\ calls'[r] = calls[r] /\ found'[r] = found[r]
<1>1. CASE Start(q)
  BY <1>1, Begun DEF TypeOK
<1>2. CASE Validate(q) \/ UserInfo(q) \/ FindUser(q) \/ Reply(q) \/ LoseCode(q)
  BY <1>2 DEF TypeOK, Validate, UserInfo, FindUser, Reply, LoseCode, Goto, local
<1>3. CASE ExchangeCode(q)
  BY <1>3, Accepted, Rejected DEF TypeOK, local
<1>4. CASE CheckCache(q) \/ QueryRole(q) \/ StoreRole(q)
  BY <1>4 DEF TypeOK, CheckCache, QueryRole, StoreRole, Fork, Goto
<1>5. CASE CreateUser(q) \/ Ended(q) \/ Throw(q)
  <2>1. found' = found /\ (Moves(q) \/ Fails(q))
    BY <1>5, Created, NotCreated, EndedEnds, Thrown DEF Ends
  <2>. QED
    BY <2>1 DEF Moves, Fails, TypeOK
<1>. QED
  BY <1>1, <1>2, <1>3, <1>4, <1>5 DEF Step, Ended

\* What administrators do to rows concerns no request.
Administered ==
    \/ \E id \in RoleId : SoftDelete(id) \/ DropRole(id)
    \/ \E e \in Email : SoftDeleteUser(e)
    \/ \E n \in RoleName, id \in RoleId \cup {None} : NameRole(n, id)

LEMMA Administrators == Administered => UNCHANGED <<account, lost, memory, pc, local>>
BY DEF Administered, SoftDelete, DropRole, NameRole, SoftDeleteUser, rows

LEMMA NextMade == TypeOK /\ Placed /\ Current /\ Made /\ [Next]_vars => Made'
<1>. SUFFICES ASSUME TypeOK, Placed, Current, Made, [Next]_vars, NEW e \in Email, account'[e] # None
              PROVE  /\ pc'[account'[e].by] \in
                            {"create", "reply", "ok", "refused", "crashed"}
                     /\ "user" \notin calls'[account'[e].by]
  BY DEF Made
<1>1. CASE account[e] = None
  <2>1. PICK r \in Req : CreateUser(r) /\ Free(r) /\ account'[e] = [by |-> r, role |-> found[r]]
    BY <1>1, NewAccount
  <2>2. account'[e].by = r
    BY <2>1
  <2>6. Moves(r) /\ "user" \in calls[r]
    BY <2>1, Created
  <2>3. calls'[r] = IF in[r].op = "google" THEN calls[r] \ {"user"}
                    ELSE (calls[r] \ {"user"}) \cup {"profile"}
    BY <2>1, Created
  <2>4. pc[r] \in {"create", "refused"}
    BY <2>6 DEF Placed
  <2>5. pc'[r] \in {"create", "refused", "reply"}
    BY <2>4, <2>6 DEF Moves
  <2>. QED
    BY <2>2, <2>3, <2>5
<1>2. CASE account[e] # None
  <2> DEFINE m == account[e].by
             Past == {"create", "reply", "ok", "refused", "crashed"}
  <2>1. m \in Req /\ pc[m] \in Past /\ "user" \notin calls[m] /\ account'[e].by = m
    <3>1. account[e] \in [by : Req, role : RoleId]
      BY <1>2 DEF TypeOK
    <3>2. pc[m] \in Past /\ "user" \notin calls[m]
      BY <1>2 DEF Made
    <3>3. account'[e] = account[e]
      BY <1>2, NextLasting DEF Lasting
    <3>. QED
      BY <3>1, <3>2, <3>3
  <2>. SUFFICES pc'[m] \in Past /\ "user" \notin calls'[m]
    BY <2>1
  <2>. HIDE DEF m
  <2>2. ASSUME NEW q \in Req, q # m, Start(q) \/ Step(q) \/ Throw(q) \/ LoseCode(q)
        PROVE  pc'[m] \in Past /\ "user" \notin calls'[m]
    BY <2>1, <2>2, Others
  <2>3. CASE Start(m)
    BY <2>1, <2>3, Begun
  <2>4. CASE \/ Validate(m) \/ UserInfo(m) \/ FindUser(m) \/ CheckCache(m) \/ QueryRole(m)
             \/ StoreRole(m) \/ ExchangeCode(m)
    BY <2>1, <2>4
    DEF Validate, UserInfo, FindUser, CheckCache, QueryRole, StoreRole, ExchangeCode
  <2>5. CASE CreateUser(m)
    BY <2>1, <2>5 DEF CreateUser
  <2>6. CASE Ended(m) \/ Throw(m)
    <3>1. Ends(m) \/ Fails(m)
      BY <2>1, <2>6, EndedEnds, Thrown
    <3>2. CASE Ends(m)
      BY <2>1, <3>2 DEF Ends, Moves, TypeOK
    <3>3. CASE Fails(m)
      BY <2>1, <3>3 DEF Fails, TypeOK
    <3>. QED
      BY <3>1, <3>2, <3>3
  <2>7. CASE Reply(m) \/ LoseCode(m)
    BY <2>1, <2>7 DEF Reply, LoseCode, Goto, TypeOK, local
  <2>8. ASSUME NEW p \in Pod, Boot(p) \/ Die(p)
        PROVE  pc'[m] \in Past /\ "user" \notin calls'[m]
    BY <2>1, <2>8 DEF Boot, Die, local
  <2>9. CASE Administered
    BY <2>1, <2>9, Administrators DEF local
  <2>10. CASE UNCHANGED vars
    BY <2>1, <2>10 DEF vars, local
  <2>. QED
    BY <2>1, <2>2, <2>3, <2>4, <2>5, <2>6, <2>7, <2>8, <2>9, <2>10
    DEF Next, Step, Ended, Administered, Quiescent
<1>. QED
  BY <1>1, <1>2

\* RoleWasCurrent, of one account.
Granted(e) ==
    account[e] # None =>
        account[e].role \in seen[pod[account[e].by]][WantedRole(account[e].by)]

LEMMA Holding ==
    ASSUME TypeOK, [Next]_vars, NEW r \in Req, Holds(r)'
    PROVE  \/ Holds(r) /\ found'[r] = found[r]
           \/ CheckCache(r) \/ QueryRole(r)
<1>1. CASE UNCHANGED vars
  BY <1>1 DEF vars, local, Holds
<1>2. ASSUME NEW q \in Req, q # r, Start(q) \/ Step(q) \/ Throw(q) \/ LoseCode(q)
      PROVE  Holds(r) /\ found'[r] = found[r]
  BY <1>2, Others DEF Holds
<1>3. CASE Start(r)
  BY <1>3, Begun DEF TypeOK, Holds
<1>4. CASE Validate(r) \/ UserInfo(r) \/ FindUser(r) \/ Reply(r) \/ LoseCode(r)
  BY <1>4 DEF TypeOK, Holds, Validate, UserInfo, FindUser, Reply, LoseCode, Goto, local
<1>5. CASE ExchangeCode(r)
  BY <1>5, Accepted, Rejected DEF TypeOK, Holds, local
<1>6. CASE StoreRole(r)
  BY <1>6 DEF Holds, StoreRole
<1>7. CASE CreateUser(r) \/ Ended(r) \/ Throw(r)
  <2>1. found' = found /\ ((Moves(r) /\ calls[r] # {}) \/ Fails(r))
    BY <1>7, Created, NotCreated, EndedEnds, Thrown DEF Ends
  <2>. QED
    BY <2>1 DEF Holds, Fails, TypeOK
<1>8. ASSUME NEW p \in Pod, Boot(p) \/ Die(p)
      PROVE  Holds(r) /\ found'[r] = found[r]
  BY <1>8 DEF TypeOK, Holds, Boot, Die, local
<1>9. CASE Administered
  BY <1>9, Administrators DEF Holds, local
<1>. QED
  BY <1>1, <1>2, <1>3, <1>4, <1>5, <1>6, <1>7, <1>8, <1>9
  DEF Next, Step, Ended, Administered, Quiescent

\* Current, of one name on one pod.
Sees(p, n) ==
    /\ phase[p] = "down" => seen[p][n] = {} /\ cached[p][n] = None
    /\ phase[p] = "up" => RoleRow(n) \in seen[p][n]
    /\ cached[p][n] # None => cached[p][n] \in seen[p][n]

LEMMA NextCurrent == TypeOK /\ Placed /\ Carried /\ Made /\ Current /\ [Next]_vars => Current'
<1>. SUFFICES ASSUME TypeOK, Placed, Carried, Made, Current, [Next]_vars PROVE Current'
  OBVIOUS
<1>0. Lasting
  BY NextLasting
<1>10. \A r \in Req : pc[r] # "idle" =>
          /\ pc'[r] # "idle" /\ in'[r] = in[r] /\ pod'[r] = pod[r] /\ pod[r] \in Pod
          /\ \A n \in RoleName : seen[pod[r]][n] \subseteq seen'[pod[r]][n]
  BY <1>0, PodOf DEF Lasting
\* The accounts that exist stay as they are; a new one has the role in hand.
<1>1. RoleWasCurrent'
  <2>1. SUFFICES ASSUME NEW e \in Email PROVE Granted(e)'
    BY DEF RoleWasCurrent, Granted
  <2>3. CASE account[e] # None
    <3>1. account[e] \in [by : Req, role : RoleId]
      BY <2>3 DEF TypeOK
    <3>2. Granted(e) /\ pc[account[e].by] # "idle" /\ account'[e] = account[e]
      BY <1>0, <2>3 DEF Current, RoleWasCurrent, Granted, Made, Lasting
    <3>. QED
      BY <1>10, <2>3, <3>1, <3>2 DEF Granted, WantedRole, RoleName
  <2>4. CASE account[e] = None /\ account'[e] # None
    <3>1. PICK r \in Req : CreateUser(r) /\ account'[e] = [by |-> r, role |-> found[r]]
      BY <2>4, NewAccount
    <3>2. account'[e].by = r /\ account'[e].role = found[r]
      BY <3>1
    <3>3. calls[r] # {}
      BY <3>1 DEF CreateUser
    <3>4. pc[r] # "idle" /\ found[r] \in seen[pod[r]][WantedRole(r)]
      BY <3>3 DEF Current, Placed, Holds
    <3>. QED
      BY <1>10, <3>2, <3>4 DEF Granted, WantedRole, RoleName
  <2>5. CASE account'[e] = None
    BY <2>5 DEF Granted
  <2>. QED
    BY <2>3, <2>4, <2>5
\* What a pod sees and keeps.
<1>2. ASSUME NEW p \in Pod, NEW n \in RoleName PROVE Sees(p, n)'
  <2>0. Sees(p, n)
    BY DEF Sees, Current
  <2>1. CASE UNCHANGED <<named, live, phase, seen, cached>>
    BY <2>0, <2>1 DEF Sees, RoleRow
  <2>2. ASSUME NEW r \in Req, StoreRole(r) PROVE Sees(p, n)'
    <3>1. /\ cached' = [cached EXCEPT ![pod[r]][WantedRole(r)] = found[r]]
          /\ UNCHANGED <<named, live, phase, seen>> /\ pc[r] = "store"
      BY <2>2 DEF StoreRole, Field, Kept, roles, history
    <3>2. pod[r] \in Pod /\ WantedRole(r) \in RoleName /\ phase[pod[r]] = "up"
          /\ found[r] \in seen[pod[r]][WantedRole(r)]
      BY <3>1, PodOf DEF Current, Placed, Holds, Answered, WantedRole, RoleName
    <3>. QED
      BY <2>0, <3>1, <3>2 DEF Sees, TypeOK, RoleRow
  <2>3. ASSUME NEW q \in Pod, Boot(q) PROVE Sees(p, n)'
    BY <2>0, <2>3 DEF Sees, Boot, TypeOK, RoleRow, roles
  <2>4. ASSUME NEW q \in Pod, Die(q) PROVE Sees(p, n)'
    BY <2>0, <2>4 DEF Sees, Die, TypeOK, RoleRow, roles, history
  <2>5. CASE Edit /\ UNCHANGED <<phase, cached>>
    BY <2>0, <2>5 DEF Edit, Sees, TypeOK, RoleRow
  <2>6. ASSUME NEW r \in Req,
               \/ Start(r) \/ Validate(r) \/ ExchangeCode(r) \/ UserInfo(r) \/ FindUser(r)
               \/ CheckCache(r) \/ QueryRole(r) \/ CreateUser(r) \/ Ended(r) \/ Reply(r)
               \/ Throw(r) \/ LoseCode(r)
        PROVE  UNCHANGED <<named, live, phase, seen, cached>>
    BY <2>6 DEF Start, Validate, ExchangeCode, UserInfo, FindUser, CheckCache, QueryRole,
       CreateUser, Ended, CreateProfile, DeleteCode, Reply, Throw, LoseCode,
       roles, rows, memory, history
  <2>7. CASE Administered
    BY <2>5, <2>7
    DEF Administered, SoftDelete, DropRole, NameRole, SoftDeleteUser, memory
  <2>9. CASE UNCHANGED vars
    BY <2>1, <2>9 DEF vars, roles, rows, memory, history
  <2>. QED
    BY <2>1, <2>2, <2>3, <2>4, <2>6, <2>7, <2>9
    DEF Next, Step, Ended, Administered, Quiescent
\* What a request holds came from the cache or from the table.
<1>3. ASSUME NEW r \in Req, Holds(r)'
      PROVE  found'[r] \in seen'[pod'[r]][WantedRole(r)']
  <2>1. CASE CheckCache(r)
    <3>1. CASE cached[pod[r]][WantedRole(r)] # None
      <4>1. found' = [found EXCEPT ![r] = cached[pod[r]][WantedRole(r)]] /\ pc[r] = "role"
        BY <2>1, <3>1 DEF CheckCache, Field
      <4>2. found'[r] = cached[pod[r]][WantedRole(r)]
        BY <4>1 DEF TypeOK
      <4>3. pod[r] \in Pod /\ WantedRole(r) \in RoleName /\ WantedRole(r)' = WantedRole(r)
            /\ pod'[r] = pod[r]
        BY <1>10, <4>1 DEF WantedRole, RoleName
      <4>4. cached[pod[r]][WantedRole(r)] \in seen[pod[r]][WantedRole(r)]
        BY <3>1, <4>3 DEF Current
      <4>. QED
        BY <1>10, <4>1, <4>2, <4>3, <4>4
    <3>2. CASE cached[pod[r]][WantedRole(r)] = None
      <4>1. pc' = [pc EXCEPT ![r] = "query"] /\ calls' = calls /\ pc[r] = "role"
        BY <2>1, <3>2 DEF CheckCache, Field, Goto
      <4>. QED
        BY <1>3, <4>1 DEF Holds, TypeOK, Placed
    <3>. QED
      BY <3>1, <3>2
  <2>2. CASE QueryRole(r)
    <3>1. pc[r] = "query" /\ found'[r] = RoleRow(WantedRole(r))
      BY <2>2 DEF QueryRole, TypeOK
    <3>2. phase[pod[r]] = "up"
      BY <3>1 DEF Placed, Answered
    <3>. QED
      BY <1>10, <3>1, <3>2 DEF Current, WantedRole, RoleName
  <2>3. CASE Holds(r) /\ found'[r] = found[r]
    <3>1. pc[r] # "idle"
      BY <2>3 DEF Holds, Placed
    <3>. QED
      BY <1>10, <2>3, <3>1 DEF Current, WantedRole, RoleName
  <2>. QED
    BY <1>3, <2>1, <2>2, <2>3, Holding
<1>. QED
  BY <1>1, <1>2, <1>3 DEF Current, Sees

\* Who sets out to make an account: a callback that found none, or a registration.
LEMMA SetsOut ==
    ASSUME TypeOK, Placed, [Next]_vars, NEW r \in Req, pc'[r] \in Making, pc[r] \notin Making
    PROVE  \/ /\ pc[r] = "find" /\ UNCHANGED account
              /\ account[EmailOf(r)] = None \/ r \in unseen'
           \/ in[r].op # "google" /\ pc[r] = "validate"
<1>1. ASSUME NEW q \in Req, q # r, Start(q) \/ Step(q) \/ Throw(q) \/ LoseCode(q) PROVE FALSE
  BY <1>1, Others
<1>2. CASE Start(r)
  BY <1>2, Begun DEF TypeOK, Making
<1>3. CASE Validate(r)
  BY <1>3 DEF Validate, Placed
<1>4. CASE FindUser(r)
  BY <1>4 DEF FindUser, KnownUser, Goto, TypeOK, Making, rows
<1>5. CASE UserInfo(r) \/ Reply(r) \/ LoseCode(r)
  BY <1>5 DEF TypeOK, Making, UserInfo, Reply, LoseCode, Goto
<1>6. CASE CheckCache(r) \/ QueryRole(r) \/ StoreRole(r)
  BY <1>6 DEF Making, CheckCache, QueryRole, StoreRole
<1>7. CASE ExchangeCode(r)
  BY <1>7, Accepted, Rejected DEF TypeOK, Making
<1>8. CASE CreateUser(r) \/ Ended(r) \/ Throw(r)
  <2>1. Moves(r) \/ Fails(r)
    BY <1>8, Created, NotCreated, EndedEnds, Thrown DEF Ends
  <2>. QED
    BY <2>1 DEF Moves, Fails, TypeOK, Making
<1>9. ASSUME NEW p \in Pod, Boot(p) \/ Die(p) PROVE FALSE
  BY <1>9 DEF Boot, Die, TypeOK, Making
<1>10. CASE Administered
  BY <1>10, Administrators
<1>11. CASE UNCHANGED vars
  BY <1>11 DEF vars
<1>. QED
  BY <1>1, <1>2, <1>3, <1>4, <1>5, <1>6, <1>7, <1>8, <1>9, <1>10, <1>11
  DEF Next, Step, Ended, Administered, Quiescent

LEMMA EmailLasts ==
    ASSUME TypeOK, Placed, Carried, Current, [Next]_vars,
           NEW r \in Req, pc[r] \in Proven \ {"userinfo"}
    PROVE  /\ in'[r] = in[r]
           /\ bearer[r] # None => in'[bearer[r]] = in[bearer[r]] /\ bearer'[r] = bearer[r]
           /\ in[r].op = "google" => bearer[r] # None
<1>1. in[r].op = "google" => bearer[r] # None
  BY DEF Placed
<1>2. pc[r] # "idle" /\ in'[r] = in[r]
  BY NextLasting DEF Lasting, Proven
<1>3. bearer[r] # None => in'[bearer[r]] = in[bearer[r]] /\ bearer'[r] = bearer[r]
  <2>1. bearer[r] # None => bearer[r] \in Req /\ pc[bearer[r]] # "idle"
    BY DEF Carried, From, Placed, TypeOK, NoBody
  <2>. QED
    BY <2>1, NextLasting DEF Lasting
<1>. QED
  BY <1>1, <1>2, <1>3

LEMMA NextUnseen ==
    TypeOK /\ Placed /\ Carried /\ Current /\ Unseen /\ [Next]_vars => Unseen'
<1>. SUFFICES ASSUME TypeOK, Placed, Carried, Current, Unseen, [Next]_vars,
                     NEW r \in Req, pc'[r] \in Making, in'[r].op = "google",
                     account'[in'[bearer'[r]].email] # None
              PROVE  r \in unseen'
  BY DEF Unseen, EmailOf
<1>1. pc[r] # "idle"
  BY SetsOut DEF Making
<1>2. in[r].op = "google"
  BY <1>1, NextLasting DEF Lasting
<1>3. pc[r] \in Making \cup {"find"}
  BY <1>2, SetsOut
<1>4. EmailOf(r) = in'[bearer'[r]].email /\ EmailOf(r) \in Email
  BY <1>2, <1>3, EmailLasts DEF EmailOf, Making, Proven, Carried, From, TypeOK, Body, NoBody
<1>5. CASE account[EmailOf(r)] # None
  BY <1>2, <1>3, <1>4, <1>5, SetsOut, NextLasting DEF Unseen, Lasting, Making
<1>6. CASE account[EmailOf(r)] = None
  <2>1. PICK q \in Req : /\ CreateUser(q) /\ Free(q) /\ EmailOf(q) = EmailOf(r)
                         /\ account'[EmailOf(r)] = [by |-> q, role |-> found[q]]
    BY <1>4, <1>6, NewAccount
  <2>2. account' # account
    BY <1>4, <1>6
  <2>3. pc[r] \in Making
    BY <1>2, <2>2, SetsOut
  <2>4. Moves(q) /\ "user" \in calls[q]
    BY <2>1, Created
\* A callback awaits its one call: its own success ends the making.
  <2>5. q # r
    <3>1. CASE q = r
      <4>1. calls[r] = {"user"} /\ pc[r] = "create"
        BY <1>2, <2>4, <3>1 DEF Placed
      <4>2. calls'[r] = {} /\ pc'[r] # "create" /\ pc'[r] \in {"create", "refused", "reply"}
        BY <1>2, <2>1, <2>4, <3>1, <4>1, Created DEF Moves
      <4>. QED
        BY <4>2 DEF Making
    <3>. QED
      BY <3>1
  <2>6. unseen' = unseen \cup {s \in Req \ {q} : pc[s] \in Making /\ EmailOf(s) = EmailOf(q)}
    BY <2>1, Created
  <2>. QED
    BY <2>1, <2>3, <2>5, <2>6
<1>. QED
  BY <1>5, <1>6

\* RefusalHasCause, of one request.
Cause(r) ==
    \/ r \in hit \/ ~in[r].good \/ r \in lost
    \/ bearer[r] # None /\ in[bearer[r]].email = None
    \/ None \in seen[pod[r]][WantedRole(r)] \/ found[r] \in dropped
    \/ IF in[r].op = "google" THEN r \in unseen
       ELSE account[in[r].email] # None /\ account[in[r].email].by # r

LEMMA CauseLasts ==
    ASSUME TypeOK, Placed, Carried, Current, [Next]_vars,
           NEW r \in Req, pc[r] = "refused", Cause(r)
    PROVE  Cause(r)'
<1>1. /\ in'[r] = in[r] /\ pod'[r] = pod[r] /\ found'[r] = found[r] /\ bearer'[r] = bearer[r]
      /\ hit \subseteq hit' /\ unseen \subseteq unseen' /\ dropped \subseteq dropped'
      /\ lost \subseteq lost'
  BY NextLasting DEF Lasting, Answered
<1>2. bearer[r] # None => in'[bearer[r]] = in[bearer[r]]
  BY NextLasting, IdentityAssumption DEF Lasting, Placed, Carried, TypeOK, From, NoBody
<1>3. seen[pod[r]][WantedRole(r)] \subseteq seen'[pod[r]][WantedRole(r)]
  BY NextLasting, PodOf DEF Lasting, WantedRole, RoleName
<1>4. in[r].op # "google" /\ account[in[r].email] # None
      => account'[in[r].email] = account[in[r].email]
  BY NextLasting DEF Lasting, TypeOK, Placed, Body, NoBody
<1>. QED
  BY <1>1, <1>2, <1>3, <1>4 DEF Cause, WantedRole

LEMMA NewCause ==
    ASSUME TypeOK, Placed, Carried, Made, Current, Unseen, [Next]_vars,
           NEW r \in Req, pc'[r] = "refused", pc[r] # "refused"
    PROVE  Cause(r)'
<1>1. CASE Validate(r)
  BY <1>1 DEF Validate, Goto, TypeOK, Cause, local
<1>2. CASE ExchangeCode(r)
  BY <1>2, Accepted, Rejected DEF TypeOK, Cause, local
<1>3. CASE UserInfo(r)
  <2>1. client[pod[r]] # None /\ pod[r] \in Pod
    BY <1>3, PodOf, IdentityAssumption DEF UserInfo, TypeOK, Carried
  <2>2. bearer'[r] = client[pod[r]] /\ in'[bearer'[r]].email = None
    BY <1>3 DEF UserInfo, Goto, TypeOK
  <2>. QED
    BY <2>1, <2>2 DEF Cause
<1>4. CASE QueryRole(r)
  <2>1. phase[pod[r]] = "up" /\ pod[r] \in Pod /\ RoleRow(WantedRole(r)) = None
    BY <1>4, PodOf DEF QueryRole, Goto, TypeOK, Placed, Answered
  <2>. QED
    BY <1>4, <2>1 DEF QueryRole, Current, Cause, WantedRole, RoleName, history
\* The address is taken, or the role row is gone.
<1>5. CASE CreateUser(r)
  <2>1. ~Free(r)
    BY <1>5, Created
  <2>2. "user" \in calls[r] /\ Moves(r)
        /\ UNCHANGED <<account, in, pod, bearer, found, unseen, dropped>>
    BY <1>5, <2>1, NotCreated DEF Ends, rows, history, roles
  <2>3. pc[r] = "create" /\ EmailOf(r) \in Email
    BY <2>2, MakerHolds DEF Moves
  <2>4. CASE account[EmailOf(r)] # None
    <3>1. account[EmailOf(r)].by # r
      BY <2>2, <2>3, <2>4 DEF Made
    <3>2. in[r].op = "google" => r \in unseen
      BY <2>3, <2>4 DEF Unseen, Making
    <3>. QED
      BY <2>2, <2>4, <3>1, <3>2 DEF Cause, EmailOf
  <2>. QED
    BY <2>1, <2>2, <2>4 DEF Free, Cause
<1>6. CASE Ended(r)
  BY <1>6, EndedEnds DEF Cause, rows
<1>7. CASE Throw(r)
  BY <1>7, Thrown DEF Cause
<1>8. CASE Start(r)
  BY <1>8, Begun DEF TypeOK
<1>9. CASE FindUser(r) \/ Reply(r) \/ LoseCode(r)
  BY <1>9 DEF FindUser, Reply, LoseCode, Goto, TypeOK
<1>10. CASE CheckCache(r) \/ StoreRole(r)
  BY <1>10, Forked DEF CheckCache, StoreRole, Goto, TypeOK
<1>11. ASSUME NEW q \in Req, q # r, Start(q) \/ Step(q) \/ Throw(q) \/ LoseCode(q) PROVE FALSE
  BY <1>11, Others
<1>12. ASSUME NEW p \in Pod, Boot(p) \/ Die(p) PROVE FALSE
  BY <1>12 DEF Boot, Die, TypeOK
<1>13. CASE Administered
  BY <1>13, Administrators
<1>14. CASE UNCHANGED vars
  BY <1>14 DEF vars
<1>. QED
  BY <1>1, <1>2, <1>3, <1>4, <1>5, <1>6, <1>7, <1>8, <1>9, <1>10, <1>11, <1>12, <1>13, <1>14
  DEF Next, Step, Ended, Administered, Quiescent

\* The inductive invariant.
IInv == TypeOK /\ Placed /\ Carried /\ Made /\ Current /\ Unseen /\ RefusalHasCause

LEMMA NextRefusal == IInv /\ [Next]_vars => RefusalHasCause'
<1>. SUFFICES ASSUME IInv, [Next]_vars, NEW r \in Req, pc'[r] = "refused" PROVE Cause(r)'
  BY DEF RefusalHasCause, Cause
<1>1. CASE pc[r] = "refused"
  BY <1>1, CauseLasts DEF IInv, RefusalHasCause, Cause
<1>2. CASE pc[r] # "refused"
  BY <1>2, NewCause DEF IInv
<1>. QED
  BY <1>1, <1>2

LEMMA Invariant == Spec => []IInv
<1>1. Init => IInv
  BY InitType, InitInv DEF IInv, RefusalHasCause, Init
<1>2. IInv /\ [Next]_vars => IInv'
  BY NextType, NextPlaced, NextCarried, NextMade, NextCurrent, NextUnseen, NextRefusal
  DEF IInv
<1>. QED
  BY <1>1, <1>2, PTL DEF Spec

(* Every table, every pod's memory and every request keeps its type.       *)
THEOREM TypeCorrect == Spec => []TypeOK
<1>1. IInv => TypeOK
  BY DEF IInv
<1>. QED
  BY <1>1, Invariant, PTL

(* However callbacks share a client, and whenever the library reads it,    *)
(* a caller becomes somebody else only by overlapping that somebody on     *)
(* the same pod, and nobody whose code was refused becomes anyone.         *)
THEOREM OwnAccount == Spec => []OwnAccountUnlessOverlap
<1>1. IInv => OwnAccountUnlessOverlap
  <2>. SUFFICES ASSUME IInv, NEW r \in Req, session[r] # None
                PROVE  /\ in[r].good
                       /\ \E q \in since[r] \cup {r} :
                            /\ in[q].op = "google" /\ in[q].good
                            /\ pod[q] = pod[r] /\ in[q].email = session[r]
    BY DEF OwnAccountUnlessOverlap
  <2>1. bearer[r] # None /\ session[r] = in[bearer[r]].email
    BY DEF IInv, Carried
  <2>2. in[r].good /\ bearer[r] \in since[r] \cup {r} /\ From(bearer[r], pod[r])
    BY <2>1 DEF IInv, Placed, Carried
  <2>. QED
    BY <2>1, <2>2 DEF From
<1>. QED
  BY <1>1, Invariant, PTL

(* Whatever administrators do to the role rows, and however stale a pod's  *)
(* cache is, an account's role had the right name since the pod booted.    *)
THEOREM RoleOnceCurrent == Spec => []RoleWasCurrent
<1>1. IInv => RoleWasCurrent
  BY DEF IInv, Current
<1>. QED
  BY <1>1, Invariant, PTL

(* Registrations and callbacks are refused only for a cause.               *)
THEOREM RefusalCaused == Spec => []RefusalHasCause
<1>1. IInv => RefusalHasCause
  BY DEF IInv
<1>. QED
  BY <1>1, Invariant, PTL
=============================================================================
