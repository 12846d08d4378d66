---------------------------- MODULE Guards_proofs ----------------------------
(***************************************************************************)
(* What the guard loops decide, for any list of guards, any roles and any  *)
(* number of concurrent edits of them.                                     *)
(***************************************************************************)
EXTENDS Guards, TLAPS

(* A call that has not arrived is blank; one inside the bearer guard is at *)
(* a bearer position; an identity is attached before a role is looked up.  *)
Placed(r) ==
    /\ pc[r] = "idle" => at[r] = 1 /\ lastError[r] = None /\ user[r] = None
    /\ pc[r] \in {"verify", "roles", "permissions"} =>
            at[r] \in DOMAIN Types(r) /\ Types(r)[at[r]] = "Bearer"
    /\ pc[r] \in {"roles", "permissions"} => user[r] # None
    /\ lastError[r] = "forbidden" => user[r] # None

(* The history variables bracket the tables while the call is decided, and *)
(* the roles found lie between what was steady and what was seen.          *)
Bracketed(r) ==
    /\ Deciding(r) =>
        /\ live \subseteq seenLive[r]
        /\ GrantedTo(route[r]) \subseteq seenGranted[r]
        /\ steady[r] \subseteq live \cap GrantedTo(route[r])
    /\ pc[r] = "permissions" =>
        /\ found[r] \subseteq cred[r].roles \cap seenLive[r]
        /\ cred[r].roles \cap steady[r] \subseteq found[r]

\* The calls whose refusals are accounted for.
Countable(r) == cred[r].kind # "key"

(* Every guard the loop has left behind passed (and) or had cause (or).    *)
Behind(r) ==
    Deciding(r) => \A i \in 1 .. (at[r] - 1) :
        /\ i \in DOMAIN Types(r)
        /\ IsAnd(r) => Vouched(r, Types(r)[i])
        /\ ~IsAnd(r) /\ Countable(r) => Doubted(r, Types(r)[i])

Admitted(r) ==
    pc[r] = "admitted" =>
        IF IsAnd(r) THEN \A i \in DOMAIN Types(r) : Vouched(r, Types(r)[i])
        ELSE \E i \in DOMAIN Types(r) : Vouched(r, Types(r)[i])

Refused(r) ==
    pc[r] \in {"unauthorized", "forbidden"} /\ Countable(r) =>
        IF IsAnd(r) THEN \E i \in DOMAIN Types(r) : Doubted(r, Types(r)[i])
        ELSE \A i \in DOMAIN Types(r) : Doubted(r, Types(r)[i])

Authentic(r) ==
    /\ pc[r] = "forbidden" => user[r] # None
    /\ user[r] # None => user[r] = cred[r] /\ cred[r].kind = "token"

CallInv(r) == /\ Placed(r) /\ Bracketed(r) /\ Behind(r)
              /\ Admitted(r) /\ Refused(r) /\ Authentic(r)

IInv == TypeOK /\ \A r \in Req : CallInv(r)

(* The marking of a route is a finite list of guard types.                 *)
LEMMA MarkingType ==
    ASSUME NEW w \in Route
    PROVE  AuthTypeValue(w) \in Payload
<1>1. CASE Mark[w] = None
  <2>1. <<"Bearer">> \in Seq(AuthType)
    BY DEF AuthType
  <2> QED BY <1>1, <2>1 DEF AuthTypeValue, Payload
<1>2. CASE Mark[w] # None
  BY <1>2, GuardsAssumption DEF AuthTypeValue
<1> QED BY <1>1, <1>2

LEMMA TypesType ==
    ASSUME TypeOK, NEW r \in Req, pc[r] # "idle"
    PROVE  /\ route[r] \in Route
           /\ Types(r) \in Seq(AuthType)
           /\ Len(Types(r)) \in Nat
           /\ DOMAIN Types(r) = 1 .. Len(Types(r))
<1>1. route[r] \in Route
  BY DEF TypeOK
<1>2. AuthTypeValue(route[r]) \in Payload
  BY <1>1, MarkingType
<1> QED BY <1>1, <1>2 DEF Types, Payload

(* What a step that is not the arrival of r leaves r with.                 *)
Stays(r) ==
    /\ route'[r] = route[r] /\ cred'[r] = cred[r]
    /\ expired \subseteq expired' /\ (user[r] # None => user'[r] # None)
    /\ seenLive[r] \subseteq seenLive'[r]
    /\ seenGranted[r] \subseteq seenGranted'[r]
    /\ steady'[r] \subseteq steady[r]

LEMMA Stable ==
    ASSUME NEW r \in Req, Stays(r), NEW t
    PROVE  /\ Types(r)' = Types(r) /\ IsAnd(r)' = IsAnd(r)
           /\ Vouched(r, t) => Vouched(r, t)'
           /\ Doubted(r, t) => Doubted(r, t)'
BY DEF Stays, Types, IsAnd, AuthTypeValue, Vouched, Doubted

LEMMA InitIInv == Init => IInv
<1> SUFFICES ASSUME Init PROVE IInv
  OBVIOUS
<1>1. TypeOK
  BY GuardsAssumption DEF Init, TypeOK, FirstGuard, Steps, Credential, NoCredential
<1>2. ASSUME NEW r \in Req
      PROVE  CallInv(r)
  BY GuardsAssumption DEF Init, CallInv, Placed, Bracketed, Behind, Admitted, Refused,
     Authentic, Deciding, FirstGuard
<1> QED BY <1>1, <1>2 DEF IInv

(* A guard that passes for a reason.                                       *)
LEMMA PassedKeeps ==
    ASSUME TypeOK, NEW r \in Req, CallInv(r), Deciding(r), at[r] \in DOMAIN Types(r),
           Vouched(r, Types(r)[at[r]]), Passed(r),
           UNCHANGED <<tables, request, user, found, history>>
    PROVE  TypeOK' /\ CallInv(r)'
<1> USE DEF tables, request, history
<1>1. TypeOK'
  BY DEF TypeOK, Passed, Goto, Deciding, Decided, Steps
<1>2. Stays(r)
  BY DEF Stays
<1>3. /\ Types(r)' = Types(r) /\ IsAnd(r)' = IsAnd(r) /\ Countable(r)' = Countable(r)
      /\ \A i \in DOMAIN Types(r) :
            /\ Vouched(r, Types(r)[i]) => Vouched(r, Types(r)[i])'
            /\ Doubted(r, Types(r)[i]) => Doubted(r, Types(r)[i])'
  BY <1>2, Stable DEF Countable, Stays
<1>4. at[r] \in Nat /\ pc \in [Req -> Steps] /\ at \in [Req -> Nat \ {0}]
  BY DEF TypeOK
<1>5. CASE IsAnd(r)
  <2>1. pc'[r] = "next" /\ at'[r] = at[r] + 1
    BY <1>4, <1>5 DEF Passed, Goto
  <2>2. Behind(r)'
    BY <1>3, <1>4, <1>5, <2>1 DEF CallInv, Behind, Deciding, Decided
  <2> QED
    BY <1>1, <2>1, <2>2 DEF CallInv, Placed, Bracketed, Admitted, Refused, Authentic,
       Deciding, Decided, Passed, GrantedTo
<1>6. CASE ~IsAnd(r)
  <2>1. pc'[r] = "admitted" /\ at'[r] = at[r]
    BY <1>4, <1>6 DEF Passed, Goto
  <2>2. Admitted(r)'
    BY <1>3, <1>6, <2>1 DEF Admitted
  <2> QED
    BY <1>1, <2>1, <2>2 DEF CallInv, Placed, Bracketed, Behind, Refused, Authentic,
       Deciding, Decided, Passed
<1> QED BY <1>1, <1>5, <1>6

(* A guard that throws for a reason.                                       *)
LEMMA FailedKeeps ==
    ASSUME TypeOK, NEW r \in Req, CallInv(r), Deciding(r), at[r] \in DOMAIN Types(r),
           Countable(r) => Doubted(r, Types(r)[at[r]]),
           NEW e \in {"unauthorized", "forbidden"}, e = "forbidden" => user[r] # None,
           Failed(r, e),
           UNCHANGED <<tables, request, user, found, history>>
    PROVE  TypeOK' /\ CallInv(r)'
<1> USE DEF tables, request, history
<1>1. TypeOK'
  BY DEF TypeOK, Failed, Goto, Deciding, Decided, Steps
<1>2. Stays(r)
  BY DEF Stays
<1>3. /\ Types(r)' = Types(r) /\ IsAnd(r)' = IsAnd(r) /\ Countable(r)' = Countable(r)
      /\ \A i \in DOMAIN Types(r) :
            /\ Vouched(r, Types(r)[i]) => Vouched(r, Types(r)[i])'
            /\ Doubted(r, Types(r)[i]) => Doubted(r, Types(r)[i])'
  BY <1>2, Stable DEF Countable, Stays
<1>4. /\ at[r] \in Nat /\ pc \in [Req -> Steps] /\ at \in [Req -> Nat \ {0}]
      /\ lastError \in [Req -> {"unauthorized", "forbidden", None}]
  BY DEF TypeOK
<1>5. CASE IsAnd(r)
  <2>1. pc'[r] = e /\ at'[r] = at[r] /\ lastError'[r] = lastError[r]
    BY <1>4, <1>5 DEF Failed, Goto
  <2>2. Refused(r)'
    BY <1>3, <1>5, <2>1 DEF Refused
  <2> QED
    BY <1>1, <2>1, <2>2 DEF CallInv, Placed, Bracketed, Behind, Admitted, Authentic,
       Deciding, Decided
<1>6. CASE ~IsAnd(r)
  <2>1. pc'[r] = "next" /\ at'[r] = at[r] + 1 /\ lastError'[r] = e
    BY <1>4, <1>6 DEF Failed, Goto
  <2>2. Behind(r)'
    BY <1>3, <1>4, <1>6, <2>1 DEF CallInv, Behind, Deciding, Decided
  <2> QED
    BY <1>1, <2>1, <2>2 DEF CallInv, Placed, Bracketed, Admitted, Refused, Authentic,
       Deciding, Decided, GrantedTo
<1> QED BY <1>1, <1>5, <1>6

(* A call the step does not touch.                                         *)
LEMMA Untouched ==
    ASSUME NEW r \in Req, CallInv(r), Stays(r),
           pc'[r] = pc[r], at'[r] = at[r], lastError'[r] = lastError[r],
           user'[r] = user[r], found'[r] = found[r],
           Bracketed(r)'
    PROVE  CallInv(r)'
<1>1. /\ Types(r)' = Types(r) /\ IsAnd(r)' = IsAnd(r) /\ Countable(r)' = Countable(r)
      /\ \A i \in DOMAIN Types(r) :
            /\ Vouched(r, Types(r)[i]) => Vouched(r, Types(r)[i])'
            /\ Doubted(r, Types(r)[i]) => Doubted(r, Types(r)[i])'
  BY Stable DEF Countable, Stays
<1>2. Placed(r)' /\ Authentic(r)'
  BY <1>1 DEF CallInv, Placed, Authentic, Stays
<1>3. Behind(r)'
  BY <1>1 DEF CallInv, Behind, Deciding, Decided
<1>4. Admitted(r)' /\ Refused(r)'
  BY <1>1 DEF CallInv, Admitted, Refused
<1> QED BY <1>2, <1>3, <1>4 DEF CallInv

(* A step of r alone leaves the other calls as they were.                  *)
LEMMA OthersUntouched ==
    ASSUME NEW r \in Req, NEW q \in Req, q # r, CallInv(q),
           pc'[q] = pc[q], at'[q] = at[q], lastError'[q] = lastError[q],
           user'[q] = user[q], found'[q] = found[q],
           route'[q] = route[q], cred'[q] = cred[q],
           seenLive'[q] = seenLive[q], seenGranted'[q] = seenGranted[q],
           steady'[q] = steady[q], UNCHANGED tables
    PROVE  CallInv(q)'
<1>1. Stays(q)
  BY DEF Stays, tables
<1>2. Bracketed(q)'
  BY DEF CallInv, Bracketed, Deciding, Decided, GrantedTo, tables
<1> QED BY <1>1, <1>2, Untouched

(* A step that moves r inside the bearer guard, with nothing decided.      *)
LEMMA MovedKeeps ==
    ASSUME TypeOK, NEW r \in Req, CallInv(r), Deciding(r), Deciding(r)',
           UNCHANGED <<tables, request, at, lastError, history>>,
           user[r] # None => user'[r] # None, Placed(r)', Authentic(r)', Bracketed(r)'
    PROVE  CallInv(r)'
<1> USE DEF tables, request, history
<1>1. Stays(r)
  BY DEF Stays
<1>2. /\ Types(r)' = Types(r) /\ IsAnd(r)' = IsAnd(r) /\ Countable(r)' = Countable(r)
      /\ \A i \in DOMAIN Types(r) :
            /\ Vouched(r, Types(r)[i]) => Vouched(r, Types(r)[i])'
            /\ Doubted(r, Types(r)[i]) => Doubted(r, Types(r)[i])'
  BY <1>1, Stable DEF Countable, Stays
<1>3. Behind(r)'
  BY <1>2 DEF CallInv, Behind
<1>4. Admitted(r)' /\ Refused(r)'
  BY DEF Admitted, Refused, Deciding, Decided
<1> QED BY <1>3, <1>4 DEF CallInv

LEMMA StepIInv == IInv /\ [Next]_vars => IInv'
<1> SUFFICES ASSUME IInv, [Next]_vars PROVE IInv'
  OBVIOUS
<1> USE DEF IInv
<1> DEFINE Kept == TypeOK' /\ \A q \in Req : CallInv(q)'
<1>1. ASSUME NEW r \in Req, Arrive(r) PROVE Kept
  <2>1. PICK w \in Route, c \in Credential :
            /\ route' = [route EXCEPT ![r] = w]
            /\ cred' = [cred EXCEPT ![r] = c]
            /\ seenGranted' = [seenGranted EXCEPT ![r] = GrantedTo(w)]
            /\ steady' = [steady EXCEPT ![r] = live \cap GrantedTo(w)]
    BY <1>1 DEF Arrive
  <2>2. /\ pc[r] = "idle" /\ pc' = [pc EXCEPT ![r] = "next"]
        /\ seenLive' = [seenLive EXCEPT ![r] = live]
        /\ UNCHANGED <<tables, at, lastError, user, found>>
    BY <1>1 DEF Arrive, Goto
  <2>3. TypeOK'
    <3>1. GrantedTo(w) \subseteq Role
      BY DEF GrantedTo
    <3>2. w # None
      BY GuardsAssumption
    <3> QED BY <2>1, <2>2, <3>1, <3>2 DEF TypeOK, Steps, tables
  <2>4. CallInv(r)'
    <3>1. /\ pc'[r] = "next" /\ route'[r] = w /\ seenLive'[r] = live
          /\ seenGranted'[r] = GrantedTo(w) /\ steady'[r] = live \cap GrantedTo(w)
      BY <2>1, <2>2 DEF TypeOK
    <3>2. at'[r] = 1 /\ lastError'[r] = None /\ user'[r] = None
      BY <2>2 DEF CallInv, Placed
    <3>3. Placed(r)' /\ Bracketed(r)' /\ Behind(r)'
      BY <2>2, <3>1, <3>2, GuardsAssumption
         DEF Placed, Bracketed, Behind, Deciding, Decided, GrantedTo, tables
    <3>4. Admitted(r)' /\ Refused(r)' /\ Authentic(r)'
      BY <3>1, <3>2 DEF Admitted, Refused, Authentic
    <3> QED BY <3>3, <3>4 DEF CallInv
  <2>5. ASSUME NEW q \in Req, q # r PROVE CallInv(q)'
    <3>1. /\ pc'[q] = pc[q] /\ at'[q] = at[q] /\ lastError'[q] = lastError[q]
          /\ user'[q] = user[q] /\ found'[q] = found[q]
          /\ route'[q] = route[q] /\ cred'[q] = cred[q]
          /\ seenLive'[q] = seenLive[q] /\ seenGranted'[q] = seenGranted[q]
          /\ steady'[q] = steady[q]
      BY <2>1, <2>2, <2>5 DEF TypeOK
    <3> QED BY <2>2, <2>5, <3>1, OthersUntouched DEF tables
  <2> QED BY <2>3, <2>4, <2>5
<1>2. ASSUME NEW r \in Req, Step(r) \/ Throw(r) PROVE Kept
  <2>1. UNCHANGED <<tables, request, history>>
    BY <1>2 DEF Step, Exhausted, PublicGuard, ApiKeyGuard, ExtractToken, VerifyToken,
       FindRoles, FindPermissions, Throw
  <2>2. ASSUME NEW q \in Req, q # r PROVE CallInv(q)'
    <3>1. /\ pc'[q] = pc[q] /\ at'[q] = at[q] /\ lastError'[q] = lastError[q]
          /\ user'[q] = user[q] /\ found'[q] = found[q]
      BY <1>2, <2>2 DEF Step, Exhausted, PublicGuard, ApiKeyGuard, ExtractToken, VerifyToken,
         FindRoles, FindPermissions, Throw, Passed, Failed, Goto, TypeOK
    <3> QED BY <2>1, <2>2, <3>1, OthersUntouched DEF tables, request, history
  <2>3. TypeOK' /\ CallInv(r)'
    <3>1. CallInv(r)
      OBVIOUS
    <3>2. CASE Exhausted(r)
      <4>1. pc[r] = "next" /\ at[r] > Len(Types(r)) /\ Deciding(r)
        BY <3>2 DEF Exhausted, Deciding, Decided
      <4>2. /\ Types(r) \in Seq(AuthType) /\ Len(Types(r)) \in Nat
            /\ DOMAIN Types(r) = 1 .. Len(Types(r)) /\ at[r] \in Nat
        BY <4>1, TypesType DEF TypeOK
      <4>3. \A i \in DOMAIN Types(r) : i \in 1 .. (at[r] - 1)
        BY <4>1, <4>2
      <4>4. /\ UNCHANGED <<at, lastError, user, found>>
            /\ pc'[r] = IF IsAnd(r) THEN "admitted"
                        ELSE IF lastError[r] = None THEN "unauthorized" ELSE lastError[r]
        BY <3>2 DEF Exhausted, Goto, TypeOK
      <4>5. TypeOK'
        BY <2>1, <3>2 DEF Exhausted, Goto, TypeOK, Steps, tables, request, history
      <4>6. Stays(r)
        BY <2>1, <4>4 DEF Stays, tables, request, history
      <4>7. /\ Types(r)' = Types(r) /\ IsAnd(r)' = IsAnd(r) /\ Countable(r)' = Countable(r)
            /\ \A i \in DOMAIN Types(r) :
                  /\ Vouched(r, Types(r)[i]) => Vouched(r, Types(r)[i])'
                  /\ Doubted(r, Types(r)[i]) => Doubted(r, Types(r)[i])'
        BY <4>6, Stable DEF Countable, Stays
      <4>8. /\ IsAnd(r) => \A i \in DOMAIN Types(r) : Vouched(r, Types(r)[i])
            /\ ~IsAnd(r) /\ Countable(r) => \A i \in DOMAIN Types(r) : Doubted(r, Types(r)[i])
        BY <3>1, <4>1, <4>3 DEF CallInv, Behind
      <4>9. lastError[r] \in {"unauthorized", "forbidden", None}
        BY DEF TypeOK
      <4>10. Admitted(r)' /\ Refused(r)'
        BY <4>4, <4>7, <4>8, <4>9 DEF Admitted, Refused
      <4>11. Placed(r)' /\ Authentic(r)'
        BY <2>1, <3>1, <4>4, <4>9 DEF CallInv, Placed, Authentic, request
      <4>12. Bracketed(r)' /\ Behind(r)'
        BY <4>4, <4>9 DEF Bracketed, Behind, Deciding, Decided
      <4> QED BY <4>5, <4>10, <4>11, <4>12 DEF CallInv
    <3>3. CASE PublicGuard(r)
      <4>1. /\ Deciding(r) /\ Vouched(r, Types(r)[at[r]]) /\ Passed(r)
            /\ UNCHANGED <<tables, request, user, found, history>>
        BY <3>3 DEF PublicGuard, AtGuard, Deciding, Decided, Vouched
      <4>2. at[r] \in DOMAIN Types(r)
        BY <3>3, <4>1, TypesType DEF PublicGuard, AtGuard, Deciding, TypeOK
      <4> QED BY <3>1, <4>1, <4>2, PassedKeeps
    <3>4. CASE ApiKeyGuard(r)
      <4>1. /\ Deciding(r) /\ Types(r)[at[r]] = "PaymentAPIKey"
            /\ Failed(r, "unauthorized")
            /\ UNCHANGED <<tables, request, user, found, history>>
        BY <3>4 DEF ApiKeyGuard, AtGuard, Deciding, Decided, Header, NoCredential
      <4>2. at[r] \in DOMAIN Types(r)
        BY <3>4, <4>1, TypesType DEF ApiKeyGuard, AtGuard, Deciding, TypeOK
      <4>3. Countable(r) => Doubted(r, Types(r)[at[r]])
        BY <4>1 DEF Countable, Doubted
      <4> QED BY <3>1, <4>1, <4>2, <4>3, FailedKeeps
    <3>5. CASE ExtractToken(r)
      <4>1. /\ Deciding(r) /\ pc[r] = "next" /\ Types(r)[at[r]] = "Bearer"
            /\ UNCHANGED <<tables, request, user, found, history>>
        BY <3>5 DEF ExtractToken, AtGuard, Deciding, Decided
      <4>2. at[r] \in DOMAIN Types(r)
        BY <3>5, <4>1, TypesType DEF ExtractToken, AtGuard, Deciding, TypeOK
      <4>3. CASE Failed(r, "unauthorized") /\ cred[r].kind = "none"
        <5>1. cred[r].roles = {}
          BY <4>3 DEF TypeOK, Credential
        <5>2. Doubted(r, Types(r)[at[r]])
          BY <4>1, <5>1 DEF Doubted
        <5> QED BY <3>1, <4>1, <4>2, <4>3, <5>2, FailedKeeps
      <4>4. CASE Goto(r, "verify") /\ UNCHANGED <<at, lastError>>
        <5>1. pc'[r] = "verify" /\ Deciding(r)'
          BY <4>4 DEF Goto, TypeOK, Deciding, Decided
        <5>2. TypeOK'
          BY <4>1, <4>4 DEF Goto, TypeOK, Steps, tables, request, history
        <5>3. Placed(r)'
          BY <3>1, <4>1, <4>2, <4>4, <5>1
             DEF CallInv, Placed, Types, AuthTypeValue, request
        <5>4. Authentic(r)' /\ Bracketed(r)'
          BY <3>1, <4>1, <5>1
             DEF CallInv, Authentic, Bracketed, Deciding, GrantedTo, request, tables, history
        <5> QED BY <3>1, <4>1, <4>4, <5>1, <5>2, <5>3, <5>4, MovedKeeps
      <4> QED BY <3>5, <4>3, <4>4 DEF ExtractToken, Header
    <3>6. CASE VerifyToken(r)
      <4>1. /\ Deciding(r) /\ pc[r] = "verify" /\ Types(r)[at[r]] = "Bearer"
            /\ at[r] \in DOMAIN Types(r)
            /\ UNCHANGED <<tables, request, found, history>>
        BY <3>1, <3>6 DEF VerifyToken, CallInv, Placed, Deciding, Decided
      <4>2. CASE cred[r].kind = "token" /\ r \notin expired
        <5>1. /\ user' = [user EXCEPT ![r] = cred[r]]
              /\ pc' = [pc EXCEPT ![r] = "roles"] /\ UNCHANGED <<at, lastError>>
          BY <3>6, <4>2 DEF VerifyToken, Goto
        <5>2. pc'[r] = "roles" /\ user'[r] = cred[r] /\ Deciding(r)' /\ cred[r] # None
          BY <5>1, GuardsAssumption DEF TypeOK, Deciding, Decided
        <5>3. TypeOK'
          BY <4>1, <5>1 DEF TypeOK, Steps, tables, request, history
        <5>4. Placed(r)'
          BY <4>1, <5>1, <5>2 DEF Placed, Types, AuthTypeValue, request
        <5>5. Authentic(r)' /\ Bracketed(r)'
          BY <3>1, <4>1, <4>2, <5>2
             DEF CallInv, Authentic, Bracketed, Deciding, GrantedTo, request, tables, history
        <5> QED BY <3>1, <4>1, <5>1, <5>2, <5>3, <5>4, <5>5, MovedKeeps
      <4>3. CASE ~(cred[r].kind = "token" /\ r \notin expired)
        <5>1. Failed(r, "unauthorized") /\ UNCHANGED user
          BY <3>6, <4>3 DEF VerifyToken, InvalidAccessToken
        <5>2. cred[r].kind # "token" => cred[r].roles = {}
          BY DEF TypeOK, Credential
        <5>3. Doubted(r, Types(r)[at[r]])
          BY <4>1, <4>3, <5>2 DEF Doubted
        <5> QED BY <3>1, <4>1, <5>1, <5>3, FailedKeeps
      <4> QED BY <4>2, <4>3
    <3>7. CASE FindRoles(r)
      <4>1. /\ Deciding(r) /\ pc[r] = "roles"
            /\ found' = [found EXCEPT ![r] = cred[r].roles \cap live]
            /\ pc' = [pc EXCEPT ![r] = "permissions"]
            /\ UNCHANGED <<tables, request, at, lastError, user, history>>
        BY <3>7 DEF FindRoles, MatchingRoles, Goto, Deciding, Decided
      <4>2. /\ pc'[r] = "permissions" /\ Deciding(r)'
            /\ found'[r] = cred[r].roles \cap live
        BY <4>1 DEF TypeOK, Deciding, Decided
      <4>3. TypeOK'
        BY <4>1 DEF TypeOK, Steps, tables, request, history
      <4>4. Placed(r)' /\ Authentic(r)'
        BY <3>1, <4>1, <4>2 DEF CallInv, Placed, Authentic, Types, AuthTypeValue, request
      <4>5. Bracketed(r)'
        BY <3>1, <4>1, <4>2 DEF CallInv, Bracketed, GrantedTo, request, tables, history
      <4> QED BY <3>1, <4>1, <4>2, <4>3, <4>4, <4>5, MovedKeeps
    <3>8. CASE FindPermissions(r)
      <4>1. /\ Deciding(r) /\ Types(r)[at[r]] = "Bearer" /\ at[r] \in DOMAIN Types(r)
            /\ user[r] # None /\ pc[r] = "permissions"
            /\ UNCHANGED <<tables, request, user, found, history>>
        BY <3>1, <3>8 DEF FindPermissions, CallInv, Placed, Deciding, Decided
      <4>2. /\ found[r] \subseteq cred[r].roles \cap seenLive[r]
            /\ cred[r].roles \cap steady[r] \subseteq found[r]
            /\ GrantedTo(route[r]) \subseteq seenGranted[r]
            /\ steady[r] \subseteq live \cap GrantedTo(route[r])
            /\ cred[r].kind = "token"
        BY <3>1, <4>1 DEF CallInv, Bracketed, Authentic
      <4>3. CASE found[r] \cap GrantedTo(route[r]) # {}
        <5>1. Passed(r)
          BY <3>8, <4>3 DEF FindPermissions
        <5>2. Vouched(r, Types(r)[at[r]])
          BY <4>1, <4>2, <4>3 DEF Vouched
        <5> QED BY <3>1, <4>1, <5>1, <5>2, PassedKeeps
      <4>4. CASE found[r] \cap GrantedTo(route[r]) = {}
        <5>1. Failed(r, "forbidden")
          BY <3>8, <4>4 DEF FindPermissions
        <5>2. Doubted(r, Types(r)[at[r]])
          BY <4>1, <4>2, <4>4 DEF Doubted
        <5> QED BY <3>1, <4>1, <5>1, <5>2, FailedKeeps
      <4> QED BY <4>3, <4>4
    <3>9. CASE Throw(r)
      <4>1. /\ Deciding(r) /\ at[r] \in DOMAIN Types(r) /\ user[r] # None
            /\ Types(r)[at[r]] = "Bearer" /\ Faults /\ Failed(r, "forbidden")
            /\ UNCHANGED <<tables, request, user, found, history>>
        BY <3>1, <3>9 DEF Throw, CallInv, Placed, Deciding, Decided
      <4>2. Doubted(r, Types(r)[at[r]])
        BY <4>1 DEF Doubted
      <4> QED BY <3>1, <4>1, <4>2, FailedKeeps
    <3> QED BY <1>2, <3>2, <3>3, <3>4, <3>5, <3>6, <3>7, <3>8, <3>9 DEF Step
  <2> QED BY <2>2, <2>3
<1>3. ASSUME NEW role \in Role, ChangeRole(role) PROVE Kept
  <2>1. /\ live' \subseteq Role
        /\ UNCHANGED <<granted, expired, pc, request, at, lastError, user, found, seenGranted>>
    BY <1>3 DEF ChangeRole, TypeOK
  <2>2. ASSUME NEW q \in Req
        PROVE  /\ seenLive'[q] = IF Deciding(q) THEN seenLive[q] \cup live' ELSE seenLive[q]
               /\ steady'[q] = IF Deciding(q) THEN steady[q] \cap live' ELSE steady[q]
    BY <1>3 DEF ChangeRole
  <2>3. TypeOK'
    <3>1. seenLive' \in [Req -> SUBSET Role] /\ steady' \in [Req -> SUBSET Role]
      BY <1>3, <2>1 DEF ChangeRole, TypeOK
    <3> QED BY <2>1, <3>1 DEF TypeOK, request
  <2>4. ASSUME NEW q \in Req PROVE CallInv(q)'
    <3>1. Stays(q)
      BY <2>1, <2>2 DEF Stays, request
    <3>2. pc[q] = "permissions" => Deciding(q)
      BY DEF Deciding, Decided
    <3>3. Bracketed(q)'
      BY <2>1, <2>2, <3>2 DEF CallInv, Bracketed, Deciding, Decided, GrantedTo, request
    <3> QED BY <2>1, <3>1, <3>3, Untouched
  <2> QED BY <2>3, <2>4
<1>4. ASSUME NEW g \in Role \X Route, ChangeGrant(g) PROVE Kept
  <2>1. /\ granted' \subseteq Role \X Route
        /\ UNCHANGED <<live, expired, pc, request, at, lastError, user, found, seenLive>>
    BY <1>4 DEF ChangeGrant, TypeOK
  <2>2. ASSUME NEW q \in Req
        PROVE  /\ seenGranted'[q] = IF Deciding(q) /\ route[q] = g[2]
                                    THEN seenGranted[q] \cup {g[1]} ELSE seenGranted[q]
               /\ steady'[q] = IF Deciding(q) /\ route[q] = g[2]
                               THEN steady[q] \ {g[1]} ELSE steady[q]
    BY <1>4 DEF ChangeGrant
  <2>3. TypeOK'
    <3>1. seenGranted' \in [Req -> SUBSET Role] /\ steady' \in [Req -> SUBSET Role]
      BY <1>4, <2>1 DEF ChangeGrant, TypeOK
    <3> QED BY <2>1, <3>1 DEF TypeOK, request
  <2>4. ASSUME NEW q \in Req PROVE CallInv(q)'
    <3>1. Stays(q)
      BY <2>1, <2>2 DEF Stays, request
    <3>2. pc[q] = "permissions" => Deciding(q)
      BY DEF Deciding, Decided
    <3>3. \A role \in Role : role # g[1] \/ route[q] # g[2] =>
                (<<role, route[q]>> \in granted' <=> <<role, route[q]>> \in granted)
      BY <1>4 DEF ChangeGrant
    <3>4. pc'[q] = "permissions" =>
              /\ found'[q] \subseteq cred'[q].roles \cap seenLive'[q]
              /\ cred'[q].roles \cap steady'[q] \subseteq found'[q]
      BY <2>1, <3>1 DEF CallInv, Bracketed, Stays
    <3>5. ASSUME Deciding(q)
          PROVE  /\ GrantedTo(route[q])' \subseteq seenGranted'[q]
                 /\ steady'[q] \subseteq live' \cap GrantedTo(route[q])'
      <4>1. /\ GrantedTo(route[q]) \subseteq seenGranted[q]
            /\ steady[q] \subseteq live \cap GrantedTo(route[q])
            /\ route'[q] = route[q]
        BY <2>1, <3>5 DEF CallInv, Bracketed, request
      <4>2. CASE route[q] = g[2]
        BY <2>1, <2>2, <3>3, <3>5, <4>1, <4>2 DEF GrantedTo
      <4>3. CASE route[q] # g[2]
        BY <2>1, <2>2, <3>3, <3>5, <4>1, <4>3 DEF GrantedTo
      <4> QED BY <4>2, <4>3
    <3>6. Bracketed(q)'
      BY <2>1, <3>4, <3>5 DEF CallInv, Bracketed, Deciding, Decided
    <3> QED BY <2>1, <3>1, <3>6, Untouched
  <2> QED BY <2>3, <2>4
<1>5. ASSUME NEW r \in Req, Expire(r) PROVE Kept
  <2>1. /\ expired' = expired \cup {r}
        /\ UNCHANGED <<live, granted, pc, request, at, lastError, user, found, history>>
    BY <1>5 DEF Expire
  <2>2. TypeOK'
    BY <2>1 DEF TypeOK, request, history
  <2>3. ASSUME NEW q \in Req PROVE CallInv(q)'
    <3>1. Stays(q) /\ Bracketed(q)'
      BY <2>1 DEF Stays, CallInv, Bracketed, Deciding, Decided, GrantedTo, request, history
    <3> QED BY <2>1, <3>1, Untouched
  <2> QED BY <2>2, <2>3
<1>6. CASE UNCHANGED vars
  <2>1. TypeOK'
    BY <1>6 DEF vars, TypeOK, tables, request, history
  <2>2. ASSUME NEW q \in Req PROVE CallInv(q)'
    <3>1. Stays(q) /\ Bracketed(q)'
      BY <1>6 DEF vars, Stays, CallInv, Bracketed, Deciding, Decided, GrantedTo,
         tables, request, history
    <3> QED BY <1>6, <3>1, Untouched DEF vars
  <2> QED BY <2>1, <2>2
<1> QED BY <1>1, <1>2, <1>3, <1>4, <1>5, <1>6 DEF Next

LEMMA Invariance == Spec => []IInv
BY InitIInv, StepIInv, PTL DEF Spec

(* The tables and every call's local state keep their types.               *)
THEOREM TypeCorrect == Spec => []TypeOK
<1>1. IInv => TypeOK
  BY DEF IInv
<1> QED BY <1>1, Invariance, PTL

(* No call gets past the guards without what its route is marked with, for *)
(* any marking, while roles and permissions are being edited.              *)
THEOREM AdmittedIsVouchedHolds == Spec => []AdmittedIsVouched
<1>1. IInv => AdmittedIsVouched
  BY DEF IInv, CallInv, Admitted, AdmittedIsVouched
<1> QED BY <1>1, Invariance, PTL

(* No call is refused that had all along what its route is marked with,    *)
(* unless its permission query may have thrown.                            *)
THEOREM RefusalIsJustifiedHolds == Spec => []RefusalIsJustified
<1>1. IInv => RefusalIsJustified
  BY DEF IInv, CallInv, Refused, Countable, RefusalIsJustified
<1> QED BY <1>1, Invariance, PTL

(* Forbidden is answered to authenticated callers only.                    *)
THEOREM ForbiddenIsAuthenticHolds == Spec => []ForbiddenIsAuthentic
<1>1. IInv => ForbiddenIsAuthentic
  BY DEF IInv, CallInv, Authentic, ForbiddenIsAuthentic
<1> QED BY <1>1, Invariance, PTL

-----------------------------------------------------------------------------
(* How the loops end.                                                      *)

(* The index is on the list, or just past it when the loop comes round.    *)
LEMMA IndexOnList ==
    ASSUME IInv, NEW r \in Req, Deciding(r)
    PROVE  /\ Len(Types(r)) \in Nat /\ at[r] \in 1 .. (Len(Types(r)) + 1)
           /\ pc[r] # "next" => at[r] \in DOMAIN Types(r) /\ at[r] <= Len(Types(r))
<1>1. pc[r] # "idle" /\ at[r] \in Nat \ {0} /\ pc[r] \in Steps
  BY DEF IInv, TypeOK, Deciding
<1>2. Len(Types(r)) \in Nat /\ DOMAIN Types(r) = 1 .. Len(Types(r))
  BY <1>1, TypesType DEF IInv
<1>3. \A i \in 1 .. (at[r] - 1) : i \in DOMAIN Types(r)
  BY DEF IInv, CallInv, Behind
<1>4. pc[r] # "next" => at[r] \in DOMAIN Types(r)
  BY <1>1 DEF IInv, CallInv, Placed, Steps, Deciding, Decided
<1>5. at[r] = 1 \/ at[r] - 1 \in 1 .. (at[r] - 1)
  BY <1>1
<1> QED BY <1>1, <1>2, <1>3, <1>4, <1>5

LEMMA GuardsLeft ==
    ASSUME NEW n \in Nat, NEW a \in 1 .. (n + 1), NEW k \in 1 .. 4
    PROVE  /\ 4 * (n + 1 - a) + k \in Nat /\ 4 * (n + 1 - a) + k > 0
           /\ 4 * (n + 1 - (a + 1)) + 4 < 4 * (n + 1 - a) + k
OBVIOUS

(* Wherever it is, a call has something left, and a guard's verdict leaves *)
(* it less.                                                                *)
LEMMA VerdictCounts ==
    ASSUME IInv, NEW r \in Req, Deciding(r), route'[r] = route[r],
           Decided(r)' \/ (pc'[r] = "next" /\ at'[r] = at[r] + 1)
    PROVE  Left(r)' < Left(r)
<1>1. Types(r)' = Types(r)
  BY DEF Types, AuthTypeValue
<1>2. Len(Types(r)) \in Nat /\ at[r] \in 1 .. (Len(Types(r)) + 1)
  BY IndexOnList
<1>3. Left(r) = 4 * (Len(Types(r)) + 1 - at[r]) + Ahead(r) /\ Ahead(r) \in 1 .. 4
  BY DEF Left, Ahead, Deciding
<1>4. CASE Decided(r)'
  <2>1. Left(r)' = 0
    BY <1>4 DEF Left
  <2> QED BY <1>2, <1>3, <2>1, GuardsLeft
<1>5. CASE ~Decided(r)' /\ pc'[r] = "next" /\ at'[r] = at[r] + 1
  <2>1. Left(r)' = 4 * (Len(Types(r)) + 1 - (at[r] + 1)) + 4
    BY <1>1, <1>5 DEF Left, Ahead
  <2> QED BY <1>2, <1>3, <2>1, GuardsLeft
<1> QED BY <1>4, <1>5

LEMMA StepCounts ==
    ASSUME IInv, NEW r \in Req, Step(r) \/ Throw(r)
    PROVE  Left(r)' < Left(r)
<1>1. Deciding(r) /\ route' = route /\ pc \in [Req -> Steps] /\ at \in [Req -> Nat \ {0}]
  BY DEF IInv, TypeOK, Step, Exhausted, PublicGuard, ApiKeyGuard, ExtractToken, VerifyToken,
     FindRoles, FindPermissions, Throw, AtGuard, Deciding, Decided, request
<1>2. ASSUME NEW e \in {"unauthorized", "forbidden"}, Passed(r) \/ Failed(r, e)
      PROVE  Left(r)' < Left(r)
  <2>1. Decided(r)' \/ (pc'[r] = "next" /\ at'[r] = at[r] + 1)
    BY <1>1, <1>2 DEF Passed, Failed, Goto, Decided
  <2> QED BY <1>1, <2>1, VerdictCounts
<1>3. CASE Exhausted(r)
  <2>1. Decided(r)'
    BY <1>1, <1>3 DEF Exhausted, Goto, Decided, IInv, TypeOK
  <2> QED BY <1>1, <2>1, VerdictCounts
<1>4. ASSUME UNCHANGED at,
             \/ pc[r] = "next" /\ pc'[r] = "verify"
             \/ pc[r] = "verify" /\ pc'[r] = "roles"
             \/ pc[r] = "roles" /\ pc'[r] = "permissions"
      PROVE  Left(r)' < Left(r)
  <2>1. Types(r)' = Types(r) /\ Len(Types(r)) \in Nat /\ at[r] \in Nat
    BY <1>1, IndexOnList DEF Types, AuthTypeValue
  <2>2. Left(r) = 4 * (Len(Types(r)) + 1 - at[r]) + Ahead(r)
    BY <1>1 DEF Left, Deciding
  <2>3. Left(r)' = 4 * (Len(Types(r)) + 1 - at[r]) + Ahead(r)'
    BY <1>4, <2>1 DEF Left, Decided
  <2>4. Ahead(r)' < Ahead(r) /\ Ahead(r) \in Nat /\ Ahead(r)' \in Nat
    BY <1>4 DEF Ahead
  <2> QED BY <2>1, <2>2, <2>3, <2>4
<1>5. CASE FindRoles(r)
  BY <1>1, <1>4, <1>5 DEF FindRoles, Goto
<1>6. CASE ExtractToken(r)
  BY <1>1, <1>2, <1>4, <1>6 DEF ExtractToken, AtGuard, Goto
<1>7. CASE VerifyToken(r)
  BY <1>1, <1>2, <1>4, <1>7 DEF VerifyToken, InvalidAccessToken, Goto
<1> QED BY <1>2, <1>3, <1>5, <1>6, <1>7 DEF Step, Throw, PublicGuard, ApiKeyGuard, FindPermissions

(* Neither loop goes round for ever, for any list of guards: every step of *)
(* a call, and a permission query that throws, lowers what it has left.    *)
THEOREM EveryStepCountsHolds == Spec => EveryStepCounts
<1>1. IInv /\ [Next]_vars =>
        [\A r \in Req :
            pc[r] # "idle" /\ <<pc[r], at[r]>>' # <<pc[r], at[r]>> => Left(r)' < Left(r)]_vars
  <2> SUFFICES ASSUME IInv, [Next]_vars, NEW r \in Req, pc[r] # "idle",
                      <<pc[r], at[r]>>' # <<pc[r], at[r]>>
               PROVE  Left(r)' < Left(r)
    OBVIOUS
  <2>1. Step(r) \/ Throw(r)
    BY DEF IInv, TypeOK, Next, vars, Arrive, Step, Exhausted, PublicGuard, ApiKeyGuard,
       ExtractToken, VerifyToken, FindRoles, FindPermissions, Throw, Passed, Failed, Goto,
       ChangeRole, ChangeGrant, Expire
  <2> QED BY <2>1, StepCounts
<1> QED BY <1>1, Invariance, PTL DEF Spec, EveryStepCounts

(* A call that is not decided has a guard to run: canActivate indexes the  *)
(* list within its bounds and knows every type it finds there.             *)
THEOREM NeverStuckHolds == Spec => []NeverStuck
<1>1. IInv => NeverStuck
  <2> SUFFICES ASSUME IInv, NEW r \in Req, pc[r] # "idle"
               PROVE  /\ Left(r) \in Nat
                      /\ Left(r) = 0 <=> Decided(r)
                      /\ pc[r] = "next" =>
                            at[r] > Len(Types(r)) \/ \E type \in AuthType : AtGuard(r, type)
    BY DEF NeverStuck
  <2>1. CASE Decided(r)
    BY <2>1 DEF Left, Decided
  <2>2. CASE Deciding(r)
    <3>1. Len(Types(r)) \in Nat /\ at[r] \in 1 .. (Len(Types(r)) + 1)
      BY <2>2, IndexOnList
    <3>2. Left(r) = 4 * (Len(Types(r)) + 1 - at[r]) + Ahead(r) /\ Ahead(r) \in 1 .. 4
      BY <2>2 DEF Left, Ahead, Deciding
    <3>3. ASSUME at[r] <= Len(Types(r)) PROVE Types(r)[at[r]] \in AuthType
      BY <3>1, <3>3, TypesType DEF IInv
    <3>4. Left(r) \in Nat /\ Left(r) > 0
      BY <3>1, <3>2, GuardsLeft
    <3>5. ~(at[r] <= Len(Types(r))) => at[r] > Len(Types(r))
      BY <3>1
    <3> QED BY <2>2, <3>3, <3>4, <3>5 DEF AtGuard, Deciding
  <2> QED BY <2>1, <2>2 DEF Deciding
<1> QED BY <1>1, Invariance, PTL
=============================================================================
