---------------------------- MODULE SignIn_proofs ----------------------------
(* Proofs about SignIn, for any users, requests, roles and changes.        *)
EXTENDS SignIn, TLAPS

\* What the place of a request tells of its body.
Placed ==
    /\ DOMAIN views = Req
    /\ \A r \in Req :
       /\ in[r] = NoBody <=> pc[r] = "idle"
       /\ pc[r] # "idle" => who[r] \in User
       /\ pc[r] \in {"user", "roles", "roles2FA", "code", "sign"} => in[r] \in LoginBody
       /\ pc[r] \in {"token", "renew", "rotate"} => in[r] \in RefreshBody
       /\ pc[r] \in {"clear", "insert"} => in[r] \in SendBody
       /\ pc[r] \in {"lookup", "update"} => in[r] \in ResetBody

\* A pending request has its user's present view among those it has seen.
Seeing == \A r \in Req : Pending(r) => View(who[r]) \in views[r]

\* What login has been given, what the row demanded, and what refuses it.
Given(r) == \E v \in views[r] : claims[r] = v.roles
Factor(r, v, w) ==
    v.secret => in[r].totp = "right" \/ (in[r].totp = "none" /\ in[r].code \in w.codes)
Doubt(r, v, w) ==
    \/ ~Knows(r, v)
    \/ /\ v.secret /\ in[r].totp # "right"
       /\ in[r].totp = "none" => in[r].code \notin w.codes

\* What r has established at each of its places.
Established(r) ==
    /\ pc[r] \in {"roles", "roles2FA", "code"} =>
           \E v \in views[r] : Knows(r, v) /\ (v.secret <=> pc[r] # "roles")
    /\ pc[r] = "code" => in[r].totp = "none" /\ in[r].code \in Code /\ Given(r)
    /\ pc[r] = "sign" \/ (pc[r] = "ok" /\ in[r].op = "login") =>
           Given(r) /\ \E v, w \in views[r] : Knows(r, v) /\ Factor(r, v, w)
    /\ pc[r] = "rotate" \/ (pc[r] = "ok" /\ in[r].op = "refresh") => Given(r)
    /\ pc[r] = "refused" /\ in[r].op = "login" => \E v, w \in views[r] : Doubt(r, v, w)

IInv == TypeOK /\ Placed /\ Seeing /\ \A r \in Req : Established(r)

\* Nothing of r changes but what it has seen, which grows.
Untouched(r) ==
    /\ pc'[r] = pc[r] /\ in'[r] = in[r] /\ who'[r] = who[r] /\ claims'[r] = claims[r]
    /\ views[r] \subseteq views'[r]

LEMMA Established_lasts ==
    ASSUME NEW r \in Req, Established(r), Untouched(r) PROVE Established(r)'
BY DEF Established, Untouched, Given, Factor, Doubt, Knows

LEMMA ViewType == ASSUME TypeOK, NEW u \in User
                  PROVE  View(u).there \in BOOLEAN /\ View(u).codes \subseteq Code
BY DEF View

\* Watching keeps Seeing, the types of what is seen, and only adds.
LEMMA Watching ==
    ASSUME TypeOK, Seeing, Watch, UNCHANGED <<in, who>>, codes' \subseteq User \X Code,
           \A r \in Req : Pending(r)' => Pending(r)
    PROVE  /\ Seeing'
           /\ \A r \in Req : views[r] \subseteq views'[r]
           /\ \A r \in Req : \A v \in views'[r] : v.there \in BOOLEAN /\ v.codes \subseteq Code
<1>1. ASSUME NEW r \in Req, Pending(r)' PROVE View(who[r])' \in views'[r]
  BY <1>1 DEF Watch
<1>2. ASSUME NEW u, codes' \subseteq User \X Code
      PROVE  View(u)'.there \in BOOLEAN /\ View(u)'.codes \subseteq Code
  BY DEF View
<1>3. ASSUME NEW r \in Req, NEW v \in views'[r]
      PROVE  v.there \in BOOLEAN /\ v.codes \subseteq Code
  <2>1. CASE v \in views[r]
    BY <2>1 DEF TypeOK
  <2>2. CASE v = View(who[r])'
    BY <2>2, <1>2
  <2>. QED
    BY <2>1, <2>2, <1>3 DEF Watch
<1>4. ASSUME NEW r \in Req PROVE views[r] \subseteq views'[r]
  BY <1>4 DEF Watch
<1>. QED
  BY <1>1, <1>3, <1>4 DEF Seeing

LEMMA ViewStays ==
    ASSUME UNCHANGED <<row, otp>>, NEW q, NEW u, who'[q] = u PROVE View(who[q])' = View(u)
BY DEF View, row, otp

LEMMA Inits == Init => IInv
<1>. SUFFICES ASSUME Init PROVE IInv
  OBVIOUS
<1>1. TypeOK /\ Placed
  BY SignInAssumption DEF Init, TypeOK, Placed, Steps, NoBody, LoginBody, SendBody,
     ResetBody, RefreshBody
<1>2. Seeing /\ \A r \in Req : Established(r)
  BY DEF Init, Seeing, Pending, Over, Established
<1>. QED
  BY <1>1, <1>2 DEF IInv

\* A request arrives.
LEMMA Beginning ==
    ASSUME IInv, NEW r \in Req, NEW i, NEW u \in User, NEW p, Begin(r, i, u, p),
           \/ i \in LoginBody /\ p = "user"
           \/ i \in RefreshBody /\ p = "token"
           \/ i \in SendBody /\ p = "clear"
           \/ i \in ResetBody /\ p = "lookup"
    PROVE  IInv'
<1>. USE DEF IInv
<1>1. TypeOK'
  <2>1. \A v \in views'[r] : v.there \in BOOLEAN /\ v.codes \subseteq Code
    BY ViewType DEF Begin, TypeOK
  <2>. QED
    BY <2>1 DEF Begin, Goto, TypeOK, Placed, Steps, Body, row, otp
<1>2. Placed'
  BY DEF Placed, Begin, Goto, TypeOK, NoBody, LoginBody, RefreshBody, SendBody, ResetBody
<1>3. ASSUME NEW q \in Req, q # r PROVE Untouched(q)
  BY <1>3 DEF Begin, Goto, TypeOK, Placed, Untouched
<1>4. Seeing'
  <2>1. ASSUME NEW q \in Req, Pending(q)' PROVE View(who[q])' \in views'[q]
    <3>1. CASE q = r
      <4>1. who'[r] = u /\ views'[r] = {View(u)}
        BY DEF Begin, TypeOK, Placed
      <4>2. View(who[r])' = View(u)
        BY <4>1, ViewStays DEF Begin
      <4>. QED
        BY <3>1, <4>1, <4>2
    <3>2. CASE q # r
      <4>1. Pending(q) /\ who'[q] = who[q] /\ views'[q] = views[q]
        BY <2>1, <3>2 DEF Begin, Goto, TypeOK, Placed, Pending, Over
      <4>2. View(who[q])' = View(who[q])
        BY <4>1, ViewStays DEF Begin
      <4>. QED
        BY <4>1, <4>2 DEF Seeing
    <3>. QED
      BY <3>1, <3>2
  <2>. QED
    BY <2>1 DEF Seeing
<1>5. Established(r)'
  BY DEF Established, Begin, Goto, TypeOK, LoginBody, RefreshBody
<1>. QED
  BY <1>1, <1>2, <1>3, <1>4, <1>5, Established_lasts

\* Where a step may take r.
Follows(r, p) ==
    \/ p \in {"ok", "refused", "failed"}
    \/ p \in {"roles", "roles2FA", "code", "sign"} /\ in[r] \in LoginBody
    \/ p \in {"renew", "rotate"} /\ in[r] \in RefreshBody
    \/ p = "insert" /\ in[r] \in SendBody
    \/ p = "update" /\ in[r] \in ResetBody

\* A request goes on: what is left to show is the types and its own part.
LEMMA Acting ==
    ASSUME IInv, NEW r \in Req, NEW p, Pending(r), Follows(r, p), Goto(r, p), TypeOK', Seeing',
           UNCHANGED <<in, who>>, DOMAIN views' = Req, Established(r)',
           \A q \in Req : views[q] \subseteq views'[q],
           \A q \in Req \ {r} : claims'[q] = claims[q]
    PROVE  IInv'
<1>. USE DEF IInv
<1>1. pc[r] # "idle" /\ in[r] # NoBody
  BY DEF Pending, Placed
<1>2. Placed'
  <2>1. ASSUME NEW q \in Req, q # r PROVE pc'[q] = pc[q]
    BY <2>1 DEF Goto, TypeOK
  <2>2. pc'[r] = p /\ p # "idle" /\ p \notin {"user", "token", "clear", "lookup"}
    BY DEF Goto, TypeOK, Follows
  <2>. QED
    BY <1>1, <2>1, <2>2 DEF Placed, Follows
<1>3. ASSUME NEW q \in Req, q # r PROVE Untouched(q)
  BY <1>3 DEF Goto, TypeOK, Untouched
<1>. QED
  BY <1>2, <1>3, Established_lasts

\* The same, when the rows and codes stay as they are.
LEMMA Quietly ==
    ASSUME IInv, NEW r \in Req, NEW p, Pending(r), Follows(r, p), Goto(r, p),
           UNCHANGED <<row, otp, edits, in, who, views>>, tokens' \subseteq Req,
           claims' \in [Req -> SUBSET Role], Established(r)',
           \A q \in Req \ {r} : claims'[q] = claims[q]
    PROVE  IInv'
<1>. USE DEF IInv
<1>1. TypeOK'
  <2>1. pc' \in [Req -> Steps]
    BY DEF Goto, Follows, TypeOK, Steps
  <2>. QED
    BY <2>1 DEF TypeOK, row, otp
<1>2. ASSUME NEW q \in Req, Pending(q)' PROVE View(who[q])' \in views'[q]
  <2>1. Pending(q)
    BY <1>2 DEF Pending, Over, Goto, TypeOK
  <2>2. View(who[q])' = View(who[q])
    BY ViewStays
  <2>. QED
    BY <2>1, <2>2 DEF Seeing
<1>3. Seeing' /\ DOMAIN views' = Req
  BY <1>2 DEF Seeing, Placed
<1>. QED
  BY <1>1, <1>3, Acting

\* The same, when the others under way see the change.
LEMMA Loudly ==
    ASSUME IInv, NEW r \in Req, NEW p, Pending(r), Follows(r, p), Goto(r, p), Watch,
           UNCHANGED <<roles, secret, deleted, tokens, edits, local>>, Established(r)',
           password' \in [User -> Password],
           codes' \subseteq User \X Code, lapsed' \subseteq User \X Code
    PROVE  IInv'
<1>. USE DEF IInv, local
<1>1. \A q \in Req : Pending(q)' => Pending(q)
  BY DEF Pending, Over, Goto, TypeOK
<1>2. /\ Seeing' /\ DOMAIN views' = Req
      /\ \A q \in Req : views[q] \subseteq views'[q]
      /\ \A q \in Req : \A v \in views'[q] : v.there \in BOOLEAN /\ v.codes \subseteq Code
  BY <1>1, Watching DEF Watch
<1>3. pc' \in [Req -> Steps]
  BY DEF Goto, Follows, TypeOK, Steps
<1>4. TypeOK'
  BY <1>2, <1>3 DEF TypeOK
<1>. QED
  BY <1>2, <1>4, Acting

\* login's reads: the row, the roles, and the code, each in a moment of its own.
LEMMA Reading == ASSUME IInv, NEW r \in Req, FindUser(r) PROVE IInv'
<1>. USE DEF IInv
<1>1. Pending(r) /\ in[r] \in LoginBody /\ who[r] \in User
  BY DEF FindUser, Pending, Over, Placed
<1>2. PICK v \in views[r] : v = View(who[r])
  BY <1>1 DEF Seeing
<1>3. PICK p \in {"refused", "roles", "roles2FA"} : Goto(r, p) /\ pc'[r] = p
  BY DEF FindUser, Goto, TypeOK
<1>4. /\ p = "refused" => ~Knows(r, v)
      /\ p # "refused" => Knows(r, v) /\ (v.secret <=> p # "roles")
  <2>1. CASE who[r] \in deleted \/ in[r].password # password[who[r]]
    <3>1. pc'[r] = "refused"
      BY <2>1 DEF FindUser, Goto, TypeOK
    <3>2. ~Knows(r, v)
      BY <1>2, <2>1 DEF Knows, View
    <3>. QED
      BY <1>3, <3>1, <3>2
  <2>2. CASE ~(who[r] \in deleted \/ in[r].password # password[who[r]])
    <3>1. pc'[r] = IF who[r] \in secret THEN "roles2FA" ELSE "roles"
      BY <2>2 DEF FindUser, Goto, TypeOK
    <3>2. Knows(r, v) /\ (v.secret <=> who[r] \in secret)
      BY <1>2, <2>2 DEF Knows, View
    <3>. QED
      BY <1>3, <3>1, <3>2
  <2>. QED
    BY <2>1, <2>2
<1>5. /\ UNCHANGED <<row, otp, tokens, edits, in, who, views, claims>>
      /\ Follows(r, p)
  BY <1>1, <1>3 DEF FindUser, local, Follows
<1>6. Established(r)'
  <2>1. v \in views'[r] /\ in'[r] = in[r] /\ (Knows(r, v)' <=> Knows(r, v))
    BY <1>5 DEF Knows
  <2>. QED
    BY <1>3, <1>4, <2>1 DEF Established, Doubt
<1>. QED
  BY <1>1, <1>3, <1>5, <1>6, Quietly DEF TypeOK

LEMMA ReadingRoles == ASSUME IInv, NEW r \in Req, FindRoles(r) PROVE IInv'
<1>. USE DEF IInv
<1>1. Pending(r) /\ in[r] \in LoginBody /\ in[r].op = "login" /\ who[r] \in User
  BY DEF FindRoles, Pending, Over, Placed, LoginBody
<1>2. PICK v \in views[r] : Knows(r, v) /\ (v.secret <=> pc[r] # "roles")
  BY DEF FindRoles, Established
<1>3. PICK w \in views[r] : w.roles = roles[who[r]]
  BY <1>1 DEF Seeing, View
<1>4. PICK p \in {"code", "sign", "refused"} :
          /\ Goto(r, p) /\ pc'[r] = p
          /\ p = IF pc[r] = "roles2FA" THEN SecondFactor(r) ELSE "sign"
  BY DEF FindRoles, SecondFactor, Goto, TypeOK
<1>5. /\ UNCHANGED <<row, otp, tokens, edits, in, who, views>> /\ Follows(r, p)
      /\ claims' \in [Req -> SUBSET Role] /\ claims'[r] = roles[who[r]]
      /\ \A q \in Req \ {r} : claims'[q] = claims[q]
  BY <1>1, <1>4 DEF FindRoles, Follows, TypeOK
<1>6. v \in views'[r] /\ Given(r)' /\ Knows(r, v)' /\ in'[r] = in[r] /\ v.codes \subseteq Code
  BY <1>2, <1>3, <1>5 DEF Given, Knows, TypeOK
<1>7. Established(r)'
  <2>1. CASE p = "code"
    <3>1. v.secret /\ in[r].totp = "none" /\ in[r].code \in Code
      BY <1>1, <1>2, <1>4, <2>1 DEF SecondFactor, LoginBody
    <3>. QED
      BY <2>1, <3>1, <1>4, <1>6 DEF Established
  <2>2. CASE p = "sign"
    <3>1. v.secret => in[r].totp = "right"
      BY <1>2, <1>4, <2>2 DEF SecondFactor, FindRoles
    <3>2. Factor(r, v, v)'
      BY <3>1, <1>6 DEF Factor
    <3>. QED
      BY <2>2, <3>2, <1>4, <1>6 DEF Established
  <2>3. CASE p = "refused"
    <3>1. /\ v.secret /\ in[r].totp # "right"
          /\ in[r].totp = "none" => in[r].code = None
      BY <1>2, <1>4, <2>3 DEF SecondFactor
    <3>2. Doubt(r, v, v)'
      BY <3>1, <1>6, SignInAssumption DEF Doubt
    <3>. QED
      BY <2>3, <3>2, <1>4, <1>6 DEF Established
  <2>. QED
    BY <2>1, <2>2, <2>3
<1>. QED
  BY <1>1, <1>4, <1>5, <1>7, Quietly DEF TypeOK

LEMMA Validating == ASSUME IInv, NEW r \in Req, ValidateCode(r) PROVE IInv'
<1>. USE DEF IInv
<1>. DEFINE p == IF Valid(r) THEN "sign" ELSE "refused"
<1>1. pc[r] = "code" /\ Pending(r) /\ in[r] \in LoginBody
  BY DEF ValidateCode, Pending, Over, Placed
<1>2. /\ Goto(r, p) /\ Follows(r, p)
      /\ UNCHANGED <<row, otp, tokens, edits, in, who, views, claims>>
  BY <1>1 DEF ValidateCode, Follows, local
<1>3. PICK v \in views[r] : Knows(r, v) /\ v.secret
  BY <1>1 DEF Established
<1>4. PICK w \in views[r] : w = View(who[r])
  BY <1>1 DEF Seeing
<1>5. in[r].code \in w.codes <=> Valid(r)
  BY <1>1, <1>4 DEF Established, View, Valid
<1>6. in[r].totp = "none" /\ in[r].op = "login" /\ Given(r)
  BY <1>1 DEF Established, LoginBody
<1>7. /\ pc'[r] = p /\ v \in views'[r] /\ w \in views'[r] /\ in'[r] = in[r]
      /\ Given(r)' /\ Knows(r, v)'
  BY <1>2, <1>3, <1>6 DEF Goto, TypeOK, Given, Knows
<1>8. CASE Valid(r)
  <2>1. Factor(r, v, w)'
    BY <1>5, <1>6, <1>7, <1>8 DEF Factor
  <2>2. Established(r)'
    BY <1>7, <1>8, <2>1 DEF Established
  <2>. QED
    BY <1>1, <1>2, <2>2, Quietly DEF TypeOK
<1>9. CASE ~Valid(r)
  <2>1. Doubt(r, v, w)'
    BY <1>3, <1>5, <1>6, <1>7, <1>9 DEF Doubt
  <2>2. Established(r)'
    BY <1>6, <1>7, <1>9, <2>1 DEF Established
  <2>. QED
    BY <1>1, <1>2, <2>2, Quietly DEF TypeOK
<1>. QED
  BY <1>8, <1>9

LEMMA Signing == ASSUME IInv, NEW r \in Req, SignTokens(r) PROVE IInv'
<1>. USE DEF IInv
<1>1. pc[r] = "sign" /\ Pending(r) /\ in[r] \in LoginBody /\ in[r].op = "login"
  BY DEF SignTokens, Pending, Over, Placed, LoginBody
<1>2. /\ Goto(r, "ok") /\ Follows(r, "ok") /\ tokens' \subseteq Req
      /\ UNCHANGED <<row, otp, edits, in, who, views, claims>>
  BY DEF SignTokens, Follows, local, TypeOK
<1>3. pc'[r] = "ok" /\ in'[r] = in[r] /\ views'[r] = views[r] /\ claims'[r] = claims[r]
  BY <1>2 DEF Goto, TypeOK
<1>4. Established(r)'
  BY <1>1, <1>3 DEF Established, Given, Knows, Factor
<1>. QED
  BY <1>1, <1>2, <1>4, Quietly DEF TypeOK

LEMMA Finding == ASSUME IInv, NEW r \in Req, FindToken(r) PROVE IInv'
<1>. USE DEF IInv
<1>1. Pending(r) /\ in[r] \in RefreshBody /\ in[r].op = "refresh"
  BY DEF FindToken, Pending, Over, Placed, RefreshBody
<1>2. PICK p \in {"renew", "refused"} : Goto(r, p)
  BY DEF FindToken
<1>3. /\ UNCHANGED <<row, otp, tokens, edits, in, who, views, claims>>
      /\ Follows(r, p) /\ pc'[r] = p
  BY <1>1, <1>2 DEF FindToken, local, Follows, Goto, TypeOK
<1>4. Established(r)'
  BY <1>1, <1>3 DEF Established
<1>. QED
  BY <1>1, <1>2, <1>3, <1>4, Quietly DEF TypeOK

LEMMA Renewing == ASSUME IInv, NEW r \in Req, RenewRoles(r) PROVE IInv'
<1>. USE DEF IInv
<1>1. Pending(r) /\ in[r] \in RefreshBody /\ who[r] \in User
  BY DEF RenewRoles, Pending, Over, Placed
<1>2. PICK v \in views[r] : v.roles = roles[who[r]]
  BY <1>1 DEF Seeing, View
<1>3. /\ Goto(r, "rotate") /\ Follows(r, "rotate") /\ pc'[r] = "rotate"
      /\ UNCHANGED <<row, otp, tokens, edits, in, who, views>>
      /\ claims' \in [Req -> SUBSET Role] /\ claims'[r] = roles[who[r]]
      /\ \A q \in Req \ {r} : claims'[q] = claims[q]
  BY <1>1 DEF RenewRoles, Follows, Goto, TypeOK, RenewedRoles
<1>4. Established(r)'
  BY <1>2, <1>3 DEF Established, Given
<1>. QED
  BY <1>1, <1>3, <1>4, Quietly DEF TypeOK

LEMMA Rotating == ASSUME IInv, NEW r \in Req, Rotate(r) PROVE IInv'
<1>. USE DEF IInv
<1>1. pc[r] = "rotate" /\ Pending(r) /\ in[r] \in RefreshBody /\ in[r].op = "refresh"
  BY DEF Rotate, Pending, Over, Placed, RefreshBody
<1>2. PICK p \in {"ok", "refused"} : Goto(r, p)
  BY DEF Rotate
<1>3. /\ UNCHANGED <<row, otp, edits, in, who, views, claims>> /\ tokens' \subseteq Req
      /\ Follows(r, p) /\ pc'[r] = p
  BY <1>2 DEF Rotate, local, Follows, Goto, TypeOK
<1>4. Established(r)'
  BY <1>1, <1>3 DEF Established, Given
<1>. QED
  BY <1>1, <1>2, <1>3, <1>4, Quietly DEF TypeOK

LEMMA Clearing == ASSUME IInv, NEW r \in Req, ClearCodes(r) PROVE IInv'
<1>. USE DEF IInv
<1>1. Pending(r) /\ in[r] \in SendBody
  BY DEF ClearCodes, Pending, Over, Placed
<1>2. /\ Goto(r, "insert") /\ Follows(r, "insert") /\ pc'[r] = "insert" /\ Watch
      /\ UNCHANGED <<password, roles, secret, deleted, tokens, edits, local>>
      /\ codes' \subseteq User \X Code /\ lapsed' \subseteq User \X Code
  BY <1>1 DEF ClearCodes, Follows, Goto, TypeOK, row
<1>3. Established(r)'
  BY <1>2 DEF Established
<1>. QED
  BY <1>1, <1>2, <1>3, Loudly DEF TypeOK

LEMMA Inserting == ASSUME IInv, NEW r \in Req, InsertCode(r) PROVE IInv'
<1>. USE DEF IInv
<1>1. Pending(r) /\ in[r] \in SendBody /\ in[r].op = "sendOTP" /\ who[r] \in User
  BY DEF InsertCode, Pending, Over, Placed, SendBody
<1>2. PICK c \in Code : IF <<who[r], c>> \in codes \cup lapsed
                       THEN Goto(r, "refused") /\ UNCHANGED codes
                       ELSE Goto(r, "ok") /\ codes' = codes \cup {<<who[r], c>>}
  BY DEF InsertCode
<1>3. PICK p \in {"ok", "refused"} : Goto(r, p)
  BY <1>2
<1>4. /\ Follows(r, p) /\ pc'[r] = p /\ Watch /\ in'[r] = in[r]
      /\ UNCHANGED <<password, roles, secret, deleted, tokens, edits, local>>
      /\ codes' \subseteq User \X Code /\ lapsed' \subseteq User \X Code
  BY <1>1, <1>2, <1>3 DEF InsertCode, Follows, Goto, TypeOK, row, local
<1>5. Established(r)'
  BY <1>1, <1>4 DEF Established
<1>. QED
  BY <1>1, <1>3, <1>4, <1>5, Loudly DEF TypeOK

LEMMA LookingUp == ASSUME IInv, NEW r \in Req, LookupReset(r) PROVE IInv'
<1>. USE DEF IInv
<1>1. Pending(r) /\ in[r] \in ResetBody /\ in[r].op = "forgotPassword"
  BY DEF LookupReset, Pending, Over, Placed, ResetBody
<1>2. PICK p \in {"refused", "update"} : Goto(r, p)
  BY DEF LookupReset
<1>3. /\ UNCHANGED <<row, otp, tokens, edits, in, who, views, claims>>
      /\ Follows(r, p) /\ pc'[r] = p
  BY <1>1, <1>2 DEF LookupReset, local, Follows, Goto, TypeOK
<1>4. Established(r)'
  BY <1>1, <1>3 DEF Established
<1>. QED
  BY <1>1, <1>2, <1>3, <1>4, Quietly DEF TypeOK

LEMMA Resetting == ASSUME IInv, NEW r \in Req, UpdatePassword(r) PROVE IInv'
<1>. USE DEF IInv
<1>1. /\ Pending(r) /\ in[r] \in ResetBody /\ in[r].op = "forgotPassword"
      /\ in[r].password \in Password
  BY DEF UpdatePassword, Pending, Over, Placed, ResetBody
<1>2. PICK p \in {"ok", "refused"} : Goto(r, p)
  BY DEF UpdatePassword
<1>3. /\ Follows(r, p) /\ pc'[r] = p /\ Watch /\ in'[r] = in[r]
      /\ UNCHANGED <<roles, secret, deleted, codes, lapsed, tokens, edits, local>>
      /\ password' \in [User -> Password]
  BY <1>1, <1>2 DEF UpdatePassword, Follows, Goto, TypeOK, otp, local
<1>4. Established(r)'
  BY <1>1, <1>3 DEF Established
<1>. QED
  BY <1>1, <1>2, <1>3, <1>4, Loudly DEF TypeOK

LEMMA Failing == ASSUME IInv, NEW r \in Req, Fail(r) PROVE IInv'
<1>. USE DEF IInv
<1>1. /\ Pending(r) /\ Goto(r, "failed") /\ Follows(r, "failed") /\ pc'[r] = "failed"
      /\ UNCHANGED <<row, otp, tokens, edits, in, who, views, claims>>
  BY DEF Fail, local, Follows, Goto, TypeOK
<1>2. Established(r)'
  BY <1>1 DEF Established
<1>. QED
  BY <1>1, <1>2, Quietly DEF TypeOK

\* What others change, whoever is under way has seen.
LEMMA Editing == ASSUME IInv, NEW u \in User, Edit(u) PROVE IInv'
<1>. USE DEF IInv
<1>1. /\ roles' \in [User -> SUBSET Role] /\ secret' \subseteq User /\ deleted' \subseteq User
      /\ codes' \subseteq User \X Code /\ lapsed' \subseteq User \X Code /\ edits' \in 0..MaxEdits
  BY SignInAssumption DEF Edit, TypeOK, otp
<1>2. UNCHANGED <<password, tokens, pc, in, who, claims>> /\ Watch
  BY DEF Edit, local
<1>3. /\ Seeing' /\ DOMAIN views' = Req
      /\ \A q \in Req : views[q] \subseteq views'[q]
      /\ \A q \in Req : \A v \in views'[q] : v.there \in BOOLEAN /\ v.codes \subseteq Code
  BY <1>1, <1>2, Watching DEF Watch, Pending, Over
<1>4. TypeOK' /\ Placed'
  BY <1>1, <1>2, <1>3 DEF TypeOK, Placed
<1>5. ASSUME NEW q \in Req PROVE Untouched(q)
  BY <1>2, <1>3 DEF Untouched
<1>. QED
  BY <1>3, <1>4, <1>5, Established_lasts

LEMMA Starting ==
    ASSUME IInv, NEW r \in Req, StartLogin(r) \/ StartRefresh(r) \/ StartSend(r) \/ StartReset(r)
    PROVE  IInv'
<1>1. CASE StartLogin(r)
  BY <1>1, Beginning DEF StartLogin, LoginBody
<1>2. CASE StartRefresh(r)
  <2>1. PICK i \in RefreshBody : /\ pc[i.token] = "ok" /\ Begin(r, i, who[i.token], "token")
    BY <1>2 DEF StartRefresh
  <2>2. who[i.token] \in User
    BY <2>1 DEF IInv, Placed, RefreshBody
  <2>. QED
    BY <2>1, <2>2, Beginning
<1>3. CASE StartSend(r)
  BY <1>3, Beginning DEF StartSend, SendBody
<1>4. CASE StartReset(r)
  BY <1>4, Beginning DEF StartReset, ResetBody
<1>. QED
  BY <1>1, <1>2, <1>3, <1>4

LEMMA Standing == ASSUME IInv, UNCHANGED vars PROVE IInv'
<1>. USE DEF IInv, vars, row, otp, local
<1>1. TypeOK' /\ Placed'
  BY DEF TypeOK, Placed
<1>2. ASSUME NEW q \in Req, Pending(q)' PROVE View(who[q])' \in views'[q]
  <2>1. Pending(q) /\ View(who[q])' = View(who[q])
    BY <1>2, ViewStays DEF Pending, Over
  <2>. QED
    BY <2>1 DEF Seeing
<1>3. ASSUME NEW q \in Req PROVE Untouched(q)
  BY DEF Untouched
<1>. QED
  BY <1>1, <1>2, <1>3, Established_lasts DEF Seeing

LEMMA Inductive == IInv /\ [Next]_vars => IInv'
<1>. SUFFICES ASSUME IInv, [Next]_vars PROVE IInv'
  OBVIOUS
<1>1. ASSUME NEW r \in Req, Step(r) \/ Fail(r) PROVE IInv'
  BY <1>1, Reading, ReadingRoles, Validating, Signing, Finding, Renewing, Rotating, Clearing,
     Inserting, LookingUp, Resetting, Failing DEF Step
<1>. QED
  BY <1>1, Starting, Editing, Standing DEF Next, Quiescent

LEMMA Invariant == Spec => []IInv
BY Inits, Inductive, PTL DEF Spec

(* The tables and every request's local state have their types.            *)
THEOREM TypeCorrect == Spec => []TypeOK
<1>1. IInv => TypeOK
  BY DEF IInv
<1>. QED
  BY <1>1, Invariant, PTL

(* A login's tokens rest on one moment at which account and password were  *)
(* right and on the factor then demanded, and carry roles the user had.    *)
THEOREM SignInRestsHolds == Spec => []SignInRests
<1>1. IInv => SignInRests
  BY DEF IInv, Established, SignInRests, Given, Factor
<1>. QED
  BY <1>1, Invariant, PTL

(* login refuses nobody who had everything right all the while.            *)
THEOREM NotRefused == Spec => []SignInNotRefused
<1>1. IInv => SignInNotRefused
  BY DEF IInv, Established, SignInNotRefused, Doubt
<1>. QED
  BY <1>1, Invariant, PTL

(* refreshToken signs roles that its user had during the renewal.          *)
THEOREM RenewedRolesCurrent == Spec => []RenewalIsCurrent
<1>1. IInv => RenewalIsCurrent
  BY DEF IInv, Established, RenewalIsCurrent, Given
<1>. QED
  BY <1>1, Invariant, PTL
=============================================================================
