--------------------------- MODULE Approval_proofs ---------------------------
(***************************************************************************)
(* What approval keeps true for any number of businesses, managers and     *)
(* overlapping decisions, with calls that throw and pods that die.         *)
(***************************************************************************)
EXTENDS Approval, TLAPS

Enters(r) == in[r].op = "enter"
SignsIn(r) == in[r].op \in {"login", "google", "refresh"}

(* Each request is in the handler its body is for.                         *)
Phases ==
    \A r \in Req :
        /\ pc[r] = "idle" => in[r] = NoBody /\ was[r] = None /\ r \notin early
        /\ pc[r] \in {"find", "update", "reply", "same"} => Decides(r)
        /\ pc[r] \in {"lookup", "sign"} => SignsIn(r)
        /\ pc[r] \in {"guard", "row", "missing"} => Enters(r)

(* What a sign-in has read was so, and stays so: rows are not deleted and  *)
(* change no hands.                                                        *)
Claim(r) ==
    SignsIn(r) =>
        /\ r \in early => Registered(in[r].user)
        /\ pc[r] \in {"sign", "ok"} =>
            IF claim[r] = Undefined THEN in[r].op # "login" \/ r \notin early
            ELSE claim[r] \in RowId /\ owner[claim[r]] = in[r].user

(* What the guard has made of its caller's token.                          *)
Carried(r) ==
    Enters(r) =>
        /\ HasToken(in[r].token)
        /\ pc[r] = "missing" => claim[in[r].token] = Undefined
        /\ pc[r] \in {"row", "ok"} => claim[in[r].token] # Undefined
        /\ pc[r] # "notFound"

Claims == \A r \in Req : Claim(r) /\ Carried(r)

(* Who dated a row has begun, so its body is settled.                      *)
Dated ==
    /\ DatedIffVerified
    /\ \A id \in RowId : verifiedAt[id] # None => Decides(verifiedAt[id])

(* What was over before a request began stays over.                        *)
Priors == \A r \in Req : \A q \in prior[r] : Over(q)

\* q decided the same as r, meanwhile.
Rival(r, q) ==
    /\ Decides(q) /\ was[q] # None /\ Overlap(r, q)
    /\ in[q].id = in[r].id /\ in[q].want = in[r].want

(* The comparison in r's hands is out of date only through a rival.        *)
Compared ==
    \A r \in Req : Decides(r) =>
        /\ pc[r] = "update" =>
              status[in[r].id] # in[r].want \/ \E q \in Req : Rival(r, q)
        /\ pc[r] \in {"reply", "ok"} =>
              was[r] # in[r].want \/ \E q \in Req : Rival(r, q)

IInv == TypeOK /\ Phases /\ Claims /\ Dated /\ Priors /\ Compared

-----------------------------------------------------------------------------
(* The gateway drops who decides, so no decision names its manager.        *)
LEMMA NoVerifier ==
    ASSUME NEW r \in Req
    PROVE  ActiveUserId(Payload(r)) = Undefined
<1>1. DOMAIN Payload(r) = {"id", "verificationStatus"}
  BY DEF Payload
<1> QED BY <1>1 DEF ActiveUserId

LEMMA Bodies ==
    ASSUME TypeOK, NEW r \in Req
    PROVE  /\ Decides(r) => in[r] \in Decision /\ in[r].id \in RowId /\ in[r].want \in Status
           /\ SignsIn(r) => in[r] \in SignIn /\ in[r].user \in User
           /\ Enters(r) => in[r] \in Entry /\ in[r].token \in Req
           /\ ~(Decides(r) /\ Enters(r)) /\ ~(Decides(r) /\ SignsIn(r))
           /\ ~(Enters(r) /\ SignsIn(r))
BY DEF TypeOK, Decides, SignsIn, Enters, NoBody, Decision, SignIn, Entry

LEMMA OwnRow ==
    ASSUME NEW u \in User
    PROVE  IF Registered(u) THEN ProviderId(u) \in RowId /\ owner[ProviderId(u)] = u
           ELSE ProviderId(u) = Undefined
BY DEF ProviderId, Registered

LEMMA InitIInv == Init => IInv
<1> SUFFICES ASSUME Init PROVE IInv
  OBVIOUS
<1>1. TypeOK
  BY DEF Init, TypeOK, Status, Steps
<1>2. \A r \in Req : ~Decides(r) /\ ~Enters(r) /\ ~SignsIn(r) /\ pc[r] = "idle"
  BY DEF Init, Decides, Enters, SignsIn, NoBody
<1>3. Dated
  BY <1>2 DEF Init, Dated, DatedIffVerified
<1> QED
  BY <1>1, <1>2, <1>3 DEF Init, IInv, Phases, Claims, Claim, Carried, Priors, Compared

(* A business registers: no request moves.                                 *)
LEMMA CreateKeeps ==
    ASSUME IInv, NEW u \in User, NEW id \in RowId, CreateServiceProvider(u, id)
    PROVE  IInv'
<1>1. /\ owner' = [owner EXCEPT ![id] = u] /\ owner[id] = None
      /\ UNCHANGED <<status, verifiedBy, verifiedAt, pc, in, claim, was, early, prior>>
  BY DEF CreateServiceProvider
<1>2. TypeOK'
  BY <1>1 DEF IInv, TypeOK
<1>3. \A row \in RowId : owner[row] \in User => owner'[row] = owner[row]
  BY <1>1, ApprovalAssumption DEF IInv, TypeOK
<1>4. Claims'
  <2>. SUFFICES ASSUME NEW r \in Req PROVE Claim(r)' /\ Carried(r)'
    BY DEF Claims
  <2>1. Claim(r) /\ Carried(r) /\ (SignsIn(r) => in[r].user \in User)
    BY Bodies DEF IInv, Claims
  <2>2. Carried(r)'
    BY <1>1, <2>1 DEF Carried, Enters, HasToken
  <2>3. Claim(r)'
    BY <1>1, <1>3, <2>1 DEF Claim, SignsIn, Registered
  <2> QED BY <2>2, <2>3
<1> QED
  BY <1>1, <1>2, <1>4 DEF IInv, Phases, Dated, DatedIffVerified, Priors, Over, Compared,
     Rival, Overlap, Decides, Enters, SignsIn

-----------------------------------------------------------------------------
LEMMA StartKeeps ==
    ASSUME IInv, NEW r \in Req, Start(r)
    PROVE  IInv'
<1>1. /\ pc[r] = "idle" /\ in[r] = NoBody /\ was[r] = None /\ r \notin early
      /\ UNCHANGED <<owner, status, verifiedBy, verifiedAt, claim, was>>
      /\ prior' = [prior EXCEPT ![r] = {q \in Req : Over(q)}]
  BY DEF Start, IInv, Phases, tables
<1>2. PICK i \in Decision \cup SignIn \cup Entry, to \in {"find", "lookup", "guard"} :
        /\ in' = [in EXCEPT ![r] = i] /\ pc' = [pc EXCEPT ![r] = to]
        /\ \/ i \in Decision /\ to = "find" /\ early' = early
           \/ /\ i \in SignIn /\ to = "lookup"
              /\ early' = IF Registered(i.user) THEN early \cup {r} ELSE early
           \/ i \in Entry /\ HasToken(i.token) /\ to = "guard" /\ early' = early
  <2>1. CASE \E i \in Decision :
               in' = [in EXCEPT ![r] = i] /\ Goto(r, "find") /\ UNCHANGED early
    BY <2>1 DEF Goto
  <2>2. ASSUME NEW q \in Req, HasToken(q),
               in' = [in EXCEPT ![r] = [op |-> "enter", token |-> q]],
               Goto(r, "guard"), UNCHANGED early
        PROVE  \E i \in Entry : /\ in' = [in EXCEPT ![r] = i] /\ HasToken(i.token)
                                /\ pc' = [pc EXCEPT ![r] = "guard"] /\ early' = early
    <3> DEFINE i == [op |-> "enter", token |-> q]
    <3>1. i \in Entry /\ i.token = q
      BY DEF Entry
    <3> QED BY <2>2, <3>1 DEF Goto
  <2>3. CASE \E i \in SignIn :
               /\ in' = [in EXCEPT ![r] = i] /\ Goto(r, "lookup")
               /\ early' = IF Registered(i.user) THEN early \cup {r} ELSE early
    BY <2>3 DEF Goto
  <2> QED BY <2>1, <2>2, <2>3 DEF Start
<1>3. TypeOK'
  BY <1>1, <1>2 DEF IInv, TypeOK, Steps
<1>4. /\ pc'[r] = to /\ in'[r] = i
      /\ i \in Decision <=> to = "find"
      /\ i \in SignIn <=> to = "lookup"
      /\ i \in Decision => i.op = "decide"
      /\ i \in SignIn => i.op \in {"login", "google", "refresh"}
      /\ i \in Entry => i.op = "enter"
  BY <1>2 DEF IInv, TypeOK, Decision, SignIn, Entry
<1>5. \A q \in Req \ {r} : /\ pc'[q] = pc[q] /\ in'[q] = in[q] /\ prior'[q] = prior[q]
                           /\ q \in early' <=> q \in early
  BY <1>1, <1>2 DEF IInv, TypeOK
<1>6. ~Decides(r) /\ ~Enters(r) /\ ~SignsIn(r) /\ ~Over(r)
  BY <1>1 DEF Decides, Enters, SignsIn, NoBody, Over
<1>7. Phases'
  BY <1>1, <1>2, <1>4, <1>5 DEF IInv, Phases, Decides, Enters, SignsIn
<1>8. Claims'
  <2>1. \A q \in Req : HasToken(q) => HasToken(q)' /\ q # r
    BY <1>1, <1>5 DEF HasToken
  <2>2. ASSUME NEW q \in Req, q # r PROVE Claim(q)' /\ Carried(q)'
    <3>1. Claim(q) /\ Carried(q) /\ (Enters(q) => in[q].token \in Req)
      BY Bodies DEF IInv, Claims
    <3>2. Claim(q)'
      BY <1>1, <1>5, <2>2, <3>1 DEF Claim, SignsIn, Registered
    <3>3. Carried(q)'
      BY <1>1, <1>5, <2>1, <2>2, <3>1 DEF Carried, Enters
    <3> QED BY <3>2, <3>3
  <2>3. Claim(r)'
    BY <1>1, <1>2, <1>4 DEF Claim, SignsIn, Registered
  <2>4. Carried(r)'
    <3>1. i \in Entry /\ Enters(r)' => HasToken(i.token) /\ i.token \in Req
      BY <1>2, <1>4 DEF Entry
    <3>2. Enters(r)' => i \in Entry
      BY <1>2, <1>4 DEF Enters
    <3> QED BY <1>4, <2>1, <3>1, <3>2 DEF Carried, Enters
  <2> QED BY <2>2, <2>3, <2>4 DEF Claims
<1>9. Dated'
  <2>1. \A id \in RowId : verifiedAt[id] # r /\ (verifiedAt[id] = None \/ verifiedAt[id] \in Req)
    BY <1>6, ApprovalAssumption DEF IInv, TypeOK, Dated
  <2> QED BY <1>1, <1>5, <2>1 DEF IInv, Dated, DatedIffVerified, Decides
<1>10. Priors'
  <2>1. prior'[r] = {q \in Req : Over(q)}
    BY <1>1 DEF IInv, TypeOK
  <2>2. \A q \in Req : Over(q) => Over(q)'
    BY <1>5, <1>6 DEF Over
  <2>3. \A q \in Req : prior[q] \subseteq Req
    BY DEF IInv, TypeOK
  <2> QED BY <1>5, <2>1, <2>2, <2>3 DEF IInv, Priors
<1>11. Compared'
  <2>1. ASSUME NEW q \in Req, NEW s \in Req, q # r, Rival(q, s)
        PROVE  Rival(q, s)'
    BY <1>1, <1>5, <1>6, <2>1 DEF Rival, Decides, Overlap
  <2>2. ASSUME NEW q \in Req, Decides(q)', pc'[q] \in {"update", "reply", "ok"}
        PROVE  q # r /\ Decides(q)
    BY <1>4, <1>5, <2>2 DEF Decides
  <2> QED BY <1>1, <1>5, <2>1, <2>2 DEF IInv, Compared
<1> QED BY <1>3, <1>7, <1>8, <1>9, <1>10, <1>11 DEF IInv

-----------------------------------------------------------------------------
(* A step that only moves one request on.                                  *)
LEMMA MoveKeeps ==
    ASSUME IInv, NEW r \in Req, NEW to \in Steps, pc[r] # "idle", ~Over(r), Goto(r, to),
           UNCHANGED <<tables, in, was, early, prior>>,
           claim' = claim \/ (pc[r] = "lookup" /\ \E c \in RowId \cup {Undefined} :
                                 claim' = [claim EXCEPT ![r] = c]),
           to # "idle",
           to \in {"find", "update", "reply", "same"} => Decides(r),
           to \in {"lookup", "sign"} => SignsIn(r),
           to \in {"guard", "row", "missing"} => Enters(r),
           Claim(r)', Carried(r)',
           Decides(r) /\ to = "update" => status[in[r].id] # in[r].want,
           Decides(r) /\ to = "reply" => FALSE,
           Decides(r) /\ to = "ok" => pc[r] = "reply"
    PROVE  IInv'
<1> USE DEF tables
<1>1. /\ pc'[r] = to
      /\ \A q \in Req \ {r} : pc'[q] = pc[q] /\ claim'[q] = claim[q]
  BY DEF IInv, TypeOK, Goto
<1>3. TypeOK'
  <2>1. pc' \in [Req -> Steps]
    BY DEF IInv, TypeOK, Goto
  <2>2. claim' \in [Req -> RowId \cup {None, Undefined}]
    BY DEF IInv, TypeOK
  <2> QED BY <2>1, <2>2 DEF IInv, TypeOK
<1>4. Phases'
  BY <1>1 DEF IInv, Phases, Decides, Enters, SignsIn
<1>5. Claims'
  <2>1. \A q \in Req : HasToken(q) => q # r /\ HasToken(q)'
    BY <1>1 DEF HasToken, Over
  <2>2. ASSUME NEW q \in Req, q # r PROVE Claim(q)' /\ Carried(q)'
    <3>1. Claim(q) /\ Carried(q) /\ (Enters(q) => in[q].token \in Req)
      BY Bodies DEF IInv, Claims
    <3>2. Claim(q)'
      BY <1>1, <2>2, <3>1 DEF Claim, SignsIn, Registered
    <3>3. Carried(q)'
      BY <1>1, <2>1, <2>2, <3>1 DEF Carried, Enters
    <3> QED BY <3>2, <3>3
  <2> QED BY <2>2 DEF Claims
<1>6. Dated'
  BY DEF IInv, Dated, DatedIffVerified, Decides
<1>7. Priors'
  BY <1>1 DEF IInv, TypeOK, Priors, Over
<1>8. Compared'
  <2>2. \A q, s \in Req : Rival(q, s) => Rival(q, s)'
    BY DEF Rival, Decides, Overlap
  <2> QED BY <1>1, <2>2 DEF IInv, Compared, Decides
<1> QED BY <1>3, <1>4, <1>5, <1>6, <1>7, <1>8 DEF IInv

LEMMA AcceptKeeps ==
    ASSUME IInv, NEW r \in Req, AcceptProvider(r)
    PROVE  IInv'
<1> DEFINE row == in[r].id
           want == in[r].want
<1>1. /\ pc[r] = "update" /\ Decides(r) /\ ~Over(r) /\ ~Enters(r) /\ ~SignsIn(r)
      /\ row \in RowId /\ want \in Status
  BY Bodies DEF AcceptProvider, IInv, Phases, Over
<1>2. /\ was' = [was EXCEPT ![r] = status[row]]
      /\ status' = [status EXCEPT ![row] = want]
      /\ pc' = [pc EXCEPT ![r] = "reply"]
      /\ UNCHANGED <<owner, in, claim, early, prior>>
  BY DEF AcceptProvider, Goto
<1>3. Date(r) = (IF want = "VERIFIED" THEN r ELSE None) /\ Date(r) # Undefined
  BY ApprovalAssumption DEF Date
<1>4. verifiedAt' = [verifiedAt EXCEPT ![row] = Date(r)]
  BY <1>3 DEF AcceptProvider, Column
<1>5. verifiedBy' \in [RowId -> Manager \cup {None}]
  <2> DEFINE userId == IF want = "VERIFIED" THEN ActiveUserId(Payload(r)) ELSE None
  <2>1. userId \in {Undefined, None}
    BY NoVerifier
  <2>2. verifiedBy' = [verifiedBy EXCEPT ![row] = Column(@, userId)]
    BY DEF AcceptProvider
  <2>3. Column(verifiedBy[row], userId) \in Manager \cup {None}
    BY <1>1, <2>1 DEF Column, IInv, TypeOK
  <2> QED BY <2>2, <2>3 DEF IInv, TypeOK
<1>6. TypeOK'
  BY <1>1, <1>2, <1>3, <1>4, <1>5 DEF IInv, TypeOK, Steps
<1>7. Phases'
  BY <1>1, <1>2 DEF IInv, TypeOK, Phases, Decides, Enters, SignsIn
<1>8. Claims'
  <2>1. /\ \A q \in Req \ {r} : pc'[q] = pc[q]
        /\ \A q \in Req : HasToken(q) => HasToken(q)'
    BY <1>1, <1>2 DEF IInv, TypeOK, HasToken, Over
  <2> QED
    BY <1>1, <1>2, <2>1, Bodies DEF IInv, Claims, Claim, Carried, Enters, SignsIn, Registered
<1>9. Dated'
  <2>1. status'[row] = want /\ verifiedAt'[row] = Date(r)
    BY <1>1, <1>2, <1>4 DEF IInv, TypeOK
  <2>2. \A b \in RowId \ {row} : status'[b] = status[b] /\ verifiedAt'[b] = verifiedAt[b]
    BY <1>2, <1>4 DEF IInv, TypeOK
  <2>3. None # r
    BY ApprovalAssumption
  <2> QED
    BY <1>1, <1>2, <1>3, <2>1, <2>2, <2>3 DEF IInv, Dated, DatedIffVerified, Decides
<1>10. Priors'
  BY <1>1, <1>2 DEF IInv, TypeOK, Priors, Over
<1>11. Compared'
  <2>1. was'[r] = status[row] /\ status[row] # None
    BY <1>1, <1>2, ApprovalAssumption DEF IInv, TypeOK
  <2>2. \A q \in Req \ {r} : was'[q] = was[q] /\ pc'[q] = pc[q]
    BY <1>2 DEF IInv, TypeOK
  <2>3. ASSUME NEW q \in Req, NEW s \in Req, Rival(q, s)
        PROVE  Rival(q, s)'
    BY <1>2, <2>1, <2>2, <2>3 DEF Rival, Decides, Overlap
  <2>4. ASSUME NEW q \in Req \ {r}, Decides(q), pc[q] = "update"
        PROVE  status'[in[q].id] # in[q].want \/ \E s \in Req : Rival(q, s)'
    <3>1. CASE in[q].id = row /\ in[q].want = want
      <4>1. Overlap(q, r)
        BY <1>1, <2>4 DEF IInv, Priors, Over, Overlap
      <4>2. Rival(q, r)'
        BY <1>1, <1>2, <2>1, <3>1, <4>1 DEF Rival, Decides, Overlap
      <4> QED BY <4>2
    <3>2. CASE in[q].id = row /\ in[q].want # want
      BY <1>1, <1>2, <3>2 DEF IInv, TypeOK
    <3>3. CASE in[q].id # row
      <4>1. status'[in[q].id] = status[in[q].id]
        BY <1>2, <2>4, <3>3, Bodies DEF IInv, TypeOK
      <4> QED BY <2>3, <2>4, <4>1 DEF IInv, Compared
    <3> QED BY <3>1, <3>2, <3>3
  <2>5. was'[r] # want \/ \E s \in Req : Rival(r, s)'
    BY <1>1, <2>1, <2>3 DEF IInv, Compared
  <2>6. pc'[r] = "reply"
    BY <1>2 DEF IInv, TypeOK
  <2>7. ASSUME NEW q \in Req \ {r}, Decides(q), pc[q] \in {"reply", "ok"}
        PROVE  was'[q] # in[q].want \/ \E s \in Req : Rival(q, s)'
    BY <2>2, <2>3, <2>7 DEF IInv, Compared
  <2> QED BY <1>2, <2>2, <2>4, <2>5, <2>6, <2>7 DEF Compared, Decides
<1> QED BY <1>6, <1>7, <1>8, <1>9, <1>10, <1>11 DEF IInv

-----------------------------------------------------------------------------
LEMMA NextIInv == IInv /\ [Next]_vars => IInv'
<1> SUFFICES ASSUME IInv, [Next]_vars PROVE IInv'
  OBVIOUS
<1> USE DEF Steps
<1>1. ASSUME NEW r \in Req, Start(r) PROVE IInv'
  BY <1>1, StartKeeps
<1>2. ASSUME NEW r \in Req, FindProvider(r) PROVE IInv'
  <2>1. pc[r] = "find" /\ Decides(r) /\ ~Enters(r) /\ ~SignsIn(r) /\ ~Over(r)
    BY <1>2, Bodies DEF FindProvider, IInv, Phases, Over
  <2>2. PICK to \in {"notFound", "same", "update"} :
          Goto(r, to) /\ (to = "update" => status[in[r].id] # in[r].want)
    BY <1>2 DEF FindProvider
  <2>3. Claim(r)' /\ Carried(r)'
    BY <1>2, <2>1 DEF FindProvider, Claim, Carried, Enters, SignsIn
  <2> QED BY <1>2, <2>1, <2>2, <2>3, MoveKeeps DEF FindProvider
<1>3. ASSUME NEW r \in Req, AcceptProvider(r) PROVE IInv'
  BY <1>3, AcceptKeeps
<1>4. ASSUME NEW r \in Req, Reply(r) PROVE IInv'
  <2>1. pc[r] = "reply" /\ Decides(r) /\ ~Enters(r) /\ ~SignsIn(r) /\ ~Over(r)
    BY <1>4, Bodies DEF Reply, IInv, Phases, Over
  <2>2. Claim(r)' /\ Carried(r)'
    BY <1>4, <2>1 DEF Reply, Claim, Carried, Enters, SignsIn
  <2> QED BY <1>4, <2>1, <2>2, MoveKeeps DEF Reply
<1>5. ASSUME NEW r \in Req, CheckClaim(r) PROVE IInv'
  <2>1. pc[r] = "guard" /\ Enters(r) /\ ~Decides(r) /\ ~SignsIn(r) /\ ~Over(r)
    BY <1>5, Bodies DEF CheckClaim, IInv, Phases, Over
  <2>2. PICK to \in {"missing", "row"} :
          /\ Goto(r, to)
          /\ to = "missing" <=> claim[in[r].token] = Undefined
    BY <1>5 DEF CheckClaim
  <2>3. pc'[r] = to /\ UNCHANGED <<tables, in, claim, was, early, prior>>
    BY <1>5, <2>2 DEF CheckClaim, Goto, IInv, TypeOK
  <2>4. HasToken(in[r].token) /\ in[r].token \in Req /\ in[r].token # r
    BY <2>1, Bodies DEF IInv, Claims, Carried, HasToken
  <2>5. HasToken(in[r].token)'
    BY <2>2, <2>3, <2>4 DEF HasToken, Goto, IInv, TypeOK
  <2>6. Claim(r)' /\ Carried(r)'
    BY <2>1, <2>2, <2>3, <2>5 DEF Claim, Carried, Enters, SignsIn
  <2> QED BY <2>1, <2>2, <2>3, <2>6, MoveKeeps
<1>6. ASSUME NEW r \in Req, CheckRow(r) PROVE IInv'
  <2> DEFINE id == claim[in[r].token]
  <2>1. pc[r] = "row" /\ Enters(r) /\ ~Decides(r) /\ ~SignsIn(r) /\ ~Over(r)
    BY <1>6, Bodies DEF CheckRow, IInv, Phases, Over
  <2>2. HasToken(in[r].token) /\ in[r].token \in Req /\ in[r].token # r /\ id # Undefined
    BY <2>1, Bodies DEF IInv, Claims, Carried, HasToken
  <2>3. id \in RowId /\ owner[id] \in User /\ status[id] \in Status
    BY <2>2, Bodies DEF IInv, TypeOK, Claims, Claim, HasToken, SignsIn
  <2>4. Goto(r, "ok")
    BY <1>6, <2>3, ApprovalAssumption DEF CheckRow, Falsy
  <2>5. pc'[r] = "ok" /\ UNCHANGED <<tables, in, claim, was, early, prior>>
    BY <1>6, <2>4 DEF CheckRow, Goto, IInv, TypeOK
  <2>6. HasToken(in[r].token)'
    BY <2>2, <2>4, <2>5 DEF HasToken, Goto, IInv, TypeOK
  <2>7. Claim(r)' /\ Carried(r)'
    BY <2>1, <2>2, <2>5, <2>6 DEF Claim, Carried, Enters, SignsIn
  <2> QED BY <2>1, <2>4, <2>5, <2>7, MoveKeeps
<1>7. ASSUME NEW r \in Req, Throw(r) \/ Crash(r) PROVE IInv'
  <2>1. PICK to \in {"error", "crashed"} : Goto(r, to)
    BY <1>7 DEF Throw, Crash
  <2>2. pc[r] # "idle" /\ ~Over(r) /\ UNCHANGED <<tables, in, claim, was, early, prior>>
    BY <1>7 DEF Throw, Crash, Over
  <2>3. pc'[r] = to
    BY <2>1 DEF Goto, IInv, TypeOK
  <2>4. Enters(r) => HasToken(in[r].token) /\ in[r].token \in Req /\ in[r].token # r
    BY <2>2, Bodies DEF IInv, Claims, Carried, HasToken, Over
  <2>5. Enters(r) => HasToken(in[r].token)'
    BY <2>1, <2>2, <2>4 DEF HasToken, Goto, IInv, TypeOK
  <2>6. Claim(r)' /\ Carried(r)'
    BY <2>2, <2>3, <2>5 DEF IInv, Claims, Claim, Carried, Enters, SignsIn, Registered, tables
  <2> QED BY <2>1, <2>2, <2>6, MoveKeeps
<1>8. ASSUME NEW u \in User, NEW id \in RowId, CreateServiceProvider(u, id) PROVE IInv'
  BY <1>8, CreateKeeps
\* A login reads its user's row if there is one; nobody else reads any.
<1>9. ASSUME NEW r \in Req, FindUser(r) PROVE IInv'
  <2>1. pc[r] = "lookup" /\ SignsIn(r) /\ ~Decides(r) /\ ~Enters(r) /\ ~Over(r)
        /\ in[r].user \in User
    BY <1>9, Bodies DEF FindUser, IInv, Phases, Over
  <2> DEFINE c == IF in[r].op = "login" THEN ProviderId(in[r].user) ELSE Undefined
  <2>2. /\ Goto(r, "sign") /\ claim' = [claim EXCEPT ![r] = c]
        /\ UNCHANGED <<tables, in, was, early, prior>>
    BY <1>9 DEF FindUser
  <2>3. c \in RowId \cup {Undefined}
    BY <2>1, OwnRow
  <2>4. claim'[r] = c /\ pc'[r] = "sign"
    BY <2>2 DEF Goto, IInv, TypeOK
  <2>5. r \in early => Registered(in[r].user)
    BY <2>1 DEF IInv, Claims, Claim
  <2>6. IF c = Undefined THEN in[r].op # "login" \/ r \notin early
        ELSE c \in RowId /\ owner[c] = in[r].user
    BY <2>1, <2>5, OwnRow, ApprovalAssumption
  <2>7. Claim(r)' /\ Carried(r)'
    BY <2>1, <2>2, <2>4, <2>5, <2>6 DEF Claim, Carried, Enters, SignsIn, Registered, tables
  <2> HIDE DEF c
  <2> QED BY <2>1, <2>2, <2>3, <2>7, MoveKeeps
<1>11. ASSUME NEW r \in Req, SignAccessToken(r) PROVE IInv'
  <2>1. pc[r] = "sign" /\ SignsIn(r) /\ ~Decides(r) /\ ~Enters(r) /\ ~Over(r)
    BY <1>11, Bodies DEF SignAccessToken, IInv, Phases, Over
  <2>2. Goto(r, "ok") /\ pc'[r] = "ok" /\ UNCHANGED <<tables, in, claim, was, early, prior>>
    BY <1>11 DEF SignAccessToken, Goto, IInv, TypeOK
  <2>3. Claim(r)' /\ Carried(r)'
    BY <2>1, <2>2 DEF IInv, Claims, Claim, Carried, Enters, SignsIn, Registered, tables
  <2> QED BY <2>1, <2>2, <2>3, MoveKeeps
<1>10. CASE UNCHANGED vars
  BY <1>10 DEF vars, tables, IInv, TypeOK, Phases, Claims, Claim, Carried, HasToken, Enters,
     SignsIn, Registered, Dated, DatedIffVerified, Priors, Over, Compared, Rival, Overlap, Decides
<1> QED
  BY <1>1, <1>2, <1>3, <1>4, <1>5, <1>6, <1>7, <1>8, <1>9, <1>10, <1>11
  DEF Next, Step, Quiescent

LEMMA Inductive == Spec => []IInv
BY InitIInv, NextIInv, PTL DEF Spec

-----------------------------------------------------------------------------
(* The tables and every request's local state keep their types; in         *)
(* particular, no undefined value reaches a column.                        *)
THEOREM TypeCorrect == Spec => []TypeOK
<1>1. IInv => TypeOK
  BY DEF IInv
<1> QED BY <1>1, Inductive, PTL

(* updateProviderStatus acknowledges a decision that changed nothing only  *)
(* beside a rival for the same decision: read, compare and write are apart.*)
THEOREM AckedDecisionIsChangeHolds == Spec => []AckedDecisionIsChange
<1>1. IInv => AckedDecisionIsChange
  BY DEF IInv, Compared, AckedDecisionIsChange, Rival, Overlap
<1> QED BY <1>1, Inductive, PTL

(* acceptProvider dates a row while it is verified and at no other time.   *)
THEOREM DatedIffVerifiedHolds == Spec => []DatedIffVerified
<1>1. IInv => DatedIffVerified
  BY DEF IInv, Dated
<1> QED BY <1>1, Inductive, PTL

(* VerifiedProviderGuard looks up its caller's own row and finds it; a     *)
(* business that was registered before it signed in by password is never   *)
(* missed, whatever happens between the read and the signature.            *)
THEOREM GuardReadsOwnRowHolds == Spec => []GuardReadsOwnRow
<1>1. IInv => GuardReadsOwnRow
  <2> SUFFICES ASSUME IInv, NEW r \in Req, Enters(r)
               PROVE  LET q == in[r].token IN
                      /\ pc[r] = "missing" => in[q].op # "login" \/ q \notin early
                      /\ pc[r] \in {"row", "ok"} =>
                            claim[q] \in RowId /\ owner[claim[q]] = in[q].user
                      /\ pc[r] # "notFound"
    BY DEF GuardReadsOwnRow, Enters
  <2>1. Carried(r) /\ in[r].token \in Req
    BY Bodies DEF IInv, Claims
  <2>2. Claim(in[r].token) /\ HasToken(in[r].token)
    BY <2>1 DEF IInv, Claims, Carried
  <2> QED BY <2>1, <2>2 DEF Carried, Claim, HasToken, SignsIn
<1> QED BY <1>1, Inductive, PTL
=============================================================================
