--------------------------- MODULE Sessions_proofs ---------------------------
(* Proofs about Sessions, for any requests, users and interleaving.        *)
EXTENDS Sessions, TLAPS

SignsIn(r) == in[r].op \in {"login", "google"}

\* What the place of a request tells of its body, its calls and its device.
Placed ==
    \A r \in Req :
        /\ in[r] = NoBody <=> pc[r] = "idle"
        /\ pc[r] \in {"authenticate", "exchange", "findUser", "create", "device", "refused"}
               => SignsIn(r)
        /\ pc[r] = "find" => in[r].op = "refresh"
        /\ pc[r] \in {"verify", "delete", "deactivate"} => in[r].op = "logout"
        /\ pc[r] \in {"idle", "authenticate", "exchange", "findUser", "create", "device",
                      "find", "verify", "delete"}
               => session[r] = None /\ consumed[r] = None
        /\ pc[r] \notin {"join", "ok", "unauthorized", "refused", "crashed"} \/ in[r].op = "logout"
               => upd[r] = "none" /\ del[r] = "none" /\ ins[r] = "none"
        /\ SignsIn(r) => /\ upd[r] = "none" /\ del[r] = "none" /\ consumed[r] = None
                         /\ session[r] \in {None, r}
        /\ pc[r] \in {"join", "deactivate"} => session[r] # None
        /\ pc[r] = "join" /\ SignsIn(r) => ins[r] # "none"
        /\ pc[r] = "join" /\ in[r].op = "refresh" => del[r] # "none" /\ ins[r] # "none"
        /\ pc[r] \in {"join", "deactivate"} /\ in[r].op = "logout" => consumed[r] # None
        /\ pc[r] = "ok" =>
            /\ session[r] # None
            /\ in[r].op \in Issuers => ins[r] = "done"
            /\ ~SignsIn(r) => consumed[r] # None
        /\ ins[r] # "none" \/ del[r] # "none" => session[r] # None
        /\ ins[r] = "done" <=> r \in issued
        /\ del[r] # "none" => in[r].op = "refresh"
        /\ in[r].op = "refresh" => (del[r] = "done" <=> consumed[r] # None)

\* The presented token was delivered, and a request works for its device.
Presenting ==
    \A r \in Req : in[r] \in Present =>
        /\ Delivered(in[r].token)
        /\ session[r] # None => session[r] = session[in[r].token]
        /\ consumed[r] \in {None, in[r].token}

\* Each issued token is in the table or spent, never both and by one request.
Spending ==
    /\ \A t \in issued : t \in tokens \/ \E r \in Req : consumed[r] = t
    /\ \A r \in Req : consumed[r] # None =>
        /\ consumed[r] \notin tokens
        /\ \A q \in Req : consumed[q] = consumed[r] => q = r

\* r is the last link of its device's chain of sign-in, refreshes and logout.
Holder(r) ==
    /\ session[r] # None
    /\ SignsIn(r) \/ consumed[r] # None
    /\ \A q \in Req : consumed[q] # r

\* A device has one last link, and only a logout deactivates it.
Chain ==
    /\ \A d \in devices : session[d] = d
    /\ \A r, s \in Req : Holder(r) /\ Holder(s) /\ session[r] = session[s] => r = s
    /\ \A d \in devices \ active :
        \E r \in Req : in[r].op = "logout" /\ session[r] = d /\ consumed[r] # None
    /\ \A r \in Req : pc[r] \in {"join", "ok"} /\ in[r].op = "logout"
                        => session[r] \notin active

LEMMA TokenOf ==
    ASSUME TypeOK, NEW r \in Req, in[r].op \in {"refresh", "logout"}
    PROVE  in[r] \in Present /\ in[r].token \in Req
BY DEF TypeOK, SignIn, Present, NoBody

LEMMA InitPlaced == Init => TypeOK /\ Placed
BY SessionsAssumption
DEF Init, TypeOK, Placed, Steps, CallStates, SignsIn, NoBody, Issuers

LEMMA NextType == TypeOK /\ Placed /\ [Next]_vars => TypeOK'
<1>. SUFFICES ASSUME TypeOK, Placed, [Next]_vars PROVE TypeOK'
  OBVIOUS
<1>0. CASE UNCHANGED vars
  BY <1>0 DEF TypeOK, vars, tables, calls
<1>1. ASSUME NEW r \in Req, StartSignIn(r) PROVE TypeOK'
  BY <1>1
  DEF TypeOK, Placed, SignsIn, SignIn, Present, NoBody, Steps, CallStates, StartSignIn,
      Goto, tables, calls
<1>2. ASSUME NEW r \in Req, Authenticate(r) PROVE TypeOK'
  BY <1>2
  DEF TypeOK, Placed, SignsIn, SignIn, Present, NoBody, Steps, CallStates,
      Authenticate, Goto, tables, calls
<1>3. ASSUME NEW r \in Req, ExchangeCode(r) PROVE TypeOK'
  BY <1>3
  DEF TypeOK, Placed, SignsIn, SignIn, Present, NoBody, Steps, CallStates,
      ExchangeCode, Goto, tables, calls
<1>4. ASSUME NEW r \in Req, FindGoogleUser(r) PROVE TypeOK'
  BY <1>4
  DEF TypeOK, Placed, SignsIn, SignIn, Present, NoBody, Steps, CallStates,
      FindGoogleUser, Goto, tables, calls
<1>5. ASSUME NEW r \in Req, CreateGoogleUser(r) PROVE TypeOK'
  BY <1>5
  DEF TypeOK, Placed, SignsIn, SignIn, Present, NoBody, Steps, CallStates,
      CreateGoogleUser, Goto, calls
<1>6. ASSUME NEW r \in Req, CreateDevice(r) PROVE TypeOK'
  BY <1>6
  DEF TypeOK, Placed, SignsIn, SignIn, Present, NoBody, Steps, CallStates,
      CreateDevice, Goto
<1>7. ASSUME NEW r \in Req, StartPresent(r) PROVE TypeOK'
  BY <1>7
  DEF TypeOK, Placed, SignsIn, SignIn, Present, NoBody, Steps, CallStates,
      StartPresent, Delivered, Goto, tables, calls
<1>8. ASSUME NEW r \in Req, FindToken(r) PROVE TypeOK'
  BY <1>8
  DEF TypeOK, Placed, SignsIn, SignIn, Present, NoBody, Steps, CallStates, FindToken,
      Goto, tables, calls
<1>9. ASSUME NEW r \in Req, UpdateDevice(r) PROVE TypeOK'
  BY <1>9
  DEF TypeOK, Placed, SignsIn, SignIn, Present, NoBody, Steps, CallStates,
      UpdateDevice, tables
<1>10. ASSUME NEW r \in Req, DeleteToken(r) PROVE TypeOK'
  BY <1>10
  DEF TypeOK, Placed, SignsIn, SignIn, Present, NoBody, Steps, CallStates, DeleteToken, Withdrawn
<1>11. ASSUME NEW r \in Req, InsertToken(r) PROVE TypeOK'
  BY <1>11
  DEF TypeOK, Placed, SignsIn, SignIn, Present, NoBody, Steps, CallStates, InsertToken
<1>12. ASSUME NEW r \in Req, Settle(r) PROVE TypeOK'
  BY <1>12
  DEF TypeOK, Placed, SignsIn, SignIn, Present, NoBody, Steps, CallStates, Settle, AllDone, Rejected,
      Rejection, Goto, tables, calls
<1>13. ASSUME NEW r \in Req, VerifyLogout(r) PROVE TypeOK'
  BY <1>13
  DEF TypeOK, Placed, SignsIn, SignIn, Present, NoBody, Steps, CallStates,
      VerifyLogout, Goto, tables, calls
<1>14. ASSUME NEW r \in Req, LogoutDelete(r) PROVE TypeOK'
  BY <1>14, TokenOf DEF TypeOK, Placed, Steps, LogoutDelete, Goto, calls
<1>15. ASSUME NEW r \in Req, Deactivate(r) PROVE TypeOK'
  BY <1>15
  DEF TypeOK, Placed, SignsIn, SignIn, Present, NoBody, Steps, CallStates, Deactivate,
      Goto, calls
<1>16. ASSUME NEW r \in Req, Throw(r) PROVE TypeOK'
  BY <1>16
  DEF TypeOK, Placed, SignsIn, SignIn, Present, NoBody, Steps, CallStates, Throw, Goto,
      tables, calls
<1>17. ASSUME NEW r \in Req, ThrowInCall(r) PROVE TypeOK'
  BY <1>17
  DEF TypeOK, Placed, SignsIn, SignIn, Present, NoBody, Steps, CallStates, ThrowInCall,
      tables
<1>18. ASSUME NEW r \in Req, Crash(r) PROVE TypeOK'
  BY <1>18
  DEF TypeOK, Placed, SignsIn, SignIn, Present, NoBody, Steps, CallStates, Crash, Lose,
      Goto, tables
<1>19. ASSUME NEW r \in Req, Expire(r) PROVE TypeOK'
  BY <1>19
  DEF TypeOK, Placed, SignsIn, SignIn, Present, NoBody, Steps, CallStates, Expire, calls
<1>20. ASSUME NEW u \in User, SoftDelete(u) PROVE TypeOK'
  BY <1>20
  DEF TypeOK, Placed, SignsIn, SignIn, Present, NoBody, Steps, CallStates, SoftDelete,
      calls
<1>. QED
  BY <1>0, <1>1, <1>2, <1>3, <1>4, <1>5, <1>6, <1>7, <1>8, <1>9, <1>10, <1>11, <1>12,
      <1>13, <1>14, <1>15, <1>16, <1>17, <1>18, <1>19, <1>20 DEF Next, Step, Quiescent

LEMMA NextPlaced == TypeOK /\ Placed /\ [Next]_vars => Placed'
<1>. SUFFICES ASSUME TypeOK, Placed, [Next]_vars PROVE Placed'
  OBVIOUS
<1>0. CASE UNCHANGED vars
  BY <1>0 DEF Placed, SignsIn, vars, tables, calls
<1>1. ASSUME NEW r \in Req, StartSignIn(r) PROVE Placed'
  BY <1>1, SessionsAssumption
  DEF Placed, TypeOK, SignsIn, SignIn, Present, Issuers, Steps, CallStates, NoBody,
      StartSignIn, Goto, tables, calls
<1>2. ASSUME NEW r \in Req, Authenticate(r) PROVE Placed'
  BY <1>2, SessionsAssumption
  DEF Placed, TypeOK, SignsIn, SignIn, Present, Issuers, Steps, CallStates, NoBody,
      Authenticate, Goto, tables, calls
<1>3. ASSUME NEW r \in Req, ExchangeCode(r) PROVE Placed'
  BY <1>3, SessionsAssumption
  DEF Placed, TypeOK, SignsIn, SignIn, Present, Issuers, Steps, CallStates, NoBody,
      ExchangeCode, Goto, tables, calls
<1>4. ASSUME NEW r \in Req, FindGoogleUser(r) PROVE Placed'
  BY <1>4, SessionsAssumption
  DEF Placed, TypeOK, SignsIn, SignIn, Present, Issuers, Steps, CallStates, NoBody,
      FindGoogleUser, Goto, tables, calls
<1>5. ASSUME NEW r \in Req, CreateGoogleUser(r) PROVE Placed'
  BY <1>5, SessionsAssumption
  DEF Placed, TypeOK, SignsIn, SignIn, Present, Issuers, Steps, CallStates, NoBody,
      CreateGoogleUser, Goto, calls
<1>6. ASSUME NEW r \in Req, CreateDevice(r) PROVE Placed'
  BY <1>6, SessionsAssumption
  DEF Placed, TypeOK, SignsIn, SignIn, Present, Issuers, Steps, CallStates, NoBody,
      CreateDevice, Goto
<1>7. ASSUME NEW r \in Req, StartPresent(r) PROVE Placed'
  BY <1>7, SessionsAssumption
  DEF Placed, TypeOK, SignsIn, SignIn, Present, Issuers, Steps, CallStates, NoBody,
      StartPresent, Delivered, Goto, tables, calls
<1>8. ASSUME NEW r \in Req, FindToken(r) PROVE Placed'
  BY <1>8, SessionsAssumption
  DEF Placed, TypeOK, SignsIn, SignIn, Present, Issuers, Steps, CallStates, NoBody,
      FindToken, Goto, tables, calls
<1>9. ASSUME NEW r \in Req, UpdateDevice(r) PROVE Placed'
  BY <1>9, SessionsAssumption
  DEF Placed, TypeOK, SignsIn, SignIn, Present, Issuers, Steps, CallStates, NoBody,
      UpdateDevice, tables
<1>10. ASSUME NEW r \in Req, DeleteToken(r) PROVE Placed'
  BY <1>10, SessionsAssumption
  DEF Placed, TypeOK, SignsIn, SignIn, Present, Issuers, Steps, CallStates, NoBody,
      DeleteToken, Withdrawn
<1>11. ASSUME NEW r \in Req, InsertToken(r) PROVE Placed'
  BY <1>11, SessionsAssumption
  DEF Placed, TypeOK, SignsIn, SignIn, Present, Issuers, Steps, CallStates, NoBody,
      InsertToken
<1>12. ASSUME NEW r \in Req, Settle(r) PROVE Placed'
  BY <1>12, SessionsAssumption
  DEF Placed, TypeOK, SignsIn, SignIn, Present, Issuers, Steps, CallStates, NoBody,
      Settle, AllDone, Rejected, Rejection, Goto, tables, calls
<1>13. ASSUME NEW r \in Req, VerifyLogout(r) PROVE Placed'
  BY <1>13, SessionsAssumption
  DEF Placed, TypeOK, SignsIn, SignIn, Present, Issuers, Steps, CallStates, NoBody,
      VerifyLogout, Goto, tables, calls
<1>14. ASSUME NEW r \in Req, LogoutDelete(r) PROVE Placed'
  BY <1>14, SessionsAssumption
  DEF Placed, TypeOK, SignsIn, SignIn, Present, Issuers, Steps, CallStates, NoBody,
      LogoutDelete, Goto, calls
<1>15. ASSUME NEW r \in Req, Deactivate(r) PROVE Placed'
  BY <1>15, SessionsAssumption
  DEF Placed, TypeOK, SignsIn, SignIn, Present, Issuers, Steps, CallStates, NoBody,
      Deactivate, Goto, calls
<1>16. ASSUME NEW r \in Req, Throw(r) PROVE Placed'
  BY <1>16, SessionsAssumption
  DEF Placed, TypeOK, SignsIn, SignIn, Present, Issuers, Steps, CallStates, NoBody,
      Throw, Goto, tables, calls
<1>17. ASSUME NEW r \in Req, ThrowInCall(r) PROVE Placed'
  BY <1>17, SessionsAssumption
  DEF Placed, TypeOK, SignsIn, SignIn, Present, Issuers, Steps, CallStates, NoBody,
      ThrowInCall, tables
<1>18. ASSUME NEW r \in Req, Crash(r) PROVE Placed'
  BY <1>18, SessionsAssumption
  DEF Placed, TypeOK, SignsIn, SignIn, Present, Issuers, Steps, CallStates, NoBody,
      Crash, Lose, Goto, tables
<1>19. ASSUME NEW r \in Req, Expire(r) PROVE Placed'
  BY <1>19, SessionsAssumption
  DEF Placed, TypeOK, SignsIn, SignIn, Present, Issuers, Steps, CallStates, NoBody,
      Expire, calls
<1>20. ASSUME NEW u \in User, SoftDelete(u) PROVE Placed'
  BY <1>20, SessionsAssumption
  DEF Placed, TypeOK, SignsIn, SignIn, Present, Issuers, Steps, CallStates, NoBody,
      SoftDelete, calls
<1>. QED
  BY <1>0, <1>1, <1>2, <1>3, <1>4, <1>5, <1>6, <1>7, <1>8, <1>9, <1>10, <1>11, <1>12,
      <1>13, <1>14, <1>15, <1>16, <1>17, <1>18, <1>19, <1>20 DEF Next, Step, Quiescent

\* A body, an answer of success, a device and a spent token stay a request's.
Kept ==
    \A q \in Req :
        /\ pc[q] # "idle" => pc'[q] # "idle" /\ in'[q] = in[q]
        /\ Delivered(q) => Delivered(q)'
        /\ session[q] # None => session'[q] = session[q]
        /\ consumed[q] # None => consumed'[q] = consumed[q]

LEMMA NextKept == TypeOK /\ Placed /\ [Next]_vars => Kept
<1>. SUFFICES ASSUME TypeOK, Placed, [Next]_vars PROVE Kept
  OBVIOUS
<1>0. CASE UNCHANGED vars
  BY <1>0 DEF Kept, Delivered, vars, tables, calls
<1>1. ASSUME NEW r \in Req, StartSignIn(r) PROVE Kept
  BY <1>1
  DEF Kept, Delivered, TypeOK, Placed, SignsIn, Over, Answered, StartSignIn, Goto,
      tables, calls
<1>2. ASSUME NEW r \in Req, Authenticate(r) PROVE Kept
  BY <1>2
  DEF Kept, Delivered, TypeOK, Placed, SignsIn, Over, Answered, Authenticate, Goto,
      tables, calls
<1>3. ASSUME NEW r \in Req, ExchangeCode(r) PROVE Kept
  BY <1>3
  DEF Kept, Delivered, TypeOK, Placed, SignsIn, Over, Answered, ExchangeCode, Goto,
      tables, calls
<1>4. ASSUME NEW r \in Req, FindGoogleUser(r) PROVE Kept
  BY <1>4
  DEF Kept, Delivered, TypeOK, Placed, SignsIn, Over, Answered, FindGoogleUser, Goto,
      tables, calls
<1>5. ASSUME NEW r \in Req, CreateGoogleUser(r) PROVE Kept
  BY <1>5
  DEF Kept, Delivered, TypeOK, Placed, SignsIn, Over, Answered, CreateGoogleUser, Goto,
      calls
<1>6. ASSUME NEW r \in Req, CreateDevice(r) PROVE Kept
  BY <1>6, TokenOf
  DEF Kept, Delivered, TypeOK, Placed, SignsIn, Over, Answered, CreateDevice, Goto
<1>7. ASSUME NEW r \in Req, StartPresent(r) PROVE Kept
  BY <1>7
  DEF Kept, Delivered, TypeOK, Placed, SignsIn, Over, Answered, StartPresent, Goto,
      tables, calls
<1>8. ASSUME NEW r \in Req, FindToken(r) PROVE Kept
  BY <1>8, TokenOf
  DEF Kept, Delivered, TypeOK, Placed, SignsIn, Over, Answered, FindToken, Goto,
      tables, calls
<1>9. ASSUME NEW r \in Req, UpdateDevice(r) PROVE Kept
  BY <1>9
  DEF Kept, Delivered, TypeOK, Placed, SignsIn, Over, Answered, UpdateDevice, tables
<1>10. ASSUME NEW r \in Req, DeleteToken(r) PROVE Kept
  BY <1>10, TokenOf
  DEF Kept, Delivered, TypeOK, Placed, SignsIn, Over, Answered, DeleteToken, Withdrawn
<1>11. ASSUME NEW r \in Req, InsertToken(r) PROVE Kept
  BY <1>11 DEF Kept, Delivered, TypeOK, Placed, SignsIn, Over, Answered, InsertToken
<1>12. ASSUME NEW r \in Req, Settle(r) PROVE Kept
  BY <1>12
  DEF Kept, Delivered, TypeOK, Placed, SignsIn, Over, Answered, Settle, AllDone, Rejected, Rejection,
      Goto, tables, calls
<1>13. ASSUME NEW r \in Req, VerifyLogout(r) PROVE Kept
  BY <1>13
  DEF Kept, Delivered, TypeOK, Placed, SignsIn, Over, Answered, VerifyLogout, Goto,
      tables, calls
<1>14. ASSUME NEW r \in Req, LogoutDelete(r) PROVE Kept
  BY <1>14, TokenOf
  DEF Kept, Delivered, TypeOK, Placed, SignsIn, Over, Answered, LogoutDelete, Goto,
      calls
<1>15. ASSUME NEW r \in Req, Deactivate(r) PROVE Kept
  BY <1>15
  DEF Kept, Delivered, TypeOK, Placed, SignsIn, Over, Answered, Deactivate, Goto, calls
<1>16. ASSUME NEW r \in Req, Throw(r) PROVE Kept
  BY <1>16
  DEF Kept, Delivered, TypeOK, Placed, SignsIn, Over, Answered, Throw, Goto, tables,
      calls
<1>17. ASSUME NEW r \in Req, ThrowInCall(r) PROVE Kept
  BY <1>17
  DEF Kept, Delivered, TypeOK, Placed, SignsIn, Over, Answered, ThrowInCall, tables
<1>18. ASSUME NEW r \in Req, Crash(r) PROVE Kept
  BY <1>18
  DEF Kept, Delivered, TypeOK, Placed, SignsIn, Over, Answered, Crash, Lose, Goto,
      tables
<1>19. ASSUME NEW r \in Req, Expire(r) PROVE Kept
  BY <1>19 DEF Kept, Delivered, TypeOK, Placed, SignsIn, Over, Answered, Expire, calls
<1>20. ASSUME NEW u \in User, SoftDelete(u) PROVE Kept
  BY <1>20
  DEF Kept, Delivered, TypeOK, Placed, SignsIn, Over, Answered, SoftDelete, calls
<1>. QED
  BY <1>0, <1>1, <1>2, <1>3, <1>4, <1>5, <1>6, <1>7, <1>8, <1>9, <1>10, <1>11, <1>12,
      <1>13, <1>14, <1>15, <1>16, <1>17, <1>18, <1>19, <1>20 DEF Next, Step, Quiescent

LEMMA OtherSteps ==
    ASSUME [Next]_vars
    PROVE  \/ UNCHANGED <<tokens, issued, session, consumed>>
           \/ \E r \in Req : \/ CreateDevice(r) \/ FindToken(r) \/ InsertToken(r)
                             \/ DeleteToken(r) \/ LogoutDelete(r)
BY DEF Next, Step, StartSignIn, StartPresent, Authenticate, ExchangeCode,
    FindGoogleUser,
       CreateGoogleUser, UpdateDevice, Settle, AllDone, Rejected, VerifyLogout, Deactivate, Throw,
       ThrowInCall, Crash, Expire, SoftDelete, Quiescent, vars, tables, calls

LEMMA InitRest == Init => Presenting /\ Spending /\ Chain
BY DEF Init, Presenting, Spending, Chain, Holder, Present, NoBody

LEMMA NextPresenting == TypeOK /\ Placed /\ Presenting /\ [Next]_vars => Presenting'
<1>. SUFFICES ASSUME TypeOK, Placed, Presenting, [Next]_vars PROVE Presenting'
  OBVIOUS
<1>k. Kept /\ TypeOK' /\ Placed'
  BY NextKept, NextType, NextPlaced
<1>. SUFFICES ASSUME NEW r \in Req, in'[r] \in Present
              PROVE  /\ Delivered(in[r].token)'
                     /\ session'[r] # None => session'[r] = session'[in'[r].token]
                     /\ consumed'[r] \in {None, in'[r].token}
  BY DEF Presenting
<1>t. in'[r].token \in Req
  BY DEF Present
<1>1. CASE pc[r] = "idle"
  <2>1. /\ session[r] = None /\ consumed[r] = None /\ in[r] = NoBody
    BY <1>1 DEF Placed
  <2>2. in'[r] # in[r]
    BY <2>1 DEF Present, NoBody
  <2>3. StartSignIn(r) \/ StartPresent(r)
    BY <1>1, <2>2 DEF TypeOK, Next, Step, StartSignIn, StartPresent, Authenticate,
       ExchangeCode, FindGoogleUser, CreateGoogleUser, CreateDevice, FindToken, InsertToken,
       DeleteToken, Withdrawn, LogoutDelete, UpdateDevice, Settle, AllDone, Rejected, VerifyLogout, Deactivate, Throw,
       ThrowInCall, Crash, Expire, SoftDelete, Quiescent, vars, tables, calls
  <2>4. StartPresent(r)
    BY <2>3 DEF StartSignIn, SignIn, Present, TypeOK
  <2>5. Delivered(in'[r].token)
    BY <2>4 DEF StartPresent, TypeOK
  <2>6. UNCHANGED <<session, consumed>>
    BY <2>4 DEF StartPresent
  <2>7. Delivered(in[r].token)'
    BY <1>k, <1>t, <2>5 DEF Kept
  <2>. QED
    BY <2>1, <2>6, <2>7
<1>2. CASE pc[r] # "idle"
  <2>1. in'[r] = in[r] /\ Delivered(in[r].token) /\ Delivered(in[r].token)'
    BY <1>2, <1>k, <1>t DEF Kept, Presenting
  <2>2. session[in[r].token] # None
    BY <1>t, <2>1 DEF Delivered, Placed
  <2>3. session'[in[r].token] = session[in[r].token]
    BY <1>k, <1>t, <2>1, <2>2 DEF Kept
  <2>4. session'[r] # session[r] => session'[r] = session[in[r].token]
    BY <2>1, OtherSteps
    DEF CreateDevice, FindToken, InsertToken, DeleteToken, Withdrawn, LogoutDelete,
       TypeOK, Placed, SignsIn, Present, calls, tables
  <2>5. consumed'[r] # consumed[r] => consumed'[r] = in[r].token
    BY OtherSteps
    DEF CreateDevice, FindToken, InsertToken, DeleteToken, Withdrawn, LogoutDelete,
       TypeOK, calls, tables
  <2>. QED
    BY <2>1, <2>3, <2>4, <2>5, <1>k DEF Kept, Presenting
<1>. QED
  BY <1>1, <1>2

\* What deleting the row of token t does for request r.
SpendStep(r, t) ==
    /\ t \in tokens /\ Delivered(t) /\ ~SignsIn(r)
    /\ consumed[r] = None
    /\ tokens' = tokens \ {t}
    /\ consumed' = [consumed EXCEPT ![r] = t]
    /\ session' = [session EXCEPT ![r] = session[t]]
    /\ UNCHANGED <<in, issued, devices, active>>

LEMMA DeleteSpends ==
    ASSUME TypeOK, Placed, Presenting, NEW r \in Req
    PROVE  /\ DeleteToken(r) => \/ SpendStep(r, in[r].token)
                                \/ UNCHANGED <<tokens, issued, session, consumed>>
           /\ LogoutDelete(r) => \/ SpendStep(r, in[r].token)
                                 \/ UNCHANGED <<tokens, issued, session, consumed>>
           /\ DeleteToken(r) \/ LogoutDelete(r) => in[r].token \in Req
<1>1. ASSUME DeleteToken(r) \/ LogoutDelete(r)
      PROVE  /\ in[r] \in Present /\ in[r].token \in Req /\ ~SignsIn(r)
             /\ consumed[r] = None
  BY <1>1, TokenOf DEF DeleteToken, Withdrawn, LogoutDelete, Placed, SignsIn
<1>2. ASSUME DeleteToken(r)
      PROVE  \/ SpendStep(r, in[r].token)
             \/ UNCHANGED <<tokens, issued, session, consumed>>
  <2>1. session[r] = session[in[r].token]
    BY <1>1, <1>2 DEF DeleteToken, Withdrawn, Placed, Presenting
  <2>2. session = [session EXCEPT ![r] = session[in[r].token]]
    BY <2>1 DEF TypeOK
  <2>. QED
    BY <1>1, <1>2, <2>2 DEF DeleteToken, Withdrawn, SpendStep, Presenting
<1>3. ASSUME LogoutDelete(r)
      PROVE  \/ SpendStep(r, in[r].token)
             \/ UNCHANGED <<tokens, issued, session, consumed>>
  BY <1>1, <1>3 DEF LogoutDelete, SpendStep, Presenting
<1>. QED
  BY <1>1, <1>2, <1>3

LEMMA NextSpending == TypeOK /\ Placed /\ Presenting /\ Spending /\ [Next]_vars => Spending'
<1>. SUFFICES ASSUME TypeOK, Placed, Presenting, Spending, [Next]_vars PROVE Spending'
  OBVIOUS
<1>1. CASE UNCHANGED <<tokens, issued, consumed>>
  BY <1>1 DEF Spending
<1>2. ASSUME NEW r \in Req, InsertToken(r) PROVE Spending'
  <2>1. r \notin issued
    BY <1>2 DEF InsertToken, Placed
  <2>. QED
    BY <1>2, <2>1, SessionsAssumption DEF InsertToken, Spending, TypeOK
<1>3. ASSUME NEW r \in Req, NEW t \in Req, SpendStep(r, t) PROVE Spending'
  <2>1. \A q \in Req : consumed'[q] = IF q = r THEN t ELSE consumed[q]
    BY <1>3 DEF SpendStep, TypeOK
  <2>2. \A q \in Req : consumed[q] # t
    BY <1>3, SessionsAssumption DEF SpendStep, Spending
  <2>. QED
    BY <1>3, <2>1, <2>2, SessionsAssumption DEF SpendStep, Spending, TypeOK
<1>. QED
  BY <1>1, <1>2, <1>3, OtherSteps, DeleteSpends DEF CreateDevice, FindToken, tables

LEMMA SpendKeepsChain ==
    ASSUME TypeOK, Placed, Spending, Chain, NEW r \in Req, NEW t \in Req, SpendStep(r, t),
           NEW s \in Req, NEW q \in Req, Holder(s)', Holder(q)', session'[s] = session'[q]
    PROVE  s = q
<1>1. \A p \in Req : /\ consumed'[p] = (IF p = r THEN t ELSE consumed[p])
                     /\ session'[p] = (IF p = r THEN session[t] ELSE session[p])
  BY DEF SpendStep, TypeOK
<1>2. Holder(t)
  BY SessionsAssumption DEF SpendStep, Spending, Holder, Delivered, Placed
<1>3. ~Holder(t)'
  BY <1>1 DEF Holder
<1>4. \A p \in Req : p # r /\ Holder(p)' => Holder(p)
  BY <1>1, SessionsAssumption DEF Holder, SpendStep, SignsIn
<1>. QED
  BY <1>1, <1>2, <1>3, <1>4 DEF Chain

LEMMA NextChain ==
    TypeOK /\ Placed /\ Presenting /\ Spending /\ Chain /\ [Next]_vars => Chain'
<1>. SUFFICES ASSUME TypeOK, Placed, Presenting, Spending, Chain, [Next]_vars PROVE Chain'
  OBVIOUS
<1>k. Kept /\ TypeOK' /\ Placed'
  BY NextKept, NextType, NextPlaced
<1>a. \/ UNCHANGED <<devices, active>>
      \/ \E r \in Req : CreateDevice(r) \/ Deactivate(r)
  BY DEF Next, Step, StartSignIn, StartPresent, Authenticate, ExchangeCode,
      FindGoogleUser,
     CreateGoogleUser, UpdateDevice, Settle, AllDone, Rejected, VerifyLogout, Throw, FindToken, InsertToken,
     DeleteToken, Withdrawn, LogoutDelete, ThrowInCall, Crash, Expire, SoftDelete, Quiescent, vars,
     tables, calls
<1>1. \A d \in devices' : session'[d] = d
  <2>1. \A d \in devices : session'[d] = d
    BY <1>k, SessionsAssumption DEF Kept, Chain, TypeOK
  <2>. QED
    BY <1>a, <2>1 DEF CreateDevice, Deactivate, TypeOK
<1>2. ASSUME NEW s \in Req, NEW q \in Req, Holder(s)', Holder(q)', session'[s] = session'[q]
      PROVE  s = q
  <2>1. ASSUME NEW p \in Req, session[p] # None PROVE in'[p] = in[p]
    BY <1>k, <2>1 DEF Kept, Placed
  <2>2. CASE UNCHANGED <<session, consumed>>
    BY <1>2, <2>1, <2>2 DEF Chain, Holder, SignsIn
  <2>3. ASSUME NEW r \in Req, CreateDevice(r) PROVE s = q
    <3>1. r \notin devices
      BY <2>3, SessionsAssumption DEF CreateDevice, Placed, Chain, TypeOK
    <3>2. \A p \in Req : session'[p] = (IF p = r THEN r ELSE session[p])
      BY <2>3 DEF CreateDevice, TypeOK
    <3>3. UNCHANGED <<consumed, in>>
      BY <2>3 DEF CreateDevice
    <3>4. \A p \in Req : session[p] # r
      BY <3>1, SessionsAssumption DEF TypeOK
    <3>. QED
      BY <1>2, <3>2, <3>3, <3>4 DEF Holder, Chain, SignsIn
  <2>4. ASSUME NEW r \in Req, FindToken(r) PROVE s = q
    <3>1. ~Holder(r)'
      BY <2>4 DEF FindToken, Placed, Holder, SignsIn
    <3>2. \A p \in Req : p # r => session'[p] = session[p]
      BY <2>4 DEF FindToken, TypeOK
    <3>3. UNCHANGED <<consumed, in>>
      BY <2>4 DEF FindToken
    <3>. QED
      BY <1>2, <3>1, <3>2, <3>3 DEF Holder, Chain, SignsIn
  <2>. QED
    BY <1>2, <2>2, <2>3, <2>4, OtherSteps, DeleteSpends, SpendKeepsChain DEF InsertToken
<1>3. ASSUME NEW d \in devices' \ active'
      PROVE  \E r \in Req : in'[r].op = "logout" /\ session'[r] = d /\ consumed'[r] # None
  <2>1. ASSUME NEW r \in Req, in[r].op = "logout", session[r] = d, consumed[r] # None
        PROVE  in'[r].op = "logout" /\ session'[r] = d /\ consumed'[r] # None
    <3>1. session[r] # None /\ pc[r] # "idle"
      BY <2>1, <1>k, SessionsAssumption DEF TypeOK, Placed
    <3>. QED
      BY <2>1, <3>1, <1>k DEF Kept
  <2>2. CASE d \in devices \ active
    BY <2>1, <2>2 DEF Chain
  <2>3. CASE d \notin devices \ active
    <3>1. PICK r \in Req : Deactivate(r) /\ d = session[r]
      BY <1>a, <1>3, <2>3 DEF CreateDevice, Deactivate
    <3>. QED
      BY <2>1, <3>1 DEF Deactivate, Placed
  <2>. QED
    BY <2>2, <2>3
<1>4. ASSUME NEW r \in Req, pc'[r] \in {"join", "ok"}, in'[r].op = "logout"
      PROVE  session'[r] \notin active'
  <2>1. pc[r] \in {"join", "ok"} \/ Deactivate(r)
    BY <1>4, <1>k DEF Next, Step, StartSignIn, StartPresent, Authenticate, ExchangeCode,
       FindGoogleUser, CreateGoogleUser, CreateDevice, UpdateDevice, Settle, AllDone, Rejected, VerifyLogout,
       Throw, FindToken, InsertToken, DeleteToken, Withdrawn, LogoutDelete, ThrowInCall, Crash, Expire,
       Deactivate, SoftDelete, Quiescent, vars, tables, calls, Kept, TypeOK, Placed, Goto,
       SignsIn, SignIn, Rejection
  <2>2. session[r] # None /\ session'[r] = session[r] /\ pc[r] # "idle" /\ in'[r] = in[r]
    BY <2>1, <1>k DEF Deactivate, Placed, Kept
  <2>3. session[r] \in devices
    BY <2>2 DEF TypeOK
  <2>4. CASE Deactivate(r)
    BY <2>2, <2>4 DEF Deactivate
  <2>5. CASE pc[r] \in {"join", "ok"}
    <3>1. session[r] \notin active
      BY <1>4, <2>2, <2>5 DEF Chain
    <3>2. ASSUME NEW p \in Req, CreateDevice(p) PROVE session[r] # p
      BY <2>3, <3>2, SessionsAssumption DEF CreateDevice, Placed, Chain, TypeOK
    <3>. QED
      BY <1>a, <2>2, <3>1, <3>2 DEF CreateDevice, Deactivate
  <2>. QED
    BY <2>1, <2>4, <2>5
<1>. QED
  BY <1>1, <1>2, <1>3, <1>4 DEF Chain

IInv == TypeOK /\ Placed /\ Presenting /\ Spending /\ Chain

LEMMA Invariant == Spec => []IInv
<1>1. Init => IInv
  BY InitPlaced, InitRest DEF IInv
<1>2. IInv /\ [Next]_vars => IInv'
  BY NextType, NextPlaced, NextPresenting, NextSpending, NextChain DEF IInv
<1>. QED
  BY <1>1, <1>2, PTL DEF Spec

(* Every table and every request's local state keeps its type.             *)
THEOREM TypeCorrect == Spec => []TypeOK
<1>1. IInv => TypeOK
  BY DEF IInv
<1>. QED
  BY <1>1, Invariant, PTL

\* A usable token is the last link of its device's chain.
LEMMA UsableHolds ==
    ASSUME IInv, NEW t \in Req, Usable(t)
    PROVE  Holder(t) /\ in[t].op # "logout" /\ session[t] \in devices
<1>1. session[t] # None /\ in[t].op \in Issuers /\ (SignsIn(t) \/ consumed[t] # None)
  BY DEF IInv, Usable, Delivered, Placed
<1>2. \A q \in Req : consumed[q] # t
  BY SessionsAssumption DEF IInv, Usable, Spending
<1>. QED
  BY <1>1, <1>2 DEF Holder, Issuers, IInv, TypeOK

(* However sign-ins, refreshes and sign-outs race, a device never has two  *)
(* live refresh tokens in clients' hands.                                  *)
THEOREM OneTokenPerDeviceHolds == Spec => []OneTokenPerDevice
<1>1. IInv => OneTokenPerDevice
  BY UsableHolds DEF OneTokenPerDevice, IInv, Chain
<1>. QED
  BY <1>1, Invariant, PTL

(* Signing out is final: a device a logout has deactivated has no usable   *)
(* token, whatever refresh was running.                                    *)
THEOREM LogoutFinalHolds == Spec => []LogoutFinal
<1>1. ASSUME IInv, NEW t \in Req, Usable(t) PROVE session[t] \in active
  <2>1. SUFFICES ASSUME session[t] \notin active PROVE FALSE
    OBVIOUS
  <2>2. Holder(t) /\ in[t].op # "logout" /\ session[t] \in devices
    BY <1>1, UsableHolds
  <2>3. PICK r \in Req : in[r].op = "logout" /\ session[r] = session[t] /\ consumed[r] # None
    BY <1>1, <2>1, <2>2 DEF IInv, Chain
  <2>4. \A q \in Req : consumed[q] # r
    BY <1>1, <2>3, TokenOf, SessionsAssumption
    DEF IInv, Presenting, Delivered, Issuers, TypeOK, Placed, SignsIn, SignIn, Present, NoBody
  <2>5. Holder(r)
    BY <2>2, <2>3, <2>4 DEF Holder
  <2>. QED
    BY <1>1, <2>2, <2>3, <2>5 DEF IInv, Chain
<1>2. IInv => LogoutFinal
  BY <1>1 DEF LogoutFinal, IInv, Chain
<1>. QED
  BY <1>2, Invariant, PTL

(* A delivered token is in the table until a refresh or a logout that      *)
(* presented it has deleted it.                                            *)
THEOREM DeliveredTokenWorksHolds == Spec => []DeliveredTokenWorks
<1>1. ASSUME IInv, NEW t \in Req, Delivered(t)
      PROVE  \/ t \in tokens
             \/ \E r \in Req : in[r].op \in {"refresh", "logout"} /\ consumed[r] = t
  <2>1. t \in issued
    BY <1>1 DEF IInv, Delivered, Placed
  <2>2. ASSUME NEW r \in Req, consumed[r] = t PROVE in[r].op \in {"refresh", "logout"}
    BY <1>1, <2>2, SessionsAssumption
    DEF IInv, TypeOK, Placed, SignsIn, SignIn, Present, NoBody
  <2>. QED
    BY <1>1, <2>1, <2>2 DEF IInv, Spending
<1>2. IInv => DeliveredTokenWorks
  BY <1>1 DEF DeliveredTokenWorks
<1>. QED
  BY <1>2, Invariant, PTL

(* The refreshToken table implements SingleUse.                            *)
THEOREM TokensImplementSingleUse == Spec => TokensAreSingleUse
<1>1. Init => Rotation!Init
  BY DEF Init, Rotation!Init
<1>2. ASSUME IInv, [Next]_vars PROVE Rotation!Next \/ UNCHANGED Rotation!vars
  <2>. DEFINE pairs == {<<consumed[r], r>> : r \in {q \in Req : consumed[q] # None}}
  <2>1. CASE UNCHANGED <<tokens, issued, consumed>>
    BY <2>1 DEF Rotation!vars
  <2>2. ASSUME NEW r \in Req, InsertToken(r) PROVE Rotation!Next
    <3>1. r \notin issued /\ UNCHANGED pairs
      BY <1>2, <2>2 DEF InsertToken, IInv, Placed
    <3>2. Rotation!Issue(r)
      BY <2>2, <3>1 DEF InsertToken, Rotation!Issue
    <3>. QED
      BY <3>2 DEF Rotation!Next
  <2>3. ASSUME NEW r \in Req, NEW t \in Req, SpendStep(r, t) PROVE Rotation!Next
    <3>1. \A q \in Req : consumed'[q] = IF q = r THEN t ELSE consumed[q]
      BY <1>2, <2>3 DEF SpendStep, IInv, TypeOK
    <3>2. consumed[r] = None /\ t # None
      BY <2>3, SessionsAssumption DEF SpendStep
    <3>3. pairs' = pairs \cup {<<t, r>>}
      <4>1. ASSUME NEW p \in pairs' PROVE p \in pairs \cup {<<t, r>>}
        BY <3>1
      <4>2. ASSUME NEW p \in pairs PROVE p \in pairs'
        BY <3>1, <3>2
      <4>3. <<t, r>> \in pairs'
        BY <3>1, <3>2
      <4>. QED
        BY <4>1, <4>2, <4>3
    <3>4. Rotation!Spend(t, r)
      BY <2>3, <3>3 DEF SpendStep, Rotation!Spend
    <3>. QED
      BY <3>4 DEF Rotation!Next
  <2>. QED
    BY <1>2, <2>1, <2>2, <2>3, OtherSteps, DeleteSpends
    DEF IInv, CreateDevice, FindToken, tables
<1>. QED
  BY <1>1, <1>2, Invariant, PTL DEF Spec, TokensAreSingleUse, Rotation!Spec

(* No refresh token is spent by two requests, and a spent one is not in    *)
(* the table: what SingleUse promises its users.                           *)
THEOREM TokensSpentOnce == Spec => [](Rotation!TypeOK /\ Rotation!AtMostOnce)
<1>1. IInv => Rotation!TypeOK /\ Rotation!AtMostOnce
  BY DEF IInv, TypeOK, Placed, Presenting, Spending, Rotation!TypeOK, Rotation!AtMostOnce
<1>. QED
  BY <1>1, Invariant, PTL

-----------------------------------------------------------------------------
(* Why requests are refused.                                               *)

Spoiled(r) == in[r].token \in expired \/ \E q \in Req \ {r} : consumed[q] = in[r].token

\* A call that failed, and an answer that refuses, has its cause.
Justified ==
    \A r \in Req :
        /\ "failed" \in {upd[r], ins[r]} => r \in hit
        /\ del[r] = "failed" => r \in hit \/ Spoiled(r)
        /\ pc[r] \in {"unauthorized", "revoked"} =>
              in[r].op \in {"refresh", "logout"} /\ (r \in hit \/ Spoiled(r))

\* A presented token that is not in the table was used up by another request.
LEMMA MissingIsSpent ==
    ASSUME IInv, NEW r \in Req, in[r].op \in {"refresh", "logout"}, consumed[r] = None,
           in[r].token \notin tokens
    PROVE  Spoiled(r)
<1>1. in[r] \in Present /\ in[r].token \in Req
  BY TokenOf DEF IInv
<1>2. Delivered(in[r].token)
  BY <1>1 DEF IInv, Presenting
<1>3. in[r].token \in issued
  BY <1>1, <1>2 DEF IInv, Placed, Delivered
<1>4. PICK q \in Req : consumed[q] = in[r].token
  BY <1>3 DEF IInv, Spending
<1>. QED
  BY <1>1, <1>4, SessionsAssumption DEF Spoiled

LEMMA SpoiledStays ==
    ASSUME IInv, [Next]_vars, NEW r \in Req, in[r].op \in {"refresh", "logout"}, Spoiled(r)
    PROVE  in'[r].token \in expired' \/ \E q \in Req \ {r} : consumed'[q] = in'[r].token
<1>1. Kept
  BY NextKept DEF IInv
<1>2. in'[r] = in[r] /\ in[r].token \in Req
  BY <1>1, TokenOf DEF Kept, IInv, Placed, NoBody
<1>3. expired \subseteq expired'
  BY DEF Next, Step, StartSignIn, StartPresent, Authenticate, ExchangeCode, FindGoogleUser,
     CreateGoogleUser, CreateDevice, FindToken, UpdateDevice, DeleteToken, InsertToken, Settle,
     VerifyLogout, LogoutDelete, Deactivate, Throw, ThrowInCall, Crash, Expire, SoftDelete,
     Quiescent, vars, tables
<1>4. \A q \in Req : consumed[q] = in[r].token => consumed'[q] = consumed[q]
  BY <1>1, <1>2, SessionsAssumption DEF Kept
<1>. QED
  BY <1>2, <1>3, <1>4 DEF Spoiled

\* What a step may newly refuse, and why.
NewlyRefused(r) ==
    /\ r \in hit => r \in hit'
    /\ upd'[r] = "failed" => upd[r] = "failed" \/ r \in hit'
    /\ ins'[r] = "failed" => ins[r] = "failed" \/ r \in hit'
    /\ del'[r] = "failed" => \/ del[r] = "failed" \/ r \in hit'
                             \/ DeleteToken(r) /\ in[r].token \notin tokens
    /\ pc'[r] \in {"unauthorized", "revoked"} /\ pc'[r] # pc[r] =>
          /\ in[r].op \in {"refresh", "logout"}
          /\ \/ r \in hit'
             \/ in[r].op = "refresh" /\ Rejected(r)
             \/ /\ FindToken(r) \/ VerifyLogout(r) \/ LogoutDelete(r)
                /\ in[r].token \in expired \/ in[r].token \notin tokens

LEMMA NewRefusals == ASSUME IInv, [Next]_vars, NEW r \in Req PROVE NewlyRefused(r)
<1>1. CASE UNCHANGED vars
  BY <1>1 DEF vars, calls, NewlyRefused
<1>2. ASSUME NEW q \in Req,
             \/ StartSignIn(q) \/ StartPresent(q) \/ Authenticate(q) \/ ExchangeCode(q)
             \/ FindGoogleUser(q) \/ CreateGoogleUser(q) \/ CreateDevice(q)
      PROVE  NewlyRefused(r)
  BY <1>2 DEF NewlyRefused, IInv, TypeOK, StartSignIn, StartPresent, Authenticate,
     ExchangeCode,
     FindGoogleUser, CreateGoogleUser, CreateDevice, Goto, calls
<1>3. ASSUME NEW q \in Req, FindToken(q) PROVE NewlyRefused(r)
  <2>1. /\ UNCHANGED hit
        /\ q # r => pc'[r] = pc[r] /\ upd'[r] = upd[r] /\ del'[r] = del[r] /\ ins'[r] = ins[r]
        /\ upd'[r] # "failed" \/ upd'[r] = upd[r]
        /\ del'[r] # "failed" \/ del'[r] = del[r]
        /\ ins'[r] # "failed" \/ ins'[r] = ins[r]
    BY <1>3 DEF IInv, TypeOK, FindToken, Goto, calls
  <2>2. q = r /\ pc'[r] \in {"unauthorized", "revoked"} =>
          /\ in[r].op = "refresh"
          /\ in[r].token \in expired \/ in[r].token \notin tokens
    BY <1>3 DEF IInv, TypeOK, Placed, FindToken, Goto
  <2>. QED
    BY <1>3, <2>1, <2>2 DEF NewlyRefused
<1>4. ASSUME NEW q \in Req, UpdateDevice(q) \/ InsertToken(q) \/ Deactivate(q) \/ Expire(q)
      PROVE  NewlyRefused(r)
  BY <1>4 DEF NewlyRefused, IInv, TypeOK, UpdateDevice, InsertToken, Deactivate, Expire,
     Goto, calls
<1>5. ASSUME NEW q \in Req, DeleteToken(q) PROVE NewlyRefused(r)
  BY <1>5 DEF NewlyRefused, IInv, TypeOK, DeleteToken
<1>6. ASSUME NEW q \in Req, Settle(q) PROVE NewlyRefused(r)
  BY <1>6 DEF NewlyRefused, IInv, TypeOK, Settle, Rejection, Goto, calls
<1>7. ASSUME NEW q \in Req, VerifyLogout(q) \/ LogoutDelete(q) PROVE NewlyRefused(r)
  BY <1>7 DEF NewlyRefused, IInv, TypeOK, Placed, VerifyLogout, LogoutDelete, Goto, calls
<1>8. ASSUME NEW q \in Req, Throw(q) \/ ThrowInCall(q) \/ Crash(q) PROVE NewlyRefused(r)
  <2>1. CASE Throw(q)
    BY <2>1 DEF NewlyRefused, IInv, TypeOK, Placed, Throw, Goto, calls
  <2>2. CASE ThrowInCall(q)
    BY <2>2 DEF NewlyRefused, IInv, TypeOK, ThrowInCall
  <2>3. CASE Crash(q)
    BY <2>3 DEF NewlyRefused, IInv, TypeOK, Crash, Lose, Answered, Goto
  <2>. QED
    BY <1>8, <2>1, <2>2, <2>3
<1>9. ASSUME NEW u \in User, SoftDelete(u) PROVE NewlyRefused(r)
  BY <1>9 DEF NewlyRefused, SoftDelete, calls
<1>. QED
  BY <1>1, <1>2, <1>3, <1>4, <1>5, <1>6, <1>7, <1>8, <1>9 DEF Next, Step, Quiescent

LEMMA NextJustified == IInv /\ Justified /\ [Next]_vars => Justified'
<1>. SUFFICES ASSUME IInv, Justified, [Next]_vars, NEW r \in Req
              PROVE  /\ "failed" \in {upd'[r], ins'[r]} => r \in hit'
                     /\ del'[r] = "failed" => r \in hit' \/ Spoiled(r)'
                     /\ pc'[r] \in {"unauthorized", "revoked"} =>
                           /\ in'[r].op \in {"refresh", "logout"}
                           /\ r \in hit' \/ Spoiled(r)'
  BY DEF Justified
<1>0. NewlyRefused(r) /\ Kept
  BY NewRefusals, NextKept DEF IInv
<1>1. in[r].op \in {"refresh", "logout"} =>
        /\ in'[r].op \in {"refresh", "logout"}
        /\ Spoiled(r) => Spoiled(r)'
  BY <1>0, SpoiledStays DEF Spoiled, Kept, IInv, Placed, NoBody
<1>2. "failed" \in {upd'[r], ins'[r]} => r \in hit'
  BY <1>0 DEF NewlyRefused, Justified
<1>3. ASSUME del'[r] = "failed", r \notin hit' PROVE Spoiled(r)'
  <2>1. CASE del[r] = "failed"
    BY <1>0, <1>1, <1>3, <2>1 DEF NewlyRefused, Justified, IInv, Placed
  <2>2. CASE DeleteToken(r) /\ in[r].token \notin tokens
    <3>1. in[r].op = "refresh" /\ consumed[r] = None
      BY <2>2 DEF DeleteToken, IInv, Placed
    <3>. QED
      BY <1>1, <2>2, <3>1, MissingIsSpent
  <2>. QED
    BY <1>0, <1>3, <2>1, <2>2 DEF NewlyRefused
<1>4. ASSUME pc'[r] \in {"unauthorized", "revoked"}
      PROVE  in'[r].op \in {"refresh", "logout"} /\ (r \in hit' \/ Spoiled(r)')
  <2>1. CASE pc[r] = pc'[r]
    BY <1>0, <1>1, <1>4, <2>1 DEF NewlyRefused, Justified
  <2>2. CASE in[r].op = "refresh" /\ Rejected(r)
    BY <1>0, <1>1, <2>2 DEF NewlyRefused, Justified, Rejected
  <2>3. CASE /\ in[r].op \in {"refresh", "logout"}
             /\ FindToken(r) \/ VerifyLogout(r) \/ LogoutDelete(r)
             /\ in[r].token \in expired \/ in[r].token \notin tokens
    <3>1. consumed[r] = None
      BY <2>3 DEF FindToken, VerifyLogout, LogoutDelete, IInv, Placed
    <3>2. in[r].token \in expired => Spoiled(r)
      BY DEF Spoiled
    <3>. QED
      BY <1>1, <2>3, <3>1, <3>2, MissingIsSpent
  <2>. QED
    BY <1>0, <1>1, <1>4, <2>1, <2>2, <2>3 DEF NewlyRefused
<1>. QED
  BY <1>2, <1>3, <1>4

(* A refresh or sign-out that met no fault is refused only for a token     *)
(* that has expired or that another request has used up.                   *)
THEOREM RefusalJustifiedHolds == Spec => []RefusalJustified
<1>1. Init => Justified
  BY DEF Init, Justified
<1>2. Justified => RefusalJustified
  BY DEF Justified, RefusalJustified, Spoiled
<1>. QED
  BY <1>1, <1>2, Invariant, NextJustified, PTL DEF Spec
-----------------------------------------------------------------------------
(* How requests end.                                                       *)

\* What one step does to r's place and calls: it moves nothing of r, or it
\* moves r on, or one of its calls.
MovesOn(r) ==
    \/ pc'[r] = pc[r] /\ upd'[r] = upd[r] /\ del'[r] = del[r] /\ ins'[r] = ins[r]
    \/ pc[r] = "idle"
    \/ Left(r)' < Left(r)

LEMMA StepMovesOn == ASSUME TypeOK, Placed, [Next]_vars, NEW r \in Req PROVE MovesOn(r)
<1>. USE DEF MovesOn, Left, Ahead, Running, TypeOK, Steps, CallStates
<1>1. CASE UNCHANGED vars
  BY <1>1 DEF vars, calls
<1>2. ASSUME NEW q \in Req, StartSignIn(q) \/ StartPresent(q) PROVE MovesOn(r)
  BY <1>2 DEF StartSignIn, StartPresent, Goto, calls
<1>3. ASSUME NEW q \in Req,
             Authenticate(q) \/ ExchangeCode(q) \/ FindGoogleUser(q) \/ CreateGoogleUser(q)
      PROVE  MovesOn(r)
  BY <1>3 DEF Authenticate, ExchangeCode, FindGoogleUser, CreateGoogleUser, Goto, calls
<1>4. ASSUME NEW q \in Req, CreateDevice(q) PROVE MovesOn(r)
  BY <1>4 DEF CreateDevice, Placed, Goto
<1>5. ASSUME NEW q \in Req, FindToken(q) PROVE MovesOn(r)
  BY <1>5 DEF FindToken, Placed, Goto, calls
<1>6. ASSUME NEW q \in Req, UpdateDevice(q) PROVE MovesOn(r)
  BY <1>6 DEF UpdateDevice
<1>7. ASSUME NEW q \in Req, DeleteToken(q) PROVE MovesOn(r)
  BY <1>7 DEF DeleteToken
<1>8. ASSUME NEW q \in Req, InsertToken(q) PROVE MovesOn(r)
  BY <1>8 DEF InsertToken
<1>9. ASSUME NEW q \in Req, Settle(q) PROVE MovesOn(r)
  BY <1>9 DEF Settle, Rejection, Goto, calls
<1>10. ASSUME NEW q \in Req, VerifyLogout(q) \/ LogoutDelete(q) \/ Deactivate(q)
       PROVE  MovesOn(r)
  BY <1>10 DEF VerifyLogout, LogoutDelete, Deactivate, Goto, calls
<1>11. ASSUME NEW q \in Req, Throw(q) PROVE MovesOn(r)
  BY <1>11 DEF Throw, Goto, calls
<1>12. ASSUME NEW q \in Req, ThrowInCall(q) PROVE MovesOn(r)
  BY <1>12 DEF ThrowInCall
<1>13. ASSUME NEW q \in Req, Crash(q) PROVE MovesOn(r)
  BY <1>13 DEF Crash, Lose, Over, Answered, Pending, Goto
<1>14. ASSUME NEW q \in Req, Expire(q) PROVE MovesOn(r)
  BY <1>14 DEF Expire, calls
<1>15. ASSUME NEW u \in User, SoftDelete(u) PROVE MovesOn(r)
  BY <1>15 DEF SoftDelete, calls
<1>. QED
  BY <1>1, <1>2, <1>3, <1>4, <1>5, <1>6, <1>7, <1>8, <1>9, <1>10, <1>11, <1>12, <1>13,
     <1>14, <1>15 DEF Next, Step, Quiescent

(* No request repeats itself or is sent back by another: every step it     *)
(* takes, faults included, lowers the number of those it has left.         *)
THEOREM EveryStepCountsHolds == Spec => EveryStepCounts
<1>1. TypeOK /\ Placed /\ [Next]_vars =>
        [\A r \in Req :
            pc[r] # "idle"
            /\ <<pc[r], upd[r], del[r], ins[r]>>' # <<pc[r], upd[r], del[r], ins[r]>>
                => Left(r)' < Left(r)]_vars
  BY StepMovesOn DEF MovesOn
<1>. QED
  BY <1>1, Invariant, PTL DEF Spec, EveryStepCounts, IInv

\* A call is lost only with its pod, and who has deleted its token, or is
\* about to, is turned away only for a fault of its own.
Ending ==
    \A r \in Req :
        /\ "lost" \in {upd[r], del[r], ins[r]} => Answered(r)
        /\ pc[r] = "crashed" => r \in hit
        /\ pc[r] \in {"refused", "unauthorized", "revoked"}
           /\ (consumed[r] # None \/ del[r] = "run") => r \in hit

LEMMA NextEnding == IInv /\ Justified /\ Ending /\ [Next]_vars => Ending'
<1>. SUFFICES ASSUME IInv, Justified, Ending, [Next]_vars PROVE Ending'
  OBVIOUS
<1>. USE DEF IInv, TypeOK, Steps, CallStates, Ending, Answered
<1>1. CASE UNCHANGED vars
  BY <1>1 DEF vars, calls
<1>2. ASSUME NEW q \in Req,
             \/ StartSignIn(q) \/ StartPresent(q) \/ Authenticate(q) \/ ExchangeCode(q)
             \/ FindGoogleUser(q)
      PROVE  Ending'
  BY <1>2 DEF StartSignIn, StartPresent, Authenticate, ExchangeCode, FindGoogleUser, Placed,
     Goto, calls
<1>3. ASSUME NEW q \in Req, CreateGoogleUser(q) \/ CreateDevice(q) PROVE Ending'
  BY <1>3 DEF CreateGoogleUser, CreateDevice, Placed, Goto, calls
<1>4. ASSUME NEW q \in Req, FindToken(q) PROVE Ending'
  BY <1>4 DEF FindToken, Placed, Goto, calls
<1>5. ASSUME NEW q \in Req, UpdateDevice(q) \/ InsertToken(q) PROVE Ending'
  BY <1>5 DEF UpdateDevice, InsertToken
<1>6. ASSUME NEW q \in Req, DeleteToken(q) PROVE Ending'
  BY <1>6 DEF DeleteToken
<1>7. ASSUME NEW q \in Req, Settle(q) PROVE Ending'
  <2>1. \/ pc'[q] = "ok"
        \/ "failed" \in {upd[q], ins[q]} /\ q \in hit
        \/ del[q] = "failed" /\ consumed[q] = None
    BY <1>7 DEF Settle, Rejected, Justified, Placed, Goto
  <2>. QED
    BY <1>7, <2>1 DEF Settle, Rejection, Goto, calls
<1>8. ASSUME NEW q \in Req, VerifyLogout(q) PROVE Ending'
  BY <1>8 DEF VerifyLogout, Placed, Goto, calls
<1>9. ASSUME NEW q \in Req, LogoutDelete(q) PROVE Ending'
  BY <1>9 DEF LogoutDelete, Placed, Goto, calls
<1>10. ASSUME NEW q \in Req, Deactivate(q) PROVE Ending'
  BY <1>10 DEF Deactivate, Goto, calls
<1>11. ASSUME NEW q \in Req, Throw(q) PROVE Ending'
  BY <1>11 DEF Throw, Goto, calls
<1>12. ASSUME NEW q \in Req, ThrowInCall(q) PROVE Ending'
  BY <1>12 DEF ThrowInCall
<1>13. ASSUME NEW q \in Req, Crash(q) PROVE Ending'
  BY <1>13 DEF Crash, Lose, Goto
<1>14. ASSUME NEW q \in Req, Expire(q) PROVE Ending'
  BY <1>14 DEF Expire, calls
<1>15. ASSUME NEW u \in User, SoftDelete(u) PROVE Ending'
  BY <1>15 DEF SoftDelete, calls
<1>. QED
  BY <1>1, <1>2, <1>3, <1>4, <1>5, <1>6, <1>7, <1>8, <1>9, <1>10, <1>11, <1>12, <1>13,
     <1>14, <1>15 DEF Next, Step, Quiescent

LEMMA EndingInvariant == Spec => [](IInv /\ Justified /\ Ending)
<1>1. Init => Justified /\ Ending
  BY DEF Init, Justified, Ending
<1>. QED
  BY <1>1, Invariant, NextJustified, NextEnding, PTL DEF Spec

(* Where a request stands still it is over: Promise.all never waits for a  *)
(* call that is not running.                                               *)
THEOREM NeverStuckHolds == Spec => []NeverStuck
<1>1. IInv /\ Ending => NeverStuck
  BY DEF IInv, TypeOK, Steps, CallStates, Ending, NeverStuck, Left, Ahead, Running, Over,
     Answered, Pending, Rejected, AllDone
<1>. QED
  BY <1>1, EndingInvariant, PTL

(* Of several racers for one token, the one whose delete found the row is  *)
(* not refused for what befalls the others.                                *)
THEOREM SpenderNotRefusedHolds == Spec => []SpenderNotRefused
<1>1. IInv /\ Ending => SpenderNotRefused
  BY DEF Ending, SpenderNotRefused, Over, Answered
<1>. QED
  BY <1>1, EndingInvariant, PTL
=============================================================================
