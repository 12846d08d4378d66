--------------------------- MODULE Accounts_proofs ---------------------------
(* Proofs about Accounts, for any requests, addresses, codes and bodies.   *)
EXTENDS Accounts, TLAPS

Before == {"idle", "lookup", "clear", "insert", "mail", "validate", "dup", "prepare"}

\* Where a request is tells what it is, what it has proved and how far its
\* two calls are.
Placed ==
    \A r \in Req :
        /\ pc[r] \in {"clear", "insert", "mail"} => in[r].op = "sendOTP"
        /\ pc[r] \in {"validate", "dup", "prepare", "join", "provider", "reply"} => Spends(r)
        /\ pc[r] \in {"dup", "provider", "reply"} => in[r].op = "registerProvider"
        /\ pc[r] \in Before => acct[r] = "none" /\ del[r] = "none"
        /\ pc[r] \in {"provider", "reply"} \/ (pc[r] = "ok" /\ Spends(r))
               => acct[r] = "done" /\ del[r] = "done"
        /\ pc[r] \in {"dup", "prepare"} \/ acct[r] # "none" \/ del[r] # "none"
               => proof[r] # None /\ Spends(r)
        /\ pc[r] \in {"idle", "lookup", "validate"} => proof[r] = None
        /\ proof[r] # None => pc[r] # "idle" /\ Spends(r)
        /\ acct[r] \in {"create", "profile"} => Registers(r)
        /\ acct[r] = "update" => in[r].op = "forgotPassword"
        /\ del[r] = "done" <=> consumed[r] # None

\* What a request that has begun was sent.
LEMMA BodyOf ==
    ASSUME TypeOK, NEW r \in Req, pc[r] # "idle"
    PROVE  /\ in[r] \in Inputs[r]
           /\ in[r].op \in Ops
           /\ in[r].email \in Email
           /\ in[r].op = "sendOTP" => in[r].type \in Types
BY AccountsAssumption DEF TypeOK, Body

LEMMA RowIds == TypeOK => \A k \in codes : k.id \in Req /\ k.id # None
BY AccountsAssumption DEF TypeOK

LEMMA InitPlaced == Init => TypeOK /\ Placed
BY AccountsAssumption DEF Init, TypeOK, Placed, Steps, Before

LEMMA NextPlaced == TypeOK /\ Placed /\ [Next]_vars => TypeOK' /\ Placed'
<1>. SUFFICES ASSUME TypeOK, Placed, [Next]_vars PROVE TypeOK' /\ Placed'
  OBVIOUS
<1>0. CASE UNCHANGED vars
  BY <1>0 DEF TypeOK, Placed, Spends, Registers, vars, tables, local
<1>1. ASSUME NEW r \in Req, Start(r) PROVE TypeOK' /\ Placed'
  <2>1. PICK i \in Inputs[r] : in' = [in EXCEPT ![r] = i] /\ Goto(r, FirstStep(i.op))
    BY <1>1 DEF Start
  <2>2. i \in Body /\ i # None /\ i.op \in Ops
    BY AccountsAssumption DEF Body
  <2>3. TypeOK'
    <3>1. pc' \in [Req -> Steps] /\ in' \in [Req -> Body \cup {None}]
      BY <2>1, <2>2 DEF TypeOK, FirstStep, Goto, Steps
    <3>2. \A q \in Req : pc'[q] # "idle" => in'[q] \in Inputs[q]
      BY <2>1 DEF TypeOK, Goto
    <3>. QED
      BY <1>1, <3>1, <3>2 DEF TypeOK, Start, tables
  <2>4. Placed'
    BY <1>1, <2>1, <2>2, AccountsAssumption
    DEF TypeOK, Placed, Spends, Registers, Ops, Before, Start, FirstStep, Goto, tables,
        Steps
  <2>. QED
    BY <2>3, <2>4
<1>2. ASSUME NEW r \in Req, LookupUser(r) PROVE TypeOK' /\ Placed'
  <2>1. TypeOK'
    BY <1>2, BodyOf DEF TypeOK, LookupUser, Goto, tables, local, Steps
  <2>2. Placed'
    BY <1>2, BodyOf
    DEF TypeOK, Placed, Spends, Registers, Ops, Before, LookupUser, Goto, tables,
        local, Steps
  <2>. QED
    BY <2>1, <2>2
<1>3. ASSUME NEW r \in Req, ClearCodes(r) PROVE TypeOK' /\ Placed'
  <2>1. TypeOK'
    BY <1>3, BodyOf DEF TypeOK, ClearCodes, Superseded, Goto, local, Steps
  <2>2. Placed'
    BY <1>3, BodyOf
    DEF TypeOK, Placed, Spends, Registers, Ops, Before, ClearCodes, Superseded, Goto, local, Steps
  <2>. QED
    BY <2>1, <2>2
<1>4. ASSUME NEW r \in Req, InsertCode(r) PROVE TypeOK' /\ Placed'
  <2>1. in[r].op = "sendOTP"
    BY <1>4 DEF InsertCode, Placed
  <2>2. TypeOK'
    BY <1>4, BodyOf, <2>1 DEF TypeOK, InsertCode, Body, Types, Goto, local, Steps
  <2>3. Placed'
    BY <1>4, BodyOf
    DEF TypeOK, Placed, Spends, Registers, Ops, Before, InsertCode, Goto, local, Steps
  <2>. QED
    BY <2>2, <2>3
<1>5. ASSUME NEW r \in Req, SendMail(r) PROVE TypeOK' /\ Placed'
  <2>1. TypeOK'
    BY <1>5, BodyOf DEF TypeOK, SendMail, Goto, tables, local, Steps
  <2>2. Placed'
    BY <1>5, BodyOf
    DEF TypeOK, Placed, Spends, Registers, Ops, Before, SendMail, Goto, tables, local,
        Steps
  <2>. QED
    BY <2>1, <2>2
<1>6. ASSUME NEW r \in Req, ValidateCode(r) PROVE TypeOK' /\ Placed'
  <2>1. TypeOK'
    BY <1>6, BodyOf
    DEF TypeOK, ValidateCode, Presented, AfterValidate, Goto, tables, Steps
  <2>2. Placed'
    BY <1>6, BodyOf, RowIds
    DEF TypeOK, Placed, Spends, Registers, Ops, Before, ValidateCode, Presented,
        AfterValidate, Goto, tables, Steps
  <2>. QED
    BY <2>1, <2>2
<1>7. ASSUME NEW r \in Req, CheckDuplicate(r) PROVE TypeOK' /\ Placed'
  <2>1. TypeOK'
    BY <1>7, BodyOf DEF TypeOK, CheckDuplicate, Goto, tables, local, Steps
  <2>2. Placed'
    BY <1>7, BodyOf
    DEF TypeOK, Placed, Spends, Registers, Ops, Before, CheckDuplicate, Goto, tables,
        local, Steps
  <2>. QED
    BY <2>1, <2>2
<1>8. ASSUME NEW r \in Req, Fork(r) PROVE TypeOK' /\ Placed'
  <2>1. TypeOK'
    BY <1>8, BodyOf DEF TypeOK, Fork, Goto, tables, Steps
  <2>2. Placed'
    BY <1>8, BodyOf
    DEF TypeOK, Placed, Spends, Registers, Ops, Before, Fork, Goto, tables, Steps
  <2>. QED
    BY <2>1, <2>2
<1>9. ASSUME NEW r \in Req, CreateUser(r) PROVE TypeOK' /\ Placed'
  <2>1. TypeOK'
    BY <1>9, BodyOf DEF TypeOK, CreateUser, Steps
  <2>2. Placed'
    BY <1>9, BodyOf
    DEF TypeOK, Placed, Spends, Registers, Ops, Before, CreateUser, Steps
  <2>. QED
    BY <2>1, <2>2
<1>10. ASSUME NEW r \in Req, CreateProfile(r) PROVE TypeOK' /\ Placed'
  <2>1. TypeOK'
    BY <1>10, BodyOf DEF TypeOK, CreateProfile, Steps
  <2>2. Placed'
    BY <1>10, BodyOf
    DEF TypeOK, Placed, Spends, Registers, Ops, Before, CreateProfile, Steps
  <2>. QED
    BY <2>1, <2>2
<1>11. ASSUME NEW r \in Req, UpdatePassword(r) PROVE TypeOK' /\ Placed'
  <2>1. TypeOK'
    BY <1>11, BodyOf DEF TypeOK, UpdatePassword, Steps
  <2>2. Placed'
    BY <1>11, BodyOf
    DEF TypeOK, Placed, Spends, Registers, Ops, Before, UpdatePassword, Steps
  <2>. QED
    BY <2>1, <2>2
<1>12. ASSUME NEW r \in Req, DeleteCode(r) PROVE TypeOK' /\ Placed'
  <2>1. TypeOK'
    BY <1>12, BodyOf DEF TypeOK, DeleteCode, Presented, Steps
  <2>2. Placed'
    BY <1>12, BodyOf, RowIds
    DEF TypeOK, Placed, Spends, Registers, Ops, Before, DeleteCode, Presented, Steps
  <2>. QED
    BY <2>1, <2>2
<1>13. ASSUME NEW r \in Req, Settle(r) PROVE TypeOK' /\ Placed'
  <2>1. TypeOK'
    BY <1>13, BodyOf DEF TypeOK, Settle, AllDone, AfterJoin, Goto, tables, local, Steps
  <2>2. Placed'
    BY <1>13, BodyOf
    DEF TypeOK, Placed, Spends, Registers, Ops, Before, Settle, AllDone, AfterJoin, Goto,
        tables, local, Steps
  <2>. QED
    BY <2>1, <2>2
<1>14. ASSUME NEW r \in Req, CreateServiceProvider(r) PROVE TypeOK' /\ Placed'
  <2>1. TypeOK'
    BY <1>14, BodyOf DEF TypeOK, CreateServiceProvider, Goto, local, Steps
  <2>2. Placed'
    BY <1>14, BodyOf
    DEF TypeOK, Placed, Spends, Registers, Ops, Before, CreateServiceProvider, Goto,
        local, Steps
  <2>. QED
    BY <2>1, <2>2
<1>15. ASSUME NEW r \in Req, Reply(r) PROVE TypeOK' /\ Placed'
  <2>1. TypeOK'
    BY <1>15, BodyOf DEF TypeOK, Reply, Goto, tables, local, Steps
  <2>2. Placed'
    BY <1>15, BodyOf
    DEF TypeOK, Placed, Spends, Registers, Ops, Before, Reply, Goto, tables, local,
        Steps
  <2>. QED
    BY <2>1, <2>2
<1>16. ASSUME NEW r \in Req, Throw(r) PROVE TypeOK' /\ Placed'
  <2>1. TypeOK'
    BY <1>16, BodyOf DEF TypeOK, Throw, Goto, tables, local, Steps
  <2>2. Placed'
    BY <1>16, BodyOf
    DEF TypeOK, Placed, Spends, Registers, Ops, Before, Throw, Goto, tables, local,
        Steps
  <2>. QED
    BY <2>1, <2>2
<1>17. ASSUME NEW r \in Req, ThrowInBranch(r) PROVE TypeOK' /\ Placed'
  <2>1. TypeOK'
    BY <1>17, BodyOf DEF TypeOK, ThrowInBranch, tables, Steps
  <2>2. Placed'
    BY <1>17, BodyOf
    DEF TypeOK, Placed, Spends, Registers, Ops, Before, ThrowInBranch, tables, Steps
  <2>. QED
    BY <2>1, <2>2
<1>18. ASSUME NEW r \in Req, Crash(r) PROVE TypeOK' /\ Placed'
  <2>1. TypeOK'
    BY <1>18, BodyOf DEF TypeOK, Crash, Goto, tables, Steps
  <2>2. Placed'
    BY <1>18, BodyOf
    DEF TypeOK, Placed, Spends, Registers, Ops, Before, Crash, Goto, tables, Steps
  <2>. QED
    BY <2>1, <2>2
<1>19. ASSUME NEW k \in codes, Expire(k) PROVE TypeOK' /\ Placed'
  BY <1>19 DEF TypeOK, Placed, Spends, Registers, Expire, local
<1>20. ASSUME NEW e \in Deletable, SoftDelete(e) PROVE TypeOK' /\ Placed'
  BY <1>20, AccountsAssumption DEF TypeOK, Placed, Spends, Registers, SoftDelete, local
<1>. QED
  BY <1>0, <1>1, <1>2, <1>3, <1>4, <1>5, <1>6, <1>7, <1>8, <1>9, <1>10, <1>11, <1>12,
      <1>13, <1>14, <1>15, <1>16, <1>17, <1>18, <1>19, <1>20 DEF Next, Step, Quiescent

Sent == {"mail", "ok", "error", "crashed"}

\* Row ids, and what the requests have got from the rows.
Rows ==
    /\ \A k \in codes :
        /\ k.id \in issued
        /\ in[k.id].op = "sendOTP"
        /\ in[k.id].email = k.email
        /\ in[k.id].type = k.type
    /\ \A k, l \in codes : k.id = l.id => k = l
    /\ \A r \in issued : pc[r] \in Sent
    /\ \A r \in Req : proof[r] # None =>
        proof[r] \in issued /\ Authorised(r, in[r].email)
    /\ \A r \in Req : consumed[r] # None =>
        /\ consumed[r] \in issued
        /\ \A k \in codes : k.id # consumed[r]
        /\ \A q \in Req : consumed[q] = consumed[r] => q = r

\* Who wrote the user, profile and provider rows.
Owners ==
    /\ \A r \in Req :
        /\ acct[r] = "profile" => user[in[r].email] = r
        /\ acct[r] = "done" /\ Registers(r) => user[in[r].email] = r /\ r \in profile
        /\ pc[r] = "reply" \/ (pc[r] = "ok" /\ in[r].op = "registerProvider")
               => r \in provider
    /\ \A e \in Email :
        /\ user[e] \in Req => in[user[e]].email = e /\ proof[user[e]] # None
        /\ password[e] \in Req => in[password[e]].email = e /\ proof[password[e]] # None

\* What was over before a request began.
History ==
    /\ \A r \in Req : \A q \in prior[r] : Over(q)
    /\ \A b \in Req :
        pc[b] \in {"insert", "mail"} \/ (pc[b] = "ok" /\ in[b].op = "sendOTP") =>
            \A k \in codes : SameKind(k, in[b]) => k.id \notin prior[b]
    /\ \A r \in provider : pc[r] # "idle"
    /\ \A r \in Req :
        \/ r \in provider
        \/ pc[r] \in {"prepare", "join", "provider"} /\ in[r].op = "registerProvider"
        => \A p \in provider \cap prior[r] : p # r => in[p].taxId # in[r].taxId

\* What a step never changes: the end of a request that is over, the body and
\* the history of one that has begun, what it has proved.
Kept ==
    \A q \in Req :
        /\ Over(q) => pc'[q] = pc[q] /\ Over(q)'
        /\ pc[q] # "idle" => pc'[q] # "idle" /\ in'[q] = in[q] /\ prior'[q] = prior[q]
        /\ proof[q] # None => proof'[q] = proof[q]
        /\ pc[q] \in Sent => pc'[q] \in Sent

LEMMA NextKept == TypeOK /\ Placed /\ [Next]_vars => Kept
<1>. SUFFICES ASSUME TypeOK, Placed, [Next]_vars PROVE Kept
  OBVIOUS
<1>0. CASE UNCHANGED vars
  BY <1>0 DEF Kept, Over, Answered, Pending, vars, tables, local
<1>1. ASSUME NEW r \in Req, Start(r) PROVE Kept
  BY <1>1
  DEF Kept, Over, Answered, Pending, Sent, TypeOK, Placed, Before, Steps, Start,
      FirstStep, Goto, tables
<1>2. ASSUME NEW r \in Req, LookupUser(r) PROVE Kept
  BY <1>2
  DEF Kept, Over, Answered, Pending, Sent, TypeOK, Placed, Before, Steps, LookupUser,
      Goto, tables, local
<1>3. ASSUME NEW r \in Req, ClearCodes(r) PROVE Kept
  BY <1>3
  DEF Kept, Over, Answered, Pending, Sent, TypeOK, Placed, Before, Steps, ClearCodes, Superseded,
      Goto, local
<1>4. ASSUME NEW r \in Req, InsertCode(r) PROVE Kept
  BY <1>4
  DEF Kept, Over, Answered, Pending, Sent, TypeOK, Placed, Before, Steps, InsertCode,
      Goto, local
<1>5. ASSUME NEW r \in Req, SendMail(r) PROVE Kept
  BY <1>5
  DEF Kept, Over, Answered, Pending, Sent, TypeOK, Placed, Before, Steps, SendMail,
      Goto, tables, local
<1>6. ASSUME NEW r \in Req, ValidateCode(r) PROVE Kept
  BY <1>6
  DEF Kept, Over, Answered, Pending, Sent, TypeOK, Placed, Before, Steps, ValidateCode,
      Presented, AfterValidate, Goto, tables
<1>7. ASSUME NEW r \in Req, CheckDuplicate(r) PROVE Kept
  BY <1>7
  DEF Kept, Over, Answered, Pending, Sent, TypeOK, Placed, Before, Steps,
      CheckDuplicate, Goto, tables, local
<1>8. ASSUME NEW r \in Req, Fork(r) PROVE Kept
  BY <1>8
  DEF Kept, Over, Answered, Pending, Sent, TypeOK, Placed, Before, Steps, Fork, Goto,
      tables
<1>9. ASSUME NEW r \in Req, CreateUser(r) PROVE Kept
  BY <1>9
  DEF Kept, Over, Answered, Pending, Sent, TypeOK, Placed, Before, Steps, CreateUser
<1>10. ASSUME NEW r \in Req, CreateProfile(r) PROVE Kept
  BY <1>10
  DEF Kept, Over, Answered, Pending, Sent, TypeOK, Placed, Before, Steps, CreateProfile
<1>11. ASSUME NEW r \in Req, UpdatePassword(r) PROVE Kept
  BY <1>11
  DEF Kept, Over, Answered, Pending, Sent, TypeOK, Placed, Before, Steps, UpdatePassword
<1>12. ASSUME NEW r \in Req, DeleteCode(r) PROVE Kept
  BY <1>12
  DEF Kept, Over, Answered, Pending, Sent, TypeOK, Placed, Before, Steps, DeleteCode,
      Presented
<1>13. ASSUME NEW r \in Req, Settle(r) PROVE Kept
  BY <1>13
  DEF Kept, Over, Answered, Pending, Sent, TypeOK, Placed, Before, Steps, Settle, AllDone,
      AfterJoin, Goto, tables, local
<1>14. ASSUME NEW r \in Req, CreateServiceProvider(r) PROVE Kept
  BY <1>14
  DEF Kept, Over, Answered, Pending, Sent, TypeOK, Placed, Before, Steps,
      CreateServiceProvider, Goto, local
<1>15. ASSUME NEW r \in Req, Reply(r) PROVE Kept
  BY <1>15
  DEF Kept, Over, Answered, Pending, Sent, TypeOK, Placed, Before, Steps, Reply, Goto,
      tables, local
<1>16. ASSUME NEW r \in Req, Throw(r) PROVE Kept
  BY <1>16
  DEF Kept, Over, Answered, Pending, Sent, TypeOK, Placed, Before, Steps, Throw, Goto,
      tables, local
<1>17. ASSUME NEW r \in Req, ThrowInBranch(r) PROVE Kept
  BY <1>17
  DEF Kept, Over, Answered, Pending, Sent, TypeOK, Placed, Before, Steps,
      ThrowInBranch, tables
<1>18. ASSUME NEW r \in Req, Crash(r) PROVE Kept
  BY <1>18
  DEF Kept, Over, Answered, Pending, Sent, TypeOK, Placed, Before, Steps, Crash, Goto,
      tables
<1>19. ASSUME NEW k \in codes, Expire(k) PROVE Kept
  BY <1>19
  DEF Kept, Over, Answered, Pending, Sent, TypeOK, Placed, Before, Steps, Expire, local
<1>20. ASSUME NEW e \in Deletable, SoftDelete(e) PROVE Kept
  BY <1>20
  DEF Kept, Over, Answered, Pending, Sent, TypeOK, Placed, Before, Steps, SoftDelete,
      local
<1>. QED
  BY <1>0, <1>1, <1>2, <1>3, <1>4, <1>5, <1>6, <1>7, <1>8, <1>9, <1>10, <1>11, <1>12,
      <1>13, <1>14, <1>15, <1>16, <1>17, <1>18, <1>19, <1>20 DEF Next, Step, Quiescent

LEMMA InitRows == Init => Rows
BY DEF Init, Rows

\* The steps that touch no code row and spend or prove nothing.
RowsIdle == UNCHANGED <<codes, issued, proof, consumed>>

LEMMA OtherSteps ==
    ASSUME TypeOK, [Next]_vars
    PROVE  \/ RowsIdle
           \/ \E r \in Req : \/ ClearCodes(r) \/ InsertCode(r)
                             \/ ValidateCode(r) \/ DeleteCode(r)
BY DEF RowsIdle, Next, Step, Start, LookupUser, SendMail, CheckDuplicate, Fork,
    CreateUser,
       CreateProfile, UpdatePassword, Settle, AllDone, CreateServiceProvider, Reply, Throw,
       ThrowInBranch, Crash, Expire, SoftDelete, Quiescent, vars, tables, local

LEMMA NextRows == TypeOK /\ Placed /\ Rows /\ [Next]_vars => Rows'
<1>. SUFFICES ASSUME TypeOK, Placed, Rows, [Next]_vars PROVE Rows'
  OBVIOUS
<1>0. Kept /\ TypeOK'
  BY NextKept, NextPlaced
<1>a. \A r \in issued : pc[r] # "idle" /\ r \in Req
  BY DEF Rows, Sent, TypeOK
<1>b. \A r \in Req : proof[r] # None =>
        proof'[r] = proof[r] /\ Authorised(r, in[r].email)'
  BY <1>0, <1>a DEF Kept, Rows, Authorised, Placed
<1>1. CASE RowsIdle
  BY <1>1, <1>0, <1>a, <1>b DEF RowsIdle, Rows, Kept, TypeOK
<1>2. ASSUME NEW r \in Req, ClearCodes(r) PROVE Rows'
  BY <1>2, <1>0, <1>a, <1>b DEF ClearCodes, Superseded, local, Rows, Kept, TypeOK
<1>3. ASSUME NEW r \in Req, InsertCode(r) PROVE Rows'
  <2>1. in[r].op = "sendOTP" /\ r \notin issued /\ UNCHANGED <<in, proof, consumed>>
    BY <1>3 DEF InsertCode, local, Rows, Sent, Placed
  <2>2. CASE UNCHANGED <<codes, issued>>
    BY <2>1, <2>2, <1>0, <1>a, <1>b DEF Rows, Kept, TypeOK
  <2>3. ASSUME NEW c \in Code,
               codes' = codes \cup {[id |-> r, email |-> in[r].email,
                                     type |-> in[r].type, code |-> c]},
               issued' = issued \cup {r}, pc' = [pc EXCEPT ![r] = "mail"]
        PROVE  Rows'
    <3>1. \A k \in codes : k.id # r
      BY <2>1 DEF Rows
    <3>2. \A k \in codes' : k \in codes \/ (/\ k.id = r /\ k.email = in[r].email
                                            /\ k.type = in[r].type /\ k.code = c)
      BY <2>3
    <3>3. \A k, l \in codes' : k.id = l.id => k = l
      BY <2>3, <3>1 DEF Rows
    <3>4. \A q \in issued' : pc'[q] \in Sent
      BY <2>3, <1>0, <1>a DEF Kept, Rows, Sent, TypeOK
    <3>5. \A q \in Req : consumed[q] # None => consumed[q] # r
      BY <2>1 DEF Rows
    <3>. QED
      BY <2>1, <2>3, <3>1, <3>2, <3>3, <3>4, <3>5, <1>b DEF Rows
  <2>. QED
    BY <1>3, <2>2, <2>3 DEF InsertCode, Goto
<1>4. ASSUME NEW r \in Req, ValidateCode(r) PROVE Rows'
  <2>1. UNCHANGED <<codes, issued, in, consumed>>
    BY <1>4 DEF ValidateCode, tables
  <2>2. \A q \in issued : pc'[q] \in Sent
    BY <1>0, <1>a DEF Kept, Rows
  <2>3. ASSUME NEW q \in Req, proof'[q] # None
        PROVE  proof'[q] \in issued /\ Authorised(q, in[q].email)'
    <3>1. CASE proof[q] # None
      BY <3>1, <1>b DEF Rows
    <3>2. CASE proof[q] = None
      <4>1. q = r /\ \E k \in Presented(r) : proof'[r] = k.id
        BY <1>4, <2>3, <3>2 DEF ValidateCode, TypeOK
      <4>. QED
        BY <4>1, <2>1, <1>a DEF Presented, Rows, Authorised
    <3>. QED
      BY <3>1, <3>2
  <2>. QED
    BY <2>1, <2>2, <2>3 DEF Rows
<1>5. ASSUME NEW r \in Req, DeleteCode(r) PROVE Rows'
  <2>1. UNCHANGED <<issued, in, proof, pc>>
    BY <1>5 DEF DeleteCode
  <2>2. CASE UNCHANGED <<codes, consumed>>
    BY <2>1, <2>2, <1>b DEF Rows, Sent
  <2>3. ASSUME NEW k \in codes, codes' = codes \ {k},
               consumed' = [consumed EXCEPT ![r] = k.id]
        PROVE  Rows'
    BY <2>1, <2>3, <1>b DEF Rows, Sent, TypeOK
  <2>. QED
    BY <1>5, <2>2, <2>3 DEF DeleteCode, Presented
<1>. QED
  BY <1>1, <1>2, <1>3, <1>4, <1>5, OtherSteps

LEMMA Invariant == Spec => [](TypeOK /\ Placed /\ Rows)
<1>1. Init => TypeOK /\ Placed /\ Rows
  BY InitPlaced, InitRows
<1>2. (TypeOK /\ Placed /\ Rows) /\ [Next]_vars => (TypeOK /\ Placed /\ Rows)'
  BY NextPlaced, NextRows
<1>. QED
  BY <1>1, <1>2, PTL DEF Spec

(* Every table and every request's local state keeps its type.             *)
THEOREM TypeCorrect == Spec => []TypeOK
BY Invariant, PTL

(* The OTP table implements SingleUse: whatever the service does to it is  *)
(* issuing a fresh row, one request spending a live one, or a withdrawal.  *)
THEOREM CodesImplementSingleUse == Spec => CodesAreSingleUse
<1>1. Init => Otp!Init
  BY DEF Init, Otp!Init
<1>2. ASSUME TypeOK, Placed, Rows, [Next]_vars
      PROVE  Otp!Next \/ UNCHANGED Otp!vars
  <2>. DEFINE ids == {k.id : k \in codes}
              pairs == {<<consumed[r], r>> : r \in {q \in Req : consumed[q] # None}}
  <2>0. ids \subseteq Req
    BY RowIds, <1>2
  <2>1. CASE RowsIdle
    BY <2>1 DEF RowsIdle, Otp!vars
  <2>2. ASSUME NEW r \in Req, ClearCodes(r) PROVE Otp!Next
    <3>. DEFINE gone == {k.id : k \in {l \in codes : SameKind(l, in[r])}}
    <3>1. gone \in SUBSET Req
      BY <2>0
    <3>2. ids' = ids \ gone
      BY <2>2, <1>2 DEF ClearCodes, Superseded, Rows
    <3>3. UNCHANGED <<issued, pairs>>
      BY <2>2 DEF ClearCodes, Superseded, local
    <3>4. PICK S \in SUBSET Req : ids' = ids \ S
      BY <3>1, <3>2
    <3>5. Otp!Void(S)
      BY <3>3, <3>4 DEF Otp!Void
    <3>. QED
      BY <3>5 DEF Otp!Next
  <2>3. ASSUME NEW r \in Req, InsertCode(r) PROVE Otp!Next \/ UNCHANGED Otp!vars
    <3>1. UNCHANGED consumed /\ r \notin issued
      BY <2>3, <1>2 DEF InsertCode, local, Rows, Sent
    <3>2. CASE UNCHANGED <<codes, issued>>
      BY <3>1, <3>2 DEF Otp!vars
    <3>3. ASSUME NEW row, row.id = r, codes' = codes \cup {row}, issued' = issued \cup {r}
          PROVE  Otp!Next
      <4>1. ids' = ids \cup {r}
        BY <3>3
      <4>2. Otp!Issue(r)
        BY <3>1, <3>3, <4>1 DEF Otp!Issue
      <4>. QED
        BY <4>2 DEF Otp!Next
    <3>. QED
      BY <2>3, <3>2, <3>3 DEF InsertCode
  <2>4. ASSUME NEW r \in Req, ValidateCode(r) PROVE UNCHANGED Otp!vars
    BY <2>4 DEF ValidateCode, tables, Otp!vars
  <2>5. ASSUME NEW r \in Req, DeleteCode(r) PROVE Otp!Next \/ UNCHANGED Otp!vars
    <3>1. CASE UNCHANGED <<codes, consumed>>
      BY <2>5, <3>1 DEF DeleteCode, Otp!vars
    <3>2. ASSUME NEW k \in codes, codes' = codes \ {k},
                 consumed' = [consumed EXCEPT ![r] = k.id]
          PROVE  Otp!Next
      <4>1. ids' = ids \ {k.id}
        BY <3>2, <1>2 DEF Rows
      <4>2. consumed[r] = None
        BY <2>5, <1>2 DEF DeleteCode, Placed
      <4>3. k.id # None /\ k.id \in Req
        BY RowIds, <1>2
      <4>4. \A q \in Req : consumed'[q] = IF q = r THEN k.id ELSE consumed[q]
        BY <3>2, <1>2 DEF TypeOK
      <4>5. pairs' = pairs \cup {<<k.id, r>>}
        <5>1. ASSUME NEW p \in pairs' PROVE p \in pairs \cup {<<k.id, r>>}
          BY <4>4
        <5>2. ASSUME NEW p \in pairs PROVE p \in pairs'
          BY <4>2, <4>4
        <5>3. <<k.id, r>> \in pairs'
          BY <4>3, <4>4
        <5>. QED
          BY <5>1, <5>2, <5>3
      <4>6. Otp!Spend(k.id, r)
        BY <2>5, <4>1, <4>5 DEF Otp!Spend, DeleteCode
      <4>. QED
        BY <4>3, <4>6 DEF Otp!Next
    <3>. QED
      BY <2>5, <3>1, <3>2 DEF DeleteCode, Presented
  <2>. QED
    BY <1>2, <2>1, <2>2, <2>3, <2>4, <2>5, OtherSteps
<1>. QED
  BY <1>1, <1>2, Invariant, PTL DEF Spec, CodesAreSingleUse, Otp!Spec

(* No OTP row is spent by two requests, and a spent one is not in the      *)
(* table: what SingleUse promises its users.                               *)
THEOREM CodesSpentOnce == Spec => [](Otp!TypeOK /\ Otp!AtMostOnce)
<1>1. TypeOK /\ Placed /\ Rows => Otp!TypeOK /\ Otp!AtMostOnce
  <2>. SUFFICES ASSUME TypeOK, Placed, Rows PROVE Otp!TypeOK /\ Otp!AtMostOnce
    OBVIOUS
  <2>1. \A r \in Req : consumed[r] # None =>
            /\ consumed[r] \in issued
            /\ consumed[r] \notin {k.id : k \in codes}
            /\ \A q \in Req : consumed[q] = consumed[r] => q = r
    BY DEF Rows
  <2>. QED
    BY <2>1 DEF TypeOK, Rows, Otp!TypeOK, Otp!AtMostOnce
<1>. QED
  BY <1>1, Invariant, PTL

(* Two successful answers never rest on the same OTP row.                  *)
THEOREM OneAckPerCodeHolds == Spec => []OneAckPerCode
<1>1. TypeOK /\ Placed /\ Rows => OneAckPerCode
  BY DEF Placed, Rows, OneAckPerCode
<1>. QED
  BY <1>1, Invariant, PTL

LEMMA InitOwners == Init => Owners
BY AccountsAssumption DEF Init, Owners

LEMMA NextOwners == TypeOK /\ Placed /\ Owners /\ [Next]_vars => Owners'
<1>. SUFFICES ASSUME TypeOK, Placed, Owners, [Next]_vars PROVE Owners'
  OBVIOUS
<1>k. Kept /\ TypeOK' /\ Placed'
  BY NextKept, NextPlaced
<1>0. CASE UNCHANGED vars
  BY <1>0 DEF Owners, Registers, vars, tables, local
<1>1. ASSUME NEW r \in Req, Start(r) PROVE Owners'
  BY <1>1, <1>k, AccountsAssumption
  DEF Owners, TypeOK, Placed, Kept, Before, Registers, Spends, Start, FirstStep, Goto,
      tables
<1>2. ASSUME NEW r \in Req, LookupUser(r) PROVE Owners'
  BY <1>2, <1>k, AccountsAssumption
  DEF Owners, TypeOK, Placed, Kept, Before, Registers, Spends, LookupUser, Goto,
      tables, local
<1>3. ASSUME NEW r \in Req, ClearCodes(r) PROVE Owners'
  BY <1>3, <1>k, AccountsAssumption
  DEF Owners, TypeOK, Placed, Kept, Before, Registers, Spends, ClearCodes, Superseded, Goto, local
<1>4. ASSUME NEW r \in Req, InsertCode(r) PROVE Owners'
  BY <1>4, <1>k, AccountsAssumption
  DEF Owners, TypeOK, Placed, Kept, Before, Registers, Spends, InsertCode, Goto, local
<1>5. ASSUME NEW r \in Req, SendMail(r) PROVE Owners'
  BY <1>5, <1>k, AccountsAssumption
  DEF Owners, TypeOK, Placed, Kept, Before, Registers, Spends, SendMail, Goto, tables,
      local
<1>6. ASSUME NEW r \in Req, ValidateCode(r) PROVE Owners'
  BY <1>6, <1>k, AccountsAssumption
  DEF Owners, TypeOK, Placed, Kept, Before, Registers, Spends, ValidateCode, Presented,
      AfterValidate, Goto, tables
<1>7. ASSUME NEW r \in Req, CheckDuplicate(r) PROVE Owners'
  BY <1>7, <1>k, AccountsAssumption
  DEF Owners, TypeOK, Placed, Kept, Before, Registers, Spends, CheckDuplicate, Goto,
      tables, local
<1>8. ASSUME NEW r \in Req, Fork(r) PROVE Owners'
  BY <1>8, <1>k, AccountsAssumption
  DEF Owners, TypeOK, Placed, Kept, Before, Registers, Spends, Fork, Goto, tables
<1>9. ASSUME NEW r \in Req, CreateUser(r) PROVE Owners'
  <2>1. in[r].email \in Email /\ proof[r] # None /\ UNCHANGED <<in, pc, proof, profile, provider>>
    BY <1>9, BodyOf DEF CreateUser, Placed
  <2>2. CASE user[in[r].email] = None
    <3>1. \A e \in Email : /\ user'[e] = (IF e = in[r].email THEN r ELSE user[e])
                           /\ password'[e] = (IF e = in[r].email THEN r ELSE password[e])
      BY <1>9, <2>1, <2>2 DEF CreateUser, TypeOK
    <3>2. \A q \in Req : acct'[q] = (IF q = r THEN "profile" ELSE acct[q])
      BY <1>9, <2>2 DEF CreateUser, TypeOK
    <3>3. \A q \in Req : acct[q] # "none" => in[q].email \in Email
      BY BodyOf DEF Placed
    <3>. QED
      BY <2>1, <2>2, <3>1, <3>2, <3>3, AccountsAssumption DEF Owners, Registers
  <2>3. CASE user[in[r].email] # None
    BY <1>9, <2>1, <2>3 DEF CreateUser, Owners, TypeOK, Registers
  <2>. QED
    BY <2>2, <2>3
<1>10. ASSUME NEW r \in Req, CreateProfile(r) PROVE Owners'
  BY <1>10, <1>k, AccountsAssumption
  DEF Owners, TypeOK, Placed, Kept, Before, Registers, Spends, CreateProfile
<1>11. ASSUME NEW r \in Req, UpdatePassword(r) PROVE Owners'
  BY <1>11, <1>k, AccountsAssumption
  DEF Owners, TypeOK, Placed, Kept, Before, Registers, Spends, UpdatePassword
<1>12. ASSUME NEW r \in Req, DeleteCode(r) PROVE Owners'
  BY <1>12, <1>k, AccountsAssumption
  DEF Owners, TypeOK, Placed, Kept, Before, Registers, Spends, DeleteCode, Presented
<1>13. ASSUME NEW r \in Req, Settle(r) PROVE Owners'
  BY <1>13, <1>k, AccountsAssumption
  DEF Owners, TypeOK, Placed, Kept, Before, Registers, Spends, Settle, AllDone, AfterJoin, Goto,
      tables, local
<1>14. ASSUME NEW r \in Req, CreateServiceProvider(r) PROVE Owners'
  BY <1>14, <1>k, AccountsAssumption
  DEF Owners, TypeOK, Placed, Kept, Before, Registers, Spends, CreateServiceProvider,
      Goto, local
<1>15. ASSUME NEW r \in Req, Reply(r) PROVE Owners'
  BY <1>15, <1>k, AccountsAssumption
  DEF Owners, TypeOK, Placed, Kept, Before, Registers, Spends, Reply, Goto, tables,
      local
<1>16. ASSUME NEW r \in Req, Throw(r) PROVE Owners'
  BY <1>16, <1>k, AccountsAssumption
  DEF Owners, TypeOK, Placed, Kept, Before, Registers, Spends, Throw, Goto, tables,
      local
<1>17. ASSUME NEW r \in Req, ThrowInBranch(r) PROVE Owners'
  BY <1>17, <1>k, AccountsAssumption
  DEF Owners, TypeOK, Placed, Kept, Before, Registers, Spends, ThrowInBranch, tables
<1>18. ASSUME NEW r \in Req, Crash(r) PROVE Owners'
  BY <1>18, <1>k, AccountsAssumption
  DEF Owners, TypeOK, Placed, Kept, Before, Registers, Spends, Crash, Goto, tables
<1>19. ASSUME NEW k \in codes, Expire(k) PROVE Owners'
  BY <1>19, <1>k, AccountsAssumption
  DEF Owners, TypeOK, Placed, Kept, Before, Registers, Spends, Expire, local
<1>20. ASSUME NEW e \in Deletable, SoftDelete(e) PROVE Owners'
  BY <1>20, <1>k, AccountsAssumption
  DEF Owners, TypeOK, Placed, Kept, Before, Registers, Spends, SoftDelete, local
<1>. QED
  BY <1>0, <1>1, <1>2, <1>3, <1>4, <1>5, <1>6, <1>7, <1>8, <1>9, <1>10, <1>11, <1>12,
      <1>13, <1>14, <1>15, <1>16, <1>17, <1>18, <1>19, <1>20 DEF Next, Step, Quiescent

LEMMA OwnersInvariant == Spec => [](TypeOK /\ Placed /\ Rows /\ Owners)
<1>1. Init => TypeOK /\ Placed /\ Rows /\ Owners
  BY InitPlaced, InitRows, InitOwners
<1>2. (TypeOK /\ Placed /\ Rows /\ Owners) /\ [Next]_vars
        => (TypeOK /\ Placed /\ Rows /\ Owners)'
  BY NextPlaced, NextRows, NextOwners
<1>. QED
  BY <1>1, <1>2, PTL DEF Spec

(* A registration answered with success is whole: user, profile, provider  *)
(* row where one is due, and the OTP used up.                              *)
THEOREM AckedIsCompleteHolds == Spec => []AckedIsComplete
<1>1. TypeOK /\ Placed /\ Owners => AckedIsComplete
  BY DEF TypeOK, Placed, Owners, AckedIsComplete, Spends, Registers
<1>. QED
  BY <1>1, OwnersInvariant, PTL

(* Every user row and every password a request wrote was authorised by an  *)
(* OTP sent to that address for that purpose.                              *)
THEOREM AccountNeedsOwnCodeHolds == Spec => []AccountNeedsOwnCode
<1>1. TypeOK /\ Placed /\ Rows /\ Owners => AccountNeedsOwnCode
  BY DEF Rows, Owners, AccountNeedsOwnCode
<1>. QED
  BY <1>1, OwnersInvariant, PTL

LEMMA InitHistory == Init => History /\ SupersededCodeRefused
BY DEF Init, History, SupersededCodeRefused

\* Only Start gives a request a history, only ValidateCode a proof.
LEMMA NextPrior ==
    ASSUME TypeOK, Placed, [Next]_vars, NEW r \in Req
    PROVE  /\ prior'[r] = prior[r] \/ (proof[r] = None /\ pc'[r] \in {"lookup", "validate"})
           /\ \A q \in prior'[r] : q \in prior[r] \/ Over(q)
BY DEF TypeOK, Placed, Before, Start, Goto, FirstStep, Next, Step, LookupUser,
    ClearCodes, Superseded,
       InsertCode, SendMail, ValidateCode, CheckDuplicate, Fork, CreateUser, CreateProfile,
       UpdatePassword, DeleteCode, Settle, AllDone, CreateServiceProvider, Reply, Throw,
       ThrowInBranch, Crash, Expire, SoftDelete, Quiescent, vars, tables, local

LEMMA NextHistory == TypeOK /\ Placed /\ History /\ [Next]_vars => History'
<1>. SUFFICES ASSUME TypeOK, Placed, History, [Next]_vars PROVE History'
  OBVIOUS
<1>k. Kept /\ TypeOK'
  BY NextKept, NextPlaced
<1>p. \A r \in Req : \A q \in prior'[r] : Over(q)'
  BY <1>k, NextPrior DEF History, Kept, TypeOK
<1>0. CASE UNCHANGED vars
  BY <1>0, <1>p DEF History, SameKind, vars, tables, local
<1>1. ASSUME NEW r \in Req, Start(r) PROVE History'
  BY <1>1, <1>k, <1>p
  DEF History, TypeOK, Placed, Kept, Before, Registers, Spends, SameKind, Over,
      Answered, Pending, Start, FirstStep, Goto, tables
<1>2. ASSUME NEW r \in Req, LookupUser(r) PROVE History'
  BY <1>2, <1>k, <1>p
  DEF History, TypeOK, Placed, Kept, Before, Registers, Spends, SameKind, Over,
      Answered, Pending, LookupUser, Goto, tables, local
<1>3. ASSUME NEW r \in Req, ClearCodes(r) PROVE History'
  BY <1>3, <1>k, <1>p
  DEF History, TypeOK, Placed, Kept, Before, Registers, Spends, SameKind, Over,
      Answered, Pending, ClearCodes, Superseded, Goto, local
<1>4. ASSUME NEW r \in Req, InsertCode(r) PROVE History'
  BY <1>4, <1>k, <1>p
  DEF History, TypeOK, Placed, Kept, Before, Registers, Spends, SameKind, Over,
      Answered, Pending, InsertCode, Goto, local
<1>5. ASSUME NEW r \in Req, SendMail(r) PROVE History'
  BY <1>5, <1>k, <1>p
  DEF History, TypeOK, Placed, Kept, Before, Registers, Spends, SameKind, Over,
      Answered, Pending, SendMail, Goto, tables, local
<1>6. ASSUME NEW r \in Req, ValidateCode(r) PROVE History'
  BY <1>6, <1>k, <1>p
  DEF History, TypeOK, Placed, Kept, Before, Registers, Spends, SameKind, Over,
      Answered, Pending, ValidateCode, Presented, AfterValidate, Goto, tables
<1>7. ASSUME NEW r \in Req, CheckDuplicate(r) PROVE History'
  BY <1>7, <1>k, <1>p
  DEF History, TypeOK, Placed, Kept, CheckDuplicate, Duplicate, Goto, tables, local
<1>8. ASSUME NEW r \in Req, Fork(r) PROVE History'
  BY <1>8, <1>k, <1>p
  DEF History, TypeOK, Placed, Kept, Before, Registers, Spends, SameKind, Over,
      Answered, Pending, Fork, Goto, tables
<1>9. ASSUME NEW r \in Req, CreateUser(r) PROVE History'
  BY <1>9, <1>k, <1>p
  DEF History, TypeOK, Placed, Kept, Before, Registers, Spends, SameKind, Over,
      Answered, Pending, CreateUser
<1>10. ASSUME NEW r \in Req, CreateProfile(r) PROVE History'
  BY <1>10, <1>k, <1>p
  DEF History, TypeOK, Placed, Kept, Before, Registers, Spends, SameKind, Over,
      Answered, Pending, CreateProfile
<1>11. ASSUME NEW r \in Req, UpdatePassword(r) PROVE History'
  BY <1>11, <1>k, <1>p
  DEF History, TypeOK, Placed, Kept, Before, Registers, Spends, SameKind, Over,
      Answered, Pending, UpdatePassword
<1>12. ASSUME NEW r \in Req, DeleteCode(r) PROVE History'
  BY <1>12, <1>k, <1>p
  DEF History, TypeOK, Placed, Kept, Before, Registers, Spends, SameKind, Over,
      Answered, Pending, DeleteCode, Presented
<1>13. ASSUME NEW r \in Req, Settle(r) PROVE History'
  BY <1>13, <1>k, <1>p
  DEF History, TypeOK, Placed, Kept, Before, Registers, Spends, SameKind, Over,
      Answered, Pending, Settle, AllDone, AfterJoin, Goto, tables, local
<1>14. ASSUME NEW r \in Req, CreateServiceProvider(r) PROVE History'
  BY <1>14, <1>k, <1>p
  DEF History, TypeOK, Placed, Kept, Before, Registers, Spends, SameKind, Over,
      Answered, Pending, CreateServiceProvider, Goto, local
<1>15. ASSUME NEW r \in Req, Reply(r) PROVE History'
  BY <1>15, <1>k, <1>p
  DEF History, TypeOK, Placed, Kept, Before, Registers, Spends, SameKind, Over,
      Answered, Pending, Reply, Goto, tables, local
<1>16. ASSUME NEW r \in Req, Throw(r) PROVE History'
  BY <1>16, <1>k, <1>p
  DEF History, TypeOK, Placed, Kept, Before, Registers, Spends, SameKind, Over,
      Answered, Pending, Throw, Goto, tables, local
<1>17. ASSUME NEW r \in Req, ThrowInBranch(r) PROVE History'
  BY <1>17, <1>k, <1>p
  DEF History, TypeOK, Placed, Kept, Before, Registers, Spends, SameKind, Over,
      Answered, Pending, ThrowInBranch, tables
<1>18. ASSUME NEW r \in Req, Crash(r) PROVE History'
  BY <1>18, <1>k, <1>p
  DEF History, TypeOK, Placed, Kept, Before, Registers, Spends, SameKind, Over,
      Answered, Pending, Crash, Goto, tables
<1>19. ASSUME NEW k \in codes, Expire(k) PROVE History'
  BY <1>19, <1>k, <1>p
  DEF History, TypeOK, Placed, Kept, Before, Registers, Spends, SameKind, Over,
      Answered, Pending, Expire, local
<1>20. ASSUME NEW e \in Deletable, SoftDelete(e) PROVE History'
  BY <1>20, <1>k, <1>p
  DEF History, TypeOK, Placed, Kept, Before, Registers, Spends, SameKind, Over,
      Answered, Pending, SoftDelete, local
<1>. QED
  BY <1>0, <1>1, <1>2, <1>3, <1>4, <1>5, <1>6, <1>7, <1>8, <1>9, <1>10, <1>11, <1>12,
      <1>13, <1>14, <1>15, <1>16, <1>17, <1>18, <1>19, <1>20 DEF Next, Step, Quiescent

LEMMA NextSuperseded ==
    TypeOK /\ Placed /\ History /\ SupersededCodeRefused /\ [Next]_vars
        => SupersededCodeRefused'
<1>. SUFFICES ASSUME TypeOK, Placed, History, SupersededCodeRefused, [Next]_vars,
                     NEW r \in Req, NEW b \in Req,
                     proof'[r] # None, b \in prior'[r], pc'[b] = "ok",
                     in'[b].op = "sendOTP", in'[b].email = in'[r].email,
                     in'[b].type = WantedType(in'[r].op)
              PROVE  proof'[r] \notin prior'[b]
  BY DEF SupersededCodeRefused
<1>1. Kept /\ TypeOK' /\ Placed'
  BY NextKept, NextPlaced
<1>2. CASE proof[r] # None
  <2>1. pc[r] # "idle" /\ in'[r] = in[r] /\ prior'[r] = prior[r] /\ proof'[r] = proof[r]
    BY <1>1, <1>2 DEF Placed, Kept
  <2>2. Over(b) /\ pc'[b] = pc[b] /\ pc[b] # "idle"
    BY <1>1, <2>1 DEF History, Kept, Over, Answered
  <2>3. in'[b] = in[b] /\ prior'[b] = prior[b]
    BY <1>1, <2>2 DEF Kept
  <2>. QED
    BY <1>2, <2>1, <2>2, <2>3 DEF SupersededCodeRefused
<1>3. CASE proof[r] = None
  <2>1. ValidateCode(r) \/ proof' = proof \/ \E q \in Req : q # r /\ ValidateCode(q)
    BY OtherSteps DEF RowsIdle, ClearCodes, Superseded, InsertCode, DeleteCode, local
  <2>2. ValidateCode(r)
    BY <1>3, <2>1 DEF ValidateCode, TypeOK
  <2>3. UNCHANGED <<in, prior>> /\ pc[r] = "validate"
    BY <2>2 DEF ValidateCode
  <2>4. PICK k \in Presented(r) : proof'[r] = k.id
    BY <1>3, <2>2 DEF ValidateCode, TypeOK
  <2>5. pc[b] = "ok"
    BY <1>1, <2>3 DEF History, Kept
  <2>. QED
    BY <2>3, <2>4, <2>5 DEF History, Presented, SameKind
<1>. QED
  BY <1>2, <1>3

LEMMA HistoryInvariant == Spec => []( /\ TypeOK /\ Placed
                                      /\ History /\ SupersededCodeRefused)
<1>1. Init => TypeOK /\ Placed /\ History /\ SupersededCodeRefused
  BY InitPlaced, InitHistory
<1>2. (TypeOK /\ Placed /\ History /\ SupersededCodeRefused) /\ [Next]_vars
        => (TypeOK /\ Placed /\ History /\ SupersededCodeRefused)'
  BY NextPlaced, NextHistory, NextSuperseded
<1>. QED
  BY <1>1, <1>2, PTL DEF Spec

(* Once sendOTP has answered, no request that begins later is let through  *)
(* by an OTP issued before that sendOTP began.                             *)
THEOREM SupersededCodeRefusedHolds == Spec => []SupersededCodeRefused
BY HistoryInvariant, PTL

(* Two providers with one tax number come from overlapping registrations.  *)
THEOREM TaxIdUniqueUnlessOverlapHolds == Spec => []TaxIdUniqueUnlessOverlap
<1>1. TypeOK /\ History => TaxIdUniqueUnlessOverlap
  BY DEF TypeOK, History, TaxIdUniqueUnlessOverlap
<1>. QED
  BY <1>1, HistoryInvariant, PTL

-----------------------------------------------------------------------------
(* Refusals without faults.                                                *)

\* r overlaps no request for its address.
Apart(r) ==
    \A q \in Req \ {r} : pc[q] # "idle" /\ in[q].email = in[r].email
                            => q \in prior[r] \/ r \in prior[q]

\* A request whose user call has done nothing yet, or has failed, owns
\* nothing.
Untouched ==
    \A r \in Req : acct[r] \in {"none", "create", "update", "failed"} =>
        \A e \in Email : user[e] # r /\ password[e] # r

\* Nobody takes the code away from a request that is on its own: its delete
\* cannot fail, so that only its user call can be what it is refused for.
Backed ==
    \A r \in Req : Apart(r) /\ Spends(r) =>
        /\ pc[r] \in {"dup", "prepare"} \/ del[r] = "delete" => Presented(r) # {}
        /\ del[r] # "failed"
        /\ pc[r] = "error" => acct[r] \in {"none", "failed"}

LEMMA InitClean == Init => Untouched /\ Backed
BY AccountsAssumption DEF Init, Untouched, Backed

LEMMA NextUntouched ==
    ASSUME ~Faults, TypeOK, Placed, Untouched, [Next]_vars
    PROVE  Untouched'
<1>1. CASE UNCHANGED <<user, password, acct>>
  BY <1>1 DEF Untouched
<1>2. ASSUME NEW r \in Req, Fork(r) PROVE Untouched'
  BY <1>2 DEF Fork, tables, Untouched, TypeOK, Placed, Before
<1>3. ASSUME NEW r \in Req, CreateUser(r) PROVE Untouched'
  BY <1>3 DEF CreateUser, Untouched, TypeOK
<1>4. ASSUME NEW r \in Req, CreateProfile(r) PROVE Untouched'
  BY <1>4 DEF CreateProfile, Untouched, TypeOK
<1>5. ASSUME NEW r \in Req, UpdatePassword(r) PROVE Untouched'
  BY <1>5 DEF UpdatePassword, Untouched, TypeOK
<1>. QED
  BY <1>1, <1>2, <1>3, <1>4, <1>5
  DEF Next, Step, Start, LookupUser, ClearCodes, InsertCode, SendMail, ValidateCode,
      CheckDuplicate, DeleteCode, Settle, CreateServiceProvider, Reply, Throw,
      ThrowInBranch, Crash, Expire, SoftDelete, Quiescent, vars, tables, local

\* Who is apart now has been so since it began.
LEMMA ApartBefore ==
    ASSUME Kept, NEW r \in Req, pc[r] # "idle", Apart(r)'
    PROVE  Apart(r)
BY DEF Kept, Apart

\* While a request for the same address is at work, one apart is over.
LEMMA OverByThen ==
    ASSUME History, NEW r \in Req, Apart(r),
           NEW q \in Req \ {r}, pc[q] # "idle", ~Over(q), in[q].email = in[r].email
    PROVE  pc[r] \notin {"dup", "prepare"} /\ del[r] # "delete"
BY DEF History, Apart, Over, Answered, Pending

\* A code that backs a request apart stays while the request needs it.
LEMMA CodeStays ==
    ASSUME TypeOK, Placed, History, Kept, [Next]_vars,
           NEW r \in Req, Apart(r), pc[r] # "idle", Presented(r) # {},
           pc[r] \in {"dup", "prepare"} \/ del[r] = "delete", ~DeleteCode(r)
    PROVE  Presented(r)' # {}
<1>1. in'[r] = in[r]
  BY DEF Kept
<1>2. PICK k \in codes : k \in Presented(r)
  BY DEF Presented
<1>3. k.email = in[r].email
  BY <1>2 DEF Presented
<1>4. ASSUME NEW q \in Req, ClearCodes(q) PROVE k \in codes'
  <2>1. q # r /\ pc[q] # "idle" /\ ~Over(q)
    BY <1>4 DEF ClearCodes, Over, Answered, Placed, Before
  <2>2. in[q].email # in[r].email
    BY <2>1, OverByThen
  <2>. QED
    BY <1>3, <1>4, <2>2 DEF ClearCodes, Superseded, SameKind
<1>5. ASSUME NEW q \in Req, InsertCode(q) PROVE k \in codes'
  BY <1>5 DEF InsertCode
<1>6. ASSUME NEW q \in Req, DeleteCode(q) PROVE k \in codes'
  <2>1. q # r /\ pc[q] # "idle" /\ ~Over(q)
    BY <1>6 DEF DeleteCode, Over, Pending, Placed, Before
  <2>2. in[q].email # in[r].email
    BY <2>1, OverByThen
  <2>. QED
    BY <1>3, <1>6, <2>2 DEF DeleteCode, Presented
<1>7. k \in codes'
  BY <1>4, <1>5, <1>6, OtherSteps DEF RowsIdle, ValidateCode, tables
<1>. QED
  BY <1>1, <1>2, <1>7 DEF Presented

\* How a request gets where it must be backed, and how it is refused.
OwnStep(r) ==
    /\ pc[r] = "idle" => pc'[r] \in {"idle", "lookup", "validate"}
    /\ pc'[r] \in {"dup", "prepare"} => pc[r] \in {"dup", "prepare"} \/ Presented(r)' # {}
    /\ del'[r] = "delete" =>
        ~DeleteCode(r) /\ (del[r] = "delete" \/ (pc[r] = "prepare" /\ del[r] = "none"))
    /\ del'[r] = "failed" => del[r] = "failed" \/ (del[r] = "delete" /\ Presented(r) = {})
    /\ pc'[r] = "error" /\ pc[r] # "error" =>
        acct'[r] = acct[r] /\ (acct[r] \in {"none", "failed"} \/ del[r] = "failed")
    /\ pc[r] = "error" /\ acct[r] \in {"none", "failed"} => acct'[r] = acct[r]

LEMMA NextOwnStep ==
    ASSUME ~Faults, TypeOK, Placed, [Next]_vars, NEW r \in Req
    PROVE  OwnStep(r)
<1>0. CASE UNCHANGED <<pc, acct, del>>
  BY <1>0 DEF OwnStep, DeleteCode, TypeOK
<1>1. ASSUME NEW q \in Req, Start(q) PROVE OwnStep(r)
  BY <1>1 DEF OwnStep, TypeOK, Placed, Before, Start, FirstStep, Goto, tables, DeleteCode
<1>2. ASSUME NEW q \in Req, LookupUser(q) PROVE OwnStep(r)
  BY <1>2 DEF OwnStep, TypeOK, Placed, Before, LookupUser, Goto, tables, local, DeleteCode
<1>3. ASSUME NEW q \in Req, ClearCodes(q) PROVE OwnStep(r)
  BY <1>3 DEF OwnStep, TypeOK, Placed, Before, ClearCodes, Goto, local, DeleteCode
<1>4. ASSUME NEW q \in Req, InsertCode(q) PROVE OwnStep(r)
  BY <1>4 DEF OwnStep, TypeOK, Placed, Before, InsertCode, Goto, local, DeleteCode
<1>5. ASSUME NEW q \in Req, SendMail(q) PROVE OwnStep(r)
  BY <1>5 DEF OwnStep, TypeOK, Placed, Before, SendMail, Goto, tables, local, DeleteCode
<1>6. ASSUME NEW q \in Req, ValidateCode(q) PROVE OwnStep(r)
  <2>1. /\ UNCHANGED <<codes, in, acct, del>> /\ pc[q] = "validate"
        /\ pc' = [pc EXCEPT ![q] = pc'[q]]
        /\ pc'[q] = "error" \/ Presented(q) # {}
    BY <1>6 DEF ValidateCode, Goto, tables, TypeOK
  <2>2. Presented(q)' = Presented(q)
    BY <2>1 DEF Presented
  <2>. QED
    BY <2>1, <2>2 DEF OwnStep, TypeOK, Placed, Before, DeleteCode
<1>7. ASSUME NEW q \in Req, CheckDuplicate(q) PROVE OwnStep(r)
  BY <1>7 DEF OwnStep, TypeOK, Placed, Before, CheckDuplicate, Goto, tables, local, DeleteCode
<1>8. ASSUME NEW q \in Req, Fork(q) PROVE OwnStep(r)
  BY <1>8 DEF OwnStep, TypeOK, Placed, Before, Fork, Goto, tables, DeleteCode
<1>9. ASSUME NEW q \in Req, CreateUser(q) PROVE OwnStep(r)
  BY <1>9 DEF OwnStep, TypeOK, Placed, Before, CreateUser, DeleteCode
<1>10. ASSUME NEW q \in Req, CreateProfile(q) PROVE OwnStep(r)
  BY <1>10 DEF OwnStep, TypeOK, Placed, Before, CreateProfile, DeleteCode
<1>11. ASSUME NEW q \in Req, UpdatePassword(q) PROVE OwnStep(r)
  BY <1>11 DEF OwnStep, TypeOK, Placed, Before, UpdatePassword, DeleteCode
<1>12. ASSUME NEW q \in Req, DeleteCode(q) PROVE OwnStep(r)
  BY <1>12 DEF OwnStep, TypeOK, Placed, Before, DeleteCode
<1>13. ASSUME NEW q \in Req, Settle(q) PROVE OwnStep(r)
  BY <1>13 DEF OwnStep, TypeOK, Placed, Before, Settle, AllDone, AfterJoin, Goto, tables,
      local, DeleteCode
<1>14. ASSUME NEW q \in Req, CreateServiceProvider(q) PROVE OwnStep(r)
  BY <1>14 DEF OwnStep, TypeOK, Placed, Before, CreateServiceProvider, Goto, local, DeleteCode
<1>15. ASSUME NEW q \in Req, Reply(q) PROVE OwnStep(r)
  BY <1>15 DEF OwnStep, TypeOK, Placed, Before, Reply, Goto, tables, local, DeleteCode
<1>. QED
  BY <1>0, <1>1, <1>2, <1>3, <1>4, <1>5, <1>6, <1>7, <1>8, <1>9, <1>10,
      <1>11, <1>12, <1>13, <1>14, <1>15
  DEF Next, Step, Throw, ThrowInBranch, Crash, Expire, SoftDelete, Quiescent, vars, tables,
      local

LEMMA NextBacked ==
    ASSUME ~Faults, TypeOK, Placed, History, Backed, [Next]_vars
    PROVE  Backed'
<1>1. Kept /\ TypeOK' /\ Placed'
  BY NextKept, NextPlaced
<1>. SUFFICES ASSUME NEW r \in Req, Apart(r)', Spends(r)'
              PROVE  /\ pc'[r] \in {"dup", "prepare"} \/ del'[r] = "delete"
                            => Presented(r)' # {}
                     /\ del'[r] # "failed"
                     /\ pc'[r] = "error" => acct'[r] \in {"none", "failed"}
  BY DEF Backed
<1>2. OwnStep(r)
  BY NextOwnStep
<1>3. CASE pc[r] = "idle"
  BY <1>1, <1>2, <1>3 DEF OwnStep, Placed, Before
<1>4. CASE pc[r] # "idle"
  <2>1. Apart(r) /\ Spends(r)
    BY <1>1, <1>4, ApartBefore DEF Kept, Spends, Registers
  <2>2. ASSUME pc'[r] \in {"dup", "prepare"} \/ del'[r] = "delete"
        PROVE  Presented(r)' # {}
    <3>1. CASE pc[r] \in {"dup", "prepare"} \/ del[r] = "delete"
      <4>1. Presented(r) # {}
        BY <2>1, <3>1 DEF Backed
      <4>2. ~DeleteCode(r)
        BY <1>2, <2>2, <3>1 DEF OwnStep, DeleteCode, Placed, Before
      <4>. QED
        BY <1>1, <1>4, <2>1, <3>1, <4>1, <4>2, CodeStays
    <3>2. CASE ~(pc[r] \in {"dup", "prepare"} \/ del[r] = "delete")
      BY <1>2, <2>2, <3>2 DEF OwnStep
    <3>. QED
      BY <3>1, <3>2
  <2>3. del'[r] # "failed"
    BY <1>2, <2>1 DEF OwnStep, Backed
  <2>4. pc'[r] = "error" => acct'[r] \in {"none", "failed"}
    BY <1>2, <2>1 DEF OwnStep, Backed
  <2>. QED
    BY <2>2, <2>3, <2>4
<1>. QED
  BY <1>3, <1>4

(* Without faults, a refused request that overlapped no other request for  *)
(* its address has left neither an account nor a password behind.          *)
THEOREM SerialRefusalIsCleanHolds ==
    ASSUME ~Faults PROVE Spec => []SerialRefusalIsClean
<1>. DEFINE Clean == TypeOK /\ Placed /\ History /\ Untouched /\ Backed
<1>1. Init => Clean
  BY InitPlaced, InitHistory, InitClean
<1>2. Clean /\ [Next]_vars => Clean'
  BY NextPlaced, NextHistory, NextUntouched, NextBacked
<1>3. Clean => SerialRefusalIsClean
  BY BodyOf DEF Untouched, Backed, Apart, SerialRefusalIsClean
<1>. QED
  BY <1>1, <1>2, <1>3, PTL DEF Spec

-----------------------------------------------------------------------------
(* How requests end.                                                       *)

\* A step moves nothing of r, or starts it, or moves it on.
MovesOn(r) ==
    \/ pc'[r] = pc[r] /\ acct'[r] = acct[r] /\ del'[r] = del[r]
    \/ pc[r] = "idle"
    \/ Left(r)' < Left(r)

LEMMA StepMovesOn == ASSUME TypeOK, Placed, [Next]_vars, NEW r \in Req PROVE MovesOn(r)
<1>. USE DEF MovesOn, Left, Ahead, Calls, TypeOK, Steps
<1>1. CASE UNCHANGED <<pc, acct, del>>
  BY <1>1
<1>2. ASSUME NEW q \in Req, Start(q) PROVE MovesOn(r)
  BY <1>2 DEF Start, Goto
<1>3. ASSUME NEW q \in Req,
             LookupUser(q) \/ ClearCodes(q) \/ InsertCode(q) \/ SendMail(q)
      PROVE  MovesOn(r)
  BY <1>3 DEF LookupUser, ClearCodes, InsertCode, SendMail, Goto, tables, local
<1>4. ASSUME NEW q \in Req, ValidateCode(q) \/ CheckDuplicate(q) PROVE MovesOn(r)
  BY <1>4 DEF ValidateCode, AfterValidate, CheckDuplicate, Goto, tables, local
<1>5. ASSUME NEW q \in Req, Fork(q) PROVE MovesOn(r)
  BY <1>5 DEF Fork, Placed, Before, Goto
<1>6. ASSUME NEW q \in Req, CreateUser(q) \/ CreateProfile(q) \/ UpdatePassword(q)
      PROVE  MovesOn(r)
  BY <1>6 DEF CreateUser, CreateProfile, UpdatePassword
<1>7. ASSUME NEW q \in Req, DeleteCode(q) PROVE MovesOn(r)
  BY <1>7 DEF DeleteCode
<1>8. ASSUME NEW q \in Req, Settle(q) \/ CreateServiceProvider(q) \/ Reply(q)
      PROVE  MovesOn(r)
  BY <1>8 DEF Settle, AfterJoin, CreateServiceProvider, Reply, Goto, tables, local
<1>9. ASSUME NEW q \in Req, Throw(q) PROVE MovesOn(r)
  BY <1>9 DEF Throw, Goto, local
<1>10. ASSUME NEW q \in Req, ThrowInBranch(q) PROVE MovesOn(r)
  BY <1>10 DEF ThrowInBranch
<1>11. ASSUME NEW q \in Req, Crash(q) PROVE MovesOn(r)
  BY <1>11 DEF Crash, Over, Answered, Pending, Goto
<1>. QED
  BY <1>1, <1>2, <1>3, <1>4, <1>5, <1>6, <1>7, <1>8, <1>9, <1>10, <1>11
  DEF Next, Step, Expire, SoftDelete, Quiescent, vars, local

(* No request repeats itself or is sent back by another: every step it     *)
(* takes, faults included, lowers the number of those it has left.         *)
THEOREM EveryStepCountsHolds == Spec => EveryStepCounts
<1>1. TypeOK /\ Placed /\ [Next]_vars =>
        [\A r \in Req :
            pc[r] # "idle" /\ <<pc[r], acct[r], del[r]>>' # <<pc[r], acct[r], del[r]>>
                => Left(r)' < Left(r)]_vars
  BY StepMovesOn DEF MovesOn
<1>. QED
  BY <1>1, Invariant, PTL DEF Spec, EveryStepCounts

\* A call is lost only with its pod, and only registrations make accounts.
Ending ==
    /\ \A r \in Req : "lost" \in {acct[r], del[r]} => Faults /\ Over(r)
    /\ \A r \in Req : pc[r] = "join" => "none" \notin {acct[r], del[r]}
    /\ \A e \in Email, r \in Req : user[e] = r => pc[r] # "idle" /\ Registers(r)

LEMMA NextEnding == TypeOK /\ Placed /\ Ending /\ [Next]_vars => Ending'
<1>. SUFFICES ASSUME TypeOK, Placed, Ending, [Next]_vars PROVE Ending'
  OBVIOUS
<1>1. ASSUME NEW r \in Req, "lost" \in {acct[r], del[r]}' PROVE Faults /\ Over(r)'
  <2>1. CASE "lost" \in {acct[r], del[r]}
    BY <2>1, NextKept DEF Ending, Kept
  <2>2. ASSUME NEW q \in Req, Crash(q) PROVE Faults /\ (q = r => Over(r)')
    BY <2>2 DEF Crash, Over, Answered, Pending, Goto, TypeOK
  <2>3. CASE "lost" \notin {acct[r], del[r]}
    <3>1. Crash(r)
      BY <1>1, <2>3 DEF Next, Step, Start, LookupUser, ClearCodes, InsertCode, SendMail,
         ValidateCode, CheckDuplicate, Fork, CreateUser, CreateProfile, UpdatePassword,
         DeleteCode, Settle, CreateServiceProvider, Reply, Throw, ThrowInBranch, Crash,
         Expire, SoftDelete, Quiescent, vars, tables, local, TypeOK
    <3>. QED
      BY <2>2, <3>1
  <2>. QED
    BY <2>1, <2>3
<1>2. ASSUME NEW e \in Email, NEW r \in Req, user'[e] = r
      PROVE  pc'[r] # "idle" /\ Registers(r)'
  <2>1. user[e] = r \/ acct[r] = "create"
    BY <1>2 DEF Next, Step, Start, LookupUser, ClearCodes, InsertCode, SendMail,
       ValidateCode, CheckDuplicate, Fork, CreateUser, CreateProfile, UpdatePassword,
       DeleteCode, Settle, CreateServiceProvider, Reply, Throw, ThrowInBranch, Crash,
       Expire, SoftDelete, Quiescent, vars, tables, local, TypeOK
  <2>2. pc[r] # "idle" /\ Registers(r)
    <3>1. CASE user[e] = r
      BY <3>1 DEF Ending
    <3>2. CASE acct[r] = "create"
      BY <3>2 DEF Placed, Before
    <3>. QED
      BY <2>1, <3>1, <3>2
  <2>3. Kept
    BY NextKept
  <2>. QED
    BY <2>2, <2>3 DEF Kept, Registers
<1>3. ASSUME NEW r \in Req, pc'[r] = "join" PROVE acct'[r] # "none" /\ del'[r] # "none"
  BY <1>3 DEF Next, Step, Start, FirstStep, LookupUser, ClearCodes, InsertCode, SendMail,
     ValidateCode, AfterValidate, CheckDuplicate, Fork, CreateUser, CreateProfile,
     UpdatePassword, DeleteCode, Settle, AfterJoin, CreateServiceProvider, Reply, Throw,
     ThrowInBranch, Crash, Expire, SoftDelete, Quiescent, vars, tables, local, TypeOK,
     Ending, Goto
<1>4. \A r \in Req : "lost" \in {acct[r], del[r]}' => Faults /\ Over(r)'
  BY <1>1
<1>. QED
  BY <1>2, <1>3, <1>4 DEF Ending

LEMMA EndingInvariant == Spec => [](TypeOK /\ Placed /\ Owners /\ Ending)
<1>1. Init => Ending
  BY AccountsAssumption DEF Init, Ending
<1>. QED
  BY <1>1, OwnersInvariant, NextEnding, PTL DEF Spec

(* Where a request stands still it is over: Promise.all never waits for a  *)
(* call that is not running.                                               *)
THEOREM NeverStuckHolds == Spec => []NeverStuck
<1>1. TypeOK /\ Placed /\ Ending => NeverStuck
  BY DEF TypeOK, Steps, Placed, Ending, NeverStuck, Left, Ahead, Calls, Over, Answered,
     Pending, AllDone
<1>. QED
  BY <1>1, EndingInvariant, PTL

(* Without faults no account is left without its profile by a request that *)
(* is over, refused or not.                                                *)
THEOREM AccountEndsWholeHolds == ASSUME ~Faults PROVE Spec => []AccountEndsWhole
<1>1. TypeOK /\ Placed /\ Owners /\ Ending /\ Untouched => AccountEndsWhole
  BY DEF TypeOK, Owners, Ending, Untouched, AccountEndsWhole, Over, Pending
<1>2. Init => Untouched
  BY InitClean
<1>3. (TypeOK /\ Placed) /\ Untouched /\ [Next]_vars => Untouched'
  BY NextUntouched
<1>. QED
  BY <1>1, <1>2, <1>3, EndingInvariant, PTL DEF Spec
=============================================================================
