------------------------------ MODULE AuthProofs -------------------------------
(***************************************************************************)
(* Proofs about AuthSessions, for any accounts, devices, requests and      *)
(* bounds: the types, rotation, discarding, device binding and the         *)
(* lock-out.                                                               *)
(***************************************************************************)
EXTENDS AuthSessions, FiniteSetTheorems, TLAPS

Login   == {"login.verify", "login.fail", "login.lock", "login.reset"}
Refresh == {"refresh.user", "refresh.mismatch", "refresh.inactive", "refresh.consume"}

\* What a request has learnt at its step, of tokens `tok`, the first `n` of which were
\* stored and of which those in `D` are dead.
Learnt(q, tok, n, D) ==
  /\ q.pc # "idle" => q.user \in Users
  /\ q.pc \in Login \cup Refresh \cup {"issue"} => q.device \in Devices
  /\ q.pc \in Refresh \cup {"login.reset", "issue"} => q.password \in 1 .. MaxPasswords
  /\ q.pc \in Login => q.token = 0
  /\ q.pc \in Refresh => q.token \in 1 .. n /\ tok[q.token].user = q.user
  /\ q.pc \in {"refresh.user", "refresh.consume"} => tok[q.token].device = q.device
  /\ q.pc = "issue" /\ q.token # 0 =>
       q.token \in D /\ tok[q.token].user = q.user /\ tok[q.token].device = q.device
  /\ q.ids \subseteq 1 .. n
  /\ q.next \in {"idle", "delete.row"}
RequestsLearnt == \A r \in Requests : Learnt(req[r], token, issued, dead)

\* What a token was exchanged for another for is dead, and was given to the same user on the
\* same device.
ParentsDead ==
  \A i \in 1 .. issued :
    token[i].parent # 0 => /\ token[i].parent \in dead
                           /\ token[i].device = token[token[i].parent].device
                           /\ token[i].user = token[token[i].parent].user

\* A request that has consumed a token and not yet stored the next is alone with it, and the
\* token has no successor.
Successor(q) == q.pc = "issue" /\ q.token # 0
IssuersAlone ==
  \A r \in Requests : Successor(req[r]) =>
    /\ \A i \in 1 .. issued : token[i].parent # req[r].token
    /\ \A s \in Requests \ {r} : Successor(req[s]) => req[s].token # req[r].token

SessionsSound ==
  AuthTypeOK /\ RequestsLearnt /\ DeadStayDead /\ ParentsDead /\ SingleSuccessor /\ IssuersAlone

-------------------------------------------------------------------------------
LEMMA SessionsStart == AuthInit => SessionsSound
<1> SUFFICES ASSUME AuthInit PROVE SessionsSound OBVIOUS
<1> USE AuthAssumption DEF AuthInit
<1>1. Idle \in RequestRow BY DEF Idle, RequestRow, Steps
<1>2. AuthTypeOK BY <1>1 DEF AuthTypeOK, Tokens
<1>3. RequestsLearnt BY DEF RequestsLearnt, Learnt, Idle, Login, Refresh
<1>4. DeadStayDead /\ ParentsDead /\ SingleSuccessor BY DEF DeadStayDead, ParentsDead, SingleSuccessor
<1>5. IssuersAlone BY DEF IssuersAlone, Successor, Idle
<1> QED BY <1>2, <1>3, <1>4, <1>5 DEF SessionsSound

\* A step that stores no token, and takes some out of Redis.
Discards(X) ==
  /\ X \subseteq 1 .. issued
  /\ token' = token /\ issued' = issued
  /\ store' = store \ X
  /\ dead' = dead \cup X

\* A request that is not about to store a successor may go anywhere in such a step.
LEMMA DiscardSound ==
  ASSUME SessionsSound, NEW X, Discards(X), NEW r \in Requests, NEW q \in RequestRow,
         req' = [req EXCEPT ![r] = q], ~Successor(q) \/ q = req[r],
         Learnt(q, token, issued, dead \cup X)
  PROVE  /\ req' \in [Requests -> RequestRow]
         /\ store' \subseteq 1 .. issued' /\ dead' \subseteq 1 .. issued'
         /\ RequestsLearnt' /\ DeadStayDead' /\ ParentsDead' /\ SingleSuccessor' /\ IssuersAlone'
<1>0. /\ req \in [Requests -> RequestRow] /\ store \subseteq 1 .. issued /\ dead \subseteq 1 .. issued
      /\ token' = token /\ issued' = issued
  BY DEF SessionsSound, AuthTypeOK, Discards
<1>1. req' \in [Requests -> RequestRow] BY <1>0
<1>2. store' \subseteq 1 .. issued' /\ dead' \subseteq 1 .. issued' BY <1>0 DEF Discards
<1>3. RequestsLearnt'
  <2>1. \A s \in Requests : Learnt(req'[s], token, issued, dead \cup X)
    <3> SUFFICES ASSUME NEW s \in Requests, s # r PROVE Learnt(req'[s], token, issued, dead \cup X)
      BY <1>0
    <3>1. req'[s] = req[s] BY <1>0
    <3> QED BY <3>1 DEF SessionsSound, RequestsLearnt, Learnt
  <2> QED BY <2>1, <1>0 DEF RequestsLearnt, Discards
<1>4. DeadStayDead' BY DEF DeadStayDead, SessionsSound, Discards
<1>5. ParentsDead' BY <1>0 DEF ParentsDead, SessionsSound, Discards
<1>6. SingleSuccessor' BY <1>0 DEF SingleSuccessor, SessionsSound
<1>7. IssuersAlone'
  <2>1. \A s \in Requests : Successor(req'[s]) => req'[s] = req[s] BY <1>0
  <2> QED BY <2>1, <1>0 DEF IssuersAlone, SessionsSound
<1> QED BY <1>1, <1>2, <1>3, <1>4, <1>5, <1>6, <1>7

\* What the steps that touch no token have in common.
LEMMA QuietSound ==
  ASSUME SessionsSound, UNCHANGED tokenVars, NEW r \in Requests, NEW q \in RequestRow,
         req' = [req EXCEPT ![r] = q], ~Successor(q), Learnt(q, token, issued, dead),
         account' \in [Users -> [exists : BOOLEAN, active : BOOLEAN, password : 1 .. MaxPasswords]],
         failed' \in [Users -> Nat], locked' \in [Users -> BOOLEAN]
  PROVE  SessionsSound'
<1>1. Discards({}) BY DEF Discards, tokenVars
<1>2. Learnt(q, token, issued, dead \cup {}) BY DEF Learnt
<1>3. /\ req' \in [Requests -> RequestRow]
      /\ store' \subseteq 1 .. issued' /\ dead' \subseteq 1 .. issued'
      /\ RequestsLearnt' /\ DeadStayDead' /\ ParentsDead' /\ SingleSuccessor' /\ IssuersAlone'
  BY <1>1, <1>2, DiscardSound
<1>4. AuthTypeOK' BY <1>3 DEF SessionsSound, AuthTypeOK, tokenVars
<1> QED BY <1>3, <1>4 DEF SessionsSound

-------------------------------------------------------------------------------
\* The idle request is one that has learnt nothing.
LEMMA IdleSound ==
  Idle \in RequestRow /\ Learnt(Idle, token, issued, dead) /\ ~Successor(Idle)
BY AuthAssumption DEF Idle, RequestRow, Steps, Learnt, Login, Refresh, Successor

LEMMA LoginSteps ==
  ASSUME SessionsSound, NEW r \in Requests,
         LoginCheck(r) \/ LoginVerify(r) \/ LoginFail(r) \/ LoginLock(r) \/ LoginReset(r)
  PROVE  SessionsSound'
<1> USE AuthAssumption
<1>0. AuthTypeOK /\ req[r] \in RequestRow /\ Learnt(req[r], token, issued, dead)
  BY DEF SessionsSound, AuthTypeOK, RequestsLearnt
<1>i. Idle \in RequestRow /\ Learnt(Idle, token, issued, dead) /\ ~Successor(Idle)
  BY IdleSound
<1>1. CASE LoginCheck(r)
  <2>1. PICK u \in Users, d \in Devices : \E guess \in {0, account[u].password} :
          Goto(r, [Idle EXCEPT !.pc = "login.verify", !.user = u, !.device = d, !.password = guess])
    BY <1>1 DEF LoginCheck
  <2>g. PICK guess \in {0, account[u].password} :
          Goto(r, [Idle EXCEPT !.pc = "login.verify", !.user = u, !.device = d, !.password = guess])
    BY <2>1
  <2> DEFINE q == [Idle EXCEPT !.pc = "login.verify", !.user = u, !.device = d, !.password = guess]
  <2>2. guess \in 0 .. MaxPasswords BY <1>0 DEF AuthTypeOK
  <2>3. q \in RequestRow BY <1>i, <2>2 DEF RequestRow, Steps
  <2>4. Learnt(q, token, issued, dead) /\ ~Successor(q) BY DEF Idle, Learnt, Login, Refresh, Successor
  <2> QED BY <1>0, <1>1, <2>g, <2>3, <2>4, QuietSound DEF LoginCheck, Goto, AuthTypeOK, loginVars
<1>2. CASE LoginVerify(r)
  <2> DEFINE q == [req[r] EXCEPT !.pc = IF Usable(req[r].user) /\ req[r].password = account[req[r].user].password
                                          THEN "login.reset" ELSE "login.fail"]
  <2>1. req[r].pc = "login.verify" /\ req[r].user \in Users BY <1>0, <1>2 DEF LoginVerify, At, Learnt
  <2>2. account[req[r].user].password \in 1 .. MaxPasswords BY <1>0, <2>1 DEF AuthTypeOK
  <2>3. q \in RequestRow BY <1>0 DEF RequestRow, Steps
  <2>4. Learnt(q, token, issued, dead) /\ ~Successor(q)
    BY <1>0, <2>1, <2>2 DEF RequestRow, Learnt, Login, Refresh, Successor
  <2>5. req' = [req EXCEPT ![r] = q] BY <1>2 DEF LoginVerify, Goto
  <2> QED BY <1>0, <1>2, <2>3, <2>4, <2>5, QuietSound DEF LoginVerify, AuthTypeOK, loginVars
<1>3. CASE LoginFail(r)
  <2> DEFINE q == IF LockDue(failed[req[r].user] + 1) THEN [req[r] EXCEPT !.pc = "login.lock"] ELSE Idle
  <2>1. req[r].pc = "login.fail" /\ req[r].user \in Users BY <1>0, <1>3 DEF LoginFail, At, Learnt
  <2>2. q \in RequestRow BY <1>0, <1>i DEF RequestRow, Steps
  <2>3. Learnt(q, token, issued, dead) /\ ~Successor(q)
    BY <1>0, <1>i, <2>1 DEF RequestRow, Learnt, Login, Refresh, Successor
  <2>4. req' = [req EXCEPT ![r] = q] BY <1>3 DEF LoginFail, Goto
  <2>5. failed' \in [Users -> Nat] BY <1>0, <1>3, <2>1 DEF LoginFail, AuthTypeOK
  <2> QED BY <1>0, <1>3, <2>2, <2>3, <2>4, <2>5, QuietSound DEF LoginFail, AuthTypeOK
<1>4. CASE LoginLock(r)
  <2>1. locked' \in [Users -> BOOLEAN] BY <1>0, <1>4 DEF LoginLock, AuthTypeOK
  <2> QED BY <1>0, <1>i, <1>4, <2>1, QuietSound DEF LoginLock, Finish, Goto, AuthTypeOK
<1>5. CASE LoginReset(r)
  <2> DEFINE q == [req[r] EXCEPT !.pc = "issue"]
  <2>1. req[r].pc = "login.reset" BY <1>5 DEF LoginReset, At
  <2>2. q \in RequestRow BY <1>0 DEF RequestRow, Steps
  <2>3. Learnt(q, token, issued, dead) /\ ~Successor(q)
    BY <1>0, <2>1 DEF RequestRow, Learnt, Login, Refresh, Successor
  <2>4. req' = [req EXCEPT ![r] = q] BY <1>5 DEF LoginReset, Goto
  <2>5. failed' \in [Users -> Nat] BY <1>0, <1>5 DEF LoginReset, AuthTypeOK
  <2> QED BY <1>0, <1>5, <2>2, <2>3, <2>4, <2>5, QuietSound DEF LoginReset, AuthTypeOK
<1> QED BY <1>1, <1>2, <1>3, <1>4, <1>5

LEMMA RefreshSteps ==
  ASSUME SessionsSound, NEW r \in Requests,
         RefreshGet(r) \/ RefreshMismatch(r) \/ RefreshUser(r) \/ RefreshInactive(r)
  PROVE  SessionsSound'
<1> USE AuthAssumption
<1>0. AuthTypeOK /\ req[r] \in RequestRow /\ Learnt(req[r], token, issued, dead)
  BY DEF SessionsSound, AuthTypeOK, RequestsLearnt
<1>i. Idle \in RequestRow /\ Learnt(Idle, token, issued, dead) /\ ~Successor(Idle)
  BY IdleSound
<1>1. CASE RefreshGet(r)
  <2>1. PICK i \in store, d \in Devices :
          req' = [req EXCEPT ![r] =
            [Idle EXCEPT !.pc = IF SameDevice(i, d) THEN "refresh.user" ELSE "refresh.mismatch",
                         !.user = token[i].user, !.device = d, !.token = i, !.password = token[i].password]]
    BY <1>1 DEF RefreshGet, Goto
  <2> DEFINE q == [Idle EXCEPT !.pc = IF SameDevice(i, d) THEN "refresh.user" ELSE "refresh.mismatch",
                               !.user = token[i].user, !.device = d, !.token = i,
                               !.password = token[i].password]
  <2>2. i \in 1 .. issued /\ i \in 1 .. MaxTokens /\ token[i] \in TokenRow BY <1>0 DEF AuthTypeOK
  <2>a. token[i].user \in Users /\ token[i].password \in 1 .. MaxPasswords BY <2>2 DEF TokenRow
  <2>b. token[i].password \in 0 .. MaxPasswords /\ i \in 0 .. MaxTokens BY <2>2, <2>a
  <2>3. q \in RequestRow BY <1>i, <2>a, <2>b DEF RequestRow, Steps
  <2>4. /\ q.pc = IF SameDevice(i, d) THEN "refresh.user" ELSE "refresh.mismatch"
        /\ q.user = token[i].user /\ q.device = d /\ q.token = i /\ q.password = token[i].password
        /\ q.ids = {} /\ q.next = "idle"
    BY DEF Idle
  <2>5. Learnt(q, token, issued, dead) /\ ~Successor(q)
    BY <2>2, <2>a, <2>4 DEF Learnt, Login, Refresh, Successor, SameDevice
  <2> QED BY <1>0, <1>1, <2>1, <2>3, <2>5, QuietSound DEF RefreshGet, AuthTypeOK, loginVars
<1>2. CASE RefreshUser(r)
  <2> DEFINE q == [req[r] EXCEPT !.pc = IF account[req[r].user].active THEN "refresh.consume"
                                                                     ELSE "refresh.inactive"]
  <2>1. req[r].pc = "refresh.user" BY <1>2 DEF RefreshUser, At
  <2>2. q \in RequestRow BY <1>0 DEF RequestRow, Steps
  <2>3. Learnt(q, token, issued, dead) /\ ~Successor(q)
    BY <1>0, <2>1 DEF RequestRow, Learnt, Login, Refresh, Successor
  <2>4. req' = [req EXCEPT ![r] = q] \/ req' = [req EXCEPT ![r] = Idle] BY <1>2 DEF RefreshUser, Goto
  <2> HIDE DEF q
  <2> QED BY <1>0, <1>2, <1>i, <2>2, <2>3, <2>4, QuietSound DEF RefreshUser, AuthTypeOK, loginVars
<1>3. CASE RefreshMismatch(r) \/ RefreshInactive(r)
  <2>1. req[r].token \in 1 .. issued BY <1>0, <1>3 DEF RefreshMismatch, RefreshInactive, At, Learnt, Refresh
  <2>2. Discards({req[r].token}) BY <1>3, <2>1 DEF Discards, RefreshMismatch, RefreshInactive, Discarded
  <2>3. req' = [req EXCEPT ![r] = Idle] BY <1>3 DEF RefreshMismatch, RefreshInactive, Finish, Goto
  <2>4. Learnt(Idle, token, issued, dead \cup {req[r].token}) BY <1>i DEF Learnt, Idle
  <2>5. /\ req' \in [Requests -> RequestRow]
        /\ store' \subseteq 1 .. issued' /\ dead' \subseteq 1 .. issued'
        /\ RequestsLearnt' /\ DeadStayDead' /\ ParentsDead' /\ SingleSuccessor' /\ IssuersAlone'
    BY <1>i, <2>2, <2>3, <2>4, DiscardSound
  <2>6. AuthTypeOK' BY <1>0, <1>3, <2>5 DEF RefreshMismatch, RefreshInactive, AuthTypeOK, loginVars
  <2> QED BY <2>5, <2>6 DEF SessionsSound
<1> QED BY <1>1, <1>2, <1>3

\* A login or a refresh stores its token.
LEMMA IssueStep ==
  ASSUME SessionsSound, NEW r \in Requests, Issue(r)
  PROVE  SessionsSound'
<1> USE AuthAssumption
<1> DEFINE q == req[r]
<1> DEFINE n == issued + 1
<1>0. /\ AuthTypeOK /\ q \in RequestRow /\ Learnt(q, token, issued, dead) /\ q.pc = "issue"
      /\ IssuersAlone /\ ParentsDead /\ SingleSuccessor /\ DeadStayDead
  BY DEF SessionsSound, AuthTypeOK, RequestsLearnt, Issue, At
<1>1. /\ issued \in Nat /\ n \in Tokens /\ issued' = n
      /\ token' = [token EXCEPT ![n] = NewToken(q)]
      /\ store' = store \cup {n} /\ dead' = dead
      /\ req' = [req EXCEPT ![r] = Idle]
      /\ account' = account /\ failed' = failed /\ locked' = locked
  BY <1>0 DEF Issue, AuthTypeOK, Tokens, Finish, Goto, loginVars
<1>2. \A i \in 1 .. n : i \in 1 .. issued \/ i = n BY <1>1
<1>3. NewToken(q) \in TokenRow
  BY <1>0 DEF NewToken, TokenRow, RequestRow, Learnt
<1>4. /\ token'[n] = NewToken(q)
      /\ \A i \in 1 .. issued : i # n /\ token'[i] = token[i]
  BY <1>0, <1>1 DEF AuthTypeOK
<1>5. /\ NewToken(q).parent = q.token /\ NewToken(q).user = q.user /\ NewToken(q).device = q.device
  BY DEF NewToken
<1>6. AuthTypeOK'
  <2>1. token' \in [Tokens -> TokenRow \cup {NoToken}] BY <1>0, <1>1, <1>3 DEF AuthTypeOK
  <2>2. \A i \in 1 .. issued' : token'[i] \in TokenRow BY <1>0, <1>1, <1>2, <1>3, <1>4 DEF AuthTypeOK
  <2>3. issued' \in 0 .. MaxTokens BY <1>1 DEF Tokens
  <2>4. store' \subseteq 1 .. issued' /\ dead' \subseteq 1 .. issued' BY <1>0, <1>1 DEF AuthTypeOK
  <2>5. req' \in [Requests -> RequestRow] BY <1>0, <1>1, IdleSound DEF AuthTypeOK
  <2> QED BY <1>0, <1>1, <2>1, <2>2, <2>3, <2>4, <2>5 DEF AuthTypeOK
<1>7. RequestsLearnt'
  <2> SUFFICES ASSUME NEW s \in Requests PROVE Learnt(req'[s], token', n, dead)
    BY <1>1 DEF RequestsLearnt
  <2>1. CASE s = r
    <3>1. req'[s] = Idle BY <1>0, <1>1, <2>1 DEF AuthTypeOK
    <3> QED BY <3>1 DEF Learnt, Idle, Login, Refresh
  <2>2. CASE s # r
    <3>1. req'[s] = req[s] /\ Learnt(req[s], token, issued, dead)
      BY <1>0, <1>1, <2>2 DEF AuthTypeOK, SessionsSound, RequestsLearnt
    <3>2. \A i \in dead : i \in 1 .. issued BY <1>0 DEF AuthTypeOK
    <3>3. \A i \in 1 .. issued : i \in 1 .. n BY <1>1
    <3>4. req[s].ids \subseteq 1 .. n BY <3>1, <3>3 DEF Learnt
    <3> QED BY <1>4, <3>1, <3>2, <3>3, <3>4 DEF Learnt, Refresh
  <2> QED BY <2>1, <2>2
<1>8. DeadStayDead' BY <1>0, <1>1 DEF DeadStayDead, AuthTypeOK
<1>9. ParentsDead'
  <2> SUFFICES ASSUME NEW i \in 1 .. n, token'[i].parent # 0
               PROVE  /\ token'[i].parent \in dead
                      /\ token'[i].device = token'[token'[i].parent].device
                      /\ token'[i].user = token'[token'[i].parent].user
    BY <1>1 DEF ParentsDead
  <2>0. \A j \in dead : token'[j] = token[j] BY <1>0, <1>4 DEF AuthTypeOK
  <2>1. CASE i = n BY <1>0, <1>4, <1>5, <2>0, <2>1 DEF Learnt
  <2>2. CASE i \in 1 .. issued BY <1>0, <1>4, <2>0, <2>2 DEF ParentsDead
  <2> QED BY <1>2, <2>1, <2>2
<1>10. SingleSuccessor'
  <2> SUFFICES ASSUME NEW i \in 1 .. n, NEW j \in 1 .. n, token'[i].parent # 0, token'[i].parent = token'[j].parent
               PROVE  i = j
    BY <1>1 DEF SingleSuccessor
  <2>1. q.token # 0 => \A k \in 1 .. issued : token[k].parent # q.token
    BY <1>0 DEF IssuersAlone, Successor
  <2>2. CASE i \in 1 .. issued /\ j \in 1 .. issued BY <1>0, <1>4, <2>2 DEF SingleSuccessor
  <2>3. CASE i = n /\ j \in 1 .. issued BY <1>4, <1>5, <2>1, <2>3
  <2>4. CASE j = n /\ i \in 1 .. issued BY <1>4, <1>5, <2>1, <2>4
  <2> QED BY <1>2, <2>2, <2>3, <2>4
<1>11. IssuersAlone'
  <2>1. \A s \in Requests : Successor(req'[s]) => s # r /\ req'[s] = req[s]
    BY <1>0, <1>1, IdleSound DEF AuthTypeOK
  <2>2. ASSUME NEW s \in Requests, Successor(req'[s])
        PROVE  /\ \A i \in 1 .. issued' : token'[i].parent # req'[s].token
               /\ \A x \in Requests \ {s} : Successor(req'[x]) => req'[x].token # req'[s].token
    <3>1. s # r /\ req'[s] = req[s] BY <2>1, <2>2
    <3>2. Successor(req[s]) BY <2>2, <3>1
    <3>3. req[s].token # 0 BY <3>2 DEF Successor
    <3>4. q.token # req[s].token
      <4>1. CASE q.token = 0 BY <3>3, <4>1
      <4>2. CASE q.token # 0
        <5>1. Successor(req[r]) BY <1>0, <4>2 DEF Successor
        <5> QED BY <1>0, <3>1, <3>2, <5>1 DEF IssuersAlone
      <4> QED BY <4>1, <4>2
    <3>5. \A i \in 1 .. issued : token[i].parent # req[s].token BY <1>0, <3>2 DEF IssuersAlone
    <3>6. \A i \in 1 .. issued' : token'[i].parent # req'[s].token
      BY <1>1, <1>2, <1>4, <1>5, <3>1, <3>4, <3>5
    <3> QED BY <1>0, <2>1, <3>1, <3>2, <3>6 DEF IssuersAlone
  <2> QED BY <2>2 DEF IssuersAlone
<1> QED BY <1>6, <1>7, <1>8, <1>9, <1>10, <1>11 DEF SessionsSound

\* GETDEL: whoever takes the key is the only one that goes on.
LEMMA ConsumeStep ==
  ASSUME SessionsSound, NEW r \in Requests, RefreshConsume(r)
  PROVE  SessionsSound'
<1> USE AuthAssumption
<1> DEFINE q == req[r]
<1> DEFINE i == req[r].token
<1>0. /\ AuthTypeOK /\ q \in RequestRow /\ Learnt(q, token, issued, dead) /\ q.pc = "refresh.consume"
      /\ RequestsLearnt /\ IssuersAlone /\ ParentsDead /\ SingleSuccessor /\ DeadStayDead
  BY DEF SessionsSound, AuthTypeOK, RequestsLearnt, RefreshConsume, At
<1>1. i \in 1 .. issued BY <1>0 DEF Learnt, Refresh
<1>2. CASE i \notin store
  <2>1. req' = [req EXCEPT ![r] = Idle] /\ UNCHANGED <<tokenVars, account, failed, locked>>
    BY <1>2 DEF RefreshConsume, GetDel, Goto, loginVars, tokenVars
  <2> QED BY <1>0, <2>1, IdleSound, QuietSound DEF AuthTypeOK
<1>3. CASE i \in store
  <2> DEFINE p == [q EXCEPT !.pc = "issue"]
  <2>0. i \notin dead BY <1>0, <1>3 DEF DeadStayDead
  <2>1. req' = [req EXCEPT ![r] = p] /\ token' = token /\ issued' = issued
    BY <1>3 DEF RefreshConsume, Goto
  <2>2. store' = store \ {i} /\ dead' = dead \cup {i} BY <1>3 DEF RefreshConsume, GetDel
  <2>3. p \in RequestRow BY <1>0 DEF RequestRow, Steps
  <2>4. p.pc = "issue" /\ p.token = i /\ p.user = q.user /\ p.device = q.device /\ p.password = q.password
        /\ p.ids = q.ids /\ p.next = q.next
    BY <1>0 DEF RequestRow
  <2>5. req'[r] = p /\ \A s \in Requests \ {r} : req'[s] = req[s] BY <1>0, <2>1 DEF AuthTypeOK
  <2>6. AuthTypeOK' BY <1>0, <1>1, <1>3, <2>1, <2>2, <2>3 DEF RefreshConsume, AuthTypeOK, loginVars
  <2>7. RequestsLearnt'
    <3>1. Learnt(p, token, issued, dead \cup {i}) BY <1>0, <1>1, <2>4 DEF Learnt, Login, Refresh
    <3>2. \A s \in Requests \ {r} : Learnt(req[s], token, issued, dead \cup {i})
      BY <1>0 DEF RequestsLearnt, Learnt
    <3> QED BY <2>1, <2>2, <2>5, <3>1, <3>2 DEF RequestsLearnt
  <2>8. DeadStayDead' /\ ParentsDead' /\ SingleSuccessor'
    BY <1>0, <2>1, <2>2 DEF DeadStayDead, ParentsDead, SingleSuccessor
  <2>9. IssuersAlone'
    <3>1. \A k \in 1 .. issued : token[k].parent # i
      BY <1>0, <1>1, <2>0 DEF ParentsDead
    <3>2. \A s \in Requests \ {r} : Successor(req[s]) => req[s].token # i
      BY <1>0, <2>0 DEF RequestsLearnt, Learnt, Successor
    <3> QED BY <1>0, <2>1, <2>4, <2>5, <3>1, <3>2 DEF IssuersAlone
  <2> QED BY <2>6, <2>7, <2>8, <2>9 DEF SessionsSound
<1> QED BY <1>2, <1>3

\* The steps of revokeAllRefreshTokens, logout and the time to live.
LEMMA RevokeSteps ==
  ASSUME SessionsSound, NEW r \in Requests, Scan(r) \/ Del(r) \/ Logout(r)
  PROVE  SessionsSound'
<1> USE AuthAssumption
<1>0. AuthTypeOK /\ req[r] \in RequestRow /\ Learnt(req[r], token, issued, dead)
  BY DEF SessionsSound, AuthTypeOK, RequestsLearnt
<1>i. Idle \in RequestRow /\ Learnt(Idle, token, issued, dead) /\ ~Successor(Idle)
  BY IdleSound
<1>1. CASE Scan(r)
  <2> DEFINE S == {i \in store : token[i].user = req[r].user}
  <2> DEFINE q == [req[r] EXCEPT !.pc = "del", !.ids = S]
  <2>1. req[r].pc = "scan" BY <1>1 DEF Scan, At
  <2>a. S \subseteq 1 .. issued BY <1>0 DEF AuthTypeOK
  <2>b. 1 .. issued \subseteq Tokens BY <1>0 DEF AuthTypeOK, Tokens
  <2>2. S \subseteq 1 .. issued /\ S \subseteq Tokens BY <2>a, <2>b
  <2>3. q \in RequestRow BY <1>0, <2>2 DEF RequestRow, Steps
  <2>4. Learnt(q, token, issued, dead) /\ ~Successor(q)
    BY <1>0, <2>1, <2>2 DEF RequestRow, Learnt, Login, Refresh, Successor
  <2>5. req' = [req EXCEPT ![r] = q] BY <1>1 DEF Scan, Goto
  <2> QED BY <1>0, <1>1, <2>3, <2>4, <2>5, QuietSound DEF Scan, AuthTypeOK, loginVars
<1>2. CASE Del(r)
  <2> DEFINE X == req[r].ids
  <2> DEFINE q == IF req[r].rounds > 1 THEN [req[r] EXCEPT !.pc = "scan", !.ids = {}, !.rounds = @ - 1]
                  ELSE IF req[r].next = "idle" THEN Idle
                  ELSE [req[r] EXCEPT !.pc = req[r].next, !.ids = {}]
  <2>1. req[r].pc = "del" /\ X \subseteq 1 .. issued BY <1>0, <1>2 DEF Del, At, Learnt
  <2>2. req' = [req EXCEPT ![r] = q] BY <1>2 DEF Del, Goto
  <2>3. Discards(X) BY <1>2, <2>1 DEF Del, Discards
  <2>4. q \in RequestRow
    <3>1. req[r].rounds \in 0 .. 2 BY <1>0 DEF RequestRow
    <3>2. CASE req[r].rounds > 1
      <4>1. req[r].rounds - 1 \in 0 .. 2 BY <3>1, <3>2
      <4> QED BY <1>0, <3>2, <4>1 DEF RequestRow, Steps
    <3>3. CASE ~(req[r].rounds > 1) /\ req[r].next = "idle" BY <1>i, <3>3
    <3>4. CASE ~(req[r].rounds > 1) /\ req[r].next = "delete.row"
      <4>1. q = [req[r] EXCEPT !.pc = "delete.row", !.ids = {}] BY <3>4
      <4> QED BY <1>0, <4>1 DEF RequestRow, Steps
    <3> QED BY <1>0, <3>2, <3>3, <3>4 DEF Learnt
  <2>5. Learnt(q, token, issued, dead \cup X) /\ ~Successor(q)
    <3>1. CASE req[r].rounds > 1
      BY <1>0, <2>1, <3>1 DEF RequestRow, Learnt, Login, Refresh, Successor
    <3>2. CASE ~(req[r].rounds > 1) /\ req[r].next = "idle"
      BY <1>i, <3>2 DEF Learnt, Successor, Idle
    <3>3. CASE ~(req[r].rounds > 1) /\ req[r].next = "delete.row"
      BY <1>0, <2>1, <3>3 DEF RequestRow, Learnt, Login, Refresh, Successor
    <3> QED BY <1>0, <3>1, <3>2, <3>3 DEF Learnt
  <2>6. /\ req' \in [Requests -> RequestRow]
        /\ store' \subseteq 1 .. issued' /\ dead' \subseteq 1 .. issued'
        /\ RequestsLearnt' /\ DeadStayDead' /\ ParentsDead' /\ SingleSuccessor' /\ IssuersAlone'
    BY <2>2, <2>3, <2>4, <2>5, DiscardSound
  <2>7. AuthTypeOK' BY <1>0, <1>2, <2>6 DEF Del, AuthTypeOK, loginVars
  <2> QED BY <2>6, <2>7 DEF SessionsSound
<1>3. CASE Logout(r)
  <2>1. PICK i \in 1 .. issued : store' = store \ {i} /\ dead' = dead \cup {i}
    BY <1>3 DEF Logout
  <2>2. Discards({i}) BY <1>3, <2>1 DEF Logout, Discards
  <2>3. req' = [req EXCEPT ![r] = req[r]] BY <1>0, <1>3 DEF Logout, AuthTypeOK
  <2>4. Learnt(req[r], token, issued, dead \cup {i}) BY <1>0 DEF Learnt
  <2>5. /\ req' \in [Requests -> RequestRow]
        /\ store' \subseteq 1 .. issued' /\ dead' \subseteq 1 .. issued'
        /\ RequestsLearnt' /\ DeadStayDead' /\ ParentsDead' /\ SingleSuccessor' /\ IssuersAlone'
    BY <1>0, <2>2, <2>3, <2>4, DiscardSound
  <2>6. AuthTypeOK' BY <1>0, <1>3, <2>5 DEF Logout, AuthTypeOK, loginVars
  <2> QED BY <2>5, <2>6 DEF SessionsSound
<1> QED BY <1>1, <1>2, <1>3

\* UsersService: rows of users change, tokens do not.
LEMMA AccountSteps ==
  ASSUME SessionsSound, NEW r \in Requests,
         UpdateRead(r) \/ UpdateWrite(r) \/ ReactivateRead(r) \/ ReactivateWrite(r)
           \/ DeleteStart(r) \/ DeleteRow(r) \/ DeleteRefused(r)
  PROVE  SessionsSound'
<1> USE AuthAssumption
<1> DEFINE Rows == [Users -> [exists : BOOLEAN, active : BOOLEAN, password : 1 .. MaxPasswords]]
<1>0. /\ AuthTypeOK /\ req[r] \in RequestRow /\ Learnt(req[r], token, issued, dead)
      /\ UNCHANGED <<tokenVars, loginVars>>
  BY DEF SessionsSound, AuthTypeOK, RequestsLearnt, UpdateRead, UpdateWrite, ReactivateRead, ReactivateWrite,
         DeleteStart, DeleteRow, DeleteRefused
<1>i. Idle \in RequestRow /\ Learnt(Idle, token, issued, dead) /\ ~Successor(Idle)
  BY IdleSound
<1>q. ASSUME NEW q \in RequestRow, req' = [req EXCEPT ![r] = q], ~Successor(q), Learnt(q, token, issued, dead),
             account' \in Rows
      PROVE  SessionsSound'
  BY <1>0, <1>q, QuietSound DEF AuthTypeOK, loginVars
<1>a. account \in Rows BY <1>0 DEF AuthTypeOK
<1>1. CASE UpdateRead(r)
  <2>1. PICK u \in Users, fresh \in BOOLEAN, active \in BOOLEAN \cup {None} :
          req' = [req EXCEPT ![r] =
            [Idle EXCEPT !.pc = "update.write", !.user = u, !.was = account[u].active,
                         !.fresh = fresh, !.active = active]]
    BY <1>1 DEF UpdateRead, Goto
  <2> DEFINE q == [Idle EXCEPT !.pc = "update.write", !.user = u, !.was = account[u].active,
                               !.fresh = fresh, !.active = active]
  <2>2. account[u].active \in BOOLEAN BY <1>a
  <2>3. q \in RequestRow BY <1>i, <2>2 DEF RequestRow, Steps
  <2>4. q.pc = "update.write" /\ q.user = u /\ q.ids = {} /\ q.next = "idle" BY DEF Idle
  <2>5. Learnt(q, token, issued, dead) /\ ~Successor(q) BY <2>4 DEF Learnt, Login, Refresh, Successor
  <2> QED BY <1>1, <1>a, <1>q, <2>1, <2>3, <2>5 DEF UpdateRead
<1>s. ASSUME NEW u \in Users, NEW n \in 0 .. 2,
             req' = [req EXCEPT ![r] = [Idle EXCEPT !.pc = "scan", !.user = u, !.rounds = n]], account' \in Rows
      PROVE  SessionsSound'
  <2> DEFINE q == [Idle EXCEPT !.pc = "scan", !.user = u, !.rounds = n]
  <2>1. q \in RequestRow BY <1>i, <1>s DEF RequestRow, Steps
  <2>2. q.pc = "scan" /\ q.user = u /\ q.ids = {} /\ q.next = "idle" BY DEF Idle
  <2>3. Learnt(q, token, issued, dead) /\ ~Successor(q) BY <2>2 DEF Learnt, Login, Refresh, Successor
  <2> QED BY <1>q, <1>s, <2>1, <2>3
<1>2. CASE UpdateWrite(r)
  <2> DEFINE u == req[r].user
  <2>1. req[r].pc = "update.write" /\ u \in Users BY <1>0, <1>2 DEF UpdateWrite, At, Learnt
  <2>2. CASE ~account[u].exists
    BY <1>2, <1>a, <1>i, <1>q, <2>2 DEF UpdateWrite, Finish, Goto
  <2>3. CASE account[u].exists
    <3> DEFINE n == Revocations(req[r])
    <3>1. n \in 0 .. 2 BY DEF Revocations
    <3>2. account' \in Rows
      <4>1. account' = [account EXCEPT ![u].password = IF req[r].fresh THEN @ + 1 ELSE @,
                                       ![u].active = IF req[r].active = None THEN @ ELSE req[r].active]
        BY <1>2, <2>3 DEF UpdateWrite
      <4>2. account[u].password \in 1 .. MaxPasswords /\ account[u].active \in BOOLEAN BY <1>a, <2>1
      <4>3. (IF req[r].fresh THEN account[u].password + 1 ELSE account[u].password) \in 1 .. MaxPasswords
        BY <1>2, <4>2 DEF UpdateWrite
      <4>4. req[r].active = None \/ req[r].active \in BOOLEAN BY <1>0 DEF RequestRow
      <4> QED BY <1>a, <2>1, <4>1, <4>2, <4>3, <4>4
    <3>3. CASE n = 0
      BY <1>2, <1>i, <1>q, <2>3, <3>2, <3>3 DEF UpdateWrite, Goto
    <3>4. CASE n # 0
      <4>1. req' = [req EXCEPT ![r] = [Idle EXCEPT !.pc = "scan", !.user = u, !.rounds = n]]
        BY <1>2, <2>3, <3>4 DEF UpdateWrite, Goto
      <4> QED BY <1>s, <2>1, <3>1, <3>2, <4>1
    <3> QED BY <3>3, <3>4
  <2> QED BY <2>2, <2>3
<1>3. CASE ReactivateRead(r)
  <2>1. PICK u \in Users : req' = [req EXCEPT ![r] = [Idle EXCEPT !.pc = "reactivate.write", !.user = u]]
    BY <1>3 DEF ReactivateRead, Goto
  <2> DEFINE q == [Idle EXCEPT !.pc = "reactivate.write", !.user = u]
  <2>2. q \in RequestRow BY <1>i DEF RequestRow, Steps
  <2>3. q.pc = "reactivate.write" /\ q.user = u /\ q.ids = {} /\ q.next = "idle" BY DEF Idle
  <2>4. Learnt(q, token, issued, dead) /\ ~Successor(q) BY <2>3 DEF Learnt, Login, Refresh, Successor
  <2> QED BY <1>3, <1>a, <1>q, <2>1, <2>2, <2>4 DEF ReactivateRead
<1>4. CASE ReactivateWrite(r)
  <2> DEFINE u == req[r].user
  <2>1. req[r].pc = "reactivate.write" /\ u \in Users BY <1>0, <1>4 DEF ReactivateWrite, At, Learnt
  <2>2. account[u].password \in 1 .. MaxPasswords BY <1>a, <2>1
  <2>3. account[u].password + 1 \in 1 .. MaxPasswords BY <1>4, <2>2 DEF ReactivateWrite
  <2>4. account' \in Rows BY <1>4, <1>a, <2>1, <2>3 DEF ReactivateWrite
  <2> QED BY <1>4, <1>i, <1>q, <2>4 DEF ReactivateWrite, Finish, Goto
<1>5. CASE DeleteStart(r)
  <2>1. PICK u \in Users :
          req' = [req EXCEPT ![r] = [Idle EXCEPT !.pc = "scan", !.user = u, !.rounds = 1, !.next = "delete.row"]]
    BY <1>5 DEF DeleteStart, Goto
  <2> DEFINE q == [Idle EXCEPT !.pc = "scan", !.user = u, !.rounds = 1, !.next = "delete.row"]
  <2>a. "scan" \in Steps /\ "delete.row" \in Steps /\ 1 \in 0 .. 2 BY DEF Steps
  <2>2. q \in RequestRow BY <1>i, <2>a DEF RequestRow
  <2>3. q.pc = "scan" /\ q.user = u /\ q.ids = {} /\ q.next = "delete.row" BY DEF Idle
  <2>4. Learnt(q, token, issued, dead) /\ ~Successor(q) BY <2>3 DEF Learnt, Login, Refresh, Successor
  <2> QED BY <1>5, <1>a, <1>q, <2>1, <2>2, <2>4 DEF DeleteStart
<1>6. CASE DeleteRow(r)
  <2> DEFINE u == req[r].user
  <2>1. req[r].pc = "delete.row" /\ u \in Users BY <1>0, <1>6 DEF DeleteRow, At, Learnt
  <2>2. account' \in Rows BY <1>6, <1>a, <2>1 DEF DeleteRow
  <2>3. req' = [req EXCEPT ![r] = [Idle EXCEPT !.pc = "scan", !.user = u, !.rounds = 1]]
    BY <1>6 DEF DeleteRow, Goto
  <2>4. 1 \in 0 .. 2 OBVIOUS
  <2> QED BY <1>s, <2>1, <2>2, <2>3, <2>4
<1>7. CASE DeleteRefused(r)
  BY <1>7, <1>a, <1>i, <1>q DEF DeleteRefused, Finish, Goto
<1> QED BY <1>1, <1>2, <1>3, <1>4, <1>5, <1>6, <1>7

\* Keys whose time is over.
LEMMA ExpirySteps ==
  ASSUME SessionsSound, CounterExpires \/ LockoutExpires \/ TokenExpires
  PROVE  SessionsSound'
<1> USE AuthAssumption
<1>0. AuthTypeOK /\ req' = req
  BY DEF SessionsSound, CounterExpires, LockoutExpires, TokenExpires
<1>1. CASE CounterExpires \/ LockoutExpires
  <2>1. UNCHANGED <<account, tokenVars, req>> BY <1>1 DEF CounterExpires, LockoutExpires
  <2>2. failed' \in [Users -> Nat] /\ locked' \in [Users -> BOOLEAN]
    <3>1. CASE CounterExpires BY <1>0, <3>1 DEF CounterExpires, AuthTypeOK
    <3>2. CASE LockoutExpires BY <1>0, <3>2 DEF LockoutExpires, AuthTypeOK
    <3> QED BY <1>1, <3>1, <3>2
  <2>3. AuthTypeOK' BY <1>0, <2>1, <2>2 DEF AuthTypeOK, tokenVars
  <2> QED BY <2>1, <2>3 DEF SessionsSound, RequestsLearnt, DeadStayDead, ParentsDead, SingleSuccessor,
                            IssuersAlone, tokenVars
<1>2. CASE TokenExpires
  <2>1. PICK i \in store : store' = store \ {i} /\ dead' = dead \cup {i} BY <1>2 DEF TokenExpires
  <2>2. i \in 1 .. issued /\ token' = token /\ issued' = issued BY <1>0, <1>2 DEF TokenExpires, AuthTypeOK
  <2>3. AuthTypeOK' BY <1>0, <1>2, <2>1, <2>2 DEF TokenExpires, AuthTypeOK, loginVars
  <2>4. RequestsLearnt' BY <1>0, <2>1, <2>2 DEF SessionsSound, RequestsLearnt, Learnt
  <2>5. DeadStayDead' /\ ParentsDead' /\ SingleSuccessor'
    BY <2>1, <2>2 DEF SessionsSound, DeadStayDead, ParentsDead, SingleSuccessor
  <2>6. IssuersAlone' BY <1>0, <2>2 DEF SessionsSound, IssuersAlone
  <2> QED BY <2>3, <2>4, <2>5, <2>6 DEF SessionsSound
<1> QED BY <1>1, <1>2

LEMMA SessionsStep == SessionsSound /\ [AuthNext]_authVars => SessionsSound'
<1> SUFFICES ASSUME SessionsSound, [AuthNext]_authVars PROVE SessionsSound' OBVIOUS
<1>1. ASSUME NEW r \in Requests, Handler(r) PROVE SessionsSound'
  BY <1>1, LoginSteps, RefreshSteps, IssueStep, ConsumeStep, RevokeSteps, AccountSteps DEF Handler
<1>2. CASE CounterExpires \/ LockoutExpires \/ TokenExpires BY <1>2, ExpirySteps
<1>3. CASE UNCHANGED authVars
  BY <1>3 DEF authVars, SessionsSound, AuthTypeOK, RequestsLearnt, DeadStayDead, ParentsDead, SingleSuccessor,
              IssuersAlone
<1> QED BY <1>1, <1>2, <1>3 DEF AuthNext

\* The inductive invariant: a stored token has one issuer, its parent is dead, and what each
\* request of AuthService remembers was true when it read it.
THEOREM SessionsSoundness == AuthSpec => []SessionsSound
BY SessionsStart, SessionsStep, PTL DEF AuthSpec

\* The variables have their types, and a token that was stored is complete.
THEOREM AuthTypeCorrect == AuthSpec => []AuthTypeOK
<1>1. SessionsSound => AuthTypeOK BY DEF SessionsSound
<1> QED BY <1>1, SessionsSoundness, PTL

\* However many requests present a refresh token at once, one at most gets its successor
\* (GETDEL in AuthService.refresh).
THEOREM SingleSuccessorCorrect == AuthSpec => []SingleSuccessor
<1>1. SessionsSound => SingleSuccessor BY DEF SessionsSound
<1> QED BY <1>1, SessionsSoundness, PTL

\* A token that was consumed, rejected, revoked or logged out is never in Redis again.
THEOREM DeadStayDeadCorrect == AuthSpec => []DeadStayDead
<1>1. SessionsSound => DeadStayDead BY DEF SessionsSound
<1> QED BY <1>1, SessionsSoundness, PTL

\* A chain of refreshed tokens stays with its user and on the device it began on.
THEOREM DeviceChainCorrect == AuthSpec => []DeviceChain
<1>1. SessionsSound => DeviceChain BY DEF SessionsSound, ParentsDead, DeviceChain
<1> QED BY <1>1, SessionsSoundness, PTL

-------------------------------------------------------------------------------
(* The lock-out.                                                            *)

\* The logins that have passed the check and may still fail, and those about to lock.
Guessing(u) == {r \in Requests : req[r].pc \in {"login.verify", "login.fail"} /\ req[r].user = u}
Locking(u)  == {r \in Requests : req[r].pc = "login.lock" /\ req[r].user = u}

\* Failures so far and those to come stay below the limit and one for each request; and until
\* an account is locked, each failure from the limit on is one of a request about to lock it.
GuessesSound ==
  \A u \in Users :
    /\ failed[u] + Cardinality(Guessing(u)) <= MaxFailed - 1 + Cardinality(Requests)
    /\ ~locked[u] => failed[u] <= MaxFailed - 1 + Cardinality(Locking(u))

\* Both sets are finite and disjoint.
LEMMA GuessersCounted ==
  ASSUME NEW u
  PROVE  /\ IsFiniteSet(Guessing(u)) /\ IsFiniteSet(Locking(u))
         /\ Cardinality(Guessing(u)) \in Nat /\ Cardinality(Locking(u)) \in Nat
         /\ Cardinality(Requests) \in Nat
         /\ Cardinality(Guessing(u)) + Cardinality(Locking(u)) <= Cardinality(Requests)
<1>1. Guessing(u) \subseteq Requests /\ Locking(u) \subseteq Requests BY DEF Guessing, Locking
<1>2. IsFiniteSet(Requests) BY AuthAssumption
<1>3. IsFiniteSet(Guessing(u)) /\ IsFiniteSet(Locking(u)) BY <1>1, <1>2, FS_Subset
<1>4. /\ Cardinality(Guessing(u)) \in Nat /\ Cardinality(Locking(u)) \in Nat
      /\ Cardinality(Requests) \in Nat
  BY <1>2, <1>3, FS_CardinalityType
<1>5. Guessing(u) \cap Locking(u) = {} BY DEF Guessing, Locking
<1>6. Cardinality(Guessing(u) \cup Locking(u))
        = Cardinality(Guessing(u)) + Cardinality(Locking(u)) - Cardinality(Guessing(u) \cap Locking(u))
  BY <1>3, FS_Union
<1>7. Cardinality(Guessing(u) \cap Locking(u)) = 0 BY <1>5, FS_EmptySet
<1>8. Cardinality(Guessing(u) \cup Locking(u)) <= Cardinality(Requests) BY <1>1, <1>2, FS_Subset
<1> QED BY <1>3, <1>4, <1>6, <1>7, <1>8

\* A step that adds nobody to the guessers, leaves the lockers and locks alone and no counter larger.
LEMMA GuessesKept ==
  ASSUME AuthTypeOK, GuessesSound, NEW u \in Users, Guessing(u)' \subseteq Guessing(u), Locking(u)' = Locking(u),
         locked'[u] = locked[u], failed'[u] \in Nat, failed'[u] <= failed[u]
  PROVE  /\ failed'[u] + Cardinality(Guessing(u)') <= MaxFailed - 1 + Cardinality(Requests)
         /\ ~locked'[u] => failed'[u] <= MaxFailed - 1 + Cardinality(Locking(u)')
<1>1. failed[u] \in Nat /\ MaxFailed \in Nat BY AuthAssumption DEF AuthTypeOK
<1>2. Cardinality(Guessing(u)') \in Nat /\ Cardinality(Guessing(u)') <= Cardinality(Guessing(u))
  BY GuessersCounted, FS_Subset, FS_CardinalityType
<1>3. /\ failed[u] + Cardinality(Guessing(u)) <= MaxFailed - 1 + Cardinality(Requests)
      /\ ~locked[u] => failed[u] <= MaxFailed - 1 + Cardinality(Locking(u))
  BY DEF GuessesSound
<1>4. Cardinality(Locking(u)') = Cardinality(Locking(u)) OBVIOUS
<1> QED BY <1>1, <1>2, <1>3, <1>4, GuessersCounted

\* The handlers that neither begin to guess, nor fail, nor lock.
LEMMA OtherHandlers ==
  ASSUME SessionsSound, NEW r \in Requests, Handler(r), ~LoginCheck(r), ~LoginFail(r), ~LoginLock(r)
  PROVE  /\ \A s \in Requests \ {r} : req'[s] = req[s]
         /\ req[r].pc # "login.lock"
         /\ \/ req'[r] = req[r]
            \/ req'[r].pc \notin {"login.verify", "login.fail", "login.lock"}
            \/ req[r].pc = "login.verify" /\ req'[r].pc = "login.fail" /\ req'[r].user = req[r].user
         /\ locked' = locked
         /\ failed' \in [Users -> Nat] /\ \A u \in Users : failed'[u] <= failed[u]
<1>0. req \in [Requests -> RequestRow] /\ failed \in [Users -> Nat] /\ req[r] \in RequestRow
  BY DEF SessionsSound, AuthTypeOK
<1>1. CASE LoginVerify(r)
  BY <1>0, <1>1 DEF LoginVerify, At, Goto, loginVars, RequestRow
<1>2. CASE LoginReset(r)
  <2>1. \A u \in Users : failed'[u] = 0 \/ failed'[u] = failed[u] BY <1>0, <1>2 DEF LoginReset
  <2>a. failed' \in [Users -> Nat] BY <1>0, <1>2 DEF LoginReset
  <2>b. ASSUME NEW u \in Users PROVE failed'[u] <= failed[u]
    <3>1. failed[u] \in Nat BY <1>0
    <3> QED BY <2>1, <3>1
  <2>2. failed' \in [Users -> Nat] /\ \A u \in Users : failed'[u] <= failed[u] BY <2>a, <2>b
  <2> QED BY <1>0, <1>2, <2>2 DEF LoginReset, At, Goto, RequestRow
<1>3. CASE Issue(r) \/ RefreshMismatch(r) \/ RefreshInactive(r) \/ DeleteRefused(r)
  BY <1>0, <1>3 DEF Issue, RefreshMismatch, RefreshInactive, DeleteRefused, Finish, Goto, At, Idle, loginVars
<1>4. CASE RefreshGet(r)
  <2>1. PICK i \in store, d \in Devices :
          req' = [req EXCEPT ![r] =
            [Idle EXCEPT !.pc = IF SameDevice(i, d) THEN "refresh.user" ELSE "refresh.mismatch",
                         !.user = token[i].user, !.device = d, !.token = i, !.password = token[i].password]]
    BY <1>4 DEF RefreshGet, Goto
  <2>2. req'[r].pc \in {"refresh.user", "refresh.mismatch"} BY <1>0, <2>1 DEF Idle
  <2> QED BY <1>0, <1>4, <2>1, <2>2 DEF RefreshGet, At, loginVars
<1>5. CASE RefreshUser(r) \/ RefreshConsume(r)
  BY <1>0, <1>5 DEF RefreshUser, RefreshConsume, Goto, At, Idle, loginVars, RequestRow
<1>6. CASE Logout(r) BY <1>0, <1>6 DEF Logout, At, loginVars
<1>7. CASE Scan(r) BY <1>0, <1>7 DEF Scan, Goto, At, loginVars, RequestRow
<1>8. CASE Del(r)
  <2>1. req[r].next \in {"idle", "delete.row"} BY DEF SessionsSound, RequestsLearnt, Learnt
  <2> QED BY <1>0, <1>8, <2>1 DEF Del, Goto, At, Idle, loginVars, RequestRow
<1>9. CASE UpdateRead(r)
  <2>1. PICK u \in Users, fresh \in BOOLEAN, active \in BOOLEAN \cup {None} :
          req' = [req EXCEPT ![r] =
            [Idle EXCEPT !.pc = "update.write", !.user = u, !.was = account[u].active,
                         !.fresh = fresh, !.active = active]]
    BY <1>9 DEF UpdateRead, Goto
  <2>2. req'[r].pc = "update.write" BY <1>0, <2>1 DEF Idle
  <2> QED BY <1>0, <1>9, <2>1, <2>2 DEF UpdateRead, At, loginVars
<1>10. CASE ReactivateRead(r)
  <2>1. PICK u \in Users : req' = [req EXCEPT ![r] = [Idle EXCEPT !.pc = "reactivate.write", !.user = u]]
    BY <1>10 DEF ReactivateRead, Goto
  <2>2. req'[r].pc = "reactivate.write" BY <1>0, <2>1 DEF Idle
  <2> QED BY <1>0, <1>10, <2>1, <2>2 DEF ReactivateRead, At, loginVars
<1>11. CASE DeleteStart(r)
  <2>1. PICK u \in Users :
          req' = [req EXCEPT ![r] = [Idle EXCEPT !.pc = "scan", !.user = u, !.rounds = 1, !.next = "delete.row"]]
    BY <1>11 DEF DeleteStart, Goto
  <2>2. req'[r].pc = "scan" BY <1>0, <2>1 DEF Idle
  <2> QED BY <1>0, <1>11, <2>1, <2>2 DEF DeleteStart, At, loginVars
<1>12. CASE UpdateWrite(r)
  <2>1. \/ req' = [req EXCEPT ![r] = Idle]
        \/ req' = [req EXCEPT ![r] = [Idle EXCEPT !.pc = "scan", !.user = req[r].user,
                                                  !.rounds = Revocations(req[r])]]
    BY <1>12 DEF UpdateWrite, Finish, Goto
  <2>2. req'[r].pc \in {"idle", "scan"}
    <3> DEFINE q == [Idle EXCEPT !.pc = "scan", !.user = req[r].user, !.rounds = Revocations(req[r])]
    <3>1. Idle.pc = "idle" /\ q.pc = "scan" BY DEF Idle
    <3>2. req'[r] = Idle \/ req'[r] = q BY <1>0, <2>1
    <3> QED BY <3>1, <3>2
  <2> QED BY <1>0, <1>12, <2>1, <2>2 DEF UpdateWrite, At, loginVars
<1>13. CASE ReactivateWrite(r)
  BY <1>0, <1>13 DEF ReactivateWrite, Finish, Goto, At, Idle, loginVars
<1>14. CASE DeleteRow(r)
  BY <1>0, <1>14 DEF DeleteRow, Goto, At, Idle, loginVars
<1> QED BY <1>1, <1>2, <1>3, <1>4, <1>5, <1>6, <1>7, <1>8, <1>9, <1>10, <1>11,
        <1>12, <1>13, <1>14 DEF Handler

LEMMA GuessesStart == AuthInit => GuessesSound
<1> SUFFICES ASSUME AuthInit, NEW u \in Users
             PROVE  /\ failed[u] + Cardinality(Guessing(u)) <= MaxFailed - 1 + Cardinality(Requests)
                    /\ ~locked[u] => failed[u] <= MaxFailed - 1 + Cardinality(Locking(u))
  BY DEF GuessesSound
<1>1. failed[u] = 0 /\ MaxFailed \in Nat \ {0} BY AuthAssumption DEF AuthInit
<1>2. Guessing(u) = {} BY DEF AuthInit, Guessing, Idle
<1>3. Cardinality({}) = 0 BY FS_EmptySet
<1> QED BY <1>1, <1>2, <1>3, GuessersCounted

LEMMA GuessesStep ==
  ASSUME SessionsSound, GuessesSound, [AuthNext]_authVars
  PROVE  GuessesSound'
<1> USE AuthAssumption
<1>0. AuthTypeOK /\ req \in [Requests -> RequestRow] /\ failed \in [Users -> Nat] /\ locked \in [Users -> BOOLEAN]
  BY DEF SessionsSound, AuthTypeOK
<1> SUFFICES ASSUME NEW u \in Users
             PROVE  /\ failed'[u] + Cardinality(Guessing(u)') <= MaxFailed - 1 + Cardinality(Requests)
                    /\ ~locked'[u] => failed'[u] <= MaxFailed - 1 + Cardinality(Locking(u)')
  BY DEF GuessesSound
<1>a. /\ failed[u] + Cardinality(Guessing(u)) <= MaxFailed - 1 + Cardinality(Requests)
      /\ ~locked[u] => failed[u] <= MaxFailed - 1 + Cardinality(Locking(u))
      /\ failed[u] \in Nat /\ MaxFailed \in Nat \ {0}
  BY <1>0 DEF GuessesSound
<1>c. /\ IsFiniteSet(Guessing(u)) /\ IsFiniteSet(Locking(u))
      /\ Cardinality(Guessing(u)) \in Nat /\ Cardinality(Locking(u)) \in Nat
      /\ Cardinality(Requests) \in Nat
      /\ Cardinality(Guessing(u)) + Cardinality(Locking(u)) <= Cardinality(Requests)
  BY GuessersCounted
<1>1. ASSUME NEW r \in Requests, LoginCheck(r)
      PROVE  /\ failed'[u] + Cardinality(Guessing(u)') <= MaxFailed - 1 + Cardinality(Requests)
             /\ ~locked'[u] => failed'[u] <= MaxFailed - 1 + Cardinality(Locking(u)')
  <2>a. PICK v \in Users, d \in Devices : \E guess \in {0, account[v].password} :
          /\ ~locked[v]
          /\ req' = [req EXCEPT ![r] = [Idle EXCEPT !.pc = "login.verify", !.user = v, !.device = d,
                                                    !.password = guess]]
    BY <1>1 DEF LoginCheck, Goto
  <2>1. /\ ~locked[v] /\ req'[r].pc = "login.verify" /\ req'[r].user = v
        /\ \A s \in Requests \ {r} : req'[s] = req[s]
    BY <1>0, <2>a DEF Idle
  <2>2. req[r].pc = "idle" /\ failed' = failed /\ locked' = locked BY <1>1 DEF LoginCheck, At, loginVars
  <2>3. Locking(u)' = Locking(u) BY <1>0, <2>1, <2>2 DEF Locking
  <2>4. CASE v = u
    <3>1. Guessing(u)' = Guessing(u) \cup {r} /\ r \notin Guessing(u) BY <1>0, <2>1, <2>2, <2>4 DEF Guessing
    <3>2. r \notin Locking(u) BY <2>2 DEF Locking
    <3>3. Cardinality(Guessing(u)') = Cardinality(Guessing(u)) + 1 BY <1>c, <3>1, FS_AddElement
    <3>4. Cardinality(Guessing(u)') + Cardinality(Locking(u)') <= Cardinality(Requests)
      <4>1. Guessing(u)' \cup Locking(u) \subseteq Requests BY <3>1 DEF Guessing, Locking
      <4>2. Guessing(u)' \cap Locking(u) = {} BY <3>1, <3>2 DEF Guessing, Locking
      <4>3. IsFiniteSet(Guessing(u)') BY <1>c, <3>1, FS_AddElement
      <4>4. Cardinality(Guessing(u)' \cup Locking(u))
              = Cardinality(Guessing(u)') + Cardinality(Locking(u)) - Cardinality(Guessing(u)' \cap Locking(u))
        BY <1>c, <4>3, FS_Union
      <4>5. Cardinality(Guessing(u)' \cup Locking(u)) <= Cardinality(Requests) BY <4>1, FS_Subset
      <4>6. Cardinality(Guessing(u)' \cap Locking(u)) = 0 BY <4>2, FS_EmptySet
      <4>7. Cardinality(Locking(u)') = Cardinality(Locking(u)) BY <2>3
      <4> QED BY <1>c, <3>3, <4>4, <4>5, <4>6, <4>7
    <3>5. failed[u] <= MaxFailed - 1 + Cardinality(Locking(u)) BY <1>a, <2>1, <2>4
    <3> QED BY <1>a, <1>c, <2>2, <2>3, <3>3, <3>4, <3>5
  <2>5. CASE v # u
    <3>1. Guessing(u)' = Guessing(u) BY <1>0, <2>1, <2>2, <2>5 DEF Guessing
    <3> QED BY <1>a, <2>2, <2>3, <3>1
  <2> QED BY <2>4, <2>5
<1>2. ASSUME NEW r \in Requests, LoginFail(r)
      PROVE  /\ failed'[u] + Cardinality(Guessing(u)') <= MaxFailed - 1 + Cardinality(Requests)
             /\ ~locked'[u] => failed'[u] <= MaxFailed - 1 + Cardinality(Locking(u)')
  <2> DEFINE v == req[r].user
  <2>1. /\ req[r].pc = "login.fail" /\ locked' = locked
        /\ failed' = [failed EXCEPT ![v] = @ + 1]
        /\ req' = [req EXCEPT ![r] = IF LockDue(failed[v] + 1) THEN [req[r] EXCEPT !.pc = "login.lock"] ELSE Idle]
    BY <1>2 DEF LoginFail, At, Goto
  <2>2. CASE v = u
    <3>1. failed'[u] = failed[u] + 1 BY <1>0, <2>1, <2>2
    <3>2. Guessing(u)' = Guessing(u) \ {r} /\ r \in Guessing(u)
      BY <1>0, <2>1, <2>2 DEF Guessing, RequestRow, Idle
    <3>3. Cardinality(Guessing(u)') = Cardinality(Guessing(u)) - 1 BY <1>c, <3>2, FS_RemoveElement
    <3>4. CASE failed[u] + 1 >= MaxFailed
      <4>1. Locking(u)' = Locking(u) \cup {r} /\ r \notin Locking(u)
        BY <1>0, <2>1, <2>2, <3>4 DEF Locking, LockDue, RequestRow
      <4>2. Cardinality(Locking(u)') = Cardinality(Locking(u)) + 1 BY <1>c, <4>1, FS_AddElement
      <4> QED BY <1>a, <1>c, <2>1, <3>1, <3>3, <4>2
    <3>5. CASE ~(failed[u] + 1 >= MaxFailed)
      <4>1. Locking(u)' = Locking(u) BY <1>0, <2>1, <2>2, <3>5 DEF Locking, LockDue, Idle
      <4> QED BY <1>a, <1>c, <2>1, <3>1, <3>3, <3>5, <4>1
    <3> QED BY <3>4, <3>5
  <2>3. CASE v # u
    <3>1. failed'[u] = failed[u] BY <1>0, <2>1, <2>3
    <3>2. Guessing(u)' = Guessing(u) BY <1>0, <2>1, <2>3 DEF Guessing, RequestRow, Idle
    <3>3. Locking(u)' = Locking(u) BY <1>0, <2>1, <2>3 DEF Locking, RequestRow, Idle
    <3> QED BY <1>a, <2>1, <3>1, <3>2, <3>3
  <2> QED BY <2>2, <2>3
<1>3. ASSUME NEW r \in Requests, LoginLock(r)
      PROVE  /\ failed'[u] + Cardinality(Guessing(u)') <= MaxFailed - 1 + Cardinality(Requests)
             /\ ~locked'[u] => failed'[u] <= MaxFailed - 1 + Cardinality(Locking(u)')
  <2>1. /\ req[r].pc = "login.lock" /\ failed' = failed
        /\ locked' = [locked EXCEPT ![req[r].user] = TRUE]
        /\ req' = [req EXCEPT ![r] = Idle]
    BY <1>3 DEF LoginLock, At, Finish, Goto
  <2>2. Guessing(u)' = Guessing(u) BY <1>0, <2>1 DEF Guessing, Idle
  <2>3. CASE req[r].user = u
    <3>1. locked'[u] = TRUE BY <1>0, <2>1, <2>3
    <3> QED BY <1>a, <2>1, <2>2, <3>1
  <2>4. CASE req[r].user # u
    <3>1. Locking(u)' = Locking(u) /\ locked'[u] = locked[u] BY <1>0, <2>1, <2>4 DEF Locking, Idle
    <3> QED BY <1>a, <2>1, <2>2, <3>1
  <2> QED BY <2>3, <2>4
<1>4. ASSUME NEW r \in Requests, Handler(r), ~LoginCheck(r), ~LoginFail(r), ~LoginLock(r)
      PROVE  /\ failed'[u] + Cardinality(Guessing(u)') <= MaxFailed - 1 + Cardinality(Requests)
             /\ ~locked'[u] => failed'[u] <= MaxFailed - 1 + Cardinality(Locking(u)')
  <2>1. /\ \A s \in Requests \ {r} : req'[s] = req[s]
        /\ req[r].pc # "login.lock"
        /\ \/ req'[r] = req[r]
           \/ req'[r].pc \notin {"login.verify", "login.fail", "login.lock"}
           \/ req[r].pc = "login.verify" /\ req'[r].pc = "login.fail" /\ req'[r].user = req[r].user
        /\ locked' = locked
        /\ failed' \in [Users -> Nat] /\ \A w \in Users : failed'[w] <= failed[w]
    BY <1>4, OtherHandlers
  <2>2. Guessing(u)' \subseteq Guessing(u) BY <2>1 DEF Guessing
  <2>3. Locking(u)' = Locking(u) BY <2>1 DEF Locking
  <2>4. failed'[u] \in Nat /\ failed'[u] <= failed[u] /\ locked'[u] = locked[u] BY <2>1
  <2> QED BY <1>0, <2>2, <2>3, <2>4, GuessesKept
<1>5. CASE CounterExpires \/ TokenExpires \/ UNCHANGED authVars
  <2>1. req' = req /\ locked' = locked BY <1>5 DEF CounterExpires, TokenExpires, loginVars, authVars
  <2>2. failed'[u] = failed[u] \/ failed'[u] = 0
    <3>1. CASE CounterExpires BY <1>0, <3>1 DEF CounterExpires
    <3>2. CASE TokenExpires \/ UNCHANGED authVars BY <3>2 DEF TokenExpires, loginVars, authVars
    <3> QED BY <1>5, <3>1, <3>2
  <2>3. Guessing(u)' = Guessing(u) /\ Locking(u)' = Locking(u) BY <2>1 DEF Guessing, Locking
  <2>4. failed'[u] \in Nat /\ failed'[u] <= failed[u] BY <1>a, <2>2
  <2> QED BY <1>0, <2>1, <2>3, <2>4, GuessesKept
<1>6. CASE LockoutExpires
  <2>1. PICK v \in Users : failed[v] < MaxFailed /\ locked' = [locked EXCEPT ![v] = FALSE]
    BY <1>6 DEF LockoutExpires
  <2>2. req' = req /\ failed' = failed BY <1>6 DEF LockoutExpires
  <2>3. Guessing(u)' = Guessing(u) /\ Locking(u)' = Locking(u) BY <2>2 DEF Guessing, Locking
  <2>4. CASE v = u BY <1>a, <1>c, <2>1, <2>2, <2>3, <2>4
  <2>5. CASE v # u
    <3>1. locked'[u] = locked[u] BY <1>0, <2>1, <2>5
    <3> QED BY <1>a, <2>2, <2>3, <3>1
  <2> QED BY <2>4, <2>5
<1> QED BY <1>1, <1>2, <1>3, <1>4, <1>5, <1>6 DEF AuthNext

\* After MaxFailed failures in a row only the requests that had already passed the check still
\* fail: the counter is bounded by the limit and their number.
THEOREM BoundedGuessesCorrect == AuthSpec => []BoundedGuesses
<1>1. SessionsSound /\ GuessesSound => BoundedGuesses
  <2> SUFFICES ASSUME AuthTypeOK, GuessesSound, NEW u \in Users
               PROVE  failed[u] <= MaxFailed - 1 + Cardinality(Requests)
    BY DEF BoundedGuesses, SessionsSound
  <2>1. failed[u] + Cardinality(Guessing(u)) <= MaxFailed - 1 + Cardinality(Requests) BY DEF GuessesSound
  <2>2. failed[u] \in Nat /\ MaxFailed \in Nat BY AuthAssumption DEF AuthTypeOK
  <2> QED BY <2>1, <2>2, GuessersCounted
<1>2. AuthInit => GuessesSound BY GuessesStart
<1>3. SessionsSound /\ GuessesSound /\ [AuthNext]_authVars => GuessesSound' BY GuessesStep
<1> QED BY <1>1, <1>2, <1>3, SessionsSoundness, PTL DEF AuthSpec
================================================================================
