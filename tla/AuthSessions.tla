----------------------------- MODULE AuthSessions -----------------------------
(***************************************************************************)
(* AuthService and the account changes of UsersService: log in, refresh    *)
(* with rotation, log out, lock-out, and the revocation that follows a     *)
(* password change, a deactivation or a deletion.  Refresh tokens live in  *)
(* Redis under refresh:<user>:<jti>; every call to Redis or PostgreSQL is  *)
(* a step, and any number of requests interleave between steps.            *)
(*                                                                         *)
(* A refresh token may be presented at any time, any number of times, from *)
(* any device: nothing is assumed about who holds it.  Tokens are numbered *)
(* in the order they are stored; a jti is never used twice.                *)
(***************************************************************************)
EXTENDS Naturals, FiniteSets

CONSTANTS
  Users,
  Devices,       \* fingerprints: a hash of user agent and address
  Requests,
  None,
  MaxFailed,     \* appConfig.auth.maxFailedAttempts
  MaxTokens,     \* bound: tokens ever stored
  MaxPasswords   \* bound: passwords an account ever has

ASSUME AuthAssumption ==
  /\ MaxFailed \in Nat \ {0} /\ MaxTokens \in Nat /\ MaxPasswords \in Nat \ {0}
  /\ None \notin Users \cup Devices \cup Nat
  /\ IsFiniteSet(Requests)

VARIABLES
  account,  \* account[u]: the row of table users; passwords are numbered, 0 is a wrong one
  token,    \* token[i]: whom token i was given to, on which device, in exchange for what
  issued,   \* the number of tokens stored so far
  store,    \* the tokens whose key is in Redis
  failed,   \* failed[u]: the counter login:failed:<email>
  locked,   \* locked[u]: login:locked:<email> is set
  dead,     \* history: tokens that were consumed, discarded or revoked, or that expired
  req

accountVars == <<account>>
tokenVars   == <<token, issued, store, dead>>
loginVars   == <<failed, locked>>
authVars    == <<account, token, issued, store, failed, locked, dead, req>>

Tokens == 1 .. MaxTokens
NoToken == [user |-> None, device |-> None, password |-> 0, parent |-> 0]
Idle ==
  [pc |-> "idle", user |-> None, device |-> None, password |-> 0, token |-> 0,
   ids |-> {}, rounds |-> 0, was |-> FALSE, active |-> None, fresh |-> FALSE, next |-> "idle"]

AuthInit ==
  /\ account = [u \in Users |-> [exists |-> TRUE, active |-> TRUE, password |-> 1]]
  /\ token   = [i \in Tokens |-> NoToken]
  /\ issued  = 0
  /\ store   = {}
  /\ failed  = [u \in Users |-> 0]
  /\ locked  = [u \in Users |-> FALSE]
  /\ dead    = {}
  /\ req     = [r \in Requests |-> Idle]

-------------------------------------------------------------------------------
At(r, pc)   == req[r].pc = pc
Goto(r, q)  == req' = [req EXCEPT ![r] = q]
Finish(r)   == Goto(r, Idle)
Usable(u)   == account[u].exists /\ account[u].active

-------------------------------------------------------------------------------
(* login.                                                                   *)

\* checkAccountLocked.  The password that comes along is wrong, or right at this moment.
LoginCheck(r) ==
  \E u \in Users, d \in Devices : \E guess \in {0, account[u].password} :
    /\ At(r, "idle")
    /\ ~locked[u]
    /\ Goto(r, [Idle EXCEPT !.pc = "login.verify", !.user = u, !.device = d,
                            !.password = guess])
    /\ UNCHANGED <<account, tokenVars, loginVars>>

\* validateUser: the password is compared, then the account must be active.
LoginVerify(r) ==
  LET q == req[r]
  IN  /\ At(r, "login.verify")
      /\ Goto(r, [q EXCEPT !.pc = IF Usable(q.user) /\ q.password = account[q.user].password
                                    THEN "login.reset" ELSE "login.fail"])
      /\ UNCHANGED <<account, tokenVars, loginVars>>

\* Faulty variant: one attempt too many.
LockDueLate(count) == count > MaxFailed
LockDue(count) == count >= MaxFailed

\* trackFailedLogin: INCR in one call to Redis, the lock in the next.
LoginFail(r) ==
  LET u == req[r].user
  IN  /\ At(r, "login.fail")
      /\ failed' = [failed EXCEPT ![u] = @ + 1]
      /\ Goto(r, IF LockDue(failed[u] + 1) THEN [req[r] EXCEPT !.pc = "login.lock"] ELSE Idle)
      /\ UNCHANGED <<account, tokenVars, locked>>

LoginLock(r) ==
  /\ At(r, "login.lock")
  /\ locked' = [locked EXCEPT ![req[r].user] = TRUE]
  /\ Finish(r)
  /\ UNCHANGED <<account, tokenVars, failed>>

LoginReset(r) ==
  /\ At(r, "login.reset")
  /\ failed' = [failed EXCEPT ![req[r].user] = 0]
  /\ Goto(r, [req[r] EXCEPT !.pc = "issue"])
  /\ UNCHANGED <<account, tokenVars, locked>>

\* generateTokens.  Faulty variant: the request is not passed on.
NewTokenWithoutDevice(q) ==
  [user |-> q.user, device |-> None, password |-> q.password, parent |-> q.token]
NewToken(q) ==
  [user |-> q.user, device |-> q.device, password |-> q.password, parent |-> q.token]

Issue(r) ==
  /\ At(r, "issue") /\ issued < MaxTokens
  /\ issued' = issued + 1
  /\ token'  = [token EXCEPT ![issued + 1] = NewToken(req[r])]
  /\ store'  = store \cup {issued + 1}
  /\ Finish(r)
  /\ UNCHANGED <<account, loginVars, dead>>

-------------------------------------------------------------------------------
(* refresh and logout.                                                      *)

\* Faulty variant: the fingerprint is not compared.
AnyDevice(i, d) == TRUE
SameDevice(i, d) == token[i].device = d

\* The key is read; the token it holds is the one presented.
RefreshGet(r) ==
  \E i \in store, d \in Devices :
    /\ At(r, "idle")
    /\ Goto(r, [Idle EXCEPT !.pc = IF SameDevice(i, d) THEN "refresh.user" ELSE "refresh.mismatch",
                            !.user = token[i].user, !.device = d, !.token = i,
                            !.password = token[i].password])
    /\ UNCHANGED <<account, tokenVars, loginVars>>

\* Faulty variant: the key is left to expire.
KeptInStore(S, i) == S
Discarded(S, i)   == S \ {i}

\* Another device: the key is deleted.  The exception that follows is swallowed, and the
\* comparison after it, of the JSON text with the token, rejects the request.
RefreshMismatch(r) ==
  /\ At(r, "refresh.mismatch")
  /\ store' = Discarded(store, req[r].token)
  /\ dead'  = dead \cup {req[r].token}
  /\ Finish(r)
  /\ UNCHANGED <<account, token, issued, loginVars>>

\* findById throws when the account is gone: the request is refused there and the key stays,
\* until it expires (an account's id is not used twice).
RefreshUser(r) ==
  LET u == req[r].user
  IN  /\ At(r, "refresh.user")
      /\ Goto(r, IF ~account[u].exists THEN Idle
                 ELSE [req[r] EXCEPT !.pc = IF account[u].active THEN "refresh.consume"
                                                                ELSE "refresh.inactive"])
      /\ UNCHANGED <<account, tokenVars, loginVars>>

\* An inactive account's token is consumed before the request is refused.
RefreshInactive(r) ==
  /\ At(r, "refresh.inactive")
  /\ store' = Discarded(store, req[r].token)
  /\ dead'  = dead \cup {req[r].token}
  /\ Finish(r)
  /\ UNCHANGED <<account, token, issued, loginVars>>

\* GETDEL_SCRIPT: the key is read and deleted in one step.  Faulty variant: only read.
ReadOnly(S, i) == S
GetDel(S, i)   == S \ {i}

RefreshConsume(r) ==
  LET i == req[r].token
  IN  /\ At(r, "refresh.consume")
      /\ store' = GetDel(store, i)
      /\ dead'  = dead \cup (store \cap {i})
      /\ Goto(r, IF i \in store THEN [req[r] EXCEPT !.pc = "issue"] ELSE Idle)
      /\ UNCHANGED <<account, token, issued, loginVars>>

\* revokeRefreshToken: any token with a valid signature, known to Redis or not.
Logout(r) ==
  \E i \in 1 .. issued :
    /\ At(r, "idle")
    /\ store' = store \ {i}
    /\ dead'  = dead \cup {i}
    /\ UNCHANGED <<account, token, issued, loginVars, req>>

-------------------------------------------------------------------------------
(* revokeAllRefreshTokens: SCAN, then DEL of what it found, and then on to  *)
(* the step that waited for it.                                             *)

Scan(r) ==
  /\ At(r, "scan")
  /\ Goto(r, [req[r] EXCEPT !.pc = "del", !.ids = {i \in store : token[i].user = req[r].user}])
  /\ UNCHANGED <<account, tokenVars, loginVars>>

Del(r) ==
  LET q == req[r]
  IN  /\ At(r, "del")
      /\ store' = store \ q.ids
      /\ dead'  = dead \cup q.ids
      /\ Goto(r, IF q.rounds > 1 THEN [q EXCEPT !.pc = "scan", !.ids = {}, !.rounds = @ - 1]
                 ELSE IF q.next = "idle" THEN Idle
                 ELSE [q EXCEPT !.pc = q.next, !.ids = {}])
      /\ UNCHANGED <<account, token, issued, loginVars>>

-------------------------------------------------------------------------------
(* UsersService.update (also under changePassword), create, delete.         *)

\* `fresh`: a password is given; `active`: the flag that is given, or None.
UpdateRead(r) ==
  \E u \in Users, fresh \in BOOLEAN, active \in BOOLEAN \cup {None} :
    /\ At(r, "idle")
    /\ account[u].exists
    /\ fresh \/ active # None
    /\ Goto(r, [Idle EXCEPT !.pc = "update.write", !.user = u, !.was = account[u].active,
                            !.fresh = fresh, !.active = active])
    /\ UNCHANGED <<account, tokenVars, loginVars>>

\* One revocation for a new password, one for a user who was active when it was read.
Revocations(q) == (IF q.fresh THEN 1 ELSE 0) + (IF q.was /\ q.active = FALSE THEN 1 ELSE 0)

UpdateWrite(r) ==
  LET q == req[r]
      u == req[r].user
  IN  /\ At(r, "update.write")
      /\ q.fresh => account[u].password < MaxPasswords
      /\ IF ~account[u].exists THEN UNCHANGED account /\ Finish(r)
         ELSE /\ account' = [account EXCEPT
                               ![u].password = IF q.fresh THEN @ + 1 ELSE @,
                               ![u].active   = IF q.active = None THEN @ ELSE q.active]
              /\ Goto(r, IF Revocations(q) = 0 THEN Idle
                         ELSE [Idle EXCEPT !.pc = "scan", !.user = u, !.rounds = Revocations(q)])
      /\ UNCHANGED <<tokenVars, loginVars>>

\* create with the address of an inactive user: a new password, and nothing is revoked.
ReactivateRead(r) ==
  \E u \in Users :
    /\ At(r, "idle")
    /\ account[u].exists /\ ~account[u].active
    /\ Goto(r, [Idle EXCEPT !.pc = "reactivate.write", !.user = u])
    /\ UNCHANGED <<account, tokenVars, loginVars>>

ReactivateWrite(r) ==
  LET u == req[r].user
  IN  /\ At(r, "reactivate.write")
      /\ account[u].password < MaxPasswords
      /\ IF ~account[u].exists THEN UNCHANGED account
         ELSE account' = [account EXCEPT ![u].password = @ + 1, ![u].active = TRUE]
      /\ Finish(r)
      /\ UNCHANGED <<tokenVars, loginVars>>

\* delete revokes before it deletes and, if that succeeds, again.
DeleteStart(r) ==
  \E u \in Users :
    /\ At(r, "idle")
    /\ account[u].exists
    /\ Goto(r, [Idle EXCEPT !.pc = "scan", !.user = u, !.rounds = 1, !.next = "delete.row"])
    /\ UNCHANGED <<account, tokenVars, loginVars>>

DeleteRow(r) ==
  LET u == req[r].user
  IN  /\ At(r, "delete.row")
      /\ account[u].exists
      /\ account' = [account EXCEPT ![u].exists = FALSE, ![u].active = FALSE]
      /\ Goto(r, [Idle EXCEPT !.pc = "scan", !.user = u, !.rounds = 1])
      /\ UNCHANGED <<tokenVars, loginVars>>

\* The user has tickets, or is gone: the account stays as it is, the tokens are revoked.
DeleteRefused(r) ==
  /\ At(r, "delete.row")
  /\ Finish(r)
  /\ UNCHANGED <<account, tokenVars, loginVars>>

-------------------------------------------------------------------------------
(* Redis drops keys when their time is over.  The counter starts to run no  *)
(* later than the lock it leads to and lives as long, so it is gone first   *)
(* (a login that was under way when the lock was set is over by then).      *)

CounterExpires ==
  \E u \in Users :
    /\ failed[u] > 0
    /\ failed' = [failed EXCEPT ![u] = 0]
    /\ UNCHANGED <<account, tokenVars, locked, req>>

LockoutExpires ==
  \E u \in Users :
    /\ locked[u] /\ failed[u] < MaxFailed
    /\ locked' = [locked EXCEPT ![u] = FALSE]
    /\ UNCHANGED <<account, tokenVars, failed, req>>

TokenExpires ==
  \E i \in store :
    /\ store' = store \ {i}
    /\ dead'  = dead \cup {i}
    /\ UNCHANGED <<account, token, issued, loginVars, req>>

-------------------------------------------------------------------------------
Handler(r) ==
  \/ LoginCheck(r) \/ LoginVerify(r) \/ LoginFail(r) \/ LoginLock(r) \/ LoginReset(r)
  \/ Issue(r)
  \/ RefreshGet(r) \/ RefreshMismatch(r) \/ RefreshUser(r) \/ RefreshInactive(r)
  \/ RefreshConsume(r) \/ Logout(r)
  \/ Scan(r) \/ Del(r)
  \/ UpdateRead(r) \/ UpdateWrite(r) \/ ReactivateRead(r) \/ ReactivateWrite(r)
  \/ DeleteStart(r) \/ DeleteRow(r) \/ DeleteRefused(r)

AuthNext ==
  \/ \E r \in Requests : Handler(r)
  \/ CounterExpires \/ LockoutExpires \/ TokenExpires

AuthSpec == AuthInit /\ [][AuthNext]_authVars
-------------------------------------------------------------------------------
(* Properties.                                                              *)

TokenRow == [user : Users, device : Devices, password : 1 .. MaxPasswords, parent : 0 .. MaxTokens]

Steps ==
  {"idle", "login.verify", "login.fail", "login.lock", "login.reset", "issue",
   "refresh.user", "refresh.mismatch", "refresh.inactive", "refresh.consume",
   "scan", "del", "update.write", "reactivate.write", "delete.row"}

RequestRow ==
  [pc : Steps, user : Users \cup {None}, device : Devices \cup {None},
   password : 0 .. MaxPasswords, token : 0 .. MaxTokens, ids : SUBSET Tokens, rounds : 0 .. 2,
   was : BOOLEAN, active : BOOLEAN \cup {None}, fresh : BOOLEAN, next : Steps]

\* The types, and that a token which was stored is complete.
AuthTypeOK ==
  /\ account \in [Users -> [exists : BOOLEAN, active : BOOLEAN, password : 1 .. MaxPasswords]]
  /\ issued \in 0 .. MaxTokens
  /\ token \in [Tokens -> TokenRow \cup {NoToken}]
  /\ \A i \in 1 .. issued : token[i] \in TokenRow
  /\ store \subseteq 1 .. issued /\ dead \subseteq 1 .. issued
  /\ failed \in [Users -> Nat]
  /\ locked \in [Users -> BOOLEAN]
  /\ req \in [Requests -> RequestRow]

\* A refresh token is exchanged at most once, however many requests present it at the
\* same time: GETDEL lets one of them through.
SingleSuccessor ==
  \A i, j \in 1 .. issued :
    (token[i].parent # 0 /\ token[i].parent = token[j].parent) => i = j

\* A token that was exchanged, logged out or revoked, or that refresh refused for its device
\* or for its inactive account, is not in Redis again ("so the revoked token cannot be
\* replayed if the user is reactivated later"): it cannot be presented once more after the
\* account is reactivated, or from its own device after another was turned away.  Of
\* a deleted account the refused token stays, and is refused again each time.  Redis answers
\* here: a delete that fails is swallowed, and leaves the token too.
DeadStayDead == dead \cap store = {}

\* Refreshing never moves a session to another device: each token of a chain carries the
\* fingerprint its first one was given, though fingerprint, account and key are looked at
\* in three different steps.
DeviceChain ==
  \A i \in 1 .. issued :
    token[i].parent # 0 => /\ token[i].device = token[token[i].parent].device
                           /\ token[i].user = token[token[i].parent].user

\* The lock-out holds under concurrency: the requests that passed the check before the
\* lock was set are the only ones that fail after the limit.
BoundedGuesses ==
  \A u \in Users : failed[u] <= MaxFailed - 1 + Cardinality(Requests)

\* changePassword: "Refresh tokens are revoked via the awaited user.password_changed
\* lifecycle event": when nobody is revoking, every token in Redis was obtained with the
\* password the account has now.
RevocationComplete ==
  \A i \in store :
    \/ token[i].password = account[token[i].user].password
    \/ \E r \in Requests : req[r].pc \in {"scan", "del"} /\ req[r].user = token[i].user
===============================================================================
