----------------------------- MODULE RefreshClient -----------------------------
(***************************************************************************)
(* The browser's side of a session: the request client that refreshes an   *)
(* expired access token behind the caller's back, the guard of the routes, *)
(* and logging in and out.                                                 *)
(*                                                                         *)
(* Access tokens are numbered as they are issued; 0 is none. A handler of  *)
(* an answer runs to its end before the next event, so it is one step. The *)
(* server is abstract: it answers 401 to a token that is not valid, and    *)
(* honours the refresh cookie while the session is alive. Leaving for      *)
(* /login by window.location loads the page anew.                          *)
(***************************************************************************)
EXTENDS Naturals, FiniteSets

CONSTANTS
  Requests,     \* requests of the pages
  Uploads,      \* those whose body is a FormData
  MaxTokens,    \* bound: access tokens issued
  MaxNetFaults  \* bound: answers lost or 503

ASSUME RefreshAssumption == Uploads \subseteq Requests /\ MaxTokens \in Nat /\ "logout" \notin Requests

\* useLogout posts through the same client.
Posts == Requests \cup {"logout"}

VARIABLES
  session,     \* the refresh cookie's session is alive
  validTokens, \* access tokens the server accepts
  issuedTokens,\* tokens issued so far
  store,       \* useAuthStore: token, user, isAuthenticated
  req,         \* req[r]: a request of the page
  processed,   \* processed[r]: how often the server has carried request r out
  isRefreshing,\* the flag of the interceptor; refresher is the request that set it
  refresher,
  failedQueue, \* requests waiting for the refresh
  routeCheck,  \* ProtectedRoute: "none", "asking", "cancelled" or "done"
  place,       \* "app", "login", or "leaving" for /login by window.location
  netFaults

storeVars == <<session, validTokens, issuedTokens, store>>
refreshVars == <<storeVars, req, processed, isRefreshing, refresher, failedQueue, routeCheck, place, netFaults>>

Fresh0 == [pc |-> "idle", token |-> 0, retry |-> FALSE]
SignedOut == [token |-> 0, user |-> FALSE, isAuthenticated |-> FALSE]

RefreshInit ==
  /\ session \in BOOLEAN
  /\ validTokens = {} /\ issuedTokens = 0
  /\ store = SignedOut
  /\ req = [r \in Posts |-> Fresh0]
  /\ processed = [r \in Posts |-> 0]
  /\ isRefreshing = FALSE /\ refresher = "none" /\ failedQueue = {}
  /\ routeCheck = "none"
  /\ place = "app"
  /\ netFaults = 0

NetFault == netFaults < MaxNetFaults /\ netFaults' = netFaults + 1
Sent(r) == [req[r] EXCEPT !.pc = "sent", !.token = store.token]

\* The request interceptor: the token of the moment goes along.
Send(r) ==
  /\ req[r].pc = "idle" /\ place = "app" /\ store.isAuthenticated
  /\ req' = [req EXCEPT ![r] = Sent(r)]
  /\ UNCHANGED <<storeVars, processed, isRefreshing, refresher, failedQueue, routeCheck, place, netFaults>>

\* onSettled of useLogout, whatever the answer; nothing for another request.
Settle(r) ==
  IF r = "logout" THEN store' = SignedOut /\ place' = (IF place = "leaving" THEN place ELSE "login")
                  ELSE UNCHANGED <<store, place>>

\* The server carries the request out, logging out whatever the token, or the answer is
\* 503 or none: it goes to the caller. An administrator is sent to /admin/maintenance on 503.
Answered(r) ==
  /\ req[r].pc = "sent"
  /\ \/ /\ req[r].token \in validTokens \/ r = "logout"
        /\ processed' = [processed EXCEPT ![r] = @ + 1]
        /\ session' = (session /\ r # "logout")
        /\ UNCHANGED netFaults
     \/ NetFault /\ UNCHANGED <<processed, session>>
  /\ req' = [req EXCEPT ![r].pc = "settled"]
  /\ Settle(r)
  /\ UNCHANGED <<validTokens, issuedTokens, isRefreshing, refresher, failedQueue, routeCheck>>

\* The response interceptor on a 401: an upload, a second failure or a store without a
\* token rejects; during a refresh the request waits; else it starts one.
Unauthorized(r) ==
  LET reject == r \in Uploads \/ req[r].retry \/ store.token = 0 IN
  /\ req[r].pc = "sent" /\ req[r].token \notin validTokens
  /\ \/ /\ reject
        /\ req' = [req EXCEPT ![r].pc = "settled"]
        /\ UNCHANGED <<isRefreshing, refresher, failedQueue>>
     \/ /\ ~reject /\ isRefreshing
        /\ req' = [req EXCEPT ![r].pc = "queued"]
        /\ failedQueue' = failedQueue \cup {r}
        /\ UNCHANGED <<isRefreshing, refresher>>
     \/ /\ ~reject /\ ~isRefreshing
        /\ req' = [req EXCEPT ![r].pc = "refreshing", ![r].retry = TRUE]
        /\ isRefreshing' = TRUE /\ refresher' = r
        /\ UNCHANGED failedQueue
  /\ UNCHANGED <<storeVars, processed, routeCheck, place, netFaults>>

Issue ==
  /\ session /\ issuedTokens < MaxTokens
  /\ issuedTokens' = issuedTokens + 1
  /\ validTokens' = validTokens \cup {issuedTokens + 1}

\* refreshAccessToken succeeds: the store has the token before the queue is let go, and
\* the waiting requests and the refresher's are sent again with it.
RefreshSucceeds ==
  /\ isRefreshing /\ Issue
  /\ store' = [store EXCEPT !.token = issuedTokens + 1, !.user = TRUE]
  /\ req' = [r \in Posts |-> IF r \in failedQueue \cup {refresher}
                             THEN [req[r] EXCEPT !.pc = "sent", !.token = issuedTokens + 1] ELSE req[r]]
  /\ failedQueue' = {} /\ isRefreshing' = FALSE /\ refresher' = "none"
  /\ UNCHANGED <<session, processed, routeCheck, place, netFaults>>

\* Those waiting are forgotten.
RefreshFailsBug ==
  /\ isRefreshing
  /\ (~session /\ UNCHANGED netFaults) \/ NetFault
  /\ store' = SignedOut
  /\ req' = [req EXCEPT ![refresher].pc = "settled"]
  /\ failedQueue' = {} /\ isRefreshing' = FALSE /\ refresher' = "none"
  /\ place' = "leaving"
  /\ UNCHANGED <<session, validTokens, issuedTokens, processed, routeCheck>>

\* It fails: everyone waiting is rejected, the store is emptied, the page is left.
RefreshFails ==
  /\ isRefreshing
  /\ (~session /\ UNCHANGED netFaults) \/ NetFault
  /\ store' = SignedOut
  /\ req' = [r \in Posts |-> IF r \in failedQueue \cup {refresher} THEN [req[r] EXCEPT !.pc = "settled"] ELSE req[r]]
  /\ failedQueue' = {} /\ isRefreshing' = FALSE /\ refresher' = "none"
  /\ place' = "leaving"
  /\ UNCHANGED <<session, validTokens, issuedTokens, processed, routeCheck>>

\* The new page: all of the above is gone, the cookie is not.
Reload ==
  /\ place = "leaving"
  /\ place' = "login" /\ store' = SignedOut
  /\ req' = [r \in Posts |-> Fresh0] /\ processed' = [r \in Posts |-> 0]
  /\ isRefreshing' = FALSE /\ refresher' = "none" /\ failedQueue' = {}
  /\ routeCheck' = "none"
  /\ UNCHANGED <<session, validTokens, issuedTokens, netFaults>>

\* ProtectedRoute is shown to somebody not signed in: it asks for a token on its own.
RouteAsks ==
  /\ place = "app" /\ ~store.isAuthenticated /\ routeCheck = "none"
  /\ routeCheck' = "asking"
  /\ UNCHANGED <<storeVars, req, processed, isRefreshing, refresher, failedQueue, place, netFaults>>

\* Its answer is used unless it was unmounted or signed in meanwhile; without one the user goes to /login.
RouteAnswered ==
  /\ routeCheck \in {"asking", "cancelled"}
  /\ \/ /\ Issue
        /\ store' = IF routeCheck = "asking"
                    THEN [token |-> issuedTokens + 1, user |-> TRUE, isAuthenticated |-> TRUE] ELSE store
        /\ UNCHANGED <<place, netFaults>>
     \/ /\ (~session /\ UNCHANGED netFaults) \/ NetFault
        /\ place' = IF place = "app" /\ ~store.isAuthenticated THEN "login" ELSE place
        /\ UNCHANGED <<store, issuedTokens, validTokens>>
  /\ routeCheck' = "none"
  /\ UNCHANGED <<session, req, processed, isRefreshing, refresher, failedQueue>>

\* useLogin: a new session; its page leads back into the application.
SignIn ==
  /\ place = "login" /\ issuedTokens < MaxTokens
  /\ session' = TRUE
  /\ issuedTokens' = issuedTokens + 1 /\ validTokens' = validTokens \cup {issuedTokens + 1}
  /\ store' = [token |-> issuedTokens + 1, user |-> TRUE, isAuthenticated |-> TRUE]
  /\ place' = "app"
  /\ routeCheck' = IF routeCheck = "asking" THEN "cancelled" ELSE routeCheck
  /\ req' = [req EXCEPT !["logout"] = IF @.pc = "settled" THEN Fresh0 ELSE @]
  /\ processed' = [processed EXCEPT !["logout"] = 0]
  /\ UNCHANGED <<isRefreshing, refresher, failedQueue, netFaults>>

\* The server lets a token run out, or ends the session.
TokenExpires(n) ==
  /\ n \in validTokens /\ validTokens' = validTokens \ {n}
  /\ UNCHANGED <<session, issuedTokens, store, req, processed, isRefreshing, refresher, failedQueue, routeCheck, place, netFaults>>
SessionEnds ==
  /\ session /\ session' = FALSE
  /\ UNCHANGED <<validTokens, issuedTokens, store, req, processed, isRefreshing, refresher, failedQueue, routeCheck, place, netFaults>>

RequestStep(r) == Answered(r) \/ (r \in Requests /\ Unauthorized(r))
RefreshStep == RefreshSucceeds \/ RefreshFails

RefreshNext ==
  \/ \E r \in Posts : Send(r) \/ RequestStep(r)
  \/ RefreshStep \/ Reload
  \/ RouteAsks \/ RouteAnswered
  \/ SignIn \/ SessionEnds
  \/ \E n \in 1 .. MaxTokens : TokenExpires(n)

\* Answers arrive.
RefreshFairness ==
  /\ \A r \in Posts : WF_refreshVars(RequestStep(r))
  /\ WF_refreshVars(RefreshStep)

RefreshSpec == RefreshInit /\ [][RefreshNext]_refreshVars /\ RefreshFairness

\* Every variable has its type.
RefreshTypeOK ==
  /\ validTokens \subseteq 1 .. issuedTokens
  /\ store \in [token : 0 .. issuedTokens, user : BOOLEAN, isAuthenticated : BOOLEAN]
  /\ \A r \in Posts : req[r].pc \in {"idle", "sent", "queued", "refreshing", "settled"}
  /\ failedQueue \subseteq Posts /\ refresher \in Posts \cup {"none"}
  /\ routeCheck \in {"none", "asking", "cancelled"} /\ place \in {"app", "login", "leaving"}

\* The session can be refreshed as long as the bound on tokens is not reached.
TokensLeft == session => issuedTokens < MaxTokens

\* A request that is sent again behind the caller's back was never carried out before.
CarriedOutOnce(r) == processed[r] <= 1

\* A caller always gets an answer: however many requests meet an expired token at
\* once, in whatever order their answers and the refresh's come, none waits in the queue
\* for ever (except where the model has run out of tokens to issue), and none is carried
\* out twice.
RequestsSettle ==
  /\ \A r \in Posts : []<>(req[r].pc \in {"idle", "settled"} \/ ~TokensLeft)
  /\ [](\A r \in Posts : CarriedOutOnce(r))
================================================================================
