-------------------------- MODULE NotificationGateway --------------------------
(***************************************************************************)
(* The WebSocket gateway for notifications: which sockets hear a user's    *)
(* notifications, while accounts are switched off and tokens run out.      *)
(*                                                                         *)
(* A socket's id is used once. `client` is the transport, `check` what has *)
(* become of handleConnection, which awaits the user's row between the     *)
(* handshake and the bookkeeping; `userSockets`, `expiryTimers` and `room` *)
(* are the two maps of the gateway and the room `user:<id>`. Time is       *)
(* abstract: a token may run out at any moment after it was verified.      *)
(***************************************************************************)
EXTENDS Naturals, FiniteSets

CONSTANTS
  None,         \* no user
  Sockets,      \* socket ids
  People,       \* users
  MaxSockets,   \* MAX_CONNECTIONS_PER_USER
  MaxSwitches   \* bound: accounts switched off, on or removed

ASSUME GatewayAssumption == MaxSockets \in Nat \ {0} /\ None \notin People

VARIABLES
  account,       \* account[u]: "on", "off" or "gone"
  evictions,     \* users of whom an event user.deactivated or user.deleted is under way
  client,        \* client[s]: "new", "open" or "closed"
  owner,         \* owner[s]: the user of the socket's token
  check,         \* check[s]: "none", "reading", "active", "refused" or "done"
  userSockets,   \* userSockets[u]: ids registered for the user
  expiryTimers,  \* ids with a timer
  room,          \* sockets that joined their owner's room
  early,         \* history: sockets that closed while their check was under way
  untimed,       \* history: sockets whose timer an eviction cleared
  switches       \* counts account changes, for MaxSwitches

socketVars == <<client, owner, check, userSockets, expiryTimers, room, early, untimed>>
gatewayVars == <<account, evictions, socketVars, switches>>

GatewayInit ==
  /\ account = [u \in People |-> "on"]
  /\ evictions = {}
  /\ client = [s \in Sockets |-> "new"]
  /\ owner = [s \in Sockets |-> None]
  /\ check = [s \in Sockets |-> "none"]
  /\ userSockets = [u \in People |-> {}]
  /\ expiryTimers = {}
  /\ room = {}
  /\ early = {}
  /\ untimed = {}
  /\ switches = 0

Checking(s) == check[s] \in {"reading", "active", "refused"}

\* handleDisconnect and the transport's own clean-up, for a set of open sockets:
\* timers and map entries go, and the rooms are left.
Close(S) ==
  /\ client' = [s \in Sockets |-> IF s \in S THEN "closed" ELSE client[s]]
  /\ room' = room \ S
  /\ expiryTimers' = expiryTimers \ S
  /\ userSockets' = [u \in People |-> userSockets[u] \ S]

\* handleConnection up to its await. A bad origin, a missing token, one that
\* does not verify or is no access token closes the socket at once.
Connect(s, u, verifies) ==
  /\ client[s] = "new"
  /\ owner' = [owner EXCEPT ![s] = u]
  /\ client' = [client EXCEPT ![s] = IF verifies THEN "open" ELSE "closed"]
  /\ check' = [check EXCEPT ![s] = IF verifies THEN "reading" ELSE "done"]
  /\ UNCHANGED <<account, evictions, userSockets, expiryTimers, room, early, untimed, switches>>

\* getForValidation reads the row, or fails.
ReadUser(s) ==
  /\ check[s] = "reading"
  /\ \E found \in BOOLEAN :
       check' = [check EXCEPT ![s] = IF found /\ account[owner[s]] = "on"
                                     THEN "active" ELSE "refused"]
  /\ UNCHANGED <<account, evictions, client, owner, userSockets, expiryTimers, room, early, untimed, switches>>

Full(u) == Cardinality(userSockets[u]) >= MaxSockets

\* handleConnection refuses: no such user, an inactive one, or too many sockets.
\* disconnect() of a socket that has closed does nothing.
Refuse(s) ==
  /\ check[s] = "refused" \/ (check[s] = "active" /\ Full(owner[s]))
  /\ check' = [check EXCEPT ![s] = "done"]
  /\ Close({s} \cap {x \in Sockets : client[x] = "open"})
  /\ UNCHANGED <<account, evictions, owner, early, untimed, switches>>

\* No timer for a socket that is registered.
RegisterBug(s) ==
  /\ userSockets' = [userSockets EXCEPT ![owner[s]] = @ \cup {s}]
  /\ room' = IF client[s] = "open" THEN room \cup {s} ELSE room
  /\ UNCHANGED <<client, expiryTimers>>

\* Registers the id, joins the room and sets the timer. Joining does nothing on a socket that has closed.
Register(s) ==
  /\ userSockets' = [userSockets EXCEPT ![owner[s]] = @ \cup {s}]
  /\ room' = IF client[s] = "open" THEN room \cup {s} ELSE room
  /\ expiryTimers' = expiryTimers \cup {s}
  /\ UNCHANGED client

\* The token ran out while the row was read: a socket that is still open is
\* closed again, one that is not stays registered without a timer.
RegisterExpired(s) ==
  IF client[s] = "open"
  THEN Close({s})
  ELSE /\ userSockets' = [userSockets EXCEPT ![owner[s]] = @ \cup {s}]
       /\ UNCHANGED <<client, room, expiryTimers>>

Admit(s) ==
  /\ check[s] = "active" /\ ~Full(owner[s])
  /\ check' = [check EXCEPT ![s] = "done"]
  /\ Register(s) \/ RegisterExpired(s)
  /\ UNCHANGED <<account, evictions, owner, early, untimed, switches>>

\* The browser goes away, or its token changes and useSocket tears the socket down.
ClientCloses(s) ==
  /\ client[s] = "open"
  /\ Close({s})
  /\ early' = IF Checking(s) THEN early \cup {s} ELSE early
  /\ UNCHANGED <<account, evictions, owner, check, untimed, switches>>

\* The timer of scheduleExpiryDisconnect, which fires only while it is tracked.
TimerFires(s) ==
  /\ s \in expiryTimers
  /\ IF client[s] = "open"
     THEN Close({s})
     ELSE expiryTimers' = expiryTimers \ {s} /\ UNCHANGED <<client, room, userSockets>>
  /\ UNCHANGED <<account, evictions, owner, check, early, untimed, switches>>

\* UsersService writes the row and then emits; a reactivated account emits nothing.
Switch(u, to) ==
  /\ switches < MaxSwitches
  /\ account[u] # "gone" /\ account[u] # to
  /\ account' = [account EXCEPT ![u] = to]
  /\ evictions' = IF to = "on" THEN evictions ELSE evictions \cup {u}
  /\ switches' = switches + 1
  /\ UNCHANGED socketVars

\* The entry is deleted, the sockets stay.
EvictBug(u) ==
  /\ u \in evictions
  /\ evictions' = evictions \ {u}
  /\ userSockets' = [userSockets EXCEPT ![u] = {}]
  /\ UNCHANGED <<account, client, owner, check, expiryTimers, room, early, untimed, switches>>

\* disconnectUserSockets. The gateway has a namespace, so `server` is a Namespace and its
\* `sockets` a map of sockets: `server.sockets.sockets.get` throws at the first id of the
\* set, whose timer is cleared by then. No socket is disconnected and no room left, and
\* the entry stays. Which id is the first is left open.
Evict(u) ==
  /\ u \in evictions
  /\ evictions' = evictions \ {u}
  /\ \/ userSockets[u] = {} /\ UNCHANGED <<expiryTimers, untimed>>
     \/ \E s \in userSockets[u] :
          /\ expiryTimers' = expiryTimers \ {s}
          /\ untimed' = untimed \cup ({s} \cap expiryTimers)
  /\ UNCHANGED <<account, client, owner, check, userSockets, room, early, switches>>

\* handleNotification: who hears a notification of user u.
Hearers(u) == {s \in room : owner[s] = u}

GatewayNext ==
  \/ \E s \in Sockets :
       \/ \E u \in People, verifies \in BOOLEAN : Connect(s, u, verifies)
       \/ ReadUser(s) \/ Refuse(s) \/ Admit(s)
       \/ ClientCloses(s)
       \/ TimerFires(s)
  \/ \E u \in People :
       \/ \E to \in {"on", "off", "gone"} : Switch(u, to)
       \/ Evict(u)

\* Timers fire: every access token runs out. Nothing else is assumed.
GatewayFairness == \A s \in Sockets : WF_gatewayVars(TimerFires(s))

GatewaySpec == GatewayInit /\ [][GatewayNext]_gatewayVars /\ GatewayFairness

\* Every variable has its type.
GatewayTypeOK ==
  /\ account \in [People -> {"on", "off", "gone"}]
  /\ evictions \subseteq People
  /\ client \in [Sockets -> {"new", "open", "closed"}]
  /\ owner \in [Sockets -> People \cup {None}]
  /\ check \in [Sockets -> {"none", "reading", "active", "refused", "done"}]
  /\ userSockets \in [People -> SUBSET Sockets]
  /\ expiryTimers \subseteq Sockets
  /\ room \subseteq Sockets
  /\ early \subseteq Sockets
  /\ untimed \subseteq Sockets
  /\ switches \in Nat

\* A socket that hears a user's notifications is open, is found under its user and under
\* no other, and will be cut off when its token runs out (it has a timer) unless an
\* eviction cleared that timer, whatever interleaving of connections, closings and
\* evictions put it there; and however many handshakes wait for their row at once, a
\* user never has more than MaxSockets places (handleConnection, handleDisconnect). A
\* place taken by an id whose socket has closed is lost for good: that can only be one
\* that closed while its own check was under way, when handleDisconnect found nothing.
HearersAccountable ==
  /\ \A s \in room :
       /\ client[s] = "open"
       /\ s \in expiryTimers \cup untimed
       /\ \A u \in People : s \in userSockets[u] <=> u = owner[s]
  /\ \A u \in People :
       /\ Cardinality(userSockets[u]) <= MaxSockets
       /\ \A s \in userSockets[u] : client[s] = "closed" => s \in early

\* Once an account is off for good, its sockets stop hearing its notifications, the one
\* that slipped in because its row was read before the change as well: their timers cut
\* them. Only a socket whose timer the eviction itself cleared hears on, as long as it
\* stays open.
DeactivatedFallSilent ==
  \A u \in People : <>[](account[u] # "on") => <>[](Hearers(u) \subseteq untimed)
================================================================================
