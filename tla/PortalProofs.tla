------------------------------ MODULE PortalProofs ------------------------------
(***************************************************************************)
(* Proofs about parts of Portal, for any users, sockets, events, editors,  *)
(* tickets and bounds: the gateway's types and HearersAccountable, the     *)
(* fan-out's OncePerEvent and NobodyLeftOut, the bot's                     *)
(* BotFollowsItsSettings, the dashboard's DashboardAddsUp, the types of    *)
(* every part, and that Portal, which moves one part at a time, has each   *)
(* of them, and what DeskProofs proves of the other parts.                 *)
(***************************************************************************)
EXTENDS Portal, DeskProofs, FiniteSetTheorems, WellFoundedInduction, TLAPS

-------------------------------------------------------------------------------
(* The gateway.                                                             *)

\* The check and the transport keep step: the check begins with the handshake, and a
\* socket that is closed while it is under way is noted in `early`.
ChecksSound ==
  \A s \in Sockets :
    /\ check[s] = "none" <=> client[s] = "new"
    /\ Checking(s) => client[s] = "open" \/ s \in early

\* A place is taken in its owner's entry only, once the check is over, and a place whose
\* socket has closed was taken by one that closed early.
PlacesSound ==
  \A u \in People :
    /\ IsFiniteSet(userSockets[u])
    /\ Cardinality(userSockets[u]) <= MaxSockets
    /\ \A s \in userSockets[u] :
         /\ owner[s] = u
         /\ check[s] = "done"
         /\ client[s] = "open" \/ s \in early

\* Whoever is in a room is open, has a timer unless an eviction cleared it, has its place,
\* and is a user's.
RoomSound ==
  \A s \in room :
    /\ client[s] = "open"
    /\ s \in expiryTimers \cup untimed
    /\ owner[s] \in People
    /\ s \in userSockets[owner[s]]

\* A check under way, or a place taken, has an owner.
OwnersSound == \A s \in Sockets : Checking(s) => owner[s] \in People

\* A timer is set when the check is over.
TimersSound == \A s \in expiryTimers : check[s] = "done"

GatewaySound == GatewayTypeOK /\ ChecksSound /\ PlacesSound /\ RoomSound /\ OwnersSound /\ TimersSound

\* Taking sockets out of an entry keeps it finite and does not make it larger.
LEMMA PlacesLeft ==
  ASSUME NEW A, NEW B, IsFiniteSet(A), B \subseteq A
  PROVE  IsFiniteSet(B) /\ Cardinality(B) <= Cardinality(A)
BY FS_Subset

\* A set below its limit stays within it when one element is added.
LEMMA PlaceTaken ==
  ASSUME NEW A, NEW x, IsFiniteSet(A), MaxSockets \in Nat, ~(Cardinality(A) >= MaxSockets)
  PROVE  IsFiniteSet(A \cup {x}) /\ Cardinality(A \cup {x}) <= MaxSockets
<1>1. IsFiniteSet(A \cup {x}) BY FS_AddElement
<1>2. Cardinality(A) \in Nat BY FS_CardinalityType
<1>3. Cardinality(A \cup {x}) = Cardinality(A) \/ Cardinality(A \cup {x}) = Cardinality(A) + 1
  BY FS_AddElement
<1> QED BY <1>1, <1>2, <1>3

LEMMA GatewayStarts == GatewayInit => GatewaySound
<1> SUFFICES ASSUME GatewayInit PROVE GatewaySound OBVIOUS
<1> USE GatewayAssumption DEF GatewayInit
<1>1. GatewayTypeOK BY DEF GatewayTypeOK
<1>2. ChecksSound BY DEF ChecksSound, Checking
<1>3. PlacesSound BY FS_EmptySet DEF PlacesSound
<1>4. RoomSound BY DEF RoomSound
<1>5. OwnersSound BY DEF OwnersSound, Checking
<1>6. TimersSound BY DEF TimersSound
<1> QED BY <1>1, <1>2, <1>3, <1>4, <1>5, <1>6 DEF GatewaySound

\* Closing sockets, while owners, checks and `early` at least stay, keeps places and rooms sound.
LEMMA CloseSound ==
  ASSUME GatewayTypeOK, PlacesSound, RoomSound, TimersSound, NEW S \in SUBSET Sockets, Close(S),
         owner' = owner, early \subseteq early', untimed' = untimed,
         \A s \in Sockets : check[s] = "done" => check'[s] = "done"
  PROVE  PlacesSound' /\ RoomSound' /\ TimersSound'
<1>1. PlacesSound'
  <2> SUFFICES ASSUME NEW u \in People
               PROVE  /\ IsFiniteSet(userSockets'[u])
                      /\ Cardinality(userSockets'[u]) <= MaxSockets
                      /\ \A s \in userSockets'[u] : /\ owner'[s] = u
                                                    /\ check'[s] = "done"
                                                    /\ client'[s] = "open" \/ s \in early'
    BY DEF PlacesSound
  <2>1. userSockets'[u] = userSockets[u] \ S BY DEF Close
  <2>2. userSockets[u] \subseteq Sockets BY DEF GatewayTypeOK
  <2>3. IsFiniteSet(userSockets[u]) /\ Cardinality(userSockets[u]) <= MaxSockets BY DEF PlacesSound
  <2>4. /\ IsFiniteSet(userSockets'[u])
        /\ Cardinality(userSockets'[u]) <= Cardinality(userSockets[u])
    BY <2>1, <2>3, PlacesLeft
  <2>5. Cardinality(userSockets'[u]) \in Nat /\ Cardinality(userSockets[u]) \in Nat
    BY <2>3, <2>4, FS_CardinalityType
  <2>6. Cardinality(userSockets'[u]) <= MaxSockets
    BY <2>3, <2>4, <2>5, GatewayAssumption
  <2>7. ASSUME NEW s \in userSockets'[u]
        PROVE  owner'[s] = u /\ check'[s] = "done" /\ (client'[s] = "open" \/ s \in early')
    BY <2>1, <2>2, <2>7 DEF PlacesSound, Close
  <2> QED BY <2>4, <2>6, <2>7
<1>2. RoomSound' BY DEF RoomSound, Close, GatewayTypeOK
<1>3. TimersSound' BY DEF TimersSound, Close, GatewayTypeOK
<1> QED BY <1>1, <1>2, <1>3

\* One step keeps everything sound.
LEMMA GatewaySteps == GatewaySound /\ [GatewayNext]_gatewayVars => GatewaySound'
<1> SUFFICES ASSUME GatewaySound, [GatewayNext]_gatewayVars PROVE GatewaySound' OBVIOUS
<1> USE GatewayAssumption
<1>0. GatewayTypeOK /\ ChecksSound /\ PlacesSound /\ RoomSound /\ OwnersSound /\ TimersSound BY DEF GatewaySound
<1>1. ASSUME NEW s \in Sockets, NEW u \in People, NEW verifies \in BOOLEAN, Connect(s, u, verifies)
      PROVE  GatewaySound'
  <2>1. GatewayTypeOK' BY <1>0, <1>1 DEF Connect, GatewayTypeOK
  <2>2. ChecksSound' BY <1>0, <1>1 DEF Connect, GatewayTypeOK, ChecksSound, Checking
  <2>3. \A v \in People : s \notin userSockets[v]
    BY <1>0, <1>1 DEF Connect, ChecksSound, PlacesSound
  <2>4. PlacesSound' BY <1>0, <1>1, <2>3 DEF Connect, GatewayTypeOK, PlacesSound
  <2>5. RoomSound' BY <1>0, <1>1 DEF Connect, GatewayTypeOK, RoomSound
  <2>6. OwnersSound' BY <1>0, <1>1 DEF Connect, GatewayTypeOK, OwnersSound, Checking
  <2>7. TimersSound' BY <1>0, <1>1 DEF Connect, GatewayTypeOK, ChecksSound, TimersSound
  <2> QED BY <2>1, <2>2, <2>4, <2>5, <2>6, <2>7 DEF GatewaySound
<1>2. ASSUME NEW s \in Sockets, ReadUser(s) PROVE GatewaySound'
  <2>1. GatewayTypeOK' BY <1>0, <1>2 DEF ReadUser, GatewayTypeOK
  <2>2. ChecksSound' BY <1>0, <1>2 DEF ReadUser, GatewayTypeOK, ChecksSound, Checking
  <2>3. PlacesSound' BY <1>0, <1>2 DEF ReadUser, GatewayTypeOK, PlacesSound
  <2>4. RoomSound' BY <1>0, <1>2 DEF ReadUser, RoomSound
  <2>5. OwnersSound' BY <1>0, <1>2 DEF ReadUser, GatewayTypeOK, OwnersSound, Checking
  <2>6. TimersSound' BY <1>0, <1>2 DEF ReadUser, GatewayTypeOK, TimersSound
  <2> QED BY <2>1, <2>2, <2>3, <2>4, <2>5, <2>6 DEF GatewaySound
<1>3. ASSUME NEW s \in Sockets, Refuse(s) PROVE GatewaySound'
  <2> DEFINE S == {s} \cap {x \in Sockets : client[x] = "open"}
  <2>0. S \in SUBSET Sockets /\ Close(S) /\ \A x \in S : client[x] = "open" BY <1>3 DEF Refuse
  <2>1. GatewayTypeOK' BY <1>0, <1>3, <2>0 DEF Refuse, Close, GatewayTypeOK
  <2>2. ChecksSound' BY <1>0, <1>3, <2>0 DEF Refuse, Close, GatewayTypeOK, ChecksSound, Checking
  <2>3. PlacesSound' /\ RoomSound' /\ TimersSound'
    <3>1. \A x \in Sockets : check[x] = "done" => check'[x] = "done" BY <1>0, <1>3 DEF Refuse, GatewayTypeOK
    <3>2. owner' = owner /\ early \subseteq early' /\ untimed' = untimed BY <1>3 DEF Refuse
    <3> QED BY <1>0, <2>0, <3>1, <3>2, CloseSound
  <2>4. OwnersSound' BY <1>0, <1>3 DEF Refuse, GatewayTypeOK, OwnersSound, Checking
  <2> QED BY <2>1, <2>2, <2>3, <2>4 DEF GatewaySound
<1>4. ASSUME NEW s \in Sockets, Admit(s) PROVE GatewaySound'
  <2> DEFINE u == owner[s]
  <2>1. /\ Checking(s) /\ u \in People
        /\ ~(Cardinality(userSockets[u]) >= MaxSockets)
        /\ check' = [check EXCEPT ![s] = "done"]
        /\ owner' = owner /\ early' = early /\ untimed' = untimed
        /\ account' = account /\ evictions' = evictions /\ switches' = switches
    BY <1>0, <1>4 DEF Admit, Full, OwnersSound, Checking
  <2>2. client[s] = "open" \/ s \in early BY <1>0, <2>1 DEF ChecksSound
  <2>3. \A x \in Sockets : check[x] = "done" => check'[x] = "done" BY <1>0, <2>1 DEF GatewayTypeOK
  <2>4. check'[s] = "done" BY <1>0, <2>1 DEF GatewayTypeOK
  <2>5. OwnersSound' BY <1>0, <2>1 DEF GatewayTypeOK, OwnersSound, Checking
  <2>6. ASSUME userSockets' = [userSockets EXCEPT ![u] = @ \cup {s}], client' = client
        PROVE  PlacesSound'
    <3> SUFFICES ASSUME NEW v \in People
                 PROVE  /\ IsFiniteSet(userSockets'[v])
                        /\ Cardinality(userSockets'[v]) <= MaxSockets
                        /\ \A x \in userSockets'[v] : /\ owner'[x] = v
                                                      /\ check'[x] = "done"
                                                      /\ client'[x] = "open" \/ x \in early'
      BY DEF PlacesSound
    <3>1. CASE v = u
      <4>1. userSockets'[v] = userSockets[v] \cup {s} BY <1>0, <2>6, <3>1 DEF GatewayTypeOK
      <4>2. IsFiniteSet(userSockets[v]) /\ userSockets[v] \subseteq Sockets BY <1>0 DEF PlacesSound, GatewayTypeOK
      <4>3. IsFiniteSet(userSockets'[v]) /\ Cardinality(userSockets'[v]) <= MaxSockets
        BY <2>1, <3>1, <4>1, <4>2, PlaceTaken
      <4>4. \A x \in userSockets[v] : /\ owner'[x] = v
                                      /\ check'[x] = "done"
                                      /\ client'[x] = "open" \/ x \in early'
        BY <1>0, <2>1, <2>3, <2>6, <4>2 DEF PlacesSound
      <4> QED BY <2>1, <2>2, <2>4, <2>6, <3>1, <4>1, <4>3, <4>4
    <3>2. CASE v # u
      <4>1. userSockets'[v] = userSockets[v] /\ userSockets[v] \subseteq Sockets
        BY <1>0, <2>6, <3>2 DEF GatewayTypeOK
      <4> QED BY <1>0, <2>1, <2>3, <2>6, <4>1 DEF PlacesSound
    <3> QED BY <3>1, <3>2
  <2>7. CASE Register(s)
    <3>1. GatewayTypeOK' BY <1>0, <2>1, <2>7 DEF Register, GatewayTypeOK
    <3>2. ChecksSound' BY <1>0, <2>1, <2>7 DEF Register, GatewayTypeOK, ChecksSound, Checking
    <3>3. PlacesSound' BY <2>6, <2>7 DEF Register
    <3>4. RoomSound'
      <4>1. \A x \in room : x \in userSockets'[owner[x]] BY <1>0, <2>1, <2>7 DEF Register, RoomSound, GatewayTypeOK
      <4>2. s \in userSockets'[owner[s]] BY <1>0, <2>1, <2>7 DEF Register, GatewayTypeOK
      <4> QED BY <1>0, <2>1, <2>7, <4>1, <4>2 DEF Register, RoomSound
    <3>5. TimersSound' BY <1>0, <2>3, <2>4, <2>7 DEF Register, TimersSound, GatewayTypeOK
    <3> QED BY <2>5, <3>1, <3>2, <3>3, <3>4, <3>5 DEF GatewaySound
  <2>8. CASE RegisterExpired(s) /\ client[s] = "open"
    <3>0. Close({s}) BY <2>8 DEF RegisterExpired
    <3>1. GatewayTypeOK' BY <1>0, <2>1, <3>0 DEF Close, GatewayTypeOK
    <3>2. ChecksSound' BY <1>0, <2>1, <2>8, <3>0 DEF Close, GatewayTypeOK, ChecksSound, Checking
    <3>3. PlacesSound' /\ RoomSound' /\ TimersSound' BY <1>0, <2>1, <2>3, <3>0, CloseSound
    <3> QED BY <2>5, <3>1, <3>2, <3>3 DEF GatewaySound
  <2>9. CASE RegisterExpired(s) /\ client[s] # "open"
    <3>0. /\ userSockets' = [userSockets EXCEPT ![u] = @ \cup {s}]
          /\ client' = client /\ room' = room /\ expiryTimers' = expiryTimers
      BY <2>9 DEF RegisterExpired
    <3>1. GatewayTypeOK' BY <1>0, <2>1, <3>0 DEF GatewayTypeOK
    <3>2. ChecksSound' BY <1>0, <2>1, <3>0 DEF GatewayTypeOK, ChecksSound, Checking
    <3>3. PlacesSound' BY <2>6, <3>0
    <3>4. RoomSound' BY <1>0, <2>1, <3>0 DEF RoomSound, GatewayTypeOK
    <3>5. TimersSound' BY <1>0, <2>3, <3>0 DEF TimersSound, GatewayTypeOK
    <3> QED BY <2>5, <3>1, <3>2, <3>3, <3>4, <3>5 DEF GatewaySound
  <2> QED BY <1>4, <2>7, <2>8, <2>9 DEF Admit
<1>5. ASSUME NEW s \in Sockets, ClientCloses(s) PROVE GatewaySound'
  <2>1. GatewayTypeOK' BY <1>0, <1>5 DEF ClientCloses, Close, GatewayTypeOK
  <2>2. ChecksSound' BY <1>0, <1>5 DEF ClientCloses, Close, GatewayTypeOK, ChecksSound, Checking
  <2>3. PlacesSound' /\ RoomSound' /\ TimersSound'
    <3>1. owner' = owner /\ check' = check /\ early \subseteq early' /\ untimed' = untimed /\ Close({s}) BY <1>5 DEF ClientCloses
    <3> QED BY <1>0, <3>1, CloseSound
  <2>4. OwnersSound' BY <1>0, <1>5 DEF ClientCloses, OwnersSound, Checking
  <2> QED BY <2>1, <2>2, <2>3, <2>4 DEF GatewaySound
<1>6. ASSUME NEW s \in Sockets, TimerFires(s) PROVE GatewaySound'
  <2>0. /\ owner' = owner /\ check' = check /\ early' = early /\ untimed' = untimed
        /\ account' = account /\ evictions' = evictions /\ switches' = switches
    BY <1>6 DEF TimerFires
  <2>1. ~Checking(s) BY <1>0, <1>6 DEF TimerFires, TimersSound, Checking
  <2>2. OwnersSound' BY <1>0, <2>0 DEF OwnersSound, Checking
  <2>3. CASE client[s] = "open"
    <3>0. Close({s}) BY <1>6, <2>3 DEF TimerFires
    <3>1. GatewayTypeOK' BY <1>0, <2>0, <3>0 DEF Close, GatewayTypeOK
    <3>2. ChecksSound' BY <1>0, <2>0, <2>1, <2>3, <3>0 DEF Close, GatewayTypeOK, ChecksSound, Checking
    <3>3. PlacesSound' /\ RoomSound' /\ TimersSound' BY <1>0, <2>0, <3>0, CloseSound
    <3> QED BY <2>2, <3>1, <3>2, <3>3 DEF GatewaySound
  <2>4. CASE client[s] # "open"
    <3>0. /\ expiryTimers' = expiryTimers \ {s}
          /\ client' = client /\ room' = room /\ userSockets' = userSockets
      BY <1>6, <2>4 DEF TimerFires
    <3>1. GatewayTypeOK' BY <1>0, <2>0, <3>0 DEF GatewayTypeOK
    <3>2. ChecksSound' BY <1>0, <2>0, <3>0 DEF ChecksSound, Checking
    <3>3. PlacesSound' BY <1>0, <2>0, <3>0 DEF PlacesSound
    <3>4. RoomSound' BY <1>0, <2>0, <2>4, <3>0 DEF RoomSound
    <3>5. TimersSound' BY <1>0, <2>0, <3>0 DEF TimersSound
    <3> QED BY <2>2, <3>1, <3>2, <3>3, <3>4, <3>5 DEF GatewaySound
  <2> QED BY <2>3, <2>4
<1>7. ASSUME NEW u \in People, NEW to \in {"on", "off", "gone"}, Switch(u, to) PROVE GatewaySound'
  <2>0. UNCHANGED socketVars BY <1>7 DEF Switch
  <2>1. GatewayTypeOK' BY <1>0, <1>7 DEF Switch, socketVars, GatewayTypeOK
  <2>2. ChecksSound' BY <1>0, <2>0 DEF socketVars, ChecksSound, Checking
  <2>3. PlacesSound' BY <1>0, <2>0 DEF socketVars, PlacesSound
  <2>4. RoomSound' BY <1>0, <2>0 DEF socketVars, RoomSound
  <2>5. OwnersSound' /\ TimersSound' BY <1>0, <2>0 DEF socketVars, OwnersSound, TimersSound, Checking
  <2> QED BY <2>1, <2>2, <2>3, <2>4, <2>5 DEF GatewaySound
<1>8. ASSUME NEW u \in People, Evict(u) PROVE GatewaySound'
  <2>0. /\ client' = client /\ room' = room /\ userSockets' = userSockets
        /\ owner' = owner /\ check' = check /\ early' = early
        /\ account' = account /\ evictions' = evictions \ {u} /\ switches' = switches
        /\ expiryTimers' \subseteq expiryTimers /\ untimed' \subseteq untimed \cup expiryTimers
        /\ expiryTimers \cup untimed \subseteq expiryTimers' \cup untimed'
    BY <1>8 DEF Evict
  <2>1. GatewayTypeOK' BY <1>0, <2>0 DEF GatewayTypeOK
  <2>2. ChecksSound' BY <1>0, <2>0 DEF ChecksSound, Checking
  <2>3. PlacesSound' BY <1>0, <2>0 DEF PlacesSound
  <2>4. RoomSound' BY <1>0, <2>0 DEF RoomSound
  <2>5. OwnersSound' /\ TimersSound' BY <1>0, <2>0 DEF OwnersSound, TimersSound, Checking
  <2> QED BY <2>1, <2>2, <2>3, <2>4, <2>5 DEF GatewaySound
<1>9. CASE UNCHANGED gatewayVars
  BY <1>0, <1>9 DEF gatewayVars, socketVars, GatewaySound, GatewayTypeOK, ChecksSound, PlacesSound, RoomSound,
                    OwnersSound, TimersSound, Checking
<1> QED BY <1>1, <1>2, <1>3, <1>4, <1>5, <1>6, <1>7, <1>8, <1>9 DEF GatewayNext

\* The inductive invariant: sockets, timers, places and the room agree with one another and
\* with how far each handleConnection has come.
THEOREM GatewaySoundness == GatewaySpec => []GatewaySound
BY GatewayStarts, GatewaySteps, PTL DEF GatewaySpec

\* The variables of the gateway have their types.
THEOREM GatewayTypeCorrect == GatewaySpec => []GatewayTypeOK
<1>1. GatewaySound => GatewayTypeOK BY DEF GatewaySound
<1> QED BY <1>1, GatewaySoundness, PTL

LEMMA GatewayHolds == GatewaySound => HearersAccountable
<1> SUFFICES ASSUME GatewaySound PROVE HearersAccountable
  OBVIOUS
<1>1. ASSUME NEW s \in room, NEW u \in People PROVE s \in userSockets[u] <=> u = owner[s]
  BY DEF GatewaySound, RoomSound, PlacesSound
<1>2. ASSUME NEW u \in People, NEW s \in userSockets[u], client[s] = "closed" PROVE s \in early
  BY <1>2 DEF GatewaySound, PlacesSound
<1>3. QED
  BY <1>1, <1>2 DEF HearersAccountable, GatewaySound, RoomSound, PlacesSound

\* Whoever hears a user's notifications is open, registered under that user alone and has a
\* timer unless an eviction cleared it; no user has more than MaxSockets places; a place is lost only to a socket that
\* closed while its check was under way (handleConnection, handleDisconnect).
THEOREM HearersCorrect == GatewaySpec => []HearersAccountable
BY GatewayHolds, GatewaySoundness, PTL

-------------------------------------------------------------------------------
(* The fan-out.                                                             *)

HandlerRow ==
  [pc : {"none", "read", "pool", "line", "done"}, kind : Kinds,
   requester : Users \cup {Nobody}, assignee : Users \cup {Nobody},
   pool : SUBSET Users, queue : SUBSET Users, running : SUBSET Users, line : Seq(Users),
   told : SUBSET Users, wanted : SUBSET Users, missed : SUBSET Users]

\* Of a handler and the notifications it has made: nobody has two; while the pool works, who
\* is queued or running has none and who has one was among the support users read; and of the
\* line only those told as assignee have one.
HandlerSound(j, n) ==
  /\ \A u \in Users : n[u] <= 1 /\ (n[u] > 0 => u \in j.wanted)
  /\ j.pc \in {"none", "read"} => \A u \in Users : n[u] = 0
  /\ j.pc # "pool" => j.queue = {} /\ j.running = {}
  /\ j.pc \in {"none", "read", "pool"} => j.told = {}
  /\ (j.pc = "read" /\ j.kind = "ticket.assigned") => j.assignee # Nobody
  /\ j.pc # "none" => j.requester \in Users
  /\ j.pc = "pool" =>
       /\ j.queue \cap j.running = {}
       /\ j.queue \cup j.running \subseteq j.wanted
       /\ \A u \in j.queue \cup j.running : n[u] = 0 /\ u \in j.pool
       /\ \A u \in Users : n[u] > 0 => u \in j.pool
  /\ j.pc = "line" =>
       \A i \in DOMAIN j.line : j.line[i] \in j.wanted /\ (j.line[i] \notin j.told => n[j.line[i]] = 0)

FanoutSound ==
  /\ handler \in [Events -> HandlerRow]
  /\ notices \in [Events -> [Users -> Nat]]
  /\ \A e \in Events : HandlerSound(handler[e], notices[e])

\* SetToSeq lists members of a finite set.
LEMMA Listing ==
  ASSUME NEW S, IsFiniteSet(S)
  PROVE  /\ SetToSeq(S) \in Seq(S)
         /\ \A i \in DOMAIN SetToSeq(S) : SetToSeq(S)[i] \in S
<1> DEFINE N == Cardinality(S)
           P(f) == f \in [1 .. N -> S] /\ IsInjective(f)
<1>1. N \in Nat /\ ExistsBijection(1 .. N, S)
  BY FS_CardinalityType
<1>2. PICK f : f \in Bijection(1 .. N, S)
  BY <1>1 DEF ExistsBijection
<1>3. P(f)
  BY <1>2 DEF Bijection, Injection
<1>4. SetToSeq(S) \in [1 .. N -> S]
  BY <1>3 DEF SetToSeq
<1>5. QED
  BY <1>1, <1>4

\* SetToSeq lists every member of a finite set.
LEMMA ListsAll ==
  ASSUME NEW S, IsFiniteSet(S)
  PROVE  \A x \in S : \E i \in DOMAIN SetToSeq(S) : SetToSeq(S)[i] = x
<1> DEFINE N == Cardinality(S)
           P(f) == f \in [1 .. N -> S] /\ IsInjective(f)
<1>1. N \in Nat /\ ExistsBijection(1 .. N, S)
  BY FS_CardinalityType
<1>2. PICK f : f \in Bijection(1 .. N, S)
  BY <1>1 DEF ExistsBijection
<1>3. P(f)
  BY <1>2 DEF Bijection, Injection
<1>4. P(SetToSeq(S))
  BY <1>3 DEF SetToSeq
<1>5. PICK s : s = SetToSeq(S)
  OBVIOUS
<1>6. s \in Injection(1 .. N, S)
  BY <1>4, <1>5 DEF Injection
<1>7. IsFiniteSet(1 .. N) /\ Cardinality(1 .. N) = N
  BY <1>1, FS_Interval
<1>8. s \in Surjection(1 .. N, S)
  BY <1>6, <1>7, FS_Injection
<1>9. DOMAIN s = 1 .. N
  BY <1>6 DEF Injection
<1>10. QED
  BY <1>5, <1>8, <1>9 DEF Surjection

LEMMA FewAreFinite ==
  ASSUME NEW a, NEW b, NEW S, S \subseteq {a, b}
  PROVE  IsFiniteSet(S)
<1>1. IsFiniteSet({a, b})
  <2>1. IsFiniteSet({a})
    BY FS_Singleton
  <2>2. IsFiniteSet({a} \cup {b})
    BY <2>1, FS_AddElement
  <2>3. {a} \cup {b} = {a, b}
    OBVIOUS
  <2>4. QED
    BY <2>2, <2>3
<1>2. QED
  BY <1>1, FS_Subset

LEMMA FanoutStarts == FanoutInit => FanoutSound
<1> SUFFICES ASSUME FanoutInit PROVE FanoutSound
  OBVIOUS
<1>1. Idle \in HandlerRow
  BY DEF Idle, HandlerRow, Kinds
<1>2. HandlerSound(Idle, [u \in Users |-> 0])
  BY DEF HandlerSound, Idle
<1>3. QED
  BY <1>1, <1>2 DEF FanoutInit, FanoutSound

\* The step of one handler.
LEMMA HandlerMoves ==
  ASSUME FanoutSound, NEW e \in Events, NEW k \in HandlerRow, NEW n \in [Users -> Nat],
         handler' = [handler EXCEPT ![e] = k], notices' = [notices EXCEPT ![e] = n],
         HandlerSound(k, n)
  PROVE  FanoutSound'
<1>1. handler' \in [Events -> HandlerRow] /\ notices' \in [Events -> [Users -> Nat]]
  BY DEF FanoutSound
<1>2. handler'[e] = k /\ notices'[e] = n
  BY DEF FanoutSound
<1>3. \A d \in Events : d # e => handler'[d] = handler[d] /\ notices'[d] = notices[d]
  BY DEF FanoutSound
<1>4. ASSUME NEW d \in Events PROVE HandlerSound(handler'[d], notices'[d])
  <2>1. CASE d = e
    BY <1>2, <2>1
  <2>2. CASE d # e
    <3>1. HandlerSound(handler[d], notices[d])
      BY DEF FanoutSound
    <3>2. QED
      BY <1>3, <2>2, <3>1
  <2>3. QED
    BY <2>1, <2>2
<1>5. QED
  BY <1>1, <1>4 DEF FanoutSound

LEMMA HandlerAlone ==
  ASSUME FanoutSound, NEW e \in Events, NEW k \in HandlerRow,
         handler' = [handler EXCEPT ![e] = k], notices' = notices, HandlerSound(k, notices[e])
  PROVE  FanoutSound'
<1>1. notices' = [notices EXCEPT ![e] = notices[e]] /\ notices[e] \in [Users -> Nat]
  BY DEF FanoutSound
<1>2. QED
  BY <1>1, HandlerMoves

LEMMA EmitSound ==
  ASSUME FanoutSound, NEW e \in Events, NEW kind \in Kinds, NEW r \in Users,
         NEW a \in Support \cup {Nobody}, Emit(e, kind, r, a)
  PROVE  FanoutSound'
<1> DEFINE k == [Idle EXCEPT !.pc = "read", !.kind = kind, !.requester = r, !.assignee = a]
<1>1. k \in HandlerRow
  <2>1. Idle \in HandlerRow
    BY DEF Idle, HandlerRow, Kinds
  <2>2. a \in Users \cup {Nobody}
    BY FanoutAssumption
  <2>3. QED
    BY <2>1, <2>2 DEF HandlerRow
<1>2. HandlerSound(handler[e], notices[e]) /\ handler[e].pc = "none"
  BY DEF FanoutSound, Emit
<1>3. HandlerSound(k, notices[e])
  BY <1>2 DEF HandlerSound, Idle, Emit
<1>4. handler' = [handler EXCEPT ![e] = k] /\ notices' = notices
  BY DEF Emit
<1> HIDE DEF k
<1>5. QED
  BY <1>1, <1>3, <1>4, HandlerAlone

\* A handler that turns to its line, with those still to be told.
LEMMA LineFormed ==
  ASSUME FanoutSound, NEW e \in Events, NEW s \in Seq(Users), NEW W \in SUBSET Users,
         handler[e].pc \in {"read", "pool"}, handler[e].queue = {}, handler[e].running = {},
         handler' = [handler EXCEPT ![e] = [handler[e] EXCEPT !.pc = "line", !.line = s, !.wanted = W]],
         notices' = notices,
         \A u \in Users : notices[e][u] > 0 => u \in W,
         \A i \in DOMAIN s : s[i] \in W /\ notices[e][s[i]] = 0
  PROVE  FanoutSound'
<1> DEFINE j == handler[e]
           k == [j EXCEPT !.pc = "line", !.line = s, !.wanted = W]
<1>1. j \in HandlerRow /\ HandlerSound(j, notices[e])
  BY DEF FanoutSound
<1>2. k \in HandlerRow /\ k.pc = "line" /\ k.line = s /\ k.wanted = W
      /\ k.queue = {} /\ k.running = {} /\ k.requester = j.requester
  BY <1>1 DEF HandlerRow
<1>3. HandlerSound(k, notices[e])
  BY <1>1, <1>2 DEF HandlerSound
<1> HIDE DEF k
<1>4. QED
  BY <1>2, <1>3, HandlerAlone DEF k

LEMMA ReadSound ==
  ASSUME FanoutSound, NEW e \in Events, ReadAudience(e)
  PROVE  FanoutSound'
<1> DEFINE j == handler[e]
           support == Support \cap enrolled
           willing(S) == {u \in S : Enabled(u, j.kind)}
<1>1. /\ j \in HandlerRow /\ HandlerSound(j, notices[e]) /\ j.pc = "read"
      /\ notices' = notices /\ handler \in [Events -> HandlerRow]
  BY DEF FanoutSound, ReadAudience
<1>2. /\ j.queue = {} /\ j.running = {} /\ j.told = {} /\ j.requester \in Users
      /\ \A u \in Users : notices[e][u] = 0
      /\ j.kind \in Kinds /\ j.assignee \in Users \cup {Nobody}
  BY <1>1 DEF HandlerSound, HandlerRow
<1>3. CASE j.kind = "ticket.created"
  <2> DEFINE k == [j EXCEPT !.pc = "pool", !.pool = support, !.queue = willing(support),
                            !.wanted = willing(support)]
  <2>1. support \in SUBSET Users /\ willing(support) \in SUBSET support
    BY FanoutAssumption
  <2>2. /\ k \in HandlerRow /\ k.pc = "pool" /\ k.pool = support /\ k.queue = willing(support)
        /\ k.wanted = willing(support) /\ k.running = {} /\ k.told = {} /\ k.requester = j.requester
    BY <1>1, <1>2, <2>1 DEF HandlerRow
  <2>3. handler' = [handler EXCEPT ![e] = k]
    BY <1>3 DEF ReadAudience
  <2> HIDE DEF k, willing, support
  <2>4. HandlerSound(k, notices[e])
    BY <1>2, <2>1, <2>2 DEF HandlerSound
  <2>5. QED
    BY <1>1, <2>2, <2>3, <2>4, HandlerAlone
<1>4. CASE j.kind = "ticket.assigned"
  <2> DEFINE W == willing({j.assignee})
  <2>1. j.assignee \in Users
    BY <1>1, <1>2, <1>4 DEF HandlerSound
  <2>2. W \in SUBSET Users /\ IsFiniteSet(W)
    BY <2>1, FewAreFinite
  <2>3. handler' = [handler EXCEPT ![e] = [j EXCEPT !.pc = "line", !.line = SetToSeq(W), !.wanted = W]]
    BY <1>4 DEF ReadAudience
  <2> HIDE DEF W
  <2>4. SetToSeq(W) \in Seq(Users) /\ \A i \in DOMAIN SetToSeq(W) : SetToSeq(W)[i] \in W
    BY <2>2, Listing
  <2>5. \A i \in DOMAIN SetToSeq(W) : notices[e][SetToSeq(W)[i]] = 0
    BY <1>2, <2>2, <2>4
  <2>6. \A u \in Users : notices[e][u] > 0 => u \in W
    BY <1>2
  <2>7. handler[e].pc \in {"read", "pool"} /\ handler[e].queue = {} /\ handler[e].running = {}
    BY <1>1, <1>2
  <2> HIDE DEF j
  <2>8. QED
    BY <1>1, <2>2, <2>3, <2>4, <2>5, <2>6, <2>7, LineFormed DEF j
<1>5. CASE j.kind = "ticket.priority.updated"
  <2> DEFINE W == willing(Addressed(j))
  <2>1. Addressed(j) \subseteq Users /\ Addressed(j) \subseteq {j.assignee, j.requester}
    BY <1>2 DEF Addressed
  <2>2. W \in SUBSET Users /\ IsFiniteSet(W)
    BY <2>1, FewAreFinite
  <2>3. handler' = [handler EXCEPT ![e] = [j EXCEPT !.pc = "line", !.line = SetToSeq(W), !.wanted = W]]
    BY <1>5 DEF ReadAudience
  <2> HIDE DEF W
  <2>4. SetToSeq(W) \in Seq(Users) /\ \A i \in DOMAIN SetToSeq(W) : SetToSeq(W)[i] \in W
    BY <2>2, Listing
  <2>5. \A i \in DOMAIN SetToSeq(W) : notices[e][SetToSeq(W)[i]] = 0
    BY <1>2, <2>2, <2>4
  <2>6. \A u \in Users : notices[e][u] > 0 => u \in W
    BY <1>2
  <2>7. handler[e].pc \in {"read", "pool"} /\ handler[e].queue = {} /\ handler[e].running = {}
    BY <1>1, <1>2
  <2> HIDE DEF j
  <2>8. QED
    BY <1>1, <2>2, <2>3, <2>4, <2>5, <2>6, <2>7, LineFormed DEF j
<1>6. CASE j.kind = "ticket.status.updated"
  <2> DEFINE W == willing(Addressed(j))
             s == Turn(j.assignee, W) \o Turn(j.requester, W)
  <2>1. W \in SUBSET Users
    BY <1>2 DEF Addressed
  <2>2. handler' = [handler EXCEPT ![e] = [j EXCEPT !.pc = "line", !.line = s, !.wanted = W]]
    BY <1>6 DEF ReadAudience
  <2> HIDE DEF W
  <2>3. s \in Seq(W)
    BY DEF Turn
  <2>4. s \in Seq(Users) /\ \A i \in DOMAIN s : s[i] \in W
    BY <2>1, <2>3
  <2> HIDE DEF s
  <2>5. \A i \in DOMAIN s : notices[e][s[i]] = 0
    BY <1>2, <2>1, <2>4
  <2>6. \A u \in Users : notices[e][u] > 0 => u \in W
    BY <1>2
  <2>7. handler[e].pc \in {"read", "pool"} /\ handler[e].queue = {} /\ handler[e].running = {}
    BY <1>1, <1>2
  <2> HIDE DEF j
  <2>8. QED
    BY <1>1, <2>1, <2>2, <2>4, <2>5, <2>6, <2>7, LineFormed DEF j
<1>7. QED
  BY <1>2, <1>3, <1>4, <1>5, <1>6 DEF Kinds

LEMMA TakeSound ==
  ASSUME FanoutSound, NEW e \in Events, NEW u \in Users, TakeItem(e, u)
  PROVE  FanoutSound'
<1> DEFINE j == handler[e]
           k == [j EXCEPT !.queue = @ \ {u}, !.running = @ \cup {u}]
<1>1. /\ j \in HandlerRow /\ HandlerSound(j, notices[e]) /\ j.pc = "pool" /\ u \in j.queue
      /\ notices' = notices /\ handler \in [Events -> HandlerRow]
  BY DEF FanoutSound, TakeItem
<1>2. handler' = [handler EXCEPT ![e] = k]
  BY <1>1 DEF TakeItem
<1>3. /\ k \in HandlerRow /\ k.pc = "pool" /\ k.queue = j.queue \ {u} /\ k.running = j.running \cup {u}
      /\ k.told = j.told /\ k.wanted = j.wanted /\ k.pool = j.pool /\ k.requester = j.requester
  BY <1>1 DEF HandlerRow
<1> HIDE DEF k
<1>4. HandlerSound(k, notices[e])
  BY <1>1, <1>3 DEF HandlerSound
<1>5. QED
  BY <1>1, <1>2, <1>3, <1>4, HandlerAlone

LEMMA FinishSound ==
  ASSUME FanoutSound, NEW e \in Events, NEW u \in Users, FinishItem(e, u)
  PROVE  FanoutSound'
<1> DEFINE j == handler[e]
<1>1. /\ j \in HandlerRow /\ HandlerSound(j, notices[e]) /\ u \in j.running
      /\ handler \in [Events -> HandlerRow] /\ notices[e] \in [Users -> Nat]
  BY DEF FanoutSound, FinishItem
<1>2. /\ j.pc = "pool" /\ notices[e][u] = 0 /\ u \in j.pool /\ u \in j.wanted /\ u \notin j.queue
  BY <1>1 DEF HandlerSound
<1>3. CASE Insert(e, u) /\ handler' = [handler EXCEPT ![e].running = @ \ {u}]
  <2> DEFINE k == [j EXCEPT !.running = @ \ {u}]
             n == [notices[e] EXCEPT ![u] = @ + 1]
  <2>1. handler' = [handler EXCEPT ![e] = k]
    BY <1>1, <1>3
  <2>2. notices' = [notices EXCEPT ![e] = n] /\ n \in [Users -> Nat]
    BY <1>1, <1>3 DEF Insert
  <2>3. /\ k \in HandlerRow /\ k.pc = "pool" /\ k.queue = j.queue /\ k.running = j.running \ {u}
        /\ k.told = j.told /\ k.wanted = j.wanted /\ k.pool = j.pool /\ k.requester = j.requester
    BY <1>1, <1>2 DEF HandlerRow
  <2>4. n[u] = 1 /\ \A v \in Users : v # u => n[v] = notices[e][v]
    BY <1>1, <1>2
  <2> HIDE DEF k, n
  <2>5. \A v \in Users : /\ n[v] <= 1 /\ (n[v] > 0 => v \in k.wanted /\ v \in k.pool)
    <3>1. TAKE v \in Users
    <3>2. CASE v = u
      BY <1>2, <2>3, <2>4, <3>2
    <3>3. CASE v # u
      BY <1>1, <1>2, <2>3, <2>4, <3>3 DEF HandlerSound
    <3>4. QED
      BY <3>2, <3>3
  <2>6. /\ k.queue \cap k.running = {} /\ k.queue \cup k.running \subseteq k.wanted
        /\ \A v \in k.queue \cup k.running : n[v] = 0 /\ v \in k.pool
    <3>1. \A v \in k.queue \cup k.running : v \in Users /\ v # u /\ v \in j.queue \cup j.running
      BY <1>1, <1>2, <2>3 DEF HandlerRow
    <3>2. /\ j.queue \cap j.running = {} /\ j.queue \cup j.running \subseteq j.wanted
          /\ \A v \in j.queue \cup j.running : notices[e][v] = 0 /\ v \in j.pool
      BY <1>1, <1>2 DEF HandlerSound
    <3>3. QED
      BY <2>3, <2>4, <3>1, <3>2
  <2>7. k.told = {} /\ k.requester \in Users
    BY <1>1, <1>2, <2>3 DEF HandlerSound
  <2>8. HandlerSound(k, n)
    BY <2>3, <2>5, <2>6, <2>7 DEF HandlerSound
  <2>9. QED
    BY <2>1, <2>2, <2>3, <2>8, HandlerMoves
<1>4. CASE /\ InsertFails
           /\ handler' = [handler EXCEPT ![e].running = @ \ {u}, ![e].missed = @ \cup {u}]
  <2> DEFINE k == [j EXCEPT !.running = @ \ {u}, !.missed = @ \cup {u}]
  <2>1. handler' = [handler EXCEPT ![e] = k] /\ notices' = notices
    BY <1>1, <1>4 DEF InsertFails
  <2>2. /\ k \in HandlerRow /\ k.pc = "pool" /\ k.queue = j.queue /\ k.running = j.running \ {u}
        /\ k.told = j.told /\ k.wanted = j.wanted /\ k.pool = j.pool /\ k.requester = j.requester
    BY <1>1, <1>2 DEF HandlerRow
  <2> HIDE DEF k
  <2>3. HandlerSound(k, notices[e])
    BY <1>1, <1>2, <2>2 DEF HandlerSound
  <2>4. QED
    BY <2>1, <2>2, <2>3, HandlerAlone
<1>5. QED
  BY <1>3, <1>4 DEF FinishItem

LEMMA SettledSound ==
  ASSUME FanoutSound, NEW e \in Events, PoolSettled(e)
  PROVE  FanoutSound'
<1> DEFINE j == handler[e]
           more == IF j.requester \notin j.pool /\ Enabled(j.requester, j.kind) THEN {j.requester} ELSE {}
           W == j.wanted \cup more
<1>1. /\ j \in HandlerRow /\ HandlerSound(j, notices[e]) /\ j.pc = "pool"
      /\ j.queue = {} /\ j.running = {} /\ notices' = notices
      /\ handler \in [Events -> HandlerRow] /\ notices[e] \in [Users -> Nat]
  BY DEF FanoutSound, PoolSettled
<1>2. j.requester \in Users /\ j.wanted \in SUBSET Users
  BY <1>1 DEF HandlerSound, HandlerRow
<1>3. handler' = [handler EXCEPT ![e] = [j EXCEPT !.pc = "line", !.line = SetToSeq(more), !.wanted = W]]
  BY <1>1 DEF PoolSettled
<1>4. /\ more \subseteq {j.requester} /\ more \in SUBSET Users /\ W \in SUBSET Users
      /\ \A u \in more : notices[e][u] = 0
  BY <1>1, <1>2 DEF HandlerSound
<1>5. IsFiniteSet(more)
  BY <1>4, FewAreFinite
<1>6. \A u \in Users : notices[e][u] > 0 => u \in W
  BY <1>1 DEF HandlerSound
<1>7. more \subseteq W
  OBVIOUS
<1> HIDE DEF more, W
<1>8. SetToSeq(more) \in Seq(Users) /\ \A i \in DOMAIN SetToSeq(more) : SetToSeq(more)[i] \in more
  BY <1>4, <1>5, Listing
<1>9. \A i \in DOMAIN SetToSeq(more) : SetToSeq(more)[i] \in W /\ notices[e][SetToSeq(more)[i]] = 0
  BY <1>4, <1>7, <1>8
<1>10. QED
  BY <1>1, <1>3, <1>4, <1>6, <1>8, <1>9, LineFormed

LEMMA NextSound ==
  ASSUME FanoutSound, NEW e \in Events, NextInLine(e)
  PROVE  FanoutSound'
<1> DEFINE j == handler[e]
           u == Head(j.line)
<1>1. /\ j \in HandlerRow /\ HandlerSound(j, notices[e]) /\ j.pc = "line" /\ j.line # <<>>
      /\ handler \in [Events -> HandlerRow] /\ notices[e] \in [Users -> Nat]
  BY DEF FanoutSound, NextInLine
<1>2. j.line \in Seq(Users) /\ Tail(j.line) \in Seq(Users) /\ u \in Users
  BY <1>1 DEF HandlerRow
<1>3. u = j.line[1] /\ 1 \in DOMAIN j.line
      /\ \A i \in DOMAIN Tail(j.line) : i + 1 \in DOMAIN j.line /\ Tail(j.line)[i] = j.line[i + 1]
  BY <1>1, <1>2
<1>4. /\ u \in j.wanted /\ (u \notin j.told => notices[e][u] = 0)
      /\ j.queue = {} /\ j.running = {} /\ j.told \in SUBSET Users /\ j.missed \in SUBSET Users
  BY <1>1, <1>3 DEF HandlerSound, HandlerRow
<1> DEFINE s == Tail(j.line)
<1>5. \A i \in DOMAIN s : /\ s[i] \in Users /\ s[i] \in j.wanted
                          /\ s[i] \notin j.told => notices[e][s[i]] = 0
  <2> TAKE i \in DOMAIN s
  <2>1. s[i] = j.line[i + 1] /\ i + 1 \in DOMAIN j.line
    BY <1>3
  <2>2. j.line[i + 1] \in Users
    BY <1>2, <2>1
  <2>3. QED
    BY <1>1, <2>1, <2>2 DEF HandlerSound
<1> HIDE DEF s
<1>6. CASE u \in j.told /\ handler' = [handler EXCEPT ![e].line = Tail(@)] /\ notices' = notices
  <2> DEFINE k == [j EXCEPT !.line = s]
  <2>1. handler' = [handler EXCEPT ![e] = k]
    BY <1>1, <1>6 DEF s
  <2>2. /\ k \in HandlerRow /\ k.pc = "line" /\ k.line = s /\ k.queue = {} /\ k.running = {}
        /\ k.told = j.told /\ k.wanted = j.wanted /\ k.requester = j.requester
    BY <1>1, <1>2, <1>4 DEF HandlerRow, s
  <2> HIDE DEF k
  <2>3. HandlerSound(k, notices[e])
    BY <1>1, <1>5, <2>2 DEF HandlerSound
  <2>4. QED
    BY <1>6, <2>1, <2>2, <2>3, HandlerAlone
<1>7. CASE /\ u \notin j.told /\ Insert(e, u)
           /\ handler' = [handler EXCEPT ![e].line = Tail(@), ![e].told = @ \cup {u}]
  <2> DEFINE k == [j EXCEPT !.line = s, !.told = @ \cup {u}]
             n == [notices[e] EXCEPT ![u] = @ + 1]
  <2>1. handler' = [handler EXCEPT ![e] = k]
    BY <1>1, <1>7 DEF s
  <2>2. notices' = [notices EXCEPT ![e] = n] /\ n \in [Users -> Nat]
    BY <1>1, <1>2, <1>7 DEF Insert
  <2>3. /\ k \in HandlerRow /\ k.pc = "line" /\ k.line = s /\ k.queue = {} /\ k.running = {}
        /\ k.told = j.told \cup {u} /\ k.wanted = j.wanted /\ k.requester = j.requester
    BY <1>1, <1>2, <1>4 DEF HandlerRow, s
  <2>4. n[u] = 1 /\ \A v \in Users : v # u => n[v] = notices[e][v]
    BY <1>1, <1>2, <1>4, <1>7
  <2> HIDE DEF k, n, u
  <2>5. HandlerSound(k, n)
    BY <1>1, <1>4, <1>5, <2>3, <2>4 DEF HandlerSound
  <2>6. QED
    BY <2>1, <2>2, <2>3, <2>5, HandlerMoves
<1>8. CASE /\ InsertFails
           /\ handler' = [handler EXCEPT ![e].line = Tail(@), ![e].missed = @ \cup {u}]
  <2> DEFINE k == [j EXCEPT !.line = s, !.missed = @ \cup {u}]
  <2>1. handler' = [handler EXCEPT ![e] = k] /\ notices' = notices
    BY <1>1, <1>8 DEF s, InsertFails
  <2>2. /\ k \in HandlerRow /\ k.pc = "line" /\ k.line = s /\ k.queue = {} /\ k.running = {}
        /\ k.told = j.told /\ k.wanted = j.wanted /\ k.requester = j.requester
    BY <1>1, <1>2, <1>4 DEF HandlerRow, s
  <2> HIDE DEF k
  <2>3. HandlerSound(k, notices[e])
    BY <1>1, <1>5, <2>2 DEF HandlerSound
  <2>4. QED
    BY <2>1, <2>2, <2>3, HandlerAlone
<1>9. QED
  BY <1>6, <1>7, <1>8 DEF NextInLine

LEMMA EndSound ==
  ASSUME FanoutSound, NEW e \in Events, LineDone(e) \/ ReadFails(e)
  PROVE  FanoutSound'
<1> DEFINE j == handler[e]
           k == [j EXCEPT !.pc = "done"]
<1>1. /\ j \in HandlerRow /\ HandlerSound(j, notices[e]) /\ notices' = notices
      /\ handler' = [handler EXCEPT ![e] = k]
  BY DEF FanoutSound, LineDone, ReadFails
<1>2. j.pc # "none" /\ j.queue = {} /\ j.running = {}
  BY <1>1 DEF HandlerSound, LineDone, ReadFails
<1>3. /\ k \in HandlerRow /\ k.pc = "done" /\ k.queue = {} /\ k.running = {}
      /\ k.wanted = j.wanted /\ k.requester = j.requester
  BY <1>1, <1>2 DEF HandlerRow
<1> HIDE DEF k
<1>4. HandlerSound(k, notices[e])
  BY <1>1, <1>2, <1>3 DEF HandlerSound
<1>5. QED
  BY <1>1, <1>3, <1>4, HandlerAlone

LEMMA FanoutSteps == FanoutSound /\ [FanoutNext]_fanoutVars => FanoutSound'
<1> SUFFICES ASSUME FanoutSound, [FanoutNext]_fanoutVars PROVE FanoutSound'
  OBVIOUS
<1>1. CASE \E e \in Events, kind \in Kinds, r \in Users, a \in Support \cup {Nobody} : Emit(e, kind, r, a)
  BY <1>1, EmitSound
<1>2. CASE \E e \in Events : JobStep(e)
  BY <1>2, ReadSound, SettledSound, NextSound, EndSound, TakeSound, FinishSound DEF JobStep
<1>3. CASE \E e \in Events : ReadFails(e)
  BY <1>3, EndSound
<1>4. CASE \E u \in Users : SwitchAccount(u) \/ \E off \in SUBSET Kinds : UpdatePreferences(u, off)
  BY <1>4 DEF SwitchAccount, UpdatePreferences, FanoutSound
<1>5. CASE UNCHANGED fanoutVars
  BY <1>5 DEF fanoutVars, FanoutSound
<1>6. QED
  BY <1>1, <1>2, <1>3, <1>4, <1>5 DEF FanoutNext

\* The inductive invariant: notifications agree with how far each handler has come.
THEOREM FanoutSoundness == FanoutSpec => []FanoutSound
  BY FanoutStarts, FanoutSteps, PTL DEF FanoutSpec

LEMMA FanoutHolds == FanoutSound => OncePerEvent
  BY DEF FanoutSound, HandlerSound, OncePerEvent

\* However preferences, accounts and failing inserts interleave with a handler, nobody is told
\* of an event twice, nor of one they had opted out of when it asked (runWithConcurrency, the
\* handlers of NotificationsService).
THEOREM OncePerEventCorrect == FanoutSpec => []OncePerEvent
  BY FanoutHolds, FanoutSoundness, PTL

\* Handler j has still to come to u.
Awaits(j, u) ==
  \/ j.pc = "pool" /\ u \in j.queue \cup j.running
  \/ j.pc = "line" /\ \E i \in DOMAIN j.line : j.line[i] = u

\* Whoever was to be told has a notification, or their insert failed, or the handler has
\* still to come to them; and the pool keeps to its limit.
HandlerServes(j, n) ==
  /\ \A u \in j.wanted : n[u] = 1 \/ u \in j.missed \/ Awaits(j, u)
  /\ j.pc \in {"none", "read"} => j.wanted = {}
  /\ \A u \in j.told : n[u] = 1
  /\ IsFiniteSet(j.running) /\ Cardinality(j.running) <= PoolLimit

FanoutServed == \A e \in Events : HandlerServes(handler[e], notices[e])

LEMMA NobodyRuns == IsFiniteSet({}) /\ Cardinality({}) <= PoolLimit
  BY FS_EmptySet, FanoutAssumption

LEMMA ServedStarts == FanoutInit => FanoutServed
<1> SUFFICES ASSUME FanoutInit PROVE FanoutServed
  OBVIOUS
<1>1. Idle.wanted = {} /\ Idle.told = {} /\ Idle.running = {}
  BY DEF Idle
<1>2. \A n : HandlerServes(Idle, n)
  BY <1>1, NobodyRuns DEF HandlerServes
<1>3. \A e \in Events : handler[e] = Idle
  BY DEF FanoutInit
<1>4. QED
  BY <1>2, <1>3 DEF FanoutServed

LEMMA ServedMoves ==
  ASSUME FanoutSound, FanoutServed, NEW e \in Events, NEW k, NEW n,
         handler' = [handler EXCEPT ![e] = k], notices' = [notices EXCEPT ![e] = n], HandlerServes(k, n)
  PROVE  FanoutServed'
<1>1. handler'[e] = k /\ notices'[e] = n
  BY DEF FanoutSound
<1>2. \A d \in Events : d # e => handler'[d] = handler[d] /\ notices'[d] = notices[d]
  BY DEF FanoutSound
<1>3. ASSUME NEW d \in Events PROVE HandlerServes(handler'[d], notices'[d])
  <2>1. CASE d = e
    BY <1>1, <2>1
  <2>2. CASE d # e
    <3>1. HandlerServes(handler[d], notices[d])
      BY DEF FanoutServed
    <3>2. QED
      BY <1>2, <2>2, <3>1
  <2>3. QED
    BY <2>1, <2>2
<1>4. QED
  BY <1>3 DEF FanoutServed

LEMMA ServedAlone ==
  ASSUME FanoutSound, FanoutServed, NEW e \in Events, NEW k,
         handler' = [handler EXCEPT ![e] = k], notices' = notices, HandlerServes(k, notices[e])
  PROVE  FanoutServed'
<1>1. PICK n : n = notices[e]
  OBVIOUS
<1>2. notices' = [notices EXCEPT ![e] = n]
  BY <1>1 DEF FanoutSound
<1>3. HandlerServes(k, n)
  BY <1>1
<1>4. QED
  BY <1>2, <1>3, ServedMoves

LEMMA EmitServes ==
  ASSUME FanoutSound, FanoutServed, NEW e \in Events, NEW kind, NEW r, NEW a, Emit(e, kind, r, a)
  PROVE  FanoutServed'
<1>1. PICK k : k = [Idle EXCEPT !.pc = "read", !.kind = kind, !.requester = r, !.assignee = a]
  OBVIOUS
<1>2. k.wanted = {} /\ k.told = {} /\ k.running = {}
  BY <1>1 DEF Idle
<1>3. HandlerServes(k, notices[e])
  BY <1>2, NobodyRuns DEF HandlerServes
<1>4. handler' = [handler EXCEPT ![e] = k] /\ notices' = notices
  BY <1>1 DEF Emit
<1>5. QED
  BY <1>3, <1>4, ServedAlone

\* A handler turns to its line, which has everyone who is still to be told.
LEMMA LineServes ==
  ASSUME FanoutSound, FanoutServed, NEW e \in Events, NEW s \in Seq(Users), NEW W \in SUBSET Users,
         handler[e].running = {},
         handler' = [handler EXCEPT ![e] = [handler[e] EXCEPT !.pc = "line", !.line = s, !.wanted = W]],
         notices' = notices,
         \A u \in W : notices[e][u] = 1 \/ u \in handler[e].missed \/ \E i \in DOMAIN s : s[i] = u
  PROVE  FanoutServed'
<1>1. PICK k : k = [handler[e] EXCEPT !.pc = "line", !.line = s, !.wanted = W]
  OBVIOUS
<1>2. handler[e] \in HandlerRow /\ HandlerServes(handler[e], notices[e])
  BY DEF FanoutSound, FanoutServed
<1>3. /\ k.pc = "line" /\ k.line = s /\ k.wanted = W /\ k.running = {}
      /\ k.missed = handler[e].missed /\ k.told = handler[e].told
  BY <1>1, <1>2 DEF HandlerRow
<1>4. HandlerServes(k, notices[e])
  BY <1>2, <1>3, NobodyRuns DEF HandlerServes, Awaits
<1>5. QED
  BY <1>1, <1>4, ServedAlone

\* The line has the members of a set of two at most, all to be told.
LEMMA ListServes ==
  ASSUME FanoutSound, FanoutServed, NEW e \in Events, NEW W \in SUBSET Users, NEW a, NEW b,
         W \subseteq {a, b}, handler[e].running = {},
         handler' = [handler EXCEPT ![e] = [handler[e] EXCEPT !.pc = "line", !.line = SetToSeq(W), !.wanted = W]],
         notices' = notices
  PROVE  FanoutServed'
<1>1. IsFiniteSet(W)
  BY FewAreFinite
<1>2. SetToSeq(W) \in Seq(W) /\ \A x \in W : \E i \in DOMAIN SetToSeq(W) : SetToSeq(W)[i] = x
  BY <1>1, Listing, ListsAll
<1>3. PICK k : k = [handler[e] EXCEPT !.pc = "line", !.line = SetToSeq(W), !.wanted = W]
  OBVIOUS
<1>4. handler[e] \in HandlerRow /\ HandlerServes(handler[e], notices[e])
  BY DEF FanoutSound, FanoutServed
<1>5. /\ k.pc = "line" /\ k.line = SetToSeq(W) /\ k.wanted = W /\ k.running = {}
      /\ k.missed = handler[e].missed /\ k.told = handler[e].told
  BY <1>3, <1>4 DEF HandlerRow
<1>6. \A u \in W : Awaits(k, u)
  BY <1>2, <1>5 DEF Awaits
<1>7. HandlerServes(k, notices[e])
  BY <1>4, <1>5, <1>6, NobodyRuns DEF HandlerServes
<1>8. QED
  BY <1>3, <1>7, ServedAlone

LEMMA ReadServes ==
  ASSUME FanoutSound, FanoutServed, NEW e \in Events, ReadAudience(e)
  PROVE  FanoutServed'
<1> DEFINE support == Support \cap enrolled
           willing(S) == {u \in S : Enabled(u, handler[e].kind)}
<1>1. PICK j : j = handler[e]
  OBVIOUS
<1>2. /\ j \in HandlerRow /\ HandlerSound(j, notices[e]) /\ HandlerServes(j, notices[e])
      /\ j.pc = "read" /\ notices' = notices
  BY <1>1 DEF FanoutSound, FanoutServed, ReadAudience
<1>3. /\ j.queue = {} /\ j.running = {} /\ j.told = {} /\ j.requester \in Users
      /\ j.kind \in Kinds /\ j.assignee \in Users \cup {Nobody}
  BY <1>2 DEF HandlerSound, HandlerRow
<1>4. CASE j.kind = "ticket.created"
  <2>1. PICK k : k = [j EXCEPT !.pc = "pool", !.pool = support, !.queue = willing(support), !.wanted = willing(support)]
    OBVIOUS
  <2>2. handler' = [handler EXCEPT ![e] = k]
    BY <1>1, <1>4, <2>1 DEF ReadAudience
  <2>3. k.pc = "pool" /\ k.wanted = k.queue /\ k.running = {} /\ k.told = {}
    BY <1>2, <1>3, <2>1 DEF HandlerRow
  <2>4. HandlerServes(k, notices[e])
    BY <2>3, NobodyRuns DEF HandlerServes, Awaits
  <2>5. QED
    BY <1>2, <2>2, <2>4, ServedAlone
<1>5. CASE j.kind = "ticket.assigned"
  <2>1. PICK W : W = willing({j.assignee})
    OBVIOUS
  <2>2. W \in SUBSET Users /\ W \subseteq {j.assignee, j.requester}
    BY <1>2, <1>3, <1>5, <2>1 DEF HandlerSound
  <2>3. handler' = [handler EXCEPT ![e] = [handler[e] EXCEPT !.pc = "line", !.line = SetToSeq(W), !.wanted = W]]
    BY <1>1, <1>5, <2>1 DEF ReadAudience
  <2>4. QED
    BY <1>1, <1>2, <1>3, <2>2, <2>3, ListServes
<1>6. CASE j.kind = "ticket.priority.updated"
  <2>1. PICK W : W = willing(Addressed(j))
    OBVIOUS
  <2>2. W \in SUBSET Users /\ W \subseteq {j.assignee, j.requester}
    BY <1>3, <2>1 DEF Addressed
  <2>3. handler' = [handler EXCEPT ![e] = [handler[e] EXCEPT !.pc = "line", !.line = SetToSeq(W), !.wanted = W]]
    BY <1>1, <1>6, <2>1 DEF ReadAudience
  <2>4. QED
    BY <1>1, <1>2, <1>3, <2>2, <2>3, ListServes
<1>7. CASE j.kind = "ticket.status.updated"
  <2>1. PICK W : W = willing(Addressed(j))
    OBVIOUS
  <2>2. W \subseteq Users /\ W \subseteq {j.assignee, j.requester}
    BY <1>3, <2>1 DEF Addressed
  <2>3. PICK s : s = Turn(j.assignee, W) \o Turn(j.requester, W)
    OBVIOUS
  <2>4. handler' = [handler EXCEPT ![e] = [handler[e] EXCEPT !.pc = "line", !.line = s, !.wanted = W]]
    BY <1>1, <1>7, <2>1, <2>3 DEF ReadAudience
  <2>5. s \in Seq(Users)
    <3>1. Turn(j.assignee, W) \in Seq(Users) /\ Turn(j.requester, W) \in Seq(Users)
      BY <2>2 DEF Turn
    <3>2. QED
      BY <2>3, <3>1
  <2>6. ASSUME NEW u \in W PROVE \E i \in DOMAIN s : s[i] = u
    <3>1. CASE j.assignee \in W
      <4>1. s = <<j.assignee>> \o Turn(j.requester, W)
        BY <2>3, <3>1 DEF Turn
      <4>2. j.requester \in W => s = <<j.assignee>> \o <<j.requester>>
        BY <4>1 DEF Turn
      <4>3. CASE u = j.assignee
        <5>1. Turn(j.requester, W) \in Seq(Users)
          BY <2>2 DEF Turn
        <5>2. <<j.assignee>> \in Seq(Users) /\ Len(<<j.assignee>>) = 1 /\ <<j.assignee>>[1] = u
          BY <2>2, <4>3
        <5>3. 1 \in DOMAIN s /\ s[1] = u
          BY <4>1, <5>1, <5>2
        <5>4. QED
          BY <5>3
      <4>4. CASE u = j.requester
        <5>1. s = <<j.assignee>> \o <<j.requester>>
          BY <4>2, <4>4
        <5>2. 2 \in DOMAIN s /\ s[2] = u
          BY <5>1, <4>4
        <5>3. QED
          BY <5>2
      <4>5. QED
        BY <2>2, <4>3, <4>4
    <3>2. CASE j.assignee \notin W
      <4>1. u = j.requester
        BY <2>2, <3>2
      <4>2. s = <<j.requester>>
        BY <2>3, <3>2, <4>1 DEF Turn
      <4>3. 1 \in DOMAIN s /\ s[1] = u
        BY <4>1, <4>2
      <4>4. QED
        BY <4>3
    <3>3. QED
      BY <3>1, <3>2
  <2>7. QED
    BY <1>1, <1>2, <1>3, <2>2, <2>4, <2>5, <2>6, LineServes
<1>8. QED
  BY <1>3, <1>4, <1>5, <1>6, <1>7 DEF Kinds

LEMMA TakeServes ==
  ASSUME FanoutSound, FanoutServed, NEW e \in Events, NEW u \in Users, TakeItem(e, u)
  PROVE  FanoutServed'
<1>1. PICK j : j = handler[e]
  OBVIOUS
<1>2. /\ j \in HandlerRow /\ HandlerServes(j, notices[e]) /\ j.pc = "pool" /\ u \in j.queue
      /\ Cardinality(j.running) < PoolLimit /\ notices' = notices
  BY <1>1 DEF FanoutSound, FanoutServed, TakeItem
<1>3. PICK k : k = [j EXCEPT !.queue = @ \ {u}, !.running = @ \cup {u}]
  OBVIOUS
<1>4. handler' = [handler EXCEPT ![e] = k]
  BY <1>1, <1>3 DEF TakeItem, FanoutSound
<1>5. /\ k.pc = "pool" /\ k.queue = j.queue \ {u} /\ k.running = j.running \cup {u}
      /\ k.told = j.told /\ k.wanted = j.wanted /\ k.missed = j.missed
  BY <1>2, <1>3 DEF HandlerRow
<1>6. IsFiniteSet(k.running) /\ Cardinality(k.running) <= PoolLimit
  <2>1. IsFiniteSet(j.running)
    BY <1>2 DEF HandlerServes
  <2>2. Cardinality(j.running) \in Nat
    BY <2>1, FS_CardinalityType
  <2>3. PICK R : R = j.running
    OBVIOUS
  <2>4. IsFiniteSet(R)
    BY <2>1, <2>3
  <2>5. /\ IsFiniteSet(R \cup {u})
        /\ Cardinality(R \cup {u}) = IF u \in R THEN Cardinality(R) ELSE Cardinality(R) + 1
    BY <2>4, FS_AddElement
  <2>6. k.running = R \cup {u} /\ Cardinality(R) \in Nat /\ Cardinality(R) < PoolLimit
    BY <1>2, <1>5, <2>2, <2>3
  <2>7. QED
    BY <2>5, <2>6, FanoutAssumption
<1>7. HandlerServes(k, notices[e])
  BY <1>2, <1>5, <1>6 DEF HandlerServes, Awaits
<1>8. QED
  BY <1>2, <1>4, <1>7, ServedAlone

LEMMA FinishServes ==
  ASSUME FanoutSound, FanoutServed, NEW e \in Events, NEW u \in Users, FinishItem(e, u)
  PROVE  FanoutServed'
<1>1. PICK j : j = handler[e]
  OBVIOUS
<1>2. /\ j \in HandlerRow /\ HandlerSound(j, notices[e]) /\ HandlerServes(j, notices[e]) /\ u \in j.running
      /\ notices[e] \in [Users -> Nat]
  BY <1>1 DEF FanoutSound, FanoutServed, FinishItem
<1>3. j.pc = "pool" /\ notices[e][u] = 0 /\ j.told = {} /\ j.wanted \subseteq Users
  BY <1>2 DEF HandlerSound, HandlerRow
<1>4. IsFiniteSet(j.running \ {u}) /\ Cardinality(j.running \ {u}) <= PoolLimit
  <2>1. IsFiniteSet(j.running) /\ Cardinality(j.running) <= PoolLimit
    BY <1>2 DEF HandlerServes
  <2>2. Cardinality(j.running) \in Nat
    BY <2>1, FS_CardinalityType
  <2>3. IsFiniteSet(j.running \ {u}) /\ Cardinality(j.running \ {u}) = Cardinality(j.running) - 1
    BY <1>2, <2>1, FS_RemoveElement
  <2>4. QED
    BY <2>1, <2>2, <2>3, FanoutAssumption
<1>5. CASE Insert(e, u) /\ handler' = [handler EXCEPT ![e].running = @ \ {u}]
  <2>1. PICK k : k = [j EXCEPT !.running = @ \ {u}]
    OBVIOUS
  <2>2. PICK n : n = [notices[e] EXCEPT ![u] = @ + 1]
    OBVIOUS
  <2>3. handler' = [handler EXCEPT ![e] = k] /\ notices' = [notices EXCEPT ![e] = n]
    BY <1>1, <1>5, <2>1, <2>2 DEF Insert, FanoutSound
  <2>4. /\ k.pc = "pool" /\ k.queue = j.queue /\ k.running = j.running \ {u}
        /\ k.told = j.told /\ k.wanted = j.wanted /\ k.missed = j.missed
    BY <1>2, <1>3, <2>1 DEF HandlerRow
  <2>5. n[u] = 1 /\ \A v \in Users : v # u => n[v] = notices[e][v]
    BY <1>2, <1>3, <2>2
  <2>6. HandlerServes(k, n)
    BY <1>2, <1>3, <1>4, <2>4, <2>5 DEF HandlerServes, Awaits
  <2>7. QED
    BY <2>3, <2>6, ServedMoves
<1>6. CASE /\ InsertFails
           /\ handler' = [handler EXCEPT ![e].running = @ \ {u}, ![e].missed = @ \cup {u}]
  <2>1. PICK k : k = [j EXCEPT !.running = @ \ {u}, !.missed = @ \cup {u}]
    OBVIOUS
  <2>2. handler' = [handler EXCEPT ![e] = k] /\ notices' = notices
    BY <1>1, <1>6, <2>1 DEF InsertFails, FanoutSound
  <2>3. /\ k.pc = "pool" /\ k.queue = j.queue /\ k.running = j.running \ {u}
        /\ k.told = j.told /\ k.wanted = j.wanted /\ k.missed = j.missed \cup {u}
    BY <1>2, <1>3, <2>1 DEF HandlerRow
  <2>4. HandlerServes(k, notices[e])
    BY <1>2, <1>3, <1>4, <2>3 DEF HandlerServes, Awaits
  <2>5. QED
    BY <2>2, <2>4, ServedAlone
<1>7. QED
  BY <1>5, <1>6 DEF FinishItem

LEMMA SettledServes ==
  ASSUME FanoutSound, FanoutServed, NEW e \in Events, PoolSettled(e)
  PROVE  FanoutServed'
<1>1. PICK j : j = handler[e]
  OBVIOUS
<1>2. /\ j \in HandlerRow /\ HandlerSound(j, notices[e]) /\ HandlerServes(j, notices[e]) /\ j.pc = "pool"
      /\ j.queue = {} /\ j.running = {} /\ notices' = notices
  BY <1>1 DEF FanoutSound, FanoutServed, PoolSettled
<1>3. j.requester \in Users /\ j.wanted \subseteq Users
  BY <1>2 DEF HandlerSound, HandlerRow
<1>4. PICK more : more = IF j.requester \notin j.pool /\ Enabled(j.requester, j.kind) THEN {j.requester} ELSE {}
  OBVIOUS
<1>5. more \subseteq {j.requester, j.requester}
  BY <1>4
<1>6. IsFiniteSet(more)
  BY <1>5, FewAreFinite
<1>7. SetToSeq(more) \in Seq(more) /\ \A x \in more : \E i \in DOMAIN SetToSeq(more) : SetToSeq(more)[i] = x
  BY <1>6, Listing, ListsAll
<1>8. PICK s : s = SetToSeq(more)
  OBVIOUS
<1>9. PICK W : W = j.wanted \cup more
  OBVIOUS
<1>10. s \in Seq(Users) /\ W \in SUBSET Users
  BY <1>3, <1>5, <1>7, <1>8, <1>9
<1>11. handler' = [handler EXCEPT ![e] = [handler[e] EXCEPT !.pc = "line", !.line = s, !.wanted = W]]
  BY <1>1, <1>2, <1>4, <1>8, <1>9 DEF PoolSettled, FanoutSound
<1>12. ASSUME NEW u \in W PROVE notices[e][u] = 1 \/ u \in handler[e].missed \/ \E i \in DOMAIN s : s[i] = u
  <2>1. CASE u \in more
    BY <1>7, <1>8, <2>1
  <2>2. CASE u \in j.wanted
    <3>1. ~Awaits(j, u)
      BY <1>2 DEF Awaits
    <3>2. QED
      BY <1>1, <1>2, <2>2, <3>1 DEF HandlerServes
  <2>3. QED
    BY <1>9, <2>1, <2>2
<1>13. QED
  BY <1>1, <1>2, <1>10, <1>11, <1>12, LineServes

LEMMA NextServes ==
  ASSUME FanoutSound, FanoutServed, NEW e \in Events, NextInLine(e)
  PROVE  FanoutServed'
<1>1. PICK j : j = handler[e]
  OBVIOUS
<1>2. /\ j \in HandlerRow /\ HandlerSound(j, notices[e]) /\ HandlerServes(j, notices[e]) /\ j.pc = "line"
      /\ j.line # <<>> /\ notices[e] \in [Users -> Nat]
  BY <1>1 DEF FanoutSound, FanoutServed, NextInLine
<1>3. PICK u : u = Head(j.line)
  OBVIOUS
<1>4. PICK s : s = Tail(j.line)
  OBVIOUS
<1>5. j.line \in Seq(Users) /\ j.wanted \subseteq Users /\ j.told \subseteq Users
  BY <1>2 DEF HandlerRow
<1>6. u = j.line[1] /\ 1 \in DOMAIN j.line /\ u \in Users
  BY <1>2, <1>3, <1>5
<1>7. \A v : (\E i \in DOMAIN j.line : j.line[i] = v) => v = u \/ \E i \in DOMAIN s : s[i] = v
  <2> SUFFICES ASSUME NEW v, NEW i \in DOMAIN j.line, j.line[i] = v, v # u PROVE \E d \in DOMAIN s : s[d] = v
    OBVIOUS
  <2>1. i # 1
    BY <1>6
  <2>2. i - 1 \in DOMAIN s /\ s[i - 1] = j.line[i]
    BY <1>2, <1>4, <1>5, <2>1
  <2>3. QED
    BY <2>2
<1>8. j.running = {}
  BY <1>2 DEF HandlerSound
<1>9. u \notin j.told => notices[e][u] = 0
  BY <1>2, <1>6 DEF HandlerSound
<1>10. CASE u \in j.told /\ handler' = [handler EXCEPT ![e].line = Tail(@)] /\ notices' = notices
  <2>1. PICK k : k = [j EXCEPT !.line = s]
    OBVIOUS
  <2>2. handler' = [handler EXCEPT ![e] = k]
    BY <1>1, <1>4, <1>10, <2>1 DEF FanoutSound
  <2>3. /\ k.pc = "line" /\ k.line = s /\ k.running = {}
        /\ k.told = j.told /\ k.wanted = j.wanted /\ k.missed = j.missed
    BY <1>2, <1>8, <2>1 DEF HandlerRow
  <2>4. \A v \in j.wanted : notices[e][v] = 1 \/ v \in j.missed \/ Awaits(k, v)
    BY <1>2, <1>7, <1>10, <2>3 DEF HandlerServes, Awaits
  <2>5. HandlerServes(k, notices[e])
    BY <1>2, <2>3, <2>4, NobodyRuns DEF HandlerServes
  <2>6. QED
    BY <1>10, <2>2, <2>5, ServedAlone
<1>11. CASE /\ u \notin j.told /\ Insert(e, u)
            /\ handler' = [handler EXCEPT ![e].line = Tail(@), ![e].told = @ \cup {u}]
  <2>1. PICK k : k = [j EXCEPT !.line = s, !.told = @ \cup {u}]
    OBVIOUS
  <2>2. PICK n : n = [notices[e] EXCEPT ![u] = @ + 1]
    OBVIOUS
  <2>3. handler' = [handler EXCEPT ![e] = k] /\ notices' = [notices EXCEPT ![e] = n]
    BY <1>1, <1>4, <1>11, <2>1, <2>2 DEF Insert, FanoutSound
  <2>4. /\ k.pc = "line" /\ k.line = s /\ k.running = {}
        /\ k.told = j.told \cup {u} /\ k.wanted = j.wanted /\ k.missed = j.missed
    BY <1>2, <1>8, <2>1 DEF HandlerRow
  <2>5. n[u] = 1 /\ \A v \in Users : v # u => n[v] = notices[e][v]
    BY <1>2, <1>6, <1>9, <1>11, <2>2
  <2>6. \A v \in j.wanted : n[v] = 1 \/ v \in j.missed \/ Awaits(k, v)
    <3> TAKE v \in j.wanted
    <3>1. notices[e][v] = 1 \/ v \in j.missed \/ \E i \in DOMAIN j.line : j.line[i] = v
      BY <1>2 DEF HandlerServes, Awaits
    <3>2. v \in Users
      BY <1>5
    <3>3. QED
      BY <1>7, <2>4, <2>5, <3>1, <3>2 DEF Awaits
  <2>7. \A v \in k.told : n[v] = 1
    BY <1>2, <1>5, <2>4, <2>5 DEF HandlerServes
  <2>8. HandlerServes(k, n)
    BY <2>4, <2>6, <2>7, NobodyRuns DEF HandlerServes
  <2>9. QED
    BY <2>3, <2>8, ServedMoves
<1>12. CASE /\ InsertFails
            /\ handler' = [handler EXCEPT ![e].line = Tail(@), ![e].missed = @ \cup {u}]
  <2>1. PICK k : k = [j EXCEPT !.line = s, !.missed = @ \cup {u}]
    OBVIOUS
  <2>2. handler' = [handler EXCEPT ![e] = k] /\ notices' = notices
    BY <1>1, <1>4, <1>12, <2>1 DEF InsertFails, FanoutSound
  <2>3. /\ k.pc = "line" /\ k.line = s /\ k.running = {}
        /\ k.told = j.told /\ k.wanted = j.wanted /\ k.missed = j.missed \cup {u}
    BY <1>2, <1>8, <2>1 DEF HandlerRow
  <2>4. \A v \in j.wanted : notices[e][v] = 1 \/ v \in k.missed \/ Awaits(k, v)
    <3> TAKE v \in j.wanted
    <3>1. notices[e][v] = 1 \/ v \in j.missed \/ \E i \in DOMAIN j.line : j.line[i] = v
      BY <1>2 DEF HandlerServes, Awaits
    <3>2. QED
      BY <1>7, <2>3, <3>1 DEF Awaits
  <2>5. HandlerServes(k, notices[e])
    BY <1>2, <2>3, <2>4, NobodyRuns DEF HandlerServes
  <2>6. QED
    BY <2>2, <2>5, ServedAlone
<1>13. QED
  BY <1>3, <1>1, <1>10, <1>11, <1>12 DEF NextInLine

LEMMA EndServes ==
  ASSUME FanoutSound, FanoutServed, NEW e \in Events, LineDone(e) \/ ReadFails(e)
  PROVE  FanoutServed'
<1>1. PICK j : j = handler[e]
  OBVIOUS
<1>2. /\ j \in HandlerRow /\ HandlerSound(j, notices[e]) /\ HandlerServes(j, notices[e]) /\ notices' = notices
  BY <1>1 DEF FanoutSound, FanoutServed, LineDone, ReadFails
<1>3. PICK k : k = [j EXCEPT !.pc = "done"]
  OBVIOUS
<1>4. handler' = [handler EXCEPT ![e] = k]
  BY <1>1, <1>3 DEF LineDone, ReadFails
<1>5. /\ k.pc = "done" /\ k.running = j.running /\ k.told = j.told /\ k.wanted = j.wanted /\ k.missed = j.missed
  BY <1>2, <1>3 DEF HandlerRow
<1>6. j.pc = "read" \/ \A u \in j.wanted : ~Awaits(j, u)
  BY <1>1 DEF LineDone, ReadFails, Awaits
<1>7. \A u \in j.wanted : notices[e][u] = 1 \/ u \in j.missed
  BY <1>2, <1>6 DEF HandlerServes
<1>8. HandlerServes(k, notices[e])
  BY <1>2, <1>5, <1>7 DEF HandlerServes
<1>9. QED
  BY <1>2, <1>4, <1>8, ServedAlone

LEMMA ServedSteps == FanoutSound /\ FanoutServed /\ [FanoutNext]_fanoutVars => FanoutServed'
<1> SUFFICES ASSUME FanoutSound, FanoutServed, [FanoutNext]_fanoutVars PROVE FanoutServed'
  OBVIOUS
<1>1. CASE \E e \in Events, kind \in Kinds, r \in Users, a \in Support \cup {Nobody} : Emit(e, kind, r, a)
  BY <1>1, EmitServes
<1>2. CASE \E e \in Events : JobStep(e)
  BY <1>2, ReadServes, SettledServes, NextServes, EndServes, TakeServes, FinishServes DEF JobStep
<1>3. CASE \E e \in Events : ReadFails(e)
  BY <1>3, EndServes
<1>4. CASE \E u \in Users : SwitchAccount(u) \/ \E off \in SUBSET Kinds : UpdatePreferences(u, off)
  BY <1>4 DEF SwitchAccount, UpdatePreferences, FanoutServed
<1>5. CASE UNCHANGED fanoutVars
  BY <1>5 DEF fanoutVars, FanoutServed
<1>6. QED
  BY <1>1, <1>2, <1>3, <1>4, <1>5 DEF FanoutNext

LEMMA ServedHolds == FanoutServed => (\A e \in Events : NobodyLeftOut(e))
<1> SUFFICES ASSUME FanoutServed, NEW e \in Events
             PROVE  /\ Cardinality(handler[e].running) <= PoolLimit
                    /\ handler[e].pc = "done" =>
                         \A u \in handler[e].wanted : notices[e][u] = 1 \/ u \in handler[e].missed
  BY DEF NobodyLeftOut
<1>1. HandlerServes(handler[e], notices[e])
  BY DEF FanoutServed
<1>2. QED
  BY <1>1 DEF HandlerServes, Awaits

\* The inductive invariant: whoever is to be told has been, or their insert failed, or the
\* handler has still to come to them.
THEOREM FanoutServes == FanoutSpec => [](FanoutSound /\ FanoutServed)
  BY FanoutStarts, FanoutSteps, ServedStarts, ServedSteps, PTL DEF FanoutSpec

\* For any pool limit, and whatever inserts and reads fail: a failed insert costs nobody else
\* their notification, and the pool keeps to its limit (the second half of EveryoneTold).
THEOREM NobodyLeftOutCorrect == FanoutSpec => [](\A e \in Events : NobodyLeftOut(e))
  BY FanoutServes, ServedHolds, PTL

\* Accounts and preferences keep their types.
FanoutTyped == enrolled \subseteq Users /\ optedOut \in [Users -> SUBSET Kinds]

LEMMA FanoutTypeSteps == FanoutTyped /\ [FanoutNext]_fanoutVars => FanoutTyped'
<1> SUFFICES ASSUME FanoutTyped, [FanoutNext]_fanoutVars PROVE FanoutTyped'
  OBVIOUS
<1>1. CASE \E e \in Events : JobStep(e) \/ ReadFails(e)
           \/ \E kind \in Kinds, r \in Users, a \in Support \cup {Nobody} : Emit(e, kind, r, a)
  <2>1. UNCHANGED <<enrolled, optedOut>>
    BY <1>1 DEF JobStep, ReadAudience, PoolSettled, NextInLine, LineDone, TakeItem, FinishItem, ReadFails, Emit
  <2>2. QED
    BY <2>1 DEF FanoutTyped
<1>2. ASSUME NEW u \in Users, SwitchAccount(u) PROVE FanoutTyped'
  BY <1>2 DEF SwitchAccount, FanoutTyped
<1>3. ASSUME NEW u \in Users, NEW off \in SUBSET Kinds, UpdatePreferences(u, off) PROVE FanoutTyped'
  BY <1>3 DEF UpdatePreferences, FanoutTyped
<1>4. CASE UNCHANGED fanoutVars
  BY <1>4 DEF fanoutVars, FanoutTyped
<1>5. QED
  BY <1>1, <1>2, <1>3, <1>4 DEF FanoutNext

LEMMA FanoutTypesHold == FanoutSound /\ FanoutTyped => FanoutTypeOK
<1> SUFFICES ASSUME FanoutSound, FanoutTyped PROVE FanoutTypeOK
  OBVIOUS
<1>1. ASSUME NEW e \in Events
      PROVE  /\ handler[e].pc \in {"none", "read", "pool", "line", "done"}
             /\ handler[e].queue \cup handler[e].running \cup handler[e].told \cup handler[e].missed \subseteq Users
             /\ notices[e] \in [Users -> Nat]
  BY DEF FanoutSound, HandlerRow
<1>2. QED
  BY <1>1 DEF FanoutTypeOK, FanoutTyped

LEMMA FanoutTypeStarts == FanoutInit => FanoutTyped
  BY DEF FanoutInit, FanoutTyped

\* The variables of the fan-out have their types.
THEOREM FanoutTypeCorrect == FanoutSpec => []FanoutTypeOK
  BY FanoutStarts, FanoutSteps, FanoutTypeStarts, FanoutTypeSteps, FanoutTypesHold, PTL DEF FanoutSpec

-------------------------------------------------------------------------------
(* The bot.                                                                 *)

CallRow == [pc : {"none", "write", "start", "token"}, gen : Nat,
            token : BotTokens \cup {Nil, Keep}, restart : BOOLEAN]

LoopRow == [pc : {"none", "entry", "fetch", "handle", "link", "check", "wait", "ended"},
            token : BotTokens \cup {Nil}, offset : Nat, batch : SUBSET Nat,
            user : (Admins \X Chats) \cup {Nil}]

RowsSound ==
  /\ stored \in BotTokens \cup {Nil}
  /\ call \in [Callers -> CallRow]
  /\ loop \in [Generations -> LoopRow]

FieldsSound ==
  /\ polling \in BOOLEAN /\ generation \in Nat /\ failures \in Nat /\ passed \in Nat
  /\ pollTimeout \in Generations \cup {Nil}

\* A code belongs to whom it was made for, and messages carry codes that were made.
CodesSound ==
  /\ messages \in Seq([chat : Chats, code : Nat])
  /\ issued \in Seq(Admins)
  /\ codeLive \subseteq Admins
  /\ code \in [Admins -> DOMAIN issued \cup {Nil}]
  /\ \A a \in Admins : code[a] # Nil => issued[code[a]] = a
  /\ \A i \in DOMAIN messages : messages[i].code \in DOMAIN issued

\* Chat c has sent a code made for a.
Vouched(a, c) == \E i \in DOMAIN messages : messages[i].chat = c /\ issued[messages[i].code] = a

\* Loops handle messages that were sent, and are about to link, or have linked, chats
\* that sent the account's code.
LinksSound ==
  /\ linked \in [Admins -> Chats \cup {Nil}]
  /\ \A a \in Admins : linked[a] # Nil => Vouched(a, linked[a])
  /\ \A g \in Generations :
       /\ loop[g].batch \subseteq DOMAIN messages
       /\ loop[g].pc = "link" =>
            loop[g].user \in Admins \X Chats /\ Vouched(loop[g].user[1], loop[g].user[2])

\* A save that sends a token starts the bot anew; generations still to come have no loop.
CallsSound ==
  \A a \in Callers :
    /\ call[a].pc = "token" => call[a].gen \in 1 .. generation
    /\ call[a].pc = "write" /\ call[a].token # Keep => call[a].restart

LoopsSound ==
  /\ \A g \in Generations : g > generation => loop[g].pc = "none"
  /\ pollTimeout # Nil => loop[pollTimeout].pc # "none"

\* The current loop has the stored token, or a start is on its way.
TokenSound ==
  \A g \in Generations : g = generation /\ loop[g].pc # "none" =>
    loop[g].token = stored \/ \E a \in Callers : call[a].pc = "start"

BotSound == RowsSound /\ FieldsSound /\ CodesSound /\ LinksSound /\ CallsSound /\ LoopsSound /\ TokenSound

LEMMA Element ==
  ASSUME NEW R, NEW s \in Seq(R), NEW i \in DOMAIN s
  PROVE  s[i] \in R
OBVIOUS

LEMMA BotStarts == BotInit => BotSound
<1> SUFFICES ASSUME BotInit PROVE BotSound
  OBVIOUS
<1>1. NoLoop \in LoopRow /\ NoLoop.pc = "none" /\ NoLoop.batch = {}
  BY DEF NoLoop, LoopRow
<1>2. NoCall \in CallRow /\ [NoCall EXCEPT !.pc = "start"] \in CallRow
  BY DEF NoCall, CallRow
<1>3. RowsSound /\ FieldsSound
  BY <1>1, <1>2 DEF BotInit, RowsSound, FieldsSound
<1>4. CodesSound
  BY DEF BotInit, CodesSound
<1>5. LinksSound /\ LoopsSound /\ TokenSound
  BY <1>1, BotAssumption DEF BotInit, LinksSound, LoopsSound, TokenSound
<1>6. CallsSound
  BY DEF BotInit, CallsSound, NoCall
<1>7. QED
  BY <1>3, <1>4, <1>5, <1>6 DEF BotSound

\* The step of one call.
LEMMA CallMoves ==
  ASSUME RowsSound, NEW a \in Callers, NEW k \in CallRow, call' = [call EXCEPT ![a] = k]
  PROVE  /\ call' \in [Callers -> CallRow] /\ call'[a] = k
         /\ \A b \in Callers : b # a => call'[b] = call[b]
BY DEF RowsSound

\* The step of one loop.
LEMMA LoopMoves ==
  ASSUME RowsSound, NEW g \in Generations, NEW k \in LoopRow, loop' = [loop EXCEPT ![g] = k]
  PROVE  /\ loop' \in [Generations -> LoopRow] /\ loop'[g] = k
         /\ \A h \in Generations : h # g => loop'[h] = loop[h]
BY DEF RowsSound

\* What a call does not touch.
LEMMA LinksKept ==
  ASSUME LinksSound, UNCHANGED <<linked, messages, issued>>, 
         \A g \in Generations : /\ loop'[g].batch \subseteq loop[g].batch
                                /\ loop'[g].pc = "link" => loop[g].pc = "link" /\ loop'[g].user = loop[g].user
  PROVE  LinksSound'
BY DEF LinksSound, Vouched

LEMMA ConfigReadSound ==
  ASSUME BotSound, NEW a \in Editors, NEW t \in BotTokens \cup {Nil, Keep}, NEW group \in BOOLEAN,
         ConfigRead(a, t, group)
  PROVE  BotSound'
<1> DEFINE k == [pc |-> "write", gen |-> 0, token |-> t, restart |-> t # Keep \/ group]
<1>1. a \in Callers /\ k \in CallRow /\ k.pc = "write" /\ (k.token # Keep => k.restart)
  BY DEF Callers, CallRow
<1>2. /\ call' = [call EXCEPT ![a] = k] /\ call[a].pc = "none"
      /\ UNCHANGED <<stored, serviceVars, messages, passed, accountVars>>
  BY DEF ConfigRead
<1> HIDE DEF k
<1>3. /\ call' \in [Callers -> CallRow] /\ call'[a] = k
      /\ \A b \in Callers : b # a => call'[b] = call[b]
  BY <1>1, <1>2, CallMoves DEF BotSound
<1>4. RowsSound' /\ FieldsSound' /\ CodesSound' /\ LoopsSound'
  BY <1>2, <1>3 DEF BotSound, RowsSound, FieldsSound, CodesSound, LoopsSound, serviceVars, accountVars
<1>5. LinksSound'
  BY <1>2 DEF BotSound, LinksSound, Vouched, serviceVars, accountVars
<1>6. CallsSound'
  BY <1>1, <1>2, <1>3 DEF BotSound, CallsSound, serviceVars
<1>7. (\E b \in Callers : call[b].pc = "start") => \E b \in Callers : call'[b].pc = "start"
  BY <1>2, <1>3
<1>8. TokenSound'
  BY <1>2, <1>7 DEF BotSound, TokenSound, serviceVars
<1>9. QED
  BY <1>4, <1>5, <1>6, <1>8 DEF BotSound

LEMMA ConfigWriteSound ==
  ASSUME BotSound, NEW a \in Callers, ConfigWrite(a)
  PROVE  BotSound'
<1>1. PICK k \in CallRow :
        /\ call' = [call EXCEPT ![a] = k] /\ k.pc \in {"none", "start"}
        /\ stored' # stored => k.pc = "start"
        /\ stored' \in BotTokens \cup {Nil}
  <2>1. NoCall \in CallRow /\ NoCall.pc = "none"
    BY DEF NoCall, CallRow
  <2>2. call[a] \in CallRow /\ stored \in BotTokens \cup {Nil} /\ call[a].pc = "write"
    BY DEF BotSound, RowsSound, ConfigWrite
  <2>3. [call[a] EXCEPT !.pc = "start"] \in CallRow /\ [call[a] EXCEPT !.pc = "start"].pc = "start"
    BY <2>2 DEF CallRow
  <2>4. CASE call' = [call EXCEPT ![a] = NoCall] /\ stored' = stored
    BY <2>1, <2>2, <2>4
  <2>5. CASE /\ stored' = IF call[a].token = Keep THEN stored ELSE call[a].token
             /\ call' = [call EXCEPT ![a] = IF call[a].restart THEN [call[a] EXCEPT !.pc = "start"] ELSE NoCall]
    <3>1. call[a].token # Keep => call[a].restart
      BY <2>2 DEF BotSound, CallsSound
    <3>2. call[a].token \in BotTokens \cup {Nil, Keep}
      BY <2>2 DEF CallRow
    <3>3. CASE call[a].restart
      BY <2>2, <2>3, <2>5, <3>2, <3>3
    <3>4. CASE ~call[a].restart
      BY <2>1, <2>2, <2>5, <3>1, <3>4
    <3>5. QED
      BY <3>3, <3>4
  <2>6. call \in [Callers -> CallRow]
    BY DEF BotSound, RowsSound
  <2>7. QED
    BY <2>4, <2>5, <2>6 DEF ConfigWrite
<1>2. /\ call' \in [Callers -> CallRow] /\ call'[a] = k
      /\ \A b \in Callers : b # a => call'[b] = call[b]
  BY <1>1, CallMoves DEF BotSound
<1>3. UNCHANGED <<serviceVars, messages, passed, accountVars>> /\ call[a].pc = "write"
  BY DEF ConfigWrite
<1>4. RowsSound' /\ FieldsSound' /\ CodesSound' /\ LoopsSound'
  BY <1>1, <1>2, <1>3 DEF BotSound, RowsSound, FieldsSound, CodesSound, LoopsSound, serviceVars, accountVars
<1>5. LinksSound'
  BY <1>3 DEF BotSound, LinksSound, Vouched, serviceVars, accountVars
<1>6. CallsSound'
  BY <1>1, <1>2, <1>3 DEF BotSound, CallsSound, serviceVars
<1>7. /\ (\E b \in Callers : call[b].pc = "start") => \E b \in Callers : call'[b].pc = "start"
      /\ stored' # stored => \E b \in Callers : call'[b].pc = "start"
  BY <1>1, <1>2, <1>3
<1>8. TokenSound'
  BY <1>3, <1>7 DEF BotSound, TokenSound, serviceVars
<1>9. QED
  BY <1>4, <1>5, <1>6, <1>8 DEF BotSound

\* Clearing the timer ends a loop that there was.
LEMMA ClearedLoops ==
  ASSUME BotSound, NEW h \in Generations
  PROVE  /\ Cleared(loop) \in [Generations -> LoopRow]
         /\ Cleared(loop)[h].token = loop[h].token /\ Cleared(loop)[h].batch = loop[h].batch
         /\ Cleared(loop)[h].user = loop[h].user
         /\ Cleared(loop)[h].pc = "link" => loop[h].pc = "link"
         /\ Cleared(loop)[h].pc = "none" <=> loop[h].pc = "none"
<1>1. \A g \in Generations : loop[g] \in LoopRow
  BY DEF BotSound, RowsSound
<1>2. \A g \in Generations : [loop[g] EXCEPT !.pc = "ended"] \in LoopRow
  BY <1>1 DEF LoopRow
<1>3. Cleared(loop) \in [Generations -> LoopRow]
  BY <1>1, <1>2 DEF Cleared
<1>4. CASE h = pollTimeout
  <2>1. loop[h].pc # "none"
    BY <1>4, BotAssumption DEF BotSound, LoopsSound, Generations
  <2>2. Cleared(loop)[h] = [loop[h] EXCEPT !.pc = "ended"]
    BY <1>4 DEF Cleared
  <2>3. QED
    BY <1>1, <1>3, <2>1, <2>2 DEF LoopRow
<1>5. CASE h # pollTimeout
  <2>1. Cleared(loop)[h] = loop[h]
    BY <1>5 DEF Cleared
  <2>2. QED
    BY <1>3, <2>1
<1>6. QED
  BY <1>4, <1>5

LEMMA StartBeginSound ==
  ASSUME BotSound, NEW a \in Callers, StartBegin(a)
  PROVE  BotSound'
<1> DEFINE k == [call[a] EXCEPT !.pc = "token", !.gen = generation + 1]
<1>1. call[a] \in CallRow /\ call \in [Callers -> CallRow] /\ generation \in Nat
  BY DEF BotSound, RowsSound, FieldsSound
<1>2. k \in CallRow /\ k.pc = "token" /\ k.gen = generation + 1
  <2> DEFINE n == generation + 1
  <2>1. n \in Nat
    BY <1>1
  <2> HIDE DEF n
  <2>2. [call[a] EXCEPT !.pc = "token", !.gen = n] \in CallRow
    BY <1>1, <2>1 DEF CallRow
  <2>3. /\ [call[a] EXCEPT !.pc = "token", !.gen = n].pc = "token"
        /\ [call[a] EXCEPT !.pc = "token", !.gen = n].gen = n
    BY <1>1 DEF CallRow
  <2>4. QED
    BY <2>2, <2>3 DEF n
<1>3. call' = [call EXCEPT ![a] = k]
  BY <1>1 DEF StartBegin
<1> HIDE DEF k
<1>4. /\ call' \in [Callers -> CallRow] /\ call'[a] = k
      /\ \A b \in Callers : b # a => call'[b] = call[b]
  BY <1>2, <1>3, CallMoves DEF BotSound
<1>5. /\ polling' = FALSE /\ generation' = generation + 1 /\ failures' = 0 /\ pollTimeout' = Nil
      /\ loop' = Cleared(loop)
      /\ UNCHANGED <<stored, messages, passed, code, codeLive, linked, issued>>
  BY DEF StartBegin, accountVars
<1>6. \A g \in Generations : g > generation => loop[g].pc = "none"
  BY DEF BotSound, LoopsSound
<1>7. \A g \in Generations : loop'[g].pc = "none" <=> loop[g].pc = "none"
  BY <1>5, ClearedLoops
<1>8. RowsSound'
  <2>1. Generations # {} => loop' \in [Generations -> LoopRow]
    BY <1>5, ClearedLoops
  <2>2. Generations = {} => loop' = loop
    BY <1>5 DEF Cleared, BotSound, RowsSound
  <2>3. QED
    BY <1>4, <1>5, <2>1, <2>2 DEF BotSound, RowsSound
<1>9. FieldsSound' /\ CodesSound'
  <2>1. passed \in Nat /\ generation + 1 \in Nat
    BY <1>1 DEF BotSound, FieldsSound
  <2>2. FieldsSound'
    BY <1>5, <2>1 DEF FieldsSound
  <2>3. CodesSound'
    BY <1>5 DEF BotSound, CodesSound
  <2>4. QED
    BY <2>2, <2>3
<1>10. LinksSound'
  <2>1. \A g \in Generations : /\ loop'[g].batch \subseteq loop[g].batch
                               /\ loop'[g].pc = "link" => loop[g].pc = "link" /\ loop'[g].user = loop[g].user
    BY <1>5, ClearedLoops
  <2>2. QED
    BY <1>5, <2>1, LinksKept DEF BotSound
<1>11. CallsSound'
  BY <1>1, <1>2, <1>4, <1>5 DEF BotSound, CallsSound
<1>12. \A g \in Generations : g >= generation + 1 => loop'[g].pc = "none"
  BY <1>1, <1>6, <1>7 DEF Generations
<1>13. LoopsSound' /\ TokenSound'
  BY <1>1, <1>5, <1>12 DEF LoopsSound, TokenSound, Generations
<1>14. QED
  BY <1>8, <1>9, <1>10, <1>11, <1>13 DEF BotSound

LEMMA StartEndSound ==
  ASSUME BotSound, NEW a \in Callers, StartEnd(a)
  PROVE  BotSound'
<1>1. NoCall \in CallRow /\ NoCall.pc = "none" /\ call' = [call EXCEPT ![a] = NoCall]
  BY DEF NoCall, CallRow, StartEnd
<1>2. /\ call' \in [Callers -> CallRow] /\ call'[a].pc = "none"
      /\ \A b \in Callers : b # a => call'[b] = call[b]
  BY <1>1, CallMoves DEF BotSound
<1>3. /\ UNCHANGED <<stored, generation, failures, pollTimeout, messages, passed, code, codeLive, linked, issued>>
      /\ call[a].pc = "token" /\ polling' \in BOOLEAN
  BY DEF StartEnd, accountVars, BotSound, FieldsSound
<1>4. call[a].gen \in 1 .. generation
  BY <1>3 DEF BotSound, CallsSound
<1>5. (\E b \in Callers : call[b].pc = "start") => \E b \in Callers : call'[b].pc = "start"
  BY <1>2, <1>3
<1>6. /\ loop' \in [Generations -> LoopRow]
      /\ \A g \in Generations :
           \/ loop'[g] = loop[g]
           \/ /\ g <= generation /\ loop'[g].pc = "entry" /\ loop'[g].token = stored /\ loop'[g].batch = {}
  <2> DEFINE k == [NoLoop EXCEPT !.pc = "entry", !.token = stored]
  <2>1. loop \in [Generations -> LoopRow] /\ stored \in BotTokens \cup {Nil} /\ generation \in Nat
    BY DEF BotSound, RowsSound, FieldsSound
  <2>2. NoLoop \in LoopRow /\ NoLoop.batch = {}
    BY DEF NoLoop, LoopRow
  <2>3. k \in LoopRow /\ k.pc = "entry" /\ k.token = stored /\ k.batch = {}
    BY <2>1, <2>2 DEF LoopRow
  <2>4. loop' = loop \/ loop' = [loop EXCEPT ![call[a].gen] = k]
    BY DEF StartEnd
  <2> HIDE DEF k
  <2>5. QED
    BY <1>4, <2>1, <2>3, <2>4
<1>7. RowsSound' /\ FieldsSound' /\ CodesSound'
  BY <1>2, <1>3, <1>6 DEF BotSound, RowsSound, FieldsSound, CodesSound
<1>8. LinksSound'
  <2>1. \A g \in Generations : /\ loop'[g].batch \subseteq loop[g].batch
                               /\ loop'[g].pc = "link" => loop[g].pc = "link" /\ loop'[g].user = loop[g].user
    BY <1>6
  <2>2. QED
    BY <1>3, <2>1, LinksKept DEF BotSound
<1>9. CallsSound'
  BY <1>2, <1>3 DEF BotSound, CallsSound
<1>10. LoopsSound'
  <2>1. \A g \in Generations : g > generation => loop'[g].pc = "none"
    BY <1>6 DEF BotSound, LoopsSound, FieldsSound, Generations
  <2>2. pollTimeout # Nil => loop'[pollTimeout].pc # "none"
    BY <1>6 DEF BotSound, LoopsSound, FieldsSound
  <2>3. QED
    BY <1>3, <2>1, <2>2 DEF LoopsSound
<1>11. TokenSound'
  BY <1>3, <1>5, <1>6 DEF BotSound, TokenSound
<1>12. QED
  BY <1>7, <1>8, <1>9, <1>10, <1>11 DEF BotSound

\* What a step of a loop leaves of calls and tokens.
LEMMA LoopsGoOn ==
  ASSUME BotSound, UNCHANGED <<stored, call>>,
         generation' \in Nat, generation <= generation',
         \A h \in Generations : /\ loop'[h].token = loop[h].token
                                /\ loop'[h].pc = "none" <=> loop[h].pc = "none",
         pollTimeout' # Nil => pollTimeout' \in Generations /\ loop[pollTimeout'].pc # "none"
  PROVE  CallsSound' /\ LoopsSound' /\ TokenSound'
<1>1. generation \in Nat /\ \A g \in Generations : g \in Nat
  BY DEF BotSound, FieldsSound, Generations
<1>2. CallsSound'
  BY <1>1 DEF BotSound, CallsSound
<1>3. LoopsSound'
  BY <1>1 DEF BotSound, LoopsSound
<1>4. TokenSound'
  <2>1. SUFFICES ASSUME NEW g \in Generations, g = generation', loop'[g].pc # "none"
                 PROVE  loop'[g].token = stored' \/ \E a \in Callers : call'[a].pc = "start"
    BY DEF TokenSound
  <2>2. loop[g].pc # "none" /\ g = generation
    BY <1>1, <2>1 DEF BotSound, LoopsSound
  <2>3. QED
    BY <2>2 DEF BotSound, TokenSound
<1>5. QED
  BY <1>2, <1>3, <1>4

\* A step of a loop that leaves the accounts alone.
LEMMA RowGoesOn ==
  ASSUME BotSound, NEW g \in Generations, NEW k \in LoopRow, loop' = [loop EXCEPT ![g] = k],
         UNCHANGED <<configVars, polling, generation, messages, issued>>, FieldsSound', CodesSound',
         k.token = loop[g].token, k.pc # "none", loop[g].pc # "none",
         pollTimeout' \in {Nil, g, pollTimeout},
         k.batch \subseteq DOMAIN messages,
         k.pc = "link" => k.user \in Admins \X Chats /\ Vouched(k.user[1], k.user[2]),
         linked' \in [Admins -> Chats \cup {Nil}],
         \A a \in Admins : linked'[a] # Nil => Vouched(a, linked'[a])
  PROVE  BotSound'
<1>1. /\ loop' \in [Generations -> LoopRow] /\ loop'[g] = k
      /\ \A h \in Generations : h # g => loop'[h] = loop[h]
  BY LoopMoves DEF BotSound
<1>2. UNCHANGED <<stored, call>>
  BY DEF configVars
<1>3. RowsSound'
  BY <1>1, <1>2 DEF BotSound, RowsSound
<1>4. CallsSound' /\ LoopsSound' /\ TokenSound'
  <2>1. pollTimeout' # Nil => pollTimeout' \in Generations /\ loop[pollTimeout'].pc # "none"
    BY DEF BotSound, LoopsSound, FieldsSound
  <2>2. \A h \in Generations : /\ loop'[h].token = loop[h].token
                               /\ loop'[h].pc = "none" <=> loop[h].pc = "none"
    BY <1>1
  <2>3. generation' \in Nat /\ generation <= generation'
    BY DEF BotSound, FieldsSound
  <2>4. QED
    BY <1>2, <2>1, <2>2, <2>3, LoopsGoOn
<1>5. LinksSound'
  BY <1>1 DEF BotSound, LinksSound, Vouched
<1>6. QED
  BY <1>3, <1>4, <1>5 DEF BotSound

\* The same, of a step that leaves the links alone and does not begin one.
LEMMA RowRuns ==
  ASSUME BotSound, NEW g \in Generations, NEW k \in LoopRow, loop' = [loop EXCEPT ![g] = k],
         UNCHANGED <<configVars, polling, generation, messages, accountVars>>, FieldsSound',
         k.token = loop[g].token, k.pc # "none", loop[g].pc # "none", k.pc # "link",
         pollTimeout' \in {Nil, g, pollTimeout}, k.batch \subseteq DOMAIN messages
  PROVE  BotSound'
<1>1. CodesSound' /\ UNCHANGED <<issued, linked>>
  BY DEF BotSound, CodesSound, accountVars
<1>2. /\ linked' \in [Admins -> Chats \cup {Nil}]
      /\ \A a \in Admins : linked'[a] # Nil => Vouched(a, linked'[a])
  BY <1>1 DEF BotSound, LinksSound
<1>3. QED
  BY <1>1, <1>2, RowGoesOn

LEMMA EnterSound ==
  ASSUME BotSound, NEW g \in Generations, Enter(g)
  PROVE  BotSound'
<1> DEFINE k == [loop[g] EXCEPT !.pc = IF Current(g) THEN "fetch" ELSE "ended"]
<1>1. loop \in [Generations -> LoopRow] /\ loop[g] \in LoopRow /\ loop[g].batch \subseteq DOMAIN messages
  BY DEF BotSound, RowsSound, LinksSound
<1>2. loop[g].pc # "none"
  BY BotAssumption DEF Enter, BotSound, LoopsSound, Generations
<1>3. k \in LoopRow /\ k.pc \in {"fetch", "ended"} /\ k.token = loop[g].token /\ k.batch = loop[g].batch
  BY <1>1 DEF LoopRow
<1>4. /\ loop' = [loop EXCEPT ![g] = k] /\ pollTimeout' \in {Nil, pollTimeout}
      /\ UNCHANGED <<configVars, polling, generation, failures, messages, passed, accountVars>>
  BY <1>1 DEF Enter
<1> HIDE DEF k
<1>5. FieldsSound'
  BY <1>4 DEF BotSound, FieldsSound
<1>6. QED
  BY <1>1, <1>2, <1>3, <1>4, <1>5, RowRuns

LEMMA RestSound ==
  ASSUME BotSound, NEW g \in Generations, Rest(g)
  PROVE  BotSound'
<1> DEFINE k == [loop[g] EXCEPT !.pc = IF Current(g) THEN "wait" ELSE "ended"]
<1>1. loop \in [Generations -> LoopRow] /\ loop[g] \in LoopRow /\ loop[g].batch \subseteq DOMAIN messages
  BY DEF BotSound, RowsSound, LinksSound
<1>2. loop[g].pc # "none"
  BY DEF Rest
<1>3. k \in LoopRow /\ k.pc \in {"wait", "ended"} /\ k.token = loop[g].token /\ k.batch = loop[g].batch
  BY <1>1 DEF LoopRow
<1>4. /\ loop' = [loop EXCEPT ![g] = k] /\ pollTimeout' \in {g, pollTimeout}
      /\ UNCHANGED <<configVars, polling, generation, failures, messages, passed, accountVars>>
  BY <1>1 DEF Rest
<1> HIDE DEF k
<1>5. FieldsSound'
  BY <1>4 DEF BotSound, FieldsSound
<1>6. QED
  BY <1>1, <1>2, <1>3, <1>4, <1>5, RowRuns

LEMMA AnsweredSound ==
  ASSUME BotSound, NEW g \in Generations, PollAnswered(g)
  PROVE  BotSound'
<1>1. /\ loop \in [Generations -> LoopRow] /\ loop[g] \in LoopRow /\ loop[g].batch \subseteq DOMAIN messages
      /\ loop[g].pc = "fetch" /\ loop[g].offset \in Nat
  BY DEF BotSound, RowsSound, LinksSound, PollAnswered, LoopRow
<1>2. /\ generation \in Nat /\ failures \in Nat /\ passed \in Nat /\ polling \in BOOLEAN
      /\ pollTimeout \in Generations \cup {Nil}
  BY DEF BotSound, FieldsSound
<1>3. UNCHANGED <<configVars, messages, accountVars>>
  BY DEF PollAnswered
<1>4. CASE /\ passed' = IF loop[g].offset > passed + 1 THEN loop[g].offset - 1 ELSE passed
           /\ loop' = [loop EXCEPT ![g].pc = "handle", ![g].batch = Later(loop[g].offset)]
           /\ failures' = 0 /\ UNCHANGED <<polling, generation, pollTimeout>>
  <2> DEFINE k == [loop[g] EXCEPT !.pc = "handle", !.batch = Later(loop[g].offset)]
  <2>1. Later(loop[g].offset) \subseteq DOMAIN messages /\ Later(loop[g].offset) \in SUBSET Nat
    BY DEF Later, BotSound, CodesSound
  <2>2. k \in LoopRow /\ k.pc = "handle" /\ k.token = loop[g].token /\ k.batch \subseteq DOMAIN messages
    BY <1>1, <2>1 DEF LoopRow
  <2>3. loop' = [loop EXCEPT ![g] = k]
    BY <1>1, <1>4
  <2>4. FieldsSound'
    BY <1>1, <1>2, <1>4 DEF FieldsSound
  <2> HIDE DEF k
  <2>5. QED
    BY <1>1, <1>3, <1>4, <2>2, <2>3, <2>4, RowRuns
<1>5. CASE /\ failures' \in {failures, failures + 1}
           /\ loop' = [loop EXCEPT ![g].pc = "check"]
           /\ UNCHANGED <<polling, generation, pollTimeout, passed>>
  <2> DEFINE k == [loop[g] EXCEPT !.pc = "check"]
  <2>1. k \in LoopRow /\ k.pc = "check" /\ k.token = loop[g].token /\ k.batch \subseteq DOMAIN messages
    BY <1>1 DEF LoopRow
  <2>2. loop' = [loop EXCEPT ![g] = k]
    BY <1>1, <1>5
  <2>3. FieldsSound'
    BY <1>2, <1>5 DEF FieldsSound
  <2> HIDE DEF k
  <2>4. QED
    BY <1>1, <1>3, <1>5, <2>1, <2>2, <2>3, RowRuns
<1>6. CASE /\ failures' = failures + 1 /\ polling' = FALSE /\ generation' = generation + 1
           /\ loop' = [Cleared(loop) EXCEPT ![g].pc = "ended"] /\ pollTimeout' = Nil /\ passed' = passed
  <2>1. /\ Cleared(loop) \in [Generations -> LoopRow] /\ Cleared(loop)[g] \in LoopRow
        /\ Cleared(loop)[g].token = loop[g].token /\ Cleared(loop)[g].batch = loop[g].batch
    BY ClearedLoops
  <2> DEFINE k == [Cleared(loop)[g] EXCEPT !.pc = "ended"]
  <2>2. k \in LoopRow /\ k.pc = "ended" /\ k.token = loop[g].token /\ k.batch = loop[g].batch
    BY <2>1 DEF LoopRow
  <2>3. loop' = [Cleared(loop) EXCEPT ![g] = k]
    BY <1>6, <2>1
  <2> HIDE DEF k
  <2>4. /\ loop' \in [Generations -> LoopRow] /\ loop'[g] = k
        /\ \A h \in Generations : h # g => loop'[h] = Cleared(loop)[h]
    BY <2>1, <2>2, <2>3
  <2>5. \A h \in Generations : h # g => /\ loop'[h].token = loop[h].token /\ loop'[h].batch = loop[h].batch
                                        /\ loop'[h].user = loop[h].user
                                        /\ loop'[h].pc = "link" => loop[h].pc = "link"
                                        /\ loop'[h].pc = "none" <=> loop[h].pc = "none"
    BY <2>4, ClearedLoops
  <2>6. \A h \in Generations : /\ loop'[h].token = loop[h].token
                               /\ loop'[h].pc = "none" <=> loop[h].pc = "none"
    BY <1>1, <2>2, <2>4, <2>5
  <2>7. \A h \in Generations : /\ loop'[h].batch \subseteq loop[h].batch
                               /\ loop'[h].pc = "link" => loop[h].pc = "link" /\ loop'[h].user = loop[h].user
    BY <2>2, <2>4, <2>5
  <2>8. UNCHANGED <<stored, call, linked, messages, issued, code, codeLive>>
    BY <1>3 DEF configVars, accountVars
  <2>9. RowsSound' /\ CodesSound' /\ FieldsSound'
    <3>1. RowsSound' /\ CodesSound'
      BY <2>4, <2>8 DEF BotSound, RowsSound, CodesSound
    <3>2. generation + 1 \in Nat /\ failures + 1 \in Nat
      BY <1>2
    <3>3. FieldsSound'
      BY <1>2, <1>6, <3>2 DEF FieldsSound
    <3>4. QED
      BY <3>1, <3>3
  <2>10. LinksSound'
    BY <2>7, <2>8, LinksKept DEF BotSound
  <2>11. CallsSound' /\ LoopsSound' /\ TokenSound'
    BY <1>2, <1>6, <2>6, <2>8, LoopsGoOn
  <2>12. QED
    BY <2>9, <2>10, <2>11 DEF BotSound
<1>7. QED
  BY <1>4, <1>5, <1>6 DEF PollAnswered, Fault

LEMMA LookUpSound ==
  ASSUME BotSound, NEW g \in Generations, LookUp(g)
  PROVE  BotSound'
<1> DEFINE r == loop[g]
           i == NextUpdate(g)
           done == [loop EXCEPT ![g].offset = i + 1, ![g].batch = @ \ {i}]
           d == [r EXCEPT !.offset = i + 1, !.batch = @ \ {i}]
<1>1. /\ loop \in [Generations -> LoopRow] /\ r \in LoopRow /\ r.batch \subseteq DOMAIN messages
      /\ r.pc = "handle" /\ r.batch # {} /\ r.batch \in SUBSET Nat
      /\ UNCHANGED <<configVars, polling, generation, failures, pollTimeout, messages, passed, accountVars>>
  BY DEF BotSound, RowsSound, LinksSound, LookUp, LoopRow
<1>2. i \in r.batch /\ i \in Nat /\ i \in DOMAIN messages
  <2>1. \E x \in r.batch : \A y \in r.batch : x <= y
    BY <1>1, Earliest
  <2>2. i \in r.batch
    BY <2>1 DEF NextUpdate
  <2>3. QED
    BY <1>1, <2>2
<1>3. FieldsSound' /\ CodesSound' /\ UNCHANGED <<linked, issued>>
  BY <1>1 DEF BotSound, FieldsSound, CodesSound, accountVars
<1> HIDE DEF i
<1>4. /\ d \in LoopRow /\ d.pc = "handle" /\ d.token = r.token /\ d.batch = r.batch \ {i}
      /\ done = [loop EXCEPT ![g] = d] /\ done \in [Generations -> LoopRow]
  <2> DEFINE n == i + 1
             left == r.batch \ {i}
             e == [r EXCEPT !.offset = n, !.batch = left]
  <2>1. n \in Nat /\ left \in SUBSET Nat
    BY <1>1, <1>2
  <2> HIDE DEF n, left
  <2>2. e \in LoopRow /\ e.pc = "handle" /\ e.token = r.token /\ e.batch = left
    BY <1>1, <2>1 DEF LoopRow
  <2>3. d = e
    BY <1>1 DEF LoopRow, n, left
  <2>4. done = [loop EXCEPT ![g] = d]
    BY <1>1
  <2> HIDE DEF d, e, done
  <2>5. done \in [Generations -> LoopRow]
    BY <1>1, <2>2, <2>3, <2>4
  <2>6. QED
    BY <2>2, <2>3, <2>4, <2>5 DEF left
<1>5. CASE \E a \in Admins :
             /\ code[a] = messages[i].code
             /\ loop' = [done EXCEPT ![g].pc = "link", ![g].user = <<a, messages[i].chat>>]
  <2>1. PICK a \in Admins :
             /\ code[a] = messages[i].code
             /\ loop' = [done EXCEPT ![g].pc = "link", ![g].user = <<a, messages[i].chat>>]
    BY <1>5
  <2> DEFINE c == messages[i].chat
             k == [d EXCEPT !.pc = "link", !.user = <<a, c>>]
  <2>2. c \in Chats /\ messages[i].code \in Nat
    <3>1. messages \in Seq([chat : Chats, code : Nat])
      BY DEF BotSound, CodesSound
    <3>2. messages[i] \in [chat : Chats, code : Nat]
      BY <1>2, <3>1, Element
    <3>3. QED
      BY <3>2
  <2>3. issued[messages[i].code] = a
    BY <2>1, <2>2, BotAssumption DEF BotSound, CodesSound
  <2>4. Vouched(a, c)
    BY <1>2, <2>3 DEF Vouched
  <2>5. k \in LoopRow /\ k.pc = "link" /\ k.user = <<a, c>> /\ k.token = r.token /\ k.batch \subseteq DOMAIN messages
    BY <1>1, <1>4, <2>2 DEF LoopRow
  <2>6. loop' = [loop EXCEPT ![g] = k]
    BY <1>1, <1>4, <2>1
  <2>7. k.user \in Admins \X Chats /\ Vouched(k.user[1], k.user[2])
    BY <2>2, <2>4, <2>5
  <2>8. /\ linked' \in [Admins -> Chats \cup {Nil}]
        /\ \A b \in Admins : linked'[b] # Nil => Vouched(b, linked'[b])
    BY <1>3 DEF BotSound, LinksSound
  <2> HIDE DEF k, d, done, c
  <2>9. QED
    BY <1>1, <1>3, <2>5, <2>6, <2>7, <2>8, RowGoesOn
<1>6. CASE loop' = done
  <2>1. loop' = [loop EXCEPT ![g] = d] /\ d.batch \subseteq DOMAIN messages
    BY <1>1, <1>4, <1>6
  <2> HIDE DEF d, done
  <2>2. QED
    BY <1>1, <1>3, <1>4, <2>1, RowRuns
<1>7. CASE loop' = [done EXCEPT ![g].pc = "check", ![g].batch = {}]
  <2> DEFINE k == [d EXCEPT !.pc = "check", !.batch = {}]
  <2>1. k \in LoopRow /\ k.pc = "check" /\ k.token = r.token /\ k.batch \subseteq DOMAIN messages
    BY <1>4 DEF LoopRow
  <2>2. loop' = [loop EXCEPT ![g] = k]
    BY <1>1, <1>4, <1>7
  <2> HIDE DEF k, d, done
  <2>3. QED
    BY <1>1, <1>3, <2>1, <2>2, RowRuns
<1>8. QED
  BY <1>5, <1>6, <1>7 DEF LookUp, i

LEMMA LinkSound ==
  ASSUME BotSound, NEW g \in Generations, Link(g)
  PROVE  BotSound'
<1> DEFINE r == loop[g]
           a == r.user[1]
           c == r.user[2]
<1>1. /\ loop \in [Generations -> LoopRow] /\ r \in LoopRow /\ r.batch \subseteq DOMAIN messages
      /\ r.pc = "link" /\ UNCHANGED <<configVars, polling, generation, failures, pollTimeout, messages, passed, issued>>
  BY DEF BotSound, RowsSound, LinksSound, Link
<1>2. a \in Admins /\ c \in Chats /\ Vouched(a, c)
  BY <1>1 DEF BotSound, LinksSound
<1>3. FieldsSound'
  BY <1>1 DEF BotSound, FieldsSound
<1>4. /\ linked \in [Admins -> Chats \cup {Nil}]
      /\ \A b \in Admins : linked[b] # Nil => Vouched(b, linked[b])
      /\ code \in [Admins -> DOMAIN issued \cup {Nil}]
  BY DEF BotSound, LinksSound, CodesSound
<1>5. CASE /\ linked' = [linked EXCEPT ![a] = c] /\ code' = [code EXCEPT ![a] = Nil] /\ codeLive' = codeLive \ {a}
           /\ loop' = [loop EXCEPT ![g].pc = "handle", ![g].user = Nil]
  <2> DEFINE k == [r EXCEPT !.pc = "handle", !.user = Nil]
  <2>1. k \in LoopRow /\ k.pc = "handle" /\ k.token = r.token /\ k.batch \subseteq DOMAIN messages
    BY <1>1 DEF LoopRow
  <2>2. loop' = [loop EXCEPT ![g] = k]
    BY <1>1, <1>5
  <2>3. CodesSound'
    BY <1>1, <1>2, <1>4, <1>5 DEF BotSound, CodesSound
  <2>4. /\ linked' \in [Admins -> Chats \cup {Nil}]
        /\ \A b \in Admins : linked'[b] # Nil => Vouched(b, linked'[b])
    BY <1>2, <1>4, <1>5
  <2> HIDE DEF k
  <2>5. QED
    BY <1>1, <1>3, <2>1, <2>2, <2>3, <2>4, RowGoesOn
<1>6. CASE /\ loop' = [loop EXCEPT ![g].pc = "check", ![g].user = Nil, ![g].batch = {}]
           /\ UNCHANGED <<linked, code, codeLive>>
  <2> DEFINE k == [r EXCEPT !.pc = "check", !.user = Nil, !.batch = {}]
  <2>1. k \in LoopRow /\ k.pc = "check" /\ k.token = r.token /\ k.batch \subseteq DOMAIN messages
    BY <1>1 DEF LoopRow
  <2>2. loop' = [loop EXCEPT ![g] = k]
    BY <1>1, <1>6
  <2> HIDE DEF k
  <2>3. QED
    BY <1>1, <1>3, <1>6, <2>1, <2>2, RowRuns DEF accountVars
<1>7. QED
  BY <1>5, <1>6 DEF Link

\* The accounts: a code is made for its account, and what was vouched for stays so.
LEMMA AccountSound ==
  ASSUME BotSound, NEW a \in Admins, Generate(a) \/ CodeExpires(a) \/ Unlink(a)
  PROVE  BotSound'
<1>1. UNCHANGED <<configVars, serviceVars, messages, passed>>
  BY DEF Generate, CodeExpires, Unlink
<1>2. UNCHANGED <<stored, call, polling, generation, failures, pollTimeout, loop>>
  BY <1>1 DEF configVars, serviceVars
<1>3. RowsSound' /\ FieldsSound' /\ CallsSound' /\ LoopsSound' /\ TokenSound'
  BY <1>1, <1>2 DEF BotSound, RowsSound, FieldsSound, CallsSound, LoopsSound, TokenSound
<1>4. /\ issued \in Seq(Admins) /\ code \in [Admins -> DOMAIN issued \cup {Nil}]
      /\ \A b \in Admins : code[b] # Nil => issued[code[b]] = b
      /\ \A j \in DOMAIN messages : messages[j].code \in DOMAIN issued
      /\ Len(issued) \in Nat /\ DOMAIN issued = 1 .. Len(issued)
  BY DEF BotSound, CodesSound
<1>5. /\ issued' \in Seq(Admins) /\ DOMAIN issued \subseteq DOMAIN issued'
      /\ \A n \in DOMAIN issued : issued'[n] = issued[n]
  <2>1. CASE issued' = issued
    BY <1>4, <2>1
  <2>2. CASE issued' = Append(issued, a)
    BY <1>4, <2>2
  <2>3. QED
    BY <2>1, <2>2 DEF Generate, CodeExpires, Unlink
<1>6. CodesSound'
  <2>1. CASE Generate(a)
    <3>1. issued' = Append(issued, a) /\ code' = [code EXCEPT ![a] = Len(issued) + 1] /\ codeLive' = codeLive \cup {a}
      BY <2>1 DEF Generate
    <3>2. issued'[Len(issued) + 1] = a /\ Len(issued) + 1 \in DOMAIN issued'
      BY <1>4, <3>1
    <3>3. code' \in [Admins -> DOMAIN issued' \cup {Nil}]
      BY <1>4, <1>5, <3>1, <3>2
    <3>4. \A b \in Admins : code'[b] # Nil => issued'[code'[b]] = b
      BY <1>4, <1>5, <3>1, <3>2
    <3>5. QED
      BY <1>1, <1>4, <1>5, <3>1, <3>3, <3>4 DEF BotSound, CodesSound
  <2>2. CASE CodeExpires(a) \/ Unlink(a)
    BY <1>1, <2>2 DEF BotSound, CodesSound, CodeExpires, Unlink
  <2>3. QED
    BY <2>1, <2>2
<1>7. \A b \in Admins, c \in Chats : Vouched(b, c) => Vouched(b, c)'
  BY <1>1, <1>4, <1>5 DEF Vouched
<1>8. LinksSound'
  <2>1. linked' = linked \/ linked' = [linked EXCEPT ![a] = Nil]
    BY DEF Generate, CodeExpires, Unlink
  <2>2. linked \in [Admins -> Chats \cup {Nil}]
    BY DEF BotSound, LinksSound
  <2>3. QED
    BY <1>1, <1>2, <1>7, <2>1, <2>2 DEF BotSound, LinksSound
<1>9. QED
  BY <1>3, <1>6, <1>8 DEF BotSound

LEMMA WriteSound ==
  ASSUME BotSound, NEW c \in Chats, NEW n \in Issued, Write(c, n)
  PROVE  BotSound'
<1> DEFINE m == [chat |-> c, code |-> n]
<1>1. /\ messages' = Append(messages, m)
      /\ UNCHANGED <<configVars, serviceVars, passed, accountVars>>
  BY DEF Write
<1>2. UNCHANGED <<stored, call, polling, generation, failures, pollTimeout, loop, code, codeLive, linked, issued>>
  BY <1>1 DEF configVars, serviceVars, accountVars
<1>3. RowsSound' /\ FieldsSound' /\ CallsSound' /\ LoopsSound' /\ TokenSound'
  BY <1>1, <1>2 DEF BotSound, RowsSound, FieldsSound, CallsSound, LoopsSound, TokenSound
<1>4. /\ messages \in Seq([chat : Chats, code : Nat]) /\ issued \in Seq(Admins)
      /\ m \in [chat : Chats, code : Nat] /\ m.code \in DOMAIN issued
  BY DEF BotSound, CodesSound, Issued
<1> HIDE DEF m
<1>5. /\ messages' \in Seq([chat : Chats, code : Nat]) /\ DOMAIN messages \subseteq DOMAIN messages'
      /\ \A j \in DOMAIN messages : messages'[j] = messages[j]
      /\ \A j \in DOMAIN messages' : j \in DOMAIN messages \/ messages'[j] = m
  BY <1>1, <1>4
<1>6. CodesSound'
  BY <1>2, <1>4, <1>5 DEF BotSound, CodesSound
<1>7. \A b \in Admins, d \in Chats : Vouched(b, d) => Vouched(b, d)'
  BY <1>2, <1>5 DEF Vouched
<1>8. LinksSound'
  BY <1>2, <1>5, <1>7 DEF BotSound, LinksSound
<1>9. QED
  BY <1>3, <1>6, <1>8 DEF BotSound

LEMMA BotSteps == BotSound /\ [BotNext]_botVars => BotSound'
<1> SUFFICES ASSUME BotSound, [BotNext]_botVars PROVE BotSound'
  OBVIOUS
<1>1. CASE \E a \in Editors, t \in BotTokens \cup {Nil, Keep}, group \in BOOLEAN : ConfigRead(a, t, group)
  BY <1>1, ConfigReadSound
<1>2. CASE \E a \in Admins : Generate(a) \/ CodeExpires(a) \/ Unlink(a)
  BY <1>2, AccountSound
<1>3. CASE \E a \in Callers : CallStep(a)
  BY <1>3, ConfigWriteSound, StartBeginSound, StartEndSound DEF CallStep
<1>4. CASE \E g \in Generations : LoopStep(g)
  BY <1>4, EnterSound, AnsweredSound, LookUpSound, LinkSound, RestSound DEF LoopStep
<1>5. CASE \E c \in Chats, n \in Issued : Write(c, n)
  BY <1>5, WriteSound
<1>6. CASE UNCHANGED botVars
  BY <1>6 DEF botVars, configVars, serviceVars, accountVars, BotSound, RowsSound, FieldsSound,
              CodesSound, LinksSound, Vouched, CallsSound, LoopsSound, TokenSound
<1>7. QED
  BY <1>1, <1>2, <1>3, <1>4, <1>5, <1>6 DEF BotNext

LEMMA BotHolds == BotSound => BotFollowsItsSettings
<1> SUFFICES ASSUME BotSound PROVE BotFollowsItsSettings
  OBVIOUS
<1>1. \A g \in Generations : Alive(g) => g = generation /\ loop[g].pc # "none"
  BY DEF Alive, Current
<1>2. NoCalls => \A g \in Generations : Alive(g) => loop[g].token = stored
  BY <1>1 DEF BotSound, TokenSound, NoCalls
<1>3. \A a \in Admins : linked[a] # Nil => Vouched(a, linked[a])
  BY DEF BotSound, LinksSound
<1>4. QED
  BY <1>1, <1>2, <1>3 DEF BotFollowsItsSettings, Vouched

\* The inductive invariant: the current loop has the stored token or a start is on its way,
\* and every chat about to be linked has sent the account's code.
THEOREM BotSoundness == BotSpec => []BotSound
  BY BotStarts, BotSteps, PTL DEF BotSpec

\* However saves of the configuration, the start and the loops they leave behind interleave,
\* once they are over one loop at most goes on, with the stored token, and an account is
\* linked only to a chat that sent a code made for it (updateConfig, startBot, handleUpdate).
THEOREM BotFollowsCorrect == BotSpec => []BotFollowsItsSettings
  BY BotSoundness, BotHolds, PTL

LEMMA BotTypesHold == BotSound => BotTypeOK
  BY DEF BotSound, RowsSound, FieldsSound, CodesSound, LinksSound, BotTypeOK, CallRow, LoopRow, Issued

\* The variables of the bot have their types.
THEOREM BotTypeCorrect == BotSpec => []BotTypeOK
  BY BotTypesHold, BotSoundness, PTL

-------------------------------------------------------------------------------
(* The types of the dashboard.                                              *)

\* A request is a record whose sections are among those asked for.
AskedFor(q) ==
  /\ q.pc \in {"none", "query"} /\ (q.pc = "query" => q.key \in Keys) /\ DOMAIN q.parts \subseteq Asked
  /\ q = [pc |-> q.pc, key |-> q.key, range |-> q.range, parts |-> q.parts]

\* One row at most of each of finitely many tickets, of its type.
RowsTyped ==
  /\ IsFiniteSet(Filed)
  /\ filed \in [Filed -> SUBSET Row] /\ \A t \in Filed : \E c : filed[t] \subseteq {c}

DashboardTyped ==
  /\ today \in FirstDay .. FirstDay + 1
  /\ RowsTyped
  /\ DOMAIN entry = Keys /\ \A k \in Keys : \E c : entry[k] \subseteq {c}
  /\ entry = [k \in Keys |-> entry[k]]
  /\ request = [p \in Pages |-> request[p]] /\ \A p \in Pages : AskedFor(request[p])
  /\ \A job \in deleting : job[2] \subseteq Keys

LEMMA NothingAsked == AskedFor(NoRequest)
BY DEF AskedFor, NoRequest

LEMMA DashboardStarts == DashboardInit => DashboardTyped
<1> SUFFICES ASSUME DashboardInit PROVE DashboardTyped OBVIOUS
<1>1. today \in FirstDay .. FirstDay + 1 BY DashboardAssumption DEF DashboardInit
<1>2. RowsTyped
  <2>1. \A t \in Filed : filed[t] \subseteq {0} BY DEF DashboardInit
  <2>2. QED BY <2>1, DashboardAssumption DEF DashboardInit, RowsTyped
<1>3. \A k \in Keys : entry[k] \subseteq {0} BY DEF DashboardInit
<1>4. \A p \in Pages : AskedFor(request[p]) BY NothingAsked DEF DashboardInit
<1>5. DOMAIN entry = Keys /\ entry = [k \in Keys |-> entry[k]] /\ request = [p \in Pages |-> request[p]] /\ deleting = {}
  BY DEF DashboardInit
<1>6. QED BY <1>1, <1>2, <1>3, <1>4, <1>5 DEF DashboardTyped

\* A request moves.
LEMMA RequestGoes ==
  ASSUME DashboardTyped, NEW p \in Pages, NEW q, AskedFor(q), request' = [request EXCEPT ![p] = q]
  PROVE  request' = [x \in Pages |-> request'[x]] /\ \A x \in Pages : AskedFor(request'[x])
<1>1. request = [x \in Pages |-> request[x]] /\ \A x \in Pages : AskedFor(request[x]) BY DEF DashboardTyped
<1>2. request' = [x \in Pages |-> request'[x]] /\ request'[p] = q /\ \A x \in Pages \ {p} : request'[x] = request[x]
  BY <1>1
<1>3. ASSUME NEW x \in Pages PROVE AskedFor(request'[x])
  <2>1. CASE x = p BY <2>1, <1>2
  <2>2. CASE x # p
    <3>1. request'[x] = request[x] BY <1>2, <2>2
    <3>2. AskedFor(request[x]) BY <1>1
    <3>3. QED BY <3>1, <3>2
  <2>3. QED BY <2>1, <2>2
<1>4. QED BY <1>2, <1>3

\* An entry is emptied, or holds one result.
LEMMA EntryGoes ==
  ASSUME DashboardTyped, NEW k \in Keys, NEW c, NEW E, E \subseteq {c}, entry' = [entry EXCEPT ![k] = E]
  PROVE  /\ DOMAIN entry' = Keys /\ entry' = [x \in Keys |-> entry'[x]]
         /\ \A x \in Keys : \E d : entry'[x] \subseteq {d}
<1>1. entry = [x \in Keys |-> entry[x]] /\ \A x \in Keys : \E d : entry[x] \subseteq {d} BY DEF DashboardTyped
<1>2. entry' = [x \in Keys |-> entry'[x]] /\ entry'[k] = E /\ \A x \in Keys \ {k} : entry'[x] = entry[x] BY <1>1
<1>3. ASSUME NEW x \in Keys PROVE \E d : entry'[x] \subseteq {d}
  <2>1. CASE x = k BY <2>1, <1>2
  <2>2. CASE x # k
    <3>1. entry'[x] = entry[x] BY <1>2, <2>2
    <3>2. QED BY <3>1, <1>1
  <2>3. QED BY <2>1, <2>2
<1>4. DOMAIN entry' = Keys BY <1>2
<1>5. QED BY <1>2, <1>3, <1>4

LEMMA RequestsTyped ==
  ASSUME DashboardTyped, NEW p \in Pages,
         (\E k \in Keys : Ask(p, k)) \/ (\E section \in Asked : RunQuery(p, section)) \/ StoreResult(p)
  PROVE  DashboardTyped'
<1>1. CASE \E k \in Keys : Ask(p, k)
  <2>1. PICK k \in Keys : Ask(p, k) BY <1>1
  <2>2. PICK q : q = [pc |-> "query", key |-> k, range |-> RangeOf(k), parts |-> <<>>] OBVIOUS
  <2>3. AskedFor(q) BY <2>2 DEF AskedFor
  <2>4. request' = [request EXCEPT ![p] = q] BY <2>1, <2>2 DEF Ask
  <2>5. UNCHANGED <<today, filed, entry, deleting>> BY <2>1 DEF Ask
  <2>6. QED BY <2>3, <2>4, <2>5, RequestGoes DEF DashboardTyped, RowsTyped
<1>2. CASE \E section \in Asked : RunQuery(p, section)
  <2>1. PICK section \in Asked : RunQuery(p, section) BY <1>2
  <2>2. PICK x : x = [s \in DOMAIN request[p].parts \cup {section} |->
          IF s = section THEN SectionOf(section, request[p].key, request[p].range) ELSE request[p].parts[s]] OBVIOUS
  <2>3. AskedFor(request[p]) /\ request[p].pc = "query" BY <2>1 DEF DashboardTyped, RunQuery
  <2>4. PICK q : q = [request[p] EXCEPT !.parts = x] OBVIOUS
  <2>5. DOMAIN x \subseteq Asked
    <3>1. DOMAIN x = DOMAIN request[p].parts \cup {section} BY <2>2
    <3>2. QED BY <3>1, <2>3 DEF AskedFor
  <2>6. AskedFor(q) BY <2>3, <2>4, <2>5 DEF AskedFor
  <2>7. request' = [request EXCEPT ![p] = q]
    <3>1. request' = [request EXCEPT ![p].parts = x] BY <2>1, <2>2 DEF RunQuery
    <3>2. QED BY <3>1, <2>4
  <2>8. UNCHANGED <<today, filed, entry, deleting>> BY <2>1 DEF RunQuery
  <2>9. QED BY <2>6, <2>7, <2>8, RequestGoes DEF DashboardTyped, RowsTyped
<1>3. CASE StoreResult(p)
  <2>1. request' = [request EXCEPT ![p] = NoRequest] /\ UNCHANGED <<today, filed, deleting>> BY <1>3 DEF StoreResult
  <2>2. PICK k : k = request[p].key OBVIOUS
  <2>3. k \in Keys BY <1>3, <2>2 DEF StoreResult, DashboardTyped, AskedFor
  <2>4. entry' = [entry EXCEPT ![k] = {request[p].parts}] \/ entry' = entry BY <1>3, <2>2 DEF StoreResult
  <2>5. /\ DOMAIN entry' = Keys /\ entry' = [x \in Keys |-> entry'[x]]
        /\ \A x \in Keys : \E d : entry'[x] \subseteq {d}
    <3>1. CASE entry' = [entry EXCEPT ![k] = {request[p].parts}] BY <3>1, <2>3, EntryGoes
    <3>2. CASE entry' = entry BY <3>2 DEF DashboardTyped
    <3>3. QED BY <3>1, <3>2, <2>4
  <2>6. QED BY <2>1, <2>5, NothingAsked, RequestGoes DEF DashboardTyped, RowsTyped
<1>4. QED BY <1>1, <1>2, <1>3

LEMMA TicketsTyped ==
  ASSUME DashboardTyped, NEW t \in Filed, EditTicket(t) \/ \E l \in Levels : FileTicket(t, l)
  PROVE  DashboardTyped'
<1>1. \E rows \in SUBSET Row, heard \in BOOLEAN : ChangeTicket(t, rows, heard) /\ \E c : rows \subseteq {c}
  <2>1. CASE EditTicket(t)
    <3>1. PICK r \in filed[t] :
            \/ \E s \in States : ChangeTicket(t, {[r EXCEPT !.status = s]}, TRUE)
            \/ \E l \in Levels : ChangeTicket(t, {[r EXCEPT !.priority = l]}, TRUE)
            \/ ChangeTicket(t, {[r EXCEPT !.assigned = TRUE]}, TRUE)
            \/ \E s \in {"OnTrack", "Breached"} : ChangeTicket(t, {[r EXCEPT !.sla = s]}, FALSE)
            \/ ChangeTicket(t, {}, TRUE)
      BY <2>1 DEF EditTicket
    <3>2. r \in Row BY DEF DashboardTyped, RowsTyped
    <3>3. /\ \A s \in States : {[r EXCEPT !.status = s]} \in SUBSET Row
          /\ \A l \in Levels : {[r EXCEPT !.priority = l]} \in SUBSET Row
          /\ {[r EXCEPT !.assigned = TRUE]} \in SUBSET Row
          /\ \A s \in {"OnTrack", "Breached"} : {[r EXCEPT !.sla = s]} \in SUBSET Row
          /\ {} \in SUBSET Row
      BY <3>2 DEF Row
    <3>4. \A x : {x} \subseteq {x} /\ {} \subseteq {x} OBVIOUS
    <3>5. QED BY <3>1, <3>3, <3>4
  <2>2. CASE \E l \in Levels : FileTicket(t, l)
    <3>1. PICK l \in Levels : FileTicket(t, l) BY <2>2
    <3>2. today \in Int BY DashboardAssumption DEF DashboardTyped
    <3>3. [day |-> today, status |-> "Open", priority |-> l, sla |-> "none", assigned |-> FALSE] \in Row
      BY <3>1, <3>2 DEF FileTicket, Row
    <3>4. PICK c : c = [day |-> today, status |-> "Open", priority |-> l, sla |-> "none", assigned |-> FALSE] OBVIOUS
    <3>5. ChangeTicket(t, {c}, TRUE) BY <3>1, <3>4 DEF FileTicket
    <3>6. {c} \in SUBSET Row /\ {c} \subseteq {c} BY <3>3, <3>4
    <3>7. QED BY <3>5, <3>6
  <2>3. QED BY <2>1, <2>2
<1>2. PICK rows \in SUBSET Row, heard \in BOOLEAN : ChangeTicket(t, rows, heard) /\ \E c : rows \subseteq {c} BY <1>1
<1>3. RowsTyped'
  <2>1. RowsTyped /\ filed' = [filed EXCEPT ![t] = rows] BY <1>2 DEF ChangeTicket, DashboardTyped
  <2>2. filed' \in [Filed -> SUBSET Row] BY <2>1 DEF RowsTyped
  <2>3. ASSUME NEW u \in Filed PROVE \E c : filed'[u] \subseteq {c}
    <3>1. CASE u = t BY <1>2, <2>1, <3>1 DEF RowsTyped
    <3>2. CASE u # t
      <4>1. filed'[u] = filed[u] BY <2>1, <3>2 DEF RowsTyped
      <4>2. QED BY <2>1, <4>1 DEF RowsTyped
    <3>3. QED BY <3>1, <3>2
  <2>4. QED BY <2>2, <2>3, DashboardAssumption DEF RowsTyped
<1>4. \A job \in deleting' : job[2] \subseteq Keys
  <2>1. deleting' \subseteq deleting \cup {<<dataChanges + 1, Keys>>} BY <1>2 DEF ChangeTicket
  <2>2. QED BY <2>1 DEF DashboardTyped
<1>5. UNCHANGED <<today, entry, request>> BY <1>2 DEF ChangeTicket
<1>6. QED BY <1>3, <1>4, <1>5 DEF DashboardTyped

LEMMA CacheTyped ==
  ASSUME DashboardTyped, (\E k \in Keys : ExpireEntry(k)) \/ (\E job \in deleting : DeleteKey(job)) \/ Midnight
  PROVE  DashboardTyped'
<1>1. CASE \E k \in Keys : ExpireEntry(k)
  <2>1. PICK k \in Keys : ExpireEntry(k) BY <1>1
  <2>2. entry' = [entry EXCEPT ![k] = {}] /\ UNCHANGED <<today, filed, request, deleting>> BY <2>1 DEF ExpireEntry
  <2>3. PICK E : E = {} OBVIOUS
  <2>4. E \subseteq {0} /\ entry' = [entry EXCEPT ![k] = E] BY <2>2, <2>3
  <2>5. /\ DOMAIN entry' = Keys /\ entry' = [x \in Keys |-> entry'[x]]
        /\ \A x \in Keys : \E d : entry'[x] \subseteq {d}
    BY <2>4, EntryGoes
  <2>6. QED BY <2>2, <2>5 DEF DashboardTyped, RowsTyped
<1>2. CASE \E job \in deleting : DeleteKey(job)
  <2>1. PICK job \in deleting : DeleteKey(job) BY <1>2
  <2>2. job[2] \subseteq Keys /\ UNCHANGED <<today, filed, request>> BY <2>1 DEF DashboardTyped, DeleteKey
  <2>3. \A d \in deleting' : d[2] \subseteq Keys
    <3>1. \E K \in SUBSET Keys : deleting' \subseteq deleting \cup {<<job[1], K>>}
      BY <2>1, <2>2 DEF DeleteKey
    <3>2. QED BY <3>1 DEF DashboardTyped, RowsTyped
  <2>4. (\E k \in Keys : entry' = [entry EXCEPT ![k] = {}]) \/ entry' = entry BY <2>1, <2>2 DEF DeleteKey
  <2>5. {} \subseteq {0} OBVIOUS
  <2>6. /\ DOMAIN entry' = Keys /\ entry' = [x \in Keys |-> entry'[x]]
        /\ \A x \in Keys : \E d : entry'[x] \subseteq {d}
    <3>1. CASE \E k \in Keys : entry' = [entry EXCEPT ![k] = {}] BY <3>1, <2>5, EntryGoes
    <3>2. CASE entry' = entry BY <3>2 DEF DashboardTyped, RowsTyped
    <3>3. QED BY <3>1, <3>2, <2>4
  <2>7. QED BY <2>2, <2>3, <2>6 DEF DashboardTyped, RowsTyped
<1>3. CASE Midnight
  <2>1. today' \in FirstDay .. FirstDay + 1 BY <1>3, DashboardAssumption DEF Midnight, DashboardTyped, RowsTyped
  <2>2. QED BY <1>3, <2>1 DEF Midnight, DashboardTyped, RowsTyped
<1>4. QED BY <1>1, <1>2, <1>3

LEMMA DashboardSteps == DashboardTyped /\ [DashboardNext]_dashboardVars => DashboardTyped'
<1> SUFFICES ASSUME DashboardTyped, [DashboardNext]_dashboardVars PROVE DashboardTyped' OBVIOUS
<1>1. CASE UNCHANGED dashboardVars BY <1>1 DEF dashboardVars, DashboardTyped, RowsTyped
<1>2. CASE DashboardNext BY <1>2, RequestsTyped, TicketsTyped, CacheTyped DEF DashboardNext
<1>3. QED BY <1>1, <1>2

LEMMA DashboardHolds == DashboardTyped => DashboardTypeOK
<1> SUFFICES ASSUME DashboardTyped PROVE DashboardTypeOK OBVIOUS
<1>1. \A t \in Filed : \A r \in filed[t] : r.day \in Int /\ r.status \in States /\ r.priority \in Levels
  BY DEF DashboardTyped, RowsTyped, Row
<1>2. ASSUME NEW k \in Keys PROVE Cardinality(entry[k]) <= 1
  <2>1. PICK c : entry[k] \subseteq {c} BY DEF DashboardTyped
  <2>2. entry[k] = {} \/ entry[k] = {c} BY <2>1
  <2>3. Cardinality({}) = 0 /\ Cardinality({c}) = 1 BY FS_EmptySet, FS_Singleton
  <2>4. QED BY <2>2, <2>3
<1>3. \A p \in Pages : request[p].pc \in {"none", "query"} /\ DOMAIN request[p].parts \subseteq Asked
  BY DEF DashboardTyped, AskedFor
<1>4. QED BY <1>1, <1>2, <1>3 DEF DashboardTyped, DashboardTypeOK

\* The variables of the dashboard have their types: an entry holds one result at most.
THEOREM DashboardTypeCorrect == DashboardSpec => []DashboardTypeOK
  BY DashboardStarts, DashboardSteps, DashboardHolds, PTL DEF DashboardSpec

-------------------------------------------------------------------------------
(* The numbers of the dashboard.                                           *)

\* The member of a set that a fold takes first.
FirstOf(s) == CHOOSE x \in s : TRUE

LEMMA FirstIn ==
  ASSUME NEW s, s # {}
  PROVE  FirstOf(s) \in s
BY DEF FirstOf

\* The recursion that a fold stands for, with summands f.
Solves(h, S, f) == h = [s \in SUBSET S |-> IF s = {} THEN 0 ELSE f[FirstOf(s)] + h[s \ {FirstOf(s)}]]

\* G counts every subset of S, a member x with f[x].
GrowsBy(G, S, f) ==
  G \in [SUBSET S -> Nat] /\ G[{}] = 0 /\ \A s \in SUBSET S : \A x \in s : G[s] = f[x] + G[s \ {x}]

\* A recursion over the subsets of a finite set has one solution.
LEMMA OneSolution ==
  ASSUME NEW S, IsFiniteSet(S), NEW f, NEW G, NEW iter, Solves(iter, S, f),
         GrowsBy(G, S, f)
  PROVE  iter[S] = G[S]
<1>1. iter = [s \in SUBSET S |-> IF s = {} THEN 0 ELSE f[FirstOf(s)] + iter[s \ {FirstOf(s)}]]
  BY DEF Solves
<1>2. G[{}] = 0 /\ \A s \in SUBSET S : \A x \in s : G[s] = f[x] + G[s \ {x}]
  BY DEF GrowsBy
<1>3. ASSUME NEW s0 \in SUBSET S, iter[s0] # G[s0] PROVE FALSE
  <2> DEFINE K == {n \in Nat : \E s \in SUBSET S : Cardinality(s) = n /\ iter[s] # G[s]}
  <2>1. \A s \in SUBSET S : IsFiniteSet(s) /\ Cardinality(s) \in Nat
    BY FS_Subset, FS_CardinalityType
  <2>2. Cardinality(s0) \in K
    BY <1>3, <2>1
  <2>3. PICK n \in K : \A m \in K : n <= m
    <3>1. K \in SUBSET Nat /\ K # {}
      BY <2>2
    <3> HIDE DEF K
    <3>2. QED
      BY <3>1, Earliest
  <2>4. PICK s \in SUBSET S : Cardinality(s) = n /\ iter[s] # G[s]
    BY <2>3
  <2>5. s # {}
    <3>1. iter[{}] = 0
      BY <1>1
    <3>2. QED
      BY <1>2, <2>4, <3>1
  <2>6. PICK x : x = FirstOf(s)
    OBVIOUS
  <2>7. x \in s
    BY <2>5, <2>6, FirstIn
  <2>8. iter[s] = f[x] + iter[s \ {x}]
    BY <1>1, <2>5, <2>6
  <2>9. s \ {x} \in SUBSET S /\ Cardinality(s \ {x}) = n - 1
    BY <2>1, <2>4, <2>7, FS_RemoveElement
  <2>10. Cardinality(s \ {x}) \in Nat /\ n \in Nat
    BY <2>1, <2>3, <2>9
  <2>11. iter[s \ {x}] = G[s \ {x}]
    <3>1. n - 1 \notin K
      <4>1. n - 1 \in Int /\ ~(n <= n - 1)
        BY <2>10
      <4> HIDE DEF K
      <4>2. QED
        BY <2>3, <4>1
    <3>2. n - 1 \in Nat
      BY <2>9, <2>10
    <3>3. QED
      BY <2>9, <3>1, <3>2
  <2>12. G[s] = f[x] + G[s \ {x}]
    BY <1>2, <2>7
  <2>13. QED
    BY <2>4, <2>8, <2>11, <2>12
<1>4. S \in SUBSET S
  OBVIOUS
<1>5. QED
  BY <1>3, <1>4

LEMMA SolutionFound ==
  ASSUME NEW S, IsFiniteSet(S), NEW f, NEW G, GrowsBy(G, S, f)
  PROVE  (CHOOSE h : Solves(h, S, f))[S] = G[S]
<1>1. Solves(G, S, f)
  <2>1. \A s \in SUBSET S : s # {} => G[s] = f[FirstOf(s)] + G[s \ {FirstOf(s)}]
    BY FirstIn DEF GrowsBy
  <2>2. G = [s \in SUBSET S |-> G[s]] /\ G[{}] = 0
    BY DEF GrowsBy
  <2>3. \A s \in SUBSET S : G[s] = IF s = {} THEN 0 ELSE f[FirstOf(s)] + G[s \ {FirstOf(s)}]
    BY <2>1, <2>2
  <2>4. QED
    BY <2>2, <2>3 DEF Solves
<1>2. Solves(CHOOSE h : Solves(h, S, f), S, f)
  BY <1>1
<1>3. PICK iter : iter = CHOOSE h : Solves(h, S, f)
  OBVIOUS
<1>4. Solves(iter, S, f)
  BY <1>2, <1>3
<1>5. iter[S] = G[S]
  BY <1>4, OneSolution
<1>6. QED
  BY <1>3, <1>5

\* What a sum of second components over a finite set is, if G is what it is over each of its subsets.
LEMMA PairSumIs ==
  ASSUME NEW S, IsFiniteSet(S), NEW G, GrowsBy(G, S, [x \in S |-> x[2]])
  PROVE  MapThenSumSet(LAMBDA x : x[2], S) = G[S]
<1> DEFINE Second(h) == h = [s \in SUBSET S |-> IF s = {} THEN 0 ELSE FirstOf(s)[2] + h[s \ {FirstOf(s)}]]
<1>1. PICK f : f = [x \in S |-> x[2]]
  OBVIOUS
<1>2. ASSUME NEW h PROVE Second(h) <=> Solves(h, S, f)
  <2>1. \A s \in SUBSET S : s # {} => f[FirstOf(s)] = FirstOf(s)[2]
    BY <1>1, FirstIn
  <2>2. [s \in SUBSET S |-> IF s = {} THEN 0 ELSE FirstOf(s)[2] + h[s \ {FirstOf(s)}]]
          = [s \in SUBSET S |-> IF s = {} THEN 0 ELSE f[FirstOf(s)] + h[s \ {FirstOf(s)}]]
    BY <2>1
  <2>3. QED
    BY <2>2 DEF Solves
<1>3. MapThenSumSet(LAMBDA x : x[2], S) = (CHOOSE h : Second(h))[S]
  BY DEF MapThenSumSet, MapThenFoldSet, FirstOf
<1>4. (CHOOSE h : Second(h)) = (CHOOSE h : Solves(h, S, f))
  <2> HIDE DEF Second
  <2>1. QED
    BY <1>2
<1>5. (CHOOSE h : Solves(h, S, f))[S] = G[S]
  <2>1. GrowsBy(G, S, f)
    BY <1>1
  <2>2. QED
    BY <2>1, SolutionFound
<1>6. QED
  BY <1>3, <1>4, <1>5

\* Ranges of days: the first, and the day after the last.
Ranges == [from : Int, to : Int]

LEMMA CountsAdd ==
  ASSUME RowsTyped, NEW A, NEW B, A \cap B = {}
  PROVE  CountOf(A) \in Nat /\ CountOf(B) \in Nat /\ CountOf(A \cup B) = CountOf(A) + CountOf(B)
<1> DEFINE T(kind) == {t \in Filed : filed[t] \cap kind # {}}
<1>1. T(A \cup B) = T(A) \cup T(B)
  OBVIOUS
<1>2. T(A) \cap T(B) = {}
  <2> SUFFICES ASSUME NEW t \in Filed, filed[t] \cap A # {}, filed[t] \cap B # {} PROVE FALSE
    OBVIOUS
  <2>1. PICK c : filed[t] \subseteq {c}
    BY DEF RowsTyped
  <2>2. c \in A /\ c \in B
    BY <2>1
  <2>3. QED
    BY <2>2
<1>3. IsFiniteSet(T(A)) /\ IsFiniteSet(T(B))
  <2>1. T(A) \in SUBSET Filed /\ T(B) \in SUBSET Filed /\ IsFiniteSet(Filed)
    BY DEF RowsTyped
  <2> HIDE DEF T
  <2>2. QED
    BY <2>1, FS_Subset
<1>4. CountOf(A) = Cardinality(T(A)) /\ CountOf(B) = Cardinality(T(B)) /\ CountOf(A \cup B) = Cardinality(T(A \cup B))
  BY DEF CountOf
<1> HIDE DEF T
<1>5. Cardinality(T(A)) \in Nat /\ Cardinality(T(B)) \in Nat
  BY <1>3, FS_CardinalityType
<1>6. Cardinality(T(A) \cup T(B)) = Cardinality(T(A)) + Cardinality(T(B)) - Cardinality(T(A) \cap T(B))
  BY <1>3, FS_Union
<1>7. Cardinality(T(A) \cap T(B)) = 0
  <2>1. Cardinality({}) = 0
    BY FS_EmptySet
  <2>2. QED
    BY <1>2, <2>1
<1>8. PICK a, b, c : a = Cardinality(T(A)) /\ b = Cardinality(T(B)) /\ c = Cardinality(T(A \cup B))
  OBVIOUS
<1>9. a \in Nat /\ b \in Nat
  BY <1>5, <1>8
<1>10. c = a + b - 0
  BY <1>1, <1>6, <1>7, <1>8
<1>11. QED
  BY <1>4, <1>8, <1>9, <1>10

LEMMA NothingCounted == CountOf({}) = 0
<1>1. {t \in Filed : filed[t] \cap {} # {}} = {}
  OBVIOUS
<1>2. QED
  BY <1>1, FS_EmptySet DEF CountOf

LEMMA CountsNat ==
  ASSUME RowsTyped, NEW A
  PROVE  CountOf(A) \in Nat
<1>1. A \cap {} = {}
  OBVIOUS
<1>2. QED
  BY <1>1, CountsAdd

LEMMA CreatedTyped ==
  ASSUME RowsTyped, NEW range, NEW r \in CreatedRows(range)
  PROVE  r \in Row /\ Created(r, range)
<1>1. r \in Rows /\ Created(r, range)
  BY DEF CreatedRows
<1>2. PICK t \in Filed : r \in filed[t]
  BY <1>1 DEF Rows
<1>3. filed[t] \in SUBSET Row
  BY DEF RowsTyped
<1>4. QED
  BY <1>1, <1>2, <1>3

LEMMA FewFinite == IsFiniteSet(States) /\ IsFiniteSet(Levels)
<1>1. ASSUME NEW a, NEW b, NEW c, NEW d, NEW e PROVE IsFiniteSet({a, b, c, d, e})
  <2>1. IsFiniteSet({})
    BY FS_EmptySet
  <2>2. IsFiniteSet({} \cup {a})
    BY <2>1, FS_AddElement
  <2>3. IsFiniteSet({} \cup {a} \cup {b})
    BY <2>2, FS_AddElement
  <2>4. IsFiniteSet({} \cup {a} \cup {b} \cup {c})
    BY <2>3, FS_AddElement
  <2>5. IsFiniteSet({} \cup {a} \cup {b} \cup {c} \cup {d})
    BY <2>4, FS_AddElement
  <2>6. IsFiniteSet({} \cup {a} \cup {b} \cup {c} \cup {d} \cup {e})
    BY <2>5, FS_AddElement
  <2>7. {a, b, c, d, e} = {} \cup {a} \cup {b} \cup {c} \cup {d} \cup {e}
    OBVIOUS
  <2>8. QED
    BY <2>6, <2>7
<1>2. IsFiniteSet({"Open", "InProgress", "OnHold", "Resolved", "Closed"})
      /\ IsFiniteSet({"Low", "Medium", "High", "Critical", "Critical"})
  BY <1>1
<1>3. /\ States \in SUBSET {"Open", "InProgress", "OnHold", "Resolved", "Closed"}
      /\ Levels \in SUBSET {"Low", "Medium", "High", "Critical", "Critical"}
  BY DashboardAssumption
<1>4. QED
  BY <1>2, <1>3, FS_Subset

LEMMA StatusesAddUp ==
  ASSUME RowsTyped, NEW range
  PROVE  MapThenSumSet(LAMBDA s : StatusCounts(range)[s], States) = SlaStats(range).total
<1>1. PICK v : v = StatusCounts(range)
  OBVIOUS
<1>2. PICK C : C = CreatedRows(range)
  OBVIOUS
<1>3. PICK G : G = [S \in SUBSET States |-> CountOf({r \in C : r.status \in S})]
  OBVIOUS
<1>4. GrowsBy(G, States, v)
  <2>1. G \in [SUBSET States -> Nat]
    BY <1>3, CountsNat
  <2>2. G[{}] = 0
    <3>1. {r \in C : r.status \in {}} = {}
      OBVIOUS
    <3>2. QED
      BY <1>3, <3>1, NothingCounted
  <2>3. ASSUME NEW S \in SUBSET States, NEW x \in S PROVE G[S] = v[x] + G[S \ {x}]
    <3>1. PICK A : A = {r \in C : r.status = x}
      OBVIOUS
    <3>2. PICK B : B = {r \in C : r.status \in S \ {x}}
      OBVIOUS
    <3>3. A \cap B = {} /\ A \cup B = {r \in C : r.status \in S}
      BY <3>1, <3>2
    <3>4. v[x] = CountOf(A)
      BY <1>1, <1>2, <3>1 DEF StatusCounts
    <3>5. G[S \ {x}] = CountOf(B) /\ G[S] = CountOf(A \cup B)
      BY <1>3, <3>2, <3>3
    <3>6. CountOf(A \cup B) = CountOf(A) + CountOf(B)
      BY <3>3, CountsAdd
    <3>7. QED
      BY <3>4, <3>5, <3>6
  <2>4. QED
    BY <2>1, <2>2, <2>3 DEF GrowsBy
<1>5. IsFiniteSet(States)
  BY DashboardAssumption, FewFinite
<1>6. (CHOOSE h : Solves(h, States, v))[States] = G[States]
  BY <1>4, <1>5, SolutionFound
<1>7. MapThenSumSet(LAMBDA s : StatusCounts(range)[s], States) = (CHOOSE h : Solves(h, States, StatusCounts(range)))[States]
  BY DEF MapThenSumSet, MapThenFoldSet, Solves, FirstOf
<1>8. G[States] = CountOf(C)
  <2>1. \A r \in C : r.status \in States
    BY <1>2, CreatedTyped DEF Row
  <2>2. {r \in C : r.status \in States} = C
    BY <2>1
  <2>3. QED
    BY <1>3, <2>2
<1>9. SlaStats(range).total = CountOf(C)
  BY <1>2 DEF SlaStats
<1>10. QED
  BY <1>1, <1>6, <1>7, <1>8, <1>9

LEMMA PrioritiesAddUp ==
  ASSUME RowsTyped, NEW range
  PROVE  MapThenSumSet(LAMBDA l : PriorityCounts(range)[l], Levels) = SlaStats(range).total
<1>1. PICK v : v = PriorityCounts(range)
  OBVIOUS
<1>2. PICK C : C = CreatedRows(range)
  OBVIOUS
<1>3. PICK G : G = [S \in SUBSET Levels |-> CountOf({r \in C : r.priority \in S})]
  OBVIOUS
<1>4. GrowsBy(G, Levels, v)
  <2>1. G \in [SUBSET Levels -> Nat]
    BY <1>3, CountsNat
  <2>2. G[{}] = 0
    <3>1. {r \in C : r.priority \in {}} = {}
      OBVIOUS
    <3>2. QED
      BY <1>3, <3>1, NothingCounted
  <2>3. ASSUME NEW S \in SUBSET Levels, NEW x \in S PROVE G[S] = v[x] + G[S \ {x}]
    <3>1. PICK A : A = {r \in C : r.priority = x}
      OBVIOUS
    <3>2. PICK B : B = {r \in C : r.priority \in S \ {x}}
      OBVIOUS
    <3>3. A \cap B = {} /\ A \cup B = {r \in C : r.priority \in S}
      BY <3>1, <3>2
    <3>4. v[x] = CountOf(A)
      BY <1>1, <1>2, <3>1 DEF PriorityCounts
    <3>5. G[S \ {x}] = CountOf(B) /\ G[S] = CountOf(A \cup B)
      BY <1>3, <3>2, <3>3
    <3>6. CountOf(A \cup B) = CountOf(A) + CountOf(B)
      BY <3>3, CountsAdd
    <3>7. QED
      BY <3>4, <3>5, <3>6
  <2>4. QED
    BY <2>1, <2>2, <2>3 DEF GrowsBy
<1>5. IsFiniteSet(Levels)
  BY DashboardAssumption, FewFinite
<1>6. (CHOOSE h : Solves(h, Levels, v))[Levels] = G[Levels]
  BY <1>4, <1>5, SolutionFound
<1>7. MapThenSumSet(LAMBDA l : PriorityCounts(range)[l], Levels) = (CHOOSE h : Solves(h, Levels, PriorityCounts(range)))[Levels]
  BY DEF MapThenSumSet, MapThenFoldSet, Solves, FirstOf
<1>8. G[Levels] = CountOf(C)
  <2>1. \A r \in C : r.priority \in Levels
    BY <1>2, CreatedTyped DEF Row
  <2>2. {r \in C : r.priority \in Levels} = C
    BY <2>1
  <2>3. QED
    BY <1>3, <2>2
<1>9. SlaStats(range).total = CountOf(C)
  BY <1>2 DEF SlaStats
<1>10. QED
  BY <1>1, <1>6, <1>7, <1>8, <1>9

\* Weeks of Monday to Sunday.
LEMMA Mondays ==
  ASSUME NEW d \in Int, NEW c \in Int, c <= d
  PROVE  /\ Monday(d) \in Int /\ Monday(c) <= Monday(d) /\ Monday(d) <= d
         /\ (Monday(d) - Monday(c)) % 7 = 0
BY DEF Monday

\* No row of the range falls between the buckets of the trend.
LEMMA BucketsMeetAll ==
  ASSUME RowsTyped, NEW range \in Ranges, NEW weekly \in BOOLEAN, NEW r \in CreatedRows(range)
  PROVE  Bucket(r, weekly) \in TrendKeys(range, weekly)
<1>1. r.day \in Int /\ range.from \in Int /\ range.to \in Int /\ range.from <= r.day /\ r.day < range.to
  BY CreatedTyped DEF Row, Ranges, Created
<1>2. PICK d \in Int, c \in Int, e \in Int : d = r.day /\ c = range.from /\ e = range.to
  BY <1>1
<1>3. CASE weekly
  <2>1. Bucket(r, weekly) = Monday(d)
    BY <1>2, <1>3 DEF Bucket
  <2>2. /\ Monday(d) \in Int /\ Monday(c) <= Monday(d) /\ Monday(d) <= d
        /\ (Monday(d) - Monday(c)) % 7 = 0 /\ Monday(c) \in Int
    BY <1>1, <1>2, Mondays
  <2>3. Monday(d) \in Monday(c) .. e - 1
    BY <1>1, <1>2, <2>2
  <2>4. QED
    BY <1>2, <1>3, <2>1, <2>2, <2>3 DEF TrendKeys
<1>4. CASE ~weekly
  <2>1. d \in c .. e - 1
    BY <1>1, <1>2
  <2>2. QED
    BY <1>2, <1>4, <2>1 DEF TrendKeys, Bucket
<1>5. QED
  BY <1>3, <1>4

LEMMA TrendAddsUp ==
  ASSUME RowsTyped, NEW range \in Ranges, NEW weekly \in BOOLEAN
  PROVE  MapThenSumSet(LAMBDA x : x[2], Trend(range, weekly)) = SlaStats(range).total
<1>1. PICK C : C = CreatedRows(range)
  OBVIOUS
<1>2. PICK rows : rows = TrendRows(range, weekly)
  OBVIOUS
<1>3. PICK T : T = Trend(range, weekly)
  OBVIOUS
<1>4. PICK D : D = TrendKeys(range, weekly) \cap DOMAIN rows
  OBVIOUS
<1>5. T = {<<b, rows[b]>> : b \in D}
  BY <1>2, <1>3, <1>4 DEF Trend
<1>6. /\ DOMAIN rows = {Bucket(r, weekly) : r \in C}
      /\ \A b \in DOMAIN rows : rows[b] = CountOf({r \in C : Bucket(r, weekly) = b})
  BY <1>1, <1>2 DEF TrendRows
<1>7. PICK G : G = [s \in SUBSET T |-> CountOf({r \in C : \E x \in s : x[1] = Bucket(r, weekly)})]
  OBVIOUS
<1>8. PICK v : v = [x \in T |-> x[2]]
  OBVIOUS
<1>9. GrowsBy(G, T, v)
  <2>1. G \in [SUBSET T -> Nat]
    BY <1>7, CountsNat
  <2>2. G[{}] = 0
    <3>1. {r \in C : \E x \in {} : x[1] = Bucket(r, weekly)} = {}
      OBVIOUS
    <3>2. QED
      BY <1>7, <3>1, NothingCounted
  <2>3. ASSUME NEW s \in SUBSET T, NEW x \in s PROVE G[s] = v[x] + G[s \ {x}]
    <3>1. PICK A : A = {r \in C : Bucket(r, weekly) = x[1]}
      OBVIOUS
    <3>2. PICK B : B = {r \in C : \E y \in s \ {x} : y[1] = Bucket(r, weekly)}
      OBVIOUS
    <3>3. \A y \in s \ {x} : y[1] # x[1]
      <4> SUFFICES ASSUME NEW y \in s, y[1] = x[1] PROVE y = x
        OBVIOUS
      <4>1. PICK b \in D : x = <<b, rows[b]>>
        BY <1>5
      <4>2. PICK c \in D : y = <<c, rows[c]>>
        BY <1>5
      <4>3. QED
        BY <4>1, <4>2
    <3>4. A \cap B = {} /\ A \cup B = {r \in C : \E y \in s : y[1] = Bucket(r, weekly)}
      BY <3>1, <3>2, <3>3
    <3>5. v[x] = CountOf(A)
      <4>1. PICK b \in D : x = <<b, rows[b]>>
        BY <1>5
      <4>2. x[1] = b /\ v[x] = rows[b]
        BY <1>8, <4>1
      <4>3. rows[b] = CountOf({r \in C : Bucket(r, weekly) = b})
        BY <1>4, <1>6
      <4>4. QED
        BY <3>1, <4>2, <4>3
    <3>6. G[s \ {x}] = CountOf(B) /\ G[s] = CountOf(A \cup B)
      BY <1>7, <3>2, <3>4
    <3>7. CountOf(A \cup B) = CountOf(A) + CountOf(B)
      BY <3>4, CountsAdd
    <3>8. QED
      BY <3>5, <3>6, <3>7
  <2>4. QED
    BY <2>1, <2>2, <2>3 DEF GrowsBy
<1>10. IsFiniteSet(T)
  <2>1. IsFiniteSet(D)
    <3>1. PICK c \in Int, e \in Int : c = Monday(range.from) /\ e = range.to /\ c <= range.from
      BY Mondays DEF Ranges
    <3>2. TrendKeys(range, weekly) \subseteq c .. e - 1
      BY <3>1 DEF TrendKeys, Ranges
    <3>3. IsFiniteSet(c .. e - 1)
      BY FS_Interval
    <3>4. D \in SUBSET (c .. e - 1)
      BY <1>4, <3>2
    <3>5. QED
      BY <3>3, <3>4, FS_Subset
  <2>2. PICK f : f = [b \in D |-> <<b, rows[b]>>]
    OBVIOUS
  <2>3. f \in Surjection(D, T)
    BY <1>5, <2>2 DEF Surjection
  <2>4. QED
    BY <2>1, <2>3, FS_Surjection
<1>11. G[T] = CountOf(C)
  <2>1. ASSUME NEW r \in C PROVE \E x \in T : x[1] = Bucket(r, weekly)
    <3>1. Bucket(r, weekly) \in D
      BY <1>1, <1>4, <1>6, BucketsMeetAll
    <3>2. PICK b \in D : b = Bucket(r, weekly)
      BY <3>1
    <3>3. <<b, rows[b]>> \in T /\ <<b, rows[b]>>[1] = b
      BY <1>5
    <3>4. QED
      BY <3>2, <3>3
  <2>2. {r \in C : \E x \in T : x[1] = Bucket(r, weekly)} = C
    BY <2>1
  <2>3. QED
    BY <1>7, <2>2
<1>12. GrowsBy(G, T, [x \in T |-> x[2]])
  BY <1>8, <1>9
<1>13. MapThenSumSet(LAMBDA x : x[2], T) = G[T]
  BY <1>10, <1>12, PairSumIs
<1>14. SlaStats(range).total = CountOf(C)
  BY <1>1 DEF SlaStats
<1>15. QED
  BY <1>3, <1>11, <1>13, <1>14

LEMMA RateIsPercent ==
  ASSUME NEW a \in Nat, NEW t \in Nat, a <= t, t > 0
  PROVE  (200 * a + t) \div (2 * t) \in 0 .. 100
<1>1. PICK q : q = (200 * a + t) \div (2 * t)
  OBVIOUS
<1>2. PICK n : n = 200 * a + t
  OBVIOUS
<1>3. PICK d : d = 2 * t
  OBVIOUS
<1>4. n \in Nat /\ d \in Nat /\ d > 0 /\ 2 * n <= 201 * d
  BY <1>2, <1>3
<1>5. q = n \div d /\ q \in Int
  BY <1>1, <1>2, <1>3, <1>4
<1>6. d * q <= n /\ n < d * (q + 1)
  BY <1>4, <1>5
<1>7. q >= 0
  <2> SUFFICES ASSUME q + 1 <= 0 PROVE FALSE
    BY <1>5
  <2>1. d * (q + 1) <= 0
    BY <1>4, <1>5
  <2>2. QED
    BY <1>4, <1>5, <1>6, <2>1
<1>8. q <= 100
  <2> SUFFICES ASSUME q >= 101 PROVE FALSE
    BY <1>5
  <2>1. d * q >= d * 101
    BY <1>4, <1>5
  <2>2. QED
    BY <1>4, <1>5, <1>6, <2>1
<1>9. QED
  BY <1>1, <1>5, <1>7, <1>8

LEMMA RateBounded ==
  ASSUME RowsTyped, NEW range
  PROVE  ComplianceRate(SlaStats(range)) \in 0 .. 100
<1>1. PICK C : C = CreatedRows(range)
  OBVIOUS
<1>2. PICK A : A = {r \in C : r.sla = "OnTrack"}
  OBVIOUS
<1>3. PICK B : B = {r \in C : r.sla # "OnTrack"}
  OBVIOUS
<1>4. A \cap B = {} /\ A \cup B = C
  BY <1>2, <1>3
<1>5. PICK a, t : a = CountOf(A) /\ t = CountOf(C)
  OBVIOUS
<1>6. a \in Nat /\ t \in Nat /\ a <= t
  <2>1. CountOf(A) \in Nat /\ CountOf(B) \in Nat /\ CountOf(A \cup B) = CountOf(A) + CountOf(B)
    BY <1>4, CountsAdd
  <2>2. CountOf(A \cup B) = t
    BY <1>4, <1>5
  <2>3. QED
    BY <1>5, <2>1, <2>2
<1>7. SlaStats(range).total = t /\ SlaStats(range).onTrack = a
  BY <1>1, <1>2, <1>5 DEF SlaStats
<1>8. CASE t > 0
  <2>1. ComplianceRate(SlaStats(range)) = (200 * a + t) \div (2 * t)
    BY <1>7, <1>8 DEF ComplianceRate
  <2>2. QED
    BY <1>6, <1>8, <2>1, RateIsPercent
<1>9. CASE t = 0
  BY <1>7, <1>9 DEF ComplianceRate
<1>10. QED
  BY <1>6, <1>8, <1>9

LEMMA AddsUpHolds ==
  ASSUME RowsTyped, today \in Int
  PROVE  DashboardAddsUp
<1>1. ASSUME NEW range \in {RangeOf(k) : k \in Keys} \cup {[from |-> today - n, to |-> today + 1] : n \in 0 .. 8}
      PROVE  range \in Ranges
  <2>1. CASE \E k \in Keys : range = RangeOf(k)
    <3>1. PICK k \in Keys : range = RangeOf(k)
      BY <2>1
    <3>2. CASE k \in Presets
      <4>1. PresetDays[k] \in Int
        BY <3>2, DashboardAssumption DEF PresetDays
      <4>2. QED
        BY <3>1, <3>2, <4>1 DEF RangeOf, Ranges
    <3>3. CASE k \notin Presets
      <4>1. k.from \in Int /\ k.last \in Int
        BY <3>3, DashboardAssumption DEF Keys
      <4>2. QED
        BY <3>1, <3>3, <4>1 DEF RangeOf, Ranges
    <3>4. QED
      BY <3>2, <3>3
  <2>2. CASE \E n \in 0 .. 8 : range = [from |-> today - n, to |-> today + 1]
    BY <2>2 DEF Ranges
  <2>3. QED
    BY <1>1, <2>1, <2>2
<1>2. QED
  BY <1>1, StatusesAddUp, PrioritiesAddUp, TrendAddsUp, RateBounded DEF DashboardAddsUp

\* For any tickets, days and ranges: no ticket falls between the buckets of the trend, and the
\* trend, the statuses, the priorities and the SLA total count the same tickets.
THEOREM DashboardAddsUpCorrect == DashboardSpec => []DashboardAddsUp
<1>1. DashboardTyped => DashboardAddsUp
  BY AddsUpHolds, DashboardAssumption DEF DashboardTyped
<1>2. QED
  BY <1>1, DashboardStarts, DashboardSteps, PTL DEF DashboardSpec

-------------------------------------------------------------------------------
(* The window.                                                              *)

\* Every variable of the window is of its type throughout, the mutation under way too.
ConsoleTyped ==
  /\ ConsoleTypeOK
  /\ mutation \in [name : DOMAIN Mutations \cup {"none"}, page : PagesOf(viewer) \cup {"login", "none"}, done : BOOLEAN]

LEMMA TicketPages == \A r : {"ticket", "tickets"} \subseteq PagesOf(r)
BY DEF PagesOf

LEMMA ConsoleStarts == ConsoleInit => ConsoleTyped
<1> SUFFICES ASSUME ConsoleInit PROVE ConsoleTyped OBVIOUS
<1>1. fetch \in {"none", "asked"} BY DEF ConsoleInit
<1>2. QED BY <1>1 DEF ConsoleInit, ConsoleTyped, ConsoleTypeOK, NoMutation

LEMMA ConsoleSteps == ConsoleTyped /\ [ConsoleNext]_windowVars => ConsoleTyped'
<1> SUFFICES ASSUME ConsoleTyped, [ConsoleNext]_windowVars PROVE ConsoleTyped' OBVIOUS
<1> USE DEF ConsoleTyped, ConsoleTypeOK
<1>1. NoMutation \in [name : DOMAIN Mutations \cup {"none"}, page : PagesOf(viewer) \cup {"login", "none"}, done : BOOLEAN]
  BY DEF NoMutation
<1>2. CASE UNCHANGED windowVars BY <1>2 DEF windowVars
<1>3. ASSUME NEW p \in Anywhere, Visit(p) \/ Load(p) PROVE ConsoleTyped'
  BY <1>1, <1>3 DEF Visit, Load, Remount
<1>4. ASSUME NEW m \in DOMAIN Mutations, Mutate(m) PROVE ConsoleTyped'
  BY <1>4 DEF Mutate, boundVars
<1>5. ASSUME NEW told \in BOOLEAN, Elsewhere(told) PROVE ConsoleTyped'
  BY <1>5 DEF Elsewhere, ServerChanges, Aged
<1>6. CASE Bell \/ LogOut
  BY <1>1, <1>6 DEF Bell, LogOut, Remount, CacheCleared, boundVars
<1>7. CASE Commit
  BY <1>7 DEF Commit, ServerChanges, Aged
<1>8. CASE Succeed
  <2>1. UNCHANGED <<watched, viewer>> BY <1>8 DEF Succeed
  <2>2. CASE CacheCleared BY <1>1, <2>1, <2>2 DEF CacheCleared
  <2>3. CASE Invalidate /\ mutation' = NoMutation /\ UNCHANGED <<screen, bellOpen, data>>
    BY <1>1, <2>1, <2>3 DEF Invalidate
  <2>4. CASE /\ mutation' = NoMutation
             /\ (\E p \in {"ticket", "tickets"} : Remount(p, FALSE)) \/ UNCHANGED <<screen, bellOpen, fetch, lapses>>
             /\ UNCHANGED data
    <3>1. ASSUME NEW p \in {"ticket", "tickets"}, Remount(p, FALSE) PROVE ConsoleTyped'
      <4>1. p \in PagesOf(viewer) BY TicketPages
      <4>2. screen' = p /\ bellOpen' = FALSE /\ (fetch' = "asked" \/ fetch' = fetch)
            /\ (lapses' = lapses \cup {"joined"} \/ lapses' = lapses)
        BY <3>1 DEF Remount
      <4>3. QED BY <1>1, <2>1, <2>4, <4>1, <4>2
    <3>2. CASE UNCHANGED <<screen, bellOpen, fetch, lapses>> BY <1>1, <2>1, <2>4, <3>2
    <3>3. QED BY <2>4, <3>1, <3>2
  <2>5. \/ CacheCleared
        \/ Invalidate /\ mutation' = NoMutation /\ UNCHANGED <<screen, bellOpen, data>>
        \/ /\ mutation' = NoMutation
           /\ (\E p \in {"ticket", "tickets"} : Remount(p, FALSE)) \/ UNCHANGED <<screen, bellOpen, fetch, lapses>>
           /\ UNCHANGED data
    BY <1>8 DEF Succeed
  <2>6. QED BY <2>2, <2>3, <2>4, <2>5
<1>9. CASE Fail BY <1>1, <1>9 DEF Fail
<1>10. CASE Serve \/ Receive \/ FetchFails \/ Refetch
  BY <1>10 DEF Serve, Receive, FetchFails, Refetch, boundVars
<1>11. QED BY <1>2, <1>3, <1>4, <1>5, <1>6, <1>7, <1>8, <1>9, <1>10 DEF ConsoleNext

\* The variables of a window have their types: it never shows a page its reader's role may
\* not open (the router).
THEOREM ConsoleTypeCorrect == ConsoleSpec => []ConsoleTypeOK
<1>1. ConsoleTyped => ConsoleTypeOK
  BY DEF ConsoleTyped
<1>2. QED
  BY <1>1, ConsoleStarts, ConsoleSteps, PTL DEF ConsoleSpec

\* A sequence is a prefix of another if it agrees with it as far as it goes.
LEMMA Begins ==
  ASSUME NEW S, NEW s \in Seq(S), NEW t \in Seq(S), Len(s) <= Len(t), \A i \in 1 .. Len(s) : s[i] = t[i]
  PROVE  IsPrefix(s, t)
<1> DEFINE n == Len(s)
<1>1. n \in Nat /\ Len(t) \in Nat OBVIOUS
<1>2. \A i \in 1 .. n : s[i] \in S /\ t[i] \in S BY <1>1
<1>3. /\ SubSeq(s, 1, n) \in Seq(S) /\ Len(SubSeq(s, 1, n)) = n /\ \A i \in 1 .. n : SubSeq(s, 1, n)[i] = s[i]
      /\ SubSeq(t, 1, n) \in Seq(S) /\ Len(SubSeq(t, 1, n)) = n /\ \A i \in 1 .. n : SubSeq(t, 1, n)[i] = t[i]
  <2> HIDE DEF n
  <2>1. 1 \in Int /\ n \in Int BY <1>1
  <2>2. /\ SubSeq(s, 1, n) \in Seq(S) /\ Len(SubSeq(s, 1, n)) = IF 1 <= n THEN n - 1 + 1 ELSE 0
        /\ \A i \in 1 .. n - 1 + 1 : SubSeq(s, 1, n)[i] = s[1 + i - 1]
    BY <1>2, <2>1, SubSeqProperties
  <2>3. /\ SubSeq(t, 1, n) \in Seq(S) /\ Len(SubSeq(t, 1, n)) = IF 1 <= n THEN n - 1 + 1 ELSE 0
        /\ \A i \in 1 .. n - 1 + 1 : SubSeq(t, 1, n)[i] = t[1 + i - 1]
    BY <1>2, <2>1, SubSeqProperties
  <2>4. QED BY <1>1, <2>2, <2>3
<1>4. SubSeq(s, 1, n) = SubSeq(t, 1, n) BY <1>1, <1>3, SeqEqual
<1>5. QED BY <1>4 DEF IsPrefix

LEMMA OneOfTwo == ASSUME NEW a, NEW b PROVE IsPrefix(<<a>>, <<a, b>>)
<1>1. <<a>> \in Seq({a, b}) /\ <<a, b>> \in Seq({a, b}) OBVIOUS
<1>2. PICK s, t : s = <<a>> /\ t = <<a, b>> OBVIOUS
<1>3. Len(s) = 1 /\ Len(t) = 2 /\ \A i \in 1 .. 1 : s[i] = t[i] BY <1>2
<1>4. Len(s) <= Len(t) /\ \A i \in 1 .. Len(s) : s[i] = t[i] BY <1>3
<1>5. PICK S : s \in Seq(S) /\ t \in Seq(S) BY <1>1, <1>2
<1>6. IsPrefix(s, t) BY <1>4, <1>5, Begins
<1>7. QED BY <1>2, <1>6

LEMMA OneOfThree == ASSUME NEW a, NEW b, NEW c PROVE IsPrefix(<<a>>, <<a, b, c>>)
<1>1. <<a>> \in Seq({a, b, c}) /\ <<a, b, c>> \in Seq({a, b, c}) OBVIOUS
<1>2. PICK s, t : s = <<a>> /\ t = <<a, b, c>> OBVIOUS
<1>3. Len(s) = 1 /\ Len(t) = 3 /\ \A i \in 1 .. 1 : s[i] = t[i] BY <1>2
<1>4. Len(s) <= Len(t) /\ \A i \in 1 .. Len(s) : s[i] = t[i] BY <1>3
<1>5. PICK S : s \in Seq(S) /\ t \in Seq(S) BY <1>1, <1>2
<1>6. IsPrefix(s, t) BY <1>4, <1>5, Begins
<1>7. QED BY <1>2, <1>6

LEMMA TwoOfThree == ASSUME NEW a, NEW b, NEW c PROVE IsPrefix(<<a, b>>, <<a, b, c>>)
<1>1. <<a, b>> \in Seq({a, b, c}) /\ <<a, b, c>> \in Seq({a, b, c}) OBVIOUS
<1>2. PICK s, t : s = <<a, b>> /\ t = <<a, b, c>> OBVIOUS
<1>3. Len(s) = 2 /\ Len(t) = 3 /\ \A i \in 1 .. 2 : s[i] = t[i] BY <1>2
<1>4. Len(s) <= Len(t) /\ \A i \in 1 .. Len(s) : s[i] = t[i] BY <1>3
<1>5. PICK S : s \in Seq(S) /\ t \in Seq(S) BY <1>1, <1>2
<1>6. IsPrefix(s, t) BY <1>4, <1>5, Begins
<1>7. QED BY <1>2, <1>6

LEMMA Itself ==
  ASSUME NEW a, NEW b, NEW c
  PROVE  IsPrefix(<<a>>, <<a>>) /\ IsPrefix(<<a, b>>, <<a, b>>) /\ IsPrefix(<<a, b, c>>, <<a, b, c>>)
<1>1. \A k : Len(k) \in Int => IsPrefix(k, k) BY DEF IsPrefix
<1>2. Len(<<a>>) = 1 /\ Len(<<a, b>>) = 2 /\ Len(<<a, b, c>>) = 3 OBVIOUS
<1>3. QED BY <1>1, <1>2

LEMMA Domains ==
  /\ DOMAIN TicketMutations = {"create", "status", "assign", "priority", "delete", "comment", "commentWithFiles", "upload"}
  /\ DOMAIN UserMutations = {"addUser", "editUser", "removeUser"}
  /\ DOMAIN MasterMutations = {"category", "location"} /\ DOMAIN FaqMutations = {"faq"} /\ DOMAIN SlaMutations = {"sla"}
  /\ DOMAIN MaintenanceMutations = {"mode", "backup", "restore"} /\ DOMAIN NoticeMutations = {"read"}
  /\ DOMAIN PreferenceMutations = {"prefer"} /\ DOMAIN TelegramMutations = {"unlink", "telegram"}
BY DEF TicketMutations, UserMutations, MasterMutations, FaqMutations, SlaMutations, MaintenanceMutations,
       NoticeMutations, PreferenceMutations, TelegramMutations

\* No two files have a hook of the same name here.
LEMMA HooksApart == \A g, h \in Hooks : DOMAIN g \cap DOMAIN h # {} => g = h
BY Domains DEF Hooks

LEMMA HookIs ==
  ASSUME NEW h \in Hooks, NEW m \in DOMAIN h
  PROVE  m \in DOMAIN Mutations /\ Mutations[m] = h[m]
<1>1. m \in UNION {DOMAIN g : g \in Hooks} OBVIOUS
<1>2. (CHOOSE g \in Hooks : m \in DOMAIN g) = h
  <2>1. PICK c : c = CHOOSE g \in Hooks : m \in DOMAIN g OBVIOUS
  <2>2. \E g \in Hooks : m \in DOMAIN g OBVIOUS
  <2>3. (CHOOSE g \in Hooks : m \in DOMAIN g) \in Hooks /\ m \in DOMAIN (CHOOSE g \in Hooks : m \in DOMAIN g)
    <3> DEFINE P(g) == g \in Hooks /\ m \in DOMAIN g
    <3>1. P(CHOOSE g : P(g)) BY <2>2, Zenon
    <3>2. QED BY <3>1
  <2>4. c \in Hooks /\ m \in DOMAIN c BY <2>1, <2>3
  <2>5. QED BY <2>1, <2>4, HooksApart
<1>3. QED BY <1>1, <1>2 DEF Mutations

LEMMA MutationOf ==
  ASSUME NEW m \in DOMAIN Mutations
  PROVE  \E h \in Hooks : m \in DOMAIN h
BY DEF Mutations

LEMMA MutationHas == ASSUME NEW S, NEW T PROVE Mutation(S, T).changes = S /\ Mutation(S, T).drops = T
BY DEF Mutation

\* The hook of m drops key k.
HookDrops(m, k) == \E prefix \in Mutations[m].drops : IsPrefix(prefix, k)

LEMMA TicketHooks ==
  ASSUME NEW m \in DOMAIN TicketMutations, NEW k \in Mutations[m].changes
  PROVE  HookDrops(m, k) \/ (m = "delete" /\ k \in {TicketKey, CommentsKey, FilesKey})
<1>1. Mutations[m] = TicketMutations[m] BY HookIs DEF Hooks
<1>2. /\ IsPrefix(<<"tickets">>, TicketsKey) /\ IsPrefix(<<"dashboard", "stats">>, StatsKey)
      /\ IsPrefix(<<"ticket", "id">>, TicketKey) /\ IsPrefix(<<"ticket", "id", "comments">>, CommentsKey)
      /\ IsPrefix(<<"ticket", "id", "attachments">>, FilesKey)
  <2>1. IsPrefix(TicketKey, TicketKey) BY Itself DEF TicketKey
  <2>2. IsPrefix(CommentsKey, CommentsKey) /\ IsPrefix(FilesKey, FilesKey) BY Itself DEF CommentsKey, FilesKey
  <2>3. IsPrefix(<<"tickets">>, TicketsKey) BY OneOfTwo DEF TicketsKey
  <2>4. IsPrefix(<<"dashboard", "stats">>, StatsKey) BY TwoOfThree DEF StatsKey
  <2>5. QED BY <2>1, <2>2, <2>3, <2>4 DEF TicketKey, CommentsKey, FilesKey
<1>3. TicketViews = {TicketKey, TicketsKey, StatsKey} /\ TicketDrops = {<<"ticket", "id">>, <<"tickets">>, <<"dashboard", "stats">>}
  BY DEF TicketViews, TicketDrops
<1>4. CASE m \in {"status", "assign", "priority"}
  <2>1. Mutations[m] = Mutation(TicketViews, TicketDrops) BY <1>1, <1>4 DEF TicketMutations
  <2>2. QED BY <2>1, <1>2, <1>3, MutationHas DEF HookDrops
<1>5. CASE m = "create"
  <2>1. Mutations[m] = Mutation({TicketsKey, StatsKey}, {<<"tickets">>, <<"dashboard", "stats">>}) BY <1>1, <1>5 DEF TicketMutations
  <2>2. QED BY <2>1, <1>2, MutationHas DEF HookDrops
<1>6. CASE m = "delete"
  <2>1. Mutations[m] = Mutation(TicketViews \cup {CommentsKey, FilesKey}, {<<"tickets">>, <<"dashboard", "stats">>})
    BY <1>1, <1>6 DEF TicketMutations
  <2>2. QED BY <2>1, <1>2, <1>3, <1>6, MutationHas DEF HookDrops
<1>7. CASE m = "comment"
  <2>1. Mutations[m] = Mutation({CommentsKey}, {<<"ticket", "id", "comments">>}) BY <1>1, <1>7 DEF TicketMutations
  <2>2. QED BY <2>1, <1>2, MutationHas DEF HookDrops
<1>8. CASE m = "commentWithFiles"
  <2>1. Mutations[m] = Mutation({CommentsKey, FilesKey}, {<<"ticket", "id", "comments">>, <<"ticket", "id", "attachments">>})
    BY <1>1, <1>8 DEF TicketMutations
  <2>2. QED BY <2>1, <1>2, MutationHas DEF HookDrops
<1>9. CASE m = "upload"
  <2>1. Mutations[m] = Mutation({FilesKey}, {<<"ticket", "id", "attachments">>}) BY <1>1, <1>9 DEF TicketMutations
  <2>2. QED BY <2>1, <1>2, MutationHas DEF HookDrops
<1>10. QED BY <1>4, <1>5, <1>6, <1>7, <1>8, <1>9, Domains

\* A key begins with what a hook drops.
LEMMA Beginnings ==
  /\ \A k \in {UsersKey, AssignableKey, ActiveKey} : IsPrefix(<<"users">>, k)
  /\ IsPrefix(<<"tickets">>, TicketsKey) /\ IsPrefix(<<"dashboard", "stats">>, StatsKey)
  /\ IsPrefix(<<"categories">>, CategoriesKey) /\ IsPrefix(<<"locations">>, LocationsKey)
  /\ \A k \in FaqViews : IsPrefix(<<"faqs">>, k)
  /\ IsPrefix(<<"sla-configs">>, ConfigsKey)
  /\ IsPrefix(<<"maintenance", "mode">>, ModeKey) /\ IsPrefix(<<"maintenance", "backups">>, BackupsKey)
  /\ IsPrefix(<<"notifications">>, InboxKey) /\ IsPrefix(<<"notifications">>, DropdownKey)
  /\ IsPrefix(<<"notifications-unread-count">>, UnreadKey)
  /\ IsPrefix(<<"notification-preferences">>, PreferencesKey)
  /\ IsPrefix(<<"telegram-status">>, StatusKey) /\ IsPrefix(<<"telegram-config">>, ConfigKey)
<1>1. \A k \in {UsersKey, AssignableKey, ActiveKey} : IsPrefix(<<"users">>, k)
  BY OneOfTwo DEF UsersKey, AssignableKey, ActiveKey
<1>2. IsPrefix(<<"tickets">>, TicketsKey) /\ IsPrefix(<<"dashboard", "stats">>, StatsKey)
  BY OneOfTwo, TwoOfThree DEF TicketsKey, StatsKey
<1>3. IsPrefix(<<"categories">>, CategoriesKey) /\ IsPrefix(<<"locations">>, LocationsKey)
  BY OneOfTwo, Itself DEF CategoriesKey, LocationsKey
<1>4. \A k \in FaqViews : IsPrefix(<<"faqs">>, k)
  <2>1. FaqViews = {<<"faqs", f>> : f \in {"public", "admin", "recommendations", "analytics"}} BY DEF FaqViews, FaqsKeys
  <2>2. QED BY <2>1, OneOfTwo
<1>5. IsPrefix(<<"sla-configs">>, ConfigsKey) BY Itself DEF ConfigsKey
<1>6. IsPrefix(<<"maintenance", "mode">>, ModeKey) /\ IsPrefix(<<"maintenance", "backups">>, BackupsKey)
  BY Itself DEF ModeKey, BackupsKey
<1>7. IsPrefix(<<"notifications">>, InboxKey) /\ IsPrefix(<<"notifications">>, DropdownKey)
  BY OneOfTwo DEF InboxKey, DropdownKey
<1>8. IsPrefix(<<"notifications-unread-count">>, UnreadKey) /\ IsPrefix(<<"notification-preferences">>, PreferencesKey)
  BY Itself DEF UnreadKey, PreferencesKey
<1>9. IsPrefix(<<"telegram-status">>, StatusKey) /\ IsPrefix(<<"telegram-config">>, ConfigKey)
  BY Itself DEF StatusKey, ConfigKey
<1>10. QED BY <1>1, <1>2, <1>3, <1>4, <1>5, <1>6, <1>7, <1>8, <1>9

LEMMA UserHooks ==
  ASSUME NEW m \in DOMAIN UserMutations, NEW k \in Mutations[m].changes
  PROVE  HookDrops(m, k) \/ (m = "editUser" /\ k = TicketKey)
<1>1. Mutations[m] = UserMutations[m] BY HookIs DEF Hooks
<1>2. CASE m \in {"addUser", "removeUser"}
  <2>1. Mutations[m] = Mutation({UsersKey, AssignableKey, ActiveKey}, {<<"users">>}) BY <1>1, <1>2 DEF UserMutations
  <2>2. QED BY <2>1, Beginnings, MutationHas DEF HookDrops
<1>3. CASE m = "editUser"
  <2>1. Mutations[m] = Mutation(UserViews, {<<"users">>, <<"tickets">>, <<"users", "assignable">>})
    BY <1>1, <1>3 DEF UserMutations
  <2>2. k \in {UsersKey, AssignableKey, ActiveKey, TicketsKey, TicketKey} BY <2>1, MutationHas DEF UserViews
  <2>3. QED BY <1>3, <2>1, <2>2, Beginnings, MutationHas DEF HookDrops
<1>4. QED BY <1>2, <1>3, Domains

LEMMA OtherHooks ==
  ASSUME NEW m \in DOMAIN Mutations \ (DOMAIN TicketMutations \cup DOMAIN UserMutations \cup {"restore"}),
         NEW k \in Mutations[m].changes
  PROVE  HookDrops(m, k) \/ (m \in {"category", "location", "sla"} /\ k \in {TicketKey, TicketsKey})
         \/ (m = "category" /\ k = ConfigsKey)
<1>1. PICK h \in Hooks : m \in DOMAIN h BY MutationOf
<1>2. Mutations[m] = h[m] BY <1>1, HookIs
<1>3. CASE h = MasterMutations
  <2>1. CASE m = "category"
    <3>1. Mutations[m] = Mutation({CategoriesKey, ConfigsKey, TicketsKey, TicketKey}, {<<"categories">>})
      BY <1>2, <1>3, <2>1 DEF MasterMutations
    <3>2. QED BY <2>1, <3>1, Beginnings, MutationHas DEF HookDrops
  <2>2. CASE m = "location"
    <3>1. Mutations[m] = Mutation({LocationsKey, TicketsKey, TicketKey}, {<<"locations">>})
      BY <1>2, <1>3, <2>2 DEF MasterMutations
    <3>2. QED BY <2>2, <3>1, Beginnings, MutationHas DEF HookDrops
  <2>3. QED BY <1>1, <1>3, <2>1, <2>2, Domains
<1>4. CASE h = FaqMutations
  <2>1. Mutations[m] = Mutation(FaqViews, {<<"faqs">>}) BY <1>1, <1>2, <1>4, Domains DEF FaqMutations
  <2>2. QED BY <2>1, Beginnings, MutationHas DEF HookDrops
<1>5. CASE h = SlaMutations
  <2>1. m = "sla" BY <1>1, <1>5, Domains
  <2>2. Mutations[m] = Mutation({ConfigsKey, StatsKey, TicketsKey, TicketKey}, {<<"sla-configs">>, <<"dashboard", "stats">>})
    BY <1>2, <1>5, <2>1 DEF SlaMutations
  <2>3. QED BY <2>1, <2>2, Beginnings, MutationHas DEF HookDrops
<1>6. CASE h = MaintenanceMutations
  <2>1. CASE m = "mode"
    <3>1. Mutations[m] = Mutation({ModeKey}, {<<"maintenance", "mode">>}) BY <1>2, <1>6, <2>1 DEF MaintenanceMutations
    <3>2. QED BY <3>1, Beginnings, MutationHas DEF HookDrops
  <2>2. CASE m = "backup"
    <3>1. Mutations[m] = Mutation({BackupsKey}, {<<"maintenance", "backups">>}) BY <1>2, <1>6, <2>2 DEF MaintenanceMutations
    <3>2. QED BY <3>1, Beginnings, MutationHas DEF HookDrops
  <2>3. QED BY <1>1, <1>6, <2>1, <2>2, Domains
<1>7. CASE h = NoticeMutations
  <2>1. Mutations[m] = Mutation(NoticeViews, {<<"notifications">>, <<"notifications-unread-count">>})
    BY <1>1, <1>2, <1>7, Domains DEF NoticeMutations
  <2>2. k \in {InboxKey, DropdownKey, UnreadKey} BY <2>1, MutationHas DEF NoticeViews
  <2>3. QED BY <2>1, <2>2, Beginnings, MutationHas DEF HookDrops
<1>8. CASE h = PreferenceMutations
  <2>1. Mutations[m] = Mutation({PreferencesKey}, {<<"notification-preferences">>})
    BY <1>1, <1>2, <1>8, Domains DEF PreferenceMutations
  <2>2. QED BY <2>1, Beginnings, MutationHas DEF HookDrops
<1>9. CASE h = TelegramMutations
  <2>1. CASE m = "unlink"
    <3>1. Mutations[m] = Mutation({StatusKey}, {<<"telegram-status">>}) BY <1>2, <1>9, <2>1 DEF TelegramMutations
    <3>2. QED BY <3>1, Beginnings, MutationHas DEF HookDrops
  <2>2. CASE m = "telegram"
    <3>1. Mutations[m] = Mutation({ConfigKey}, {<<"telegram-config">>}) BY <1>2, <1>9, <2>2 DEF TelegramMutations
    <3>2. QED BY <3>1, Beginnings, MutationHas DEF HookDrops
  <2>3. QED BY <1>1, <1>9, <2>1, <2>2, Domains
<1>10. h \notin {TicketMutations, UserMutations} BY <1>1
<1>11. QED BY <1>3, <1>4, <1>5, <1>6, <1>7, <1>8, <1>9, <1>10 DEF Hooks

LEMMA TogetherWithin ==
  ASSUME NEW V, NEW Q
  PROVE  /\ (\A v \in V : v.queries \subseteq Q) => Together(V).queries \subseteq Q
         /\ (\A v \in V : v.offers \subseteq Q) => Together(V).offers \subseteq Q
<1>1. Together(V).queries = UNION {v.queries : v \in V} /\ Together(V).offers = UNION {v.offers : v \in V}
  BY DEF Together, View
<1>2. QED BY <1>1

LEMMA ViewHas == ASSUME NEW Q, NEW O PROVE View(Q, O).queries = Q /\ View(Q, O).offers = O
BY DEF View

\* Keys of tickets, and of what the pages of master data, users and the ticket list show.
LEMMA KeysApart ==
  /\ {TicketKey, CommentsKey, FilesKey} \cap
       {TicketsKey, CategoriesKey, LocationsKey, ActiveKey, AssignableKey, UnreadKey, ModeKey, DropdownKey} = {}
  /\ {TicketKey, TicketsKey} \cap {UsersKey, CategoriesKey, LocationsKey, ConfigsKey, UnreadKey, ModeKey, DropdownKey} = {}
  /\ ConfigsKey \notin {CategoriesKey, UnreadKey, ModeKey, DropdownKey}
  /\ {TicketKey, CommentsKey, FilesKey} \cap
       ({StatsKey, InboxKey, PreferencesKey, StatusKey, ConfigKey, UsersKey, ConfigsKey, BackupsKey} \cup FaqViews) = {}
BY DEF StatsKey, InboxKey, PreferencesKey, StatusKey, ConfigKey, BackupsKey, FaqViews, FaqsKeys, TicketKey, CommentsKey, FilesKey, TicketsKey, CategoriesKey, LocationsKey, ActiveKey, AssignableKey,
       UnreadKey, ModeKey, DropdownKey, UsersKey, ConfigsKey

\* What surrounds a page.
LEMMA Frame ==
  ASSUME NEW p, NEW r, NEW open \in BOOLEAN, NEW Q, NEW O,
         PageOf(p, r).queries \subseteq Q, PageOf(p, r).offers \subseteq O
  PROVE  /\ OnPage(p, r, open).queries \subseteq Q \cup {UnreadKey, ModeKey, DropdownKey}
         /\ OnPage(p, r, open).offers \subseteq O \cup {"read"}
<1> DEFINE Q2 == Q \cup {UnreadKey, ModeKey, DropdownKey}
           O2 == O \cup {"read"}
<1>1. Layout.queries = {UnreadKey} /\ Layout.offers = {} /\ MaintenanceBanner.queries = {ModeKey} /\ MaintenanceBanner.offers = {}
  BY ViewHas DEF Layout, MaintenanceBanner
<1>2. Navbar(open).queries \subseteq {DropdownKey} /\ Navbar(open).offers \subseteq {"read"}
  BY ViewHas DEF Navbar
<1>3. \A v \in {PageOf(p, r), Layout, MaintenanceBanner, Navbar(open)} : v.queries \subseteq Q2 /\ v.offers \subseteq O2
  BY <1>1, <1>2
<1>4. QED
  <2>1. CASE p = "login" BY <2>1 DEF OnPage
  <2>2. CASE p # "login"
    <3>1. OnPage(p, r, open) = Together({PageOf(p, r), Layout, MaintenanceBanner, Navbar(open)}) BY <2>2 DEF OnPage
    <3>2. QED BY <3>1, <1>3, TogetherWithin
  <2>3. QED BY <2>1, <2>2

LEMMA TicketPagesShow ==
  ASSUME NEW r
  PROVE  /\ TicketList(r).queries \subseteq {CategoriesKey, LocationsKey, ActiveKey, TicketsKey, AssignableKey}
         /\ TicketList(r).offers \subseteq {"assign", "priority", "delete"}
         /\ TicketDetail(r).offers \subseteq {"comment", "commentWithFiles", "upload", "status", "assign", "delete"}
         /\ CreateTicketForm.offers \subseteq {"create", "upload"}
<1>1. \A S, T : Only(S, r, T) \subseteq T BY DEF Only
<1>2. TicketFilters.queries = {CategoriesKey, LocationsKey, ActiveKey} /\ TicketFilters.offers = {} BY ViewHas DEF TicketFilters
<1>3. /\ TicketList(r).queries \subseteq {CategoriesKey, LocationsKey, ActiveKey, TicketsKey, AssignableKey}
      /\ TicketList(r).offers \subseteq {"assign", "priority", "delete"}
  <2>1. PICK v : v = View({TicketsKey} \cup Only(Staff, r, {AssignableKey}),
                         Only(Staff, r, {"assign", "priority"}) \cup Only({"Admin"}, r, {"delete"})) OBVIOUS
  <2>2. v.queries \subseteq {TicketsKey, AssignableKey} /\ v.offers \subseteq {"assign", "priority", "delete"}
    BY <1>1, <2>1, ViewHas
  <2>3. TicketList(r) = Together({TicketFilters, v}) BY <2>1 DEF TicketList
  <2>4. \A w \in {TicketFilters, v} : /\ w.queries \subseteq {CategoriesKey, LocationsKey, ActiveKey, TicketsKey, AssignableKey}
                                     /\ w.offers \subseteq {"assign", "priority", "delete"}
    BY <1>2, <2>2
  <2>5. QED BY <2>3, <2>4, TogetherWithin
<1>4. TicketDetail(r).offers \subseteq {"comment", "commentWithFiles", "upload", "status", "assign", "delete"}
  <2>1. PICK v : v = View({TicketKey} \cup Only(Staff, r, {AssignableKey}),
       {"status"} \cup Only(Staff, r, {"assign"}) \cup Only({"Admin"}, r, {"delete"})) OBVIOUS
  <2>2. v.offers \subseteq {"status", "assign", "delete"} BY <1>1, <2>1, ViewHas
  <2>3. CommentSection.offers = {"comment", "commentWithFiles"} /\ AttachmentList.offers = {"upload"}
    BY ViewHas DEF CommentSection, AttachmentList
  <2>4. TicketDetail(r) = Together({CommentSection, AttachmentList, v}) BY <2>1 DEF TicketDetail
  <2>5. \A w \in {CommentSection, AttachmentList, v} :
          w.offers \subseteq {"comment", "commentWithFiles", "upload", "status", "assign", "delete"}
    BY <2>2, <2>3
  <2>6. QED BY <2>4, <2>5, TogetherWithin
<1>5. CreateTicketForm.offers \subseteq {"create", "upload"}
  <2>1. PICK v : v = View({CategoriesKey, LocationsKey}, {"create", "upload"}) OBVIOUS
  <2>2. TicketSolutionSuggestions.offers = {} /\ v.offers = {"create", "upload"} BY <2>1, ViewHas DEF TicketSolutionSuggestions
  <2>3. CreateTicketForm = Together({TicketSolutionSuggestions, v}) BY <2>1 DEF CreateTicketForm
  <2>4. \A w \in {TicketSolutionSuggestions, v} : w.offers \subseteq {"create", "upload"} BY <2>2
  <2>5. QED BY <2>3, <2>4, TogetherWithin
<1>6. QED BY <1>3, <1>4, <1>5

LEMMA OtherPagesOffer ==
  ASSUME NEW r
  PROVE  /\ MyAccountPage(r).offers \subseteq {"prefer", "unlink", "telegram"}
         /\ FaqManager.offers \subseteq {"faq"} /\ AdminMaintenancePage.offers \subseteq {"backup", "restore", "mode"}
<1>1. MyAccountPage(r).offers \subseteq {"prefer", "unlink", "telegram"}
  <2>1. NotificationPreferencesSection.offers = {"prefer"} /\ TelegramConfigSection.offers = {"unlink", "telegram"}
    BY ViewHas DEF NotificationPreferencesSection, TelegramConfigSection
  <2>2. \A v \in {NotificationPreferencesSection} \cup Only({"Admin"}, r, {TelegramConfigSection}) :
          v.offers \subseteq {"prefer", "unlink", "telegram"}
    BY <2>1 DEF Only
  <2>3. QED BY <2>2, TogetherWithin DEF MyAccountPage
<1>2. FaqManager.offers \subseteq {"faq"}
  <2>1. PICK v : v = View({FaqsKeys["admin"], CategoriesKey}, {"faq"}) OBVIOUS
  <2>2. FaqAnalyticsSummary.offers = {} /\ v.offers = {"faq"} BY <2>1, ViewHas DEF FaqAnalyticsSummary
  <2>3. FaqManager = Together({FaqAnalyticsSummary, v}) BY <2>1 DEF FaqManager
  <2>4. \A w \in {FaqAnalyticsSummary, v} : w.offers \subseteq {"faq"} BY <2>2
  <2>5. QED BY <2>3, <2>4, TogetherWithin
<1>3. AdminMaintenancePage.offers \subseteq {"backup", "restore", "mode"}
  <2>1. PICK v : v = View({ModeKey}, {"mode"}) OBVIOUS
  <2>2. BackupManager.offers = {"backup", "restore"} /\ v.offers = {"mode"} BY <2>1, ViewHas DEF BackupManager
  <2>3. AdminMaintenancePage = Together({BackupManager, v}) BY <2>1 DEF AdminMaintenancePage
  <2>4. \A w \in {BackupManager, v} : w.offers \subseteq {"backup", "restore", "mode"} BY <2>2
  <2>5. QED BY <2>3, <2>4, TogetherWithin
<1>4. QED BY <1>1, <1>2, <1>3

\* The mutations whose hooks leave something out are offered where it is not shown; but a
\* ticket may be deleted on its own page, which is left then.
LEMMA Covered ==
  ASSUME NEW r \in AnyRole, NEW p \in PagesOf(r) \cup {"login"}, NEW open \in BOOLEAN, NEW shut \in BOOLEAN,
         NEW m \in DOMAIN Mutations, m \in OnPage(p, r, open).offers, m # "restore",
         NEW k \in MountedQueries(p, r, shut), k \in Mutations[m].changes
  PROVE  HookDrops(m, k) \/ (m = "delete" /\ p = "ticket" /\ k \in {TicketKey, CommentsKey, FilesKey})
<1> DEFINE Special == {"delete", "editUser", "category", "location", "sla"}
<1>1. \/ HookDrops(m, k) \/ (m = "delete" /\ k \in {TicketKey, CommentsKey, FilesKey})
      \/ m \in {"editUser", "category", "location", "sla"} /\ k \in {TicketKey, TicketsKey}
      \/ m = "category" /\ k = ConfigsKey
  BY TicketHooks, UserHooks, OtherHooks
<1>2. p \in AdminPages \cup {"tickets", "new", "ticket", "notifications", "account", "dashboard", "login"}
  BY DEF PagesOf
<1>3. \A O : PageOf(p, r).offers \subseteq O => m \in O \cup {"read"}
  <2>1. ASSUME NEW O, PageOf(p, r).offers \subseteq O PROVE m \in O \cup {"read"}
    <3>1. OnPage(p, r, open).offers \subseteq O \cup {"read"} BY <2>1, Frame
    <3>2. QED BY <3>1
  <2>2. QED BY <2>1
<1>4. \A Q : PageOf(p, r).queries \subseteq Q => k \in Q \cup {UnreadKey, ModeKey, DropdownKey}
  <2>1. ASSUME NEW Q, PageOf(p, r).queries \subseteq Q PROVE k \in Q \cup {UnreadKey, ModeKey, DropdownKey}
    <3>1. OnPage(p, r, shut).queries \subseteq Q \cup {UnreadKey, ModeKey, DropdownKey} BY <2>1, Frame
    <3>2. QED BY <3>1 DEF MountedQueries
  <2>2. QED BY <2>1
<1>5. CASE p = "tickets"
  <2>1. PageOf(p, r) = TicketList(r) BY <1>5 DEF PageOf
  <2>2. m \in {"assign", "priority", "delete", "read"} BY <1>3, <2>1, TicketPagesShow
  <2>3. k \in {CategoriesKey, LocationsKey, ActiveKey, TicketsKey, AssignableKey} \cup {UnreadKey, ModeKey, DropdownKey}
    BY <1>4, <2>1, TicketPagesShow
  <2>4. QED BY <1>1, <2>2, <2>3, KeysApart
<1>6. CASE p = "ticket"
  <2>1. PageOf(p, r) = TicketDetail(r) BY <1>6 DEF PageOf
  <2>2. m \in {"comment", "commentWithFiles", "upload", "status", "assign", "delete", "read"} BY <1>3, <2>1, TicketPagesShow
  <2>3. QED BY <1>1, <1>6, <2>2
<1>7. CASE p = "new"
  <2>1. PageOf(p, r) = CreateTicketForm BY <1>7 DEF PageOf
  <2>2. QED BY <1>1, <1>3, <2>1, TicketPagesShow
<1>8. CASE p \in {"login", "dashboard", "notifications"}
  <2>1. PageOf(p, r) \in {FaqSection, DashboardStats, NotificationsPage} BY <1>8 DEF PageOf
  <2>2. PageOf(p, r).offers \subseteq {"read"} BY <2>1, ViewHas DEF FaqSection, DashboardStats, NotificationsPage
  <2>3. QED BY <1>1, <1>3, <2>2
<1>9. CASE p \in {"account", "faqs", "maintenance"}
  <2>1. PageOf(p, r) \in {MyAccountPage(r), FaqManager, AdminMaintenancePage} BY <1>9 DEF PageOf
  <2>2. PageOf(p, r).offers \subseteq {"prefer", "unlink", "telegram", "faq", "backup", "restore", "mode"}
    BY <2>1, OtherPagesOffer
  <2>3. QED BY <1>1, <1>3, <2>2
<1>10. CASE p = "users"
  <2>1. PageOf(p, r) = UserManagement BY <1>10 DEF PageOf
  <2>2. PageOf(p, r).queries = {UsersKey} /\ PageOf(p, r).offers = {"addUser", "editUser", "removeUser"}
    BY <2>1, ViewHas DEF UserManagement
  <2>3. QED BY <1>1, <1>3, <1>4, <2>2, KeysApart
<1>11. CASE p = "categories"
  <2>1. PageOf(p, r) = CategoryManager BY <1>11 DEF PageOf
  <2>2. PageOf(p, r).queries = {CategoriesKey} /\ PageOf(p, r).offers = {"category"} BY <2>1, ViewHas DEF CategoryManager
  <2>3. QED BY <1>1, <1>3, <1>4, <2>2, KeysApart
<1>12. CASE p = "locations"
  <2>1. PageOf(p, r) = LocationManager BY <1>12 DEF PageOf
  <2>2. PageOf(p, r).queries = {LocationsKey} /\ PageOf(p, r).offers = {"location"} BY <2>1, ViewHas DEF LocationManager
  <2>3. QED BY <1>1, <1>3, <1>4, <2>2, KeysApart
<1>13. CASE p = "sla"
  <2>1. PageOf(p, r) = SLAConfigManager BY <1>13 DEF PageOf
  <2>2. PageOf(p, r).queries = {ConfigsKey, CategoriesKey} /\ PageOf(p, r).offers = {"sla"} BY <2>1, ViewHas DEF SLAConfigManager
  <2>3. QED BY <1>1, <1>3, <1>4, <2>2, KeysApart
<1>14. QED BY <1>2, <1>5, <1>6, <1>7, <1>8, <1>9, <1>10, <1>11, <1>12, <1>13 DEF AdminPages

\* What is shown of a ticket is shown on its page only.
LEMMA OnlyOnTicket ==
  ASSUME NEW r \in AnyRole, NEW p \in PagesOf(r) \cup {"login"}, p # "ticket", NEW open \in BOOLEAN
  PROVE  MountedQueries(p, r, open) \cap {TicketKey, CommentsKey, FilesKey} = {}
<1> DEFINE Own == {TicketKey, CommentsKey, FilesKey}
           Elsewheres == {TicketsKey, CategoriesKey, LocationsKey, ActiveKey, AssignableKey, ModeKey, StatsKey, InboxKey,
                          PreferencesKey, StatusKey, ConfigKey, UsersKey, ConfigsKey, BackupsKey} \cup FaqViews
<1>1. Own \cap (Elsewheres \cup {UnreadKey, ModeKey, DropdownKey}) = {} BY KeysApart
<1>2. \A f \in DOMAIN FaqsKeys : FaqsKeys[f] \in FaqViews BY DEF FaqViews
<1>3. DOMAIN FaqsKeys = {"public", "admin", "recommendations", "analytics"} BY DEF FaqsKeys
<1>4. p \in AdminPages \cup {"tickets", "new", "notifications", "account", "dashboard", "login"}
  BY DEF PagesOf
<1>5. PageOf(p, r).queries \subseteq Elsewheres
  <2>1. CASE p = "tickets"
    <3>1. PageOf(p, r) = TicketList(r) BY <2>1 DEF PageOf
    <3>2. QED BY <3>1, TicketPagesShow
  <2>2. CASE p = "new"
    <3>1. PageOf(p, r) = CreateTicketForm BY <2>2 DEF PageOf
    <3>2. PICK v : v = View({CategoriesKey, LocationsKey}, {"create", "upload"}) OBVIOUS
    <3>3. TicketSolutionSuggestions.queries = {FaqsKeys["recommendations"]} /\ v.queries = {CategoriesKey, LocationsKey}
      BY <3>2, ViewHas DEF TicketSolutionSuggestions
    <3>4. \A w \in {TicketSolutionSuggestions, v} : w.queries \subseteq Elsewheres BY <1>2, <1>3, <3>3
    <3>5. CreateTicketForm = Together({TicketSolutionSuggestions, v}) BY <3>2 DEF CreateTicketForm
    <3>6. QED BY <3>1, <3>4, <3>5, TogetherWithin
  <2>3. CASE p \in {"login", "dashboard", "notifications"}
    <3>1. PageOf(p, r) \in {FaqSection, DashboardStats, NotificationsPage} BY <2>3 DEF PageOf
    <3>2. PageOf(p, r).queries \subseteq {FaqsKeys["public"], StatsKey, InboxKey}
      BY <3>1, ViewHas DEF FaqSection, DashboardStats, NotificationsPage
    <3>3. QED BY <1>2, <1>3, <3>2
  <2>4. CASE p = "account"
    <3>1. PageOf(p, r) = MyAccountPage(r) BY <2>4 DEF PageOf
    <3>2. NotificationPreferencesSection.queries = {PreferencesKey} /\ TelegramConfigSection.queries = {StatusKey, ConfigKey}
      BY ViewHas DEF NotificationPreferencesSection, TelegramConfigSection
    <3>3. \A v \in {NotificationPreferencesSection} \cup Only({"Admin"}, r, {TelegramConfigSection}) : v.queries \subseteq Elsewheres
      BY <3>2 DEF Only
    <3>4. QED BY <3>1, <3>3, TogetherWithin DEF MyAccountPage
  <2>5. CASE p = "faqs"
    <3>1. PageOf(p, r) = FaqManager BY <2>5 DEF PageOf
    <3>2. PICK v : v = View({FaqsKeys["admin"], CategoriesKey}, {"faq"}) OBVIOUS
    <3>3. FaqAnalyticsSummary.queries = {FaqsKeys["analytics"]} /\ v.queries = {FaqsKeys["admin"], CategoriesKey}
      BY <3>2, ViewHas DEF FaqAnalyticsSummary
    <3>4. \A w \in {FaqAnalyticsSummary, v} : w.queries \subseteq Elsewheres BY <1>2, <1>3, <3>3
    <3>5. FaqManager = Together({FaqAnalyticsSummary, v}) BY <3>2 DEF FaqManager
    <3>6. QED BY <3>1, <3>4, <3>5, TogetherWithin
  <2>6. CASE p = "maintenance"
    <3>1. PageOf(p, r) = AdminMaintenancePage BY <2>6 DEF PageOf
    <3>2. PICK v : v = View({ModeKey}, {"mode"}) OBVIOUS
    <3>3. BackupManager.queries = {BackupsKey} /\ v.queries = {ModeKey} BY <3>2, ViewHas DEF BackupManager
    <3>4. \A w \in {BackupManager, v} : w.queries \subseteq Elsewheres BY <3>3
    <3>5. AdminMaintenancePage = Together({BackupManager, v}) BY <3>2 DEF AdminMaintenancePage
    <3>6. QED BY <3>1, <3>4, <3>5, TogetherWithin
  <2>7. CASE p \in {"users", "categories", "locations", "sla"}
    <3>1. PageOf(p, r) \in {UserManagement, CategoryManager, LocationManager, SLAConfigManager} BY <2>7 DEF PageOf
    <3>2. QED BY <3>1, ViewHas DEF UserManagement, CategoryManager, LocationManager, SLAConfigManager
  <2>8. QED BY <1>4, <2>1, <2>2, <2>3, <2>4, <2>5, <2>6, <2>7 DEF AdminPages
<1>6. OnPage(p, r, open).queries \subseteq Elsewheres \cup {UnreadKey, ModeKey, DropdownKey}
  <2>1. PageOf(p, r).offers \subseteq PageOf(p, r).offers OBVIOUS
  <2> HIDE DEF Elsewheres
  <2>2. QED BY <1>5, <2>1, Frame
<1>7. QED BY <1>1, <1>6 DEF MountedQueries

\* Why the data of a window may be old other than by what it is about to fetch anew.
Excuses == {"elsewhere", "joined", "unanswered", "failed", "left"}

\* A mutation under way was offered where it was sent from, and changes the query.
SentFromPage ==
  mutation # NoMutation =>
    /\ mutation.name \in DOMAIN Mutations /\ watched \in Mutations[mutation.name].changes
    /\ mutation.page \in PagesOf(viewer) \cup {"login"}
    /\ \E open \in BOOLEAN : mutation.name \in OnPage(mutation.page, viewer, open).offers

\* The server has done it, and when the window hears of that the query is fetched anew or
\* leaves the screen.
Settling ==
  /\ mutation.done
  /\ \/ Reaches(mutation.name)
     \/ mutation.name = "restore"
     \/ /\ mutation.name = "delete" /\ mutation.page = "ticket" /\ screen = "ticket"
        /\ watched \in {TicketKey, CommentsKey, FilesKey}

\* What the window has of the query, or is being sent, is old.
Behind == fetch = "old" \/ (fetch = "none" /\ data = "old")

WindowSound ==
  /\ ConsoleTyped /\ SentFromPage
  /\ (OnScreen /\ Behind /\ lapses \cap Excuses = {}) => Settling

LEMMA WindowStarts == ConsoleInit => WindowSound
<1> SUFFICES ASSUME ConsoleInit PROVE WindowSound OBVIOUS
<1>1. mutation = NoMutation /\ data = "none" /\ fetch \in {"none", "asked"} BY DEF ConsoleInit
<1>2. QED BY <1>1, ConsoleStarts DEF WindowSound, SentFromPage, Behind

LEMMA WindowSteps == WindowSound /\ [ConsoleNext]_windowVars => WindowSound'
<1> SUFFICES ASSUME WindowSound, [ConsoleNext]_windowVars PROVE WindowSound' OBVIOUS
<1>1. ConsoleTyped /\ SentFromPage /\ ((OnScreen /\ Behind /\ lapses \cap Excuses = {}) => Settling) BY DEF WindowSound
<1>2. ConsoleTyped' BY <1>1, ConsoleSteps
<1>3. NoMutation.done = FALSE BY DEF NoMutation
<1> DEFINE Held == (OnScreen /\ Behind /\ lapses \cap Excuses = {}) => Settling
<1>4. watched \in Watch /\ viewer \in AnyRole /\ screen \in PagesOf(viewer) \cup {"login"} /\ bellOpen \in BOOLEAN
      /\ fetch \in {"none", "asked", "fresh", "old"} /\ screen' \in PagesOf(viewer') \cup {"login"} /\ bellOpen' \in BOOLEAN
  BY <1>1, <1>2 DEF ConsoleTyped, ConsoleTypeOK
<1>5. CASE UNCHANGED windowVars
  BY <1>1, <1>2, <1>5 DEF windowVars, WindowSound, SentFromPage, OnScreen, Behind, Settling, Reaches, Reached
\* Going to other queries.
<1>6. ASSUME NEW p, NEW open, Remount(p, open), UNCHANGED <<watched, viewer, data>>,
             mutation' = mutation \/ (mutation' = NoMutation /\ (OnScreen /\ Behind /\ lapses \cap Excuses = {} => p # "ticket" /\ mutation.name = "delete" /\ ~Reaches(mutation.name)))
      PROVE  Held'
  <2> SUFFICES ASSUME OnScreen', Behind', lapses' \cap Excuses = {} PROVE Settling' OBVIOUS
  <2>1. screen' = p /\ bellOpen' = open BY <1>6 DEF Remount
  <2>2. OnScreen' <=> watched \in MountedQueries(p, viewer, open) BY <1>6, <2>1 DEF OnScreen
  <2>3. lapses \subseteq lapses' BY <1>6 DEF Remount
  <2>4. OnScreen /\ fetch' = fetch
    <3>1. CASE ~OnScreen
      <4>1. fetch' = (IF fetch = "none" THEN "asked" ELSE fetch)
            /\ lapses' = (IF fetch \in {"fresh", "old"} THEN lapses \cup {"joined"} ELSE lapses)
        BY <1>6, <2>2, <3>1 DEF Remount
      <4>2. fetch' = "old" BY <4>1, <1>4 DEF Behind
      <4>3. QED BY <4>1, <4>2 DEF Excuses
    <3>2. CASE OnScreen BY <1>6, <3>2 DEF Remount
    <3>3. QED BY <3>1, <3>2
  <2>5. Behind /\ lapses \cap Excuses = {} BY <1>6, <2>3, <2>4 DEF Behind
  <2>6. Settling BY <1>1, <2>4, <2>5
  <2>7. p \in PagesOf(viewer) \cup {"login"} /\ open \in BOOLEAN BY <1>4, <1>6, <2>1
  <2>8. p # "ticket" => watched \notin {TicketKey, CommentsKey, FilesKey}
    BY <1>4, <2>2, <2>7, OnlyOnTicket
  <2>9. CASE mutation' = mutation
    BY <2>1, <2>6, <2>8, <2>9, <1>6 DEF Settling, Reaches, Reached
  <2>10. CASE mutation' # mutation
    <3>1. p # "ticket" /\ mutation.name = "delete" /\ ~Reaches(mutation.name) BY <1>6, <2>4, <2>5, <2>10
    <3>2. QED BY <2>6, <2>8, <3>1 DEF Settling
  <2>11. QED BY <2>9, <2>10
<1>7. ASSUME NEW p \in Anywhere, Visit(p) PROVE WindowSound'
  <2>1. Remount(p, FALSE) /\ UNCHANGED <<watched, viewer, data, mutation>> BY <1>7 DEF Visit
  <2>2. Held' BY <1>6, <2>1
  <2>3. SentFromPage' BY <1>1, <2>1 DEF SentFromPage
  <2>4. QED BY <1>2, <2>2, <2>3 DEF WindowSound
<1>8. CASE Bell
  <2>1. Remount(screen, ~bellOpen) /\ UNCHANGED <<watched, viewer, data, mutation>> BY <1>8 DEF Bell
  <2>2. Held' BY <1>6, <2>1
  <2>3. SentFromPage' BY <1>1, <2>1 DEF SentFromPage
  <2>4. QED BY <1>2, <2>2, <2>3 DEF WindowSound
\* Beginning anew, with neither data nor mutation.
<1>9. ASSUME mutation' = NoMutation, data' = "none", fetch' \in {"none", "asked"} PROVE WindowSound'
  BY <1>2, <1>9 DEF WindowSound, SentFromPage, Behind
<1>10. ASSUME NEW p \in Anywhere, Load(p) PROVE WindowSound'
  BY <1>9, <1>10 DEF Load
<1>11. CASE LogOut BY <1>9, <1>11 DEF LogOut, CacheCleared
<1>12. ASSUME NEW m \in DOMAIN Mutations, Mutate(m) PROVE WindowSound'
  <2>1. mutation = NoMutation /\ UNCHANGED <<watched, viewer, screen, bellOpen, data, fetch, lapses>>
        /\ mutation' = [name |-> m, page |-> screen, done |-> FALSE] /\ watched \in Mutations[m].changes
        /\ m \in OnPage(screen, viewer, bellOpen).offers
    BY <1>12 DEF Mutate
  <2>2. ~Settling BY <1>3, <2>1 DEF Settling
  <2>3. Held' BY <1>1, <2>1, <2>2 DEF OnScreen, Behind
  <2>4. SentFromPage' BY <1>4, <2>1 DEF SentFromPage
  <2>5. QED BY <1>2, <2>3, <2>4 DEF WindowSound
<1>13. ASSUME NEW told \in BOOLEAN, Elsewhere(told) PROVE WindowSound'
  <2>1. "elsewhere" \in lapses' /\ UNCHANGED <<watched, viewer, mutation>> BY <1>13 DEF Elsewhere, ServerChanges
  <2>2. QED BY <1>1, <1>2, <2>1 DEF WindowSound, SentFromPage, Excuses
<1>14. CASE Commit
  <2>1. /\ mutation # NoMutation /\ ~mutation.done /\ mutation' = [mutation EXCEPT !.done = TRUE]
        /\ UNCHANGED <<watched, viewer, screen, bellOpen>>
        /\ lapses' = lapses \cup {IF screen = mutation.page \/ Reaches(mutation.name) THEN "own" ELSE "left"}
    BY <1>14 DEF Commit, ServerChanges
  <2>2. mutation \in [name : DOMAIN Mutations \cup {"none"}, page : PagesOf(viewer) \cup {"login", "none"}, done : BOOLEAN]
    BY <1>1 DEF ConsoleTyped
  <2>3. mutation'.name = mutation.name /\ mutation'.page = mutation.page /\ mutation'.done BY <2>1, <2>2
  <2>4. SentFromPage' BY <1>1, <2>1, <2>3 DEF SentFromPage
  <2>5. Held'
    <3> SUFFICES ASSUME OnScreen', lapses' \cap Excuses = {} PROVE Settling' OBVIOUS
    <3>1. OnScreen BY <2>1 DEF OnScreen
    <3>2. screen = mutation.page \/ Reaches(mutation.name) BY <2>1 DEF Excuses
    <3>3. CASE Reaches(mutation.name) BY <2>1, <2>3, <3>3 DEF Settling, Reaches, Reached
    <3>4. CASE mutation.name = "restore" BY <2>3, <3>4 DEF Settling
    <3>5. CASE screen = mutation.page /\ mutation.name # "restore"
      <4>1. PICK open \in BOOLEAN : mutation.name \in OnPage(screen, viewer, open).offers BY <1>1, <2>1, <3>5 DEF SentFromPage
      <4>2. mutation.name \in DOMAIN Mutations /\ watched \in Mutations[mutation.name].changes BY <1>1, <2>1 DEF SentFromPage
      <4>3. watched \in MountedQueries(screen, viewer, bellOpen) BY <3>1 DEF OnScreen
      <4>4. HookDrops(mutation.name, watched)
            \/ (mutation.name = "delete" /\ screen = "ticket" /\ watched \in {TicketKey, CommentsKey, FilesKey})
        BY <1>4, <3>5, <4>1, <4>2, <4>3, Covered
      <4>5. HookDrops(mutation.name, watched) => Reaches(mutation.name) BY DEF HookDrops, Reaches, Reached
      <4>6. QED BY <2>1, <2>3, <3>5, <3>3, <4>4, <4>5 DEF Settling
    <3>6. QED BY <3>2, <3>3, <3>4, <3>5
  <2>6. QED BY <1>2, <2>4, <2>5 DEF WindowSound
<1>15. CASE Succeed
  <2>1. mutation.done /\ mutation # NoMutation /\ UNCHANGED <<watched, viewer>> BY <1>3, <1>15 DEF Succeed
  <2>2. CASE mutation.name = "restore"
    <3>1. /\ mutation' = NoMutation /\ data' = "none"
          /\ fetch' = IF watched \in FaqSection.queries THEN "asked" ELSE "none"
      BY <1>15, <2>2 DEF Succeed, CacheCleared
    <3>2. QED BY <1>9, <3>1
  <2>3. CASE mutation.name # "restore" /\ Reaches(mutation.name)
    <3>1. Invalidate /\ mutation' = NoMutation /\ UNCHANGED <<screen, bellOpen, data>> BY <1>15, <2>3 DEF Succeed
    <3>2. OnScreen' <=> OnScreen BY <2>1, <3>1 DEF OnScreen
    <3>3. Held' BY <3>1, <3>2 DEF Invalidate, Behind, Excuses
    <3>4. QED BY <1>2, <3>1, <3>3 DEF WindowSound, SentFromPage
  <2>4. CASE mutation.name # "restore" /\ ~Reaches(mutation.name)
    <3>1. /\ mutation' = NoMutation /\ UNCHANGED data
          /\ IF mutation.name \in {"create", "delete"} /\ screen = mutation.page
             THEN Remount(IF mutation.name = "create" THEN "ticket" ELSE "tickets", FALSE)
             ELSE UNCHANGED <<screen, bellOpen, fetch, lapses>>
      BY <1>15, <2>4 DEF Succeed
    <3>2. OnScreen /\ Behind /\ lapses \cap Excuses = {} => mutation.name = "delete" /\ screen = mutation.page
      BY <1>1, <2>4 DEF Settling
    <3>3. Held'
      <4>1. CASE mutation.name \in {"create", "delete"} /\ screen = mutation.page
        <5>1. PICK p : p = IF mutation.name = "create" THEN "ticket" ELSE "tickets" OBVIOUS
        <5>2. Remount(p, FALSE) BY <3>1, <4>1, <5>1
        <5>3. OnScreen /\ Behind /\ lapses \cap Excuses = {} => p # "ticket" /\ mutation.name = "delete" /\ ~Reaches(mutation.name)
          BY <2>4, <3>2, <5>1
        <5>4. QED BY <1>6, <2>1, <3>1, <5>2, <5>3
      <4>2. CASE ~(mutation.name \in {"create", "delete"} /\ screen = mutation.page)
        <5>1. UNCHANGED <<screen, bellOpen, fetch, lapses>> BY <3>1, <4>2
        <5>2. QED BY <2>1, <3>1, <3>2, <4>2, <5>1 DEF OnScreen, Behind
      <4>3. QED BY <4>1, <4>2
    <3>4. QED BY <1>2, <3>1, <3>3 DEF WindowSound, SentFromPage
  <2>5. QED BY <2>2, <2>3, <2>4
<1>16. CASE Fail
  <2>1. mutation' = NoMutation /\ UNCHANGED <<watched, viewer, screen, bellOpen, data, fetch>>
        /\ lapses' = IF mutation.done THEN lapses \cup {"unanswered"} ELSE lapses
    BY <1>16 DEF Fail
  <2>2. Held' BY <1>1, <2>1 DEF OnScreen, Behind, Excuses, Settling
  <2>3. QED BY <1>2, <2>1, <2>2 DEF WindowSound, SentFromPage
<1>17. ASSUME UNCHANGED <<watched, viewer, screen, bellOpen, mutation>>, Held' PROVE WindowSound'
  BY <1>1, <1>2, <1>17 DEF WindowSound, SentFromPage
<1>18. CASE Serve \/ Refetch
  BY <1>17, <1>18 DEF Serve, Refetch, Behind, boundVars
<1>19. CASE Receive
  <2>1. /\ fetch \in {"fresh", "old"} /\ data' = fetch /\ fetch' = "none"
        /\ lapses' = IF fetch = "fresh" THEN {} ELSE lapses
        /\ UNCHANGED <<watched, viewer, screen, bellOpen, mutation>>
    BY <1>19 DEF Receive
  <2>2. Held' BY <1>1, <2>1 DEF OnScreen, Behind, Settling, Reaches, Reached
  <2>3. QED BY <1>17, <2>1, <2>2
<1>20. CASE FetchFails
  <2>1. "failed" \in lapses' /\ UNCHANGED <<watched, viewer, screen, bellOpen, mutation>> BY <1>20 DEF FetchFails
  <2>2. QED BY <1>17, <2>1 DEF Excuses
<1>21. QED
  BY <1>5, <1>7, <1>8, <1>10, <1>11, <1>12, <1>13, <1>14, <1>15, <1>16, <1>18, <1>19, <1>20 DEF ConsoleNext

\* A window shows what was changed from it: for any number of changes, faults and visits
\* data on screen is only old for a reason other than its own mutations (use-*.ts hooks).
THEOREM OwnChangesCorrect == ConsoleSpec => [](OnScreen => OwnChangesShown)
<1>1. WindowSound => (OnScreen => OwnChangesShown)
  BY DEF WindowSound, OwnChangesShown, Behind, Settling, NoMutation, Excuses
<1>2. QED
  BY <1>1, WindowStarts, WindowSteps, PTL DEF ConsoleSpec

-------------------------------------------------------------------------------
(* The types of the parts of the other proofs.                             *)

LEMMA OutboxTypesHold == OutboxTyped => OutboxTypeOK
<1> SUFFICES ASSUME OutboxTyped PROVE OutboxTypeOK
  OBVIOUS
<1>1. ASSUME NEW f \in Forms
      PROVE  /\ cachedProfile[f] \subseteq Profiles
             /\ form[f] \in [open : BOOLEAN, fields : Profiles, initial : Profiles, typed : Groups \cup {Absent}]
             /\ save[f].pc \in {"none", "merge", "answer"}
  BY DEF OutboxTyped, FormStates, SaveStates
<1>2. \A d \in Dispatches : dispatch[d].pc \in {"none", "settings", "group", "users", "each", "done"}
  BY DEF OutboxTyped, DispatchStates
<1>3. \A o \in orphans : o.pc = "merge" /\ o.fields \in Profiles
  BY DEF OutboxTyped, SaveStates
<1>4. QED
  BY <1>1, <1>2, <1>3 DEF OutboxTyped, OutboxTypeOK

LEMMA RefreshTypesHold == RefreshTyped => RefreshTypeOK
  BY DEF RefreshTyped, RefreshTypeOK, RequestStates

LEMMA MasterTypesHold == MasterTyped => MasterTypeOK
<1> SUFFICES ASSUME MasterTyped PROVE MasterTypeOK
  OBVIOUS
<1>1. \A i \in Items : record[i] \subseteq [name : Names \cup {Void}, active : BOOLEAN, home : Items \cup {Void}]
  BY DEF MasterTyped, MasterRows
<1>2. \A t \in Filings : ticketRow[t] \subseteq [cat : Cats, sub : Subs \cup {Void}, loc : Locs \cup {Void}]
  BY DEF MasterTyped, FiledRows
<1>3. \A d \in Desks : desk[d].pc \in {"idle", "form", "insert", "reactivate", "update", "deactivate", "remove"}
  BY DEF MasterTyped, DeskStates
<1>4. \A t \in Filings : draft[t].pc \in {"none", "form", "sub", "insert", "record", "done"}
  BY DEF MasterTyped, DraftStates
<1>5. QED
  BY <1>1, <1>2, <1>3, <1>4 DEF MasterTyped, MasterTypeOK

-------------------------------------------------------------------------------
(* The parts side by side: a step of Portal is, for each part, a step of it *)
(* or none.                                                                 *)

LEMMA PortalParts ==
  /\ PortalInit => /\ GatewayInit /\ FanoutInit /\ BotInit /\ OutboxInit /\ DashboardInit
                   /\ ReadsInit /\ RefreshInit /\ MasterInit /\ ConsoleInit
  /\ [PortalNext]_portalVars =>
       /\ [GatewayNext]_gatewayVars /\ [FanoutNext]_fanoutVars /\ [BotNext]_botVars
       /\ [OutboxNext]_outboxVars /\ [DashboardNext]_dashboardVars /\ [ReadsNext]_readsVars
       /\ [RefreshNext]_refreshVars /\ [MasterNext]_masterVars /\ [ConsoleNext]_windowVars
<1>1. PortalInit => /\ GatewayInit /\ FanoutInit /\ BotInit /\ OutboxInit /\ DashboardInit
                    /\ ReadsInit /\ RefreshInit /\ MasterInit /\ ConsoleInit
  BY DEF PortalInit
<1>2. PortalNext =>
        /\ [GatewayNext]_gatewayVars /\ [FanoutNext]_fanoutVars /\ [BotNext]_botVars
        /\ [OutboxNext]_outboxVars /\ [DashboardNext]_dashboardVars /\ [ReadsNext]_readsVars
        /\ [RefreshNext]_refreshVars /\ [MasterNext]_masterVars /\ [ConsoleNext]_windowVars
  BY DEF PortalNext
<1>3. UNCHANGED portalVars =>
        UNCHANGED <<gatewayVars, fanoutVars, botVars, outboxVars, dashboardVars, readsVars,
                    refreshVars, masterVars, windowVars>>
  BY DEF portalVars
<1>4. QED
  BY <1>1, <1>2, <1>3

\* HearersAccountable, of Portal, which is what the run checks.
THEOREM PortalHearers == PortalSpec => []HearersAccountable
<1>1. GatewaySound => HearersAccountable
  BY GatewayHolds
<1>2. QED
  BY <1>1, PortalParts, GatewayStarts, GatewaySteps, PTL DEF PortalSpec

\* OncePerEvent, of Portal: preferences and accounts change, and inserts fail, as they may.
THEOREM PortalOncePerEvent == PortalSpec => []OncePerEvent
<1>1. FanoutSound => OncePerEvent
  BY FanoutHolds
<1>2. QED
  BY <1>1, PortalParts, FanoutStarts, FanoutSteps, PTL DEF PortalSpec

\* BotFollowsItsSettings, of Portal: whatever saves, starts and loops interleave.
THEOREM PortalBot == PortalSpec => []BotFollowsItsSettings
<1>1. BotSound => BotFollowsItsSettings
  BY BotHolds
<1>2. QED
  BY <1>1, PortalParts, BotStarts, BotSteps, PTL DEF PortalSpec

\* MasterDataSound, of Portal: whatever checks and writes of the screens and filings interleave.
THEOREM PortalMasterData == PortalSpec => []MasterDataSound
<1>1. MasterSound => MasterDataSound
  BY MasterHolds
<1>2. QED
  BY <1>1, PortalParts, MasterStarts, MasterSteps, PTL DEF PortalSpec

\* SettingsAndMessagesAgree, of Portal: whatever forms, saves and dispatches interleave.
THEOREM PortalOutbox == PortalSpec => []SettingsAndMessagesAgree
<1>1. OutboxSound => SettingsAndMessagesAgree
  BY OutboxHolds
<1>2. QED
  BY <1>1, PortalParts, OutboxStarts, OutboxSteps, PTL DEF PortalSpec

\* ExportComplete, of Portal: however the batches fall between the changes.
THEOREM PortalExport == PortalSpec => []ExportComplete
<1>1. ReadsSound => ExportComplete
  BY ReadsHold
<1>2. QED
  BY <1>1, PortalParts, ReadsStarts, ReadsSteps, PTL DEF PortalSpec

\* ListsAgree, of Portal: whoever asks, with whatever filter, for any tickets.
THEOREM PortalLists == PortalSpec => []ListsAgree
<1>1. ReadsSound => ListsAgree
  BY ListsHold DEF ReadsSound, ListsAgree
<1>2. QED
  BY <1>1, PortalParts, ReadsStarts, ReadsSteps, PTL DEF PortalSpec

\* NobodyLeftOut, of Portal: whatever inserts fail meanwhile.
THEOREM PortalNobodyLeftOut == PortalSpec => [](\A e \in Events : NobodyLeftOut(e))
  BY PortalParts, FanoutStarts, FanoutSteps, ServedStarts, ServedSteps, ServedHolds, PTL DEF PortalSpec

\* NumbersAddUp, of Portal: for any tickets, days and ranges.
THEOREM PortalNumbers == PortalSpec => []NumbersAddUp
<1>1. DashboardTyped => NumbersAddUp
  BY AddsUpHolds, DashboardAssumption DEF DashboardTyped, NumbersAddUp
<1>2. QED
  BY <1>1, PortalParts, DashboardStarts, DashboardSteps, PTL DEF PortalSpec

\* OwnChangesShown, of Portal: whatever else changes, and whichever requests fail.
THEOREM PortalOwnChanges == PortalSpec => [](OnScreen => OwnChangesShown)
<1>1. PortalInit => WindowSound
  BY PortalParts, WindowStarts
<1>2. WindowSound /\ [PortalNext]_portalVars => WindowSound'
  BY PortalParts, WindowSteps
<1>3. WindowSound => (OnScreen => OwnChangesShown)
  BY DEF WindowSound, OwnChangesShown, Behind, Settling, NoMutation, Excuses
<1>4. QED
  BY <1>1, <1>2, <1>3, PTL DEF PortalSpec

\* CarriedOutOnce, of Portal: however many requests meet an expired token.
THEOREM PortalCarriedOutOnce == PortalSpec => [](\A r \in Posts : CarriedOutOnce(r))
<1>1. RefreshSound => (\A r \in Posts : CarriedOutOnce(r))
  BY DEF RefreshSound, OnceSettled, CarriedOutOnce
<1>2. QED
  BY <1>1, PortalParts, RefreshStarts, RefreshSteps, PTL DEF PortalSpec

\* Of one part that moves, all the types follow from the invariants of the parts.
PartsSound ==
  /\ part \in Parts
  /\ GatewaySound /\ FanoutSound /\ FanoutTyped /\ BotSound /\ OutboxSound /\ DashboardTyped
  /\ ReadsSound /\ RefreshSound /\ MasterSound /\ ConsoleTyped

\* Every variable of Portal has its type, whichever part moves.
THEOREM PortalTypeCorrect == PortalSpec => []PortalTypeOK
<1>1. PortalInit => PartsSound
  <2>1. PortalInit => part \in Parts
    BY DEF PortalInit
  <2>2. QED
    BY <2>1, PortalParts, GatewayStarts, FanoutStarts, FanoutTypeStarts, BotStarts, OutboxStarts,
       DashboardStarts, ReadsStarts, RefreshStarts, MasterStarts, ConsoleStarts DEF PartsSound
<1>2. PartsSound /\ [PortalNext]_portalVars => PartsSound'
  <2> SUFFICES ASSUME PartsSound, [PortalNext]_portalVars PROVE PartsSound'
    OBVIOUS
  <2>1. part' \in Parts
    BY DEF PartsSound, PortalNext, portalVars
  <2>2. GatewaySound' /\ FanoutSound' /\ FanoutTyped' /\ BotSound'
    BY PortalParts, GatewaySteps, FanoutSteps, FanoutTypeSteps, BotSteps DEF PartsSound
  <2>3. OutboxSound' /\ DashboardTyped' /\ ReadsSound'
    BY PortalParts, OutboxSteps, DashboardSteps, ReadsSteps DEF PartsSound
  <2>4. RefreshSound' /\ MasterSound' /\ ConsoleTyped'
    BY PortalParts, RefreshSteps, MasterSteps, ConsoleSteps DEF PartsSound
  <2>5. QED
    BY <2>1, <2>2, <2>3, <2>4 DEF PartsSound
<1>3. PartsSound => PortalTypeOK
  <2> SUFFICES ASSUME PartsSound PROVE PortalTypeOK
    OBVIOUS
  <2>1. GatewayTypeOK
    BY DEF PartsSound, GatewaySound
  <2>2. FanoutTypeOK /\ BotTypeOK
    BY FanoutTypesHold, BotTypesHold DEF PartsSound
  <2>3. OutboxTypeOK
    BY OutboxTypesHold DEF PartsSound, OutboxSound
  <2>4. DashboardTypeOK /\ ReadsTypeOK
    BY DashboardHolds, ReadsHold DEF PartsSound
  <2>5. RefreshTypeOK
    BY RefreshTypesHold DEF PartsSound, RefreshSound
  <2>6. MasterTypeOK
    BY MasterTypesHold DEF PartsSound, MasterSound
  <2>7. ConsoleTypeOK
    BY DEF PartsSound, ConsoleTyped
  <2>8. part \in Parts
    BY DEF PartsSound
  <2>9. QED
    BY <2>1, <2>2, <2>3, <2>4, <2>5, <2>6, <2>7, <2>8 DEF PortalTypeOK
<1>4. QED
  BY <1>1, <1>2, <1>3, PTL DEF PortalSpec
================================================================================
