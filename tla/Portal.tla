-------------------------------- MODULE Portal ---------------------------------
(***************************************************************************)
(* The parts around the tickets, side by side.  None of them reads or      *)
(* writes a variable of another, so following all at once would multiply   *)
(* their states and show nothing new: a behaviour chooses one part, and    *)
(* the others stand still, in one of their initial states.                 *)
(***************************************************************************)
EXTENDS NotificationGateway, NotificationFanout, TelegramBot, TelegramOutbox,
        DashboardCache, TicketReads, RefreshClient, MasterData, Console

VARIABLE part  \* the part that moves

Parts == {"gateway", "fanout", "bot", "outbox", "dashboard", "reads", "refresh", "master", "console"}

\* A part that stands still starts in one initial state only.
AtRest ==
  /\ part # "bot" => stored = Nil
  /\ part # "outbox" => hasToken /\ settings.profile = CHOOSE p \in Profiles : TRUE
  /\ part # "reads" => \A t \in FirstTickets : rating[t] = "OnTrack"
  /\ part # "refresh" => session
  /\ part # "console" => watched = (CHOOSE k \in Watch : k # UnreadKey) /\ viewer = "Admin" /\ screen = "tickets"

PortalInit ==
  /\ part \in Parts
  /\ GatewayInit /\ FanoutInit /\ BotInit /\ OutboxInit /\ DashboardInit
  /\ ReadsInit /\ RefreshInit /\ MasterInit /\ ConsoleInit
  /\ AtRest

PortalNext ==
  /\ UNCHANGED part
  /\ IF part = "gateway" THEN GatewayNext ELSE UNCHANGED gatewayVars
  /\ IF part = "fanout" THEN FanoutNext ELSE UNCHANGED fanoutVars
  /\ IF part = "bot" THEN BotNext ELSE UNCHANGED botVars
  /\ IF part = "outbox" THEN OutboxNext ELSE UNCHANGED outboxVars
  /\ IF part = "dashboard" THEN DashboardNext ELSE UNCHANGED dashboardVars
  /\ IF part = "reads" THEN ReadsNext ELSE UNCHANGED readsVars
  /\ IF part = "refresh" THEN RefreshNext ELSE UNCHANGED refreshVars
  /\ IF part = "master" THEN MasterNext ELSE UNCHANGED masterVars
  /\ IF part = "console" THEN ConsoleNext ELSE UNCHANGED windowVars

\* The fairness of each part, while it is the one that moves.
PortalFairness ==
  /\ \A s \in Sockets : WF_gatewayVars(part = "gateway" /\ TimerFires(s))
  /\ \A e \in Events : WF_fanoutVars(part = "fanout" /\ JobStep(e))
  /\ \A g \in Generations : WF_botVars(part = "bot" /\ LoopStep(g))
  /\ \A a \in Callers : WF_botVars(part = "bot" /\ CallStep(a))
  /\ \A k \in Keys : WF_dashboardVars(part = "dashboard" /\ ExpireEntry(k))
  /\ \A p \in Pages : WF_dashboardVars(part = "dashboard" /\ PageStep(p))
  /\ \A r \in Posts : WF_refreshVars(part = "refresh" /\ RequestStep(r))
  /\ WF_refreshVars(part = "refresh" /\ RefreshStep)
  /\ WF_windowVars(part = "console" /\ (Serve \/ Receive))
  /\ WF_windowVars(part = "console" /\ Polled /\ Refetch)

portalVars == <<part, gatewayVars, fanoutVars, botVars, outboxVars, dashboardVars,
                readsVars, refreshVars, masterVars, windowVars>>

PortalSpec == PortalInit /\ [][PortalNext]_portalVars /\ PortalFairness

\* DashboardAddsUp, of the dashboard's states: the numbers of one moment add up for every
\* range, by days and by weeks.
NumbersAddUp == part = "dashboard" => DashboardAddsUp

\* ReadsAgree, of the list's states: the query builder's and the SQL's translation of a
\* filter return the same tickets, and an end user only their own.
ListsAgree == part = "reads" => ReadsAgree

\* Every variable has its type.
PortalTypeOK ==
  /\ part \in Parts
  /\ GatewayTypeOK /\ FanoutTypeOK /\ BotTypeOK /\ OutboxTypeOK /\ DashboardTypeOK
  /\ ReadsTypeOK /\ RefreshTypeOK /\ MasterTypeOK /\ ConsoleTypeOK
================================================================================
