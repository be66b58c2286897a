---------------------------- MODULE TelegramOutbox -----------------------------
(***************************************************************************)
(* What the Telegram bot sends, and the form its settings are edited with. *)
(*                                                                         *)
(* The three switches of the settings and the templates travel together:   *)
(* the form always sends all of them, so they are one value, a profile.    *)
(* The group's id is apart: the form never shows it and sends it only when *)
(* one was typed. A save reads the row, merges and writes it back; sending *)
(* an event reads the token and the settings once each and then takes its  *)
(* time. Texts are left out, and the group id of the environment is taken  *)
(* as not set.                                                             *)
(***************************************************************************)
EXTENDS Naturals, FiniteSets

CONSTANTS
  Absent,      \* no group id
  Forms,       \* browsers of administrators with the settings page
  Profiles,    \* records [events, group, individuals]
  Groups,      \* group chats
  Linkable,    \* chats administrators and support users can link; a group can be one of them
  Dispatches,  \* events that a listener hands on
  MaxSaves,    \* bound: saves begun
  MaxOutFaults \* bound: failing requests

\* TELEGRAM_EVENTS: what a request may enable. The listener also hands on
\* ticket.priority.updated, which nobody can enable.
TelegramEvents == {"ticket.created", "ticket.assigned", "ticket.status.updated"}
Heard == TelegramEvents \cup {"ticket.priority.updated"}

ASSUME OutboxAssumption ==
  /\ \A p \in Profiles : p.events \subseteq TelegramEvents /\ {p.group, p.individuals} \subseteq BOOLEAN
  /\ Absent \notin Groups

VARIABLES
  settings,     \* the row: profile and groupId
  hasToken,     \* a bot token is configured
  cachedProfile,\* cachedProfile[f]: data of the query telegram-config, a set of at most one profile
  form,         \* form[f]: the fields and their baseline
  save,         \* save[f]: the PUT under way
  orphans,      \* PUTs under way whose page was left
  estranged,    \* history: forms filled from an old answer, or overtaken by a write not their own
  chatsLinked,  \* chats linked to an account
  dispatch,     \* dispatch[d]: sendEvent of event d
  delivered,    \* delivered[d][x]: messages sent to group or chat x for event d
  saves, outFaults

formVars == <<settings, cachedProfile, form, save, orphans, estranged, saves>>
sendVars == <<chatsLinked, dispatch, delivered>>
outboxVars == <<formVars, sendVars, hasToken, outFaults>>

ClosedForm == [open |-> FALSE, fields |-> CHOOSE p \in Profiles : TRUE,
           initial |-> CHOOSE p \in Profiles : TRUE, typed |-> Absent]
NoSave == [pc |-> "none", no |-> 0, fields |-> CHOOSE p \in Profiles : TRUE, typed |-> Absent, kept |-> Absent]
Undispatched == [pc |-> "none", event |-> "ticket.created",
                 profile |-> CHOOSE p \in Profiles : TRUE, groupId |-> Absent, queue |-> {}, audience |-> {}]

OutboxInit ==
  /\ \E p \in Profiles : settings = [profile |-> p, groupId |-> Absent]
  /\ hasToken \in BOOLEAN
  /\ cachedProfile = [f \in Forms |-> {}]
  /\ form = [f \in Forms |-> ClosedForm]
  /\ save = [f \in Forms |-> NoSave]
  /\ orphans = {} /\ estranged = {}
  /\ chatsLinked = Linkable
  /\ dispatch = [d \in Dispatches |-> Undispatched]
  /\ delivered = [d \in Dispatches |-> [x \in Groups \cup Linkable |-> 0]]
  /\ saves = 0 /\ outFaults = 0

\* useTelegramConfig: GET /telegram/config is answered. The group's id is not part of it.
FetchConfig(f) ==
  /\ cachedProfile' = [cachedProfile EXCEPT ![f] = {settings.profile}]
  /\ UNCHANGED <<settings, form, save, orphans, estranged, saves, sendVars, hasToken, outFaults>>

\* The page is opened with data in the cache, however old: the form is filled from it
\* once (configLoaded), and a later answer does not change it.
Hydrate(f) ==
  /\ ~form[f].open
  /\ \E p \in cachedProfile[f] :
       /\ form' = [form EXCEPT ![f] = [open |-> TRUE, fields |-> p, initial |-> p, typed |-> Absent]]
       /\ estranged' = IF p = settings.profile THEN estranged \ {f} ELSE estranged \cup {f}
  /\ UNCHANGED <<settings, cachedProfile, save, orphans, saves, sendVars, hasToken, outFaults>>

\* The inputs of the form.
EditFields(f, p, typed) ==
  /\ form[f].open
  /\ form' = [form EXCEPT ![f].fields = p, ![f].typed = IF p.group THEN typed ELSE @]
  /\ UNCHANGED <<settings, cachedProfile, save, orphans, estranged, saves, sendVars, hasToken, outFaults>>

\* A PUT that is under way goes on without its page, and so will its answer: nobody
\* waits for it but the query, which is fetched again (FetchConfig).
LeavePage(f) ==
  /\ form[f].open
  /\ form' = [form EXCEPT ![f] = ClosedForm]
  /\ save' = [save EXCEPT ![f] = NoSave]
  /\ orphans' = IF save[f].pc = "merge" THEN orphans \cup {save[f]} ELSE orphans
  /\ UNCHANGED <<settings, cachedProfile, estranged, saves, sendVars, hasToken, outFaults>>

\* handleSaveConfig, and the read of updateConfig: an id that was not typed is the
\* one read here.
SaveReads(f) ==
  /\ form[f].open /\ save[f].pc = "none" /\ saves < MaxSaves
  /\ saves' = saves + 1
  /\ save' = [save EXCEPT ![f] = [pc |-> "merge", no |-> saves + 1, fields |-> form[f].fields, kept |-> settings.groupId,
                                  typed |-> IF form[f].fields.group THEN form[f].typed ELSE Absent]]
  /\ UNCHANGED <<settings, cachedProfile, form, orphans, estranged, sendVars, hasToken, outFaults>>

\* normalizeSettings.
Merged(s) == [profile |-> s.fields, groupId |-> IF s.typed = Absent THEN s.kept ELSE s.typed]

\* The whole row is written.
SaveWrites(f) ==
  /\ save[f].pc = "merge"
  /\ settings' = Merged(save[f])
  /\ save' = [save EXCEPT ![f].pc = "answer"]
  /\ estranged' = (estranged \ {f}) \cup {g \in Forms \ {f} : form[g].open}
  /\ UNCHANGED <<cachedProfile, form, orphans, saves, sendVars, hasToken, outFaults>>

\* The fields as they are now become the baseline.
SaveAnsweredBug(f) ==
  /\ save[f].pc = "answer"
  /\ form' = [form EXCEPT ![f].initial = form[f].fields, ![f].typed = Absent]
  /\ save' = [save EXCEPT ![f] = NoSave]
  /\ UNCHANGED <<settings, cachedProfile, orphans, estranged, saves, sendVars, hasToken, outFaults>>

\* The answer reaches the form: what was sent is the new baseline, a typed id is
\* cleared, also one typed since, and the query is fetched again (FetchConfig).
SaveAnswered(f) ==
  /\ save[f].pc = "answer"
  /\ form' = [form EXCEPT ![f].initial = save[f].fields, ![f].typed = Absent]
  /\ save' = [save EXCEPT ![f] = NoSave]
  /\ UNCHANGED <<settings, cachedProfile, orphans, estranged, saves, sendVars, hasToken, outFaults>>

\* A request fails, before the write or, when the bot cannot be started, after it.
SaveFails(f) ==
  /\ save[f].pc # "none" /\ outFaults < MaxOutFaults
  /\ outFaults' = outFaults + 1
  /\ estranged' = IF save[f].pc = "answer" THEN estranged \cup {f} ELSE estranged
  /\ save' = [save EXCEPT ![f] = NoSave]
  /\ UNCHANGED <<settings, cachedProfile, form, orphans, saves, sendVars, hasToken>>

\* The same for a PUT whose page was left, beside whatever page is open by then.
OrphanWrites(o) ==
  /\ settings' = Merged(o)
  /\ orphans' = orphans \ {o}
  /\ estranged' = estranged \cup {f \in Forms : form[f].open}
  /\ UNCHANGED <<cachedProfile, form, save, saves, sendVars, hasToken, outFaults>>

OrphanFails(o) ==
  /\ outFaults < MaxOutFaults
  /\ outFaults' = outFaults + 1
  /\ orphans' = orphans \ {o}
  /\ UNCHANGED <<settings, cachedProfile, form, save, estranged, saves, sendVars, hasToken>>

\* The page of another administrator saves, all at once.
OtherSaves(p, id) ==
  /\ saves < MaxSaves
  /\ saves' = saves + 1
  /\ settings' = [profile |-> p, groupId |-> IF id = Absent THEN settings.groupId ELSE id]
  /\ estranged' = estranged \cup {f \in Forms : form[f].open}
  /\ UNCHANGED <<cachedProfile, form, save, orphans, sendVars, hasToken, outFaults>>

\* A listener hands an event on; sendEvent resolves the token.
Hear(d, event) ==
  /\ dispatch[d].pc = "none"
  /\ dispatch' = [dispatch EXCEPT ![d] = [Undispatched EXCEPT !.event = event, !.pc = IF hasToken THEN "settings" ELSE "done"]]
  /\ UNCHANGED <<formVars, chatsLinked, delivered, hasToken, outFaults>>

\* resolveSettings, and who comes first: the group, or the linked users.
ResolveSettings(d) ==
  LET p == settings.profile IN
  /\ dispatch[d].pc = "settings"
  /\ dispatch' = [dispatch EXCEPT ![d] = [@ EXCEPT !.profile = p, !.groupId = settings.groupId,
       !.pc = CASE dispatch[d].event \notin p.events -> "done"
                [] dispatch[d].event \in p.events /\ p.group /\ settings.groupId # Absent -> "group"
                [] OTHER -> "users"]]
  /\ UNCHANGED <<formVars, chatsLinked, delivered, hasToken, outFaults>>

\* sendMessage does not fail: an error of the network is logged, an error of Telegram not read.
Deliver(d, x) ==
  \/ delivered' = [delivered EXCEPT ![d][x] = @ + 1] /\ UNCHANGED outFaults
  \/ outFaults < MaxOutFaults /\ outFaults' = outFaults + 1 /\ UNCHANGED delivered

SendGroup(d) ==
  /\ dispatch[d].pc = "group"
  /\ Deliver(d, dispatch[d].groupId)
  /\ dispatch' = [dispatch EXCEPT ![d].pc = IF dispatch[d].profile.individuals THEN "users" ELSE "done"]
  /\ UNCHANGED <<formVars, chatsLinked, hasToken>>

\* findTelegramLinkedUsers.
FindLinked(d) ==
  /\ dispatch[d].pc = "users"
  /\ dispatch' = [dispatch EXCEPT ![d].pc = "each", ![d].queue = chatsLinked, ![d].audience = chatsLinked]
  /\ UNCHANGED <<formVars, chatsLinked, delivered, hasToken, outFaults>>

\* The workers of runWithConcurrency, each with one message at a time.
SendUser(d) ==
  /\ dispatch[d].pc = "each"
  /\ \/ \E x \in dispatch[d].queue :
          /\ Deliver(d, x)
          /\ dispatch' = [dispatch EXCEPT ![d].queue = @ \ {x}]
     \/ /\ dispatch[d].queue = {}
        /\ dispatch' = [dispatch EXCEPT ![d].pc = "done"]
        /\ UNCHANGED <<delivered, outFaults>>
  /\ UNCHANGED <<formVars, chatsLinked, hasToken>>

\* A chat is linked or unlinked, or its account switched off or on.
Relink(x) ==
  /\ chatsLinked' = IF x \in chatsLinked THEN chatsLinked \ {x} ELSE chatsLinked \cup {x}
  /\ UNCHANGED <<formVars, dispatch, delivered, hasToken, outFaults>>

OutboxNext ==
  \/ \E f \in Forms :
       \/ FetchConfig(f) \/ Hydrate(f) \/ LeavePage(f)
       \/ \E p \in Profiles, typed \in Groups \cup {Absent} : EditFields(f, p, typed)
       \/ SaveReads(f) \/ SaveWrites(f) \/ SaveAnswered(f) \/ SaveFails(f)
  \/ \E o \in orphans : OrphanWrites(o) \/ OrphanFails(o)
  \/ \E p \in Profiles, id \in Groups \cup {Absent} : OtherSaves(p, id)
  \/ \E d \in Dispatches :
       \/ \E event \in Heard : Hear(d, event)
       \/ ResolveSettings(d) \/ SendGroup(d) \/ FindLinked(d) \/ SendUser(d)
  \/ \E x \in Linkable : Relink(x)

OutboxSpec == OutboxInit /\ [][OutboxNext]_outboxVars

\* checkConfig: what the page is told of a token and a group id, `typed` being what the
\* form sent; the id that is stored is asked about when none was sent.
CheckConfig(tokenGood, typed, reachable) ==
  LET id == IF typed = Absent /\ settings.profile.group THEN settings.groupId ELSE typed
  IN [bot |-> tokenGood, group |-> IF ~hasToken \/ id = Absent THEN "none"
                                   ELSE IF tokenGood /\ id \in reachable THEN "valid" ELSE "invalid"]

\* sendTestNotification: whom a test reaches, and whether the request fails. A group that
\* does not answer is passed over; a user's chat that does not is an error.
TestReaches(linkedHere, groupAnswers, chatAnswers) ==
  LET group == hasToken /\ settings.profile.group /\ settings.groupId # Absent /\ groupAnswers
      tried == hasToken /\ linkedHere /\ ~(group /\ ~settings.profile.individuals)
  IN [group |-> group,
      user |-> tried /\ chatAnswers,
      fails |-> ~hasToken \/ (~group /\ ~linkedHere) \/ (tried /\ ~chatAnswers)]

\* Every variable has its type.
OutboxTypeOK ==
  /\ settings \in [profile : Profiles, groupId : Groups \cup {Absent}]
  /\ \A f \in Forms :
       /\ cachedProfile[f] \subseteq Profiles
       /\ form[f] \in [open : BOOLEAN, fields : Profiles, initial : Profiles, typed : Groups \cup {Absent}]
       /\ save[f].pc \in {"none", "merge", "answer"}
  /\ \A o \in orphans : o.pc = "merge" /\ o.fields \in Profiles
  /\ estranged \subseteq Forms /\ chatsLinked \subseteq Linkable
  /\ \A d \in Dispatches : dispatch[d].pc \in {"none", "settings", "group", "users", "each", "done"}

\* hasChanges.
Changed(f) == form[f].fields # form[f].initial \/ form[f].typed # Absent

Told(d) == {x \in Linkable \ Groups : delivered[d][x] > 0}

\* An administrator reads a form that shows no changes as the settings in force. A form
\* filled from the settings in force shows them, however edits, saves and answers overlap,
\* until somebody but this page writes them (another browser, or a save of this browser
\* whose page was left meanwhile), or the page's own save fails after its write. A form
\* filled from a cached answer older than the settings, by another's save or by this
\* browser's own, is no promise: the query is kept for minutes and the form filled once.
\* And whatever is saved or unlinked while an event is sent, no chat hears of it twice
\* (but a group that is also linked to an account, as the group and as that account's),
\* the group and single chats both hear of it only under settings that say so, and an
\* event nobody can enable is never sent. A test that succeeds reached somebody, one that
\* fails did not reach the user, and a check that calls the group valid without one being
\* typed speaks of the group events go to.
SettingsAndMessagesAgree ==
  /\ \A f \in Forms :
       (form[f].open /\ save[f].pc = "none" /\ f \notin estranged /\ ~Changed(f)) =>
          form[f].fields = settings.profile
  /\ \A d \in Dispatches :
       /\ \A x \in Groups \cup Linkable : delivered[d][x] <= IF x \in Groups \cap Linkable THEN 2 ELSE 1
       /\ Told(d) \subseteq dispatch[d].audience
       /\ (Told(d) # {} /\ \E g \in Groups \ Linkable : delivered[d][g] > 0) => dispatch[d].profile.individuals
       /\ dispatch[d].event \notin TelegramEvents => \A x \in Groups \cup Linkable : delivered[d][x] = 0
  /\ \A here, group, chat \in BOOLEAN :
       LET test == TestReaches(here, group, chat)
       IN IF test.fails THEN ~test.user ELSE test.group \/ test.user
  /\ \A reachable \in SUBSET Groups :
       CheckConfig(TRUE, Absent, reachable).group = "valid" => settings.groupId \in reachable
================================================================================
