------------------------------ MODULE TelegramBot ------------------------------
(***************************************************************************)
(* The Telegram bot of one process: the polling loop, its restarts, and    *)
(* the linking of chats to accounts by a code.                             *)
(*                                                                         *)
(* Each call of startBot takes the next generation; loop[g] is the polling *)
(* loop it starts. A loop is stale when its generation is not the current  *)
(* one; it notices at its next check. Telegram keeps the messages sent to  *)
(* the bot and returns those from an offset on that no request has passed. *)
(* Templates and texts are left out, and so are the answers to the chats.  *)
(* The token of the environment, which stands in for one that is not       *)
(* stored, is taken as not set.                                            *)
(***************************************************************************)
EXTENDS Naturals, Sequences

CONSTANTS
  Nil,           \* no token, no user, no chat, no timer
  Keep,          \* a field that a request leaves out
  Boot,          \* the start of the application, which calls startBot as a request does
  Editors,       \* requests that edit the configuration
  Admins,        \* accounts that link a chat
  Chats,         \* Telegram chats of people
  TakenChats,    \* those of them linked to other accounts
  BotTokens,     \* bot tokens
  GoodTokens,    \* the tokens Telegram accepts
  MaxFailures,   \* 401 answers in a row that stop the loop
  MaxStarts,     \* bound: calls of startBot
  MaxCodes,      \* bound: link codes made
  MaxMessages,   \* bound: messages sent to the bot
  MaxBotFaults   \* bound: failing database or network calls

ASSUME BotAssumption ==
  /\ GoodTokens \subseteq BotTokens /\ TakenChats \subseteq Chats
  /\ MaxFailures \in Nat \ {0} /\ MaxStarts \in Nat
  /\ Nil \notin BotTokens \cup Admins \cup Chats \cup Nat
  /\ Keep \notin BotTokens \cup {Nil}
  /\ Boot \notin Editors

Callers == Editors \cup {Boot}
Generations == 1 .. MaxStarts

VARIABLES
  stored,       \* botToken of the configuration row
  call,         \* call[a]: an administrator's PUT /telegram/config, or the start
  startFailed,  \* history: the last startBot could not read the token
  polling, generation, failures, pollTimeout,  \* fields of TelegramService
  loop,         \* loop[g]: the polling loop of generation g
  messages,     \* messages[i]: the chat and code of the i-th message to the bot
  passed,       \* messages up to this one are confirmed to Telegram
  code, codeLive, linked,  \* the account rows: telegramCode, not yet expired, telegramChatId
  issued,       \* history: issued[k]: who code k was made for
  botFaults

configVars == <<stored, call, startFailed>>
serviceVars == <<polling, generation, failures, pollTimeout, loop>>
accountVars == <<code, codeLive, linked, issued>>
botVars == <<configVars, serviceVars, messages, passed, accountVars, botFaults>>

NoLoop == [pc |-> "none", token |-> Nil, offset |-> 0, batch |-> {}, user |-> Nil]
NoCall == [pc |-> "none", gen |-> 0, token |-> Keep, restart |-> FALSE]

BotInit ==
  /\ stored \in BotTokens \cup {Nil}
  /\ call = [a \in Callers |-> IF a = Boot THEN [NoCall EXCEPT !.pc = "start"] ELSE NoCall]
  /\ startFailed = FALSE
  /\ polling = FALSE /\ generation = 0 /\ failures = 0 /\ pollTimeout = Nil
  /\ loop = [g \in Generations |-> NoLoop]
  /\ messages = <<>> /\ passed = 0
  /\ code = [a \in Admins |-> Nil] /\ codeLive = {} /\ linked = [a \in Admins |-> Nil]
  /\ issued = <<>>
  /\ botFaults = 0

\* A loop that does not look at its generation.
CurrentBug(g) == polling

Current(g) == polling /\ g = generation
Issued == DOMAIN issued
Fault == botFaults < MaxBotFaults /\ botFaults' = botFaults + 1

\* updateConfig: the row is read, to be written back with what was sent. The bot is
\* started anew when a token or one of the two fields of the group was.
ConfigRead(a, token, group) ==
  /\ call[a].pc = "none" /\ generation < MaxStarts
  /\ call' = [call EXCEPT ![a] = [pc |-> "write", gen |-> 0, token |-> token, restart |-> token # Keep \/ group]]
  /\ UNCHANGED <<stored, startFailed, serviceVars, messages, passed, accountVars, botFaults>>

ConfigWrite(a) ==
  /\ call[a].pc = "write"
  /\ \/ /\ stored' = IF call[a].token = Keep THEN stored ELSE call[a].token
        /\ call' = [call EXCEPT ![a] = IF @.restart THEN [@ EXCEPT !.pc = "start"] ELSE NoCall]
        /\ UNCHANGED botFaults
     \/ /\ Fault
        /\ call' = [call EXCEPT ![a] = NoCall]
        /\ UNCHANGED stored
  /\ UNCHANGED <<startFailed, serviceVars, messages, passed, accountVars>>

\* clearPollTimeout: the loop that was waiting is never resumed.
Cleared(l) == [g \in Generations |-> IF g = pollTimeout THEN [l[g] EXCEPT !.pc = "ended"] ELSE l[g]]

\* startBot before its await.
StartBegin(a) ==
  /\ call[a].pc = "start" /\ generation < MaxStarts
  /\ polling' = FALSE /\ generation' = generation + 1 /\ failures' = 0
  /\ loop' = Cleared(loop) /\ pollTimeout' = Nil
  /\ call' = [call EXCEPT ![a].pc = "token", ![a].gen = generation + 1]
  /\ startFailed' = FALSE
  /\ UNCHANGED <<stored, messages, passed, accountVars, botFaults>>

\* resolveToken, and the rest of startBot: it does not look at the generation.
StartEnd(a) ==
  /\ call[a].pc = "token"
  /\ \/ /\ stored # Nil
        /\ polling' = TRUE
        /\ loop' = [loop EXCEPT ![call[a].gen] = [NoLoop EXCEPT !.pc = "entry", !.token = stored]]
        /\ UNCHANGED <<startFailed, botFaults>>
     \/ stored = Nil /\ UNCHANGED <<polling, loop, startFailed, botFaults>>
     \/ Fault /\ startFailed' = TRUE /\ UNCHANGED <<polling, loop>>
  /\ call' = [call EXCEPT ![a] = NoCall]
  /\ UNCHANGED <<stored, generation, failures, pollTimeout, messages, passed, accountVars>>

\* The top of pollLoop, and its timer.
Enter(g) ==
  /\ loop[g].pc = "entry" \/ pollTimeout = g
  /\ pollTimeout' = IF pollTimeout = g THEN Nil ELSE pollTimeout
  /\ loop' = [loop EXCEPT ![g].pc = IF Current(g) THEN "fetch" ELSE "ended"]
  /\ UNCHANGED <<configVars, polling, generation, failures, messages, passed, accountVars, botFaults>>

Later(n) == {i \in DOMAIN messages : i >= n /\ i > passed}

\* getUpdates answers. The answer is taken whatever the generation is by then: a 401
\* counts, and the fifth in a row stops the bot; an answer resets the count.
PollAnswered(g) ==
  /\ loop[g].pc = "fetch"
  /\ \/ /\ loop[g].token \in GoodTokens
        /\ passed' = IF loop[g].offset > passed + 1 THEN loop[g].offset - 1 ELSE passed
        /\ loop' = [loop EXCEPT ![g].pc = "handle", ![g].batch = Later(loop[g].offset)]
        /\ failures' = 0
        /\ UNCHANGED <<polling, generation, pollTimeout, botFaults>>
     \/ /\ loop[g].token \notin GoodTokens /\ failures + 1 < MaxFailures
        /\ failures' = failures + 1
        /\ loop' = [loop EXCEPT ![g].pc = "check"]
        /\ UNCHANGED <<polling, generation, pollTimeout, passed, botFaults>>
     \/ /\ loop[g].token \notin GoodTokens /\ failures + 1 >= MaxFailures
        /\ failures' = failures + 1
        /\ polling' = FALSE /\ generation' = generation + 1
        /\ loop' = [Cleared(loop) EXCEPT ![g].pc = "ended"] /\ pollTimeout' = Nil
        /\ UNCHANGED <<passed, botFaults>>
     \/ /\ Fault
        /\ loop' = [loop EXCEPT ![g].pc = "check"]
        /\ UNCHANGED <<polling, generation, failures, pollTimeout, passed>>
  /\ UNCHANGED <<configVars, messages, accountVars>>

NextUpdate(g) == CHOOSE i \in loop[g].batch : \A j \in loop[g].batch : i <= j

\* handleUpdate, first half: the offset moves past the update, and the code is looked
\* up. A message without a live code is answered and done with. A failure ends the
\* batch; the updates after this one are fetched again, this one is not.
LookUp(g) ==
  LET i == NextUpdate(g)
      owners == {a \in Admins : code[a] = messages[i].code /\ a \in codeLive}
      done == [loop EXCEPT ![g].offset = i + 1, ![g].batch = @ \ {i}]
  IN /\ loop[g].pc = "handle" /\ loop[g].batch # {}
     /\ \/ \E a \in owners :
             /\ loop' = [done EXCEPT ![g].pc = "link", ![g].user = <<a, messages[i].chat>>]
             /\ UNCHANGED botFaults
        \/ owners = {} /\ loop' = done /\ UNCHANGED botFaults
        \/ Fault /\ loop' = [done EXCEPT ![g].pc = "check", ![g].batch = {}]
     /\ UNCHANGED <<configVars, polling, generation, failures, pollTimeout, messages, passed, accountVars>>

\* handleUpdate, second half: the row is written by id. A chat belongs to one account
\* at most (the unique index), otherwise the write fails as any other may.
Taken(c, a) == c \in TakenChats \/ \E b \in Admins \ {a} : linked[b] = c
Link(g) ==
  LET a == loop[g].user[1]  c == loop[g].user[2] IN
  /\ loop[g].pc = "link"
  /\ \/ /\ ~Taken(c, a)
        /\ linked' = [linked EXCEPT ![a] = c]
        /\ code' = [code EXCEPT ![a] = Nil] /\ codeLive' = codeLive \ {a}
        /\ loop' = [loop EXCEPT ![g].pc = "handle", ![g].user = Nil]
        /\ UNCHANGED botFaults
     \/ /\ (Taken(c, a) /\ UNCHANGED botFaults) \/ Fault
        /\ loop' = [loop EXCEPT ![g].pc = "check", ![g].user = Nil, ![g].batch = {}]
        /\ UNCHANGED <<linked, code, codeLive>>
  /\ UNCHANGED <<configVars, polling, generation, failures, pollTimeout, messages, passed, issued>>

\* The timer is set only after an answer, not after a failure.
RestBug(g) ==
  LET again == Current(g) /\ loop[g].pc = "handle" IN
  /\ loop[g].pc = "check" \/ (loop[g].pc = "handle" /\ loop[g].batch = {})
  /\ loop' = [loop EXCEPT ![g].pc = IF again THEN "wait" ELSE "ended"]
  /\ pollTimeout' = IF again THEN g ELSE pollTimeout
  /\ UNCHANGED <<configVars, polling, generation, failures, messages, passed, accountVars, botFaults>>

\* The end of pollLoop: a stale loop ends, a current one sets the timer.
Rest(g) ==
  /\ loop[g].pc = "check" \/ (loop[g].pc = "handle" /\ loop[g].batch = {})
  /\ loop' = [loop EXCEPT ![g].pc = IF Current(g) THEN "wait" ELSE "ended"]
  /\ pollTimeout' = IF Current(g) THEN g ELSE pollTimeout
  /\ UNCHANGED <<configVars, polling, generation, failures, messages, passed, accountVars, botFaults>>

\* generateLinkCode: a fresh code replaces the one before.
Generate(a) ==
  /\ Len(issued) < MaxCodes
  /\ issued' = Append(issued, a)
  /\ code' = [code EXCEPT ![a] = Len(issued) + 1]
  /\ codeLive' = codeLive \cup {a}
  /\ UNCHANGED <<configVars, serviceVars, messages, passed, linked, botFaults>>

\* Five minutes pass.
CodeExpires(a) ==
  /\ a \in codeLive /\ codeLive' = codeLive \ {a}
  /\ UNCHANGED <<configVars, serviceVars, messages, passed, code, linked, issued, botFaults>>

Unlink(a) ==
  /\ linked[a] # Nil \/ code[a] # Nil
  /\ linked' = [linked EXCEPT ![a] = Nil]
  /\ code' = [code EXCEPT ![a] = Nil] /\ codeLive' = codeLive \ {a}
  /\ UNCHANGED <<configVars, serviceVars, messages, passed, issued, botFaults>>

\* A chat sends `/start <code>` to the bot.
Write(c, k) ==
  /\ Len(messages) < MaxMessages
  /\ messages' = Append(messages, [chat |-> c, code |-> k])
  /\ UNCHANGED <<configVars, serviceVars, passed, accountVars, botFaults>>

LoopStep(g) == Enter(g) \/ PollAnswered(g) \/ LookUp(g) \/ Link(g) \/ Rest(g)
CallStep(a) == ConfigWrite(a) \/ StartBegin(a) \/ StartEnd(a)

BotNext ==
  \/ \E a \in Editors, t \in BotTokens \cup {Nil, Keep}, group \in BOOLEAN : ConfigRead(a, t, group)
  \/ \E a \in Admins : Generate(a) \/ CodeExpires(a) \/ Unlink(a)
  \/ \E a \in Callers : CallStep(a)
  \/ \E g \in Generations : LoopStep(g)
  \/ \E c \in Chats, k \in Issued : Write(c, k)

BotFairness ==
  /\ \A g \in Generations : WF_botVars(LoopStep(g))
  /\ \A a \in Callers : WF_botVars(CallStep(a))

BotSpec == BotInit /\ [][BotNext]_botVars /\ BotFairness

\* Every variable has its type.
BotTypeOK ==
  /\ stored \in BotTokens \cup {Nil}
  /\ \A a \in Callers : call[a].pc \in {"none", "write", "start", "token"}
  /\ polling \in BOOLEAN /\ generation \in Nat /\ failures \in Nat
  /\ pollTimeout \in Generations \cup {Nil}
  /\ \A g \in Generations :
       /\ loop[g].pc \in {"none", "entry", "fetch", "handle", "link", "check", "wait", "ended"}
       /\ loop[g].token \in BotTokens \cup {Nil}
  /\ linked \in [Admins -> Chats \cup {Nil}]
  /\ code \in [Admins -> Issued \cup {Nil}] /\ codeLive \subseteq Admins

Alive(g) == Current(g) /\ loop[g].pc \notin {"none", "ended"}
NoCalls == \A a \in Callers : call[a].pc = "none"

\* However saves of the configuration, the start and the loops they leave behind interleave,
\* once they are over one loop at most goes on, with the token that is stored (updateConfig,
\* startBot). Two loops may meanwhile be at work on the same messages; still a chat is linked
\* to an account only if it sent a code made for that account (handleUpdate).
BotFollowsItsSettings ==
  /\ NoCalls => \A g \in Generations : Alive(g) =>
       loop[g].token = stored /\ \A h \in Generations \ {g} : ~Alive(h)
  /\ \A a \in Admins : linked[a] # Nil =>
       \E i \in DOMAIN messages : messages[i].chat = linked[a] /\ issued[messages[i].code] = a

\* When the configuration is left alone, the bot polls for ever if its token is good
\* and every message is taken and confirmed; with a bad token it stops. Loops left over
\* from before count their 401 too, so this needs fewer restarts than MaxFailures.
BotSettles ==
  /\ <>[](NoCalls /\ ~startFailed /\ stored \in GoodTokens) =>
       <>[]((\E g \in Generations : Alive(g)) /\ passed = Len(messages))
  /\ <>[](NoCalls /\ stored \notin GoodTokens) => <>[](\A g \in Generations : ~Alive(g))
================================================================================
