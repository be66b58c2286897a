----------------------------- MODULE DashboardCache ----------------------------
(***************************************************************************)
(* The dashboard's statistics and their cache in Redis.                    *)
(*                                                                         *)
(* A request takes the range, then the entry of the cache; on a miss it    *)
(* runs its queries, each of which sees the tickets of its own moment, and *)
(* stores the result for as long as its time to live. A changed ticket     *)
(* emits an event whose handler deletes the entries one after another.     *)
(* Days are integers; the sections kept are those whose numbers are about  *)
(* the same tickets. Averages, names and formats are left out.             *)
(***************************************************************************)
EXTENDS Integers, FiniteSets, FiniteSetsExt

CONSTANTS
  Filed,         \* tickets
  States,        \* values of TicketStatus
  Levels,        \* values of Priority
  Pages,         \* requests for the statistics
  CustomRanges,  \* records [from, last] of days
  Asked,         \* the sections followed from query to cache
  Presets,       \* the presets asked for: members of {"7d", "30d", "90d"}
  FirstDay,      \* the day at the start; day 0 is a Monday
  MaxChanges,    \* bound: tickets changed
  MaxCacheFaults \* bound: failing calls to Redis

ASSUME DashboardAssumption ==
  /\ States \subseteq {"Open", "InProgress", "OnHold", "Resolved", "Closed"}
  /\ Levels \subseteq {"Low", "Medium", "High", "Critical"}
  /\ Presets \subseteq {"7d", "30d", "90d"}
  /\ Asked \subseteq {"current", "status", "priority", "sla", "trend"}
  /\ CustomRanges \subseteq [from : Int, last : Int] /\ \A r \in CustomRanges : r.from <= r.last
  /\ FirstDay \in Int
  /\ IsFiniteSet(Filed)

Keys == Presets \cup CustomRanges

VARIABLES
  today,      \* the day of the server's clock
  filed,      \* filed[t]: the row of ticket t in a set, or {}
  entry,      \* entry[k]: the cached statistics of range k in a set, or {}
  request,    \* request[p]: a call of getStats
  deleting,   \* the invalidations under way: the keys SCAN has yet to come to
  dataChanges, cacheFaults

dashboardVars == <<today, filed, entry, request, deleting, dataChanges, cacheFaults>>

Row == [day : Int, status : States, priority : Levels, sla : {"none", "OnTrack", "Breached"}, assigned : BOOLEAN]
Rows == UNION {filed[t] : t \in Filed}
CountOf(kind) == Cardinality({t \in Filed : filed[t] \cap kind # {}})

\* resolveRange: first day, and the day after the last.
PresetDays == [p \in {"7d", "30d", "90d"} |-> CASE p = "7d" -> 7 [] p = "30d" -> 30 [] p = "90d" -> 90]
RangeOf(k) == IF k \in Presets
              THEN [from |-> today - (PresetDays[k] - 1), to |-> today + 1]
              ELSE [from |-> k.from, to |-> k.last + 1]

\* isLongRange: weeks instead of days.
Weekly(k, range) == k = "90d" \/ (k \notin Presets /\ range.to - range.from > 30)

Created(r, range) == range.from <= r.day /\ r.day < range.to
CreatedRows(range) == {r \in Rows : Created(r, range)}

\* date_trunc('week'), and the cursor of fillTrendGaps set back to Monday.
Monday(d) == d - (d % 7)

\* getDashboardCurrentSnapshot: whatever the range.
Active(r) == r.status \notin {"Resolved", "Closed"}
Snapshot == [active |-> CountOf({r \in Rows : Active(r)}),
             open |-> CountOf({r \in Rows : r.status = "Open"}),
             inProgress |-> CountOf({r \in Rows : r.status = "InProgress"}),
             slaRisk |-> CountOf({r \in Rows : Active(r) /\ r.sla \in {"AtRisk", "Breached"}}),
             unassigned |-> CountOf({r \in Rows : Active(r) /\ ~r.assigned})]

\* buildEnumCounts over getDashboardStatusCounts: absent statuses count 0.
StatusCounts(range) == [s \in States |-> CountOf({r \in CreatedRows(range) : r.status = s})]
PriorityCounts(range) == [l \in Levels |-> CountOf({r \in CreatedRows(range) : r.priority = l})]

\* getDashboardSLAStatsForRange: a ticket without SLA counts in the total only.
SlaStats(range) == [total |-> CountOf(CreatedRows(range)),
                    onTrack |-> CountOf({r \in CreatedRows(range) : r.sla = "OnTrack"})]
ComplianceRate(stats) == IF stats.total > 0 THEN (200 * stats.onTrack + stats.total) \div (2 * stats.total) ELSE 100

\* getDailyTrends: the rows grouped by day or week.
Bucket(r, weekly) == IF weekly THEN Monday(r.day) ELSE r.day
TrendRows(range, weekly) ==
  [b \in {Bucket(r, weekly) : r \in CreatedRows(range)} |->
     CountOf({r \in CreatedRows(range) : Bucket(r, weekly) = b})]

\* The cursor of the weeks starts on the first day of the range.
TrendKeysBug(range, weekly) ==
  IF weekly
  THEN {d \in range.from .. range.to - 1 : (d - range.from) % 7 = 0}
  ELSE range.from .. range.to - 1

\* fillTrendGaps: the cursor's buckets, each with its row's count or 0.
TrendKeys(range, weekly) ==
  IF weekly
  THEN {d \in Monday(range.from) .. range.to - 1 : (d - Monday(range.from)) % 7 = 0}
  ELSE range.from .. range.to - 1
Trend(range, weekly) ==
  LET rows == TrendRows(range, weekly) IN
  {<<b, rows[b]>> : b \in TrendKeys(range, weekly) \cap DOMAIN rows}

SectionOf(section, k, range) ==
  CASE section = "current" -> Snapshot
    [] section = "status" -> StatusCounts(range)
    [] section = "priority" -> PriorityCounts(range)
    [] section = "sla" -> ComplianceRate(SlaStats(range))
    [] section = "trend" -> Trend(range, Weekly(k, range))

NoRange == [from |-> 0, to |-> 0]
NoRequest == [pc |-> "none", key |-> CHOOSE k \in Keys : TRUE, range |-> NoRange, parts |-> <<>>]

DashboardInit ==
  /\ today = FirstDay
  /\ filed = [t \in Filed |-> {}]
  /\ entry = [k \in Keys |-> {}]
  /\ request = [p \in Pages |-> NoRequest]
  /\ deleting = {}
  /\ dataChanges = 0 /\ cacheFaults = 0

CacheFault == cacheFaults < MaxCacheFaults /\ cacheFaults' = cacheFaults + 1

\* getStats up to the cache: a hit is the answer.
Ask(p, k) ==
  /\ request[p].pc = "none"
  /\ \/ /\ entry[k] = {}
        /\ UNCHANGED cacheFaults
     \/ CacheFault
  /\ request' = [request EXCEPT ![p] = [pc |-> "query", key |-> k, range |-> RangeOf(k), parts |-> <<>>]]
  /\ UNCHANGED <<today, filed, entry, deleting, dataChanges>>

\* The queries run at once, on several connections: each sees its own moment.
RunQuery(p, section) ==
  LET q == request[p] IN
  /\ q.pc = "query" /\ section \notin DOMAIN q.parts
  /\ request' = [request EXCEPT ![p].parts =
       [s \in DOMAIN q.parts \cup {section} |->
          IF s = section THEN SectionOf(section, q.key, q.range) ELSE q.parts[s]]]
  /\ UNCHANGED <<today, filed, entry, deleting, dataChanges, cacheFaults>>

\* The result is stored, or that fails; either way it is the answer.
StoreResult(p) ==
  LET q == request[p] IN
  /\ q.pc = "query" /\ DOMAIN q.parts = Asked
  /\ \/ entry' = [entry EXCEPT ![q.key] = {q.parts}] /\ UNCHANGED cacheFaults
     \/ CacheFault /\ UNCHANGED entry
  /\ request' = [request EXCEPT ![p] = NoRequest]
  /\ UNCHANGED <<today, filed, deleting, dataChanges>>

\* The presets are kept without a time to live.
ExpireEntryBug(k) ==
  /\ entry[k] # {} /\ k \notin Presets
  /\ entry' = [entry EXCEPT ![k] = {}]
  /\ UNCHANGED <<today, filed, request, deleting, dataChanges, cacheFaults>>

\* cacheTtl is over.
ExpireEntry(k) ==
  /\ entry[k] # {}
  /\ entry' = [entry EXCEPT ![k] = {}]
  /\ UNCHANGED <<today, filed, request, deleting, dataChanges, cacheFaults>>

\* A ticket is filed, deleted, or its status, priority or assignee changes; the event
\* starts an invalidation. The SLA job's changes emit no event the dashboard hears.
ChangeTicket(t, rows, heard) ==
  /\ dataChanges < MaxChanges /\ rows # filed[t]
  /\ filed' = [filed EXCEPT ![t] = rows]
  /\ deleting' = IF heard THEN deleting \cup {<<dataChanges + 1, Keys>>} ELSE deleting
  /\ dataChanges' = dataChanges + 1
  /\ UNCHANGED <<today, entry, request, cacheFaults>>

FileTicket(t, l) ==
  /\ filed[t] = {} /\ "Open" \in States
  /\ ChangeTicket(t, {[day |-> today, status |-> "Open", priority |-> l, sla |-> "none", assigned |-> FALSE]}, TRUE)
EditTicket(t) ==
  \E r \in filed[t] :
    \/ \E s \in States : ChangeTicket(t, {[r EXCEPT !.status = s]}, TRUE)
    \/ \E l \in Levels : ChangeTicket(t, {[r EXCEPT !.priority = l]}, TRUE)
    \/ ChangeTicket(t, {[r EXCEPT !.assigned = TRUE]}, TRUE)
    \/ \E s \in {"OnTrack", "Breached"} : ChangeTicket(t, {[r EXCEPT !.sla = s]}, FALSE)
    \/ ChangeTicket(t, {}, TRUE)

\* deleteByPattern comes to a key, or Redis fails and the invalidation is given up.
DeleteKey(job) ==
  /\ \/ \E k \in job[2] :
          /\ entry' = [entry EXCEPT ![k] = {}]
          /\ deleting' = (deleting \ {job}) \cup {<<job[1], job[2] \ {k}>>}
          /\ UNCHANGED cacheFaults
     \/ job[2] = {} /\ deleting' = deleting \ {job} /\ UNCHANGED <<entry, cacheFaults>>
     \/ CacheFault /\ deleting' = deleting \ {job} /\ UNCHANGED entry
  /\ UNCHANGED <<today, filed, request, dataChanges>>

Midnight ==
  /\ today < FirstDay + 1
  /\ today' = today + 1
  /\ UNCHANGED <<filed, entry, request, deleting, dataChanges, cacheFaults>>

DashboardNext ==
  \/ \E p \in Pages :
       \/ \E k \in Keys : Ask(p, k)
       \/ \E section \in Asked : RunQuery(p, section)
       \/ StoreResult(p)
  \/ \E k \in Keys : ExpireEntry(k)
  \/ \E t \in Filed : EditTicket(t) \/ \E l \in Levels : FileTicket(t, l)
  \/ \E job \in deleting : DeleteKey(job)
  \/ Midnight

\* Redis expires entries, requests settle.
PageStep(p) == StoreResult(p) \/ \E section \in Asked : RunQuery(p, section)
DashboardFairness ==
  /\ \A k \in Keys : WF_dashboardVars(ExpireEntry(k))
  /\ \A p \in Pages : WF_dashboardVars(PageStep(p))

DashboardSpec == DashboardInit /\ [][DashboardNext]_dashboardVars /\ DashboardFairness

\* Every variable has its type.
DashboardTypeOK ==
  /\ today \in FirstDay .. FirstDay + 1
  /\ \A t \in Filed : \A r \in filed[t] : r.day \in Int /\ r.status \in States /\ r.priority \in Levels
  /\ \A k \in Keys : Cardinality(entry[k]) <= 1
  /\ \A p \in Pages : request[p].pc \in {"none", "query"} /\ DOMAIN request[p].parts \subseteq Asked
  /\ \A job \in deleting : job[2] \subseteq Keys

\* For every range, by days and by weeks whatever weekday it starts on, the numbers of one
\* moment add up: no ticket falls between the buckets of the trend, and the trend,
\* the statuses, the priorities and the SLA total count the same tickets
\* (fillTrendGaps against date_trunc, isLongRange, buildEnumCounts).
DashboardAddsUp ==
  \A range \in {RangeOf(k) : k \in Keys} \cup {[from |-> today - n, to |-> today + 1] : n \in 0 .. 8} :
    LET total == SlaStats(range).total IN
    /\ \A weekly \in BOOLEAN : MapThenSumSet(LAMBDA x : x[2], Trend(range, weekly)) = total
    /\ MapThenSumSet(LAMBDA s : StatusCounts(range)[s], States) = total
    /\ MapThenSumSet(LAMBDA l : PriorityCounts(range)[l], Levels) = total
    /\ ComplianceRate(SlaStats(range)) \in 0 .. 100

Fresh(k) == [s \in Asked |-> SectionOf(s, k, RangeOf(k))]

\* A result may be put together from moments before and after a change, stored after
\* the change's invalidation, or survive midnight or a failing Redis: but once the
\* tickets and the day stay as they are, every cached result soon is the right one.
DashboardCatchesUp == <>[](\A k \in Keys : entry[k] \subseteq {Fresh(k)})
================================================================================
