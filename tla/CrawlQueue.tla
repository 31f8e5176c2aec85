----------------------------- MODULE CrawlQueue -----------------------------
(***************************************************************************)
(* The work queue hidden in the column player.next_report_attempt of one   *)
(* server (src/src/db/crawling.rs): get_characters_to_crawl hands the      *)
(* players that are due to crawlers and leases them for Lease minutes,     *)
(* insert_player schedules the next visit by how stale the player is, and  *)
(* mark_removed takes it out.  Crawlers never acknowledge a lease: one     *)
(* that is lost simply runs out.  Time is a clock that all of them read.   *)
(*                                                                         *)
(* A request is one poll or one reported player at a time.  Its SQL        *)
(* statements are separate steps, so the clock it read and the rows it saw *)
(* may be out of date when it writes.  Module PlayerReports has the rest   *)
(* of insert_player's transaction.                                         *)
(***************************************************************************)
EXTENDS Integers, FiniteSets

CONSTANTS
  Names,       \* player names of one server
  Pollers,     \* requests of get_characters_to_crawl in progress
  Handlers,    \* requests of handle_crawl_report in progress
  Lease,       \* minutes(30)
  Backoff,     \* Backoff[t]: the delays insert_player may draw in tier t
  RecentAge,   \* days(3): a change younger than this is recent
  WeekAge,     \* days(7): a change younger than this is from this week
  MaxAge,      \* environment: a report is recorded this long after its fetch, at most
  MaxWait,     \* a poll is over this long after it read the clock, at most
  MaxSkew,     \* environment: how far a crawler's clock may run ahead
  MaxLimit,    \* 500: the most players one poll hands out
  None,        \* no row, no snapshot, no request
  MaxNow       \* bound: the clock stops here

Tiers == {"changed", "recent", "week", "stale", "new"}

(* The shortest delay is 11 hours and the lease half an hour: a report up  *)
(* to 10.5 hours old still schedules the player after any running lease.   *)
(* A poll waits 100 seconds for a connection (acquire_timeout) or fails,   *)
(* hence is over before a lease that started when it began.                *)
ASSUME QueueAssumption ==
  /\ IsFiniteSet(Names)
  /\ Lease \in Nat \ {0}
  /\ MaxAge \in Nat
  /\ MaxWait \in 0..Lease
  /\ MaxSkew \in Nat
  /\ MaxLimit \in Nat \ {0}
  /\ MaxNow \in Nat \ {0}
  /\ RecentAge \in Nat /\ WeekAge \in Nat
  /\ Backoff \in [Tiers -> SUBSET Nat]
  /\ \A t \in Tiers : \A d \in Backoff[t] : d >= MaxAge + Lease

VARIABLES
  now,      \* Utc::now()
  player,   \* player[n]: the columns below of the row of n, or None
  poll,     \* poll[q]: the poll in progress, or None
  job,      \* job[h]: the report in progress, or None
  lease     \* history variable: when the last lease of n ends, 0 before the first

vars == <<now, player, poll, job, lease>>

Time == 1..MaxNow

(* reported and changed are last_reported and last_changed, 0 for NULL. *)
Row == [next : Nat, removed : BOOLEAN, reported : Time \cup {0}, changed : Time \cup {0}]

ASSUME NoneAssumption == None \notin Row

(* t: the clock it read; due: next_report_attempt of the rows its snapshot *)
(* has as due and None for the others, None before the statement runs.     *)
Poll == [t : Time, due : [Names -> Nat \cup {None}] \cup {None}]

(* read: the SELECT has run; seen: the columns it returned, or None. *)
Seen == [reported : Time \cup {0}, changed : Time \cup {0}]
Job == [name : Names, fetch : Time, read : BOOLEAN, seen : Seen \cup {None}]

Known(n) == player[n] # None

Init ==
  /\ now = 1
  /\ player = [n \in Names |-> None]
  /\ poll = [q \in Pollers |-> None]
  /\ job = [h \in Handlers |-> None]
  /\ lease = [n \in Names |-> 0]

(* Time passes, but a request in progress does not outlive MaxAge, MaxWait.*)
Tick ==
  /\ now < MaxNow
  /\ \A h \in Handlers : job[h] # None => now + 1 <= job[h].fetch + MaxAge
  /\ \A q \in Pollers : poll[q] # None => now + 1 <= poll[q].t + MaxWait
  /\ now' = now + 1
  /\ UNCHANGED <<player, poll, job, lease>>

(* The Hall of Fame shows a new name; it is due at once: DEFAULT now (). *)
Discover(n) ==
  /\ ~Known(n)
  /\ player' = [player EXCEPT ![n] = [next |-> now, removed |-> FALSE,
                                      reported |-> 0, changed |-> 0]]
  /\ UNCHANGED <<now, poll, job, lease>>

-----------------------------------------------------------------------------
(* get_characters_to_crawl *)

(* The request reads the clock, then waits for a database connection. *)
Ask(q) ==
  /\ poll[q] = None
  /\ poll' = [poll EXCEPT ![q] = [t |-> now, due |-> None]]
  /\ UNCHANGED <<now, player, job, lease>>

IsDue_OnceReported(n, t) ==
  /\ Known(n) /\ ~player[n].removed
  /\ player[n].next < t
  /\ player[n].reported > 0

IsDue(n, t) ==
  /\ Known(n) /\ ~player[n].removed
  /\ player[n].next < t

(* The statement starts: its snapshot fixes which rows it will look at. *)
Scan(q) ==
  /\ poll[q] # None /\ poll[q].due = None
  /\ poll' = [poll EXCEPT ![q].due =
                [n \in Names |-> IF IsDue(n, poll[q].t) THEN player[n].next ELSE None]]
  /\ UNCHANGED <<now, player, job, lease>>

(* FOR NO KEY UPDATE: once a row is locked, its newest version must still  *)
(* satisfy the WHERE clause; otherwise another poll or report was faster.  *)
Claimable_Snapshot(q) == {n \in Names : poll[q].due[n] # None}
Claimable(q) == {n \in Names : poll[q].due[n] # None /\ IsDue(n, poll[q].t)}

(* ORDER BY next_report_attempt LIMIT: the order is that of the snapshot,  *)
(* the limit counts the rows that passed the second look.  S is the answer *)
(* for some limit of 1..MaxLimit; a limit of 0 does what PollFails does.   *)
Oldest_Unordered(q, S) ==
  /\ S \subseteq Claimable(q) /\ Cardinality(S) <= MaxLimit
  /\ Claimable(q) # {} => S # {}

Oldest(q, S) ==
  /\ S \subseteq Claimable(q) /\ Cardinality(S) <= MaxLimit
  /\ Claimable(q) # {} => S # {}
  /\ \A n \in S, m \in Claimable(q) \ S : poll[q].due[n] <= poll[q].due[m]

(* UPDATE ... SET next_report_attempt = t + 30 minutes: S is handed out. *)
Claim_LeaseAll(q) ==
  /\ poll[q] # None /\ poll[q].due # None
  /\ \E S \in SUBSET Names :
       /\ Oldest(q, S)
       /\ player' = [n \in Names |->
                       IF n \in Claimable(q)
                       THEN [player[n] EXCEPT !.next = poll[q].t + Lease] ELSE player[n]]
       /\ lease' = [n \in Names |-> IF n \in S THEN poll[q].t + Lease ELSE lease[n]]
  /\ poll' = [poll EXCEPT ![q] = None]
  /\ UNCHANGED <<now, job>>

Claim(q) ==
  /\ poll[q] # None /\ poll[q].due # None
  /\ \E S \in SUBSET Names :
       /\ Oldest(q, S)
       /\ player' = [n \in Names |->
                       IF n \in S THEN [player[n] EXCEPT !.next = poll[q].t + Lease]
                                  ELSE player[n]]
       /\ lease' = [n \in Names |-> IF n \in S THEN poll[q].t + Lease ELSE lease[n]]
  /\ poll' = [poll EXCEPT ![q] = None]
  /\ UNCHANGED <<now, job>>

(* The connection is lost or the statement fails: nobody is handed out. *)
PollFails(q) ==
  /\ poll[q] # None
  /\ poll' = [poll EXCEPT ![q] = None]
  /\ UNCHANGED <<now, player, job, lease>>

-----------------------------------------------------------------------------
(* insert_player *)

(* A fetch time that lies in the future is taken to be now. *)
Clamped_Trusted(f) == f
Clamped(f) == IF f > now THEN now ELSE f

(* Any crawler may report any player, with its own clock's fetch time. *)
Arrive(h) ==
  /\ job[h] = None
  /\ \E n \in Names, f \in (now - MaxAge)..(now + MaxSkew) :
       /\ f \in Time
       /\ job' = [job EXCEPT ![h] = [name |-> n, fetch |-> Clamped(f),
                                     read |-> FALSE, seen |-> None]]
  /\ UNCHANGED <<now, player, poll, lease>>

Read(h) ==
  /\ job[h] # None /\ ~job[h].read
  /\ LET row == player[job[h].name]
     IN  job' = [job EXCEPT ![h].read = TRUE,
                            ![h].seen = IF row = None THEN None
                              ELSE [reported |-> row.reported, changed |-> row.changed]]
  /\ UNCHANGED <<now, player, poll, lease>>

(* The tier of an unchanged player, by the age of its last change. *)
Quiet(changed, fetch) ==
  IF changed + RecentAge > fetch THEN "recent"
  ELSE IF changed + WeekAge > fetch THEN "week" ELSE "stale"

(* The delay counts from the fetch, not from the last change. *)
Scheduled_FromChange(fetch, changed, delay) == changed + delay
Scheduled(fetch, changed, delay) == fetch + delay

(* has_changed: always for a row whose columns are NULL, otherwise the     *)
(* response decides.                                                       *)
Write(h) ==
  /\ job[h] # None /\ job[h].read
  /\ LET n == job[h].name
         f == job[h].fetch
         seen == job[h].seen
     IN  IF seen = None
         THEN /\ \/ Known(n) /\ UNCHANGED player          \* UNIQUE violation
                 \/ /\ ~Known(n)
                    /\ \E d \in Backoff["new"] :
                         player' = [player EXCEPT ![n] =
                           [next |-> Scheduled(f, f, d), removed |-> FALSE,
                            reported |-> f, changed |-> f]]
         ELSE \/ seen.reported >= f /\ UNCHANGED player    \* discarded
              \/ /\ seen.reported < f
                 /\ \E changed \in BOOLEAN :
                      /\ seen.reported = 0 => changed
                      /\ \E d \in Backoff[IF changed THEN "changed"
                                          ELSE Quiet(seen.changed, f)] :
                           player' = [player EXCEPT ![n] =
                             [@ EXCEPT !.next = Scheduled(f, seen.changed, d), !.reported = f,
                                       !.changed = IF changed THEN f ELSE seen.changed]]
  /\ job' = [job EXCEPT ![h] = None]
  /\ UNCHANGED <<now, poll, lease>>

(* An invalid response or a failed statement: the transaction rolls back. *)
ReportFails(h) ==
  /\ job[h] # None
  /\ job' = [job EXCEPT ![h] = None]
  /\ UNCHANGED <<now, player, poll, lease>>

(* mark_removed *)
FlagRemoved(n) ==
  /\ Known(n)
  /\ player' = [player EXCEPT ![n].removed = TRUE]
  /\ UNCHANGED <<now, poll, job, lease>>

-----------------------------------------------------------------------------
Next ==
  \/ Tick
  \/ \E n \in Names : Discover(n) \/ FlagRemoved(n)
  \/ \E q \in Pollers : Ask(q) \/ Scan(q) \/ Claim(q) \/ PollFails(q)
  \/ \E h \in Handlers : Arrive(h) \/ Read(h) \/ Write(h) \/ ReportFails(h)

Spec == Init /\ [][Next]_vars

(* Crawlers poll again and again, and of the polls of a request slot some  *)
(* reach the end: a step that is possible over and over happens.           *)
FairSpec ==
  Spec /\ \A q \in Pollers : WF_vars(Ask(q)) /\ SF_vars(Scan(q)) /\ SF_vars(Claim(q))

-----------------------------------------------------------------------------
(* Properties *)

VarsOK ==
  /\ now \in Time
  /\ player \in [Names -> Row \cup {None}]
  /\ poll \in [Pollers -> Poll \cup {None}]
  /\ job \in [Handlers -> Job \cup {None}]
  /\ lease \in [Names -> Nat]

ClocksOK ==
  /\ \A q \in Pollers : poll[q] # None => poll[q].t <= now /\ now <= poll[q].t + MaxWait
  /\ \A h \in Handlers : job[h] # None => job[h].fetch <= now /\ now <= job[h].fetch + MaxAge

RowsStay ==
  \A h \in Handlers : job[h] # None /\ job[h].seen # None => Known(job[h].name)

(* Every variable keeps its shape; every clock reading a request holds     *)
(* lies in the past, but not further than requests are allowed to last;    *)
(* and a row that a report has read is still there when it writes.         *)
TypeOK == VarsOK /\ ClocksOK /\ RowsStay

(* No two crawlers have the same player at once: when a player is handed   *)
(* out again, the poll's clock is past the end of the lease before, in     *)
(* whatever order the polls' snapshots, the locks, and late or repeated    *)
(* reports of the player come.                                             *)
LeaseExclusive ==
  [][\A n \in Names : lease'[n] # lease[n] => lease'[n] - Lease > lease[n]]_vars

(* A lease is never cut short: the row is not due before it ends.          *)
LeaseRespected ==
  \A n \in Names : Known(n) => player[n].next >= lease[n]

(* Who waits longest is handed out first, by the rows as they are when the *)
(* poll takes them and not only as its snapshot had them.                  *)
OldestFirst ==
  [][\A q \in Pollers : \A n, m \in Names :
       (/\ poll[q] # None /\ poll[q].due # None
        /\ poll'[q] = None
        /\ lease'[n] # lease[n] /\ lease'[m] = lease[m]
        /\ poll[q].due[m] # None /\ IsDue(m, poll[q].t)) =>
            player[n].next <= player[m].next]_vars

(* No report carries a date in the future into the table, where it would   *)
(* make insert_player discard every true report until then.                *)
NoFutureReports ==
  \A n \in Names : Known(n) => player[n].reported <= now /\ player[n].changed <= now

(* No player drops out of the queue: unless it is removed, it is due again *)
(* after the longest delay at the latest.                                  *)
Delays == {Lease} \cup UNION {Backoff[t] : t \in Tiers}
NeverLost ==
  \A n \in Names : Known(n) => \E d \in Delays : player[n].next <= now + d

(* The schedule is always accounted for: it was set by the hand-out that   *)
(* leased the player, by the last report or by the discovery.  A player    *)
(* who is put off without being handed out would silently miss its turn.   *)
NextIsAccounted ==
  \A n \in Names : Known(n) =>
    \/ player[n].next = lease[n]
    \/ \E d \in Delays : player[n].next = player[n].reported + d
    \/ lease[n] = 0 /\ player[n].reported = 0

(* A player that is due is eventually handed out, reported or removed, as  *)
(* long as crawlers keep polling, whatever limit they ask for.             *)
Waiting(n) == Known(n) /\ ~player[n].removed /\ player[n].next < now
DueIsServed == \A n \in Names : Waiting(n) ~> ~Waiting(n)
=============================================================================
