------------------------------ MODULE HofCrawl ------------------------------
(***************************************************************************)
(* The crawl of the Hall of Fame of one server (src/src/db/crawling.rs):   *)
(* get_hof_pages_to_crawl starts a new crawl when the last one began more  *)
(* than three days ago, then leases pages that are to do, and              *)
(* insert_hof_pages takes a reported page off the list and inserts the     *)
(* names it shows.  Tables server (one row), todo_hof_page and player,     *)
(* into which crawl reports may put names as well (see PlayerReports).     *)
(*                                                                         *)
(* At READ COMMITTED a statement looks for rows in the snapshot taken when *)
(* it starts, and waits for a row that an open transaction has written.    *)
(* Afterwards it goes on with the newest version of that row, unless the   *)
(* row is gone, and does not evaluate a subquery (WHERE idx IN (SELECT ...)*)
(* again.                                                                  *)
(***************************************************************************)
EXTENDS Integers, FiniteSets

CONSTANTS
  Names,      \* player names, those made of digits left out
  LastPage,   \* the highest page index any player_count leads to
  Pollers,    \* requests of get_hof_pages_to_crawl in progress
  Reporters,  \* requests of insert_hof_pages in progress, a page at a time
  Lease,      \* minutes(15)
  CrawlAge,   \* days(3)
  MaxLimit,   \* 100: the most pages one request gets
  None,       \* no row, no request
  MaxRequests, \* bound: how many requests begin in all
  MaxNow      \* bound: the clock stops here

ASSUME HofAssumption ==
  /\ IsFiniteSet(Names)
  /\ LastPage \in Nat
  /\ Lease \in Nat \ {0} /\ CrawlAge \in Nat \ {0}
  /\ MaxLimit \in Nat
  /\ MaxNow \in Nat \ {0} /\ MaxRequests \in Nat

VARIABLES
  now,        \* Utc::now() and now() of the database
  lastCrawl,  \* server.last_hof_crawl
  crawl,      \* number of the last crawl that was committed
  todo,       \* table todo_hof_page: todo[p] is the row of page p, or None
  known,      \* table player: the committed names
  poll,       \* poll[q]: the request for pages in progress, or None
  report,     \* report[r]: the reported page in progress, or None
  requests,   \* requests that have begun so far
  pages,      \* history variable: highest page of the crawl, -1 before the first
  began,      \* history variable: when the crawl was committed
  crawled,    \* history variable: the pages reported in this crawl
  shown,      \* history variable: shown[p]: the names p was reported with
  handed      \* handed[p]: history variable: the last hand-out of p in this crawl, or None

tables == <<lastCrawl, crawl, todo, known>>
hist == <<pages, began, crawled, shown, handed>>
vars == <<now, tables, poll, report, requests, hist>>

Pages == 0..LastPage
Time == 1..MaxNow

(* A row and the crawl that inserted it, which tells it from later rows.   *)
TodoRow == [next : Nat, crawl : Nat]

(* t: the clock it read; picked: the rows its subquery returned, as the    *)
(* crawls they are of.                                                     *)
Poll == [at : {"overdue", "clear", "fill", "pick", "hand"},
         t : Time, picked : [Pages -> Nat \cup {None}]]

(* row: the crawl of the row its DELETE found; held: it has deleted that;  *)
(* names: what the page shows, rest: of these the names still to insert,   *)
(* mine: those inserted.                                                   *)
Report == [at : {"delete", "select", "insert"}, page : Pages, row : Nat \cup {None},
           held : BOOLEAN,
           names : SUBSET Names, rest : SUBSET Names, mine : SUBSET Names]

HandedOut == [at : Time, until : Nat]

NoRows == [p \in Pages |-> None]
NoNames == [p \in Pages |-> {}]

ASSUME NoneAssumption == None \notin Nat \cup TodoRow \cup HandedOut

(* get_server_id dates the last crawl of a new server 30 days back. *)
Init ==
  /\ now = 1
  /\ lastCrawl = -10 * CrawlAge
  /\ crawl = 0 /\ todo = NoRows /\ known = {}
  /\ poll = [q \in Pollers |-> None]
  /\ report = [r \in Reporters |-> None]
  /\ requests = 0
  /\ pages = -1 /\ began = 0 /\ crawled = {} /\ shown = NoNames /\ handed = NoRows

Tick == now < MaxNow /\ now' = now + 1 /\ UNCHANGED <<tables, poll, report, requests, hist>>

PollAt(q, label) == poll[q] # None /\ poll[q].at = label
ReportAt(r, label) == report[r] # None /\ report[r].at = label

(* Row locks: of the server, of all pages by a restart, of a page by a     *)
(* report, of a name by the report that has inserted it.                   *)
ServerHeld(q) == \E o \in Pollers \ {q} : PollAt(o, "clear") \/ PollAt(o, "fill")
Restarting == \E q \in Pollers : PollAt(q, "fill")
Deleted(p) == \E r \in Reporters : report[r] # None /\ report[r].held /\ report[r].page = p
NameHeld_Unlocked(r, n) == FALSE
NameHeld(r, n) == \E o \in Reporters \ {r} : report[o] # None /\ n \in report[o].mine

(* The row has not been deleted since it was found, leased or not. *)
Still(p, row) == todo[p] # None /\ todo[p].crawl = row

-----------------------------------------------------------------------------
(* get_hof_pages_to_crawl: the transaction *)

(* The UPDATE of the server starts: its subquery looks at the date. *)
Overdue_Always(t) == TRUE
Overdue(t) == lastCrawl < t - CrawlAge

(* BEGIN, the clock is read, the first statement starts. *)
Begin(q) ==
  /\ poll[q] = None /\ requests < MaxRequests
  /\ poll' = [poll EXCEPT ![q] = [at |-> IF Overdue(now) THEN "overdue" ELSE "pick",
                                  t |-> now, picked |-> NoRows]]
  /\ requests' = requests + 1
  /\ UNCHANGED <<now, tables, report, hist>>

(* It locks the row, and does not look at the date again after a wait. *)
LockServer(q) ==
  /\ PollAt(q, "overdue") /\ ~ServerHeld(q)
  /\ poll' = [poll EXCEPT ![q].at = "clear"]
  /\ UNCHANGED <<now, tables, report, requests, hist>>

(* DELETE of all pages waits for the reports that delete one. *)
ClearPages(q) ==
  /\ PollAt(q, "clear") /\ \A p \in Pages : ~Deleted(p)
  /\ poll' = [poll EXCEPT ![q].at = "fill"]
  /\ UNCHANGED <<now, tables, report, requests, hist>>

(* INSERT of the pages up to the one the player_count leads to, and the    *)
(* commit.  DEFAULT now () is when the transaction began: just before the  *)
(* clock was read, so by that clock the pages are due.                     *)
FillPages(q) ==
  /\ PollAt(q, "fill")
  /\ lastCrawl' = poll[q].t
  /\ crawl' = crawl + 1
  /\ \E last \in Pages :
       /\ todo' = [p \in Pages |-> IF p <= last
                                   THEN [next |-> poll[q].t - 1, crawl |-> crawl + 1] ELSE None]
       /\ pages' = last
  /\ began' = now /\ crawled' = {} /\ shown' = NoNames /\ handed' = NoRows
  /\ poll' = [poll EXCEPT ![q].at = "pick"]
  /\ UNCHANGED <<now, known, report, requests>>

-----------------------------------------------------------------------------
(* get_hof_pages_to_crawl: the statement after it, on another connection *)

(* Its subquery takes any pages that are due, up to the limit. *)
IsDue_Always(p, t) == todo[p] # None
IsDue(p, t) == todo[p] # None /\ todo[p].next < t

PickPages(q) ==
  /\ PollAt(q, "pick")
  /\ \E S \in SUBSET {p \in Pages : IsDue(p, poll[q].t)} :
       /\ Cardinality(S) <= MaxLimit
       /\ poll' = [poll EXCEPT ![q].picked = [p \in Pages |-> IF p \in S THEN todo[p].crawl ELSE None],
                               ![q].at = "hand"]
  /\ UNCHANGED <<now, tables, report, requests, hist>>

(* The UPDATE leases those that are still there, leased meanwhile or not.  *)
Taken(q) == {p \in Pages : Still(p, poll[q].picked[p])}

HandOut_LeasesAll(q) ==
  /\ PollAt(q, "hand")
  /\ \A p \in Pages : poll[q].picked[p] # None => ~Deleted(p) /\ ~Restarting
  /\ LET until == poll[q].t + Lease
     IN  /\ todo' = [p \in Pages |-> IF IsDue(p, poll[q].t)
                                     THEN [todo[p] EXCEPT !.next = until] ELSE todo[p]]
         /\ handed' = [p \in Pages |-> IF p \in Taken(q) THEN [at |-> now, until |-> until]
                                                          ELSE handed[p]]
  /\ poll' = [poll EXCEPT ![q] = None]
  /\ UNCHANGED <<now, lastCrawl, crawl, known, report, requests, pages, began, crawled, shown>>

HandOut(q) ==
  /\ PollAt(q, "hand")
  /\ \A p \in Pages : poll[q].picked[p] # None => ~Deleted(p) /\ ~Restarting
  /\ LET until == poll[q].t + Lease
     IN  /\ todo' = [p \in Pages |-> IF p \in Taken(q)
                                     THEN [todo[p] EXCEPT !.next = until] ELSE todo[p]]
         /\ handed' = [p \in Pages |-> IF p \in Taken(q) THEN [at |-> now, until |-> until]
                                                          ELSE handed[p]]
  /\ poll' = [poll EXCEPT ![q] = None]
  /\ UNCHANGED <<now, lastCrawl, crawl, known, report, requests, pages, began, crawled, shown>>

(* A statement fails or the connection is lost: what is open rolls back. *)
PollFails(q) ==
  /\ poll[q] # None
  /\ poll' = [poll EXCEPT ![q] = None]
  /\ UNCHANGED <<now, tables, report, requests, hist>>

-----------------------------------------------------------------------------
(* insert_hof_pages, for one page that can be parsed *)

(* A page is reported, leased or not; the DELETE finds its row, or none ...*)
Arrive(r) ==
  /\ report[r] = None /\ requests < MaxRequests
  /\ \E p \in Pages :
       report' = [report EXCEPT ![r] =
         [at |-> "delete", page |-> p, row |-> IF todo[p] = None THEN None ELSE todo[p].crawl,
          held |-> FALSE, names |-> {}, rest |-> {}, mine |-> {}]]
  /\ requests' = requests + 1
  /\ UNCHANGED <<now, tables, poll, hist>>

(* ... and deletes it, if it is still there once nobody else holds it.     *)
DeletePage_Committed(r) ==
  /\ ReportAt(r, "delete")
  /\ LET p == report[r].page
     IN  /\ report[r].row # None => ~Deleted(p) /\ ~Restarting
         /\ todo' = [todo EXCEPT ![p] = IF Still(p, report[r].row) THEN None ELSE @]
         /\ report' = [report EXCEPT ![r].at = "select"]
  /\ UNCHANGED <<now, lastCrawl, crawl, known, poll, requests, hist>>

DeletePage(r) ==
  /\ ReportAt(r, "delete")
  /\ LET p == report[r].page
     IN  /\ report[r].row # None => ~Deleted(p) /\ ~Restarting
         /\ report' = [report EXCEPT ![r].held = Still(p, report[r].row), ![r].at = "select"]
  /\ UNCHANGED <<now, tables, poll, requests, hist>>

(* Names that exist are left out, so as not to draw a player_id for them;  *)
(* a page without names comes here with nothing to do.                     *)
SelectNames(r) ==
  /\ ReportAt(r, "select")
  /\ \E names \in SUBSET Names :
       report' = [report EXCEPT ![r].names = names, ![r].rest = names \ known,
                                ![r].at = "insert"]
  /\ UNCHANGED <<now, tables, poll, requests, hist>>

(* INSERT ... ON CONFLICT DO NOTHING, name by name in the order of the     *)
(* page, which is any order since ranks change from one fetch to the next: *)
(* it waits for another transaction that is inserting the same name.       *)
InsertName(r) ==
  /\ ReportAt(r, "insert")
  /\ \E n \in report[r].rest :
       /\ ~NameHeld(r, n)
       /\ report' = [report EXCEPT ![r].rest = @ \ {n},
                                   ![r].mine = IF n \in known THEN @ ELSE @ \cup {n}]
  /\ UNCHANGED <<now, tables, poll, requests, hist>>

CommitPage(r) ==
  /\ ReportAt(r, "insert") /\ report[r].rest = {}
  /\ known' = known \cup report[r].mine
  /\ IF report[r].held
     THEN /\ todo' = [todo EXCEPT ![report[r].page] = None]
          /\ crawled' = crawled \cup {report[r].page}
          /\ shown' = [shown EXCEPT ![report[r].page] = report[r].names]
     ELSE UNCHANGED <<todo, crawled, shown>>
  /\ report' = [report EXCEPT ![r] = None]
  /\ UNCHANGED <<now, lastCrawl, crawl, poll, pages, began, handed, requests>>

(* A statement fails, be it that reports wait for each other's names in a  *)
(* circle and PostgreSQL picks this one: the page and its names roll back. *)
ReportFails(r) ==
  /\ report[r] # None
  /\ report' = [report EXCEPT ![r] = None]
  /\ UNCHANGED <<now, tables, poll, requests, hist>>

(* The process dies: whatever is open rolls back. *)
Restart ==
  /\ poll' = [q \in Pollers |-> None]
  /\ report' = [r \in Reporters |-> None]
  /\ UNCHANGED <<now, tables, requests, hist>>

-----------------------------------------------------------------------------
Next ==
  \/ Tick \/ Restart
  \/ \E q \in Pollers : \/ Begin(q) \/ LockServer(q) \/ ClearPages(q) \/ FillPages(q)
                         \/ PickPages(q) \/ HandOut(q) \/ PollFails(q)
  \/ \E r \in Reporters : \/ Arrive(r) \/ DeletePage(r) \/ SelectNames(r) \/ InsertName(r)
                           \/ CommitPage(r) \/ ReportFails(r)

Spec == Init /\ [][Next]_vars

-----------------------------------------------------------------------------
(* Properties *)

VarsOK ==
  /\ now \in Time /\ lastCrawl \in Int /\ crawl \in Nat
  /\ todo \in [Pages -> TodoRow \cup {None}]
  /\ known \subseteq Names
  /\ poll \in [Pollers -> Poll \cup {None}]
  /\ report \in [Reporters -> Report \cup {None}]
  /\ requests \in 0..MaxRequests
  /\ pages \in Pages \cup {-1} /\ began \in Time \cup {0}
  /\ crawled \subseteq Pages /\ shown \in [Pages -> SUBSET Names]
  /\ handed \in [Pages -> HandedOut \cup {None}]

ClocksOK ==
  /\ lastCrawl <= now
  /\ \A q \in Pollers : poll[q] # None => poll[q].t <= now

RowsOfCrawl == \A p \in Pages : todo[p] # None => todo[p].crawl = crawl

OneRestart == \A q, o \in Pollers : q # o /\ PollAt(q, "fill") => ~PollAt(o, "fill")

OneHolder ==
  \A r, o \in Reporters : r # o /\ report[r] # None /\ report[o] # None =>
    /\ report[r].mine \cap report[o].mine = {}
    /\ report[r].held /\ report[o].held => report[r].page # report[o].page

(* Every variable keeps its shape, no clock reading lies in the future,    *)
(* rows belong to the last crawl, and two transactions never hold the      *)
(* server, a page or a name at once.                                       *)
TypeOK == VarsOK /\ ClocksOK /\ RowsOfCrawl /\ OneRestart /\ OneHolder

(* Every page of the crawl is to do, or it was reported in this crawl and  *)
(* all names it showed are in the table: however restarts, reports that    *)
(* fail half way and reports of overlapping pages meet, no name is missed. *)
PagesAccounted ==
  \A p \in Pages :
    /\ p <= pages /\ todo[p] = None =>
         p \in crawled /\ shown[p] \subseteq known
    /\ p > pages => todo[p] = None

(* A page that is to do is due, unless it was handed out in this crawl and *)
(* for one lease at most: whether the crawler that got it answers, fails   *)
(* or sends what cannot be parsed, somebody gets it again.                 *)
PagesReturn ==
  \A p \in Pages : todo[p] # None =>
    IF handed[p] = None THEN todo[p].next < now
    ELSE todo[p].next = handed[p].until /\ handed[p].until <= now + Lease

(* A crawl is restarted before its time only by a request that had begun   *)
(* before the crawl was committed, and looked at the date until then.      *)
EarlyRestartOnlyByOverlap ==
  [][\A q \in Pollers : PollAt(q, "fill") /\ poll'[q] # None /\ crawl' # crawl =>
       lastCrawl < poll[q].t - CrawlAge \/ poll[q].t <= began]_vars

(* A page is handed out again during its lease only by a request that had  *)
(* begun before the hand-out and had picked the page until then.           *)
DoubleHandOutOnlyByOverlap ==
  [][\A p \in Pages : handed[p] # None /\ handed'[p] # None /\ handed'[p] # handed[p] =>
       \E q \in Pollers : /\ PollAt(q, "hand") /\ poll'[q] = None
                          /\ handed[p].until < poll[q].t \/ poll[q].t <= handed[p].at]_vars
=============================================================================
