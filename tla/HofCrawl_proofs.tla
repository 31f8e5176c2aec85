--------------------------- MODULE HofCrawl_proofs ---------------------------
(***************************************************************************)
(* What the run of HofCrawl checks on a small instance, proved for any     *)
(* names, pages, requests, leases and clocks that satisfy the assumptions. *)
(***************************************************************************)
EXTENDS HofCrawl, TLAPS

USE HofAssumption, NoneAssumption

(* The tables start empty. *)
LEMMA VarsInit == Init => VarsOK
  BY DEF Init, VarsOK, Time, Pages, NoRows, NoNames

(* No step leaves the sets the variables range over. *)
LEMMA VarsStep == VarsOK /\ ClocksOK /\ [Next]_vars => VarsOK'
<1> SUFFICES ASSUME VarsOK, ClocksOK, [Next]_vars PROVE VarsOK'
  OBVIOUS
<1>1. CASE Tick
  BY <1>1 DEF Tick, VarsOK, Time, tables, hist
<1>2. CASE Restart
  BY <1>2 DEF Restart, VarsOK, tables, hist
<1>3. ASSUME NEW q \in Pollers, Begin(q) PROVE VarsOK'
  <2>1. [at |-> IF Overdue(now) THEN "overdue" ELSE "pick", t |-> now, picked |-> NoRows] \in Poll
    BY DEF VarsOK, Poll, NoRows
  <2> QED BY <1>3, <2>1 DEF Begin, VarsOK, tables, hist
<1>4. ASSUME NEW q \in Pollers, LockServer(q) PROVE VarsOK'
  BY <1>4 DEF LockServer, PollAt, VarsOK, Poll, tables, hist
<1>5. ASSUME NEW q \in Pollers, ClearPages(q) PROVE VarsOK'
  BY <1>5 DEF ClearPages, PollAt, VarsOK, Poll, tables, hist
<1>6. ASSUME NEW q \in Pollers, FillPages(q) PROVE VarsOK'
  <2>1. poll[q] \in Poll /\ poll[q].t \in Time /\ [poll[q] EXCEPT !.at = "pick"] \in Poll
    BY <1>6 DEF FillPages, PollAt, VarsOK, Poll
  <2>2. [next |-> poll[q].t - 1, crawl |-> crawl + 1] \in TodoRow
    BY <2>1 DEF VarsOK, TodoRow, Time
  <2>3. todo' \in [Pages -> TodoRow \cup {None}] /\ pages' \in Pages
    BY <1>6, <2>2 DEF FillPages
  <2>4. lastCrawl' \in Int /\ crawl' \in Nat /\ began' \in Time
    BY <1>6, <2>1 DEF FillPages, VarsOK, Time
  <2>5. poll' \in [Pollers -> Poll \cup {None}]
    BY <1>6, <2>1 DEF FillPages, VarsOK
  <2> QED BY <1>6, <2>3, <2>4, <2>5 DEF FillPages, VarsOK, NoRows, NoNames
<1>7. ASSUME NEW q \in Pollers, PickPages(q) PROVE VarsOK'
  <2>1. PICK S \in SUBSET Pages :
          poll' = [poll EXCEPT ![q].picked = [p \in Pages |-> IF p \in S THEN todo[p].crawl ELSE None],
                               ![q].at = "hand"]
                /\ \A p \in S : todo[p] # None
    BY <1>7 DEF PickPages, IsDue
  <2>2. [p \in Pages |-> IF p \in S THEN todo[p].crawl ELSE None] \in [Pages -> Nat \cup {None}]
    BY <2>1 DEF VarsOK, TodoRow
  <2>3. poll[q] \in Poll
    BY <1>7 DEF PickPages, PollAt, VarsOK
  <2>4. poll' \in [Pollers -> Poll \cup {None}]
    BY <2>1, <2>2, <2>3 DEF VarsOK, Poll
  <2> QED BY <1>7, <2>4 DEF PickPages, VarsOK, tables, hist
<1>8. ASSUME NEW q \in Pollers, HandOut(q) PROVE VarsOK'
  <2>1. poll[q].t \in Time /\ poll[q].t + Lease \in Nat
    BY <1>8 DEF HandOut, PollAt, VarsOK, Poll, Time
  <2>2. \A p \in Taken(q) : [todo[p] EXCEPT !.next = poll[q].t + Lease] \in TodoRow
    BY <2>1 DEF Taken, Still, VarsOK, TodoRow
  <2>3. todo' \in [Pages -> TodoRow \cup {None}]
    BY <1>8, <2>2 DEF HandOut, VarsOK
  <2>4. handed' \in [Pages -> HandedOut \cup {None}]
    BY <1>8, <2>1 DEF HandOut, VarsOK, HandedOut
  <2> QED BY <1>8, <2>3, <2>4 DEF HandOut, VarsOK
<1>9. ASSUME NEW q \in Pollers, PollFails(q) PROVE VarsOK'
  BY <1>9 DEF PollFails, VarsOK, tables, hist
<1>10. ASSUME NEW r \in Reporters, Arrive(r) PROVE VarsOK'
  <2>1. PICK p \in Pages : report' = [report EXCEPT ![r] =
          [at |-> "delete", page |-> p, row |-> IF todo[p] = None THEN None ELSE todo[p].crawl,
           held |-> FALSE, names |-> {}, rest |-> {}, mine |-> {}]]
    BY <1>10 DEF Arrive
  <2>2. (IF todo[p] = None THEN None ELSE todo[p].crawl) \in Nat \cup {None}
    BY DEF VarsOK, TodoRow
  <2>3. report' \in [Reporters -> Report \cup {None}]
    BY <2>1, <2>2 DEF VarsOK, Report
  <2> QED BY <1>10, <2>3 DEF Arrive, VarsOK, tables, hist
<1>11. ASSUME NEW r \in Reporters, DeletePage(r) PROVE VarsOK'
  <2>1. report[r] \in Report
    BY <1>11 DEF DeletePage, ReportAt, VarsOK
  <2>2. Still(report[r].page, report[r].row) \in BOOLEAN
    BY DEF Still
  <2>3. [report[r] EXCEPT !.held = Still(report[r].page, report[r].row), !.at = "select"] \in Report
    BY <2>1, <2>2 DEF Report
  <2>4. report' = [report EXCEPT ![r] =
          [report[r] EXCEPT !.held = Still(report[r].page, report[r].row), !.at = "select"]]
    BY <1>11 DEF DeletePage, VarsOK
  <2>5. report' \in [Reporters -> Report \cup {None}]
    BY <2>3, <2>4 DEF VarsOK
  <2> QED BY <1>11, <2>5 DEF DeletePage, VarsOK, tables, hist
<1>12. ASSUME NEW r \in Reporters, SelectNames(r) PROVE VarsOK'
  <2>1. report[r] \in Report
    BY <1>12 DEF SelectNames, ReportAt, VarsOK
  <2>2. PICK names \in SUBSET Names : report' = [report EXCEPT ![r] =
          [report[r] EXCEPT !.names = names, !.rest = names \ known, !.at = "insert"]]
    BY <1>12 DEF SelectNames, VarsOK
  <2>3. [report[r] EXCEPT !.names = names, !.rest = names \ known, !.at = "insert"] \in Report
    BY <2>1 DEF Report
  <2>4. report' \in [Reporters -> Report \cup {None}]
    BY <2>2, <2>3 DEF VarsOK
  <2> QED BY <1>12, <2>4 DEF SelectNames, VarsOK, tables, hist
<1>13. ASSUME NEW r \in Reporters, InsertName(r) PROVE VarsOK'
  <2>1. report[r] \in Report
    BY <1>13 DEF InsertName, ReportAt, VarsOK
  <2>2. PICK n \in report[r].rest : report' = [report EXCEPT ![r] =
          [report[r] EXCEPT !.rest = @ \ {n}, !.mine = IF n \in known THEN @ ELSE @ \cup {n}]]
    BY <1>13 DEF InsertName, VarsOK
  <2>3. [report[r] EXCEPT !.rest = @ \ {n}, !.mine = IF n \in known THEN @ ELSE @ \cup {n}] \in Report
    BY <2>1 DEF Report
  <2>4. report' \in [Reporters -> Report \cup {None}]
    BY <2>2, <2>3 DEF VarsOK
  <2> QED BY <1>13, <2>4 DEF InsertName, VarsOK, tables, hist
<1>14. ASSUME NEW r \in Reporters, CommitPage(r) PROVE VarsOK'
  <2>1. report[r] \in Report
    BY <1>14 DEF CommitPage, ReportAt, VarsOK
  <2> QED BY <1>14, <2>1 DEF CommitPage, VarsOK, Report
<1>15. ASSUME NEW r \in Reporters, ReportFails(r) PROVE VarsOK'
  BY <1>15 DEF ReportFails, VarsOK, tables, hist
<1>16. CASE UNCHANGED vars
  BY <1>16 DEF vars, VarsOK, tables, hist
<1> QED BY <1>1, <1>2, <1>3, <1>4, <1>5, <1>6, <1>7, <1>8, <1>9, <1>10, <1>11, <1>12,
           <1>13, <1>14, <1>15, <1>16 DEF Next
-----------------------------------------------------------------------------
(* The inductive invariant behind the pages: who may be where in the two   *)
(* transactions while rows and names are locked.                           *)

(* A request that has the server's row is alone with it. *)
ServerLocked == \A q \in Pollers : PollAt(q, "clear") \/ PollAt(q, "fill") => ~ServerHeld(q)

(* A restart that has locked all pages has waited for every report. *)
PagesLocked == Restarting => \A p \in Pages : ~Deleted(p)

(* A row deleted by an open report is there for everybody else. *)
HeldRow == \A r \in Reporters : report[r] # None /\ report[r].held => todo[report[r].page] # None

(* What a page showed has been inserted or is still to be inserted. *)
NamesInserted ==
  \A r \in Reporters : ReportAt(r, "insert") =>
    report[r].names \subseteq known \cup report[r].mine \cup report[r].rest

(* What only concerns requests for pages and reports of pages.             *)
PollStep(q) ==
  Begin(q) \/ LockServer(q) \/ ClearPages(q) \/ FillPages(q) \/ PickPages(q) \/ HandOut(q) \/ PollFails(q)
ReportStep(r) ==
  Arrive(r) \/ DeletePage(r) \/ SelectNames(r) \/ InsertName(r) \/ CommitPage(r) \/ ReportFails(r)

(* A step is one of a request for pages, of a report, or of neither.       *)
LEMMA WhoSteps ==
  ASSUME [Next]_vars
  PROVE  \/ \E q \in Pollers : PollStep(q) /\ report' = report
         \/ \E r \in Reporters : ReportStep(r) /\ poll' = poll
         \/ Restart
         \/ UNCHANGED <<tables, poll, report, hist>> /\ now' \in {now, now + 1}
<1>1. ASSUME NEW q \in Pollers, PollStep(q) PROVE report' = report
  BY <1>1 DEF PollStep, Begin, LockServer, ClearPages, FillPages, PickPages, HandOut, PollFails
<1>2. ASSUME NEW r \in Reporters, ReportStep(r) PROVE poll' = poll
  BY <1>2 DEF ReportStep, Arrive, DeletePage, SelectNames, InsertName, CommitPage, ReportFails
<1>3. CASE Tick
  BY <1>3 DEF Tick
<1>4. CASE UNCHANGED vars
  BY <1>4 DEF vars
<1> QED BY <1>1, <1>2, <1>3, <1>4 DEF Next, PollStep, ReportStep

(* What a step does to the requests: one of them moves, or nobody's place  *)
(* changes, or all are gone.                                               *)
LEMMA PollMoves ==
  ASSUME VarsOK, NEW q \in Pollers, PollStep(q)
  PROVE  /\ \A o \in Pollers \ {q} : poll'[o] = poll[o]
         /\ poll'[q] # None => poll'[q].t = IF poll[q] = None THEN now ELSE poll[q].t
         /\ PollAt(q, "overdue")' => Begin(q) /\ Overdue(now) /\ poll[q] = None
         /\ PollAt(q, "clear")' => LockServer(q)
         /\ PollAt(q, "fill")' => ClearPages(q)
         /\ PollAt(q, "hand")' => PickPages(q)
<1>1. CASE Begin(q)
  BY <1>1 DEF Begin, PollAt, VarsOK
<1>2. CASE LockServer(q)
  BY <1>2 DEF LockServer, PollAt, VarsOK, Poll
<1>3. CASE ClearPages(q)
  BY <1>3 DEF ClearPages, PollAt, VarsOK, Poll
<1>4. CASE FillPages(q)
  BY <1>4 DEF FillPages, PollAt, VarsOK, Poll
<1>5. CASE PickPages(q)
  <2>1. PICK S \in SUBSET Pages :
          poll' = [poll EXCEPT ![q].picked = [p \in Pages |-> IF p \in S THEN todo[p].crawl ELSE None],
                               ![q].at = "hand"]
    BY <1>5 DEF PickPages
  <2>2. poll[q] \in Poll /\ poll[q] # None
    BY <1>5 DEF PickPages, PollAt, VarsOK
  <2>3. poll'[q].at = "hand" /\ poll'[q].t = poll[q].t /\ \A o \in Pollers \ {q} : poll'[o] = poll[o]
    BY <2>1, <2>2 DEF VarsOK, Poll
  <2> QED BY <1>5, <2>2, <2>3 DEF PollAt
<1>6. CASE HandOut(q)
  BY <1>6 DEF HandOut, PollAt, VarsOK
<1>7. CASE PollFails(q)
  BY <1>7 DEF PollFails, PollAt, VarsOK
<1> QED BY <1>1, <1>2, <1>3, <1>4, <1>5, <1>6, <1>7 DEF PollStep

(* What a step does to the reports: who is at the INSERT after it was at   *)
(* it before or selected the names, who has deleted a row had or found it. *)
LEMMA ReportMoves ==
  ASSUME VarsOK, NEW r \in Reporters, ReportStep(r)
  PROVE  /\ \A o \in Reporters \ {r} : report'[o] = report[o]
         /\ report'[r] # None /\ report'[r].held =>
              \/ report[r] # None /\ report[r].held /\ report'[r].page = report[r].page
              \/ /\ DeletePage(r) /\ report[r] # None /\ report'[r].page = report[r].page
                 /\ Still(report[r].page, report[r].row)
         /\ ReportAt(r, "insert")' => SelectNames(r) \/ InsertName(r)
<1>1. CASE Arrive(r)
  BY <1>1 DEF Arrive, ReportAt, VarsOK
<1>2. CASE DeletePage(r)
  BY <1>2 DEF DeletePage, ReportAt, VarsOK, Report
<1>3. CASE SelectNames(r)
  <2>1. PICK names \in SUBSET Names : report' = [report EXCEPT ![r] =
          [report[r] EXCEPT !.names = names, !.rest = names \ known, !.at = "insert"]]
    BY <1>3 DEF SelectNames, VarsOK
  <2>2. report[r] \in Report /\ report[r] # None
    BY <1>3 DEF SelectNames, ReportAt, VarsOK
  <2>3. report'[r].held = report[r].held /\ report'[r].page = report[r].page
    BY <2>1, <2>2 DEF VarsOK, Report
  <2>4. \A o \in Reporters \ {r} : report'[o] = report[o]
    BY <2>1 DEF VarsOK
  <2> QED BY <1>3, <2>2, <2>3, <2>4
<1>4. CASE InsertName(r)
  <2>1. report[r] \in Report /\ report[r] # None
    BY <1>4 DEF InsertName, ReportAt, VarsOK
  <2>2. report'[r].held = report[r].held /\ report'[r].page = report[r].page
    BY <1>4, <2>1 DEF InsertName, VarsOK, Report
  <2>3. \A o \in Reporters \ {r} : report'[o] = report[o]
    BY <1>4 DEF InsertName, VarsOK
  <2> QED BY <1>4, <2>1, <2>2, <2>3
<1>5. CASE CommitPage(r)
  BY <1>5 DEF CommitPage, ReportAt, VarsOK
<1>6. CASE ReportFails(r)
  BY <1>6 DEF ReportFails, ReportAt, VarsOK
<1> QED BY <1>1, <1>2, <1>3, <1>4, <1>5, <1>6 DEF ReportStep

-----------------------------------------------------------------------------
(* The rest of the type invariant *)

(* No clock reading lies in the future. *)
LEMMA ClocksStep == VarsOK /\ ClocksOK /\ [Next]_vars => ClocksOK'
<1> SUFFICES ASSUME VarsOK, ClocksOK, [Next]_vars PROVE ClocksOK'
  OBVIOUS
<1>1. ASSUME NEW q \in Pollers, PollStep(q) PROVE ClocksOK'
  <2>1. now' = now
    BY <1>1 DEF PollStep, Begin, LockServer, ClearPages, FillPages, PickPages, HandOut, PollFails
  <2>2. ASSUME NEW o \in Pollers, poll'[o] # None PROVE poll'[o].t <= now'
    BY <1>1, <2>1, <2>2, PollMoves DEF ClocksOK, VarsOK, Time
  <2>3. lastCrawl' <= now'
    <3>1. lastCrawl' = lastCrawl \/ FillPages(q)
      BY <1>1 DEF PollStep, Begin, LockServer, ClearPages, PickPages, HandOut, PollFails, tables
    <3>2. CASE FillPages(q)
      BY <2>1, <3>2 DEF FillPages, PollAt, ClocksOK
    <3> QED BY <2>1, <3>1, <3>2 DEF ClocksOK
  <2> QED BY <2>2, <2>3 DEF ClocksOK
<1>2. ASSUME NEW r \in Reporters, ReportStep(r), poll' = poll PROVE ClocksOK'
  <2>1. now' = now /\ lastCrawl' = lastCrawl
    BY <1>2 DEF ReportStep, Arrive, DeletePage, SelectNames, InsertName, CommitPage, ReportFails, tables
  <2> QED BY <1>2, <2>1 DEF ClocksOK
<1>3. CASE Restart
  BY <1>3 DEF Restart, ClocksOK, tables
<1>4. CASE UNCHANGED <<tables, poll, report, hist>> /\ now' \in {now, now + 1}
  BY <1>4 DEF ClocksOK, VarsOK, Poll, Time, tables
<1> QED BY <1>1, <1>2, <1>3, <1>4, WhoSteps

(* Rows that are to do belong to the last crawl: it deleted all others.    *)
LEMMA RowsStep == VarsOK /\ RowsOfCrawl /\ [Next]_vars => RowsOfCrawl'
<1> SUFFICES ASSUME VarsOK, RowsOfCrawl, [Next]_vars PROVE RowsOfCrawl'
  OBVIOUS
<1>1. ASSUME NEW q \in Pollers, FillPages(q) PROVE RowsOfCrawl'
  BY <1>1 DEF FillPages, RowsOfCrawl, VarsOK
<1>2. ASSUME NEW q \in Pollers, HandOut(q) PROVE RowsOfCrawl'
  <2>1. crawl' = crawl
    BY <1>2 DEF HandOut
  <2>2. ASSUME NEW p \in Pages, todo'[p] # None PROVE todo'[p].crawl = crawl
    <3>1. CASE p \in Taken(q)
      <4>1. todo[p] \in TodoRow /\ todo[p].crawl = crawl
        BY <3>1 DEF Taken, Still, VarsOK, RowsOfCrawl
      <4> QED BY <1>2, <3>1, <4>1 DEF HandOut, TodoRow
    <3>2. CASE p \notin Taken(q)
      BY <1>2, <2>2, <3>2 DEF HandOut, RowsOfCrawl
    <3> QED BY <3>1, <3>2
  <2> QED BY <2>1, <2>2 DEF RowsOfCrawl
<1>3. ASSUME NEW r \in Reporters, CommitPage(r) PROVE RowsOfCrawl'
  BY <1>3 DEF CommitPage, RowsOfCrawl, VarsOK
<1>4. CASE UNCHANGED <<todo, crawl>>
  BY <1>4 DEF RowsOfCrawl
<1>5. UNCHANGED <<todo, crawl>> \/ (\E q \in Pollers : FillPages(q) \/ HandOut(q))
        \/ \E r \in Reporters : CommitPage(r)
  BY DEF Next, vars, tables, Tick, Restart, Begin, LockServer, ClearPages, PickPages, PollFails,
         Arrive, DeletePage, SelectNames, InsertName, ReportFails
<1> QED BY <1>1, <1>2, <1>3, <1>4, <1>5

(* The server's row is locked by one request at a time. *)
LEMMA ServerStep == VarsOK /\ ServerLocked /\ [Next]_vars => ServerLocked'
<1> SUFFICES ASSUME VarsOK, ServerLocked, [Next]_vars PROVE ServerLocked'
  OBVIOUS
<1>1. ASSUME NEW q \in Pollers, PollStep(q) PROVE ServerLocked'
  <2>1. PollAt(q, "clear")' \/ PollAt(q, "fill")' => ~ServerHeld(q)
    BY <1>1, PollMoves DEF LockServer, ClearPages, ServerLocked
  <2>2. \A o \in Pollers \ {q} : (PollAt(o, "clear")' <=> PollAt(o, "clear"))
                              /\ (PollAt(o, "fill")' <=> PollAt(o, "fill"))
    BY <1>1, PollMoves DEF PollAt
  <2> QED BY <2>1, <2>2 DEF ServerLocked, ServerHeld
<1>2. CASE poll' = poll
  BY <1>2 DEF ServerLocked, ServerHeld, PollAt
<1>3. CASE Restart
  BY <1>3 DEF Restart, ServerLocked, PollAt
<1> QED BY <1>1, <1>2, <1>3, WhoSteps

(* A row that is still there was found. *)
LEMMA FoundRow ==
  ASSUME VarsOK, NEW p \in Pages, NEW row, Still(p, row)
  PROVE  row # None /\ todo[p] \in TodoRow
  BY DEF Still, VarsOK, TodoRow

(* A report finds no row to delete while a restart has locked all pages,   *)
(* and a restart waits for the rows that reports have deleted.             *)
LEMMA PagesLockedStep ==
  VarsOK /\ PagesLocked /\ [Next]_vars => PagesLocked'
<1> SUFFICES ASSUME VarsOK, PagesLocked, [Next]_vars PROVE PagesLocked'
  OBVIOUS
<1>1. ASSUME NEW q \in Pollers, PollStep(q), report' = report PROVE PagesLocked'
  <2>1. \A p \in Pages : Deleted(p)' <=> Deleted(p)
    BY <1>1 DEF Deleted
  <2>2. Restarting' => Restarting \/ \A p \in Pages : ~Deleted(p)
    BY <1>1, PollMoves DEF Restarting, PollAt, ClearPages
  <2> QED BY <2>1, <2>2 DEF PagesLocked
<1>2. ASSUME NEW r \in Reporters, ReportStep(r), poll' = poll PROVE PagesLocked'
  <2>1. Restarting' <=> Restarting
    BY <1>2 DEF Restarting, PollAt
  <2>2. ASSUME NEW p \in Pages, Deleted(p)', Restarting PROVE Deleted(p)
    <3>1. PICK o \in Reporters : report'[o] # None /\ report'[o].held /\ report'[o].page = p
      BY <2>2 DEF Deleted
    <3>2. CASE o = r /\ DeletePage(r) /\ Still(report[r].page, report[r].row)
      <4>1. report[r].row # None
        BY <3>2, FoundRow DEF DeletePage, ReportAt, VarsOK, Report
      <4> QED BY <2>2, <3>2, <4>1 DEF DeletePage
    <3> QED BY <1>2, <3>1, <3>2, ReportMoves DEF Deleted
  <2> QED BY <2>1, <2>2 DEF PagesLocked
<1>3. CASE Restart
  BY <1>3 DEF Restart, PagesLocked, Restarting, PollAt
<1>4. CASE UNCHANGED <<poll, report>>
  BY <1>4 DEF PagesLocked, Restarting, PollAt, Deleted
<1> QED BY <1>1, <1>2, <1>3, <1>4, WhoSteps

(* No two open reports have deleted the same row or inserted the same name.*)
LEMMA HolderStep == VarsOK /\ OneHolder /\ [Next]_vars => OneHolder'
<1> SUFFICES ASSUME VarsOK, OneHolder, [Next]_vars PROVE OneHolder'
  OBVIOUS
<1>1. ASSUME NEW r \in Reporters, ReportStep(r) PROVE OneHolder'
  <2>1. ASSUME NEW o \in Reporters \ {r}, report'[r] # None, report[o] # None,
               report'[r].held, report[o].held
        PROVE  report'[r].page # report[o].page
    <3>1. CASE DeletePage(r) /\ report[r] # None /\ report'[r].page = report[r].page
               /\ Still(report[r].page, report[r].row)
      <4>1. report[r] \in Report
        BY <3>1 DEF VarsOK
      <4>2. report[r].row # None
        BY <3>1, <4>1, FoundRow DEF Report
      <4>3. ~Deleted(report[r].page)
        BY <3>1, <4>2 DEF DeletePage
      <4> QED BY <2>1, <3>1, <4>3 DEF Deleted
    <3> QED BY <1>1, <2>1, <3>1, ReportMoves DEF OneHolder
  <2>2. ASSUME NEW o \in Reporters \ {r}, report'[r] # None, report[o] # None
        PROVE  report'[r].mine \cap report[o].mine = {}
    <3>1. CASE InsertName(r)
      <4>1. PICK n \in report[r].rest :
              /\ ~NameHeld(r, n)
              /\ report' = [report EXCEPT ![r].rest = @ \ {n},
                                          ![r].mine = IF n \in known THEN @ ELSE @ \cup {n}]
        BY <3>1 DEF InsertName
      <4>2. n \notin report[o].mine
        BY <2>2, <4>1 DEF NameHeld
      <4>3. report[r] \in Report /\ report[r] # None
        BY <3>1 DEF InsertName, ReportAt, VarsOK
      <4>4. report'[r].mine \subseteq report[r].mine \cup {n}
        BY <4>1, <4>3 DEF VarsOK, Report
      <4> QED BY <2>2, <4>2, <4>3, <4>4 DEF OneHolder
    <3>2. CASE ~InsertName(r)
      <4>1. report'[r].mine = {} \/ (report[r] # None /\ report'[r].mine = report[r].mine)
        <5>1. CASE Arrive(r)
          BY <5>1 DEF Arrive, VarsOK
        <5>2. CASE DeletePage(r)
          BY <5>2 DEF DeletePage, ReportAt, VarsOK, Report
        <5>3. CASE SelectNames(r)
          <6>1. PICK names \in SUBSET Names : report' = [report EXCEPT ![r] =
                  [report[r] EXCEPT !.names = names, !.rest = names \ known, !.at = "insert"]]
            BY <5>3 DEF SelectNames, VarsOK
          <6>2. report[r] \in Report /\ report[r] # None
            BY <5>3 DEF SelectNames, ReportAt, VarsOK
          <6> QED BY <6>1, <6>2 DEF VarsOK, Report
        <5>4. CASE CommitPage(r) \/ ReportFails(r)
          BY <2>2, <5>4 DEF CommitPage, ReportFails, VarsOK
        <5> QED BY <1>1, <3>2, <5>1, <5>2, <5>3, <5>4 DEF ReportStep
      <4> QED BY <2>2, <4>1 DEF OneHolder
    <3> QED BY <3>1, <3>2
  <2>3. \A o \in Reporters \ {r} : report'[o] = report[o]
    BY <1>1, ReportMoves
  <2> QED BY <2>1, <2>2, <2>3 DEF OneHolder
<1>2. CASE report' = report
  BY <1>2 DEF OneHolder
<1>3. CASE Restart
  BY <1>3 DEF Restart, OneHolder
<1> QED BY <1>1, <1>2, <1>3, WhoSteps

(* The type invariant with the lock on the server it rests on. *)
LEMMA TypeStep == TypeOK /\ ServerLocked /\ [Next]_vars => TypeOK' /\ ServerLocked'
<1> SUFFICES ASSUME TypeOK, ServerLocked, [Next]_vars PROVE TypeOK' /\ ServerLocked'
  OBVIOUS
<1>1. VarsOK' /\ ClocksOK'
  BY VarsStep, ClocksStep DEF TypeOK
<1>2. RowsOfCrawl' /\ OneHolder'
  BY RowsStep, HolderStep DEF TypeOK
<1>3. ServerLocked'
  BY ServerStep DEF TypeOK
<1>4. OneRestart'
  BY <1>3 DEF OneRestart, ServerLocked, ServerHeld
<1> QED BY <1>1, <1>2, <1>3, <1>4 DEF TypeOK

LEMMA TypeInit == Init => TypeOK /\ ServerLocked
<1> SUFFICES ASSUME Init PROVE TypeOK /\ ServerLocked
  OBVIOUS
<1>1. VarsOK
  BY VarsInit
<1>2. ClocksOK
  BY DEF Init, ClocksOK
<1>3. RowsOfCrawl /\ OneHolder
  BY DEF Init, RowsOfCrawl, OneHolder, NoRows
<1>4. ServerLocked /\ OneRestart
  BY DEF Init, ServerLocked, OneRestart, PollAt
<1> QED BY <1>1, <1>2, <1>3, <1>4 DEF TypeOK

(* Variables keep their shape, rows are those of the last crawl, and no    *)
(* two transactions hold the server, a page or a name at once.             *)
THEOREM TypeCorrect == Spec => []TypeOK
<1> QED BY TypeInit, TypeStep, PTL DEF Spec

-----------------------------------------------------------------------------
(* No page and no name is lost *)

(* A lease changes when a page is due, and no page appears or goes by it.  *)
LEMMA LeasedRow ==
  ASSUME VarsOK, NEW q \in Pollers, HandOut(q), NEW p \in Pages
  PROVE  /\ poll[q].t \in Time /\ poll[q].t + Lease \in Nat
         /\ p \in Taken(q) =>
              /\ todo[p] # None /\ todo'[p] # None /\ todo'[p].next = poll[q].t + Lease
              /\ handed'[p] \in HandedOut
              /\ handed'[p].at = now /\ handed'[p].until = poll[q].t + Lease
         /\ p \notin Taken(q) => todo'[p] = todo[p] /\ handed'[p] = handed[p]
<1>1. poll[q].t \in Time /\ poll[q].t + Lease \in Nat
  BY DEF HandOut, PollAt, VarsOK, Poll, Time
<1>2. CASE p \in Taken(q)
  <2>1. todo[p] \in TodoRow /\ todo[p] # None
    BY <1>2, FoundRow DEF Taken, Still
  <2>2. todo'[p] = [todo[p] EXCEPT !.next = poll[q].t + Lease]
    BY <1>2 DEF HandOut
  <2>3. todo'[p] \in TodoRow /\ todo'[p].next = poll[q].t + Lease
    BY <1>1, <2>1, <2>2 DEF TodoRow
  <2>4. handed'[p] = [at |-> now, until |-> poll[q].t + Lease]
    BY <1>2 DEF HandOut
  <2>5. handed'[p] \in HandedOut
    BY <1>1, <2>4 DEF HandedOut, VarsOK
  <2>6. handed'[p].at = now /\ handed'[p].until = poll[q].t + Lease
    BY <2>4
  <2> QED BY <1>1, <1>2, <2>1, <2>3, <2>5, <2>6
<1>3. CASE p \notin Taken(q)
  BY <1>1, <1>3 DEF HandOut
<1> QED BY <1>2, <1>3

(* The row an open report has deleted is there until that report commits.  *)
LEMMA HeldRowStep ==
  VarsOK /\ OneHolder /\ PagesLocked /\ HeldRow /\ [Next]_vars => HeldRow'
<1> SUFFICES ASSUME VarsOK, OneHolder, PagesLocked, HeldRow, [Next]_vars PROVE HeldRow'
  OBVIOUS
<1>1. ASSUME NEW q \in Pollers, PollStep(q), report' = report PROVE HeldRow'
  <2>1. CASE FillPages(q)
    <3>1. \A p \in Pages : ~Deleted(p)
      BY <2>1 DEF FillPages, Restarting, PagesLocked
    <3> QED BY <1>1, <3>1 DEF HeldRow, Deleted, VarsOK, Report
  <2>2. CASE HandOut(q)
    <3>1. ASSUME NEW p \in Pages, todo[p] # None PROVE todo'[p] # None
      BY <2>2, <3>1, LeasedRow
    <3> QED BY <1>1, <3>1 DEF HeldRow, VarsOK, Report
  <2>3. CASE todo' = todo
    BY <1>1, <2>3 DEF HeldRow
  <2> QED
    BY <1>1, <2>1, <2>2, <2>3
    DEF PollStep, Begin, LockServer, ClearPages, PickPages, PollFails, tables
<1>2. ASSUME NEW r \in Reporters, ReportStep(r) PROVE HeldRow'
  <2>1. CASE CommitPage(r)
    <3>1. report' = [report EXCEPT ![r] = None] /\ report[r] # None
      BY <2>1 DEF CommitPage, ReportAt
    <3>2. ASSUME NEW o \in Reporters, report'[o] # None, report'[o].held
          PROVE  todo'[report'[o].page] # None
      <4>1. o # r /\ report'[o] = report[o] /\ report[o] \in Report
        BY <3>1, <3>2 DEF VarsOK
      <4>2. todo[report[o].page] # None
        BY <3>2, <4>1 DEF HeldRow
      <4>3. report[r].held => report[o].page # report[r].page
        BY <3>1, <3>2, <4>1 DEF OneHolder
      <4> QED BY <2>1, <4>1, <4>2, <4>3 DEF CommitPage, VarsOK, Report
    <3> QED BY <3>2 DEF HeldRow
  <2>2. CASE ~CommitPage(r)
    <3>1. todo' = todo
      BY <1>2, <2>2
      DEF ReportStep, Arrive, DeletePage, SelectNames, InsertName, ReportFails, tables
    <3> QED BY <1>2, <3>1, ReportMoves DEF HeldRow, Still
  <2> QED BY <2>1, <2>2
<1>3. CASE Restart
  BY <1>3 DEF Restart, HeldRow
<1>4. CASE UNCHANGED <<tables, report>>
  BY <1>4 DEF HeldRow, tables
<1> QED BY <1>1, <1>2, <1>3, <1>4, WhoSteps

(* The names a page showed are in the table, inserted or still to insert.  *)
LEMMA NamesStep == VarsOK /\ NamesInserted /\ [Next]_vars => NamesInserted'
<1> SUFFICES ASSUME VarsOK, NamesInserted, [Next]_vars PROVE NamesInserted'
  OBVIOUS
<1>1. known \subseteq known'
  BY DEF Next, vars, tables, Tick, Restart, Begin, LockServer, ClearPages, FillPages, PickPages,
         HandOut, PollFails, Arrive, DeletePage, SelectNames, InsertName, CommitPage, ReportFails
<1>2. ASSUME NEW r \in Reporters, ReportStep(r) PROVE NamesInserted'
  <2>1. CASE SelectNames(r)
    <3>1. PICK names \in SUBSET Names : report' = [report EXCEPT ![r] =
            [report[r] EXCEPT !.names = names, !.rest = names \ known, !.at = "insert"]]
      BY <2>1 DEF SelectNames, VarsOK
    <3>2. report[r] \in Report
      BY <2>1 DEF SelectNames, ReportAt, VarsOK
    <3>3. report'[r].names \subseteq known \cup report'[r].rest
      BY <3>1, <3>2 DEF VarsOK, Report
    <3> QED BY <1>1, <1>2, <3>3, ReportMoves DEF NamesInserted, ReportAt
  <2>2. CASE InsertName(r)
    <3>1. PICK n \in report[r].rest : report' = [report EXCEPT ![r] =
            [report[r] EXCEPT !.rest = @ \ {n}, !.mine = IF n \in known THEN @ ELSE @ \cup {n}]]
      BY <2>2 DEF InsertName, VarsOK
    <3>2. report[r] \in Report /\ report[r].names \subseteq known \cup report[r].mine \cup report[r].rest
      BY <2>2 DEF InsertName, ReportAt, VarsOK, NamesInserted
    <3>3. /\ report'[r].names = report[r].names /\ report'[r].rest = report[r].rest \ {n}
          /\ report'[r].mine = IF n \in known THEN report[r].mine ELSE report[r].mine \cup {n}
      BY <3>1, <3>2 DEF VarsOK, Report
    <3>4. report'[r].names \subseteq known \cup report'[r].mine \cup report'[r].rest
      BY <3>2, <3>3
    <3> QED BY <1>1, <1>2, <3>4, ReportMoves DEF NamesInserted, ReportAt
  <2>3. CASE ~SelectNames(r) /\ ~InsertName(r)
    BY <1>1, <1>2, <2>3, ReportMoves DEF NamesInserted, ReportAt
  <2> QED BY <2>1, <2>2, <2>3
<1>3. CASE report' = report
  BY <1>1, <1>3 DEF NamesInserted, ReportAt
<1>4. CASE Restart
  BY <1>4 DEF Restart, NamesInserted, ReportAt
<1> QED BY <1>2, <1>3, <1>4, WhoSteps

(* A page leaves the list only with its names in the table. *)
LEMMA PagesStep ==
  VarsOK /\ HeldRow /\ NamesInserted /\ PagesAccounted /\ [Next]_vars => PagesAccounted'
<1> SUFFICES ASSUME VarsOK, HeldRow, NamesInserted, PagesAccounted, [Next]_vars
             PROVE  PagesAccounted'
  OBVIOUS
<1>1. ASSUME NEW q \in Pollers, FillPages(q) PROVE PagesAccounted'
  <2>1. PICK last \in Pages :
          /\ todo' = [p \in Pages |-> IF p <= last
                                      THEN [next |-> poll[q].t - 1, crawl |-> crawl + 1] ELSE None]
          /\ pages' = last
    BY <1>1 DEF FillPages
  <2>2. poll[q] \in Poll
    BY <1>1 DEF FillPages, PollAt, VarsOK
  <2>3. [next |-> poll[q].t - 1, crawl |-> crawl + 1] \in TodoRow
    BY <2>2 DEF Poll, VarsOK, TodoRow, Time
  <2>4. \A p \in Pages : (p <= last => todo'[p] # None) /\ (p > last => todo'[p] = None)
    BY <2>1, <2>3 DEF Pages
  <2> QED BY <2>1, <2>4 DEF PagesAccounted
<1>2. ASSUME NEW q \in Pollers, HandOut(q) PROVE PagesAccounted'
  <2>1. ASSUME NEW p \in Pages PROVE todo'[p] = None <=> todo[p] = None
    BY <1>2, LeasedRow
  <2> QED BY <1>2, <2>1 DEF HandOut, PagesAccounted
<1>3. ASSUME NEW r \in Reporters, CommitPage(r) PROVE PagesAccounted'
  <2>1. report[r] \in Report /\ report[r].names \subseteq known \cup report[r].mine
    BY <1>3 DEF CommitPage, ReportAt, VarsOK, NamesInserted
  <2>2. known' = known \cup report[r].mine /\ pages' = pages
    BY <1>3 DEF CommitPage
  <2>3. CASE report[r].held
    <3>1. /\ todo' = [todo EXCEPT ![report[r].page] = None]
          /\ crawled' = crawled \cup {report[r].page}
          /\ shown' = [shown EXCEPT ![report[r].page] = report[r].names]
      BY <1>3, <2>3 DEF CommitPage
    <3>2. ASSUME NEW p \in Pages, p # report[r].page
          PROVE todo'[p] = todo[p] /\ shown'[p] = shown[p]
      BY <3>1, <3>2 DEF VarsOK
    <3>3. report[r].page \in crawled' /\ shown'[report[r].page] \subseteq known'
          /\ todo'[report[r].page] = None
      BY <2>1, <2>2, <3>1 DEF VarsOK, Report
    <3> QED BY <2>2, <3>1, <3>2, <3>3 DEF PagesAccounted
  <2>4. CASE ~report[r].held
    BY <1>3, <2>2, <2>4 DEF CommitPage, PagesAccounted
  <2> QED BY <2>3, <2>4
<1>4. CASE UNCHANGED <<todo, known, pages, crawled, shown>>
  BY <1>4 DEF PagesAccounted
<1>5. \/ UNCHANGED <<todo, known, pages, crawled, shown>>
      \/ \E q \in Pollers : FillPages(q) \/ HandOut(q)
      \/ \E r \in Reporters : CommitPage(r)
  BY DEF Next, vars, tables, hist, Tick, Restart, Begin, LockServer, ClearPages, PickPages, PollFails,
         Arrive, DeletePage, SelectNames, InsertName, ReportFails
<1> QED BY <1>1, <1>2, <1>3, <1>4, <1>5

CrawlInv ==
  /\ TypeOK /\ ServerLocked /\ PagesLocked
  /\ HeldRow /\ NamesInserted /\ PagesAccounted

LEMMA CrawlInit == Init => CrawlInv
<1> SUFFICES ASSUME Init PROVE CrawlInv
  OBVIOUS
<1>1. PagesLocked /\ HeldRow /\ NamesInserted
  BY DEF Init, PagesLocked, Deleted, HeldRow, NamesInserted, ReportAt
<1>2. PagesAccounted
  BY DEF Init, PagesAccounted, Pages, NoRows
<1> QED BY <1>1, <1>2, TypeInit DEF CrawlInv

LEMMA CrawlStep == CrawlInv /\ [Next]_vars => CrawlInv'
  BY TypeStep, PagesLockedStep, HeldRowStep, NamesStep, PagesStep DEF CrawlInv, TypeOK

LEMMA CrawlInvariant == Spec => []CrawlInv
  BY CrawlInit, CrawlStep, PTL DEF Spec

(* Every page of the crawl is to do, or was reported in this crawl with    *)
(* all its names in the table.                                             *)
THEOREM PagesAreAccountedFor == Spec => []PagesAccounted
  BY CrawlInvariant, PTL DEF CrawlInv

-----------------------------------------------------------------------------
(* Leases and the date of a crawl *)

(* A restart of the crawl sets out only when the last crawl is over, and   *)
(* learns of another one only if that was committed after it began.        *)
RestartJustified ==
  \A q \in Pollers :
    PollAt(q, "overdue") \/ PollAt(q, "clear") \/ PollAt(q, "fill") =>
      lastCrawl < poll[q].t - CrawlAge \/ poll[q].t <= began

(* A page that was picked and is still there was not leased then, or it    *)
(* was leased after the request that picked it began.                      *)
PickJustified ==
  \A q \in Pollers, p \in Pages :
    PollAt(q, "hand") /\ Still(p, poll[q].picked[p]) /\ handed[p] # None =>
      handed[p].until < poll[q].t \/ poll[q].t <= handed[p].at

(* Leases end when the page is due again. *)
LEMMA ReturnStep == VarsOK /\ ClocksOK /\ PagesReturn /\ [Next]_vars => PagesReturn'
<1> SUFFICES ASSUME VarsOK, ClocksOK, PagesReturn, [Next]_vars PROVE PagesReturn'
  OBVIOUS
<1>1. ASSUME NEW q \in Pollers, FillPages(q) PROVE PagesReturn'
  <2>1. poll[q] \in Poll /\ poll[q].t <= now
    BY <1>1 DEF FillPages, PollAt, VarsOK, ClocksOK
  <2>2. \A p \in Pages : todo'[p] # None => todo'[p].next < now
    BY <1>1, <2>1 DEF FillPages, Poll, Time, VarsOK
  <2>3. now' = now /\ \A p \in Pages : handed'[p] = None
    BY <1>1 DEF FillPages, NoRows
  <2> QED BY <2>2, <2>3 DEF PagesReturn
<1>2. ASSUME NEW q \in Pollers, HandOut(q) PROVE PagesReturn'
  <2>1. now' = now /\ poll[q].t <= now /\ now \in Time
    BY <1>2 DEF HandOut, PollAt, ClocksOK, VarsOK
  <2>2. ASSUME NEW p \in Pages, p \in Taken(q)
        PROVE  handed'[p] # None /\ todo'[p].next = handed'[p].until
               /\ handed'[p].until <= now + Lease
    <3>1. /\ poll[q].t \in Time /\ todo'[p].next = poll[q].t + Lease
          /\ handed'[p].until = poll[q].t + Lease /\ handed'[p] \in HandedOut
      BY <1>2, <2>2, LeasedRow
    <3>2. poll[q].t + Lease <= now + Lease
      BY <2>1, <3>1 DEF Time
    <3> QED BY <3>1, <3>2
  <2>3. ASSUME NEW p \in Pages, p \notin Taken(q) PROVE todo'[p] = todo[p] /\ handed'[p] = handed[p]
    BY <1>2, <2>3, LeasedRow
  <2> QED BY <2>1, <2>2, <2>3 DEF PagesReturn
<1>3. ASSUME NEW r \in Reporters, CommitPage(r) PROVE PagesReturn'
  BY <1>3 DEF CommitPage, PagesReturn, VarsOK
<1>4. CASE UNCHANGED <<todo, handed>> /\ now' \in {now, now + 1}
  <2>1. ASSUME NEW p \in Pages, todo[p] # None
        PROVE  IF handed[p] = None THEN todo[p].next < now'
               ELSE todo[p].next = handed[p].until /\ handed[p].until <= now' + Lease
    <3>1. todo[p] \in TodoRow /\ (handed[p] # None => handed[p] \in HandedOut)
      BY <2>1 DEF VarsOK
    <3> QED BY <1>4, <2>1, <3>1 DEF PagesReturn, VarsOK, Time, TodoRow, HandedOut
  <2> QED BY <1>4, <2>1 DEF PagesReturn
<1>5. \/ UNCHANGED <<todo, handed>> /\ now' \in {now, now + 1}
      \/ \E q \in Pollers : FillPages(q) \/ HandOut(q)
      \/ \E r \in Reporters : CommitPage(r)
  BY DEF Next, vars, tables, hist, Tick, Restart, Begin, LockServer, ClearPages, PickPages, PollFails,
         Arrive, DeletePage, SelectNames, InsertName, ReportFails
<1> QED BY <1>1, <1>2, <1>3, <1>4, <1>5

LEMMA RestartStep == VarsOK /\ ClocksOK /\ RestartJustified /\ [Next]_vars => RestartJustified'
<1> SUFFICES ASSUME VarsOK, ClocksOK, RestartJustified, [Next]_vars PROVE RestartJustified'
  OBVIOUS
<1>1. ASSUME NEW q \in Pollers, PollStep(q) PROVE RestartJustified'
  <2>1. CASE FillPages(q)
    <3>1. ASSUME NEW o \in Pollers, poll'[o] # None PROVE poll'[o].t <= began'
      <4>1. poll[o] # None /\ poll'[o].t = poll[o].t
        BY <1>1, <2>1, <3>1, PollMoves DEF FillPages, PollAt
      <4> QED BY <2>1, <4>1 DEF FillPages, ClocksOK
    <3> QED BY <3>1 DEF RestartJustified, PollAt
  <2>2. CASE ~FillPages(q)
    <3>1. lastCrawl' = lastCrawl /\ began' = began
      BY <1>1, <2>2 DEF PollStep, Begin, LockServer, ClearPages, PickPages, HandOut, PollFails, tables, hist
    <3>2. ASSUME NEW o \in Pollers \ {q},
                 PollAt(o, "overdue")' \/ PollAt(o, "clear")' \/ PollAt(o, "fill")'
          PROVE  lastCrawl < poll'[o].t - CrawlAge \/ poll'[o].t <= began
      BY <1>1, <3>2, PollMoves DEF RestartJustified, PollAt
    <3>3. ASSUME PollAt(q, "overdue")' \/ PollAt(q, "clear")' \/ PollAt(q, "fill")'
          PROVE  lastCrawl < poll'[q].t - CrawlAge \/ poll'[q].t <= began
      <4>1. CASE PollAt(q, "overdue")'
        BY <1>1, <4>1, PollMoves DEF Overdue, PollAt
      <4>2. CASE PollAt(q, "clear")' \/ PollAt(q, "fill")'
        <5>1. PollAt(q, "overdue") \/ PollAt(q, "clear")
          BY <1>1, <4>2, PollMoves DEF LockServer, ClearPages
        <5>2. poll'[q].t = poll[q].t
          BY <1>1, <4>2, <5>1, PollMoves DEF PollAt
        <5> QED BY <5>1, <5>2 DEF RestartJustified
      <4> QED BY <3>3, <4>1, <4>2
    <3> QED BY <3>1, <3>2, <3>3 DEF RestartJustified, PollAt
  <2> QED BY <2>1, <2>2
<1>2. CASE UNCHANGED <<poll, lastCrawl, began>>
  BY <1>2 DEF RestartJustified, PollAt
<1>3. CASE Restart
  BY <1>3 DEF Restart, RestartJustified, PollAt
<1>4. ASSUME NEW r \in Reporters, ReportStep(r) PROVE UNCHANGED <<lastCrawl, began>>
  BY <1>4 DEF ReportStep, Arrive, DeletePage, SelectNames, InsertName, CommitPage, ReportFails, tables, hist
<1> QED BY <1>1, <1>2, <1>3, <1>4, WhoSteps DEF tables, hist

LEMMA PickStep ==
  VarsOK /\ ClocksOK /\ PagesReturn /\ PickJustified /\ [Next]_vars => PickJustified'
<1> SUFFICES ASSUME VarsOK, ClocksOK, PagesReturn, PickJustified, [Next]_vars PROVE PickJustified'
  OBVIOUS
<1>1. ASSUME NEW q \in Pollers, FillPages(q) PROVE PickJustified'
  BY <1>1 DEF FillPages, PickJustified, NoRows
<1>2. ASSUME NEW q \in Pollers, HandOut(q) PROVE PickJustified'
  <2>1. poll' = [poll EXCEPT ![q] = None]
    BY <1>2 DEF HandOut
  <2>2. ASSUME NEW o \in Pollers, NEW p \in Pages,
               PollAt(o, "hand")', Still(p, poll[o].picked[p])', handed'[p] # None
        PROVE  handed'[p].until < poll'[o].t \/ poll'[o].t <= handed'[p].at
    <3>1. o # q /\ poll'[o] = poll[o] /\ PollAt(o, "hand") /\ poll[o].t <= now
      BY <2>1, <2>2 DEF PollAt, VarsOK, ClocksOK
    <3>2. CASE p \in Taken(q)
      BY <1>2, <3>1, <3>2, LeasedRow
    <3>3. CASE p \notin Taken(q)
      BY <1>2, <2>2, <3>1, <3>3, LeasedRow DEF PickJustified, Still
    <3> QED BY <3>2, <3>3
  <2> QED BY <2>2 DEF PickJustified
<1>3. ASSUME NEW q \in Pollers, PickPages(q) PROVE PickJustified'
  <2>1. PICK S \in SUBSET {p \in Pages : IsDue(p, poll[q].t)} :
          poll' = [poll EXCEPT ![q].picked = [p \in Pages |-> IF p \in S THEN todo[p].crawl ELSE None],
                               ![q].at = "hand"]
    BY <1>3 DEF PickPages
  <2>2. poll[q] \in Poll /\ UNCHANGED <<todo, handed>>
    BY <1>3 DEF PickPages, PollAt, VarsOK, tables, hist
  <2>3. /\ poll'[q].picked = [p \in Pages |-> IF p \in S THEN todo[p].crawl ELSE None]
        /\ poll'[q].t = poll[q].t /\ \A o \in Pollers \ {q} : poll'[o] = poll[o]
    BY <2>1, <2>2 DEF VarsOK, Poll
  <2>4. ASSUME NEW p \in Pages, Still(p, poll'[q].picked[p]), handed[p] # None
        PROVE  handed[p].until < poll[q].t
    <3>1. todo[p] # None /\ poll'[q].picked[p] # None
      BY <2>4, FoundRow DEF Still
    <3>2. p \in S
      BY <2>3, <3>1
    <3>3. todo[p].next < poll[q].t
      BY <3>2 DEF IsDue
    <3> QED BY <2>4, <3>1, <3>3 DEF PagesReturn
  <2> QED BY <2>2, <2>3, <2>4 DEF PickJustified, PollAt, Still
<1>4. ASSUME NEW r \in Reporters, CommitPage(r) PROVE PickJustified'
  <2>1. UNCHANGED <<poll, handed>> /\ \A p \in Pages : todo'[p] \in {todo[p], None}
    BY <1>4 DEF CommitPage, VarsOK
  <2> QED BY <2>1 DEF PickJustified, PollAt, Still
<1>5. CASE UNCHANGED <<todo, handed>> /\ ~\E q \in Pollers : PickPages(q)
  <2>1. ASSUME NEW q \in Pollers, PollStep(q) PROVE PickJustified'
    BY <1>5, <2>1, PollMoves DEF PickJustified, PollAt, Still
  <2>2. CASE poll' = poll
    BY <1>5, <2>2 DEF PickJustified, PollAt, Still
  <2>3. CASE Restart
    BY <2>3 DEF Restart, PickJustified, PollAt
  <2> QED BY <2>1, <2>2, <2>3, WhoSteps
<1>6. \/ UNCHANGED <<todo, handed>>
      \/ \E q \in Pollers : FillPages(q) \/ HandOut(q)
      \/ \E r \in Reporters : CommitPage(r)
  BY DEF Next, vars, tables, hist, Tick, Restart, Begin, LockServer, ClearPages, PickPages, PollFails,
         Arrive, DeletePage, SelectNames, InsertName, ReportFails
<1> QED BY <1>1, <1>2, <1>3, <1>4, <1>5, <1>6

LeaseInv == CrawlInv /\ PagesReturn /\ RestartJustified /\ PickJustified

LEMMA LeaseInit == Init => LeaseInv
<1> SUFFICES ASSUME Init PROVE LeaseInv
  OBVIOUS
<1>1. PagesReturn /\ RestartJustified /\ PickJustified
  BY DEF Init, PagesReturn, RestartJustified, PickJustified, PollAt, NoRows
<1> QED BY <1>1, CrawlInit DEF LeaseInv

LEMMA LeaseStep == LeaseInv /\ [Next]_vars => LeaseInv'
  BY CrawlStep, ReturnStep, RestartStep, PickStep DEF LeaseInv, CrawlInv, TypeOK

LEMMA LeaseInvariant == Spec => []LeaseInv
  BY LeaseInit, LeaseStep, PTL DEF Spec

(* A page that is to do is due, or leased for one lease at most.           *)
THEOREM PagesDoReturn == Spec => []PagesReturn
  BY LeaseInvariant, PTL DEF LeaseInv

(* What a step that restarts the crawl or leases a page again rests on.    *)
RestartOK ==
  \A q \in Pollers : PollAt(q, "fill") /\ poll'[q] # None /\ crawl' # crawl =>
    lastCrawl < poll[q].t - CrawlAge \/ poll[q].t <= began

HandOutOK ==
  \A p \in Pages : handed[p] # None /\ handed'[p] # None /\ handed'[p] # handed[p] =>
    \E q \in Pollers : /\ PollAt(q, "hand") /\ poll'[q] = None
                       /\ handed[p].until < poll[q].t \/ poll[q].t <= handed[p].at

LEMMA HandOutStep == LeaseInv /\ [Next]_vars => HandOutOK
<1> SUFFICES ASSUME LeaseInv, [Next]_vars, NEW p \in Pages,
                    handed[p] # None, handed'[p] # None, handed'[p] # handed[p]
             PROVE  \E q \in Pollers :
                      /\ PollAt(q, "hand") /\ poll'[q] = None
                      /\ handed[p].until < poll[q].t \/ poll[q].t <= handed[p].at
  BY DEF HandOutOK
<1>1. PICK q \in Pollers : FillPages(q) \/ HandOut(q)
  BY DEF Next, vars, hist, Tick, Restart, Begin, LockServer, ClearPages, PickPages, PollFails,
         Arrive, DeletePage, SelectNames, InsertName, CommitPage, ReportFails
<1>2. HandOut(q)
  BY <1>1 DEF FillPages, NoRows
<1>3. VarsOK /\ PickJustified
  BY DEF LeaseInv, CrawlInv, TypeOK
<1>4. p \in Taken(q)
  BY <1>2, <1>3, LeasedRow
<1>5. PollAt(q, "hand") /\ Still(p, poll[q].picked[p]) /\ poll'[q] = None
  BY <1>2, <1>3, <1>4 DEF HandOut, Taken, VarsOK
<1> QED BY <1>3, <1>5 DEF PickJustified

(* A crawl is restarted early only by a request that began before the      *)
(* crawl it replaces was committed.                                        *)
THEOREM EarlyRestartNeedsOverlap == Spec => EarlyRestartOnlyByOverlap
<1>1. LeaseInv /\ [Next]_vars => [RestartOK]_vars
  BY DEF LeaseInv, RestartJustified, RestartOK
<1>2. [][RestartOK]_vars => EarlyRestartOnlyByOverlap
  BY PTL DEF EarlyRestartOnlyByOverlap, RestartOK
<1> QED BY <1>1, <1>2, LeaseInvariant, PTL DEF Spec

(* A page is handed out during its lease only by a request that began      *)
(* before it was leased.                                                   *)
THEOREM DoubleHandOutNeedsOverlap == Spec => DoubleHandOutOnlyByOverlap
<1>1. LeaseInv /\ [Next]_vars => [HandOutOK]_vars
  BY HandOutStep
<1>2. [][HandOutOK]_vars => DoubleHandOutOnlyByOverlap
  BY PTL DEF DoubleHandOutOnlyByOverlap, HandOutOK
<1> QED BY <1>1, <1>2, LeaseInvariant, PTL DEF Spec
=============================================================================
