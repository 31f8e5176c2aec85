-------------------------- MODULE CrawlQueue_proofs --------------------------
(***************************************************************************)
(* What CrawlQueue's runs check on a small instance, proved for any set of *)
(* players, pollers and handlers, any clock bound and any delays that      *)
(* satisfy QueueAssumption.                                                *)
(***************************************************************************)
EXTENDS CrawlQueue, TLAPS

(* The two clamps of a fetch time: it is never later than the clock.       *)
LEMMA ClampedInPast ==
  ASSUME NEW f \in Time, now \in Time
  PROVE  /\ Clamped(f) \in Time
         /\ Clamped(f) <= now
         /\ Clamped(f) >= f \/ Clamped(f) = now
  BY DEF Clamped, Time

(* What a report does to the table, whichever branch insert_player takes:  *)
(* nothing, or one row becomes that of the report, with the next attempt a *)
(* delay after the fetch that outlasts every lease.                        *)
Recorded(h, row) ==
  /\ player' = [player EXCEPT ![job[h].name] = row]
  /\ row \in Row
  /\ row.reported = job[h].fetch
  /\ row.changed = job[h].fetch \/ (job[h].seen # None /\ row.changed = job[h].seen.changed)
  /\ \E d \in Delays : d >= MaxAge + Lease /\ row.next = job[h].fetch + d

(* A write that changes the table records its report: one row, complete.   *)
LEMMA WriteEffect ==
  ASSUME TypeOK, NEW h \in Handlers, Write(h)
  PROVE  player' = player \/ \E row \in Row : Recorded(h, row)
<1> USE QueueAssumption
<1> DEFINE n == job[h].name
           f == job[h].fetch
           seen == job[h].seen
<1>0. job[h] \in Job
  BY DEF Write, TypeOK, VarsOK
<1>1. job[h] \in Job /\ f \in Nat \ {0}
  BY <1>0 DEF Job, Time
<1>2. ASSUME NEW t \in Tiers, NEW d \in Backoff[t]
      PROVE  d \in Nat /\ d \in Delays /\ d >= MaxAge + Lease
  BY <1>2 DEF Delays
<1>3. CASE seen = None
  <2>1. CASE player' # player
    <3>1. PICK d \in Backoff["new"] :
            player' = [player EXCEPT ![n] = [next |-> Scheduled(f, f, d), removed |-> FALSE,
                                             reported |-> f, changed |-> f]]
      BY <1>3, <2>1 DEF Write
    <3> DEFINE row == [next |-> f + d, removed |-> FALSE, reported |-> f, changed |-> f]
    <3>2. d \in Nat /\ d \in Delays /\ d >= MaxAge + Lease
      BY <1>2 DEF Tiers
    <3>3. row \in Row
      BY <1>1, <3>2 DEF Row, Job
    <3>4. Recorded(h, row)
      BY <3>1, <3>2, <3>3 DEF Recorded, Scheduled
    <3> QED BY <3>3, <3>4
  <2> QED BY <2>1
<1>4. CASE seen # None
  <2>1. CASE player' # player
    <3>0. PICK changed \in BOOLEAN :
            \E d \in Backoff[IF changed THEN "changed" ELSE Quiet(seen.changed, f)] :
              player' = [player EXCEPT ![n] =
                           [@ EXCEPT !.next = Scheduled(f, seen.changed, d), !.reported = f,
                                     !.changed = IF changed THEN f ELSE seen.changed]]
      BY <1>4, <2>1 DEF Write
    <3>1. PICK d \in Backoff[IF changed THEN "changed" ELSE Quiet(seen.changed, f)] :
            player' = [player EXCEPT ![n] =
                         [@ EXCEPT !.next = Scheduled(f, seen.changed, d), !.reported = f,
                                   !.changed = IF changed THEN f ELSE seen.changed]]
      BY <3>0
    <3> DEFINE row == [player[n] EXCEPT !.next = f + d, !.reported = f,
                                        !.changed = IF changed THEN f ELSE seen.changed]
    <3>2. (IF changed THEN "changed" ELSE Quiet(seen.changed, f)) \in Tiers
      BY DEF Quiet, Tiers
    <3>3. d \in Nat /\ d \in Delays /\ d >= MaxAge + Lease
      BY <1>2, <3>1, <3>2
    <3>4. player' = [player EXCEPT ![n] = row]
      BY <3>1 DEF Scheduled
    <3>5. player[n] \in Row
      BY <1>1, <1>4 DEF TypeOK, VarsOK, RowsStay, Job, Known, Write
    <3>6. seen.changed \in Time \cup {0} /\ f \in Time /\ f + d \in Nat
      BY <1>1, <1>4, <3>3 DEF Job, Seen, Time
    <3>8. row \in Row /\ row.next = f + d /\ row.reported = f
          /\ row.changed = (IF changed THEN f ELSE seen.changed)
      BY <3>5, <3>6 DEF Row
    <3>7. Recorded(h, row)
      BY <1>4, <3>3, <3>4, <3>8 DEF Recorded
    <3> QED BY <3>8, <3>7
  <2> QED BY <2>1
<1> QED BY <1>3, <1>4

(* What Claim does to the rows and leases of the players it hands out, who *)
(* are exactly known players that were due.                                *)
HandedOut(q, S) ==
  /\ player' = [n \in Names |->
                  IF n \in S THEN [player[n] EXCEPT !.next = poll[q].t + Lease]
                             ELSE player[n]]
  /\ lease' = [n \in Names |-> IF n \in S THEN poll[q].t + Lease ELSE lease[n]]
  /\ \A n \in S : /\ player[n] \in Row
                  /\ [player[n] EXCEPT !.next = poll[q].t + Lease] \in Row
                  /\ player[n].next < poll[q].t
                  /\ poll[q].due[n] # None
  /\ Oldest(q, S)
  /\ poll[q] \in Poll

(* A claim hands out players that are due by the poll's clock, no others.  *)
LEMMA ClaimEffect ==
  ASSUME VarsOK, NEW q \in Pollers, Claim(q)
  PROVE  \E S \in SUBSET Names : HandedOut(q, S)
<1>1. PICK S \in SUBSET Names :
        /\ Oldest(q, S)
        /\ player' = [n \in Names |->
                        IF n \in S THEN [player[n] EXCEPT !.next = poll[q].t + Lease]
                                   ELSE player[n]]
        /\ lease' = [n \in Names |-> IF n \in S THEN poll[q].t + Lease ELSE lease[n]]
  BY DEF Claim
<1>2. poll[q] \in Poll /\ poll[q].t + Lease \in Nat
  BY QueueAssumption DEF Claim, VarsOK, Poll, Time
<1>3. \A n \in S : player[n] \in Row /\ player[n].next < poll[q].t /\ poll[q].due[n] # None
  BY <1>1 DEF Oldest, Claimable, IsDue, Known, VarsOK
<1>4. \A n \in S : [player[n] EXCEPT !.next = poll[q].t + Lease] \in Row
  BY <1>2, <1>3 DEF Row
<1> QED BY <1>1, <1>2, <1>3, <1>4 DEF HandedOut

(* The empty table has the right shape. *)
LEMMA TypeInit == Init => TypeOK
  BY QueueAssumption DEF Init, TypeOK, VarsOK, ClocksOK, RowsStay, Time

(* No step leaves the sets the variables range over. *)
LEMMA VarsStep == TypeOK /\ [Next]_vars => VarsOK'
<1> SUFFICES ASSUME TypeOK, VarsOK, [Next]_vars PROVE VarsOK'
  BY DEF TypeOK
<1> USE QueueAssumption
<1>1. CASE Tick
  BY <1>1 DEF Tick, VarsOK, Time
<1>2. ASSUME NEW n \in Names, Discover(n) PROVE VarsOK'
  BY <1>2 DEF Discover, VarsOK, Time, Row
<1>3. ASSUME NEW n \in Names, FlagRemoved(n) PROVE VarsOK'
  BY <1>3 DEF FlagRemoved, VarsOK, Row, Known
<1>4. ASSUME NEW q \in Pollers, Ask(q) PROVE VarsOK'
  BY <1>4 DEF Ask, VarsOK, Time, Poll
<1>5. ASSUME NEW q \in Pollers, Scan(q) PROVE VarsOK'
  <2>1. [n \in Names |-> IF IsDue(n, poll[q].t) THEN player[n].next ELSE None]
          \in [Names -> Nat \cup {None}]
    BY DEF VarsOK, Row, IsDue, Known
  <2> QED BY <1>5, <2>1 DEF Scan, VarsOK, Poll
<1>6. ASSUME NEW q \in Pollers, Claim(q) PROVE VarsOK'
  <2>1. PICK S \in SUBSET Names : HandedOut(q, S)
    BY <1>6, ClaimEffect
  <2>2. poll[q].t + Lease \in Nat
    BY <1>6 DEF Claim, VarsOK, Poll, Time
  <2>3. player' \in [Names -> Row \cup {None}] /\ lease' \in [Names -> Nat]
    BY <2>1, <2>2 DEF HandedOut, VarsOK, Row
  <2> QED BY <1>6, <2>3 DEF Claim, VarsOK
<1>7. ASSUME NEW q \in Pollers, PollFails(q) PROVE VarsOK'
  BY <1>7 DEF PollFails, VarsOK
<1>8. ASSUME NEW h \in Handlers, Arrive(h) PROVE VarsOK'
  <2>1. PICK n \in Names, f \in (now - MaxAge)..(now + MaxSkew) :
          /\ f \in Time
          /\ job' = [job EXCEPT ![h] = [name |-> n, fetch |-> Clamped(f),
                                        read |-> FALSE, seen |-> None]]
    BY <1>8 DEF Arrive
  <2>2. Clamped(f) \in Time
    BY <2>1, ClampedInPast DEF VarsOK
  <2> QED BY <1>8, <2>1, <2>2 DEF Arrive, VarsOK, Job
<1>9. ASSUME NEW h \in Handlers, Read(h) PROVE VarsOK'
  <2>1. job[h] \in Job
    BY <1>9 DEF Read, VarsOK
  <2>2. (IF player[job[h].name] = None THEN None
         ELSE [reported |-> player[job[h].name].reported,
               changed |-> player[job[h].name].changed]) \in Seen \cup {None}
    BY <2>1 DEF VarsOK, Job, Row, Seen
  <2>3. job' \in [Handlers -> Job \cup {None}]
    BY <1>9, <2>1, <2>2 DEF Read, VarsOK, Job
  <2> QED BY <1>9, <2>3 DEF Read, VarsOK
<1>10. ASSUME NEW h \in Handlers, Write(h) PROVE VarsOK'
  <2>1. job[h] \in Job
    BY <1>10 DEF Write, VarsOK
  <2>2. player' \in [Names -> Row \cup {None}]
    BY <1>10, <2>1, WriteEffect DEF Recorded, VarsOK, Job
  <2> QED BY <1>10, <2>2 DEF Write, VarsOK
<1>11. ASSUME NEW h \in Handlers, ReportFails(h) PROVE VarsOK'
  BY <1>11 DEF ReportFails, VarsOK
<1>12. CASE UNCHANGED vars
  BY <1>12 DEF vars, VarsOK
<1> QED BY <1>1, <1>2, <1>3, <1>4, <1>5, <1>6, <1>7, <1>8, <1>9, <1>10, <1>11, <1>12
        DEF Next

(* A player, once known, stays known: no step deletes a row.               *)
LEMMA KnownStays ==
  TypeOK /\ [Next]_vars => \A n \in Names : Known(n) => Known(n)'
<1> SUFFICES ASSUME TypeOK, VarsOK, [Next]_vars
             PROVE  \A n \in Names : Known(n) => Known(n)'
  BY DEF TypeOK
<1>1. CASE Tick
  BY <1>1 DEF Tick, Known, VarsOK
<1>2. ASSUME NEW n \in Names, Discover(n) PROVE \A m \in Names : Known(m) => Known(m)'
  BY <1>2 DEF Discover, Known, VarsOK
<1>3. ASSUME NEW n \in Names, FlagRemoved(n) PROVE \A m \in Names : Known(m) => Known(m)'
  <2>1. [player[n] EXCEPT !.removed = TRUE] \in Row
    BY <1>3 DEF FlagRemoved, Known, VarsOK, Row
  <2> QED BY <1>3, <2>1, NoneAssumption DEF FlagRemoved, Known, VarsOK
<1>4. ASSUME NEW q \in Pollers, Ask(q) PROVE \A m \in Names : Known(m) => Known(m)'
  BY <1>4 DEF Ask, Known, VarsOK
<1>5. ASSUME NEW q \in Pollers, Scan(q) PROVE \A m \in Names : Known(m) => Known(m)'
  BY <1>5 DEF Scan, Known, VarsOK
<1>6. ASSUME NEW q \in Pollers, Claim(q) PROVE \A m \in Names : Known(m) => Known(m)'
  <2>1. PICK S \in SUBSET Names : HandedOut(q, S)
    BY <1>6, ClaimEffect
  <2> QED BY <2>1, NoneAssumption DEF HandedOut, Known, VarsOK
<1>7. ASSUME NEW q \in Pollers, PollFails(q) PROVE \A m \in Names : Known(m) => Known(m)'
  BY <1>7 DEF PollFails, Known, VarsOK
<1>8. ASSUME NEW h \in Handlers, Arrive(h) PROVE \A m \in Names : Known(m) => Known(m)'
  BY <1>8 DEF Arrive, Known, VarsOK
<1>9. ASSUME NEW h \in Handlers, Read(h) PROVE \A m \in Names : Known(m) => Known(m)'
  BY <1>9 DEF Read, Known, VarsOK
<1>10. ASSUME NEW h \in Handlers, Write(h) PROVE \A m \in Names : Known(m) => Known(m)'
  BY <1>10, WriteEffect, NoneAssumption DEF Recorded, Known, VarsOK
<1>11. ASSUME NEW h \in Handlers, ReportFails(h) PROVE \A m \in Names : Known(m) => Known(m)'
  BY <1>11 DEF ReportFails, Known, VarsOK
<1>12. CASE UNCHANGED vars
  BY <1>12 DEF vars, Known, VarsOK
<1> QED BY <1>1, <1>2, <1>3, <1>4, <1>5, <1>6, <1>7, <1>8, <1>9, <1>10, <1>11, <1>12
        DEF Next

(* Time does not pass a request that has lasted as long as it may. *)
LEMMA ClocksStep == TypeOK /\ [Next]_vars => ClocksOK'
<1> SUFFICES ASSUME VarsOK, ClocksOK, [Next]_vars PROVE ClocksOK'
  BY DEF TypeOK
<1> USE QueueAssumption
<1>1. CASE Tick
  BY <1>1 DEF Tick, ClocksOK, VarsOK, Time, Poll, Job
<1>2. ASSUME NEW n \in Names, Discover(n) PROVE ClocksOK'
  BY <1>2 DEF Discover, ClocksOK
<1>3. ASSUME NEW n \in Names, FlagRemoved(n) PROVE ClocksOK'
  BY <1>3 DEF FlagRemoved, ClocksOK
<1>4. ASSUME NEW q \in Pollers, Ask(q) PROVE ClocksOK'
  BY <1>4 DEF Ask, ClocksOK, VarsOK, Time
<1>5. ASSUME NEW q \in Pollers, Scan(q) PROVE ClocksOK'
  <2>1. poll[q] \in Poll
    BY <1>5 DEF Scan, VarsOK
  <2> QED BY <1>5, <2>1 DEF Scan, ClocksOK, VarsOK, Poll
<1>6. ASSUME NEW q \in Pollers, Claim(q) PROVE ClocksOK'
  BY <1>6 DEF Claim, ClocksOK, VarsOK
<1>7. ASSUME NEW q \in Pollers, PollFails(q) PROVE ClocksOK'
  BY <1>7 DEF PollFails, ClocksOK, VarsOK
<1>8. ASSUME NEW h \in Handlers, Arrive(h) PROVE ClocksOK'
  <2>1. PICK n \in Names, f \in (now - MaxAge)..(now + MaxSkew) :
          /\ f \in Time
          /\ job' = [job EXCEPT ![h] = [name |-> n, fetch |-> Clamped(f),
                                        read |-> FALSE, seen |-> None]]
    BY <1>8 DEF Arrive
  <2>2. Clamped(f) <= now /\ now <= Clamped(f) + MaxAge
    BY <2>1 DEF Clamped, VarsOK, Time
  <2> QED BY <1>8, <2>1, <2>2 DEF Arrive, ClocksOK, VarsOK, Job
<1>9. ASSUME NEW h \in Handlers, Read(h) PROVE ClocksOK'
  <2>1. job[h] \in Job
    BY <1>9 DEF Read, VarsOK
  <2> QED BY <1>9, <2>1 DEF Read, ClocksOK, VarsOK, Job
<1>10. ASSUME NEW h \in Handlers, Write(h) PROVE ClocksOK'
  BY <1>10 DEF Write, ClocksOK, VarsOK
<1>11. ASSUME NEW h \in Handlers, ReportFails(h) PROVE ClocksOK'
  BY <1>11 DEF ReportFails, ClocksOK, VarsOK
<1>12. CASE UNCHANGED vars
  BY <1>12 DEF vars, ClocksOK
<1> QED BY <1>1, <1>2, <1>3, <1>4, <1>5, <1>6, <1>7, <1>8, <1>9, <1>10, <1>11, <1>12
        DEF Next

(* What was read is a row, and a row stays. *)
LEMMA RowsStayStep == TypeOK /\ [Next]_vars => RowsStay'
<1> SUFFICES ASSUME TypeOK, VarsOK, RowsStay, [Next]_vars,
                    NEW h \in Handlers, (job[h] # None /\ job[h].seen # None)'
             PROVE  Known(job[h].name)'
  BY DEF TypeOK, RowsStay
<1>1. CASE job'[h] = job[h]
  <2>1. job[h] \in Job /\ Known(job[h].name)
    BY <1>1 DEF RowsStay, VarsOK
  <2> QED BY <1>1, <2>1, KnownStays DEF Known, Job
<1>2. CASE job'[h] # job[h]
  <2>1. PICK g \in Handlers : Arrive(g) \/ Read(g) \/ Write(g) \/ ReportFails(g)
    BY <1>2 DEF Next, vars, Tick, Discover, FlagRemoved, Ask, Scan, Claim, PollFails
  <2>2. CASE Read(g)
    <3>1. g = h /\ job[h] \in Job
      BY <1>2, <2>2 DEF Read, VarsOK
    <3>2. job'[h].name = job[h].name
          /\ (player[job[h].name] = None => job'[h].seen = None)
      BY <2>2, <3>1 DEF Read, VarsOK, Job
    <3> QED BY <2>2, <3>2 DEF Read, Known
  <2>3. CASE Arrive(g)
    BY <1>2, <2>3 DEF Arrive, VarsOK
  <2>4. CASE Write(g) \/ ReportFails(g)
    BY <1>2, <2>4 DEF Write, ReportFails, VarsOK
  <2> QED BY <2>1, <2>2, <2>3, <2>4
<1> QED BY <1>1, <1>2

(* The type invariant is inductive. *)
LEMMA TypeStep == TypeOK /\ [Next]_vars => TypeOK'
  BY VarsStep, ClocksStep, RowsStayStep DEF TypeOK

(* Every variable keeps its shape, requests stay young and the rows they   *)
(* have read stay, in every reachable state.                               *)
THEOREM TypeCorrect == Spec => []TypeOK
  BY TypeInit, TypeStep, PTL DEF Spec

-----------------------------------------------------------------------------
(* The four ways in which a step can touch the row or the lease of n. *)

Same(n) == player'[n] = player[n] /\ lease'[n] = lease[n]

Handed(n) ==
  \E t \in 1..now : /\ now <= t + MaxWait
                    /\ player[n] \in Row /\ player[n].next < t
                    /\ player'[n] = [player[n] EXCEPT !.next = t + Lease]
                    /\ lease'[n] = t + Lease

Reported(n) ==
  /\ player'[n] \in Row
  /\ player'[n].reported <= now /\ player'[n].changed <= now
  /\ \E d \in Delays : d \in Nat /\ player'[n].next = player'[n].reported + d
  /\ player'[n].next >= now + Lease
  /\ lease'[n] = lease[n]

Found(n) ==
  /\ ~Known(n)
  /\ player'[n] = [next |-> now, removed |-> FALSE, reported |-> 0, changed |-> 0]
  /\ lease'[n] = lease[n]

Flagged(n) ==
  /\ player[n] \in Row
  /\ player'[n] = [player[n] EXCEPT !.removed = TRUE]
  /\ lease'[n] = lease[n]

(* What a report has read of a row lies in the past, too.                  *)
SeenPast ==
  \A h \in Handlers : job[h] # None /\ job[h].seen # None => job[h].seen.changed <= now

(* Every step of the system touches a player in one of these ways, or not. *)
LEMMA RowStep ==
  ASSUME TypeOK, SeenPast, [Next]_vars, NEW n \in Names
  PROVE  \/ Same(n) /\ now' \in Time /\ now' >= now
         \/ now' = now /\ (Handed(n) \/ Reported(n) \/ Found(n) \/ Flagged(n))
<1> USE QueueAssumption
<1>0. VarsOK /\ now \in Time
  BY DEF TypeOK, VarsOK
<1>1. CASE Tick
  BY <1>0, <1>1 DEF Tick, Same, Time
<1>2. ASSUME NEW m \in Names, Discover(m) PROVE Same(n) \/ Found(n)
  BY <1>0, <1>2 DEF Discover, Same, Found, VarsOK
<1>3. ASSUME NEW m \in Names, FlagRemoved(m) PROVE Same(n) \/ Flagged(n)
  BY <1>0, <1>3 DEF FlagRemoved, Same, Flagged, VarsOK, Known
<1>4. ASSUME NEW q \in Pollers, Claim(q) PROVE Same(n) \/ Handed(n)
  <2>1. PICK S \in SUBSET Names : HandedOut(q, S)
    BY <1>0, <1>4, ClaimEffect
  <2>2. poll[q].t \in 1..now /\ now <= poll[q].t + MaxWait
    BY <1>0, <1>4, <2>1 DEF Claim, HandedOut, TypeOK, ClocksOK, Poll, Time
  <2>3. CASE n \in S
    BY <2>1, <2>2, <2>3 DEF HandedOut, Handed
  <2>4. CASE n \notin S
    BY <2>1, <2>4 DEF HandedOut, Same
  <2> QED BY <2>3, <2>4
<1>5. ASSUME NEW h \in Handlers, Write(h) PROVE Same(n) \/ Reported(n)
  <2>0. job[h] # None /\ job[h] \in Job
    BY <1>0, <1>5 DEF Write, VarsOK
  <2>1. job[h] \in Job /\ job[h].fetch \in Nat /\ job[h].fetch <= now
        /\ now <= job[h].fetch + MaxAge
    BY <2>0 DEF TypeOK, ClocksOK, Job, Time
  <2>2. lease'[n] = lease[n]
    BY <1>5 DEF Write
  <2>3. CASE player'[n] # player[n]
    <3>1. PICK row \in Row : Recorded(h, row)
      BY <1>5, <2>3, WriteEffect
    <3>2. player'[n] = row
      BY <1>0, <2>3, <3>1 DEF Recorded, VarsOK
    <3>3. row.changed <= now
      BY <1>5, <2>1, <3>1 DEF Recorded, SeenPast, Write
    <3>4. PICK d \in Delays : d >= MaxAge + Lease /\ row.next = job[h].fetch + d
      BY <3>1 DEF Recorded
    <3>5. d \in Nat
      BY DEF Delays
    <3>6. row.next >= now + Lease
      BY <1>0, <2>1, <3>4, <3>5 DEF Time
    <3> QED BY <2>1, <2>2, <3>1, <3>2, <3>3, <3>4, <3>5, <3>6 DEF Recorded, Reported
  <2> QED BY <2>2, <2>3 DEF Same
<1>6. ASSUME NEW q \in Pollers, Ask(q) \/ Scan(q) \/ PollFails(q)
      PROVE  Same(n) /\ now' = now
  BY <1>6 DEF Ask, Scan, PollFails, Same
<1>7. ASSUME NEW h \in Handlers, Arrive(h) \/ Read(h) \/ ReportFails(h)
      PROVE  Same(n) /\ now' = now
  BY <1>7 DEF Arrive, Read, ReportFails, Same
<1>8. CASE UNCHANGED vars
  BY <1>0, <1>8 DEF vars, Same, Time
<1>9. ASSUME \/ \E m \in Names : Discover(m) \/ FlagRemoved(m)
             \/ \E q \in Pollers : Claim(q)
             \/ \E h \in Handlers : Write(h)
      PROVE  now' = now
  BY <1>9 DEF Discover, FlagRemoved, Claim, Write
<1> QED BY <1>0, <1>1, <1>2, <1>3, <1>4, <1>5, <1>6, <1>7, <1>8, <1>9 DEF Next, Time

-----------------------------------------------------------------------------
(* No lease lies further ahead than one lease, nor on an unknown player.   *)
LeaseBound ==
  \A n \in Names : lease[n] <= now + Lease /\ (~Known(n) => lease[n] = 0)

(* The inductive invariant: reports schedule from a recent fetch, leases   *)
(* run from a past clock reading, hence neither cuts a lease short.        *)
QueueInv ==
  /\ TypeOK /\ SeenPast
  /\ LeaseBound /\ LeaseRespected /\ NoFutureReports /\ NeverLost

(* The empty table satisfies the invariant. *)
LEMMA QueueInit == Init => QueueInv
  BY TypeInit, QueueAssumption
  DEF Init, QueueInv, SeenPast, LeaseBound, LeaseRespected, NoFutureReports, NeverLost, Known

(* Reads return dates of the past, and the clock does not go back. *)
LEMMA SeenPastStep ==
  ASSUME TypeOK, SeenPast, NoFutureReports, [Next]_vars
  PROVE  SeenPast'
<1> USE QueueAssumption
<1>0. VarsOK /\ now \in Time
  BY DEF TypeOK, VarsOK
<1> SUFFICES ASSUME NEW h \in Handlers, (job[h] # None /\ job[h].seen # None)'
             PROVE  (job[h].seen.changed <= now)'
  BY DEF SeenPast
<1>1. now' \in Time /\ now' >= now
  <2>1. CASE Tick
    BY <1>0, <2>1 DEF Tick, Time
  <2>2. CASE ~Tick
    <3>1. now' = now
      BY <2>2 DEF Next, vars, Discover, FlagRemoved, Ask, Scan, Claim, PollFails,
                  Arrive, Read, Write, ReportFails
    <3> QED BY <1>0, <3>1 DEF Time
  <2> QED BY <2>1, <2>2
<1>2. CASE job'[h] = job[h]
  <2>1. job[h] \in Job /\ job[h].seen \in Seen /\ job[h].seen.changed <= now
    BY <1>0, <1>2 DEF SeenPast, VarsOK, Job
  <2> QED BY <1>0, <1>1, <1>2, <2>1 DEF Seen, Time
<1>3. CASE job'[h] # job[h]
  <2>1. PICK g \in Handlers : Arrive(g) \/ Read(g) \/ Write(g) \/ ReportFails(g)
    BY <1>3 DEF Next, vars, Tick, Discover, FlagRemoved, Ask, Scan, Claim, PollFails
  <2>2. CASE Read(g)
    <3>1. g = h /\ job[h] \in Job /\ now' = now
      BY <1>0, <1>3, <2>2 DEF Read, VarsOK
    <3>2. player[job[h].name] # None /\ job'[h].seen.changed = player[job[h].name].changed
      BY <1>0, <2>2, <3>1 DEF Read, VarsOK, Job
    <3> QED BY <3>1, <3>2 DEF NoFutureReports, Known, Job
  <2>3. CASE Arrive(g)
    BY <1>0, <1>3, <2>3 DEF Arrive, VarsOK
  <2>4. CASE Write(g) \/ ReportFails(g)
    BY <1>0, <1>3, <2>4 DEF Write, ReportFails, VarsOK
  <2> QED BY <2>1, <2>2, <2>3, <2>4
<1> QED BY <1>2, <1>3

(* Delays are numbers, the lease is one of them. *)
LEMMA LeaseNat == Lease \in Delays /\ \A d \in Delays : d \in Nat
  BY QueueAssumption DEF Delays

(* Whichever way a step touches a player, the invariant holds afterwards.  *)
LEMMA QueueStep == QueueInv /\ [Next]_vars => QueueInv'
<1> SUFFICES ASSUME QueueInv, [Next]_vars PROVE QueueInv'
  OBVIOUS
<1> USE QueueAssumption
<1>0. TypeOK /\ VarsOK /\ SeenPast /\ now \in Nat
  BY DEF QueueInv, TypeOK, VarsOK, Time
<1>1. TypeOK' /\ SeenPast'
  BY <1>0, TypeStep, SeenPastStep DEF QueueInv
<1>2. ASSUME NEW n \in Names
      PROVE  /\ lease'[n] <= now' + Lease /\ (player'[n] = None => lease'[n] = 0)
             /\ player'[n] # None =>
                  /\ player'[n].next >= lease'[n]
                  /\ player'[n].reported <= now' /\ player'[n].changed <= now'
                  /\ \E d \in Delays : player'[n].next <= now' + d
  <2>1. lease[n] \in Nat /\ lease[n] <= now + Lease /\ (~Known(n) => lease[n] = 0)
    BY <1>0 DEF QueueInv, LeaseBound, VarsOK
  <2>2. Known(n) => /\ player[n] \in Row
                    /\ player[n].next >= lease[n]
                    /\ player[n].reported <= now /\ player[n].changed <= now
                    /\ \E d \in Delays : player[n].next <= now + d
    BY <1>0 DEF QueueInv, LeaseRespected, NoFutureReports, NeverLost, VarsOK, Known
  <2>3. CASE Same(n) /\ now' \in Time /\ now' >= now
    <3>1. CASE Known(n)
      <4>1. PICK d \in Delays : player[n].next <= now + d
        BY <2>2, <3>1
      <4>2. d \in Nat /\ player[n].next <= now' + d
        BY <1>0, <2>2, <2>3, <3>1, <4>1, LeaseNat DEF Row, Time
      <4> QED BY <1>0, <2>1, <2>2, <2>3, <3>1, <4>2 DEF Same, Known, Row, Time
    <3>2. CASE ~Known(n)
      BY <1>0, <2>1, <2>3, <3>2 DEF Same, Known, Time
    <3> QED BY <3>1, <3>2
  <2>4. CASE now' = now /\ Handed(n)
    <3>1. PICK t \in 1..now : /\ player[n] \in Row /\ player[n].next < t
                              /\ player'[n] = [player[n] EXCEPT !.next = t + Lease]
                              /\ lease'[n] = t + Lease
      BY <2>4 DEF Handed
    <3>2. /\ player'[n].next = t + Lease /\ player'[n] \in Row
          /\ player'[n].reported = player[n].reported
          /\ player'[n].changed = player[n].changed
      BY <1>0, <3>1 DEF Row
    <3>3. Known(n)
      BY <3>1, NoneAssumption DEF Known
    <3> QED BY <1>0, <2>2, <2>4, <3>1, <3>2, <3>3, LeaseNat, NoneAssumption
  <2>5. CASE now' = now /\ Reported(n)
    <3>1. PICK d \in Delays : d \in Nat /\ player'[n].next = player'[n].reported + d
      BY <2>5 DEF Reported
    <3>2. player'[n].next <= now + d
      BY <1>0, <2>5, <3>1 DEF Reported, Row, Time
    <3>3. player'[n] \in Row /\ player'[n] # None /\ player'[n].next >= lease'[n]
      BY <1>0, <2>1, <2>5, NoneAssumption DEF Reported, Row
    <3> QED BY <2>1, <2>5, <3>1, <3>2, <3>3 DEF Reported
  <2>6. CASE now' = now /\ Found(n)
    <3>1. player'[n] \in Row
      BY <1>0, <2>6 DEF Found, Row
    <3> QED BY <1>0, <2>1, <2>6, <3>1, NoneAssumption, LeaseNat DEF Found
  <2>7. CASE now' = now /\ Flagged(n)
    <3>1. /\ player'[n].next = player[n].next
          /\ player'[n].reported = player[n].reported
          /\ player'[n].changed = player[n].changed
          /\ player'[n] \in Row /\ Known(n)
      BY <2>7, NoneAssumption DEF Flagged, Row, Known
    <3> QED BY <2>1, <2>2, <2>7, <3>1, NoneAssumption DEF Flagged
  <2> QED BY <1>0, <2>3, <2>4, <2>5, <2>6, <2>7, RowStep
<1> QED BY <1>1, <1>2
        DEF QueueInv, LeaseBound, LeaseRespected, NoFutureReports, NeverLost, Known

(* The inductive invariant holds in every reachable state. *)
LEMMA QueueInvariant == Spec => []QueueInv
  BY QueueInit, QueueStep, PTL DEF Spec

(* No lease is ever cut short, by whatever mixture of polls, late, repeated *)
(* or overlapping reports and removals.                                     *)
THEOREM LeasesAreRespected == Spec => []LeaseRespected
  BY QueueInvariant, PTL DEF QueueInv

(* Crawlers' clocks cannot bring a future date into the table.             *)
THEOREM ReportsLieInThePast == Spec => []NoFutureReports
  BY QueueInvariant, PTL DEF QueueInv

(* Every known player's next attempt is at most one delay away.            *)
THEOREM NobodyIsLost == Spec => []NeverLost
  BY QueueInvariant, PTL DEF QueueInv

(* A player is handed out again only by a poll whose clock is past the end *)
(* of the lease before: no two crawlers hold the same player.              *)
THEOREM LeasesAreExclusive == Spec => LeaseExclusive
<1>1. QueueInv /\ [Next]_vars =>
        [\A n \in Names : lease'[n] # lease[n] => lease'[n] - Lease > lease[n]]_vars
  <2> SUFFICES ASSUME QueueInv, [Next]_vars, NEW n \in Names, lease'[n] # lease[n]
               PROVE  lease'[n] - Lease > lease[n]
    OBVIOUS
  <2>1. Handed(n)
    BY RowStep DEF QueueInv, Same, Reported, Found, Flagged
  <2>2. PICK t \in 1..now : player[n] \in Row /\ player[n].next < t /\ lease'[n] = t + Lease
    BY <2>1 DEF Handed
  <2>3. player[n].next >= lease[n] /\ lease[n] \in Nat /\ now \in Nat
    BY <2>2, NoneAssumption DEF QueueInv, LeaseRespected, Known, TypeOK, VarsOK, Time
  <2> QED BY <2>2, <2>3, QueueAssumption DEF Row
<1> QED BY <1>1, QueueInvariant, PTL DEF Spec, LeaseExclusive

-----------------------------------------------------------------------------
(* Whoever set the next attempt of a player last is still known. *)
LEMMA AccountStep == QueueInv /\ NextIsAccounted /\ [Next]_vars => NextIsAccounted'
<1> SUFFICES ASSUME QueueInv, NextIsAccounted, [Next]_vars, NEW n \in Names, Known(n)'
             PROVE  \/ player'[n].next = lease'[n]
                    \/ \E d \in Delays : player'[n].next = player'[n].reported + d
                    \/ lease'[n] = 0 /\ player'[n].reported = 0
  BY DEF NextIsAccounted
<1>1. CASE Same(n)
  BY <1>1 DEF Same, Known, NextIsAccounted
<1>2. CASE Handed(n)
  <2>1. player'[n].next = lease'[n]
    BY <1>2 DEF Handed, Row
  <2> QED BY <2>1
<1>3. CASE Reported(n)
  BY <1>3 DEF Reported
<1>4. CASE Found(n)
  BY <1>4 DEF Found, QueueInv, LeaseBound
<1>5. CASE Flagged(n)
  <2>1. /\ player'[n].next = player[n].next /\ player'[n].reported = player[n].reported
        /\ lease'[n] = lease[n] /\ Known(n)
    BY <1>5, NoneAssumption DEF Flagged, Row, Known
  <2> QED BY <2>1 DEF NextIsAccounted
<1> QED BY <1>1, <1>2, <1>3, <1>4, <1>5, RowStep DEF QueueInv

(* Nobody is put off but by being handed out, reported or discovered: the  *)
(* limit of get_characters_to_crawl never moves a player it leaves out.    *)
THEOREM NextAttemptsAreAccounted == Spec => []NextIsAccounted
<1>1. Init => NextIsAccounted
  BY DEF Init, NextIsAccounted, Known
<1> QED BY <1>1, AccountStep, QueueInvariant, PTL DEF Spec

(* What a snapshot has as due is so still, or not due any more by the      *)
(* clock of the poll: leases and reports only ever put a player off.       *)
SnapOK ==
  \A q \in Pollers : poll[q] # None /\ poll[q].due # None =>
    \A n \in Names : poll[q].due[n] # None =>
      Known(n) /\ (player[n].next = poll[q].due[n] \/ player[n].next >= poll[q].t)

(* Snapshots stay good through every step of the others. *)
LEMMA SnapStep == QueueInv /\ SnapOK /\ [Next]_vars => SnapOK'
<1> SUFFICES ASSUME QueueInv, SnapOK, [Next]_vars,
                    NEW q \in Pollers, poll'[q] # None, poll'[q].due # None,
                    NEW n \in Names, poll'[q].due[n] # None
             PROVE  /\ Known(n)'
                    /\ player'[n].next = poll'[q].due[n] \/ player'[n].next >= poll'[q].t
  BY DEF SnapOK
<1> USE QueueAssumption
<1>0. VarsOK /\ ClocksOK /\ now \in Nat
  BY DEF QueueInv, TypeOK, VarsOK, Time
<1>1. CASE poll'[q] = poll[q]
  <2>1. /\ Known(n) /\ player[n] \in Row /\ player[n].next \in Nat
        /\ player[n].next = poll[q].due[n] \/ player[n].next >= poll[q].t
    BY <1>0, <1>1 DEF SnapOK, Known, VarsOK, Row
  <2>2. poll[q].t \in Nat /\ poll[q].t <= now
    BY <1>0, <1>1 DEF VarsOK, ClocksOK, Poll, Time
  <2>3. Known(n)'
    BY <2>1, KnownStays DEF QueueInv
  <2>4. CASE player'[n].next = player[n].next
    BY <1>1, <2>1, <2>3, <2>4
  <2>5. CASE Handed(n)
    <3>1. PICK t \in 1..now : now <= t + MaxWait /\ player'[n].next = t + Lease
      BY <2>1, <2>5 DEF Handed, Row
    <3> QED BY <1>0, <1>1, <2>2, <2>3, <3>1
  <2>6. CASE Reported(n)
    <3>1. player'[n].next >= now + Lease /\ player'[n].next \in Nat
      BY <2>6 DEF Reported, Row
    <3> QED BY <1>0, <1>1, <2>2, <2>3, <3>1
  <2> QED BY <2>1, <2>4, <2>5, <2>6, RowStep DEF QueueInv, Same, Found, Flagged, Row
<1>2. CASE poll'[q] # poll[q]
  <2>1. Scan(q)
    <3>1. \E x \in Pollers : Ask(x) \/ Scan(x) \/ Claim(x) \/ PollFails(x)
      BY <1>2 DEF Next, vars, Tick, Discover, FlagRemoved, Arrive, Read, Write, ReportFails
    <3>2. PICK x \in Pollers : Ask(x) \/ Scan(x) \/ Claim(x) \/ PollFails(x)
      BY <3>1
    <3>3. x = q
      BY <1>0, <1>2, <3>2 DEF Ask, Scan, Claim, PollFails, VarsOK
    <3> QED BY <1>0, <3>2, <3>3 DEF Ask, Claim, PollFails, VarsOK
  <2>2. /\ poll[q] \in Poll /\ player' = player
        /\ poll' = [poll EXCEPT ![q].due =
              [m \in Names |-> IF IsDue(m, poll[q].t) THEN player[m].next ELSE None]]
    BY <1>0, <2>1 DEF Scan, VarsOK
  <2>3. poll'[q].due[n] = IF IsDue(n, poll[q].t) THEN player[n].next ELSE None
    BY <1>0, <2>2 DEF VarsOK, Poll
  <2> QED BY <2>2, <2>3 DEF IsDue, Known
<1> QED BY <1>1, <1>2

(* A poll never passes over a player that is due and waits longer than one *)
(* it hands out: the order of its snapshot is still that of the table.     *)
THEOREM OldestAreHandedOutFirst == Spec => OldestFirst
<1> DEFINE InOrder ==
      \A q \in Pollers : \A n, m \in Names :
        (/\ poll[q] # None /\ poll[q].due # None
         /\ poll'[q] = None
         /\ lease'[n] # lease[n] /\ lease'[m] = lease[m]
         /\ poll[q].due[m] # None /\ IsDue(m, poll[q].t)) =>
             player[n].next <= player[m].next
<1>1. QueueInv /\ SnapOK /\ [Next]_vars => InOrder
  <2> SUFFICES ASSUME QueueInv, SnapOK, [Next]_vars, NEW q \in Pollers, NEW n \in Names, NEW m \in Names,
                      poll[q] # None, poll[q].due # None, poll'[q] = None,
                      lease'[n] # lease[n], lease'[m] = lease[m],
                      poll[q].due[m] # None, IsDue(m, poll[q].t)
               PROVE  player[n].next <= player[m].next
    OBVIOUS
  <2>0. VarsOK
    BY DEF QueueInv, TypeOK
  <2>1. PICK x \in Pollers : Claim(x)
    BY DEF Next, vars, Tick, Discover, FlagRemoved, Ask, Scan, PollFails, Arrive, Read, Write, ReportFails
  <2>2. x = q
    BY <2>0, <2>1 DEF Claim, VarsOK
  <2>3. PICK S \in SUBSET Names :
          /\ Oldest(q, S)
          /\ lease' = [k \in Names |-> IF k \in S THEN poll[q].t + Lease ELSE lease[k]]
    BY <2>1, <2>2 DEF Claim
  <2>4. n \in S
    BY <2>3
  <2>5. m \notin S
    <3> SUFFICES ASSUME m \in S PROVE FALSE
      OBVIOUS
    <3>1. lease'[m] = poll[q].t + Lease
      BY <2>3
    <3>2. player[m].next < poll[q].t /\ player[m].next >= lease[m] /\ Known(m)
      BY DEF IsDue, QueueInv, LeaseRespected
    <3>3. poll[q].t \in Nat /\ lease[m] \in Nat /\ player[m].next \in Nat
      BY <2>0, <3>2 DEF VarsOK, Poll, Time, Known, Row
    <3> QED BY <3>1, <3>2, <3>3, QueueAssumption
  <2>6. m \in Claimable(q) /\ n \in Claimable(q)
    BY <2>3, <2>4 DEF Oldest, Claimable
  <2>7. poll[q].due[n] <= poll[q].due[m]
    BY <2>3, <2>4, <2>5, <2>6 DEF Oldest
  <2>8. ASSUME NEW k \in Claimable(q)
        PROVE  player[k].next = poll[q].due[k]
    <3>1. k \in Names /\ poll[q].due[k] # None /\ Known(k) /\ player[k].next < poll[q].t
      BY DEF Claimable, IsDue
    <3>2. player[k].next \in Nat /\ poll[q].t \in Nat
      BY <2>0, <3>1 DEF VarsOK, Poll, Time, Known, Row
    <3> QED BY <3>1, <3>2 DEF SnapOK
  <2> QED BY <2>6, <2>7, <2>8
<1>2. Init => SnapOK
  BY DEF Init, SnapOK
<1> QED BY <1>1, <1>2, SnapStep, QueueInvariant, PTL DEF Spec, OldestFirst
=============================================================================
