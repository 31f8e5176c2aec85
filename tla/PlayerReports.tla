---------------------------- MODULE PlayerReports ----------------------------
(***************************************************************************)
(* The crawl reports of src/src/db/crawling.rs at the level of their SQL   *)
(* statements: handle_crawl_report hands each player of a report either to *)
(* insert_player (one transaction) or to mark_removed (one statement), and *)
(* any number of requests do so at once.  PostgreSQL runs at READ          *)
(* COMMITTED: a statement sees what is committed when it starts, a row     *)
(* written by an open transaction is locked until that transaction ends,   *)
(* and an INSERT waits for an open INSERT of the same unique key.          *)
(*                                                                         *)
(* Not here: the clamp of the fetch time to the clock and the column       *)
(* next_report_attempt (module CrawlQueue), and what the receiver of the   *)
(* updates does with them (module CacheUpdates).                           *)
(***************************************************************************)
EXTENDS Naturals, Sequences, FiniteSets

CONSTANTS
  Names,          \* player names of one server
  Handlers,       \* requests in progress: each works on one player at a time
  Responses,      \* contents of crawled player responses
  Guilds, Descriptions,
  ProfileOf,      \* ProfileOf[r]: (level, attributes, xp), what has_changed compares
  GuildOf,        \* GuildOf[r]: the guild r names, or None
  DescriptionOf,  \* DescriptionOf[r]: the description r carries
  Removed,        \* the update that mark_removed sends
  None,           \* no row, NULL, no guild, no job
  MaxTime,        \* bound: fetch times are 1..MaxTime, 0 stands for NULL
  MaxReports,     \* bound: how many reports are received in all
  MaxPid          \* bound: the last value of the SERIAL player_id

Keys == Guilds \cup Descriptions

Pids == 1..MaxPid

ASSUME ReportsAssumption ==
  /\ IsFiniteSet(Names)
  /\ MaxTime \in Nat \ {0}
  /\ MaxReports \in Nat
  /\ MaxPid \in Nat
  /\ Guilds \cap Descriptions = {}
  /\ GuildOf \in [Responses -> Guilds \cup {None}]
  /\ DescriptionOf \in [Responses -> Descriptions]
  /\ DOMAIN ProfileOf = Responses
  /\ None \notin Keys \cup Responses \cup Handlers
  /\ Removed \notin Responses \cup {None}

VARIABLES
  player,     \* table player: player[n] is the committed row of n, or None
  history,    \* table player_info: the committed rows of a player_id, in commit order
  interned,   \* tables guild and description: the committed keys
  stored,     \* table otherplayer_resp: the committed response contents
  nextPid,    \* the sequence player_player_id_seq: draws survive a rollback
  announced,  \* announced[p]: the last PlayerUpdate sent for p to the caches
  pc,         \* where each handler is
  job,        \* the report it works on: [name, fetch, resp]
  seen,       \* the row it read at the start of the transaction
  target,     \* the player_id it writes to
  keys,       \* guild and description rows it inserted and still holds locked
  received    \* reports received so far

db   == <<player, history, interned, stored, nextPid>>
mine == <<pc, job, seen, target, keys>>
vars == <<db, announced, mine, received>>

Row == [pid : Pids, reported : 0..MaxTime, changed : 0..MaxTime,
        resp : Responses \cup {None}, removed : BOOLEAN]
Entry == [fetch : 1..MaxTime, resp : Responses]
Job   == [name : Names, fetch : 0..MaxTime, resp : Responses \cup {Removed}]

ASSUME NoneAssumption == None \notin Row \cup Job

(* Labels of a handler: those of an open transaction, and of these the     *)
(* ones after the statement that locks the player's row.                   *)
Holding == {"describe", "newdescription", "commit"}
InTransaction == {"select", "guild", "newguild", "write"} \cup Holding
Label == {"idle", "flag", "announce"} \cup InTransaction

Known(n) == player[n] # None

(* Another open transaction holds the row of n (or has inserted it). *)
RowHeld_Unlocked(w, n) == FALSE
RowHeld(w, n) == \E v \in Handlers \ {w} : pc[v] \in Holding /\ job[v].name = n

(* Another open transaction holds this guild or description. *)
KeyHeld(w, k) == \E v \in Handlers \ {w} : k \in keys[v]

Init ==
  /\ player = [n \in Names |-> None]
  /\ history = [p \in Pids |-> <<>>]
  /\ interned = {} /\ stored = {}
  /\ nextPid = 1
  /\ announced = [p \in Pids |-> None]
  /\ pc = [w \in Handlers |-> "idle"]
  /\ job = [w \in Handlers |-> None]
  /\ seen = [w \in Handlers |-> None]
  /\ target = [w \in Handlers |-> 0]
  /\ keys = [w \in Handlers |-> {}]
  /\ received = 0

Goto(w, label) == pc' = [pc EXCEPT ![w] = label]

(* The handler is done with this player: its locks are gone. *)
Release_KeepsLocks(w) ==
  /\ Goto(w, "idle")
  /\ job' = [job EXCEPT ![w] = None]
  /\ seen' = [seen EXCEPT ![w] = None]
  /\ target' = [target EXCEPT ![w] = 0]
  /\ UNCHANGED keys

Release(w) ==
  /\ Goto(w, "idle")
  /\ job' = [job EXCEPT ![w] = None]
  /\ seen' = [seen EXCEPT ![w] = None]
  /\ target' = [target EXCEPT ![w] = 0]
  /\ keys' = [keys EXCEPT ![w] = {}]

(***************************************************************************)
(* handle_crawl_report takes the next player of a report: with a response  *)
(* it was crawled, without one it is gone.                                 *)
(***************************************************************************)
Receive(w) ==
  /\ pc[w] = "idle" /\ received < MaxReports
  /\ \E n \in Names :
       \/ \E f \in 1..MaxTime, r \in Responses :
            /\ job' = [job EXCEPT ![w] = [name |-> n, fetch |-> f, resp |-> r]]
            /\ Goto(w, "select")
       \/ /\ job' = [job EXCEPT ![w] = [name |-> n, fetch |-> 0, resp |-> Removed]]
          /\ Goto(w, "flag")
  /\ received' = received + 1
  /\ UNCHANGED <<db, announced, seen, target, keys>>

-----------------------------------------------------------------------------
(* insert_player, statement by statement *)

SelectExisting(w) ==
  /\ pc[w] = "select"
  /\ seen' = [seen EXCEPT ![w] = player[job[w].name]]
  /\ Goto(w, "guild")
  /\ UNCHANGED <<db, announced, job, target, keys, received>>

(* SELECT the id of a key: go on at `found`, or INSERT it at `missing`. *)
SelectKey(w, k, found, missing) ==
  /\ Goto(w, IF k = None \/ k \in interned THEN found ELSE missing)
  /\ UNCHANGED <<db, announced, job, seen, target, keys, received>>

(* INSERT ... ON CONFLICT DO UPDATE: waits for another open INSERT of the  *)
(* key, then holds the row, its own or the one committed meanwhile.        *)
InsertKey_Unlocked(w, k, next) ==
  /\ Goto(w, next)
  /\ keys' = [keys EXCEPT ![w] = IF KeyHeld(w, k) THEN @ ELSE @ \cup {k}]
  /\ UNCHANGED <<db, announced, job, seen, target, received>>

InsertKey(w, k, next) ==
  /\ ~KeyHeld(w, k)
  /\ keys' = [keys EXCEPT ![w] = @ \cup {k}]
  /\ Goto(w, next)
  /\ UNCHANGED <<db, announced, job, seen, target, received>>

SelectGuild(w) ==
  pc[w] = "guild" /\ SelectKey(w, GuildOf[job[w].resp], "write", "newguild")

InsertGuild(w) ==
  pc[w] = "newguild" /\ InsertKey(w, GuildOf[job[w].resp], "write")

(* The report is newer than the row as it was read, reported or not. *)
IsNewer_Always(w) == TRUE
IsNewer(w) == seen[w].reported < job[w].fetch

(* The row read at the start is as new as this report: roll back. *)
Discard(w) ==
  /\ pc[w] = "write" /\ seen[w] # None
  /\ ~IsNewer(w)
  /\ Release(w)
  /\ UNCHANGED <<db, announced, received>>

Send(p, update) == announced' = [announced EXCEPT ![p] = update]

(* UPDATE player ... WHERE player_id = ..., decided on the row read before, *)
(* then the PlayerUpdate goes out while the transaction is still open.      *)
UpdatePlayer_OutsideTransaction(w) ==
  /\ pc[w] = "write" /\ seen[w] # None
  /\ IsNewer(w)
  /\ ~RowHeld(w, job[w].name)
  /\ player' = [player EXCEPT ![job[w].name].reported = job[w].fetch,
                              ![job[w].name].resp = job[w].resp]
  /\ target' = [target EXCEPT ![w] = seen[w].pid]
  /\ Send(seen[w].pid, job[w].resp)
  /\ Goto(w, "describe")
  /\ UNCHANGED <<history, interned, stored, nextPid, job, seen, keys, received>>

UpdatePlayer(w) ==
  /\ pc[w] = "write" /\ seen[w] # None
  /\ IsNewer(w)
  /\ ~RowHeld(w, job[w].name)
  /\ target' = [target EXCEPT ![w] = seen[w].pid]
  /\ Send(seen[w].pid, job[w].resp)
  /\ Goto(w, "describe")
  /\ UNCHANGED <<db, job, seen, keys, received>>

(* The sequence hands out a value; a rollback does not take it back. *)
DrawPid == nextPid \in Pids /\ nextPid' = nextPid + 1

(* INSERT INTO player of a name not seen before, then the PlayerUpdate.    *)
InsertPlayer(w) ==
  /\ pc[w] = "write" /\ seen[w] = None
  /\ ~RowHeld(w, job[w].name)
  /\ ~Known(job[w].name)
  /\ DrawPid
  /\ target' = [target EXCEPT ![w] = nextPid]
  /\ Send(nextPid, job[w].resp)
  /\ Goto(w, "describe")
  /\ UNCHANGED <<player, history, interned, stored, job, seen, keys, received>>

(* The name got its row after this transaction looked: UNIQUE violation,   *)
(* the report is lost and the drawn player_id with it.                     *)
InsertConflict(w) ==
  /\ pc[w] = "write" /\ seen[w] = None
  /\ ~RowHeld(w, job[w].name)
  /\ Known(job[w].name)
  /\ DrawPid
  /\ Release(w)
  /\ UNCHANGED <<player, history, interned, stored, announced, received>>

SelectDescription(w) ==
  /\ pc[w] = "describe"
  /\ SelectKey(w, DescriptionOf[job[w].resp], "commit", "newdescription")

InsertDescription_GuildLater(w) ==
  /\ pc[w] = "newdescription"
  /\ InsertKey(w, DescriptionOf[job[w].resp], "guild")

InsertDescription(w) ==
  /\ pc[w] = "newdescription"
  /\ InsertKey(w, DescriptionOf[job[w].resp], "commit")

(* What has_changed compares, and the NULLs of a row never reported. *)
HasChanged_Inverted(row, r) ==
  row.resp # None /\ ProfileOf[row.resp] = ProfileOf[r]

HasChanged(row, r) == row.resp = None \/ ProfileOf[row.resp] # ProfileOf[r]

(* The row as the UPDATE or INSERT leaves it; is_removed is not among the  *)
(* columns written, a new row has it FALSE.                                *)
Written(w) ==
  LET n == job[w].name
      f == job[w].fetch
      r == job[w].resp
  IN  [pid |-> target[w], reported |-> f,
       changed |-> IF seen[w] = None \/ HasChanged(seen[w], r)
                   THEN f ELSE seen[w].changed,
       resp |-> r,
       removed |-> Known(n) /\ player[n].removed]

(* otherplayer_resp and player_info are written, unseen by anyone, and the *)
(* transaction commits: everything it wrote becomes visible at once.       *)
Commit(w) ==
  /\ pc[w] = "commit"
  /\ player' = [player EXCEPT ![job[w].name] = Written(w)]
  /\ history' = [history EXCEPT ![target[w]] =
                   Append(@, [fetch |-> job[w].fetch, resp |-> job[w].resp])]
  /\ interned' = interned \cup keys[w]
  /\ stored' = stored \cup {job[w].resp}
  /\ Release(w)
  /\ UNCHANGED <<nextPid, announced, received>>

(* An invalid response, a failed statement, a lost connection: `?` leaves  *)
(* insert_player, and the transaction rolls back, or mark_removed before   *)
(* its statement took effect.  What was sent stays sent.                   *)
Abort(w) ==
  /\ pc[w] \in InTransaction \cup {"flag"}
  /\ Release(w)
  /\ UNCHANGED <<db, announced, received>>

-----------------------------------------------------------------------------
(* mark_removed: one statement that commits by itself, then the update *)

FlagRemoved(w) ==
  /\ pc[w] = "flag"
  /\ LET n == job[w].name
     IN  \/ /\ ~Known(n)
            /\ Release(w)
            /\ UNCHANGED player
         \/ /\ Known(n) /\ ~RowHeld(w, n)
            /\ player' = [player EXCEPT ![n].removed = TRUE]
            /\ target' = [target EXCEPT ![w] = player[n].pid]
            /\ Goto(w, "announce")
            /\ UNCHANGED <<job, seen, keys>>
  /\ UNCHANGED <<history, interned, stored, nextPid, announced, received>>

AnnounceRemoved(w) ==
  /\ pc[w] = "announce"
  /\ Send(target[w], Removed)
  /\ Release(w)
  /\ UNCHANGED <<db, received>>

-----------------------------------------------------------------------------
(* insert_hof_pages inserts a name the Hall of Fame shows: ON CONFLICT DO  *)
(* NOTHING, hence only a name that has no row, committed or about to be.   *)
Discover(n) ==
  /\ ~Known(n)
  /\ \A v \in Handlers : ~(pc[v] \in Holding /\ job[v].name = n)
  /\ player' = [player EXCEPT ![n] = [pid |-> nextPid, reported |-> 0,
                  changed |-> 0, resp |-> None, removed |-> FALSE]]
  /\ DrawPid
  /\ UNCHANGED <<history, interned, stored, announced, mine, received>>

(* What fill_all_server_caches loads for p: a row that is not removed and  *)
(* whose equipment, attributes and level are not NULL.                     *)
Loaded(p) ==
  IF \E n \in Names : Known(n) /\ player[n].pid = p /\ ~player[n].removed
  THEN player[CHOOSE n \in Names : Known(n) /\ player[n].pid = p].resp
  ELSE None

(* The process dies and starts again: open transactions roll back, updates *)
(* in memory are gone, the caches are filled from the tables.              *)
Restart ==
  /\ announced' = [p \in Pids |-> Loaded(p)]
  /\ pc' = [w \in Handlers |-> "idle"]
  /\ job' = [w \in Handlers |-> None]
  /\ seen' = [w \in Handlers |-> None]
  /\ target' = [w \in Handlers |-> 0]
  /\ keys' = [w \in Handlers |-> {}]
  /\ UNCHANGED <<db, received>>

-----------------------------------------------------------------------------
(* One statement of handler w: what its task does next when it is run. *)
Step(w) ==
  \/ SelectExisting(w) \/ SelectGuild(w) \/ InsertGuild(w)
  \/ Discard(w) \/ UpdatePlayer(w) \/ InsertPlayer(w) \/ InsertConflict(w)
  \/ SelectDescription(w) \/ InsertDescription(w) \/ Commit(w)
  \/ FlagRemoved(w) \/ AnnounceRemoved(w)

Next ==
  \/ \E w \in Handlers : Receive(w) \/ Step(w) \/ Abort(w)
  \/ \E n \in Names : Discover(n)
  \/ Restart

Spec == Init /\ [][Next]_vars

-----------------------------------------------------------------------------
(* Properties *)

VarsOK ==
  /\ player \in [Names -> Row \cup {None}]
  /\ history \in [Pids -> Seq(Entry)]
  /\ interned \subseteq Keys
  /\ stored \subseteq Responses
  /\ nextPid \in 1..(MaxPid + 1)
  /\ announced \in [Pids -> Responses \cup {Removed, None}]
  /\ pc \in [Handlers -> Label]
  /\ job \in [Handlers -> Job \cup {None}]
  /\ seen \in [Handlers -> Row \cup {None}]
  /\ target \in [Handlers -> Pids \cup {0}]
  /\ keys \in [Handlers -> SUBSET Keys]
  /\ received \in 0..MaxReports

RegistersOK ==
  \A w \in Handlers :
    /\ pc[w] = "idle" <=> job[w] = None
    /\ pc[w] = "idle" => keys[w] = {} /\ target[w] = 0
    /\ pc[w] \in InTransaction => job[w].fetch > 0 /\ job[w].resp \in Responses
    /\ pc[w] \in {"flag", "announce"} => job[w].resp = Removed
    /\ pc[w] = "newguild" => GuildOf[job[w].resp] # None

(* Every variable keeps its shape, and a handler's registers agree with    *)
(* its label: a report is at hand exactly while the handler is busy, a     *)
(* crawled one inside insert_player and a removal inside mark_removed, and *)
(* nothing is locked for one that is done.                                 *)
TypeOK == VarsOK /\ RegistersOK

LastEntry(p) == history[p][Len(history[p])]

(* A row and its history never disagree: the columns of player are those   *)
(* of the player_info row that was committed last, and a row that was      *)
(* never reported has no history.  It is the lock on the row, held from    *)
(* UPDATE to COMMIT, that keeps two transactions from mixing their halves. *)
RowIsLastEntry ==
  \A n \in Names : Known(n) =>
    LET row == player[n]
    IN  IF history[row.pid] = <<>>
        THEN row.reported = 0 /\ row.resp = None
        ELSE LastEntry(row.pid) = [fetch |-> row.reported, resp |-> row.resp]

(* last_changed is the first sight of the present profile: the entry it    *)
(* names shows the same level, attributes and xp as the row does, so the   *)
(* backoff by the age of the last change counts from a true date.          *)
ChangedShowsProfile ==
  \A n \in Names : Known(n) /\ player[n].resp # None =>
    /\ player[n].changed <= player[n].reported
    /\ \E i \in DOMAIN history[player[n].pid] :
         LET e == history[player[n].pid][i]
         IN  /\ e.fetch = player[n].changed
             /\ ProfileOf[e.resp] = ProfileOf[player[n].resp]

(* No committed row points at a guild, description or response that was    *)
(* never committed: whoever finds a key finds it committed, and whoever    *)
(* inserts it waits for the transaction that is inserting it as well.      *)
LinksResolve ==
  \A p \in Pids : \A i \in DOMAIN history[p] :
    LET r == history[p][i].resp
    IN  /\ GuildOf[r] \in interned \cup {None}
        /\ DescriptionOf[r] \in interned
        /\ r \in stored

(* One transaction at a time works on the row of a player, and two never   *)
(* write the same player_id, nor hold the same guild or description.       *)
WritersExclude ==
  \A v, w \in Handlers : v # w =>
    /\ keys[v] \cap keys[w] = {}
    /\ (pc[v] \in Holding /\ pc[w] \in Holding) =>
         job[v].name # job[w].name /\ target[v] # target[w]

(* insert_player sends its update before it commits.  When it does commit, *)
(* that update is still the last one sent for the player, or the player    *)
(* has been flagged as removed and it is the removal that was sent last:   *)
(* no older report slips in between and stays in the caches.               *)
CommitIsAnnounced ==
  [][\A p \in Pids : history'[p] # history[p] =>
       \/ announced[p] = history'[p][Len(history'[p])].resp
       \/ /\ announced[p] = Removed
          /\ \E n \in Names : Known(n)' /\ player'[n].pid = p /\ player'[n].removed
    ]_vars

(* A row can only go back to an older report when its writer decided on a  *)
(* row that another transaction has replaced since.                        *)
OnlyARaceGoesBack ==
  [][\A n \in Names :
       Known(n) /\ Known(n)' /\ player'[n].reported < player[n].reported =>
         \E w \in Handlers : /\ pc[w] = "commit" /\ pc'[w] = "idle"
                             /\ seen[w].reported < player[n].reported
    ]_vars

(* The transactions implement the abstract history: each accepted report   *)
(* moves row and history at one instant, everything else leaves both alone.*)
History == INSTANCE PlayerHistory WITH
  player <- player, history <- history, Names <- Names, Pids <- Pids,
  Responses <- Responses, MaxTime <- MaxTime, None <- None
Atomic == History!Spec

(* Who waits for whom: an INSERT of a guild or description for the holder  *)
(* of the same key, an UPDATE for the holder of the player's row.          *)
WaitsFor(w, v) ==
  \/ pc[w] = "newguild" /\ GuildOf[job[w].resp] \in keys[v]
  \/ pc[w] \in {"write", "flag"} /\ pc[v] \in Holding /\ job[v].name = job[w].name
  \/ pc[w] = "newdescription" /\ DescriptionOf[job[w].resp] \in keys[v]

Rank(label) == IF label = "newguild" THEN 1
               ELSE IF label \in {"write", "flag"} THEN 2
               ELSE IF label \in {"describe", "newdescription"} THEN 3
               ELSE IF label = "commit" THEN 4 ELSE 0

(* No circle of transactions that wait for each other, however many there  *)
(* are: locks are taken in the order guild, player, description, hence     *)
(* whoever is waited for is further on than the one who waits.  Reports    *)
(* that share guilds, players and texts crosswise do not deadlock.         *)
WaitsGoUp ==
  \A v, w \in Handlers : v # w /\ WaitsFor(w, v) => Rank(pc[v]) > Rank(pc[w])

(* "The last time, that this player was reported at", says the migration   *)
(* that describes last_reported: it should never move back.                *)
NeverReportedBackwards ==
  [][\A n \in Names : Known(n) /\ Known(n)' =>
       player'[n].reported >= player[n].reported]_vars

(* "Wether or not this player has been removed from the server" is what    *)
(* the migration says of is_removed: a player who is reported again after  *)
(* the flag was set is on the server.                                      *)
ReportedPlayerIsPresent ==
  [][\A n \in Names :
       Known(n) /\ Known(n)' /\ player'[n].reported > player[n].reported => ~player'[n].removed]_vars
=============================================================================
