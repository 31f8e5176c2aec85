---------------------------- MODULE CacheUpdates ----------------------------
(***************************************************************************)
(* The in-memory caches of src/src/db/update.rs, scrapbook.rs and          *)
(* underworld.rs, and the updates that keep them current.  The first use   *)
(* of UPDATE_SENDER spawns a task that fills the caches of every recent    *)
(* server from the database and then becomes the only receiver of the      *)
(* updates insert_player and mark_removed send.  It groups them by server; *)
(* a batch that is full or old enough is swapped out and handed to a task  *)
(* of its own, and a semaphore lets one such task at a time read, change   *)
(* and write the two caches of its server.                                 *)
(*                                                                         *)
(* How a report gets into the database is module PlayerReports; here each  *)
(* player has one report in progress at most.  What an update does to the  *)
(* caches is CacheContents; how they are stored and read is Advice.        *)
(***************************************************************************)
EXTENDS CacheContents, Sequences, SequencesExt

CONSTANTS
  Servers, Players,
  HomeOf,     \* HomeOf[p]: the server of player p
  Idents,     \* compressed equipment ids
  Todo, Done, \* of a task that fills a server: has not read yet, has ended
  BatchSize,  \* 3000: a batch of this many players is full
  MaxSends    \* bound: how many updates are sent in all

ASSUME CacheAssumption ==
  /\ HomeOf \in [Players -> Servers]
  /\ ItemsOf \in [Updates -> SUBSET Idents]
  /\ KindOf \in [Updates -> {"nude", "dressed", "low"}]
  /\ Gone \notin Updates /\ None \notin Updates \cup {Gone}
  /\ IsFiniteSet(Players)
  /\ \A S \in SUBSET Players : None \notin [S -> Contents]  \* None is no map
  /\ BatchSize \in Nat \ {0}
  /\ MaxSends \in Nat

VARIABLES
  db,       \* db[p]: what the row of p holds for the caches; Gone once it is flagged
  open,     \* open[p]: the report of p in progress, or None
  phase,    \* the receiving task: off, starting, filling, running, dead
  fill,     \* fill[s]: the task that fills s: Todo, Done or what it fetched
  channel,  \* the unbounded channel: sequence of <<player, update>>
  batch,    \* batch[s]: the entry of s in server_updates, a map of players, or None
  aged,     \* aged[s]: insertion_time of that entry is 30 minutes ago
  tasks,    \* apply_server_cache_updates in progress, in the order they were spawned
  nude,     \* nude[s]: NUDE_PLAYER_CACHE, a map of players
  info,     \* info[s]: player_info of SCRAPBOOK_PLAYER_CACHE, a map of players
  index,    \* index[s]: its equipment: a map from idents to sets of players
  sends,    \* updates sent so far
  owed,     \* history variable: the last update sent for p in this process, or None
  raced     \* history variable: batches of s may have been applied out of order

caches == <<nude, info, index>>
life == <<phase, fill>>
vars == <<db, open, life, channel, batch, aged, tasks, caches, sends, owed, raced>>

PlayersOf(s) == {p \in Players : HomeOf[p] = s}

(* at: queued for the semaphore, or what it does next; old: what it read. *)
Task(s, updates) == [server |-> s, updates |-> updates, at |-> "queued", old |-> NoMap]

Init ==
  /\ db \in [Players -> Updates \cup {None}]
  /\ open = [p \in Players |-> None]
  /\ phase = "off" /\ fill = [s \in Servers |-> Done]
  /\ channel = <<>>
  /\ batch = [s \in Servers |-> None] /\ aged = [s \in Servers |-> FALSE]
  /\ tasks = <<>>
  /\ nude = [s \in Servers |-> NoMap] /\ info = [s \in Servers |-> NoMap]
  /\ index = [s \in Servers |-> NoMap]
  /\ sends = 0
  /\ owed = [p \in Players |-> None]
  /\ raced = [s \in Servers |-> FALSE]

-----------------------------------------------------------------------------
(* Senders.  The first touch of UPDATE_SENDER spawns the receiving task;   *)
(* when that has ended, a send fails and the update is dropped.            *)

Touch == phase' = IF phase = "off" THEN "starting" ELSE phase

Send(p, u) ==
  /\ Touch
  /\ sends' = sends + 1
  /\ IF phase = "dead" THEN UNCHANGED <<channel, owed>>
     ELSE /\ channel' = Append(channel, <<p, u>>)
          /\ owed' = [owed EXCEPT ![p] = u]
  /\ UNCHANGED <<fill, batch, aged, tasks, caches, raced>>

(* insert_player sends while its transaction is open ... *)
Report(p, u) ==
  /\ open[p] = None /\ sends < MaxSends
  /\ open' = [open EXCEPT ![p] = u]
  /\ Send(p, u)
  /\ UNCHANGED db

(* ... and commits or rolls back.  A flagged row stays flagged. *)
Conclude(p) ==
  /\ open[p] \in Updates
  /\ db' \in {db, [db EXCEPT ![p] = IF @ = Gone THEN Gone ELSE open[p]]}
  /\ open' = [open EXCEPT ![p] = None]
  /\ UNCHANGED <<life, channel, batch, aged, tasks, caches, sends, owed, raced>>

(* mark_removed commits first and sends afterwards. *)
FlagRemoved(p) ==
  /\ open[p] = None /\ sends < MaxSends
  /\ db' = [db EXCEPT ![p] = Gone]
  /\ open' = [open EXCEPT ![p] = Gone]
  /\ UNCHANGED <<life, channel, batch, aged, tasks, caches, sends, owed, raced>>

AnnounceRemoved(p) ==
  /\ open[p] = Gone /\ sends < MaxSends
  /\ open' = [open EXCEPT ![p] = None]
  /\ Send(p, Gone)
  /\ UNCHANGED db

(* get_scrapbook_advice and get_best_nude_players touch UPDATE_SENDER too. *)
Advise ==
  /\ phase = "off"
  /\ Touch
  /\ UNCHANGED <<db, open, fill, channel, batch, aged, tasks, caches, sends, owed, raced>>

-----------------------------------------------------------------------------
(* fill_all_server_caches *)

(* The SELECT of the servers crawled in the last 7 days. *)
ListServers ==
  /\ phase = "starting"
  /\ \E recent \in SUBSET Servers :
       fill' = [s \in Servers |-> IF s \in recent THEN Todo ELSE Done]
  /\ phase' = "filling"
  /\ UNCHANGED <<db, open, channel, batch, aged, tasks, caches, sends, owed, raced>>

(* No connection or no list: the task ends, and the channel with it. *)
StartFails ==
  /\ phase = "starting"
  /\ phase' = "dead"
  /\ channel' = <<>>
  /\ owed' = [p \in Players |-> None]
  /\ UNCHANGED <<db, open, fill, batch, aged, tasks, caches, sends, raced>>

(* The task of s reads all players that are not removed and have data. *)
Fetch(s) ==
  /\ phase = "filling" /\ fill[s] = Todo
  /\ fill' = [fill EXCEPT ![s] =
                [p \in {q \in PlayersOf(s) : db[q] \in Updates} |-> db[p]]]
  /\ UNCHANGED <<db, open, phase, channel, batch, aged, tasks, caches, sends, owed, raced>>

(* It failed, which nobody looks at: the server starts without a cache. *)
FetchFails(s) ==
  /\ phase = "filling" /\ fill[s] = Todo
  /\ fill' = [fill EXCEPT ![s] = Done]
  /\ UNCHANGED <<db, open, phase, channel, batch, aged, tasks, caches, sends, owed, raced>>

(* Nobody else writes the caches of s now: both updates in one step. *)
Store(s) ==
  /\ fill[s] \notin {Todo, Done}
  /\ nude' = [nude EXCEPT ![s] = NudeAfter(@, fill[s])]
  /\ info' = [info EXCEPT ![s] = InfoAfter(@, fill[s])]
  /\ index' = [index EXCEPT ![s] = IndexAfter(@, fill[s])]
  /\ fill' = [fill EXCEPT ![s] = Done]
  /\ UNCHANGED <<db, open, phase, channel, batch, aged, tasks, sends, owed, raced>>

(* All tasks have been awaited. *)
Filled_WaitsForData ==
  /\ phase = "filling" /\ \A s \in Servers : fill[s] = Done /\ info[s] # NoMap
  /\ phase' = "running"
  /\ UNCHANGED <<db, open, fill, channel, batch, aged, tasks, caches, sends, owed, raced>>

Filled ==
  /\ phase = "filling" /\ \A s \in Servers : fill[s] = Done
  /\ phase' = "running"
  /\ UNCHANGED <<db, open, fill, channel, batch, aged, tasks, caches, sends, owed, raced>>

-----------------------------------------------------------------------------
(* continuously_update_server_caches *)

(* The next update goes into the batch of its server, replacing an earlier *)
(* one of the same player.  Only now is the batch looked at: if it is full *)
(* or old it is swapped for an empty one and a task is spawned for it.     *)
Merged_KeepsFirst(old, p, u) ==
  [q \in DOMAIN old \cup {p} |-> IF q \in DOMAIN old THEN old[q] ELSE u]
Merged(old, p, u) == [q \in DOMAIN old \cup {p} |-> IF q = p THEN u ELSE old[q]]

Receive ==
  /\ phase = "running" /\ channel # <<>>
  /\ LET p == channel[1][1]
         s == HomeOf[p]
         merged == Merged(IF batch[s] = None THEN NoMap ELSE batch[s], p, channel[1][2])
         ripe == aged[s] \/ Cardinality(DOMAIN merged) >= BatchSize
     IN  /\ batch' = [batch EXCEPT ![s] = IF ripe THEN NoMap ELSE merged]
         /\ aged' = [aged EXCEPT ![s] = FALSE]
         /\ tasks' = IF ripe THEN Append(tasks, Task(s, merged)) ELSE tasks
  /\ channel' = Tail(channel)
  /\ UNCHANGED <<db, open, life, caches, sends, owed, raced>>

(* Half an hour passes for the batch of s; the first one gets its time     *)
(* when it is created, later ones a few minutes more.                      *)
Age(s) ==
  /\ batch[s] # None /\ ~aged[s]
  /\ aged' = [aged EXCEPT ![s] = TRUE]
  /\ UNCHANGED <<db, open, life, channel, batch, tasks, caches, sends, owed, raced>>

-----------------------------------------------------------------------------
(* apply_server_cache_updates *)

SemFree_Unguarded == TRUE
SemFree == \A k \in DOMAIN tasks : tasks[k].at = "queued"

(* A task gets the semaphore and reads the nude players.  Tokio runs new   *)
(* tasks in any order, so the one that asks first need not be the eldest.  *)
Acquire(k) ==
  /\ tasks[k].at = "queued" /\ SemFree
  /\ tasks' = [tasks EXCEPT ![k].at = "underworld", ![k].old = nude[tasks[k].server]]
  /\ raced' = [raced EXCEPT ![tasks[k].server] =
                 @ \/ \E j \in 1..(k - 1) : /\ tasks[j].server = tasks[k].server
                                           /\ tasks[j].at = "queued"]
  /\ UNCHANGED <<db, open, life, channel, batch, aged, caches, sends, owed>>

(* It writes them and reads the scrapbook data ... *)
UpdateUnderworld(k) ==
  /\ tasks[k].at = "underworld"
  /\ LET s == tasks[k].server
     IN  /\ nude' = [nude EXCEPT ![s] = NudeAfter(tasks[k].old, tasks[k].updates)]
         /\ tasks' = [tasks EXCEPT ![k].at = "scrapbook",
                                   ![k].old = [info |-> info[s], index |-> index[s]]]
  /\ UNCHANGED <<db, open, life, channel, batch, aged, info, index, sends, owed, raced>>

(* ... and writes that and is done: the permit is dropped. *)
UpdateScrapbook_KeepsPermit(k) ==
  /\ tasks[k].at = "scrapbook"
  /\ LET s == tasks[k].server
     IN  /\ info' = [info EXCEPT ![s] = InfoAfter(tasks[k].old.info, tasks[k].updates)]
         /\ index' = [index EXCEPT ![s] = IndexAfter(tasks[k].old.index, tasks[k].updates)]
  /\ tasks' = [tasks EXCEPT ![k].at = "done"]
  /\ UNCHANGED <<db, open, life, channel, batch, aged, nude, sends, owed, raced>>

UpdateScrapbook(k) ==
  /\ tasks[k].at = "scrapbook"
  /\ LET s == tasks[k].server
     IN  /\ info' = [info EXCEPT ![s] = InfoAfter(tasks[k].old.info, tasks[k].updates)]
         /\ index' = [index EXCEPT ![s] = IndexAfter(tasks[k].old.index, tasks[k].updates)]
  /\ tasks' = RemoveAt(tasks, k)
  /\ UNCHANGED <<db, open, life, channel, batch, aged, nude, sends, owed, raced>>

(* The process ends and is started again: what was in memory is gone. *)
Restart ==
  /\ phase # "off"
  /\ open' = [p \in Players |-> None]
  /\ phase' = "off" /\ fill' = [s \in Servers |-> Done]
  /\ channel' = <<>>
  /\ batch' = [s \in Servers |-> None] /\ aged' = [s \in Servers |-> FALSE]
  /\ tasks' = <<>>
  /\ nude' = [s \in Servers |-> NoMap] /\ info' = [s \in Servers |-> NoMap]
  /\ index' = [s \in Servers |-> NoMap]
  /\ owed' = [p \in Players |-> None]
  /\ raced' = [s \in Servers |-> FALSE]
  /\ UNCHANGED <<db, sends>>

-----------------------------------------------------------------------------
Work(k) == Acquire(k) \/ UpdateUnderworld(k) \/ UpdateScrapbook(k)

Next ==
  \/ \E p \in Players : \/ \E u \in Updates : Report(p, u)
                        \/ Conclude(p) \/ FlagRemoved(p) \/ AnnounceRemoved(p)
  \/ Advise \/ ListServers \/ StartFails \/ Filled \/ Receive \/ Restart
  \/ \E s \in Servers : Fetch(s) \/ FetchFails(s) \/ Store(s) \/ Age(s)
  \/ \E k \in DOMAIN tasks : Work(k)

Spec == Init /\ [][Next]_vars

(* Tokio runs whatever can run; half an hour passes whether or not updates *)
(* arrive.  Nobody has to report anything.                                 *)
FairSpec ==
  /\ Spec
  /\ WF_vars(ListServers \/ StartFails) /\ WF_vars(Filled) /\ WF_vars(Receive)
  /\ \A s \in Servers : WF_vars(Fetch(s) \/ FetchFails(s)) /\ WF_vars(Store(s))
                        /\ WF_vars(Age(s))
  /\ WF_vars(\E k \in DOMAIN tasks : Work(k))

-----------------------------------------------------------------------------
(* Properties *)

IsMap(m, S) == DOMAIN m \subseteq Players /\ \A p \in DOMAIN m : m[p] \in S

(* Every variable keeps its shape, players stay with their server, and at  *)
(* most one task has the semaphore.                                        *)
TypeOK ==
  /\ db \in [Players -> Contents \cup {None}]
  /\ open \in [Players -> Contents \cup {None}]
  /\ phase \in {"off", "starting", "filling", "running", "dead"}
  /\ \A s \in Servers : fill[s] \notin {Todo, Done} => IsMap(fill[s], Updates)
  /\ channel \in Seq(Players \X Contents)
  /\ \A s \in Servers :
       /\ batch[s] # None =>
            IsMap(batch[s], Contents) /\ Cardinality(DOMAIN batch[s]) < BatchSize
       /\ batch[s] = None => ~aged[s]
       /\ IsMap(nude[s], Updates) /\ IsMap(info[s], Contents)
       /\ DOMAIN info[s] \subseteq PlayersOf(s)
       /\ DOMAIN index[s] \subseteq Idents
       /\ \A i \in DOMAIN index[s] : index[s][i] \subseteq DOMAIN info[s]
  /\ \A k \in DOMAIN tasks :
       /\ IsMap(tasks[k].updates, Contents)
       /\ \A j \in DOMAIN tasks : tasks[j].at # "queued" /\ tasks[k].at # "queued" => j = k
  /\ sends \in 0..MaxSends
  /\ owed \in [Players -> Contents \cup {None}]

InChannel(p) == {k \in DOMAIN channel : channel[k][1] = p}
InBatch(p) == batch[HomeOf[p]] # None /\ p \in DOMAIN batch[HomeOf[p]]
InTasks(p) == {k \in DOMAIN tasks : p \in DOMAIN tasks[k].updates}
InFlight(p) == InChannel(p) # {} \/ InBatch(p) \/ InTasks(p) # {}

(* The caches of its server show p as the update u has it.  What they held *)
(* of a low level player is left in the list of nude players.              *)
Shown(p, u) ==
  LET s == HomeOf[p]
  IN  /\ p \in DOMAIN info[s] /\ info[s][p] = u
      /\ \A i \in DOMAIN index[s] : p \in index[s][i] <=> i \in Items(u)
      /\ u = Gone \/ KindOf[u] = "dressed" => p \notin DOMAIN nude[s]
      /\ u # Gone /\ KindOf[u] = "nude" => p \in DOMAIN nude[s] /\ nude[s][p] = u

(* The last update sent for a player is never lost on its way to the       *)
(* caches: while any is under way, the youngest of them is the last one    *)
(* sent, except that an elder batch may be left when batches raced.        *)
LastUpdateKept ==
  \A p \in Players : owed[p] # None /\ InFlight(p) =>
    IF InChannel(p) # {} THEN owed[p] = channel[Max(InChannel(p))][2]
    ELSE IF InBatch(p) THEN owed[p] = batch[HomeOf[p]][p]
    ELSE raced[HomeOf[p]] \/ owed[p] = tasks[Max(InTasks(p))].updates[p]

(* When nothing is under way for a player, the caches show the last update *)
(* that was sent for it, although the fill, the batches and the two caches *)
(* are read and written in steps of their own; only if batches of a server *)
(* were applied out of order may they show an older one.                   *)
Converged ==
  \A p \in Players :
    (phase = "running" /\ owed[p] # None /\ ~InFlight(p) /\ ~raced[HomeOf[p]]) =>
      Shown(p, owed[p])

(* A player nothing was sent for is shown as the database has it, or not   *)
(* at all, whatever updates of others went through the same caches.        *)
LoadedAsCommitted ==
  \A p \in Players :
    (phase = "running" /\ owed[p] = None /\ open[p] = None) =>
      Shown(p, db[p]) \/ p \notin DOMAIN info[HomeOf[p]]

(* Whatever is sent is taken from the channel, even if servers cannot be   *)
(* filled, unless the receiver could not start at all or the process ends. *)
UpdatesAreTaken == channel # <<>> ~> channel = <<>>

(* Every spawned batch is applied: the semaphore is always given back.     *)
BatchesAreApplied == tasks # <<>> ~> tasks = <<>>

(* "Once a sufficiently large amount of player updates have been found, or *)
(* enough time has passed, server batches will be written to the actual    *)
(* cache": so a batch that has been waiting long enough gets written.      *)
OldBatchesAreWritten ==
  \A s \in Servers :
    (aged[s] /\ batch[s] # NoMap) ~> (batch[s] = NoMap \/ batch[s] = None)

(* "Equipment id => player ids": the index should lead from every item a   *)
(* player wears to that player once the update has been applied.           *)
EveryItemIsIndexed ==
  \A p \in Players :
    (phase = "running" /\ owed[p] # None /\ ~InFlight(p) /\ ~raced[HomeOf[p]]) =>
      \A i \in Items(owed[p]) : i \in DOMAIN index[HomeOf[p]]
=============================================================================
