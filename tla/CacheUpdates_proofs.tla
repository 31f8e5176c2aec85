------------------------- MODULE CacheUpdates_proofs -------------------------
(***************************************************************************)
(* The safety properties of CacheUpdates, proved for any servers, players, *)
(* updates, batch size and number of sends.                                *)
(*                                                                         *)
(* An update passes through the channel, the batch of its server and a     *)
(* task, and the invariant follows it: what is youngest in the first of    *)
(* these that holds anything for a player is the last that was sent        *)
(* (KeptOK), a task that works is the eldest of its server unless batches  *)
(* raced, and has read what is still there (WorkerOK), and the index and   *)
(* the list of nude players agree with player_info (IndexesOK, NudesOK).   *)
(***************************************************************************)
EXTENDS CacheUpdates, FiniteSetTheorems, TLAPS

Maps(C) == UNION {[S -> C] : S \in SUBSET Players}
Indexes == UNION {[S -> SUBSET Players] : S \in SUBSET Idents}
SomeContent == Contents \cup {None}
Saved == [info : Maps(Contents), index : Indexes]
OldData == Maps(Updates) \cup Saved
TaskRecord ==
  [server : Servers, updates : Maps(Contents), at : {"queued", "underworld", "scrapbook"},
   old : OldData]

VarsOK ==
  /\ db \in [Players -> SomeContent]
  /\ open \in [Players -> SomeContent]
  /\ owed \in [Players -> SomeContent]
  /\ phase \in {"off", "starting", "filling", "running", "dead"}
  /\ fill \in [Servers -> Maps(Updates) \cup {Todo, Done}]
  /\ channel \in Seq(Players \X Contents)
  /\ batch \in [Servers -> Maps(Contents) \cup {None}]
  /\ aged \in [Servers -> BOOLEAN] /\ raced \in [Servers -> BOOLEAN]
  /\ tasks \in Seq(TaskRecord)
  /\ nude \in [Servers -> Maps(Updates)] /\ info \in [Servers -> Maps(Contents)]
  /\ index \in [Servers -> Indexes]
  /\ sends \in 0..MaxSends

(* What there is before the receiver runs, and after it has died. *)
PhaseOK ==
  /\ phase # "filling" => \A s \in Servers : fill[s] = Done
  /\ phase # "running" => tasks = <<>> /\ \A s \in Servers : batch[s] = None
  /\ phase \in {"off", "dead"} => channel = <<>> /\ \A p \in Players : owed[p] = None
  /\ phase \in {"off", "starting", "dead"} =>
       \A s \in Servers : nude[s] = NoMap /\ info[s] = NoMap /\ index[s] = NoMap

(* Players stay with their server, and a batch that is full is no batch.   *)
HomeOK ==
  /\ \A s \in Servers :
       /\ fill[s] \notin {Todo, Done} => DOMAIN fill[s] \subseteq PlayersOf(s)
       /\ batch[s] # None =>
            DOMAIN batch[s] \subseteq PlayersOf(s) /\ Cardinality(DOMAIN batch[s]) < BatchSize
       /\ batch[s] = None => ~aged[s]
       /\ DOMAIN info[s] \subseteq PlayersOf(s)
  /\ \A k \in DOMAIN tasks : DOMAIN tasks[k].updates \subseteq PlayersOf(tasks[k].server)

(* One task works at a time; it is the eldest of its server unless batches *)
(* raced, and what it has read is what is there.                           *)
WorkerOK ==
  \A k \in DOMAIN tasks : tasks[k].at # "queued" =>
    LET s == tasks[k].server
    IN  /\ \A j \in DOMAIN tasks : tasks[j].at # "queued" => j = k
        /\ raced[s] \/ \A j \in 1..(k - 1) : tasks[j].server # s
        /\ tasks[k].at = "underworld" => tasks[k].old = nude[s]
        /\ tasks[k].at = "scrapbook" => tasks[k].old = [info |-> info[s], index |-> index[s]]

(* The index leads from its idents to exactly the players who have them,   *)
(* and is empty only if nobody has any.                                    *)
IndexOK(players, idents) ==
  /\ \A i \in DOMAIN idents : idents[i] = {p \in DOMAIN players : i \in Items(players[p])}
  /\ DOMAIN idents = {} => \A p \in DOMAIN players : Items(players[p]) = {}

IndexesOK == \A s \in Servers : IndexOK(info[s], index[s])

(* The list of nude players shows p as the update u has it. *)
NudeShows(list, p, u) ==
  /\ u = Gone \/ KindOf[u] = "dressed" => p \notin DOMAIN list
  /\ u # Gone /\ KindOf[u] = "nude" => p \in DOMAIN list /\ list[p] = u

(* It is ahead of the other cache while a task is between the two.         *)
NudesOK ==
  /\ \A s \in Servers : \A p \in DOMAIN info[s] :
       \/ NudeShows(nude[s], p, info[s][p])
       \/ \E k \in InTasks(p) : tasks[k].at = "scrapbook" /\ tasks[k].server = s
  /\ \A k \in DOMAIN tasks : tasks[k].at = "scrapbook" =>
       \A p \in DOMAIN tasks[k].updates :
         NudeShows(nude[tasks[k].server], p, tasks[k].updates[p])

(* The youngest of what is under way for p is u. *)
LastInChannel(p, u) == \E k \in InChannel(p) : channel[k][2] = u /\ \A j \in InChannel(p) : j <= k
LastInTasks(p, u) == \E k \in InTasks(p) : tasks[k].updates[p] = u /\ \A j \in InTasks(p) : j <= k

KeptFor(p, v) ==
  /\ InFlight(p) => v # None
  /\ v # None /\ phase # "running" => InChannel(p) # {}
  /\ InChannel(p) # {} => LastInChannel(p, v)
  /\ InChannel(p) = {} /\ InBatch(p) => v = batch[HomeOf[p]][p]
  /\ InChannel(p) = {} /\ ~InBatch(p) /\ InTasks(p) # {} /\ ~raced[HomeOf[p]] =>
       LastInTasks(p, v)
  /\ v # None /\ ~InFlight(p) /\ ~raced[HomeOf[p]] =>
       p \in DOMAIN info[HomeOf[p]] /\ info[HomeOf[p]][p] = v

KeptOK == \A p \in Players : KeptFor(p, owed[p])

(* What was fetched for a player nothing was sent for is as committed. *)
LoadedFor(p) ==
  /\ phase # "dead" /\ open[p] \in Updates => owed[p] # None
  /\ owed[p] = None /\ open[p] = None =>
       LET s == HomeOf[p]
       IN  /\ fill[s] \notin {Todo, Done} /\ p \in DOMAIN fill[s] => fill[s][p] = db[p]
           /\ p \in DOMAIN info[s] => info[s][p] = db[p]

LoadedOK == \A p \in Players : LoadedFor(p)

IInv ==
  /\ VarsOK /\ PhaseOK /\ HomeOK /\ WorkerOK
  /\ IndexesOK /\ NudesOK /\ KeptOK /\ LoadedOK

-----------------------------------------------------------------------------
(* What the helpers return *)

(* A map of players gives contents to some of them, and is never None. *)
LEMMA MapFacts ==
  ASSUME NEW C, NEW m \in Maps(C)
  PROVE  DOMAIN m \subseteq Players /\ m \in [DOMAIN m -> C] /\ \A p \in DOMAIN m : m[p] \in C
  BY DEF Maps

LEMMA IsAMap ==
  ASSUME NEW C, NEW S \in SUBSET Players, NEW m \in [S -> C]
  PROVE  m \in Maps(C)
  BY DEF Maps

LEMMA MapIsData == ASSUME NEW m \in Maps(Contents) PROVE m # None
<1>1. DOMAIN m \in SUBSET Players /\ m \in [DOMAIN m -> Contents]
  BY MapFacts
<1> QED BY <1>1, CacheAssumption DEF CacheAssumption

LEMMA NoMapIsAMap ==
  /\ NoMap \in Maps(Contents) /\ NoMap \in Maps(Updates) /\ NoMap \in Indexes
  /\ DOMAIN NoMap = {}
<1>1. DOMAIN NoMap = {} /\ \A C : NoMap \in [{} -> C]
  BY DEF NoMap
<1> QED BY <1>1 DEF Maps, Indexes

LEMMA IndexFacts ==
  ASSUME NEW x \in Indexes
  PROVE  DOMAIN x \subseteq Idents /\ \A i \in DOMAIN x : x[i] \subseteq Players
  BY DEF Indexes

LEMMA IsAnIndex ==
  ASSUME NEW S \in SUBSET Idents, NEW x \in [S -> SUBSET Players]
  PROVE  x \in Indexes
  BY DEF Indexes

LEMMA ItemsAreIdents ==
  \A u \in Contents : Items(u) \subseteq Idents
  BY CacheAssumption DEF CacheAssumption, Items, Contents

(* A map of contents is also one of updates, and a batch grows by a player. *)
LEMMA UpdatesAreContents == ASSUME NEW m \in Maps(Updates) PROVE m \in Maps(Contents)
  BY MapFacts, IsAMap DEF Contents

LEMMA MergedFacts ==
  ASSUME NEW old \in Maps(Contents), NEW p \in Players, NEW u \in Contents
  PROVE  /\ Merged(old, p, u) \in Maps(Contents)
         /\ DOMAIN Merged(old, p, u) = DOMAIN old \cup {p}
         /\ Merged(old, p, u)[p] = u
         /\ \A q \in DOMAIN old : q # p => Merged(old, p, u)[q] = old[q]
<1>1. Merged(old, p, u) \in [DOMAIN old \cup {p} -> Contents]
  BY MapFacts DEF Merged
<1> QED BY <1>1, MapFacts, IsAMap DEF Merged

(* The rules of the two caches: player_info takes over what the updates    *)
(* say, the list of nude players does so unless a level is low, and what   *)
(* the updates do not name stays as it was.                                *)
LEMMA InfoFacts ==
  ASSUME NEW old \in Maps(Contents), NEW us \in Maps(Contents)
  PROVE  /\ InfoAfter(old, us) \in Maps(Contents)
         /\ DOMAIN InfoAfter(old, us) = DOMAIN old \cup DOMAIN us
         /\ \A p \in DOMAIN us : InfoAfter(old, us)[p] = us[p]
         /\ \A p \in DOMAIN old \ DOMAIN us : InfoAfter(old, us)[p] = old[p]
<1>1. InfoAfter(old, us) \in [DOMAIN old \cup DOMAIN us -> Contents]
  BY MapFacts DEF InfoAfter
<1> QED BY <1>1, MapFacts, IsAMap DEF InfoAfter

LEMMA NudeFacts ==
  ASSUME NEW old \in Maps(Updates), NEW us \in Maps(Contents)
  PROVE  /\ NudeAfter(old, us) \in Maps(Updates)
         /\ \A p \in DOMAIN us : NudeShows(NudeAfter(old, us), p, us[p])
         /\ \A p \in Players \ DOMAIN us, u \in Contents :
              NudeShows(old, p, u) => NudeShows(NudeAfter(old, us), p, u)
<1> DEFINE listed == {p \in DOMAIN us : us[p] # Gone /\ KindOf[us[p]] = "nude"}
           low == {p \in DOMAIN us : us[p] # Gone /\ KindOf[us[p]] = "low"}
           S == listed \cup (DOMAIN old \ (DOMAIN us \ low))
<1>1. DOMAIN old \subseteq Players /\ DOMAIN us \subseteq Players
      /\ (\A p \in DOMAIN old : old[p] \in Updates) /\ (\A p \in DOMAIN us : us[p] \in Contents)
  BY MapFacts
<1>2. NudeAfter(old, us) = [p \in S |-> IF p \in listed THEN us[p] ELSE old[p]]
  BY DEF NudeAfter
<1>3. \A p \in S : (IF p \in listed THEN us[p] ELSE old[p]) \in Updates
  <2>1. ASSUME NEW p \in S, p \in listed PROVE us[p] \in Updates
    BY <1>1, <2>1 DEF Contents
  <2>2. ASSUME NEW p \in S, p \notin listed PROVE old[p] \in Updates
    BY <1>1, <2>2
  <2> QED BY <2>1, <2>2
<1>4. NudeAfter(old, us) \in Maps(Updates)
  <2>1. S \in SUBSET Players
    BY <1>1
  <2>2. NudeAfter(old, us) \in [S -> Updates]
    BY <1>2, <1>3
  <2> QED BY <2>1, <2>2, IsAMap
<1>5. ASSUME NEW p \in DOMAIN us PROVE NudeShows(NudeAfter(old, us), p, us[p])
  <2>1. (us[p] = Gone \/ KindOf[us[p]] = "dressed") => p \notin S
    BY <1>1
  <2>2. (us[p] # Gone /\ KindOf[us[p]] = "nude") => p \in listed
    OBVIOUS
  <2> HIDE DEF listed, S
  <2>3. listed \subseteq S
    BY DEF S
  <2> QED BY <1>2, <2>1, <2>2, <2>3 DEF NudeShows
<1>6. ASSUME NEW p \in Players \ DOMAIN us, NEW u \in Contents, NudeShows(old, p, u)
      PROVE  NudeShows(NudeAfter(old, us), p, u)
  <2>1. p \notin listed /\ (p \in S <=> p \in DOMAIN old)
    OBVIOUS
  <2> HIDE DEF listed, S
  <2> QED BY <1>2, <1>6, <2>1 DEF NudeShows
<1> QED BY <1>4, <1>5, <1>6

(* The index keeps leading to exactly the players who have the ident. *)
LEMMA IndexAfterFacts ==
  ASSUME NEW players \in Maps(Contents), NEW idents \in Indexes, NEW us \in Maps(Contents),
         IndexOK(players, idents)
  PROVE  /\ IndexAfter(idents, us) \in Indexes
         /\ IndexOK(InfoAfter(players, us), IndexAfter(idents, us))
<1>1. /\ DOMAIN players \subseteq Players /\ DOMAIN us \subseteq Players
      /\ \A p \in DOMAIN us : us[p] \in Contents
  BY MapFacts
<1>2. DOMAIN idents \subseteq Idents /\ \A i \in DOMAIN idents : idents[i] \subseteq Players
  BY IndexFacts
<1> DEFINE new == InfoAfter(players, us)
           after == IndexAfter(idents, us)
<1>3. /\ DOMAIN new = DOMAIN players \cup DOMAIN us
      /\ \A p \in DOMAIN us : new[p] = us[p]
      /\ \A p \in DOMAIN players \ DOMAIN us : new[p] = players[p]
  BY InfoFacts
<1> HIDE DEF new, after
<1>4. \A i : Owners(us, i) \subseteq Players
  BY <1>1 DEF Owners
<1>5. CASE DOMAIN idents = {}
  <2>1. \A p \in DOMAIN players : Items(players[p]) = {}
    BY <1>5 DEF IndexOK
  <2> DEFINE S == UNION {Items(us[p]) : p \in DOMAIN us}
  <2>2. after = [i \in S |-> Owners(us, i)]
    BY <1>5 DEF IndexAfter, after
  <2>3. S \in SUBSET Idents
    BY <1>1, ItemsAreIdents
  <2>4. after \in Indexes
    BY <2>2, <2>3, <1>4, IsAnIndex
  <2>5. \A i : Owners(us, i) = {p \in DOMAIN new : i \in Items(new[p])}
    BY <1>3, <2>1 DEF Owners
  <2>6. DOMAIN after = {} => \A p \in DOMAIN new : Items(new[p]) = {}
    BY <1>3, <2>1, <2>2
  <2> QED BY <2>2, <2>4, <2>5, <2>6 DEF IndexOK, new, after
<1>6. CASE DOMAIN idents # {}
  <2>1. after = [i \in DOMAIN idents |-> (idents[i] \ DOMAIN us) \cup Owners(us, i)]
    BY <1>6 DEF IndexAfter, after
  <2>2. after \in [DOMAIN idents -> SUBSET Players]
    BY <1>2, <1>4, <2>1
  <2>3. after \in Indexes
    BY <1>2, <2>2, IsAnIndex
  <2>4. ASSUME NEW i \in DOMAIN idents
        PROVE  after[i] = {p \in DOMAIN new : i \in Items(new[p])}
    <3>1. idents[i] = {p \in DOMAIN players : i \in Items(players[p])}
      BY DEF IndexOK
    <3> QED BY <1>3, <2>1, <3>1 DEF Owners
  <2> QED BY <1>6, <2>1, <2>3, <2>4 DEF IndexOK, new, after
<1> QED BY <1>5, <1>6

(* Taking a task out moves those behind it one place to the front. *)
LEMMA RemoveAtFacts ==
  ASSUME NEW S, NEW q \in Seq(S), NEW k \in DOMAIN q
  PROVE  /\ RemoveAt(q, k) \in Seq(S)
         /\ Len(RemoveAt(q, k)) = Len(q) - 1
         /\ \A j \in 1..(Len(q) - 1) : RemoveAt(q, k)[j] = IF j < k THEN q[j] ELSE q[j + 1]
<1> DEFINE head == SubSeq(q, 1, k - 1)
           rest == SubSeq(q, k + 1, Len(q))
<1>1. k \in 1..Len(q) /\ Len(q) \in Nat
  OBVIOUS
<1>2. /\ head \in Seq(S) /\ Len(head) = k - 1
      /\ \A j \in 1..(k - 1) : head[j] = q[j]
  BY <1>1
<1>3. /\ rest \in Seq(S) /\ Len(rest) = Len(q) - k
      /\ \A j \in 1..(Len(q) - k) : rest[j] = q[j + k]
  BY <1>1
<1>4. RemoveAt(q, k) = head \o rest
  BY DEF RemoveAt
<1> HIDE DEF head, rest
<1> QED BY <1>1, <1>2, <1>3, <1>4

LEMMA TailFacts ==
  ASSUME NEW S, NEW q \in Seq(S), q # <<>>
  PROVE  /\ Tail(q) \in Seq(S) /\ Len(Tail(q)) = Len(q) - 1 /\ q[1] \in S /\ 1 \in DOMAIN q
         /\ \A k \in 1..(Len(q) - 1) : Tail(q)[k] = q[k + 1]
  OBVIOUS

LEMMA AppendFacts ==
  ASSUME NEW S, NEW q \in Seq(S), NEW e \in S
  PROVE  /\ Append(q, e) \in Seq(S) /\ Len(Append(q, e)) = Len(q) + 1
         /\ DOMAIN Append(q, e) = DOMAIN q \cup {Len(q) + 1}
         /\ Append(q, e)[Len(q) + 1] = e
         /\ \A k \in DOMAIN q : Append(q, e)[k] = q[k] /\ k < Len(q) + 1
  OBVIOUS

LEMMA MaxIs ==
  ASSUME NEW S \in SUBSET Nat, NEW k \in S, \A j \in S : j <= k
  PROVE  Max(S) = k
<1>1. \A j \in S : k >= j
  OBVIOUS
<1>2. \A j \in S : (\A i \in S : j >= i) => j = k
  OBVIOUS
<1> QED BY <1>1, <1>2 DEF Max

-----------------------------------------------------------------------------
(* What is in the sets the variables range over. *)
LEMMA Members ==
  /\ Updates \subseteq Contents /\ Gone \in Contents /\ Gone \notin Updates /\ None \notin Contents
  /\ Contents \subseteq SomeContent /\ None \in SomeContent
  /\ Maps(Updates) \subseteq OldData /\ NoMap \in OldData
  /\ \A u \in Updates : KindOf[u] \in {"nude", "dressed", "low"}
  /\ \A p \in Players : HomeOf[p] \in Servers
  /\ \A s \in Servers : PlayersOf(s) \subseteq Players
  /\ \A s \in Servers : \A p \in PlayersOf(s) : HomeOf[p] = s
  /\ \A p \in Players : p \in PlayersOf(HomeOf[p])
BY CacheAssumption, NoMapIsAMap DEF CacheAssumption, Contents, SomeContent, OldData, PlayersOf

(* The types of the parts of tasks, and of what the caches hold. *)
LEMMA TaskTypes ==
  ASSUME VarsOK
  PROVE  /\ tasks \in Seq(TaskRecord) /\ Len(tasks) \in Nat /\ DOMAIN tasks = 1..Len(tasks)
         /\ \A k \in DOMAIN tasks :
              /\ tasks[k] \in TaskRecord /\ tasks[k].server \in Servers
              /\ tasks[k].updates \in Maps(Contents)
              /\ tasks[k].at \in {"queued", "underworld", "scrapbook"}
              /\ DOMAIN tasks[k].updates \subseteq Players
<1>1. tasks \in Seq(TaskRecord) /\ Len(tasks) \in Nat /\ DOMAIN tasks = 1..Len(tasks)
  BY DEF VarsOK
<1>2. \A k \in DOMAIN tasks : tasks[k] \in TaskRecord
  BY <1>1
<1>3. \A t \in TaskRecord : /\ t.server \in Servers /\ t.updates \in Maps(Contents)
                            /\ t.at \in {"queued", "underworld", "scrapbook"}
  BY DEF TaskRecord
<1> QED BY <1>1, <1>2, <1>3, MapFacts

LEMMA CacheTypes ==
  ASSUME VarsOK, NEW s \in Servers
  PROVE  /\ nude[s] \in Maps(Updates) /\ info[s] \in Maps(Contents) /\ index[s] \in Indexes
         /\ batch[s] \in Maps(Contents) \cup {None}
         /\ fill[s] \notin {Todo, Done} => fill[s] \in Maps(Updates)
  BY DEF VarsOK

(* A task that goes on keeps its server and its updates. *)
Moved(t, label, data) == [t EXCEPT !.at = label, !.old = data]

LEMMA TaskChanges ==
  ASSUME VarsOK, NEW k \in DOMAIN tasks, NEW label \in {"queued", "underworld", "scrapbook"},
         NEW data \in OldData, tasks' = [tasks EXCEPT ![k] = Moved(tasks[k], label, data)]
  PROVE  /\ tasks' \in Seq(TaskRecord) /\ DOMAIN tasks' = DOMAIN tasks
         /\ tasks'[k].at = label /\ tasks'[k].old = data
         /\ \A j \in DOMAIN tasks : /\ tasks'[j].server = tasks[j].server
                                    /\ tasks'[j].updates = tasks[j].updates
                                    /\ j # k => tasks'[j] = tasks[j]
<1>1. tasks[k] \in TaskRecord /\ tasks \in Seq(TaskRecord)
  BY TaskTypes
<1> DEFINE r == Moved(tasks[k], label, data)
<1>2. r \in TaskRecord
  BY <1>1 DEF TaskRecord, Moved
<1>3. r.at = label /\ r.old = data /\ r.server = tasks[k].server /\ r.updates = tasks[k].updates
  BY <1>1 DEF TaskRecord, Moved
<1> HIDE DEF r
<1>4. tasks' = [tasks EXCEPT ![k] = r]
  BY DEF r
<1>5. tasks' \in Seq(TaskRecord) /\ DOMAIN tasks' = DOMAIN tasks
  BY <1>1, <1>2, <1>4
<1>6. tasks'[k] = r /\ \A j \in DOMAIN tasks : j # k => tasks'[j] = tasks[j]
  BY <1>1, <1>4
<1> QED BY <1>3, <1>5, <1>6

LEMMA AcquireMoves ==
  ASSUME VarsOK, NEW k \in DOMAIN tasks, Acquire(k)
  PROVE  tasks' = [tasks EXCEPT ![k] = Moved(tasks[k], "underworld", nude[tasks[k].server])]
  BY TaskTypes DEF Acquire, Moved

LEMMA UnderworldMoves ==
  ASSUME VarsOK, NEW k \in DOMAIN tasks, UpdateUnderworld(k)
  PROVE  tasks' = [tasks EXCEPT ![k] =
                     Moved(tasks[k], "scrapbook", [info |-> info[tasks[k].server],
                                                   index |-> index[tasks[k].server]])]
  BY TaskTypes DEF UpdateUnderworld, Moved

(* Every variable starts with a value of its kind, and keeps to its kind. *)
LEMMA VarsInit == Init => VarsOK
  BY CacheAssumption, Members, NoMapIsAMap DEF CacheAssumption, Init, VarsOK, SomeContent, Contents

LEMMA SendKeepsVars ==
  ASSUME VarsOK, NEW p \in Players, NEW u \in Contents, sends < MaxSends, Send(p, u)
  PROVE  /\ phase' \in {"off", "starting", "filling", "running", "dead"}
         /\ channel' \in Seq(Players \X Contents) /\ owed' \in [Players -> SomeContent]
         /\ sends' \in 0..MaxSends
         /\ UNCHANGED <<fill, batch, aged, tasks, nude, info, index, raced>>
<1>1. UNCHANGED <<fill, batch, aged, tasks, caches, raced>>
  BY Zenon DEF Send
<1>2. sends' \in 0..MaxSends
  BY CacheAssumption DEF Send, VarsOK, CacheAssumption
<1>3. phase' \in {"off", "starting", "filling", "running", "dead"}
  BY DEF Send, Touch, VarsOK
<1>4. <<p, u>> \in Players \X Contents /\ u \in SomeContent
  BY Members
<1>5. channel' \in Seq(Players \X Contents) /\ owed' \in [Players -> SomeContent]
  <2>1. CASE phase = "dead"
    BY <2>1 DEF Send, VarsOK
  <2>2. CASE phase # "dead"
    <3>1. channel' = Append(channel, <<p, u>>) /\ owed' = [owed EXCEPT ![p] = u]
      BY <2>2 DEF Send
    <3>2. channel' \in Seq(Players \X Contents)
      BY <1>4, <3>1, AppendFacts DEF VarsOK
    <3> QED BY <1>4, <3>1, <3>2 DEF VarsOK
  <2> QED BY <2>1, <2>2
<1> QED BY <1>1, <1>2, <1>3, <1>5 DEF caches

LEMMA VarsStep == VarsOK /\ HomeOK /\ WorkerOK /\ IndexesOK /\ PhaseOK /\ [Next]_vars => VarsOK'
<1> SUFFICES ASSUME VarsOK, HomeOK, WorkerOK, IndexesOK, PhaseOK, [Next]_vars PROVE VarsOK'
  OBVIOUS
<1>1. ASSUME NEW p \in Players, NEW u \in Updates, Report(p, u) PROVE VarsOK'
  <2>1. open' \in [Players -> SomeContent] /\ db' = db /\ Send(p, u) /\ sends < MaxSends
    BY <1>1, Members DEF Report, VarsOK
  <2> QED BY <2>1, SendKeepsVars, Members DEF VarsOK
<1>2. ASSUME NEW p \in Players, Conclude(p) PROVE VarsOK'
  <2>1. open[p] \in SomeContent /\ Gone \in SomeContent /\ None \in SomeContent
    BY Members DEF VarsOK
  <2>2. open' \in [Players -> SomeContent] /\ db' \in [Players -> SomeContent]
    BY <1>2, <2>1 DEF Conclude, VarsOK
  <2> QED BY <1>2, <2>2 DEF Conclude, VarsOK, life, caches
<1>3. ASSUME NEW p \in Players, FlagRemoved(p) PROVE VarsOK'
  <2>1. Gone \in SomeContent
    BY Members
  <2>2. open' \in [Players -> SomeContent] /\ db' \in [Players -> SomeContent]
    BY <1>3, <2>1 DEF FlagRemoved, VarsOK
  <2> QED BY <1>3, <2>2 DEF FlagRemoved, VarsOK, life, caches
<1>4. ASSUME NEW p \in Players, AnnounceRemoved(p) PROVE VarsOK'
  <2>1. open' \in [Players -> SomeContent] /\ db' = db /\ Send(p, Gone) /\ sends < MaxSends
    BY <1>4, Members DEF AnnounceRemoved, VarsOK
  <2> QED BY <2>1, SendKeepsVars, Members DEF VarsOK
<1>5. CASE Advise
  BY <1>5 DEF Advise, Touch, VarsOK, caches
<1>6. CASE ListServers
  BY <1>6 DEF ListServers, VarsOK, caches
<1>7. CASE StartFails
  BY <1>7, Members DEF StartFails, VarsOK, caches
<1>8. ASSUME NEW s \in Servers, Fetch(s) PROVE VarsOK'
  <2> DEFINE S == {q \in PlayersOf(s) : db[q] \in Updates}
             m == [p \in S |-> db[p]]
  <2>1. S \in SUBSET Players /\ m \in [S -> Updates]
    BY Members
  <2>2. m \in Maps(Updates)
    BY <2>1, IsAMap
  <2>3. fill' = [fill EXCEPT ![s] = m]
    BY <1>8 DEF Fetch
  <2> HIDE DEF m
  <2>4. fill' \in [Servers -> Maps(Updates) \cup {Todo, Done}]
    BY <2>2, <2>3 DEF VarsOK
  <2> QED BY <1>8, <2>4 DEF Fetch, VarsOK, caches
<1>9. ASSUME NEW s \in Servers, FetchFails(s) PROVE VarsOK'
  BY <1>9 DEF FetchFails, VarsOK, caches
<1>10. ASSUME NEW s \in Servers, Store(s) PROVE VarsOK'
  <2>1. /\ nude[s] \in Maps(Updates) /\ info[s] \in Maps(Contents) /\ index[s] \in Indexes
        /\ fill[s] \in Maps(Updates) /\ fill[s] \in Maps(Contents)
    BY <1>10, CacheTypes, UpdatesAreContents DEF Store
  <2>2. /\ NudeAfter(nude[s], fill[s]) \in Maps(Updates)
        /\ InfoAfter(info[s], fill[s]) \in Maps(Contents)
        /\ IndexAfter(index[s], fill[s]) \in Indexes
    BY <2>1, NudeFacts, InfoFacts, IndexAfterFacts DEF IndexesOK
  <2>3. /\ nude' \in [Servers -> Maps(Updates)] /\ info' \in [Servers -> Maps(Contents)]
        /\ index' \in [Servers -> Indexes] /\ fill' \in [Servers -> Maps(Updates) \cup {Todo, Done}]
    BY <1>10, <2>2 DEF Store, VarsOK
  <2> QED BY <1>10, <2>3 DEF Store, VarsOK
<1>11. CASE Filled
  BY <1>11 DEF Filled, VarsOK, caches
<1>12. CASE Receive
  <2>1. /\ channel' = Tail(channel) /\ channel # <<>> /\ channel' \in Seq(Players \X Contents)
        /\ channel[1] \in Players \X Contents
    BY <1>12, TailFacts DEF Receive, VarsOK
  <2> DEFINE p == channel[1][1]
             s == HomeOf[p]
             merged == Merged(IF batch[s] = None THEN NoMap ELSE batch[s], p, channel[1][2])
             ripe == aged[s] \/ Cardinality(DOMAIN merged) >= BatchSize
  <2>2. p \in Players /\ s \in Servers /\ channel[1][2] \in Contents
    BY <2>1, Members
  <2>3. merged \in Maps(Contents)
    BY <2>2, CacheTypes, NoMapIsAMap, MergedFacts
  <2>4. /\ batch' = [batch EXCEPT ![s] = IF ripe THEN NoMap ELSE merged]
        /\ tasks' = IF ripe THEN Append(tasks, Task(s, merged)) ELSE tasks
        /\ aged' = [aged EXCEPT ![s] = FALSE]
        /\ UNCHANGED <<db, open, life, caches, sends, owed, raced>>
    BY <1>12, Zenon DEF Receive
  <2> HIDE DEF merged, ripe, p, s
  <2>5. Task(s, merged) \in TaskRecord
    BY <2>2, <2>3, Members DEF Task, TaskRecord
  <2>6. tasks' \in Seq(TaskRecord)
    BY <2>4, <2>5 DEF VarsOK
  <2>7. batch' \in [Servers -> Maps(Contents) \cup {None}]
    BY <2>3, <2>4, NoMapIsAMap DEF VarsOK
  <2> QED BY <2>1, <2>4, <2>6, <2>7 DEF VarsOK, life, caches
<1>13. CASE Restart
  BY <1>13, Members, NoMapIsAMap DEF Restart, VarsOK
<1>14. ASSUME NEW s \in Servers, Age(s) PROVE VarsOK'
  BY <1>14 DEF Age, VarsOK, life, caches
<1>15. ASSUME NEW k \in DOMAIN tasks, Acquire(k) PROVE VarsOK'
  <2>1. tasks[k].server \in Servers /\ nude[tasks[k].server] \in OldData
    BY TaskTypes, CacheTypes, Members
  <2>3. tasks' \in Seq(TaskRecord)
    BY <1>15, <2>1, AcquireMoves, TaskChanges
  <2>4. raced' \in [Servers -> BOOLEAN]
    BY <1>15, <2>1 DEF Acquire, VarsOK
  <2> QED BY <1>15, <2>3, <2>4 DEF Acquire, VarsOK, life, caches
<1>16. ASSUME NEW k \in DOMAIN tasks, UpdateUnderworld(k) PROVE VarsOK'
  <2> DEFINE s == tasks[k].server
             saved == [info |-> info[s], index |-> index[s]]
  <2>1. /\ s \in Servers /\ tasks[k].old = nude[s] /\ nude[s] \in Maps(Updates)
        /\ tasks[k].updates \in Maps(Contents) /\ info[s] \in Maps(Contents) /\ index[s] \in Indexes
    BY <1>16, TaskTypes, CacheTypes DEF UpdateUnderworld, WorkerOK
  <2>2. saved \in OldData
    BY <2>1 DEF OldData, Saved
  <2>4. tasks' \in Seq(TaskRecord)
    BY <1>16, <2>2, UnderworldMoves, TaskChanges
  <2>5. nude' = [nude EXCEPT ![s] = NudeAfter(nude[s], tasks[k].updates)]
    BY <1>16, <2>1 DEF UpdateUnderworld
  <2>6. nude' \in [Servers -> Maps(Updates)]
    BY <2>1, <2>5, NudeFacts DEF VarsOK
  <2> QED BY <1>16, <2>4, <2>6 DEF UpdateUnderworld, VarsOK, life
<1>17. ASSUME NEW k \in DOMAIN tasks, UpdateScrapbook(k) PROVE VarsOK'
  <2> DEFINE s == tasks[k].server
  <2>0. tasks[k].old = [info |-> info[s], index |-> index[s]]
    BY <1>17 DEF UpdateScrapbook, WorkerOK
  <2>1. /\ s \in Servers /\ tasks[k].old.info = info[s] /\ tasks[k].old.index = index[s]
        /\ tasks[k].updates \in Maps(Contents) /\ info[s] \in Maps(Contents) /\ index[s] \in Indexes
    BY <2>0, TaskTypes, CacheTypes
  <2>2. /\ info' = [info EXCEPT ![s] = InfoAfter(info[s], tasks[k].updates)]
        /\ index' = [index EXCEPT ![s] = IndexAfter(index[s], tasks[k].updates)]
    BY <1>17, <2>1 DEF UpdateScrapbook
  <2>3. /\ InfoAfter(info[s], tasks[k].updates) \in Maps(Contents)
        /\ IndexAfter(index[s], tasks[k].updates) \in Indexes
    BY <2>1, InfoFacts, IndexAfterFacts DEF IndexesOK
  <2>4. info' \in [Servers -> Maps(Contents)] /\ index' \in [Servers -> Indexes]
    BY <2>2, <2>3 DEF VarsOK
  <2>5. tasks' \in Seq(TaskRecord)
    BY <1>17, TaskTypes, RemoveAtFacts DEF UpdateScrapbook
  <2> QED BY <1>17, <2>4, <2>5 DEF UpdateScrapbook, VarsOK, life
<1>18. CASE UNCHANGED vars
  BY <1>18 DEF vars, life, caches, VarsOK
<1> QED BY <1>1, <1>2, <1>3, <1>4, <1>5, <1>6, <1>7, <1>8, <1>9, <1>10, <1>11, <1>12, <1>13,
           <1>14, <1>15, <1>16, <1>17, <1>18 DEF Next, Work

-----------------------------------------------------------------------------
(* What the steps that have more than one effect do. *)

(* Sending wakes the receiver; nothing is sent once it has died. *)
LEMMA SendFacts ==
  ASSUME NEW p \in Players, NEW u \in Contents, Send(p, u)
  PROVE  /\ phase' = IF phase = "off" THEN "starting" ELSE phase
         /\ phase = "dead" => channel' = channel /\ owed' = owed
         /\ phase # "dead" => channel' = Append(channel, <<p, u>>) /\ owed' = [owed EXCEPT ![p] = u]
         /\ UNCHANGED <<fill, batch, aged, tasks, nude, info, index, raced>>
<1>1. UNCHANGED <<fill, batch, aged, tasks, caches, raced>>
  BY Zenon DEF Send
<1>2. /\ phase' = IF phase = "off" THEN "starting" ELSE phase
      /\ phase = "dead" => channel' = channel /\ owed' = owed
      /\ phase # "dead" => channel' = Append(channel, <<p, u>>) /\ owed' = [owed EXCEPT ![p] = u]
  BY DEF Send, Touch
<1> QED BY <1>1, <1>2 DEF caches

(* Only servers that are being filled are stored, before any update is received. *)
LEMMA StoreFacts ==
  ASSUME VarsOK, PhaseOK, HomeOK, NEW s \in Servers, Store(s)
  PROVE  /\ phase = "filling" /\ tasks = <<>> /\ DOMAIN tasks = {}
         /\ fill[s] \in Maps(Updates) /\ fill[s] \in Maps(Contents) /\ DOMAIN fill[s] \subseteq PlayersOf(s)
         /\ nude' = [nude EXCEPT ![s] = NudeAfter(nude[s], fill[s])]
         /\ info' = [info EXCEPT ![s] = InfoAfter(info[s], fill[s])]
         /\ index' = [index EXCEPT ![s] = IndexAfter(index[s], fill[s])]
         /\ fill' = [fill EXCEPT ![s] = Done]
         /\ UNCHANGED <<db, open, phase, channel, batch, aged, tasks, sends, owed, raced>>
<1>1. fill[s] \notin {Todo, Done}
  BY DEF Store
<1>2. phase = "filling"
  BY <1>1 DEF PhaseOK
<1>3. tasks = <<>> /\ DOMAIN tasks = {}
  BY <1>2 DEF PhaseOK
<1>4. DOMAIN fill[s] \subseteq PlayersOf(s) /\ fill[s] \in Maps(Updates)
  BY <1>1, CacheTypes DEF HomeOK
<1> QED BY <1>2, <1>3, <1>4, UpdatesAreContents DEF Store

(* The update at the head of the channel joins the batch of its server, or *)
(* that batch becomes a task and a new one is begun.                       *)
Received(p, u, m) ==
  /\ phase = "running" /\ channel # <<>> /\ channel[1][1] = p /\ channel[1][2] = u
  /\ channel' = Tail(channel)
  /\ m[p] = u /\ p \in DOMAIN m /\ DOMAIN m \subseteq PlayersOf(HomeOf[p])
  /\ batch[HomeOf[p]] = None => DOMAIN m = {p}
  /\ batch[HomeOf[p]] # None =>
       /\ DOMAIN m = DOMAIN batch[HomeOf[p]] \cup {p}
       /\ \A q \in DOMAIN batch[HomeOf[p]] : q # p => m[q] = batch[HomeOf[p]][q]
  /\ \/ /\ tasks' = Append(tasks, Task(HomeOf[p], m))
        /\ batch' = [batch EXCEPT ![HomeOf[p]] = NoMap]
     \/ /\ tasks' = tasks /\ batch' = [batch EXCEPT ![HomeOf[p]] = m]
        /\ Cardinality(DOMAIN m) < BatchSize
  /\ aged' = [aged EXCEPT ![HomeOf[p]] = FALSE]
  /\ UNCHANGED <<db, open, phase, fill, nude, info, index, sends, owed, raced>>

LEMMA ReceiveFacts ==
  ASSUME VarsOK, HomeOK, Receive
  PROVE  \E p \in Players, u \in Contents, m \in Maps(Contents) : Received(p, u, m)
<1> DEFINE p == channel[1][1]
           u == channel[1][2]
           s == HomeOf[p]
           old == IF batch[s] = None THEN NoMap ELSE batch[s]
           m == Merged(old, p, u)
           ripe == aged[s] \/ Cardinality(DOMAIN m) >= BatchSize
<1>1. /\ phase = "running" /\ channel # <<>> /\ channel' = Tail(channel)
      /\ batch' = [batch EXCEPT ![s] = IF ripe THEN NoMap ELSE m]
      /\ aged' = [aged EXCEPT ![s] = FALSE]
      /\ tasks' = IF ripe THEN Append(tasks, Task(s, m)) ELSE tasks
      /\ UNCHANGED <<db, open, life, caches, sends, owed, raced>>
  BY Zenon DEF Receive
<1>2. p \in Players /\ u \in Contents /\ s \in Servers
  BY <1>1, TailFacts, Members DEF VarsOK
<1>3. old \in Maps(Contents) /\ DOMAIN old \subseteq PlayersOf(s)
  BY <1>2, CacheTypes, NoMapIsAMap DEF HomeOK
<1> HIDE DEF p, u, s, m, old
<1>4. /\ m \in Maps(Contents) /\ DOMAIN m = DOMAIN old \cup {p} /\ m[p] = u
      /\ \A q \in DOMAIN old : q # p => m[q] = old[q]
  BY <1>2, <1>3, MergedFacts DEF m
<1>5. DOMAIN m \subseteq PlayersOf(s)
  BY <1>2, <1>3, <1>4, Members DEF s
<1>6. Cardinality(DOMAIN m) \in Nat /\ BatchSize \in Nat
  <2>1. IsFiniteSet(DOMAIN m)
    BY <1>4, MapFacts, FS_Subset, CacheAssumption DEF CacheAssumption
  <2> QED BY <2>1, FS_CardinalityType, CacheAssumption DEF CacheAssumption
<1>7. \/ tasks' = Append(tasks, Task(s, m)) /\ batch' = [batch EXCEPT ![s] = NoMap]
      \/ /\ tasks' = tasks /\ batch' = [batch EXCEPT ![s] = m]
         /\ Cardinality(DOMAIN m) < BatchSize
  <2>1. CASE ripe
    BY <1>1, <2>1
  <2>2. CASE ~ripe
    BY <1>1, <1>6, <2>2
  <2> QED BY <2>1, <2>2
<1>8. UNCHANGED <<db, open, phase, fill, nude, info, index, sends, owed, raced>>
  BY <1>1 DEF life, caches
<1>9. /\ batch[s] = None => DOMAIN m = {p}
      /\ batch[s] # None => /\ DOMAIN m = DOMAIN batch[s] \cup {p}
                            /\ \A q \in DOMAIN batch[s] : q # p => m[q] = batch[s][q]
  BY <1>4, NoMapIsAMap DEF old
<1> HIDE DEF ripe
<1>10. s = HomeOf[p] /\ channel[1][1] = p /\ channel[1][2] = u
  BY DEF s, p, u
<1>11. /\ phase = "running" /\ channel # <<>> /\ channel' = Tail(channel)
       /\ aged' = [aged EXCEPT ![s] = FALSE] /\ m[p] = u /\ p \in DOMAIN m
  BY <1>1, <1>4
<1>12. Received(p, u, m)
  BY <1>1, <1>4, <1>5, <1>7, <1>8, <1>9, <1>10, <1>11 DEF Received
<1> QED BY <1>2, <1>4, <1>12

(* The task that becomes the worker had to queue, as all others still do. *)
LEMMA AcquireFacts ==
  ASSUME VarsOK, NEW k \in DOMAIN tasks, Acquire(k)
  PROVE  /\ \A j \in DOMAIN tasks : tasks[j].at = "queued"
         /\ DOMAIN tasks' = DOMAIN tasks
         /\ tasks'[k].at = "underworld" /\ tasks'[k].old = nude[tasks[k].server]
         /\ \A j \in DOMAIN tasks : /\ tasks'[j].server = tasks[j].server
                                    /\ tasks'[j].updates = tasks[j].updates
                                    /\ j # k => tasks'[j] = tasks[j]
         /\ \A s \in Servers : s # tasks[k].server => raced'[s] = raced[s]
         /\ \A s \in Servers : raced[s] => raced'[s]
         /\ raced'[tasks[k].server] \/ \A j \in 1..(k - 1) : tasks[j].server # tasks[k].server
         /\ UNCHANGED <<db, open, phase, fill, channel, batch, aged, nude, info, index, sends, owed>>
<1>1. tasks[k].server \in Servers /\ nude[tasks[k].server] \in OldData /\ k \in 1..Len(tasks)
      /\ DOMAIN tasks = 1..Len(tasks)
  BY TaskTypes, CacheTypes, Members
<1>2. \A j \in DOMAIN tasks : tasks[j].at = "queued"
  BY DEF Acquire, SemFree
<1>3. /\ DOMAIN tasks' = DOMAIN tasks
      /\ tasks'[k].at = "underworld" /\ tasks'[k].old = nude[tasks[k].server]
      /\ \A j \in DOMAIN tasks : /\ tasks'[j].server = tasks[j].server
                                 /\ tasks'[j].updates = tasks[j].updates
                                 /\ j # k => tasks'[j] = tasks[j]
  BY <1>1, AcquireMoves, TaskChanges
<1>4. raced' = [raced EXCEPT ![tasks[k].server] =
                  @ \/ \E j \in 1..(k - 1) : /\ tasks[j].server = tasks[k].server
                                            /\ tasks[j].at = "queued"]
  BY DEF Acquire
<1>5. /\ \A s \in Servers : s # tasks[k].server => raced'[s] = raced[s]
      /\ \A s \in Servers : raced[s] => raced'[s]
      /\ raced'[tasks[k].server] \/ \A j \in 1..(k - 1) : tasks[j].server # tasks[k].server
  <2> DEFINE passed == \E j \in 1..(k - 1) : /\ tasks[j].server = tasks[k].server
                                           /\ tasks[j].at = "queued"
  <2>1. raced' = [raced EXCEPT ![tasks[k].server] = @ \/ passed]
    BY <1>4
  <2>2. passed \/ \A j \in 1..(k - 1) : tasks[j].server # tasks[k].server
    BY <1>1, <1>2
  <2> HIDE DEF passed
  <2>3. raced \in [Servers -> BOOLEAN]
    BY DEF VarsOK
  <2>4. raced'[tasks[k].server] = (raced[tasks[k].server] \/ passed)
    BY <1>1, <2>1, <2>3, Zenon
  <2>5. \A s \in Servers : s # tasks[k].server => raced'[s] = raced[s]
    BY <1>1, <2>1, <2>3, Zenon
  <2> QED BY <1>1, <2>2, <2>4, <2>5, Zenon
<1>6. UNCHANGED <<db, open, life, channel, batch, aged, caches, sends, owed>>
  BY Zenon DEF Acquire
<1> QED BY <1>2, <1>3, <1>5, <1>6 DEF life, caches

(* The worker has written the one cache and read the other. *)
LEMMA UnderworldFacts ==
  ASSUME VarsOK, WorkerOK, NEW k \in DOMAIN tasks, UpdateUnderworld(k)
  PROVE  /\ \A j \in DOMAIN tasks : j # k => tasks[j].at = "queued"
         /\ tasks[k].at = "underworld"
         /\ DOMAIN tasks' = DOMAIN tasks
         /\ tasks'[k].at = "scrapbook"
         /\ tasks'[k].old = [info |-> info[tasks[k].server], index |-> index[tasks[k].server]]
         /\ \A j \in DOMAIN tasks : /\ tasks'[j].server = tasks[j].server
                                    /\ tasks'[j].updates = tasks[j].updates
                                    /\ j # k => tasks'[j] = tasks[j]
         /\ nude' = [nude EXCEPT ![tasks[k].server] =
                       NudeAfter(nude[tasks[k].server], tasks[k].updates)]
         /\ UNCHANGED <<db, open, phase, fill, channel, batch, aged, info, index, sends, owed, raced>>
<1> DEFINE s == tasks[k].server
<1>1. tasks[k].at = "underworld"
  BY DEF UpdateUnderworld
<1>2. tasks[k].old = nude[s] /\ \A j \in DOMAIN tasks : j # k => tasks[j].at = "queued"
  BY <1>1 DEF WorkerOK
<1>3. info[s] \in Maps(Contents) /\ index[s] \in Indexes
  BY TaskTypes, CacheTypes
<1> DEFINE saved == [info |-> info[s], index |-> index[s]]
<1>4. saved \in OldData
  BY <1>3 DEF OldData, Saved
<1>4a. tasks' = [tasks EXCEPT ![k] = Moved(tasks[k], "scrapbook", saved)]
  BY UnderworldMoves
<1> HIDE DEF saved
<1>5. /\ DOMAIN tasks' = DOMAIN tasks
      /\ tasks'[k].at = "scrapbook" /\ tasks'[k].old = saved
      /\ \A j \in DOMAIN tasks : /\ tasks'[j].server = tasks[j].server
                                 /\ tasks'[j].updates = tasks[j].updates
                                 /\ j # k => tasks'[j] = tasks[j]
  BY <1>4, <1>4a, TaskChanges
<1>6. nude' = [nude EXCEPT ![s] = NudeAfter(nude[s], tasks[k].updates)]
  BY <1>2 DEF UpdateUnderworld
<1>7. UNCHANGED <<db, open, life, channel, batch, aged, info, index, sends, owed, raced>>
  BY Zenon DEF UpdateUnderworld
<1> QED BY <1>1, <1>2, <1>5, <1>6, <1>7 DEF life, saved

(* The worker has written the other cache too and left; the rest queue. *)
OldPlace(j, k) == IF j < k THEN j ELSE j + 1

LEMMA ScrapbookFacts ==
  ASSUME VarsOK, WorkerOK, NEW k \in DOMAIN tasks, UpdateScrapbook(k)
  PROVE  /\ tasks[k].at = "scrapbook"
         /\ \A j \in DOMAIN tasks : j # k => tasks[j].at = "queued"
         /\ \A j \in DOMAIN tasks' :
              /\ OldPlace(j, k) \in DOMAIN tasks \ {k}
              /\ tasks'[j] = tasks[OldPlace(j, k)]
         /\ \A i \in DOMAIN tasks \ {k} : \E j \in DOMAIN tasks' : OldPlace(j, k) = i
         /\ info' = [info EXCEPT ![tasks[k].server] =
                       InfoAfter(info[tasks[k].server], tasks[k].updates)]
         /\ index' = [index EXCEPT ![tasks[k].server] =
                        IndexAfter(index[tasks[k].server], tasks[k].updates)]
         /\ UNCHANGED <<db, open, phase, fill, channel, batch, aged, nude, sends, owed, raced>>
<1> DEFINE s == tasks[k].server
<1>1. tasks[k].at = "scrapbook"
  BY DEF UpdateScrapbook
<1>2. /\ tasks[k].old = [info |-> info[s], index |-> index[s]]
      /\ \A j \in DOMAIN tasks : j # k => tasks[j].at = "queued"
  BY <1>1 DEF WorkerOK
<1>3. tasks[k].old.info = info[s] /\ tasks[k].old.index = index[s]
  BY <1>2
<1>4. /\ info' = [info EXCEPT ![s] = InfoAfter(info[s], tasks[k].updates)]
      /\ index' = [index EXCEPT ![s] = IndexAfter(index[s], tasks[k].updates)]
  BY <1>3 DEF UpdateScrapbook
<1>5. UNCHANGED <<db, open, life, channel, batch, aged, nude, sends, owed, raced>>
  BY Zenon DEF UpdateScrapbook
<1>6. /\ tasks \in Seq(TaskRecord) /\ Len(tasks) \in Nat /\ k \in 1..Len(tasks)
      /\ DOMAIN tasks = 1..Len(tasks) /\ tasks' = RemoveAt(tasks, k)
  BY TaskTypes DEF UpdateScrapbook
<1>7. /\ tasks' \in Seq(TaskRecord) /\ Len(tasks') = Len(tasks) - 1
      /\ \A j \in 1..(Len(tasks) - 1) : tasks'[j] = IF j < k THEN tasks[j] ELSE tasks[j + 1]
  BY <1>6, RemoveAtFacts, Zenon
<1>8. DOMAIN tasks' = 1..(Len(tasks) - 1)
  BY <1>7
<1>9. \A j \in DOMAIN tasks' : OldPlace(j, k) \in DOMAIN tasks \ {k} /\ tasks'[j] = tasks[OldPlace(j, k)]
  BY <1>6, <1>7, <1>8 DEF OldPlace
<1>10. ASSUME NEW i \in DOMAIN tasks \ {k} PROVE \E j \in DOMAIN tasks' : OldPlace(j, k) = i
  <2>1. CASE i < k
    BY <1>6, <1>8, <2>1 DEF OldPlace
  <2>2. CASE i > k
    <3>1. i - 1 \in DOMAIN tasks' /\ OldPlace(i - 1, k) = i
      BY <1>6, <1>8, <2>2 DEF OldPlace
    <3> QED BY <3>1
  <2> QED BY <1>6, <2>1, <2>2
<1> QED BY <1>1, <1>2, <1>4, <1>5, <1>9, <1>10 DEF life

-----------------------------------------------------------------------------
(* Updates that are only sent, and the caches, through the steps. *)

(* Nothing exists before the receiver starts, or survives it. *)
LEMMA PhaseStep == VarsOK /\ PhaseOK /\ HomeOK /\ WorkerOK /\ [Next]_vars => PhaseOK'
<1> SUFFICES ASSUME VarsOK, PhaseOK, HomeOK, WorkerOK, [Next]_vars PROVE PhaseOK'
  OBVIOUS
<1>1. ASSUME NEW p \in Players, NEW u \in Contents, Send(p, u) PROVE PhaseOK'
  <2>1. CASE phase = "dead"
    BY <1>1, <2>1, SendFacts DEF PhaseOK
  <2>2. CASE phase # "dead"
    <3>1. phase' \notin {"off", "dead"}
          /\ UNCHANGED <<fill, batch, tasks, nude, info, index>>
          /\ phase' = IF phase = "off" THEN "starting" ELSE phase
      BY <1>1, <2>2, SendFacts
    <3> QED BY <3>1 DEF PhaseOK
  <2> QED BY <2>1, <2>2
<1>2. ASSUME NEW p \in Players, NEW u \in Updates, Report(p, u) PROVE PhaseOK'
  BY <1>1, <1>2, Members DEF Report
<1>3. ASSUME NEW p \in Players, AnnounceRemoved(p) PROVE PhaseOK'
  BY <1>1, <1>3, Members DEF AnnounceRemoved
<1>4. ASSUME NEW p \in Players, Conclude(p) \/ FlagRemoved(p) PROVE PhaseOK'
  BY <1>4 DEF Conclude, FlagRemoved, PhaseOK, life, caches
<1>5. CASE Advise
  BY <1>5 DEF Advise, Touch, PhaseOK, caches
<1>6. CASE ListServers
  BY <1>6 DEF ListServers, PhaseOK, caches
<1>7. CASE StartFails
  BY <1>7 DEF StartFails, PhaseOK, caches
<1>8. ASSUME NEW s \in Servers, Fetch(s) \/ FetchFails(s) PROVE PhaseOK'
  <2>1. UNCHANGED <<phase, channel, batch, tasks, nude, info, index, owed>> /\ phase = "filling"
    BY <1>8 DEF Fetch, FetchFails, caches
  <2> QED BY <2>1 DEF PhaseOK
<1>9. ASSUME NEW s \in Servers, Store(s) PROVE PhaseOK'
  <2>1. UNCHANGED <<phase, batch, tasks>> /\ phase = "filling"
    BY <1>9, StoreFacts
  <2> QED BY <2>1 DEF PhaseOK
<1>10. CASE Filled
  BY <1>10 DEF Filled, PhaseOK, caches
<1>11. CASE Receive
  <2>1. phase = "running" /\ UNCHANGED <<phase, fill>>
    BY <1>11, ReceiveFacts DEF Received
  <2> QED BY <2>1 DEF PhaseOK
<1>12. CASE Restart
  BY <1>12 DEF Restart, PhaseOK
<1>13. ASSUME NEW s \in Servers, Age(s) PROVE PhaseOK'
  BY <1>13 DEF Age, PhaseOK, life, caches
<1>14. ASSUME NEW k \in DOMAIN tasks, Work(k) PROVE PhaseOK'
  <2>1. UNCHANGED <<phase, fill>>
    BY <1>14, AcquireFacts, UnderworldFacts, ScrapbookFacts DEF Work
  <2>2. phase = "running"
    <3>1. tasks # <<>>
      BY <1>14
    <3> QED BY <3>1 DEF PhaseOK
  <2> QED BY <2>1, <2>2 DEF PhaseOK
<1>15. CASE UNCHANGED vars
  BY <1>15 DEF vars, life, caches, PhaseOK
<1> QED BY <1>2, <1>3, <1>4, <1>5, <1>6, <1>7, <1>8, <1>9, <1>10, <1>11, <1>12, <1>13,
           <1>14, <1>15 DEF Next

(* Players stay with their server wherever they are. *)
LEMMA HomeStep == VarsOK /\ PhaseOK /\ HomeOK /\ WorkerOK /\ [Next]_vars => HomeOK'
<1> SUFFICES ASSUME VarsOK, PhaseOK, HomeOK, WorkerOK, [Next]_vars PROVE HomeOK'
  OBVIOUS
<1>1. ASSUME NEW p \in Players, NEW u \in Contents, Send(p, u) PROVE HomeOK'
  BY <1>1, SendFacts DEF HomeOK
<1>2. ASSUME NEW p \in Players, NEW u \in Updates, Report(p, u) PROVE HomeOK'
  BY <1>1, <1>2, Members DEF Report
<1>3. ASSUME NEW p \in Players, AnnounceRemoved(p) PROVE HomeOK'
  BY <1>1, <1>3, Members DEF AnnounceRemoved
<1>4. ASSUME NEW p \in Players, Conclude(p) \/ FlagRemoved(p) PROVE HomeOK'
  BY <1>4 DEF Conclude, FlagRemoved, HomeOK, life, caches
<1>5. CASE Advise \/ Filled \/ StartFails
  BY <1>5 DEF Advise, Filled, StartFails, HomeOK, caches
<1>6. CASE ListServers
  BY <1>6 DEF ListServers, HomeOK, caches
<1>7. ASSUME NEW s \in Servers, Fetch(s) PROVE HomeOK'
  <2> DEFINE S == {q \in PlayersOf(s) : db[q] \in Updates}
  <2>1. fill' = [fill EXCEPT ![s] = [p \in S |-> db[p]]] /\ S \subseteq PlayersOf(s)
        /\ UNCHANGED <<batch, aged, tasks, info>>
    BY <1>7 DEF Fetch, caches
  <2> HIDE DEF S
  <2>2. \A r \in Servers : fill'[r] \notin {Todo, Done} => DOMAIN fill'[r] \subseteq PlayersOf(r)
    BY <2>1 DEF HomeOK, VarsOK
  <2> QED BY <2>1, <2>2 DEF HomeOK
<1>8. ASSUME NEW s \in Servers, FetchFails(s) PROVE HomeOK'
  <2>1. fill' = [fill EXCEPT ![s] = Done] /\ UNCHANGED <<batch, aged, tasks, info>>
    BY <1>8 DEF FetchFails, caches
  <2> QED BY <2>1 DEF HomeOK, VarsOK
<1>9. ASSUME NEW s \in Servers, Store(s) PROVE HomeOK'
  <2>1. /\ fill' = [fill EXCEPT ![s] = Done] /\ UNCHANGED <<batch, aged, tasks>>
        /\ info' = [info EXCEPT ![s] = InfoAfter(info[s], fill[s])]
        /\ DOMAIN fill[s] \subseteq PlayersOf(s)
        /\ DOMAIN InfoAfter(info[s], fill[s]) = DOMAIN info[s] \cup DOMAIN fill[s]
    BY <1>9, StoreFacts, CacheTypes, InfoFacts
  <2>2. \A r \in Servers : DOMAIN info'[r] \subseteq PlayersOf(r)
    BY <2>1 DEF HomeOK, VarsOK
  <2>3. \A r \in Servers : fill'[r] \notin {Todo, Done} => DOMAIN fill'[r] \subseteq PlayersOf(r)
    BY <2>1 DEF HomeOK, VarsOK
  <2> QED BY <2>1, <2>2, <2>3 DEF HomeOK
<1>10. CASE Receive
  <2>0. PICK p \in Players, u \in Contents, m \in Maps(Contents) : Received(p, u, m)
    BY <1>10, ReceiveFacts
  <2>1. /\ p \in DOMAIN m /\ DOMAIN m \subseteq PlayersOf(HomeOf[p])
        /\ \/ /\ tasks' = Append(tasks, Task(HomeOf[p], m))
              /\ batch' = [batch EXCEPT ![HomeOf[p]] = NoMap]
           \/ /\ tasks' = tasks /\ batch' = [batch EXCEPT ![HomeOf[p]] = m]
              /\ Cardinality(DOMAIN m) < BatchSize
        /\ aged' = [aged EXCEPT ![HomeOf[p]] = FALSE]
        /\ UNCHANGED <<fill, info>>
    BY <2>0 DEF Received
  <2> DEFINE s == HomeOf[p]
  <2>2. s \in Servers /\ m # None /\ NoMap # None
    BY Members, MapIsData, NoMapIsAMap
  <2>3. Cardinality(DOMAIN NoMap) < BatchSize
    BY NoMapIsAMap, FS_EmptySet, CacheAssumption DEF CacheAssumption
  <2>4. ASSUME NEW b \in {m, NoMap}, batch' = [batch EXCEPT ![s] = b], Cardinality(DOMAIN b) < BatchSize
        PROVE  \A r \in Servers :
                 /\ batch'[r] # None => /\ DOMAIN batch'[r] \subseteq PlayersOf(r)
                                        /\ Cardinality(DOMAIN batch'[r]) < BatchSize
                 /\ batch'[r] = None => ~aged'[r]
    <3>1. DOMAIN b \subseteq PlayersOf(s) /\ b # None
      BY <2>1, <2>2, NoMapIsAMap
    <3> HIDE DEF s
    <3>2. aged' = [aged EXCEPT ![s] = FALSE]
      BY <2>1 DEF s
    <3> QED BY <2>2, <2>4, <3>1, <3>2 DEF HomeOK, VarsOK
  <2>5. \A r \in Servers :
           /\ batch'[r] # None => /\ DOMAIN batch'[r] \subseteq PlayersOf(r)
                                  /\ Cardinality(DOMAIN batch'[r]) < BatchSize
           /\ batch'[r] = None => ~aged'[r]
    BY <2>1, <2>3, <2>4
  <2>6. \A k \in DOMAIN tasks' : DOMAIN tasks'[k].updates \subseteq PlayersOf(tasks'[k].server)
    <3>1. CASE tasks' = tasks
      BY <3>1 DEF HomeOK
    <3>2. CASE tasks' = Append(tasks, Task(s, m))
      <4> DEFINE t == Task(s, m)
      <4>1. t.server = s /\ t.updates = m
        BY DEF Task
      <4> HIDE DEF t, s
      <4>2. tasks' = Append(tasks, t) /\ tasks \in Seq(TaskRecord)
        BY <3>2, TaskTypes DEF t
      <4>3. DOMAIN m \subseteq PlayersOf(s)
        BY <2>1 DEF s
      <4> QED BY <4>1, <4>2, <4>3 DEF HomeOK
    <3> QED BY <2>1, <3>1, <3>2
  <2> QED BY <2>1, <2>5, <2>6 DEF HomeOK
<1>11. CASE Restart
  BY <1>11, NoMapIsAMap DEF Restart, HomeOK
<1>12. ASSUME NEW s \in Servers, Age(s) PROVE HomeOK'
  BY <1>12 DEF Age, HomeOK, VarsOK, life, caches
<1>13. ASSUME NEW k \in DOMAIN tasks, Acquire(k) PROVE HomeOK'
  BY <1>13, AcquireFacts DEF HomeOK
<1>14. ASSUME NEW k \in DOMAIN tasks, UpdateUnderworld(k) PROVE HomeOK'
  <2>1. /\ UNCHANGED <<fill, batch, aged, info>> /\ DOMAIN tasks' = DOMAIN tasks
        /\ \A j \in DOMAIN tasks : /\ tasks'[j].server = tasks[j].server
                                   /\ tasks'[j].updates = tasks[j].updates
    BY <1>14, UnderworldFacts
  <2> QED BY <2>1 DEF HomeOK
<1>15. ASSUME NEW k \in DOMAIN tasks, UpdateScrapbook(k) PROVE HomeOK'
  <2> DEFINE s == tasks[k].server
  <2>1. /\ s \in Servers /\ DOMAIN tasks[k].updates \subseteq PlayersOf(s)
        /\ DOMAIN InfoAfter(info[s], tasks[k].updates) = DOMAIN info[s] \cup DOMAIN tasks[k].updates
    BY TaskTypes, CacheTypes, InfoFacts DEF HomeOK
  <2>2. /\ info' = [info EXCEPT ![s] = InfoAfter(info[s], tasks[k].updates)]
        /\ UNCHANGED <<fill, batch, aged>>
        /\ \A j \in DOMAIN tasks' : /\ OldPlace(j, k) \in DOMAIN tasks \ {k}
                                    /\ tasks'[j] = tasks[OldPlace(j, k)]
    BY <1>15, ScrapbookFacts
  <2> HIDE DEF s
  <2>3. \A r \in Servers : DOMAIN info'[r] \subseteq PlayersOf(r)
    BY <2>1, <2>2 DEF HomeOK, VarsOK
  <2>4. \A j \in DOMAIN tasks' : DOMAIN tasks'[j].updates \subseteq PlayersOf(tasks'[j].server)
    BY <2>2 DEF HomeOK
  <2> QED BY <2>2, <2>3, <2>4 DEF HomeOK
<1>16. CASE UNCHANGED vars
  BY <1>16 DEF vars, life, caches, HomeOK
<1> QED BY <1>2, <1>3, <1>4, <1>5, <1>6, <1>7, <1>8, <1>9, <1>10, <1>11, <1>12, <1>13,
           <1>14, <1>15, <1>16 DEF Next, Work

(* A task that has been received queues behind the others. *)
LEMMA ReceivedTask ==
  ASSUME VarsOK, HomeOK, Receive
  PROVE  /\ \A k \in DOMAIN tasks : k \in DOMAIN tasks' /\ tasks'[k] = tasks[k]
         /\ \A k \in DOMAIN tasks' \ DOMAIN tasks :
              tasks'[k].at = "queued" /\ \A j \in DOMAIN tasks : j < k
<1>1. PICK p \in Players, m \in Maps(Contents) :
         tasks' = Append(tasks, Task(HomeOf[p], m)) \/ tasks' = tasks
  BY ReceiveFacts DEF Received
<1>2. CASE tasks' = tasks
  BY <1>2
<1>3. CASE tasks' = Append(tasks, Task(HomeOf[p], m))
  <2> DEFINE t == Task(HomeOf[p], m)
  <2>1. t.at = "queued"
    BY DEF Task
  <2> HIDE DEF t
  <2>2. tasks' = Append(tasks, t) /\ tasks \in Seq(TaskRecord)
    BY <1>3, TaskTypes DEF t
  <2> QED BY <2>1, <2>2
<1> QED BY <1>1, <1>2, <1>3

(* The worker stays alone and eldest, and what it has read stays current. *)
LEMMA WorkerStep == VarsOK /\ PhaseOK /\ HomeOK /\ WorkerOK /\ [Next]_vars => WorkerOK'
<1> SUFFICES ASSUME VarsOK, PhaseOK, HomeOK, WorkerOK, [Next]_vars PROVE WorkerOK'
  OBVIOUS
<1>0. DOMAIN tasks = 1..Len(tasks) /\ Len(tasks) \in Nat
  BY TaskTypes
<1>1. ASSUME UNCHANGED <<tasks, raced, nude, info, index>> PROVE WorkerOK'
  BY <1>1 DEF WorkerOK
<1>2. ASSUME NEW p \in Players, NEW u \in Updates, Report(p, u) PROVE WorkerOK'
  BY <1>1, <1>2, SendFacts, Members DEF Report
<1>3. ASSUME NEW p \in Players, AnnounceRemoved(p) PROVE WorkerOK'
  BY <1>1, <1>3, SendFacts, Members DEF AnnounceRemoved
<1>4. ASSUME NEW p \in Players, Conclude(p) \/ FlagRemoved(p) PROVE WorkerOK'
  BY <1>1, <1>4 DEF Conclude, FlagRemoved, caches
<1>5. CASE Advise \/ Filled \/ StartFails \/ ListServers
  BY <1>1, <1>5 DEF Advise, Filled, StartFails, ListServers, caches
<1>6. ASSUME NEW s \in Servers, Fetch(s) \/ FetchFails(s) \/ Age(s) PROVE WorkerOK'
  BY <1>1, <1>6 DEF Fetch, FetchFails, Age, caches
<1>7. ASSUME NEW s \in Servers, Store(s) PROVE WorkerOK'
  <2>1. DOMAIN tasks' = {}
    BY <1>7, StoreFacts
  <2> QED BY <2>1 DEF WorkerOK
<1>8. CASE Receive
  <2>1. UNCHANGED <<raced, nude, info, index>>
    BY <1>8, ReceiveFacts DEF Received
  <2>2. /\ \A k \in DOMAIN tasks : k \in DOMAIN tasks' /\ tasks'[k] = tasks[k]
        /\ \A k \in DOMAIN tasks' \ DOMAIN tasks : tasks'[k].at = "queued"
    BY <1>8, ReceivedTask
  <2>3. \A k \in DOMAIN tasks : \A j \in 1..(k - 1) : j \in DOMAIN tasks
    BY <1>0
  <2> QED BY <2>1, <2>2, <2>3 DEF WorkerOK
<1>9. CASE Restart
  <2>1. DOMAIN tasks' = {}
    BY <1>9 DEF Restart
  <2> QED BY <2>1 DEF WorkerOK
<1>10. ASSUME NEW k \in DOMAIN tasks, Acquire(k) PROVE WorkerOK'
  <2>1. \A j \in 1..(k - 1) : j \in DOMAIN tasks
    BY <1>0
  <2>2. \A i \in DOMAIN tasks' : tasks'[i].at # "queued" => i = k
    BY <1>10, AcquireFacts
  <2>3. /\ tasks'[k].at = "underworld" /\ tasks'[k].old = nude'[tasks'[k].server]
        /\ \A j \in DOMAIN tasks' : tasks'[j].at # "queued" => j = k
        /\ raced'[tasks'[k].server] \/ \A j \in 1..(k - 1) : tasks'[j].server # tasks'[k].server
    BY <1>10, <2>1, <2>2, AcquireFacts
  <2> QED BY <2>2, <2>3 DEF WorkerOK
<1>11. ASSUME NEW k \in DOMAIN tasks, UpdateUnderworld(k) PROVE WorkerOK'
  <2> DEFINE s == tasks[k].server
  <2>1. \A j \in 1..(k - 1) : j \in DOMAIN tasks
    BY <1>0
  <2>2. \A i \in DOMAIN tasks' : tasks'[i].at # "queued" => i = k
    <3>1. /\ \A j \in DOMAIN tasks : j # k => tasks[j].at = "queued"
          /\ DOMAIN tasks' = DOMAIN tasks
          /\ \A j \in DOMAIN tasks : j # k => tasks'[j] = tasks[j]
      BY <1>11, UnderworldFacts, Zenon
    <3> QED BY <3>1
  <2>3. /\ tasks'[k].at = "scrapbook" /\ tasks'[k].server = s /\ raced' = raced
        /\ tasks'[k].old = [info |-> info'[s], index |-> index'[s]]
        /\ \A j \in DOMAIN tasks : tasks'[j].server = tasks[j].server
    <3>1. tasks'[k].old = [info |-> info[s], index |-> index[s]]
      BY <1>11, UnderworldFacts, Zenon
    <3>2. info' = info /\ index' = index
      BY <1>11, UnderworldFacts
    <3>3. /\ tasks'[k].at = "scrapbook" /\ tasks'[k].server = s /\ raced' = raced
          /\ \A j \in DOMAIN tasks : tasks'[j].server = tasks[j].server
      BY <1>11, UnderworldFacts
    <3> QED BY <3>1, <3>2, <3>3
  <2>4. raced[s] \/ \A j \in 1..(k - 1) : tasks[j].server # s
    BY <1>11 DEF UpdateUnderworld, WorkerOK
  <2>5. raced'[tasks'[k].server] \/ \A j \in 1..(k - 1) : tasks'[j].server # tasks'[k].server
    BY <2>1, <2>3, <2>4
  <2> QED BY <2>2, <2>3, <2>5 DEF WorkerOK
<1>12. ASSUME NEW k \in DOMAIN tasks, UpdateScrapbook(k) PROVE WorkerOK'
  <2>1. \A j \in DOMAIN tasks' : tasks'[j].at = "queued"
    BY <1>12, ScrapbookFacts
  <2> QED BY <2>1 DEF WorkerOK
<1>13. CASE UNCHANGED vars
  BY <1>1, <1>13 DEF vars, caches
<1> QED BY <1>2, <1>3, <1>4, <1>5, <1>6, <1>7, <1>8, <1>9, <1>10, <1>11, <1>12, <1>13
        DEF Next, Work

(* The index keeps agreeing with player_info. *)
LEMMA IndexesStep ==
  VarsOK /\ PhaseOK /\ HomeOK /\ WorkerOK /\ IndexesOK /\ [Next]_vars => IndexesOK'
<1> SUFFICES ASSUME VarsOK, PhaseOK, HomeOK, WorkerOK, IndexesOK, [Next]_vars PROVE IndexesOK'
  OBVIOUS
<1>1. ASSUME UNCHANGED <<info, index>> PROVE IndexesOK'
  BY <1>1 DEF IndexesOK
<1>2. ASSUME NEW p \in Players, NEW u \in Updates, Report(p, u) PROVE IndexesOK'
  BY <1>1, <1>2, SendFacts, Members DEF Report
<1>3. ASSUME NEW p \in Players, AnnounceRemoved(p) PROVE IndexesOK'
  BY <1>1, <1>3, SendFacts, Members DEF AnnounceRemoved
<1>4. ASSUME NEW p \in Players, Conclude(p) \/ FlagRemoved(p) PROVE IndexesOK'
  BY <1>1, <1>4 DEF Conclude, FlagRemoved, caches
<1>5. CASE Advise \/ Filled \/ StartFails \/ ListServers
  BY <1>1, <1>5 DEF Advise, Filled, StartFails, ListServers, caches
<1>6. ASSUME NEW s \in Servers, Fetch(s) \/ FetchFails(s) \/ Age(s) PROVE IndexesOK'
  BY <1>1, <1>6 DEF Fetch, FetchFails, Age, caches
<1>7. ASSUME NEW s \in Servers, NEW us \in Maps(Contents),
             info' = [info EXCEPT ![s] = InfoAfter(info[s], us)],
             index' = [index EXCEPT ![s] = IndexAfter(index[s], us)]
      PROVE  IndexesOK'
  <2>1. IndexOK(InfoAfter(info[s], us), IndexAfter(index[s], us))
    BY CacheTypes, IndexAfterFacts DEF IndexesOK
  <2>2. ASSUME NEW r \in Servers PROVE IndexOK(info'[r], index'[r])
    <3>1. CASE r = s
      BY <1>7, <2>1, <3>1 DEF VarsOK
    <3>2. CASE r # s
      <4>1. info'[r] = info[r] /\ index'[r] = index[r]
        BY <1>7, <3>2 DEF VarsOK
      <4> QED BY <4>1 DEF IndexesOK
    <3> QED BY <3>1, <3>2
  <2> QED BY <2>2 DEF IndexesOK
<1>8. ASSUME NEW s \in Servers, Store(s) PROVE IndexesOK'
  BY <1>7, <1>8, StoreFacts
<1>9. CASE Receive
  <2>1. UNCHANGED <<info, index>>
    BY <1>9, ReceiveFacts DEF Received
  <2> QED BY <1>1, <2>1
<1>10. CASE Restart
  <2>1. \A s \in Servers : info'[s] = NoMap /\ index'[s] = NoMap
    BY <1>10 DEF Restart
  <2> QED BY <2>1, NoMapIsAMap DEF IndexesOK, IndexOK
<1>11. ASSUME NEW k \in DOMAIN tasks, Acquire(k) PROVE IndexesOK'
  BY <1>1, <1>11, AcquireFacts
<1>12. ASSUME NEW k \in DOMAIN tasks, UpdateUnderworld(k) PROVE IndexesOK'
  BY <1>1, <1>12, UnderworldFacts
<1>13. ASSUME NEW k \in DOMAIN tasks, UpdateScrapbook(k) PROVE IndexesOK'
  BY <1>7, <1>13, ScrapbookFacts, TaskTypes
<1>14. CASE UNCHANGED vars
  BY <1>1, <1>14 DEF vars, caches
<1> QED BY <1>2, <1>3, <1>4, <1>5, <1>6, <1>8, <1>9, <1>10, <1>11, <1>12, <1>13, <1>14
        DEF Next, Work

(* The list of nude players agrees with player_info, or is ahead of it by  *)
(* the updates of the worker.                                              *)
LEMMA NudesStep ==
  VarsOK /\ PhaseOK /\ HomeOK /\ WorkerOK /\ NudesOK /\ [Next]_vars => NudesOK'
<1> SUFFICES ASSUME VarsOK, PhaseOK, HomeOK, WorkerOK, NudesOK, [Next]_vars PROVE NudesOK'
  OBVIOUS
<1>1. ASSUME UNCHANGED <<tasks, nude, info>> PROVE NudesOK'
  BY <1>1 DEF NudesOK, InTasks
<1>2. ASSUME NEW p \in Players, NEW u \in Updates, Report(p, u) PROVE NudesOK'
  BY <1>1, <1>2, SendFacts, Members DEF Report
<1>3. ASSUME NEW p \in Players, AnnounceRemoved(p) PROVE NudesOK'
  BY <1>1, <1>3, SendFacts, Members DEF AnnounceRemoved
<1>4. ASSUME NEW p \in Players, Conclude(p) \/ FlagRemoved(p) PROVE NudesOK'
  BY <1>1, <1>4 DEF Conclude, FlagRemoved, caches
<1>5. CASE Advise \/ Filled \/ StartFails \/ ListServers
  BY <1>1, <1>5 DEF Advise, Filled, StartFails, ListServers, caches
<1>6. ASSUME NEW s \in Servers, Fetch(s) \/ FetchFails(s) \/ Age(s) PROVE NudesOK'
  BY <1>1, <1>6 DEF Fetch, FetchFails, Age, caches
<1>7. ASSUME NEW s \in Servers, Store(s) PROVE NudesOK'
  <2>1. /\ nude' = [nude EXCEPT ![s] = NudeAfter(nude[s], fill[s])]
        /\ info' = [info EXCEPT ![s] = InfoAfter(info[s], fill[s])]
        /\ fill[s] \in Maps(Contents) /\ tasks' = tasks /\ DOMAIN tasks = {}
    BY <1>7, StoreFacts
  <2>2. ASSUME NEW r \in Servers, NEW p \in DOMAIN info[r] PROVE NudeShows(nude[r], p, info[r][p])
    BY <2>1 DEF NudesOK, InTasks
  <2>3. ASSUME NEW r \in Servers, NEW p \in DOMAIN info'[r] PROVE NudeShows(nude'[r], p, info'[r][p])
    <3>1. CASE r # s
      <4>1. info'[r] = info[r] /\ nude'[r] = nude[r]
        BY <2>1, <3>1 DEF VarsOK
      <4> QED BY <2>2, <2>3, <4>1
    <3>2. CASE r = s
      <4>1. info'[s] = InfoAfter(info[s], fill[s]) /\ nude'[s] = NudeAfter(nude[s], fill[s])
        BY <2>1 DEF VarsOK
      <4>2. info[s] \in Maps(Contents) /\ nude[s] \in Maps(Updates) /\ p \in DOMAIN info'[s]
        BY <2>3, <3>2, CacheTypes
      <4>2a. /\ DOMAIN info'[s] = DOMAIN info[s] \cup DOMAIN fill[s]
             /\ \A q \in DOMAIN fill[s] : info'[s][q] = fill[s][q]
             /\ \A q \in DOMAIN info[s] \ DOMAIN fill[s] : info'[s][q] = info[s][q]
        <5>1. /\ DOMAIN InfoAfter(info[s], fill[s]) = DOMAIN info[s] \cup DOMAIN fill[s]
              /\ \A q \in DOMAIN fill[s] : InfoAfter(info[s], fill[s])[q] = fill[s][q]
              /\ \A q \in DOMAIN info[s] \ DOMAIN fill[s] :
                   InfoAfter(info[s], fill[s])[q] = info[s][q]
          BY <2>1, <4>2, InfoFacts
        <5> QED BY <4>1, <5>1
      <4>2b. /\ \A q \in DOMAIN fill[s] : NudeShows(nude'[s], q, fill[s][q])
             /\ \A q \in Players \ DOMAIN fill[s], u \in Contents :
                  NudeShows(nude[s], q, u) => NudeShows(nude'[s], q, u)
        BY <2>1, <4>1, <4>2, NudeFacts, Zenon
      <4>3. CASE p \in DOMAIN fill[s]
        BY <3>2, <4>2a, <4>2b, <4>3
      <4>4. CASE p \notin DOMAIN fill[s]
        <5>1. p \in DOMAIN info[s] /\ info'[s][p] = info[s][p]
          BY <4>2, <4>2a, <4>4
        <5>2. NudeShows(nude[s], p, info[s][p]) /\ p \in Players /\ info[s][p] \in Contents
          BY <2>2, <4>2, <5>1, MapFacts
        <5> QED BY <3>2, <4>2b, <4>4, <5>1, <5>2
      <4> QED BY <4>3, <4>4
    <3> QED BY <3>1, <3>2
  <2> QED BY <2>1, <2>3 DEF NudesOK
<1>8. CASE Receive
  <2>1. UNCHANGED <<nude, info>>
    BY <1>8, ReceiveFacts DEF Received
  <2>2. /\ \A k \in DOMAIN tasks : k \in DOMAIN tasks' /\ tasks'[k] = tasks[k]
        /\ \A k \in DOMAIN tasks' \ DOMAIN tasks : tasks'[k].at = "queued"
    BY <1>8, ReceivedTask
  <2> QED BY <2>1, <2>2 DEF NudesOK, InTasks
<1>9. CASE Restart
  <2>1. DOMAIN tasks' = {} /\ \A s \in Servers : info'[s] = NoMap
    BY <1>9 DEF Restart
  <2> QED BY <2>1, NoMapIsAMap DEF NudesOK
<1>10. ASSUME NEW k \in DOMAIN tasks, Acquire(k) PROVE NudesOK'
  <2>1. /\ \A j \in DOMAIN tasks : tasks[j].at = "queued"
        /\ \A j \in DOMAIN tasks' : tasks'[j].at # "scrapbook"
        /\ UNCHANGED <<nude, info>>
    BY <1>10, AcquireFacts
  <2> QED BY <2>1 DEF NudesOK, InTasks
<1>11. ASSUME NEW k \in DOMAIN tasks, UpdateUnderworld(k) PROVE NudesOK'
  <2> DEFINE s == tasks[k].server
             us == tasks[k].updates
  <2>1. /\ \A j \in DOMAIN tasks : tasks[j].at # "scrapbook"
        /\ k \in DOMAIN tasks' /\ DOMAIN tasks' = DOMAIN tasks
        /\ tasks'[k].at = "scrapbook" /\ tasks'[k].updates = us /\ tasks'[k].server = s
        /\ \A j \in DOMAIN tasks' : j # k => tasks'[j].at # "scrapbook"
        /\ nude' = [nude EXCEPT ![s] = NudeAfter(nude[s], us)] /\ info' = info
    BY <1>11, UnderworldFacts
  <2>2. s \in Servers /\ us \in Maps(Contents) /\ info[s] \in Maps(Contents) /\ nude[s] \in Maps(Updates)
    BY TaskTypes, CacheTypes
  <2> HIDE DEF s, us
  <2>3. nude'[s] = NudeAfter(nude[s], us) /\ \A r \in Servers : r # s => nude'[r] = nude[r]
    BY <2>1, <2>2 DEF VarsOK
  <2>4. \A p \in DOMAIN us : NudeShows(nude'[s], p, us[p])
    BY <2>2, <2>3, NudeFacts
  <2>5. ASSUME NEW r \in Servers, NEW p \in DOMAIN info[r], ~(r = s /\ p \in DOMAIN us)
        PROVE  NudeShows(nude'[r], p, info[r][p])
    <3>1. NudeShows(nude[r], p, info[r][p]) /\ p \in Players /\ info[r][p] \in Contents
      BY <2>1, CacheTypes, MapFacts DEF NudesOK, InTasks
    <3> QED BY <2>2, <2>3, <2>5, <3>1, NudeFacts
  <2>6. ASSUME NEW r \in Servers, NEW p \in DOMAIN info'[r]
        PROVE  \/ NudeShows(nude'[r], p, info'[r][p])
               \/ \E j \in InTasks(p)' : tasks'[j].at = "scrapbook" /\ tasks'[j].server = r
    BY <2>1, <2>5 DEF InTasks
  <2>7. \A j \in DOMAIN tasks' : tasks'[j].at = "scrapbook" =>
           \A p \in DOMAIN tasks'[j].updates :
             NudeShows(nude'[tasks'[j].server], p, tasks'[j].updates[p])
    BY <2>1, <2>4
  <2> QED BY <2>6, <2>7 DEF NudesOK
<1>12. ASSUME NEW k \in DOMAIN tasks, UpdateScrapbook(k) PROVE NudesOK'
  <2> DEFINE s == tasks[k].server
             us == tasks[k].updates
  <2>1. /\ tasks[k].at = "scrapbook"
        /\ \A j \in DOMAIN tasks : j # k => tasks[j].at = "queued"
        /\ \A j \in DOMAIN tasks' : tasks'[j].at = "queued"
        /\ info' = [info EXCEPT ![s] = InfoAfter(info[s], us)] /\ nude' = nude
    BY <1>12, ScrapbookFacts
  <2>2. /\ s \in Servers /\ us \in Maps(Contents) /\ info[s] \in Maps(Contents)
        /\ DOMAIN us \subseteq PlayersOf(s)
    BY TaskTypes, CacheTypes DEF HomeOK
  <2>3. \A p \in DOMAIN us : NudeShows(nude[s], p, us[p])
    BY <2>1 DEF NudesOK
  <2>4. ASSUME NEW r \in Servers, NEW p \in DOMAIN info[r], ~(r = s /\ p \in DOMAIN us)
        PROVE  NudeShows(nude[r], p, info[r][p])
    BY <2>1, <2>4 DEF NudesOK, InTasks
  <2> HIDE DEF s, us
  <2>5. /\ \A r \in Servers : r # s => info'[r] = info[r]
        /\ info'[s] = InfoAfter(info[s], us)
    BY <2>1, <2>2 DEF VarsOK
  <2>5a. /\ DOMAIN info'[s] = DOMAIN info[s] \cup DOMAIN us
         /\ \A q \in DOMAIN us : info'[s][q] = us[q]
         /\ \A q \in DOMAIN info[s] \ DOMAIN us : info'[s][q] = info[s][q]
    <3>1. /\ DOMAIN InfoAfter(info[s], us) = DOMAIN info[s] \cup DOMAIN us
          /\ \A q \in DOMAIN us : InfoAfter(info[s], us)[q] = us[q]
          /\ \A q \in DOMAIN info[s] \ DOMAIN us : InfoAfter(info[s], us)[q] = info[s][q]
      BY <2>2, InfoFacts
    <3> QED BY <2>5, <3>1
  <2>6. ASSUME NEW r \in Servers, NEW p \in DOMAIN info'[r] PROVE NudeShows(nude[r], p, info'[r][p])
    <3>1. CASE r # s
      BY <2>4, <2>5, <2>6, <3>1
    <3>2. CASE r = s /\ p \in DOMAIN us
      BY <2>3, <2>5a, <3>2
    <3>3. CASE r = s /\ p \notin DOMAIN us
      BY <2>4, <2>5a, <2>6, <3>3
    <3> QED BY <3>1, <3>2, <3>3
  <2> QED BY <2>1, <2>6 DEF NudesOK
<1>13. CASE UNCHANGED vars
  BY <1>1, <1>13 DEF vars, caches
<1> QED BY <1>2, <1>3, <1>4, <1>5, <1>6, <1>7, <1>8, <1>9, <1>10, <1>11, <1>12, <1>13
        DEF Next, Work

-----------------------------------------------------------------------------
(* An update on its way from the sender to the caches *)

(* A new update is the youngest of its player; others notice nothing. *)
LEMMA SentChannel ==
  ASSUME VarsOK, NEW p \in Players, NEW u \in Contents, channel' = Append(channel, <<p, u>>)
  PROVE  /\ InChannel(p)' # {} /\ LastInChannel(p, u)'
         /\ \A q \in Players \ {p} :
              InChannel(q)' = InChannel(q) /\ \A v : LastInChannel(q, v)' <=> LastInChannel(q, v)
<1> DEFINE e == <<p, u>>
<1>1. channel \in Seq(Players \X Contents) /\ e \in Players \X Contents /\ e[1] = p /\ e[2] = u
  BY DEF VarsOK
<1> HIDE DEF e
<1>2. /\ Len(channel) \in Nat /\ DOMAIN channel = 1..Len(channel)
      /\ DOMAIN channel' = DOMAIN channel \cup {Len(channel) + 1}
      /\ channel'[Len(channel) + 1] = e
      /\ \A k \in DOMAIN channel : channel'[k] = channel[k] /\ k < Len(channel) + 1
  BY <1>1, AppendFacts DEF e
<1>3. Len(channel) + 1 \in InChannel(p)'
  BY <1>1, <1>2 DEF InChannel
<1>4. LastInChannel(p, u)'
  BY <1>1, <1>2, <1>3 DEF InChannel, LastInChannel
<1>5. \A q \in Players \ {p} :
        InChannel(q)' = InChannel(q) /\ \A k \in InChannel(q) : channel'[k] = channel[k]
  BY <1>1, <1>2 DEF InChannel
<1> QED BY <1>3, <1>4, <1>5 DEF LastInChannel

(* Taking the head of the channel leaves the youngest of each player in it, *)
(* unless the head was the only one.                                        *)
LEMMA TakenChannel ==
  ASSUME VarsOK, channel # <<>>, channel' = Tail(channel), NEW q \in Players
  PROVE  /\ channel[1][1] \in Players /\ InChannel(channel[1][1]) # {}
         /\ q # channel[1][1] => (InChannel(q)' = {} <=> InChannel(q) = {})
         /\ \A v : InChannel(q)' # {} /\ LastInChannel(q, v) => LastInChannel(q, v)'
         /\ \A v : InChannel(q)' = {} /\ q = channel[1][1] /\ LastInChannel(q, v) => v = channel[1][2]
         /\ InChannel(q)' # {} => InChannel(q) # {}
<1>1. /\ channel \in Seq(Players \X Contents) /\ Len(channel) \in Nat
      /\ DOMAIN channel = 1..Len(channel) /\ DOMAIN channel' = 1..(Len(channel) - 1)
      /\ 1 \in DOMAIN channel /\ channel[1] \in Players \X Contents
      /\ \A k \in 1..(Len(channel) - 1) : channel'[k] = channel[k + 1]
  BY TailFacts DEF VarsOK
<1>2. \A k \in InChannel(q)' : k \in Nat /\ k + 1 \in InChannel(q) /\ channel'[k] = channel[k + 1]
  BY <1>1 DEF InChannel
<1>3. \A k \in InChannel(q) : k \in Nat /\ k >= 1
  BY <1>1 DEF InChannel
<1>4. \A k \in InChannel(q) : k # 1 => k - 1 \in InChannel(q)' /\ channel'[k - 1] = channel[k]
  BY <1>1 DEF InChannel
<1>5. 1 \in InChannel(q) <=> q = channel[1][1]
  BY <1>1 DEF InChannel
<1>6. channel[1][1] \in Players /\ InChannel(channel[1][1]) # {}
  BY <1>1 DEF InChannel
<1>7. InChannel(q)' # {} => InChannel(q) # {}
  BY <1>2
<1>8. q # channel[1][1] => (InChannel(q)' = {} <=> InChannel(q) = {})
  BY <1>2, <1>4, <1>5
<1>9. ASSUME NEW v, InChannel(q)' # {}, LastInChannel(q, v) PROVE LastInChannel(q, v)'
  <2>1. PICK k \in InChannel(q) : channel[k][2] = v /\ \A j \in InChannel(q) : j <= k
    BY <1>9 DEF LastInChannel
  <2>2. PICK i \in InChannel(q)' : TRUE
    BY <1>9
  <2>3. i \in Nat /\ i + 1 <= k /\ i \in 1..(Len(channel) - 1)
    BY <1>1, <1>2, <2>1, <2>2 DEF InChannel
  <2>4. k # 1 /\ k \in Nat
    BY <1>3, <2>3
  <2>5. k - 1 \in InChannel(q)' /\ channel'[k - 1] = channel[k]
    BY <1>4, <2>4
  <2>6. \A j \in InChannel(q)' : j <= k - 1
    BY <1>2, <2>1, <2>4
  <2> QED BY <2>1, <2>5, <2>6 DEF LastInChannel
<1>10. ASSUME NEW v, InChannel(q)' = {}, LastInChannel(q, v) PROVE v = channel[1][2]
  <2>1. PICK k \in InChannel(q) : channel[k][2] = v
    BY <1>10 DEF LastInChannel
  <2>2. k = 1
    BY <1>4, <1>10, <2>1
  <2> QED BY <2>1, <2>2
<1> QED BY <1>6, <1>7, <1>8, <1>9, <1>10

(* Tasks that keep their updates hold the same players as before. *)
LEMMA SameTasks ==
  ASSUME DOMAIN tasks' = DOMAIN tasks,
         \A k \in DOMAIN tasks : tasks'[k].updates = tasks[k].updates,
         NEW q \in Players
  PROVE  InTasks(q)' = InTasks(q) /\ \A v : LastInTasks(q, v)' <=> LastInTasks(q, v)
<1>1. InTasks(q)' = InTasks(q)
  BY DEF InTasks
<1>2. \A k \in InTasks(q) : tasks'[k].updates = tasks[k].updates
  BY DEF InTasks
<1> QED BY <1>1, <1>2 DEF LastInTasks

(* The task that was spawned last has the youngest of each of its players. *)
LEMMA SpawnedTask ==
  ASSUME VarsOK, NEW s, NEW m, tasks' = Append(tasks, Task(s, m)), NEW q \in Players
  PROVE  /\ q \in DOMAIN m => InTasks(q)' # {} /\ LastInTasks(q, m[q])'
         /\ q \notin DOMAIN m =>
              InTasks(q)' = InTasks(q) /\ \A v : LastInTasks(q, v)' <=> LastInTasks(q, v)
<1> DEFINE t == Task(s, m)
<1>1. t.updates = m
  BY DEF Task
<1>2. tasks \in Seq(TaskRecord) /\ Len(tasks) \in Nat /\ DOMAIN tasks = 1..Len(tasks)
  BY TaskTypes
<1> HIDE DEF t
<1>3. /\ DOMAIN tasks' = DOMAIN tasks \cup {Len(tasks) + 1}
      /\ tasks'[Len(tasks) + 1] = t
      /\ \A k \in DOMAIN tasks : tasks'[k] = tasks[k] /\ k < Len(tasks) + 1
  <2>1. tasks' = Append(tasks, t)
    BY DEF t
  <2> QED BY <1>2, <2>1
<1>4. CASE q \in DOMAIN m
  <2>1. Len(tasks) + 1 \in InTasks(q)'
    BY <1>1, <1>3, <1>4 DEF InTasks
  <2>2. \A k \in InTasks(q)' : k <= Len(tasks) + 1
    BY <1>2, <1>3 DEF InTasks
  <2> QED BY <1>1, <1>3, <1>4, <2>1, <2>2 DEF LastInTasks
<1>5. CASE q \notin DOMAIN m
  <2>1. InTasks(q)' = InTasks(q)
    BY <1>1, <1>2, <1>3, <1>5 DEF InTasks
  <2>2. \A k \in InTasks(q) : tasks'[k] = tasks[k]
    BY <1>3 DEF InTasks
  <2> QED BY <1>5, <2>1, <2>2 DEF LastInTasks
<1> QED BY <1>4, <1>5

(* A task that leaves takes only its own updates with it; when it was the  *)
(* eldest with one for q, the youngest is still there unless it was alone. *)
LEMMA TaskGone ==
  ASSUME VarsOK, WorkerOK, NEW k \in DOMAIN tasks, UpdateScrapbook(k), NEW q \in Players
  PROVE  /\ InTasks(q)' # {} => InTasks(q) # {}
         /\ q \notin DOMAIN tasks[k].updates =>
              /\ InTasks(q)' = {} <=> InTasks(q) = {}
              /\ \A v : LastInTasks(q, v) => LastInTasks(q, v)'
         /\ q \in DOMAIN tasks[k].updates /\ (\A j \in InTasks(q) : j >= k) =>
              \A v : LastInTasks(q, v) =>
                IF InTasks(q)' = {} THEN v = tasks[k].updates[q] ELSE LastInTasks(q, v)'
<1>1. /\ \A j \in DOMAIN tasks' : /\ OldPlace(j, k) \in DOMAIN tasks \ {k}
                                  /\ tasks'[j] = tasks[OldPlace(j, k)]
      /\ \A i \in DOMAIN tasks \ {k} : \E j \in DOMAIN tasks' : OldPlace(j, k) = i
  BY ScrapbookFacts
<1>2. k \in Nat /\ DOMAIN tasks \subseteq Nat
  BY TaskTypes
<1>3. DOMAIN tasks' \subseteq Nat
  <2>1. tasks' = RemoveAt(tasks, k)
    BY DEF UpdateScrapbook
  <2>2. tasks' \in Seq(TaskRecord)
    BY <2>1, TaskTypes, RemoveAtFacts
  <2> QED BY <2>2
<1>4. \A i, j \in DOMAIN tasks' : OldPlace(i, k) <= OldPlace(j, k) => i <= j
  BY <1>2, <1>3 DEF OldPlace
<1>5. \A j \in InTasks(q)' : /\ j \in DOMAIN tasks' /\ OldPlace(j, k) \in InTasks(q) \ {k}
                             /\ tasks'[j] = tasks[OldPlace(j, k)]
  BY <1>1 DEF InTasks
<1>6. \A i \in InTasks(q) \ {k} : \E j \in InTasks(q)' : OldPlace(j, k) = i
  BY <1>1 DEF InTasks
<1>7. ASSUME NEW v, NEW i \in InTasks(q) \ {k}, tasks[i].updates[q] = v, \A j \in InTasks(q) : j <= i
      PROVE  LastInTasks(q, v)'
  <2>1. PICK j \in InTasks(q)' : OldPlace(j, k) = i
    BY <1>6
  <2>2. tasks'[j].updates[q] = v
    BY <1>5, <1>7, <2>1
  <2>3. \A l \in InTasks(q)' : l <= j
    BY <1>4, <1>5, <1>7, <2>1
  <2> QED BY <2>2, <2>3 DEF LastInTasks
<1>8. q \notin DOMAIN tasks[k].updates => k \notin InTasks(q)
  BY DEF InTasks
<1>9. InTasks(q)' # {} => InTasks(q) # {}
  BY <1>5
<1>10. ASSUME q \notin DOMAIN tasks[k].updates
       PROVE  /\ InTasks(q)' = {} <=> InTasks(q) = {}
              /\ \A v : LastInTasks(q, v) => LastInTasks(q, v)'
  <2>1. InTasks(q)' = {} <=> InTasks(q) = {}
    BY <1>5, <1>6, <1>8, <1>10
  <2>2. ASSUME NEW v, LastInTasks(q, v) PROVE LastInTasks(q, v)'
    BY <1>7, <1>8, <1>10, <2>2 DEF LastInTasks
  <2> QED BY <2>1, <2>2
<1>11. ASSUME \A j \in InTasks(q) : j >= k, NEW v, LastInTasks(q, v)
       PROVE  IF InTasks(q)' = {} THEN v = tasks[k].updates[q] ELSE LastInTasks(q, v)'
  <2>1. PICK i \in InTasks(q) : tasks[i].updates[q] = v /\ \A j \in InTasks(q) : j <= i
    BY <1>11 DEF LastInTasks
  <2>2. CASE InTasks(q)' = {}
    <3>1. i = k
      BY <1>6, <2>1, <2>2
    <3> QED BY <2>1, <2>2, <3>1
  <2>3. CASE InTasks(q)' # {}
    <3>1. PICK j \in InTasks(q)' : TRUE
      BY <2>3
    <3>2. OldPlace(j, k) \in InTasks(q) /\ OldPlace(j, k) # k
      BY <1>5, <3>1
    <3>3. OldPlace(j, k) >= k /\ OldPlace(j, k) <= i /\ i \in Nat /\ OldPlace(j, k) \in Nat
      BY <1>2, <1>11, <2>1, <3>2 DEF InTasks
    <3>4. i # k
      BY <1>2, <3>2, <3>3
    <3>5. LastInTasks(q, v)'
      BY <1>7, <2>1, <3>4
    <3> QED BY <2>3, <3>5
  <2> QED BY <2>2, <2>3
<1> QED BY <1>9, <1>10, <1>11

(* No step loses the last update that was sent for a player. *)
LEMMA KeptStep ==
  VarsOK /\ PhaseOK /\ HomeOK /\ WorkerOK /\ KeptOK /\ [Next]_vars => KeptOK'
<1> SUFFICES ASSUME VarsOK, PhaseOK, HomeOK, WorkerOK, KeptOK, [Next]_vars,
                    NEW q \in Players
             PROVE  KeptFor(q, owed[q])'
  BY DEF KeptOK
<1> PICK v : v = owed[q]
  OBVIOUS
<1>0. KeptFor(q, v) /\ HomeOf[q] \in Servers
  BY Members DEF KeptOK
<1>a. ASSUME NEW w, owed'[q] = w, KeptFor(q, w)' PROVE KeptFor(q, owed[q])'
  BY <1>a DEF KeptFor, LastInChannel, LastInTasks
<1>1. ASSUME UNCHANGED <<channel, batch, tasks, owed, raced, info>>, phase' # "running" => phase # "running"
      PROVE  KeptFor(q, owed[q])'
  <2>1. KeptFor(q, v)'
    BY <1>0, <1>1 DEF KeptFor, InFlight, InChannel, InBatch, InTasks, LastInChannel, LastInTasks
  <2> QED BY <1>1, <1>a, <2>1
<1>2. ASSUME InFlight(q)' = FALSE, owed'[q] = None PROVE KeptFor(q, owed[q])'
  BY <1>2 DEF KeptFor, InFlight
<1>3. ASSUME NEW p \in Players, NEW u \in Contents, Send(p, u) PROVE KeptFor(q, owed[q])'
  <2>1. CASE phase = "dead"
    BY <1>1, <1>3, <2>1, SendFacts
  <2>2. CASE phase # "dead"
    <3>1. /\ channel' = Append(channel, <<p, u>>) /\ owed' = [owed EXCEPT ![p] = u]
          /\ UNCHANGED <<batch, tasks, info, raced>>
          /\ phase' # "running" => phase # "running"
      BY <1>3, <2>2, SendFacts
    <3>2. CASE q = p
      <4>1. InChannel(q)' # {} /\ LastInChannel(q, u)' /\ owed'[q] = u /\ u # None
        BY <3>1, <3>2, SentChannel, Members DEF VarsOK
      <4>2. KeptFor(q, u)'
        BY <4>1 DEF KeptFor, InFlight
      <4> QED BY <1>a, <4>1, <4>2
    <3>3. CASE q # p
      <4>1. /\ InChannel(q)' = InChannel(q) /\ (LastInChannel(q, v)' <=> LastInChannel(q, v))
            /\ owed'[q] = v
        BY <3>1, <3>3, SentChannel DEF VarsOK
      <4>2. /\ InBatch(q)' <=> InBatch(q)
            /\ InTasks(q)' = InTasks(q) /\ (LastInTasks(q, v)' <=> LastInTasks(q, v))
        BY <3>1, <4>1 DEF InBatch, InTasks, LastInTasks
      <4>3. KeptFor(q, v)'
        BY <1>0, <3>1, <4>1, <4>2 DEF KeptFor, InFlight
      <4> QED BY <1>a, <4>1, <4>3
    <3> QED BY <3>2, <3>3
  <2> QED BY <2>1, <2>2
<1>4. ASSUME NEW p \in Players, NEW u \in Updates, Report(p, u) PROVE KeptFor(q, owed[q])'
  BY <1>3, <1>4, Members DEF Report
<1>5. ASSUME NEW p \in Players, AnnounceRemoved(p) PROVE KeptFor(q, owed[q])'
  BY <1>3, <1>5, Members DEF AnnounceRemoved
<1>6. ASSUME NEW p \in Players, Conclude(p) \/ FlagRemoved(p) PROVE KeptFor(q, owed[q])'
  BY <1>1, <1>6 DEF Conclude, FlagRemoved, life, caches
<1>7. CASE Advise \/ Filled \/ ListServers
  <2>1. UNCHANGED <<channel, batch, tasks, owed, raced, info>> /\ (phase' # "running" => phase # "running")
    BY <1>7 DEF Advise, Touch, Filled, ListServers, caches
  <2> QED BY <1>1, <2>1
<1>8. CASE StartFails
  <2>1. channel' = <<>> /\ tasks' = <<>> /\ (\A s \in Servers : batch'[s] = None) /\ owed'[q] = None
    BY <1>8 DEF StartFails, PhaseOK
  <2>2. InFlight(q)' = FALSE
    BY <1>0, <2>1 DEF InFlight, InChannel, InBatch, InTasks
  <2> QED BY <1>2, <2>1, <2>2
<1>9. CASE Restart
  <2>1. channel' = <<>> /\ tasks' = <<>> /\ (\A s \in Servers : batch'[s] = None) /\ owed'[q] = None
    BY <1>9 DEF Restart
  <2>2. InFlight(q)' = FALSE
    BY <1>0, <2>1 DEF InFlight, InChannel, InBatch, InTasks
  <2> QED BY <1>2, <2>1, <2>2
<1>10. ASSUME NEW s \in Servers, Fetch(s) \/ FetchFails(s) \/ Age(s) PROVE KeptFor(q, owed[q])'
  BY <1>1, <1>10 DEF Fetch, FetchFails, Age, life, caches
<1>11. ASSUME NEW s \in Servers, Store(s) PROVE KeptFor(q, owed[q])'
  <2>1. phase = "filling" /\ UNCHANGED <<phase, channel, batch, tasks, owed, raced>>
    BY <1>11, StoreFacts
  <2>2. KeptFor(q, v)'
    BY <1>0, <2>1 DEF KeptFor, InFlight, InChannel, InBatch, InTasks, LastInChannel, LastInTasks
  <2> QED BY <1>a, <2>1, <2>2
<1>12. CASE Receive
  <2>0. PICK p \in Players, u \in Contents, m \in Maps(Contents) : Received(p, u, m)
    BY <1>12, ReceiveFacts
  <2>1. /\ phase' = "running" /\ channel # <<>> /\ channel[1][1] = p /\ channel[1][2] = u
        /\ channel' = Tail(channel)
        /\ m[p] = u /\ p \in DOMAIN m /\ DOMAIN m \subseteq PlayersOf(HomeOf[p])
        /\ batch[HomeOf[p]] = None => DOMAIN m = {p}
        /\ batch[HomeOf[p]] # None =>
             /\ DOMAIN m = DOMAIN batch[HomeOf[p]] \cup {p}
             /\ \A r \in DOMAIN batch[HomeOf[p]] : r # p => m[r] = batch[HomeOf[p]][r]
        /\ \/ /\ tasks' = Append(tasks, Task(HomeOf[p], m))
              /\ batch' = [batch EXCEPT ![HomeOf[p]] = NoMap]
           \/ /\ tasks' = tasks /\ batch' = [batch EXCEPT ![HomeOf[p]] = m]
        /\ UNCHANGED <<info, owed, raced>>
    BY <2>0 DEF Received
  <2> DEFINE s == HomeOf[p]
  <2>2. /\ s \in Servers /\ m # None /\ NoMap # None /\ DOMAIN NoMap = {}
        /\ q \in DOMAIN m => HomeOf[q] = s
    BY <2>1, Members, MapIsData, NoMapIsAMap
  <2>3. /\ InChannel(p) # {}
        /\ q # p => (InChannel(q)' = {} <=> InChannel(q) = {})
        /\ InChannel(q)' # {} => InChannel(q) # {}
        /\ InChannel(q)' # {} /\ LastInChannel(q, v) => LastInChannel(q, v)'
        /\ InChannel(q)' = {} /\ q = p /\ LastInChannel(q, v) => v = u
    BY <2>1, TakenChannel
  <2>4. batch'[s] \in {NoMap, m} /\ \A r \in Servers : r # s => batch'[r] = batch[r]
    BY <2>1, <2>2 DEF VarsOK
  <2>5. q = p => q \in DOMAIN m /\ m[q] = u
    BY <2>1
  <2>6. q # p => /\ InBatch(q) /\ HomeOf[q] = s => q \in DOMAIN m /\ m[q] = batch[s][q]
                 /\ q \in DOMAIN m => InBatch(q)
    BY <2>1, <2>2 DEF InBatch
  <2>7. q \in DOMAIN m => InFlight(q) /\ (InChannel(q)' = {} => v = m[q])
    <3>1. CASE q = p
      BY <1>0, <2>3, <2>5, <3>1 DEF KeptFor, InFlight
    <3>2. CASE q # p
      BY <1>0, <2>2, <2>3, <2>6, <3>2 DEF KeptFor, InFlight
    <3> QED BY <3>1, <3>2
  <2>8. InChannel(q)' # {} => LastInChannel(q, v)'
    BY <1>0, <2>3 DEF KeptFor
  <2> HIDE DEF s
  <2>9. CASE tasks' = Append(tasks, Task(s, m)) /\ batch' = [batch EXCEPT ![s] = NoMap]
    <3>1. /\ q \in DOMAIN m => InTasks(q)' # {} /\ LastInTasks(q, m[q])'
          /\ q \notin DOMAIN m =>
               InTasks(q)' = InTasks(q) /\ (LastInTasks(q, v)' <=> LastInTasks(q, v))
      BY <2>9, SpawnedTask
    <3>2. batch'[s] = NoMap
      BY <2>2, <2>9 DEF VarsOK
    <3>3. HomeOf[q] = s => ~InBatch(q)'
      BY <2>2, <3>2 DEF InBatch
    <3>4. HomeOf[q] # s => (InBatch(q)' <=> InBatch(q)) /\ batch'[HomeOf[q]] = batch[HomeOf[q]]
      BY <1>0, <2>4 DEF InBatch
    <3>5. CASE q \in DOMAIN m
      <4>1. InTasks(q)' # {} /\ InFlight(q)' /\ ~InBatch(q)'
        BY <2>2, <3>1, <3>3, <3>5 DEF InFlight
      <4>2. InChannel(q)' = {} => LastInTasks(q, v)'
        BY <2>7, <3>1, <3>5
      <4> QED BY <1>0, <2>1, <2>7, <2>8, <3>5, <4>1, <4>2 DEF KeptFor
    <3>6. CASE q \notin DOMAIN m
      <4>1. q # p /\ (InBatch(q)' <=> InBatch(q)) /\ (InBatch(q) => batch'[HomeOf[q]] = batch[HomeOf[q]])
        BY <2>5, <2>6, <3>3, <3>4, <3>6
      <4>2. InTasks(q)' = InTasks(q) /\ (LastInTasks(q, v)' <=> LastInTasks(q, v))
        BY <3>1, <3>6
      <4>3. InFlight(q)' <=> InFlight(q)
        BY <2>3, <4>1, <4>2 DEF InFlight
      <4> QED BY <1>0, <2>1, <2>3, <2>8, <4>1, <4>2, <4>3 DEF KeptFor
    <3> QED BY <3>5, <3>6
  <2>10. CASE tasks' = tasks /\ batch' = [batch EXCEPT ![s] = m]
    <3>1. InTasks(q)' = InTasks(q) /\ (LastInTasks(q, v)' <=> LastInTasks(q, v))
      BY <2>10 DEF InTasks, LastInTasks
    <3>2. batch'[s] = m
      BY <2>2, <2>10 DEF VarsOK
    <3>3. q \in DOMAIN m => InBatch(q)' /\ batch'[HomeOf[q]][q] = m[q]
      BY <2>2, <3>2 DEF InBatch
    <3>4. q \notin DOMAIN m => (InBatch(q)' <=> InBatch(q))
                               /\ (InBatch(q) => batch'[HomeOf[q]] = batch[HomeOf[q]])
      BY <1>0, <2>2, <2>4, <2>5, <2>6, <3>2 DEF InBatch
    <3>5. CASE q \in DOMAIN m
      <4>1. InBatch(q)' /\ InFlight(q)'
        BY <3>3, <3>5 DEF InFlight
      <4> QED BY <1>0, <2>1, <2>7, <2>8, <3>3, <3>5, <4>1 DEF KeptFor
    <3>6. CASE q \notin DOMAIN m
      <4>1. q # p /\ (InBatch(q)' <=> InBatch(q)) /\ (InBatch(q) => batch'[HomeOf[q]] = batch[HomeOf[q]])
        BY <2>5, <3>4, <3>6
      <4>2. InFlight(q)' <=> InFlight(q)
        BY <2>3, <3>1, <4>1 DEF InFlight
      <4> QED BY <1>0, <2>1, <2>3, <2>8, <3>1, <4>1, <4>2 DEF KeptFor
    <3> QED BY <3>5, <3>6
  <2> QED BY <2>1, <2>9, <2>10 DEF s
<1>13. ASSUME DOMAIN tasks' = DOMAIN tasks,
              \A k \in DOMAIN tasks : tasks'[k].updates = tasks[k].updates,
              UNCHANGED <<phase, channel, batch, owed, info>>,
              raced[HomeOf[q]] => raced'[HomeOf[q]]
       PROVE  KeptFor(q, owed[q])'
  <2>1. InTasks(q)' = InTasks(q) /\ (LastInTasks(q, v)' <=> LastInTasks(q, v))
    BY <1>13, SameTasks
  <2>2. /\ InChannel(q)' = InChannel(q) /\ (InBatch(q)' <=> InBatch(q))
        /\ (InFlight(q)' <=> InFlight(q)) /\ (LastInChannel(q, v)' <=> LastInChannel(q, v))
    BY <1>13, <2>1 DEF InChannel, InBatch, InFlight, LastInChannel
  <2>3. KeptFor(q, v)'
    BY <1>0, <1>13, <2>1, <2>2 DEF KeptFor
  <2> QED BY <1>13, <1>a, <2>3
<1>14. ASSUME NEW k \in DOMAIN tasks, Acquire(k) PROVE KeptFor(q, owed[q])'
  BY <1>0, <1>13, <1>14, AcquireFacts
<1>15. ASSUME NEW k \in DOMAIN tasks, UpdateUnderworld(k) PROVE KeptFor(q, owed[q])'
  BY <1>0, <1>13, <1>15, UnderworldFacts
<1>16. ASSUME NEW k \in DOMAIN tasks, UpdateScrapbook(k) PROVE KeptFor(q, owed[q])'
  <2> DEFINE s == tasks[k].server
             us == tasks[k].updates
             h == HomeOf[q]
  <2>1. /\ info' = [info EXCEPT ![s] = InfoAfter(info[s], us)]
        /\ UNCHANGED <<phase, channel, batch, owed, raced>>
        /\ tasks[k].at = "scrapbook"
    BY <1>16, ScrapbookFacts
  <2>2. /\ s \in Servers /\ us \in Maps(Contents) /\ info[s] \in Maps(Contents)
        /\ q \in DOMAIN us => h = s
    BY TaskTypes, CacheTypes, Members DEF HomeOK
  <2>3. /\ DOMAIN InfoAfter(info[s], us) = DOMAIN info[s] \cup DOMAIN us
        /\ \A p \in DOMAIN us : InfoAfter(info[s], us)[p] = us[p]
        /\ \A p \in DOMAIN info[s] \ DOMAIN us : InfoAfter(info[s], us)[p] = info[s][p]
    BY <2>2, InfoFacts
  <2>4. info'[s] = InfoAfter(info[s], us) /\ \A r \in Servers : r # s => info'[r] = info[r]
    BY <2>1, <2>2 DEF VarsOK
  <2>5. q \in DOMAIN us => q \in DOMAIN info'[h] /\ info'[h][q] = us[q]
    BY <2>2, <2>3, <2>4
  <2>6. q \notin DOMAIN us => /\ q \in DOMAIN info'[h] <=> q \in DOMAIN info[h]
                              /\ q \in DOMAIN info[h] => info'[h][q] = info[h][q]
    BY <1>0, <2>2, <2>3, <2>4
  <2>7. /\ InChannel(q)' = InChannel(q) /\ (InBatch(q)' <=> InBatch(q))
        /\ (LastInChannel(q, v)' <=> LastInChannel(q, v))
    BY <2>1 DEF InChannel, InBatch, LastInChannel
  <2>8. CASE q \notin DOMAIN us
    <3>1. /\ InTasks(q)' = {} <=> InTasks(q) = {}
          /\ LastInTasks(q, v) => LastInTasks(q, v)'
      BY <1>16, <2>8, TaskGone
    <3>2. InFlight(q)' <=> InFlight(q)
      BY <2>7, <3>1 DEF InFlight
    <3> QED BY <1>0, <2>1, <2>6, <2>7, <2>8, <3>1, <3>2 DEF KeptFor
  <2>9. CASE q \in DOMAIN us
    <3>1. InTasks(q) # {} /\ InFlight(q)
      BY <2>9 DEF InTasks, InFlight
    <3>2. raced[h] \/ \A j \in InTasks(q) : j >= k
      <4>1. raced[s] \/ \A j \in 1..(k - 1) : tasks[j].server # s
        BY <2>1 DEF WorkerOK
      <4>2. \A j \in InTasks(q) : j \in DOMAIN tasks /\ tasks[j].server = s
        BY <2>2, <2>9, TaskTypes, Members DEF InTasks, HomeOK
      <4>3. k \in Nat /\ DOMAIN tasks = 1..Len(tasks) /\ Len(tasks) \in Nat
        BY TaskTypes
      <4> QED BY <2>2, <2>9, <4>1, <4>2, <4>3
    <3>3. ~raced[h] /\ LastInTasks(q, v) =>
             IF InTasks(q)' = {} THEN v = us[q] ELSE LastInTasks(q, v)'
      BY <1>16, <2>9, <3>2, TaskGone
    <3>4. InFlight(q)' <=> InChannel(q) # {} \/ InBatch(q) \/ InTasks(q)' # {}
      BY <2>7 DEF InFlight
    <3> HIDE DEF us
    <3> QED BY <1>0, <2>1, <2>5, <2>7, <2>9, <3>1, <3>3, <3>4 DEF KeptFor
  <2> QED BY <2>8, <2>9
<1>17. CASE UNCHANGED vars
  BY <1>1, <1>17 DEF vars, life, caches
<1> QED BY <1>4, <1>5, <1>6, <1>7, <1>8, <1>9, <1>10, <1>11, <1>12, <1>14, <1>15, <1>16, <1>17
        DEF Next, Work

(* What was fetched for a player nothing was sent for stays as committed. *)
LEMMA LoadedStep ==
  VarsOK /\ PhaseOK /\ HomeOK /\ WorkerOK /\ KeptOK /\ LoadedOK /\ [Next]_vars => LoadedOK'
<1> SUFFICES ASSUME VarsOK, PhaseOK, HomeOK, WorkerOK, KeptOK, LoadedOK, [Next]_vars,
                    NEW q \in Players
             PROVE  LoadedFor(q)'
  BY DEF LoadedOK
<1> DEFINE h == HomeOf[q]
<1>0. LoadedFor(q) /\ h \in Servers /\ q \in PlayersOf(h)
  BY Members DEF LoadedOK
<1>1. ASSUME UNCHANGED <<open, owed, fill, info>>, db'[q] = db[q], phase' # "dead" => phase # "dead"
      PROVE  LoadedFor(q)'
  BY <1>0, <1>1 DEF LoadedFor
<1>2. ASSUME phase \in {"off", "starting", "dead"}
      PROVE  fill[h] = Done /\ DOMAIN info[h] = {}
  BY <1>0, <1>2, NoMapIsAMap DEF PhaseOK
<1>3. ASSUME NEW p \in Players, NEW u \in Contents, Send(p, u), db' = db,
             NEW x \in SomeContent, open' = [open EXCEPT ![p] = x], x # Gone,
             x = None \/ x = u
      PROVE  LoadedFor(q)'
  <2>1. /\ phase = "dead" => phase' = "dead" /\ owed' = owed
        /\ phase # "dead" => phase' # "dead" /\ owed' = [owed EXCEPT ![p] = u]
        /\ UNCHANGED <<fill, info>>
    BY <1>3, SendFacts
  <2>2. open \in [Players -> SomeContent] /\ owed \in [Players -> SomeContent] /\ u # None /\ None \notin Updates
    BY Members DEF VarsOK
  <2>3. CASE q # p
    <3>1. open'[q] = open[q] /\ owed'[q] = owed[q]
      BY <1>3, <2>1, <2>2, <2>3
    <3> QED BY <1>0, <1>3, <2>1, <3>1 DEF LoadedFor
  <2>4. CASE q = p /\ phase # "dead"
    <3>1. owed'[q] = u
      BY <2>1, <2>2, <2>4
    <3> QED BY <2>2, <3>1 DEF LoadedFor
  <2>5. CASE q = p /\ phase = "dead"
    <3>1. fill'[h] = Done /\ DOMAIN info'[h] = {} /\ phase' = "dead"
      BY <1>2, <2>1, <2>5
    <3> QED BY <3>1 DEF LoadedFor
  <2> QED BY <2>3, <2>4, <2>5
<1>4. ASSUME NEW p \in Players, NEW u \in Updates, Report(p, u) PROVE LoadedFor(q)'
  BY <1>3, <1>4, Members DEF Report
<1>5. ASSUME NEW p \in Players, AnnounceRemoved(p) PROVE LoadedFor(q)'
  <2>1. None \in SomeContent /\ None # Gone /\ Gone \in Contents
    BY Members
  <2>2. Send(p, Gone) /\ db' = db /\ open' = [open EXCEPT ![p] = None]
    BY <1>5 DEF AnnounceRemoved
  <2> QED BY <1>3, <2>1, <2>2
<1>6. ASSUME NEW p \in Players, Conclude(p) PROVE LoadedFor(q)'
  <2>1. /\ open' = [open EXCEPT ![p] = None] /\ open[p] \in Updates
        /\ UNCHANGED <<phase, fill, info, owed>>
        /\ q # p => db'[q] = db[q]
    BY <1>6 DEF Conclude, VarsOK, life, caches
  <2>2. CASE q # p
    <3>1. open'[q] = open[q]
      BY <2>1, <2>2 DEF VarsOK
    <3> QED BY <1>0, <2>1, <2>2, <3>1 DEF LoadedFor
  <2>3. CASE q = p
    <3>1. open'[q] = None /\ None \notin Updates
      BY <2>1, <2>3, Members DEF VarsOK
    <3>2. CASE phase = "dead"
      BY <1>2, <2>1, <3>1, <3>2 DEF LoadedFor
    <3>3. CASE phase # "dead"
      <4>1. owed[q] # None
        BY <1>0, <2>1, <2>3, <3>3 DEF LoadedFor
      <4> QED BY <2>1, <4>1 DEF LoadedFor
    <3> QED BY <3>2, <3>3
  <2> QED BY <2>2, <2>3
<1>7. ASSUME NEW p \in Players, FlagRemoved(p) PROVE LoadedFor(q)'
  <2>1. /\ open' = [open EXCEPT ![p] = Gone] /\ db' = [db EXCEPT ![p] = Gone]
        /\ UNCHANGED <<phase, fill, info, owed>>
    BY <1>7 DEF FlagRemoved, life, caches
  <2>2. CASE q # p
    <3>1. open'[q] = open[q] /\ db'[q] = db[q]
      BY <2>1, <2>2 DEF VarsOK
    <3> QED BY <1>0, <2>1, <3>1 DEF LoadedFor
  <2>3. CASE q = p
    <3>1. open'[q] = Gone /\ Gone \notin Updates /\ Gone # None
      BY <2>1, <2>3, Members DEF VarsOK
    <3> QED BY <3>1 DEF LoadedFor
  <2> QED BY <2>2, <2>3
<1>8. CASE Advise \/ Filled
  <2>1. UNCHANGED <<db, open, owed, fill, info>> /\ (phase' # "dead" => phase # "dead")
    BY <1>8 DEF Advise, Touch, Filled, caches
  <2> QED BY <1>1, <2>1
<1>9. CASE ListServers
  <2>1. /\ UNCHANGED <<db, open, owed, info>> /\ phase # "dead"
        /\ fill'[h] \in {Todo, Done}
    BY <1>0, <1>9 DEF ListServers, caches
  <2> QED BY <1>0, <2>1 DEF LoadedFor
<1>10. CASE StartFails
  <2>1. phase' = "dead" /\ phase = "starting" /\ UNCHANGED <<fill, info>>
    BY <1>10 DEF StartFails, caches
  <2> QED BY <1>2, <2>1 DEF LoadedFor
<1>11. CASE Restart
  <2>1. open'[q] = None /\ fill'[h] = Done /\ info'[h] = NoMap /\ None \notin Updates
    BY <1>0, <1>11, Members DEF Restart
  <2> QED BY <2>1, NoMapIsAMap DEF LoadedFor
<1>12. ASSUME NEW s \in Servers, Fetch(s) PROVE LoadedFor(q)'
  <2> DEFINE S == {p \in PlayersOf(s) : db[p] \in Updates}
             m == [p \in S |-> db[p]]
  <2>1. fill' = [fill EXCEPT ![s] = m] /\ UNCHANGED <<db, open, phase, owed, info>>
    BY <1>12 DEF Fetch, caches
  <2>2. q \in DOMAIN m => m[q] = db[q]
    OBVIOUS
  <2> HIDE DEF m
  <2>3. fill'[h] = IF h = s THEN m ELSE fill[h]
    BY <1>0, <2>1 DEF VarsOK
  <2> QED BY <1>0, <2>1, <2>2, <2>3 DEF LoadedFor
<1>13. ASSUME NEW s \in Servers, FetchFails(s) PROVE LoadedFor(q)'
  <2>1. fill' = [fill EXCEPT ![s] = Done] /\ UNCHANGED <<db, open, phase, owed, info>>
    BY <1>13 DEF FetchFails, caches
  <2>2. fill'[h] = IF h = s THEN Done ELSE fill[h]
    BY <1>0, <2>1 DEF VarsOK
  <2> QED BY <1>0, <2>1, <2>2 DEF LoadedFor
<1>14. ASSUME NEW s \in Servers, Age(s) PROVE LoadedFor(q)'
  BY <1>1, <1>14 DEF Age, life, caches
<1>15. ASSUME NEW s \in Servers, Store(s) PROVE LoadedFor(q)'
  <2>1. /\ fill[s] \in Maps(Contents) /\ fill[s] \notin {Todo, Done}
        /\ info' = [info EXCEPT ![s] = InfoAfter(info[s], fill[s])]
        /\ fill' = [fill EXCEPT ![s] = Done]
        /\ UNCHANGED <<db, open, phase, owed>>
    BY <1>15, StoreFacts DEF Store
  <2>2. /\ DOMAIN InfoAfter(info[s], fill[s]) = DOMAIN info[s] \cup DOMAIN fill[s]
        /\ \A p \in DOMAIN fill[s] : InfoAfter(info[s], fill[s])[p] = fill[s][p]
        /\ \A p \in DOMAIN info[s] \ DOMAIN fill[s] : InfoAfter(info[s], fill[s])[p] = info[s][p]
    BY <2>1, CacheTypes, InfoFacts
  <2>3. /\ fill'[h] = IF h = s THEN Done ELSE fill[h]
        /\ info'[h] = IF h = s THEN InfoAfter(info[s], fill[s]) ELSE info[h]
    BY <1>0, <2>1 DEF VarsOK
  <2>4. CASE h # s
    BY <1>0, <2>1, <2>3, <2>4 DEF LoadedFor
  <2>5. CASE h = s
    BY <1>0, <2>1, <2>2, <2>3, <2>5 DEF LoadedFor
  <2> QED BY <2>4, <2>5
<1>16. CASE Receive
  <2>1. UNCHANGED <<db, open, phase, owed, fill, info>>
    BY <1>16, ReceiveFacts DEF Received
  <2> QED BY <1>1, <2>1
<1>17. ASSUME NEW k \in DOMAIN tasks, Acquire(k) PROVE LoadedFor(q)'
  BY <1>1, <1>17, AcquireFacts
<1>18. ASSUME NEW k \in DOMAIN tasks, UpdateUnderworld(k) PROVE LoadedFor(q)'
  <2>1. UNCHANGED <<db, open, phase, owed, fill, info>>
    BY <1>18, UnderworldFacts
  <2> QED BY <1>1, <2>1
<1>19. ASSUME NEW k \in DOMAIN tasks, UpdateScrapbook(k) PROVE LoadedFor(q)'
  <2> DEFINE s == tasks[k].server
             us == tasks[k].updates
  <2>1. /\ info' = [info EXCEPT ![s] = InfoAfter(info[s], us)]
        /\ UNCHANGED <<db, open, phase, fill, owed>>
    BY <1>19, ScrapbookFacts
  <2>2. s \in Servers /\ us \in Maps(Contents) /\ info[s] \in Maps(Contents)
    BY TaskTypes, CacheTypes
  <2>3. /\ DOMAIN InfoAfter(info[s], us) = DOMAIN info[s] \cup DOMAIN us
        /\ \A p \in DOMAIN info[s] \ DOMAIN us : InfoAfter(info[s], us)[p] = info[s][p]
    BY <2>2, InfoFacts
  <2>4. q \in DOMAIN us => owed[q] # None
    <3>1. ASSUME q \in DOMAIN us PROVE InFlight(q)
      BY <3>1 DEF InFlight, InTasks
    <3> QED BY <3>1 DEF KeptOK, KeptFor
  <2>5. info'[h] = IF h = s THEN InfoAfter(info[s], us) ELSE info[h]
    BY <1>0, <2>1, <2>2 DEF VarsOK
  <2> HIDE DEF us, s
  <2>6. CASE q \in DOMAIN us
    BY <1>0, <2>1, <2>4, <2>6 DEF LoadedFor
  <2>7. CASE q \notin DOMAIN us
    BY <1>0, <2>1, <2>3, <2>5, <2>7 DEF LoadedFor
  <2> QED BY <2>6, <2>7
<1>20. CASE UNCHANGED vars
  BY <1>1, <1>20 DEF vars, life, caches
<1> QED BY <1>4, <1>5, <1>6, <1>7, <1>8, <1>9, <1>10, <1>11, <1>12, <1>13, <1>14, <1>15, <1>16,
           <1>17, <1>18, <1>19, <1>20 DEF Next, Work

-----------------------------------------------------------------------------
(* The invariant, and what follows from it *)

(* It holds when the process starts and after every step of it. *)
LEMMA AtStart == Init => IInv
<1> SUFFICES ASSUME Init PROVE IInv
  OBVIOUS
<1>1. VarsOK
  BY VarsInit
<1>2. /\ channel = <<>> /\ tasks = <<>> /\ DOMAIN tasks = {} /\ DOMAIN channel = {} /\ phase = "off"
      /\ \A s \in Servers : fill[s] = Done /\ batch[s] = None /\ aged[s] = FALSE
                            /\ nude[s] = NoMap /\ info[s] = NoMap /\ index[s] = NoMap
      /\ \A p \in Players : owed[p] = None /\ open[p] = None
  BY DEF Init
<1>3. PhaseOK
  BY <1>2 DEF PhaseOK
<1>4. HomeOK
  BY <1>2, NoMapIsAMap DEF HomeOK
<1>5. WorkerOK
  BY <1>2 DEF WorkerOK
<1>6. IndexesOK
  BY <1>2, NoMapIsAMap DEF IndexesOK, IndexOK
<1>7. NudesOK
  BY <1>2, NoMapIsAMap DEF NudesOK
<1>8. ASSUME NEW p \in Players PROVE KeptFor(p, owed[p])
  <2>1. ~InFlight(p)
    BY <1>2, Members DEF InFlight, InChannel, InBatch, InTasks
  <2> QED BY <1>2, <2>1 DEF KeptFor, InFlight
<1>9. ASSUME NEW p \in Players PROVE LoadedFor(p)
  BY <1>2, Members, NoMapIsAMap DEF LoadedFor
<1> QED BY <1>1, <1>3, <1>4, <1>5, <1>6, <1>7, <1>8, <1>9 DEF IInv, KeptOK, LoadedOK

LEMMA EveryStep == IInv /\ [Next]_vars => IInv'
  BY VarsStep, PhaseStep, HomeStep, WorkerStep, IndexesStep, NudesStep, KeptStep, LoadedStep
     DEF IInv

LEMMA InvariantHolds == Spec => []IInv
  BY AtStart, EveryStep, PTL DEF Spec

(* When no task has p between the caches, both show what player_info has. *)
LEMMA ShownFacts ==
  ASSUME IInv, NEW p \in Players, InTasks(p) = {}, NEW u \in Contents,
         p \in DOMAIN info[HomeOf[p]], info[HomeOf[p]][p] = u
  PROVE  Shown(p, u)
<1> DEFINE s == HomeOf[p]
<1>1. s \in Servers
  BY Members
<1>2. \A i \in DOMAIN index[s] : p \in index[s][i] <=> i \in Items(u)
  BY <1>1 DEF IInv, IndexesOK, IndexOK
<1>3. NudeShows(nude[s], p, u)
  BY <1>1 DEF IInv, NudesOK
<1> QED BY <1>2, <1>3 DEF Shown, NudeShows

(* Every variable of the caches and of the way to them keeps its shape,    *)
(* players stay with their server, full batches leave and the semaphore    *)
(* lets one task work.                                                     *)
THEOREM TypeCorrect == Spec => []TypeOK
<1>1. IInv => TypeOK
  <2> SUFFICES ASSUME IInv PROVE TypeOK
    OBVIOUS
  <2>1. VarsOK /\ HomeOK /\ WorkerOK /\ IndexesOK
    BY DEF IInv
  <2>2. \A s \in Servers : fill[s] \notin {Todo, Done} => IsMap(fill[s], Updates)
    BY <2>1, CacheTypes, MapFacts DEF IsMap
  <2>3. ASSUME NEW s \in Servers
        PROVE  /\ batch[s] # None =>
                    IsMap(batch[s], Contents) /\ Cardinality(DOMAIN batch[s]) < BatchSize
               /\ batch[s] = None => ~aged[s]
               /\ IsMap(nude[s], Updates) /\ IsMap(info[s], Contents)
               /\ DOMAIN info[s] \subseteq PlayersOf(s)
    BY <2>1, CacheTypes, MapFacts DEF HomeOK, IsMap
  <2>4. ASSUME NEW s \in Servers
        PROVE  /\ DOMAIN index[s] \subseteq Idents
               /\ \A i \in DOMAIN index[s] : index[s][i] \subseteq DOMAIN info[s]
    BY <2>1, CacheTypes, IndexFacts DEF IndexesOK, IndexOK
  <2>5. ASSUME NEW k \in DOMAIN tasks
        PROVE  /\ IsMap(tasks[k].updates, Contents)
               /\ \A j \in DOMAIN tasks : tasks[j].at # "queued" /\ tasks[k].at # "queued" => j = k
    BY <2>1, TaskTypes, MapFacts DEF WorkerOK, IsMap
  <2> QED BY <2>1, <2>2, <2>3, <2>4, <2>5 DEF TypeOK, VarsOK, SomeContent
<1> QED BY <1>1, InvariantHolds, PTL

(* The last update sent for a player is never lost on its way through the  *)
(* channel, the batches of server_updates and the tasks spawned for them,  *)
(* nor overtaken by an older one of the same player.                       *)
THEOREM LastUpdateIsKept == Spec => []LastUpdateKept
<1>1. IInv => LastUpdateKept
  <2> SUFFICES ASSUME IInv, NEW p \in Players, owed[p] # None, InFlight(p)
               PROVE  IF InChannel(p) # {} THEN owed[p] = channel[Max(InChannel(p))][2]
                      ELSE IF InBatch(p) THEN owed[p] = batch[HomeOf[p]][p]
                      ELSE raced[HomeOf[p]] \/ owed[p] = tasks[Max(InTasks(p))].updates[p]
    BY DEF LastUpdateKept
  <2>1. KeptFor(p, owed[p])
    BY DEF IInv, KeptOK
  <2>2. InChannel(p) \in SUBSET Nat /\ InTasks(p) \in SUBSET Nat
    BY TaskTypes DEF IInv, VarsOK, InChannel, InTasks
  <2>3. CASE InChannel(p) # {}
    <3>1. PICK k \in InChannel(p) : channel[k][2] = owed[p] /\ \A j \in InChannel(p) : j <= k
      BY <2>1, <2>3 DEF KeptFor, LastInChannel
    <3>2. Max(InChannel(p)) = k
      BY <2>2, <3>1, MaxIs
    <3> QED BY <2>3, <3>1, <3>2
  <2>4. CASE InChannel(p) = {} /\ InBatch(p)
    BY <2>1, <2>4 DEF KeptFor
  <2>5. CASE InChannel(p) = {} /\ ~InBatch(p) /\ ~raced[HomeOf[p]]
    <3>1. LastInTasks(p, owed[p])
      BY <2>1, <2>5 DEF KeptFor, InFlight
    <3>2. PICK k \in InTasks(p) : tasks[k].updates[p] = owed[p] /\ \A j \in InTasks(p) : j <= k
      BY <3>1 DEF LastInTasks
    <3>3. Max(InTasks(p)) = k
      BY <2>2, <3>2, MaxIs
    <3> QED BY <2>5, <3>2, <3>3
  <2> QED BY <2>3, <2>4, <2>5
<1> QED BY <1>1, InvariantHolds, PTL

(* Once nothing is under way for a player, SCRAPBOOK_PLAYER_CACHE and      *)
(* NUDE_PLAYER_CACHE show the last update sent for it, although they are   *)
(* filled, read and written in steps of their own, if batches of its       *)
(* server were applied in order.                                           *)
THEOREM CachesConverge == Spec => []Converged
<1>1. IInv => Converged
  <2> SUFFICES ASSUME IInv, NEW p \in Players, owed[p] # None, ~InFlight(p), ~raced[HomeOf[p]]
               PROVE  Shown(p, owed[p])
    BY DEF Converged
  <2>1. KeptFor(p, owed[p]) /\ owed[p] \in Contents
    BY DEF IInv, KeptOK, VarsOK, SomeContent
  <2>2. p \in DOMAIN info[HomeOf[p]] /\ info[HomeOf[p]][p] = owed[p]
    BY <2>1 DEF KeptFor
  <2>3. InTasks(p) = {}
    BY DEF InFlight
  <2> QED BY <2>1, <2>2, <2>3, ShownFacts
<1> QED BY <1>1, InvariantHolds, PTL

(* A player nothing was sent for is shown as the database has it or not at *)
(* all: what was fetched is not mixed up by the updates of others.         *)
THEOREM LoadedIsAsCommitted == Spec => []LoadedAsCommitted
<1>1. IInv => LoadedAsCommitted
  <2> SUFFICES ASSUME IInv, NEW p \in Players, owed[p] = None, open[p] = None,
                      p \in DOMAIN info[HomeOf[p]]
               PROVE  Shown(p, db[p])
    BY DEF LoadedAsCommitted
  <2>1. info[HomeOf[p]][p] = db[p]
    BY DEF IInv, LoadedOK, LoadedFor
  <2>2. db[p] \in Contents
    BY <2>1, CacheTypes, MapFacts, Members DEF IInv
  <2>3. InTasks(p) = {}
    BY DEF IInv, KeptOK, KeptFor, InFlight
  <2> QED BY <2>1, <2>2, <2>3, ShownFacts
<1> QED BY <1>1, InvariantHolds, PTL
=============================================================================
