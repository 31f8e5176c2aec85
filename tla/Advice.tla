------------------------------- MODULE Advice -------------------------------
(***************************************************************************)
(* How users are answered: get_scrapbook_advice (src/src/db/scrapbook.rs), *)
(* get_best_nude_players (underworld.rs) and get_servers (stats.rs), with  *)
(* what they share: the caches of a server as sorted lists, the pool of    *)
(* game states and the lookup of server ids (mod.rs), and the cached       *)
(* answers.  Requests run beside each other and beside the task that       *)
(* applies batches of updates; CacheUpdates says which batches these are.  *)
(* One server; requests for others share with these only locks.            *)
(***************************************************************************)
EXTENDS CacheContents, DeltaVarint, Idents

CONSTANTS
  Handlers,   \* requests in progress
  Batches,    \* batches of updates: maps from player ids to contents
  StatsOf,    \* StatsOf[u]: the sum of attributes in an update
  LevelOf,    \* LevelOf[u]: the level in it
  Questions,  \* ScrapBookAdviceArgs
  BookOf,     \* BookOf[q]: the items in its scrapbook
  BookKind,   \* BookKind[q]: "good", or how update takes it, see Updated
  Rowless,    \* player ids of the caches that may have no row in player
  MaxOf,      \* MaxOf[q]: its max_attrs
  Strengths,  \* max_attrs of the requests for nude players
  Limit,      \* 10: how many targets are proposed
  Size,       \* 20: how many nude players are
  ResultAge,  \* an hour: how long a cached answer is given
  ServersAge, \* six hours: the same for the list of servers
  MaxWork     \* bound: questions, batches and ticks of the clock in all

(* The slots of a character's equipment. *)
MaxEquip == 10

ASSUME AdviceAssumption ==
  /\ IsFiniteSet(Handlers) /\ None \notin Handlers \cup Seq([player : Nat, as : Contents])
  /\ \A b \in Batches : /\ IsFiniteSet(DOMAIN b) /\ DOMAIN b \subseteq 0..Width - 1
                        /\ \A p \in DOMAIN b : b[p] \in Contents
  /\ \A u \in Updates : IsFiniteSet(ItemsOf[u]) /\ Cardinality(ItemsOf[u]) <= MaxEquip
  /\ StatsOf \in [Updates -> Nat] /\ LevelOf \in [Updates -> Nat]
  /\ MaxOf \in [Questions -> Nat] /\ BookOf \in [Questions -> SUBSET Equipment]
  /\ BookKind \in [Questions -> {"good", "absent", "refused", "unparsable"}]
  /\ \A q \in Questions : {compress_ident(e) : e \in BookOf[q]} # None
  /\ Strengths \subseteq Nat
  /\ Limit \in Nat \ {0, 1} /\ Size \in Nat \ {0}
  /\ ResultAge \in Nat \ {0} /\ ServersAge \in Nat \ {0} /\ MaxWork \in Nat

VARIABLES
  scrap,      \* SCRAPBOOK_PLAYER_CACHE: [info, equipment], and whether there is one
  nudes,      \* NUDE_PLAYER_CACHE: sequence of [player, as], or None
  applying,   \* the batch the second cache has not got yet, or None
  connected,  \* the connection pool exists
  known,      \* the server is in LOOKUP_CACHE
  writer,     \* who has its write lock, or None
  pool,       \* GAMESTATE_POOL: sequence of [by, book]: its holder, what was left in it
  results,    \* RESULT_CACHE of the scrapbook advice
  servers,    \* RESULT_CACHE of get_servers: when it was filled, or None
  counter,    \* who has its mutex, or None
  req,        \* req[r]: the request of handler r
  now, work,
  version     \* history variable: batches the scrapbook cache has got

store == <<scrap, nudes, applying, version>>
ids == <<connected, known, writer>>
roster == <<servers, counter>>
clock == <<now, work>>
vars == <<store, ids, pool, results, roster, req, clock>>

Stats(u) == IF u = Gone THEN 0 ELSE StatsOf[u]
Level(u) == IF u = Gone THEN 0 ELSE LevelOf[u]
Least(a, b) == IF a < b THEN a ELSE b

Idle == [at |-> "idle", kind |-> None, about |-> None, data |-> None, best |-> <<>>,
         unnamed |-> {}, version |-> 0, crossed |-> FALSE, stored |-> None, asked |-> 0]

Init ==
  /\ scrap = [cached |-> FALSE, info |-> NoMap, equipment |-> NoMap]
  /\ nudes = None /\ applying = None /\ version = 0
  /\ connected = FALSE /\ known = FALSE /\ writer = None
  /\ pool = <<>>
  /\ results = [q \in Questions |-> None]
  /\ servers = None /\ counter = None
  /\ req = [r \in Handlers |-> Idle]
  /\ now = 0 /\ work = 0

-----------------------------------------------------------------------------
(* Slices *)

(* Where binary_search may land: at any equal key, or where it would go.   *)
Landings(keys, k) ==
  LET equal == {j \in DOMAIN keys : keys[j] = k}
  IN  IF equal # {} THEN equal ELSE {1 + Cardinality({j \in DOMAIN keys : keys[j] < k})}

(* sort_by: all orders that Leq allows; what is equal stays in the order a *)
(* hash map yields it.                                                     *)
Sortings(S, Leq(_, _)) ==
  {s \in SetToSeqs(S) : \A j \in 1..Len(s) - 1 : Leq(s[j], s[j + 1])}

-----------------------------------------------------------------------------
(* The caches of the server, changed by the one task that has the permit   *)

(* One player in the list of one item. *)
Corrected_Appends(players, pid, owns) ==
  LET at == CHOOSE k \in Landings(players, pid) : TRUE
      present == at \in DOMAIN players /\ players[at] = pid
  IN  IF owns THEN IF present THEN players ELSE Append(players, pid)
      ELSE IF present THEN RemoveAt(players, at) ELSE players

Corrected(players, pid, owns) ==
  LET at == CHOOSE k \in Landings(players, pid) : TRUE
      present == at \in DOMAIN players /\ players[at] = pid
  IN  IF owns THEN IF present THEN players ELSE InsertAt(players, at, pid)
      ELSE IF present THEN RemoveAt(players, at) ELSE players

(* The first batch pushes players in the order the map yields them, then   *)
(* sorts and dedups; later ones correct the list of every item that is     *)
(* there for one player after the other.                                   *)
Pushed(updates, order) ==
  [i \in UNION {Items(updates[p]) : p \in DOMAIN updates} |->
     CHOOSE s \in Sortings({p \in ToSet(order) : i \in Items(updates[p])}, <) : TRUE]

Patched(equipment, updates, order) ==
  LET lists[k \in 0..Len(order)] ==
        IF k = 0 THEN [i \in DOMAIN equipment |-> to_vec(equipment[i])]
        ELSE [i \in DOMAIN equipment |->
                Corrected(lists[k - 1][i], order[k], i \in Items(updates[order[k]]))]
  IN  lists[Len(order)]

update_scrapbook_cache(old, updates, order) ==
  LET lists == IF DOMAIN old.equipment = {} THEN Pushed(updates, order)
               ELSE Patched(old.equipment, updates, order)
  IN  [cached |-> TRUE, info |-> InfoAfter(old.info, updates),
       equipment |-> [i \in DOMAIN lists |-> from_sorted(lists[i])]]

NudeMap == IF nudes = None THEN NoMap
           ELSE [p \in {nudes[k].player : k \in DOMAIN nudes} |->
                   (CHOOSE e \in ToSet(nudes) : e.player = p).as]

(* update_underworld_enemies: strongest first. *)
UpdateUnderworld(b) ==
  /\ applying = None /\ work < MaxWork
  /\ LET after == NudeAfter(NudeMap, b)
     IN  \E s \in Sortings({[player |-> p, as |-> after[p]] : p \in DOMAIN after},
                           LAMBDA d, e : Stats(d.as) >= Stats(e.as)) : nudes' = s
  /\ applying' = b /\ work' = work + 1
  /\ UNCHANGED <<scrap, version, ids, pool, results, roster, req, now>>

UpdateScrapbook ==
  /\ applying # None
  /\ \E order \in SetToSeqs(DOMAIN applying) :
       scrap' = update_scrapbook_cache(scrap, applying, order)
  /\ applying' = None /\ version' = version + 1
  /\ UNCHANGED <<nudes, ids, pool, results, roster, req, clock>>

-----------------------------------------------------------------------------
(* Requests: the cached answer, the connection, the id of the server       *)

Start(r, kind, about, at) ==
  /\ req[r].at \in {"idle", "done"} /\ work < MaxWork
  /\ req' = [req EXCEPT ![r] = [Idle EXCEPT !.at = at, !.kind = kind, !.about = about,
                                            !.asked = now]]
  /\ work' = work + 1
  /\ UNCHANGED <<store, ids, pool, results, roster, now>>

Fresh_Swapped(q) == results[q] # None /\ results[q].stored + ResultAge <= now
Fresh(q) == results[q] # None /\ results[q].stored + ResultAge > now

Ask(r, q) == ~Fresh(q) /\ Start(r, "targets", q, "lookup")
AskNude(r, m) == Start(r, "nude", m, "lookup")
AskServers(r) == Start(r, "servers", None, "slot")

AnswerFromCache(r, q) ==
  /\ Fresh(q)
  /\ req[r].at \in {"idle", "done"} /\ work < MaxWork
  /\ req' = [req EXCEPT ![r] = [Idle EXCEPT !.at = "done", !.kind = "targets",
                !.about = q, !.best = results[q].best, !.unnamed = results[q].unnamed,
                !.data = results[q].data, !.stored = results[q].stored, !.asked = now]]
  /\ work' = work + 1
  /\ UNCHANGED <<store, ids, pool, results, roster, now>>

(* get_db: one task connects, the others wait; it may fail for each. *)
Connect(r) ==
  /\ req[r].at \in {"lookup", "count"} /\ ~connected
  /\ connected' = TRUE
  /\ UNCHANGED <<store, known, writer, pool, results, roster, req, clock>>

(* The guard of a game state is dropped. *)
Released(r) == [k \in DOMAIN pool |->
                  IF pool[k].by = r THEN [pool[k] EXCEPT !.by = None] ELSE pool[k]]

(* No connection, a url that is none, a failed query: the request ends and *)
(* what it holds is released.                                              *)
Fail(r) ==
  /\ req[r].at \in {"lookup", "insert", "names", "count"}
  /\ req' = [req EXCEPT ![r] = Idle]
  /\ writer' = IF writer = r THEN None ELSE writer
  /\ counter' = IF counter = r THEN None ELSE counter
  /\ pool' = Released(r)
  /\ UNCHANGED <<store, connected, known, results, servers, clock>>

(* get_server_id: readers wait for a writer, who asks the database. *)
ReadLookup(r) ==
  /\ req[r].at = "lookup" /\ connected /\ writer = None
  /\ req' = [req EXCEPT ![r].at = IF known THEN "load" ELSE "lock"]
  /\ UNCHANGED <<store, ids, pool, results, roster, clock>>

WriteLookup_Unchecked(r) ==
  /\ req[r].at = "lock" /\ writer = None
  /\ req' = [req EXCEPT ![r].at = "insert"]
  /\ writer' = r
  /\ UNCHANGED <<store, connected, known, pool, results, roster, clock>>

WriteLookup(r) ==
  /\ req[r].at = "lock" /\ writer = None
  /\ req' = [req EXCEPT ![r].at = IF known THEN "load" ELSE "insert"]
  /\ writer' = IF known THEN None ELSE r
  /\ UNCHANGED <<store, connected, known, pool, results, roster, clock>>

InsertServer(r) ==
  /\ req[r].at = "insert"
  /\ known' = TRUE /\ writer' = None
  /\ req' = [req EXCEPT ![r].at = "load"]
  /\ UNCHANGED <<store, connected, pool, results, roster, clock>>

-----------------------------------------------------------------------------
(* The targets *)

(* Whom a question counts, and how many items each would add: players are  *)
(* counted in the list of every item the book lacks.                       *)
calc_per_player_count(data, book, max) ==
  LET lists == [i \in DOMAIN data.equipment \ book |-> iter(data.equipment[i])]
      hits  == UNION {{<<i, k>> : k \in DOMAIN lists[i]} : i \in DOMAIN lists}
      fit   == {p \in DOMAIN data.info : Stats(data.info[p]) <= max}
      count == [p \in fit |-> Cardinality({h \in hits : lists[h[1]][h[2]] = p})]
  IN  [p \in {q \in fit : count[q] > 0} |-> count[p]]

(* find_best: slots of equal counts, 10 and more in one, are taken from    *)
(* the top until there are enough; the rest is sorting and truncating.     *)
Raw(counts, data) == {[player |-> p, count |-> Least(counts[p], MaxEquip),
                       stats |-> Stats(data.info[p])] : p \in DOMAIN counts}
Better(d, e) == d.count > e.count \/ (d.count = e.count /\ d.stats <= e.stats)
Truncated(s, n) == SubSeq(s, 1, Least(n, Len(s)))

find_best(counts, data) ==
  LET from(n) == {e \in Raw(counts, data) : e.count >= n}
      stop == CHOOSE n \in 1..MaxEquip :
                /\ n = 1 \/ Cardinality(from(n)) >= Limit
                /\ \A m \in n + 1..MaxEquip : Cardinality(from(m)) < Limit
  IN  {Truncated(s, Limit) : s \in Sortings(from(stop), Better)}

(* get_gamestate: the first that nobody holds, or a new one. *)
Free_Shared(k) == TRUE
Free(k) == pool[k].by = None

Taken == IF \E k \in DOMAIN pool : Free(k)
         THEN CHOOSE k \in DOMAIN pool : Free(k) /\ \A j \in 1..k - 1 : ~Free(j)
         ELSE Len(pool) + 1
Left(k) == IF k \in DOMAIN pool THEN pool[k].book ELSE None
PoolWith(k, by, book) == [j \in DOMAIN pool \cup {k} |->
                            IF j = k THEN [by |-> by, book |-> book] ELSE pool[j]]

(* What the answer of the game leaves in a state and gives to a question:  *)
(* the scrapbook of the state is reset, filled by update (which may also   *)
(* give up half-way, or find nothing to fill) and taken out.               *)
Reset_Forgotten(left) == left
Reset(left) == None
Book(q) == {compress_ident(e) : e \in BookOf[q]}

Updated(q, left) ==
  CASE BookKind[q] = "unparsable" -> {[left |-> left, book |-> None]}
    [] BookKind[q] = "refused" ->
         {[left |-> b, book |-> None] : b \in {Reset(left), Book(q)}}
    [] BookKind[q] = "absent" -> {[left |-> None, book |-> Reset(left)]}
    [] BookKind[q] = "good" -> {[left |-> None, book |-> Book(q)]}

(* The best are found in the data there is now; their names are asked for. *)
WithBest(r, best, data) ==
  [req EXCEPT ![r] = [@ EXCEPT !.at = "names", !.best = best, !.data = data,
                               !.version = version]]

(* Nothing is proposed to whom the game does not understand.               *)
WithNothing(r) ==
  [req EXCEPT ![r] = [@ EXCEPT !.at = "store", !.data = scrap, !.version = version,
                               !.stored = now]]

(* The names are there.  Players whose id has no row now are left out: a   *)
(* first report that was rolled back after its update was sent, or is not  *)
(* committed yet, and ids compact_ids has moved.                           *)
Named(best, unnamed) ==
  LET named[k \in 0..Len(best)] ==
        IF k = 0 THEN <<>>
        ELSE IF best[k].player \in unnamed THEN named[k - 1]
        ELSE Append(named[k - 1], best[k])
  IN  named[Len(best)]

PlayersIn(best) == {best[k].player : k \in DOMAIN best}

WithNames(r, at, unnamed) ==
  LET named == Named(req[r].best, unnamed)
  IN  [req EXCEPT ![r] = [@ EXCEPT !.at = at, !.best = named, !.unnamed = unnamed,
                                   !.stored = now]]

(* No cache of that server: an empty answer that is not cached.  No usable *)
(* scrapbook: an empty answer that is.  Otherwise the names of the best    *)
(* are asked for, while the state is held.                                 *)
CalcTargets(r) ==
  /\ req[r].at = "load" /\ req[r].kind = "targets"
  /\ IF ~scrap.cached
     THEN pool' = pool /\ req' = [req EXCEPT ![r] = Idle]
     ELSE \E u \in Updated(req[r].about, Left(Taken)) :
            IF u.book = None
            THEN /\ pool' = PoolWith(Taken, None, u.left)
                 /\ req' = WithNothing(r)
            ELSE /\ pool' = PoolWith(Taken, r, u.left)
                 /\ \E best \in find_best(calc_per_player_count(scrap, u.book,
                                            MaxOf[req[r].about]), scrap) :
                      req' = WithBest(r, best, scrap)
  /\ UNCHANGED <<store, ids, results, roster, clock>>

(* The state is released, the time is read, the cache is waited for. *)
AnswerTargets(r) ==
  /\ req[r].at = "names" /\ req[r].kind = "targets"
  /\ pool' = Released(r)
  /\ \E unnamed \in SUBSET (PlayersIn(req[r].best) \cap Rowless) :
       req' = WithNames(r, "store", unnamed)
  /\ UNCHANGED <<store, ids, results, roster, clock>>

(* The answer is cached; once in a while old ones are thrown away.         *)
Old(q, t) == results[q] # None /\ results[q].stored + ResultAge <= t

StoreTargets(r) ==
  /\ req[r].at = "store"
  /\ \E prune \in BOOLEAN :
       results' = [q \in Questions |->
         IF q = req[r].about
         THEN [best |-> req[r].best, unnamed |-> req[r].unnamed, data |-> req[r].data,
               version |-> req[r].version, stored |-> req[r].stored]
         ELSE IF prune /\ Old(q, req[r].stored) THEN None ELSE results[q]]
  /\ req' = [h \in Handlers |->
               IF h = r THEN Idle
               ELSE [req[h] EXCEPT !.crossed =
                       @ \/ (req[h].at # "done" /\ req[h].about = req[r].about)]]
  /\ UNCHANGED <<store, ids, pool, roster, clock>>

-----------------------------------------------------------------------------
(* Nude players: those with at most the given stats start where the search *)
(* lands; of these the highest levels are kept, best first.                *)
Inserted_Anywhere(best, e) ==
  LET levels == [k \in DOMAIN best |-> -Level(best[k].as)]
      kept   == IF Len(best) = Size THEN Front(best) ELSE best
  IN  {InsertAt(kept, Least(pos, Size), e) : pos \in Landings(levels, -Level(e.as))}

Inserted(best, e) ==
  LET levels == [k \in DOMAIN best |-> -Level(best[k].as)]
      kept   == IF Len(best) = Size THEN Front(best) ELSE best
  IN  {IF pos > Size THEN best ELSE InsertAt(kept, pos, e) :
         pos \in Landings(levels, -Level(e.as))}

(* What may be kept of the players from pos on, one after the other. *)
Kept(players, pos) ==
  LET bests[k \in 0..Len(players)] ==
        IF k < pos THEN {<<>>}
        ELSE UNION {Inserted(best, players[k]) : best \in bests[k - 1]}
  IN  bests[Len(players)]

BestNude(players, max) ==
  UNION {Kept(players, pos) :
           pos \in Landings([k \in DOMAIN players |-> -Stats(players[k].as)], -max)}

CalcNude(r) ==
  /\ req[r].at = "load" /\ req[r].kind = "nude"
  /\ IF nudes = None THEN req' = [req EXCEPT ![r] = Idle]
     ELSE \E best \in BestNude(nudes, req[r].about) :
            req' = WithBest(r, best, nudes)
  /\ UNCHANGED <<store, ids, pool, results, roster, clock>>

AnswerNude(r) ==
  /\ req[r].at = "names" /\ req[r].kind = "nude"
  /\ \E unnamed \in SUBSET (PlayersIn(req[r].best) \cap Rowless) :
       req' = WithNames(r, "done", unnamed)
  /\ UNCHANGED <<store, ids, pool, results, roster, clock>>

-----------------------------------------------------------------------------
(* get_servers: its mutex is held over the cached answer's age, the        *)
(* queries and the new answer.                                             *)
LockServers(r) ==
  /\ req[r].at = "slot" /\ counter = None
  /\ IF servers # None /\ servers + ServersAge > now
     THEN req' = [req EXCEPT ![r] = Idle] /\ counter' = None
     ELSE req' = [req EXCEPT ![r].at = "count"] /\ counter' = r
  /\ UNCHANGED <<store, ids, pool, results, servers, clock>>

CountServers(r) ==
  /\ req[r].at = "count" /\ connected
  /\ servers' = now /\ counter' = None
  /\ req' = [req EXCEPT ![r] = Idle]
  /\ UNCHANGED <<store, ids, pool, results, clock>>

-----------------------------------------------------------------------------
Tick ==
  /\ work < MaxWork
  /\ now' = now + 1 /\ work' = work + 1
  /\ UNCHANGED <<store, ids, pool, results, roster, req>>

(* The bound is used up and everyone is answered; a request that waits in  *)
(* vain is a deadlock.                                                     *)
Quiet ==
  /\ work = MaxWork /\ applying = None
  /\ \A r \in Handlers : req[r].at \in {"idle", "done"}
  /\ UNCHANGED vars

Request(r) ==
  \/ \E q \in Questions : Ask(r, q) \/ AnswerFromCache(r, q)
  \/ \E m \in Strengths : AskNude(r, m)
  \/ AskServers(r)

Work(r) == \/ Connect(r) \/ Fail(r) \/ ReadLookup(r) \/ WriteLookup(r) \/ InsertServer(r)
           \/ CalcTargets(r) \/ AnswerTargets(r) \/ StoreTargets(r)
           \/ CalcNude(r) \/ AnswerNude(r) \/ LockServers(r) \/ CountServers(r)

Next ==
  \/ \E b \in Batches : UpdateUnderworld(b)
  \/ UpdateScrapbook
  \/ \E r \in Handlers : Request(r) \/ Work(r)
  \/ Tick
  \/ Quiet

Spec == Init /\ [][Next]_vars

-----------------------------------------------------------------------------
(* Properties *)

IsList(s) == \A j, k \in DOMAIN s : j < k => s[j] < s[k]

(* Every variable keeps its shape; in particular the lists of the caches   *)
(* stay sorted and free of repetitions, which binary searches rely on,     *)
(* through all the insertions and the encoding.                            *)
TypeOK ==
  /\ \A p \in DOMAIN scrap.info : scrap.info[p] \in Contents
  /\ \A i \in DOMAIN scrap.equipment :
       /\ IsList(to_vec(scrap.equipment[i]))
       /\ iter(scrap.equipment[i]) = to_vec(scrap.equipment[i])
  /\ nudes # None =>
       \A j, k \in DOMAIN nudes :
         j < k => /\ nudes[j].player # nudes[k].player
                  /\ Stats(nudes[j].as) >= Stats(nudes[k].as)
  /\ applying \in Batches \cup {None}
  /\ connected \in BOOLEAN /\ known \in BOOLEAN
  /\ writer \in Handlers \cup {None} /\ counter \in Handlers \cup {None}
  /\ \A k \in DOMAIN pool : pool[k].by \in Handlers \cup {None}
  /\ servers \in 0..now \cup {None}
  /\ \A r \in Handlers : req[r].at \in
       {"idle", "done", "lookup", "lock", "insert", "load", "names", "store", "slot", "count"}
  /\ now \in 0..MaxWork /\ work \in 0..MaxWork

(* Sorted lists, binary searches, deltas and varints implement the maps    *)
(* and sets of ServerCache, whatever order a hash map is walked in.        *)
Cache == INSTANCE ServerCache WITH
  nude  <- NudeMap,
  info  <- scrap.info,
  index <- [i \in DOMAIN scrap.equipment |-> ToSet(to_vec(scrap.equipment[i]))]
CacheHoldsSets == Cache!Spec

(* A plain search: who would add how many items, taken from the players.   *)
NewItems(data, q, p) ==
  {i \in DOMAIN data.equipment : p \in ToSet(to_vec(data.equipment[i]))} \ Book(q)
Candidates(data, q) == {p \in DOMAIN data.info : /\ Stats(data.info[p]) <= MaxOf[q]
                                                /\ NewItems(data, q, p) # {}}
Beats(data, q, p, o) ==
  LET n == Cardinality(NewItems(data, q, p)) m == Cardinality(NewItems(data, q, o))
  IN  n > m \/ (n = m /\ Stats(data.info[p]) < Stats(data.info[o]))

Right(q, best, unnamed, data) ==
  LET found  == Candidates(data, q)
      chosen == PlayersIn(best) \cup unnamed
  IN  /\ chosen \subseteq found /\ PlayersIn(best) \cap unnamed = {}
      /\ Cardinality(PlayersIn(best)) = Len(best)
      /\ Len(best) + Cardinality(unnamed) = Least(Limit, Cardinality(found))
      /\ \A p \in chosen : \A o \in found : Beats(data, q, o, p) => o \in chosen
      /\ \A k \in DOMAIN best :
           /\ best[k].count = Cardinality(NewItems(data, q, best[k].player))
           /\ \A j \in DOMAIN best : Beats(data, q, best[j].player, best[k].player) => j < k

(* Whatever is answered, at once or later from the cache, is what a plain  *)
(* search of the server's players gives for that scrapbook and strength,   *)
(* although game states are used again and lists are searched in pruned    *)
(* slots; who has no row when the names are asked for is left out and      *)
(* nobody takes the place.  To a question the game does not understand     *)
(* the answer is empty, whatever others have left in the state.  And an    *)
(* answer is given from the cache for an hour at most.                     *)
Answer(x, q) == IF BookKind[q] = "good" THEN Right(q, x.best, x.unnamed, x.data)
                ELSE x.best = <<>>

TargetsAreBest ==
  /\ \A q \in Questions : results[q] # None => Answer(results[q], q)
  /\ \A r \in Handlers : req[r].kind = "targets" =>
       /\ req[r].at \in {"names", "store", "done"} => Answer(req[r], req[r].about)
       /\ req[r].at = "done" => req[r].asked < req[r].stored + ResultAge

(* The nude players proposed have at most the stats asked for, come by     *)
(* level, and nobody is passed over for a lower level, except players with *)
(* exactly these stats, among whom the search may land anywhere; who has   *)
(* no row is left out here, too.                                           *)
NudeRight(best, unnamed, data, max) ==
  LET chosen == {e \in ToSet(data) : e.player \in PlayersIn(best) \cup unnamed}
      below  == {e \in ToSet(data) : Stats(e.as) < max}
  IN  /\ Len(best) + Cardinality(unnamed) <= Size /\ PlayersIn(best) \cap unnamed = {}
      /\ Cardinality(PlayersIn(best)) = Len(best) /\ ToSet(best) \subseteq ToSet(data)
      /\ unnamed \subseteq {e.player : e \in ToSet(data)}
      /\ \A e \in chosen : Stats(e.as) <= max
      /\ \A j, k \in DOMAIN best : j < k => Level(best[j].as) >= Level(best[k].as)
      /\ \A e \in below \ chosen :
           /\ Len(best) + Cardinality(unnamed) = Size
           /\ \A o \in chosen : Level(e.as) <= Level(o.as)

NudesAreBest ==
  \A r \in Handlers : req[r].kind = "nude" /\ req[r].at \in {"names", "done"} =>
    NudeRight(req[r].best, req[r].unnamed, req[r].data, req[r].about)

(* However many requests find a server unknown or the list of servers old, *)
(* one of them asks the database while the others wait for it, and nobody  *)
(* asks again for what has been answered.                                  *)
AskedOnce ==
  \A r \in Handlers :
    /\ req[r].at = "insert" => writer = r /\ ~known
    /\ req[r].at = "count" => /\ counter = r
                              /\ servers # None => servers + ServersAge <= now

(* A request that waits for the names has a game state to itself, and the  *)
(* pool, which is never emptied, is no larger than the requests were many. *)
StatesAreReused ==
  /\ \A r \in Handlers : req[r].kind = "targets" =>
       Cardinality({k \in DOMAIN pool : pool[k].by = r}) =
         IF req[r].at = "names" THEN 1 ELSE 0
  /\ Len(pool) <= Cardinality(Handlers)

(* A cached answer gives way before its hour is over, or to one of older   *)
(* data, only if that was being computed already when it was stored.       *)
RenewedOnlyByOverlap ==
  [][\A q \in Questions : results[q] # None /\ results'[q] # results[q] =>
       \/ /\ results[q].stored + ResultAge <= now
          /\ results'[q] # None => results'[q].version >= results[q].version
       \/ \E r \in Handlers : /\ req[r].at = "store" /\ req[r].about = q /\ req[r].crossed
                               /\ req'[r].at = "idle"]_vars
=============================================================================
