------------------------ MODULE PlayerReports_proofs ------------------------
(***************************************************************************)
(* What PlayerReports' runs check on a small instance, proved for any set  *)
(* of players, handlers, responses, guilds and descriptions.               *)
(***************************************************************************)
EXTENDS PlayerReports, SequenceTheorems, TLAPS

(* A player_id belongs to one row; one that is not handed out yet belongs  *)
(* to none; and the history has no entry without a row.                    *)
PidsOK ==
  /\ \A n \in Names : Known(n) => player[n].pid < nextPid
  /\ \A n, m \in Names : Known(n) /\ Known(m) /\ n # m => player[n].pid # player[m].pid
  /\ \A p \in Pids : history[p] # <<>> => \E n \in Names : Known(n) /\ player[n].pid = p

(* A row that was read is still there, under the same player_id.           *)
ReadsOK ==
  \A w \in Handlers : seen[w] # None =>
    /\ pc[w] \in InTransaction
    /\ Known(job[w].name) /\ player[job[w].name].pid = seen[w].pid

(* Who holds a row writes to the player_id it read, with a newer report,   *)
(* or to one that no other row has.                                        *)
TargetOK(w) ==
  /\ target[w] \in Pids
  /\ seen[w] # None => target[w] = seen[w].pid /\ seen[w].reported < job[w].fetch
  /\ seen[w] = None => /\ ~Known(job[w].name)
                       /\ target[w] < nextPid
                       /\ \A n \in Names : Known(n) => player[n].pid # target[w]
TargetsOK == \A w \in Handlers : pc[w] \in Holding => TargetOK(w)

(* A guild or description that was looked up is committed or held.         *)
KeyOK(w) ==
  /\ pc[w] \in {"write"} \cup Holding =>
       GuildOf[job[w].resp] \in interned \cup keys[w] \cup {None}
  /\ pc[w] = "commit" => DescriptionOf[job[w].resp] \in interned \cup keys[w]
KeysOK == \A w \in Handlers : KeyOK(w)

(* The dates of a row are in order, and it has them once it is reported.   *)
Dated(row) == row.changed <= row.reported /\ (row.resp # None => row.changed > 0)
DatesOK ==
  /\ \A n \in Names : Known(n) => Dated(player[n])
  /\ \A w \in Handlers : seen[w] # None => Dated(seen[w])

(* Some entry of the player shows the profile of the row at its last_changed. *)
Witnessed(row) ==
  row.resp # None =>
    \E i \in DOMAIN history[row.pid] :
      /\ history[row.pid][i].fetch = row.changed
      /\ ProfileOf[history[row.pid][i].resp] = ProfileOf[row.resp]
ProfilesOK ==
  /\ \A n \in Names : Known(n) => Witnessed(player[n])
  /\ \A w \in Handlers : seen[w] # None => Witnessed(seen[w])

(* What a transaction sent is still the last word on its player, unless a  *)
(* removal has been sent since; who announces a removal has flagged a row. *)
Flagged(p) == \E n \in Names : Known(n) /\ player[n].pid = p /\ player[n].removed
AnnouncedOK ==
  \A w \in Handlers :
    /\ pc[w] = "announce" => Flagged(target[w])
    /\ pc[w] \in Holding => \/ announced[target[w]] = job[w].resp
                            \/ announced[target[w]] = Removed /\ Flagged(target[w])

(* The inductive invariant. *)
ReportsInv ==
  /\ TypeOK /\ PidsOK /\ ReadsOK /\ WritersExclude /\ TargetsOK /\ KeysOK /\ LinksResolve
  /\ RowIsLastEntry /\ DatesOK /\ ProfilesOK /\ AnnouncedOK

-----------------------------------------------------------------------------
(* What a step does to one handler: nothing, or its job is over, or it is  *)
(* one of the steps that move it on.                                       *)
Same(w) == /\ pc'[w] = pc[w] /\ job'[w] = job[w] /\ seen'[w] = seen[w]
           /\ target'[w] = target[w] /\ keys'[w] = keys[w]
Ended(w) == /\ pc'[w] = "idle" /\ job'[w] = None /\ seen'[w] = None
            /\ target'[w] = 0 /\ keys'[w] = {}
Moved(w) == \/ Receive(w) \/ SelectExisting(w) \/ SelectGuild(w) \/ InsertGuild(w)
            \/ UpdatePlayer(w) \/ InsertPlayer(w)
            \/ SelectDescription(w) \/ InsertDescription(w)
            \/ FlagRemoved(w) /\ pc'[w] = "announce"

(* A handler's steps leave the registers of the others alone. *)
LEMMA OthersStay ==
  ASSUME VarsOK, NEW v \in Handlers, Receive(v) \/ Step(v) \/ Abort(v),
         NEW w \in Handlers, w # v
  PROVE  Same(w)
<1>1. CASE Receive(v)
  BY <1>1 DEF VarsOK, Receive, Goto, Same
<1>2. CASE SelectExisting(v) \/ SelectGuild(v) \/ InsertGuild(v)
  BY <1>2 DEF VarsOK, SelectExisting, SelectGuild, InsertGuild, SelectKey, InsertKey, Goto, Same
<1>3. CASE Discard(v) \/ UpdatePlayer(v) \/ InsertPlayer(v) \/ InsertConflict(v)
  BY <1>3 DEF VarsOK, Discard, UpdatePlayer, InsertPlayer, InsertConflict, Release, Goto, Same, db
<1>4. CASE SelectDescription(v) \/ InsertDescription(v) \/ Commit(v)
  BY <1>4 DEF VarsOK, SelectDescription, InsertDescription, SelectKey, InsertKey, Commit,
              Release, Goto, Same
<1>5. CASE FlagRemoved(v) \/ AnnounceRemoved(v) \/ Abort(v)
  BY <1>5 DEF VarsOK, FlagRemoved, AnnounceRemoved, Abort, Release, Goto, Same
<1> QED BY <1>1, <1>2, <1>3, <1>4, <1>5 DEF Step

(* Every step of the system is one of these for a given handler. *)
LEMMA HandlerEffect ==
  ASSUME VarsOK, [Next]_vars, NEW w \in Handlers
  PROVE  Same(w) \/ Ended(w) \/ Moved(w)
<1>1. CASE UNCHANGED vars
  BY <1>1 DEF vars, mine, Same
<1>2. CASE \E n \in Names : Discover(n)
  BY <1>2 DEF Discover, mine, Same
<1>3. CASE Restart
  BY <1>3 DEF Restart, Ended
<1>4. ASSUME NEW v \in Handlers, Receive(v) \/ Step(v) \/ Abort(v)
      PROVE  Same(w) \/ Ended(w) \/ Moved(w)
  <2>1. CASE v # w
    BY <1>4, <2>1, OthersStay
  <2>2. CASE v = w /\ (Discard(w) \/ InsertConflict(w) \/ Commit(w) \/ AnnounceRemoved(w) \/ Abort(w))
    BY <2>2 DEF VarsOK, Discard, InsertConflict, Commit, AnnounceRemoved, Abort, Release, Goto, Ended
  <2>3. CASE v = w /\ FlagRemoved(w)
    BY <2>3 DEF VarsOK, FlagRemoved, Release, Goto, Ended, Moved
  <2> QED BY <1>4, <2>1, <2>2, <2>3 DEF Step, Moved
<1> QED BY <1>1, <1>2, <1>3, <1>4 DEF Next

(* What a step does to the tables: nothing but draw from the sequence, or  *)
(* it commits, flags a row or discovers a name.                            *)
Untouched == UNCHANGED <<player, history, interned, stored>> /\ nextPid' >= nextPid
Flags(n) == /\ Known(n)
            /\ player' = [player EXCEPT ![n].removed = TRUE]
            /\ UNCHANGED <<history, interned, stored, nextPid>>

(* Every step of the system does one of these to the tables. *)
LEMMA TablesEffect ==
  ASSUME VarsOK, [Next]_vars
  PROVE  \/ Untouched
         \/ \E w \in Handlers : Commit(w)
         \/ \E n \in Names : Flags(n)
         \/ \E n \in Names : Discover(n)
<1> USE ReportsAssumption
<1>0. nextPid \in Nat
  BY DEF VarsOK
<1>1. CASE UNCHANGED vars
  BY <1>0, <1>1 DEF vars, db, Untouched
<1>2. CASE Restart
  BY <1>0, <1>2 DEF Restart, db, Untouched
<1>3. ASSUME NEW w \in Handlers, Receive(w) \/ Step(w) \/ Abort(w), ~Commit(w)
      PROVE  Untouched \/ \E n \in Names : Flags(n)
  <2>1. CASE FlagRemoved(w)
    <3>1. CASE UNCHANGED player
      BY <1>0, <2>1, <3>1 DEF FlagRemoved, Untouched
    <3>2. CASE player' # player
      <4>1. pc[w] = "flag" /\ job[w] \in Job \cup {None}
        BY <2>1 DEF FlagRemoved, VarsOK
      <4>2. Flags(job[w].name)
        BY <2>1, <3>2 DEF FlagRemoved, Flags
      <4>3. job[w].name \in Names
        BY <2>1, <3>2, <4>2 DEF VarsOK, Flags, Known
      <4> QED BY <4>2, <4>3
    <3> QED BY <3>1, <3>2
  <2>2. CASE Receive(w) \/ SelectExisting(w) \/ SelectGuild(w) \/ InsertGuild(w)
             \/ SelectDescription(w) \/ InsertDescription(w)
    BY <1>0, <2>2 DEF Receive, SelectExisting, SelectGuild, InsertGuild, SelectDescription,
                      InsertDescription, SelectKey, InsertKey, db, Untouched
  <2>3. CASE Discard(w) \/ UpdatePlayer(w) \/ AnnounceRemoved(w) \/ Abort(w)
    BY <1>0, <2>3 DEF Discard, UpdatePlayer, AnnounceRemoved, Abort, db, Untouched
  <2>4. CASE InsertPlayer(w) \/ InsertConflict(w)
    BY <1>0, <2>4 DEF InsertPlayer, InsertConflict, DrawPid, Untouched
  <2> QED BY <1>3, <2>1, <2>2, <2>3, <2>4 DEF Step
<1> QED BY <1>1, <1>2, <1>3 DEF Next

-----------------------------------------------------------------------------
(* Types.  The row that a commit writes is one, since the dates it copies  *)
(* come from rows, and the player_id from the sequence or a row.           *)
LEMMA RegistersType ==
  ASSUME VarsOK, RegistersOK, NEW w \in Handlers
  PROVE  /\ pc[w] \in Label
         /\ pc[w] # "idle" => job[w] \in Job /\ job[w].name \in Names
         /\ pc[w] \in InTransaction => /\ job[w].fetch \in 1..MaxTime
                                       /\ job[w].resp \in Responses
                                       /\ GuildOf[job[w].resp] \in Guilds \cup {None}
                                       /\ DescriptionOf[job[w].resp] \in Descriptions
         /\ seen[w] # None => seen[w] \in Row
         /\ target[w] \in Pids \cup {0}
<1> USE ReportsAssumption
<1>1. pc[w] \in Label /\ seen[w] \in Row \cup {None} /\ target[w] \in Pids \cup {0}
      /\ job[w] \in Job \cup {None} /\ (pc[w] # "idle" => job[w] # None)
  BY DEF VarsOK, RegistersOK
<1>2. pc[w] # "idle" => job[w] \in Job /\ job[w].name \in Names /\ job[w].fetch \in 0..MaxTime
  BY <1>1 DEF Job
<1>3. pc[w] \in InTransaction => pc[w] # "idle" /\ job[w].fetch > 0 /\ job[w].resp \in Responses
  BY DEF InTransaction, Holding, RegistersOK
<1>4. pc[w] \in InTransaction => job[w].fetch \in 1..MaxTime
  BY <1>2, <1>3
<1> QED BY <1>1, <1>2, <1>3, <1>4

(* The row that a commit leaves. *)
LEMMA WrittenType ==
  ASSUME ReportsInv, NEW w \in Handlers, Commit(w)
  PROVE  /\ Written(w) \in Row
         /\ Written(w).pid = target[w] /\ target[w] \in Pids
         /\ Written(w).reported = job[w].fetch /\ Written(w).resp = job[w].resp
<1> USE ReportsAssumption
<1>1. pc[w] \in Holding /\ pc[w] \in InTransaction
  BY DEF Commit, Holding, InTransaction
<1>2. target[w] \in Pids
  BY <1>1 DEF ReportsInv, TargetsOK, TargetOK
<1>3. job[w].fetch \in 1..MaxTime /\ job[w].resp \in Responses
  BY <1>1, RegistersType DEF ReportsInv, TypeOK
<1>4. seen[w] # None => seen[w].changed \in 0..MaxTime
  BY RegistersType DEF ReportsInv, TypeOK, Row
<1>5. Known(job[w].name) => player[job[w].name].removed \in BOOLEAN
  <2>1. job[w].name \in Names
    BY <1>1, RegistersType DEF ReportsInv, TypeOK, Holding
  <2> QED BY <2>1 DEF ReportsInv, TypeOK, VarsOK, Known, Row
<1> QED BY <1>2, <1>3, <1>4, <1>5 DEF Written, Row

(* The registers stay functions on the handlers. *)
LEMMA RegistersAreFunctions ==
  ASSUME VarsOK, [Next]_vars
  PROVE  /\ pc' = [w \in Handlers |-> pc'[w]] /\ job' = [w \in Handlers |-> job'[w]]
         /\ seen' = [w \in Handlers |-> seen'[w]] /\ target' = [w \in Handlers |-> target'[w]]
         /\ keys' = [w \in Handlers |-> keys'[w]]
<1>1. CASE UNCHANGED vars \/ Restart \/ \E n \in Names : Discover(n)
  BY <1>1 DEF vars, mine, Restart, Discover, VarsOK
<1>2. ASSUME NEW v \in Handlers, Receive(v) \/ Step(v) \/ Abort(v)
      PROVE  /\ pc' = [w \in Handlers |-> pc'[w]] /\ job' = [w \in Handlers |-> job'[w]]
             /\ seen' = [w \in Handlers |-> seen'[w]] /\ target' = [w \in Handlers |-> target'[w]]
             /\ keys' = [w \in Handlers |-> keys'[w]]
  <2>1. CASE Discard(v) \/ InsertConflict(v) \/ Commit(v) \/ AnnounceRemoved(v) \/ Abort(v)
    BY <2>1 DEF Discard, InsertConflict, Commit, AnnounceRemoved, Abort, Release, Goto, VarsOK
  <2>2. CASE Receive(v) \/ SelectExisting(v) \/ SelectGuild(v) \/ InsertGuild(v)
             \/ SelectDescription(v) \/ InsertDescription(v)
    BY <2>2 DEF Receive, SelectExisting, SelectGuild, InsertGuild, SelectDescription,
                InsertDescription, SelectKey, InsertKey, Goto, VarsOK
  <2>3. CASE UpdatePlayer(v) \/ InsertPlayer(v)
    BY <2>3 DEF UpdatePlayer, InsertPlayer, Goto, VarsOK
  <2>4. CASE FlagRemoved(v)
    BY <2>4 DEF FlagRemoved, Release, Goto, VarsOK
  <2> QED BY <1>2, <2>1, <2>2, <2>3, <2>4 DEF Step
<1> QED BY <1>1, <1>2 DEF Next

(* TypeOK of one handler. *)
HandlerOK(w) ==
  /\ pc[w] \in Label
  /\ job[w] \in Job \cup {None}
  /\ seen[w] \in Row \cup {None}
  /\ target[w] \in Pids \cup {0}
  /\ keys[w] \in SUBSET Keys
  /\ pc[w] = "idle" <=> job[w] = None
  /\ pc[w] = "idle" => keys[w] = {} /\ target[w] = 0
  /\ pc[w] \in InTransaction => job[w].fetch > 0 /\ job[w].resp \in Responses
  /\ pc[w] \in {"flag", "announce"} => job[w].resp = Removed
  /\ pc[w] = "newguild" => GuildOf[job[w].resp] # None

(* A handler keeps its shape, whichever step it takes. *)
LEMMA HandlerStep ==
  ASSUME ReportsInv, [Next]_vars, NEW w \in Handlers
  PROVE  HandlerOK(w)'
<1> USE ReportsAssumption, NoneAssumption
<1>0. HandlerOK(w) /\ VarsOK
  BY DEF ReportsInv, TypeOK, VarsOK, RegistersOK, HandlerOK
<1>1. CASE Same(w)
  BY <1>0, <1>1 DEF Same, HandlerOK
<1>2. CASE Ended(w)
  BY <1>2 DEF Ended, HandlerOK, Label, InTransaction, Holding
<1>3. CASE Receive(w)
  <2>1. seen' = seen /\ target' = target /\ keys' = keys /\ pc[w] = "idle"
    BY <1>3 DEF Receive
  <2>2. \/ \E n \in Names, f \in 1..MaxTime, r \in Responses :
             job'[w] = [name |-> n, fetch |-> f, resp |-> r] /\ pc'[w] = "select"
        \/ \E n \in Names :
             job'[w] = [name |-> n, fetch |-> 0, resp |-> Removed] /\ pc'[w] = "flag"
    BY <1>0, <1>3 DEF Receive, Goto, VarsOK
  <2>3. CASE \E n \in Names, f \in 1..MaxTime, r \in Responses :
               job'[w] = [name |-> n, fetch |-> f, resp |-> r] /\ pc'[w] = "select"
    <3>1. job'[w] \in Job /\ job'[w].fetch > 0 /\ job'[w].resp \in Responses
      BY <2>3 DEF Job
    <3> QED BY <1>0, <2>1, <2>3, <3>1 DEF HandlerOK, Label, InTransaction, Holding
  <2>4. CASE \E n \in Names :
               job'[w] = [name |-> n, fetch |-> 0, resp |-> Removed] /\ pc'[w] = "flag"
    <3>1. job'[w] \in Job /\ job'[w].resp = Removed
      BY <2>4 DEF Job
    <3> QED BY <1>0, <2>1, <2>4, <3>1 DEF HandlerOK, Label, InTransaction, Holding
  <2> QED BY <2>2, <2>3, <2>4
<1>4. CASE SelectExisting(w)
  <2>1. player[job[w].name] \in Row \cup {None}
    BY <1>0, <1>4, RegistersType DEF SelectExisting, ReportsInv, TypeOK, VarsOK
  <2> QED BY <1>0, <1>4, <2>1 DEF SelectExisting, Goto, HandlerOK, VarsOK, Label, InTransaction, Holding
<1>5. CASE SelectGuild(w) \/ SelectDescription(w)
  BY <1>0, <1>5 DEF SelectGuild, SelectDescription, SelectKey, Goto, HandlerOK, VarsOK, Label,
                    InTransaction, Holding
<1>6. CASE InsertGuild(w)
  <2>1. GuildOf[job[w].resp] \in Keys
    BY <1>6, RegistersType DEF InsertGuild, ReportsInv, TypeOK, RegistersOK, InTransaction, Keys
  <2> QED BY <1>0, <1>6, <2>1 DEF InsertGuild, InsertKey, Goto, HandlerOK, VarsOK, Label,
                                  InTransaction, Holding
<1>7. CASE InsertDescription(w)
  <2>1. DescriptionOf[job[w].resp] \in Keys
    BY <1>7, RegistersType DEF InsertDescription, ReportsInv, TypeOK, InTransaction, Holding, Keys
  <2> QED BY <1>0, <1>7, <2>1 DEF InsertDescription, InsertKey, Goto, HandlerOK, VarsOK, Label,
                                  InTransaction, Holding
<1>8. CASE UpdatePlayer(w)
  <2>1. seen[w].pid \in Pids
    BY <1>0, <1>8 DEF UpdatePlayer, HandlerOK, Row
  <2> QED BY <1>0, <1>8, <2>1 DEF UpdatePlayer, Goto, HandlerOK, VarsOK, Label, InTransaction, Holding
<1>9. CASE InsertPlayer(w)
  BY <1>0, <1>9 DEF InsertPlayer, DrawPid, Goto, HandlerOK, VarsOK, Label, InTransaction, Holding
<1>10. CASE FlagRemoved(w) /\ pc'[w] = "announce"
  <2>1. pc[w] = "flag" /\ ~UNCHANGED pc
    BY <1>10 DEF FlagRemoved
  <2>2. /\ Known(job[w].name) /\ target'[w] = player[job[w].name].pid
        /\ job' = job /\ seen' = seen /\ keys' = keys
    BY <1>0, <1>10 DEF FlagRemoved, Release, Goto, VarsOK
  <2>3. target'[w] \in Pids
    BY <1>0, <2>1, <2>2, RegistersType DEF Known, VarsOK, Row, ReportsInv, TypeOK
  <2> QED BY <1>0, <1>10, <2>1, <2>2, <2>3 DEF HandlerOK, Label, InTransaction, Holding
<1> QED BY <1>0, <1>1, <1>2, <1>3, <1>4, <1>5, <1>6, <1>7, <1>8, <1>9, <1>10, HandlerEffect DEF Moved

(* TypeOK of the tables, and of the rest. *)
TablesOK ==
  /\ player \in [Names -> Row \cup {None}]
  /\ history \in [Pids -> Seq(Entry)]
  /\ interned \subseteq Keys
  /\ stored \subseteq Responses
CountersOK ==
  /\ nextPid \in 1..(MaxPid + 1)
  /\ announced \in [Pids -> Responses \cup {Removed, None}]
  /\ received \in 0..MaxReports

(* The type invariant is inductive relative to ReportsInv. *)
LEMMA TypeStep ==
  ASSUME ReportsInv, [Next]_vars
  PROVE  TypeOK'
<1> USE ReportsAssumption DEF ReportsInv, TypeOK
<1>1. TablesOK'
  <2>1. CASE Untouched
    BY <2>1 DEF Untouched, VarsOK, TablesOK
  <2>2. ASSUME NEW w \in Handlers, Commit(w)
        PROVE  TablesOK'
    <3>1. job[w].name \in Names /\ job[w].fetch \in 1..MaxTime /\ job[w].resp \in Responses
      BY <2>2, RegistersType DEF Commit, Holding, InTransaction
    <3>2. Written(w) \in Row /\ target[w] \in Pids
      BY <2>2, WrittenType
    <3>3. player' \in [Names -> Row \cup {None}]
      BY <2>2, <3>2 DEF Commit, VarsOK, TablesOK
    <3>4. [fetch |-> job[w].fetch, resp |-> job[w].resp] \in Entry
      BY <3>1 DEF Entry
    <3>5. history' \in [Pids -> Seq(Entry)]
      BY <2>2, <3>2, <3>4 DEF Commit, VarsOK, TablesOK
    <3>6. keys[w] \subseteq Keys
      BY DEF VarsOK
    <3> QED BY <2>2, <3>1, <3>3, <3>5, <3>6 DEF Commit, VarsOK, TablesOK
  <2>3. ASSUME NEW n \in Names, Flags(n)
        PROVE  TablesOK'
    <3>1. player[n] \in Row
      BY <2>3 DEF Flags, Known, VarsOK, TablesOK
    <3>2. [player[n] EXCEPT !.removed = TRUE] \in Row
      BY <3>1 DEF Row
    <3> QED BY <2>3, <3>2 DEF Flags, VarsOK, TablesOK
  <2>4. ASSUME NEW n \in Names, Discover(n)
        PROVE  TablesOK'
    <3>1. [pid |-> nextPid, reported |-> 0, changed |-> 0, resp |-> None, removed |-> FALSE] \in Row
      BY <2>4 DEF Discover, DrawPid, Row
    <3> QED BY <2>4, <3>1 DEF Discover, VarsOK, TablesOK
  <2> QED BY <2>1, <2>2, <2>3, <2>4, TablesEffect
<1>2. CountersOK'
  <2>1. CASE UNCHANGED vars
    BY <2>1 DEF vars, db, VarsOK, CountersOK
  <2>2. CASE Restart
    <3>1. ASSUME NEW p \in Pids PROVE Loaded(p) \in Responses \cup {None}
      BY DEF Loaded, Known, VarsOK, CountersOK, Row
    <3> QED BY <2>2, <3>1 DEF Restart, db, VarsOK, CountersOK
  <2>3. CASE \E n \in Names : Discover(n)
    BY <2>3 DEF Discover, DrawPid, mine, VarsOK, CountersOK, Pids
  <2>4. ASSUME NEW w \in Handlers, Receive(w) \/ Step(w) \/ Abort(w)
        PROVE  CountersOK'
    <3>1. CASE Receive(w)
      BY <3>1 DEF Receive, db, VarsOK, CountersOK
    <3>2. CASE SelectExisting(w) \/ SelectGuild(w) \/ InsertGuild(w)
               \/ SelectDescription(w) \/ InsertDescription(w) \/ Discard(w) \/ Abort(w)
      BY <3>2 DEF SelectExisting, SelectGuild, InsertGuild, SelectDescription,
                  InsertDescription, SelectKey, InsertKey, Discard, Abort, db, VarsOK, CountersOK
    <3>3. CASE UpdatePlayer(w)
      BY <3>3, RegistersType DEF UpdatePlayer, Send, db, VarsOK, CountersOK, InTransaction
    <3>4. CASE InsertPlayer(w)
      BY <3>4, RegistersType DEF InsertPlayer, Send, DrawPid, VarsOK, CountersOK, InTransaction, Pids
    <3>5. CASE InsertConflict(w)
      BY <3>5 DEF InsertConflict, DrawPid, VarsOK, CountersOK, Pids
    <3>6. CASE Commit(w) \/ FlagRemoved(w)
      BY <3>6 DEF Commit, FlagRemoved, VarsOK, CountersOK
    <3>7. CASE AnnounceRemoved(w)
      BY <3>7 DEF AnnounceRemoved, Send, db, VarsOK, CountersOK
    <3> QED BY <2>4, <3>1, <3>2, <3>3, <3>4, <3>5, <3>6, <3>7 DEF Step
  <2> QED BY <2>1, <2>2, <2>3, <2>4 DEF Next
<1>3. /\ pc' = [w \in Handlers |-> pc'[w]] /\ job' = [w \in Handlers |-> job'[w]]
      /\ seen' = [w \in Handlers |-> seen'[w]] /\ target' = [w \in Handlers |-> target'[w]]
      /\ keys' = [w \in Handlers |-> keys'[w]]
  BY RegistersAreFunctions
<1>4. ASSUME NEW w \in Handlers
      PROVE  HandlerOK(w)'
  BY HandlerStep
<1> QED BY <1>1, <1>2, <1>3, <1>4 DEF TablesOK, CountersOK, VarsOK, RegistersOK, HandlerOK

-----------------------------------------------------------------------------
(* What each change of the tables means for the rows. *)
LEMMA CommitEffect ==
  ASSUME ReportsInv, NEW w \in Handlers, Commit(w)
  PROVE  /\ job[w].name \in Names /\ job[w].resp \in Responses
         /\ job[w].fetch \in 1..MaxTime
         /\ pc[w] \in Holding /\ target[w] \in Pids /\ target[w] < nextPid
         /\ nextPid' = nextPid
         /\ player'[job[w].name] = Written(w) /\ Written(w) # None
         /\ \A m \in Names : m # job[w].name =>
              player'[m] = player[m] /\ (Known(m) => player[m].pid # target[w])
         /\ Known(job[w].name) => player[job[w].name].pid = target[w]
         /\ ~Known(job[w].name) => history[target[w]] = <<>>
         /\ seen[w] # None <=> Known(job[w].name)
<1> USE ReportsAssumption, NoneAssumption DEF ReportsInv, TypeOK
<1>1. pc[w] \in Holding /\ pc[w] \in InTransaction
  BY DEF Commit, Holding, InTransaction
<1>2. job[w].name \in Names /\ job[w].resp \in Responses /\ job[w].fetch \in 1..MaxTime
  BY <1>1, RegistersType DEF Holding
<1>3. Written(w) \in Row /\ target[w] \in Pids
  BY WrittenType
<1>4. nextPid' = nextPid /\ player' = [player EXCEPT ![job[w].name] = Written(w)]
  BY DEF Commit
<1>5. seen[w] # None <=> Known(job[w].name)
  BY <1>1 DEF ReadsOK, TargetsOK, TargetOK
<1>6. Known(job[w].name) => player[job[w].name].pid = target[w]
  BY <1>1, <1>5 DEF ReadsOK, TargetsOK, TargetOK
<1>7. \A m \in Names : m # job[w].name /\ Known(m) => player[m].pid # target[w]
  BY <1>1, <1>2, <1>5, <1>6 DEF TargetsOK, TargetOK, PidsOK
<1>8. target[w] < nextPid
  BY <1>1, <1>2, <1>5, <1>6 DEF TargetsOK, TargetOK, PidsOK
<1>9. ~Known(job[w].name) => history[target[w]] = <<>>
  BY <1>3, <1>7 DEF PidsOK
<1> QED BY <1>1, <1>2, <1>3, <1>4, <1>5, <1>6, <1>7, <1>8, <1>9 DEF VarsOK

(* A flag changes nothing else. *)
LEMMA FlagsEffect ==
  ASSUME ReportsInv, NEW n \in Names, Flags(n), NEW m \in Names
  PROVE  /\ Known(m)' = Known(m)
         /\ Known(m) => /\ player[m] \in Row
                        /\ player'[m].pid = player[m].pid
                        /\ player'[m].reported = player[m].reported
                        /\ player'[m].changed = player[m].changed
                        /\ player'[m].resp = player[m].resp
                        /\ player'[m].removed = IF m = n THEN TRUE ELSE player[m].removed
         /\ UNCHANGED <<history, interned, stored, nextPid>>
<1> USE NoneAssumption DEF ReportsInv, TypeOK
<1>1. Known(m) => player[m] \in Row
  BY DEF VarsOK, Known
<1>2. CASE m = n
  <2>1. player[n] \in Row /\ player'[n] = [player[n] EXCEPT !.removed = TRUE]
    BY <1>1, <1>2 DEF Flags, VarsOK
  <2>2. /\ player'[n] \in Row
        /\ player'[n].pid = player[n].pid /\ player'[n].reported = player[n].reported
        /\ player'[n].changed = player[n].changed /\ player'[n].resp = player[n].resp
        /\ player'[n].removed
    BY <2>1 DEF Row
  <2>3. Known(n) /\ Known(n)'
    BY <2>1, <2>2 DEF Known
  <2>4. UNCHANGED <<history, interned, stored, nextPid>>
    BY DEF Flags
  <2> HIDE DEF ReportsInv, TypeOK
  <2> QED BY <1>2, <2>1, <2>2, <2>3, <2>4
<1>3. CASE m # n
  <2>1. player'[m] = player[m]
    BY <1>3 DEF Flags, VarsOK
  <2> QED BY <1>1, <1>3, <2>1 DEF Flags, Known
<1> QED BY <1>2, <1>3

(* A discovered name gets a player_id that no entry has. *)
LEMMA DiscoverEffect ==
  ASSUME ReportsInv, NEW n \in Names, Discover(n)
  PROVE  /\ ~Known(n) /\ Known(n)'
         /\ player'[n] = [pid |-> nextPid, reported |-> 0, changed |-> 0, resp |-> None,
                          removed |-> FALSE]
         /\ \A m \in Names : m # n => player'[m] = player[m]
         /\ nextPid \in Pids /\ nextPid' = nextPid + 1
         /\ history[nextPid] = <<>>
         /\ UNCHANGED <<history, interned, stored, announced, mine>>
<1> USE ReportsAssumption, NoneAssumption DEF ReportsInv, TypeOK
<1> DEFINE row == [pid |-> nextPid, reported |-> 0, changed |-> 0, resp |-> None, removed |-> FALSE]
<1>1. nextPid \in Pids /\ nextPid' = nextPid + 1 /\ ~Known(n)
  BY DEF Discover, DrawPid
<1>2. row \in Row
  BY <1>1 DEF Row
<1>3. player' = [player EXCEPT ![n] = row]
  BY DEF Discover
<1>4. \A m \in Names : Known(m) => player[m].pid # nextPid
  BY <1>1 DEF PidsOK, VarsOK, Known, Row, Pids
<1>5. history[nextPid] = <<>>
  BY <1>1, <1>4 DEF PidsOK
<1>6. player'[n] = row /\ \A m \in Names : m # n => player'[m] = player[m]
  BY <1>3 DEF VarsOK
<1>7. Known(n)'
  BY <1>2, <1>6 DEF Known
<1>8. UNCHANGED <<history, interned, stored, announced, mine>>
  BY DEF Discover
<1> HIDE DEF ReportsInv, TypeOK
<1> QED BY <1>1, <1>5, <1>6, <1>7, <1>8

(* A row stays, under the player_id it got. *)
LEMMA RowStays ==
  ASSUME ReportsInv, [Next]_vars, NEW n \in Names, Known(n)
  PROVE  Known(n)' /\ player'[n].pid = player[n].pid
<1>1. CASE Untouched
  BY <1>1 DEF Untouched, Known
<1>2. CASE \E w \in Handlers : Commit(w)
  <2>1. PICK w \in Handlers : Commit(w)
    BY <1>2
  <2> QED BY <2>1, CommitEffect, WrittenType DEF Known
<1>3. CASE \E m \in Names : Flags(m)
  BY <1>3, FlagsEffect
<1>4. CASE \E m \in Names : Discover(m)
  BY <1>4, DiscoverEffect DEF Known
<1> QED BY <1>1, <1>2, <1>3, <1>4, TablesEffect DEF ReportsInv, TypeOK

(* Nobody gets the player_id of another. *)
LEMMA PidsStep ==
  ASSUME ReportsInv, [Next]_vars
  PROVE  PidsOK'
<1> USE ReportsAssumption
<1>0. /\ PidsOK /\ VarsOK /\ nextPid \in Nat
      /\ \A n \in Names : Known(n) => player[n].pid \in Nat
  BY DEF ReportsInv, TypeOK, VarsOK, Known, Row, Pids
<1>1. CASE Untouched
  <2>1. nextPid' \in Nat
    BY TypeStep DEF TypeOK, VarsOK
  <2> QED BY <1>0, <1>1, <2>1 DEF Untouched, PidsOK, Known
<1>2. ASSUME NEW w \in Handlers, Commit(w)
      PROVE  PidsOK'
  <2>0. PICK n \in Names : n = job[w].name
    BY <1>2, CommitEffect
  <2>1. Known(n)' /\ player'[n].pid = target[w] /\ target[w] \in Pids /\ target[w] < nextPid
    BY <1>2, <2>0, CommitEffect, WrittenType DEF Known
  <2>2. \A m \in Names : m # n => player'[m] = player[m] /\ (Known(m) => player[m].pid # target[w])
    BY <1>2, <2>0, CommitEffect
  <2>3. \A p \in Pids : p # target[w] => history'[p] = history[p]
    BY <1>0, <1>2 DEF Commit, VarsOK
  <2>4. nextPid' = nextPid
    BY <1>2 DEF Commit
  <2>5. \A p \in Pids : history'[p] # <<>> => \E m \in Names : Known(m)' /\ player'[m].pid = p
    <3> SUFFICES ASSUME NEW p \in Pids, history'[p] # <<>>, p # target[w]
                 PROVE  \E m \in Names : Known(m)' /\ player'[m].pid = p
      BY <2>1
    <3>1. PICK m \in Names : Known(m) /\ player[m].pid = p
      BY <1>0, <2>3 DEF PidsOK
    <3>2. m # n
      BY <1>2, <2>0, <3>1, CommitEffect
    <3> QED BY <2>2, <3>1, <3>2 DEF Known
  <2> QED BY <1>0, <2>1, <2>2, <2>4, <2>5 DEF PidsOK, Known
<1>3. ASSUME NEW n \in Names, Flags(n)
      PROVE  PidsOK'
  <2>1. \A m \in Names : /\ Known(m)' <=> Known(m)
                         /\ Known(m) => player'[m].pid = player[m].pid
    BY <1>3, FlagsEffect
  <2>2. history' = history /\ nextPid' = nextPid
    BY <1>3 DEF Flags
  <2> QED BY <1>0, <2>1, <2>2 DEF PidsOK
<1>4. ASSUME NEW n \in Names, Discover(n)
      PROVE  PidsOK'
  <2>1. /\ ~Known(n) /\ Known(n)' /\ player'[n].pid = nextPid /\ nextPid' = nextPid + 1
        /\ \A m \in Names : m # n => player'[m] = player[m]
        /\ history' = history /\ history[nextPid] = <<>>
    BY <1>4, DiscoverEffect
  <2> QED BY <1>0, <2>1 DEF PidsOK, Known
<1> QED BY <1>0, <1>1, <1>2, <1>3, <1>4, TablesEffect

(* Which handlers hold a row after a step, and what they hold then. *)
Describes(w) ==
  /\ SelectDescription(w) \/ InsertDescription(w)
  /\ pc[w] \in Holding /\ job'[w] = job[w] /\ seen'[w] = seen[w] /\ target'[w] = target[w]
  /\ UNCHANGED <<player, history, interned, stored, nextPid, announced>>
Updates(w) ==
  /\ UpdatePlayer(w) /\ ~RowHeld(w, job[w].name)
  /\ seen[w] # None /\ job'[w] = job[w] /\ seen'[w] = seen[w] /\ target'[w] = seen[w].pid
  /\ UNCHANGED <<player, history, interned, stored, nextPid>>
Inserts(w) ==
  /\ InsertPlayer(w) /\ ~RowHeld(w, job[w].name)
  /\ seen[w] = None /\ job'[w] = job[w] /\ seen'[w] = seen[w] /\ target'[w] = nextPid
  /\ UNCHANGED <<player, history, interned, stored>>
  /\ nextPid \in Pids /\ nextPid' = nextPid + 1

(* A holder has held before, or it is the statement that locks the row. *)
LEMMA HoldersStep ==
  ASSUME ReportsInv, [Next]_vars, NEW w \in Handlers, pc'[w] \in Holding
  PROVE  (Same(w) /\ pc[w] \in Holding) \/ Describes(w) \/ Updates(w) \/ Inserts(w)
<1> USE DEF Holding
<1>0. VarsOK
  BY DEF ReportsInv, TypeOK
<1>1. CASE Same(w)
  BY <1>1 DEF Same
<1>2. CASE Ended(w)
  BY <1>2 DEF Ended
<1>3. CASE Receive(w) \/ SelectExisting(w) \/ SelectGuild(w) \/ InsertGuild(w)
           \/ (FlagRemoved(w) /\ pc'[w] = "announce")
  BY <1>0, <1>3 DEF Receive, SelectExisting, SelectGuild, InsertGuild, SelectKey, InsertKey, Goto, VarsOK
<1>4. CASE SelectDescription(w) \/ InsertDescription(w)
  BY <1>0, <1>4 DEF SelectDescription, InsertDescription, SelectKey, InsertKey, db, Describes
<1>5. CASE UpdatePlayer(w)
  BY <1>0, <1>5 DEF UpdatePlayer, db, VarsOK, Updates
<1>6. CASE InsertPlayer(w)
  BY <1>0, <1>6 DEF InsertPlayer, DrawPid, VarsOK, Inserts
<1>7. CASE Moved(w)
  BY <1>3, <1>4, <1>5, <1>6, <1>7 DEF Moved
<1>8. Same(w) \/ Ended(w) \/ Moved(w)
  BY <1>0, HandlerEffect
<1> QED BY <1>1, <1>2, <1>7, <1>8

(* No row that was read vanishes or changes its player_id. *)
LEMMA ReadsStep ==
  ASSUME ReportsInv, [Next]_vars
  PROVE  ReadsOK'
<1> SUFFICES ASSUME NEW w \in Handlers, seen'[w] # None
             PROVE  /\ pc'[w] \in InTransaction
                    /\ Known(job[w].name)' /\ player'[job'[w].name].pid = seen'[w].pid
  BY DEF ReadsOK
<1> USE ReportsAssumption, NoneAssumption DEF InTransaction, Holding
<1>0. VarsOK /\ RegistersOK /\ ReadsOK
  BY DEF ReportsInv, TypeOK
<1>1. ASSUME seen'[w] = seen[w], job'[w] = job[w], pc'[w] \in InTransaction
      PROVE  /\ Known(job[w].name)' /\ player'[job'[w].name].pid = seen'[w].pid
  <2>1. PICK n \in Names : n = job[w].name
    BY <1>0, <1>1, RegistersType DEF ReadsOK
  <2>2. Known(n) /\ player[n].pid = seen[w].pid
    BY <1>0, <1>1, <2>1 DEF ReadsOK
  <2>3. Known(n)' /\ player'[n].pid = player[n].pid
    BY <2>2, RowStays
  <2> QED BY <1>1, <2>1, <2>2, <2>3 DEF Known
<1>2. CASE Same(w)
  BY <1>0, <1>1, <1>2 DEF Same, ReadsOK
<1>3. CASE Ended(w)
  BY <1>3 DEF Ended
<1>4. CASE Receive(w)
  BY <1>0, <1>4 DEF Receive, ReadsOK
<1>5. CASE SelectExisting(w)
  <2>1. job' = job /\ player' = player /\ seen'[w] = player[job[w].name] /\ pc'[w] = "guild"
    BY <1>0, <1>5 DEF SelectExisting, Goto, db, VarsOK
  <2> QED BY <2>1 DEF Known
<1>6. CASE SelectGuild(w) \/ InsertGuild(w) \/ SelectDescription(w) \/ InsertDescription(w)
  <2>1. job' = job /\ seen' = seen /\ pc'[w] \in InTransaction
    BY <1>0, <1>6 DEF SelectGuild, InsertGuild, SelectDescription, InsertDescription, SelectKey,
                      InsertKey, Goto, VarsOK
  <2> QED BY <1>1, <2>1
<1>7. CASE UpdatePlayer(w) \/ InsertPlayer(w)
  <2>1. job' = job /\ seen' = seen /\ pc'[w] \in InTransaction
    BY <1>0, <1>7 DEF UpdatePlayer, InsertPlayer, Goto, VarsOK
  <2> QED BY <1>1, <2>1
<1>8. CASE FlagRemoved(w) /\ pc'[w] = "announce"
  <2>1. seen' = seen /\ pc[w] = "flag"
    BY <1>0, <1>8 DEF FlagRemoved, Release, Goto, VarsOK
  <2> QED BY <1>0, <2>1 DEF ReadsOK
<1> QED BY <1>0, <1>2, <1>3, <1>4, <1>5, <1>6, <1>7, <1>8, HandlerEffect DEF Moved

(* A new player's id stays its own until the commit. *)
LEMMA TargetsStep ==
  ASSUME ReportsInv, [Next]_vars
  PROVE  TargetsOK'
<1> SUFFICES ASSUME NEW w \in Handlers, pc'[w] \in Holding
             PROVE  TargetOK(w)'
  BY DEF TargetsOK
<1> USE ReportsAssumption, NoneAssumption
<1>0. /\ VarsOK /\ RegistersOK /\ TargetsOK /\ nextPid \in Nat
      /\ \A n \in Names : Known(n) => player[n].pid \in Nat /\ player[n].pid < nextPid
  BY DEF ReportsInv, TypeOK, VarsOK, PidsOK, Known, Row, Pids
<1>1. ASSUME pc[w] \in Holding, job'[w] = job[w], seen'[w] = seen[w], target'[w] = target[w],
             pc'[w] \in Holding
      PROVE  TargetOK(w)'
  <2>1. PICK n \in Names : n = job[w].name
    BY <1>0, <1>1, RegistersType DEF Holding
  <2>2. TargetOK(w) /\ target[w] \in Nat
    BY <1>0, <1>1 DEF TargetsOK, TargetOK, Pids
  <2>3. CASE seen[w] # None
    BY <1>1, <2>2, <2>3 DEF TargetOK
  <2>4. CASE seen[w] = None
    <3>1. ~Known(n) /\ target[w] < nextPid
          /\ \A m \in Names : Known(m) => player[m].pid # target[w]
      BY <2>1, <2>2, <2>4 DEF TargetOK
    <3> SUFFICES /\ ~Known(n)' /\ target[w] < nextPid'
                 /\ \A m \in Names : Known(m)' => player'[m].pid # target[w]
      BY <1>1, <2>1, <2>2, <2>4 DEF TargetOK, Known
    <3>2. CASE Untouched
      <4>1. nextPid' \in Nat
        BY TypeStep DEF TypeOK, VarsOK
      <4> QED BY <1>0, <2>2, <3>1, <3>2, <4>1 DEF Untouched, Known
    <3>3. ASSUME NEW v \in Handlers, Commit(v)
          PROVE  /\ ~Known(n)' /\ target[w] < nextPid'
                 /\ \A m \in Names : Known(m)' => player'[m].pid # target[w]
      <4>1. v # w
        BY <1>0, <1>1, <3>3 DEF Commit, Release, Goto, VarsOK, Holding
      <4>2. pc[v] \in Holding /\ job[v].name # n /\ target[v] # target[w]
        BY <1>1, <2>1, <3>3, <4>1, CommitEffect DEF ReportsInv, WritersExclude
      <4>3. PICK k \in Names : k = job[v].name
        BY <3>3, CommitEffect
      <4>4. /\ player'[k].pid = target[v] /\ nextPid' = nextPid
            /\ \A m \in Names : m # k => player'[m] = player[m]
        BY <3>3, <4>3, CommitEffect, WrittenType
      <4> QED BY <3>1, <4>2, <4>3, <4>4 DEF Known
    <3>4. ASSUME NEW m \in Names, Flags(m)
          PROVE  /\ ~Known(n)' /\ target[w] < nextPid'
                 /\ \A k \in Names : Known(k)' => player'[k].pid # target[w]
      <4>1. \A k \in Names : /\ Known(k)' <=> Known(k)
                             /\ Known(k) => player'[k].pid = player[k].pid
        BY <3>4, FlagsEffect
      <4> QED BY <3>1, <3>4, <4>1 DEF Flags
    <3>5. ASSUME NEW m \in Names, Discover(m)
          PROVE  /\ ~Known(n)' /\ target[w] < nextPid'
                 /\ \A k \in Names : Known(k)' => player'[k].pid # target[w]
      <4>1. m # n
        BY <1>1, <2>1, <3>5 DEF Discover
      <4>2. /\ player'[m].pid = nextPid /\ nextPid' = nextPid + 1
            /\ \A k \in Names : k # m => player'[k] = player[k]
        BY <3>5, DiscoverEffect
      <4> QED BY <1>0, <2>2, <3>1, <4>1, <4>2 DEF Known
    <3> QED BY <1>0, <3>2, <3>3, <3>4, <3>5, TablesEffect
  <2> QED BY <2>3, <2>4
<1>2. CASE Updates(w)
  <2>1. seen[w] \in Row
    BY <1>0, <1>2, RegistersType DEF Updates
  <2> QED BY <1>2, <2>1 DEF Updates, UpdatePlayer, IsNewer, TargetOK, Row
<1>3. CASE Inserts(w)
  <2>1. ~Known(job[w].name) /\ player' = player
    BY <1>3 DEF Inserts, InsertPlayer
  <2> QED BY <1>0, <1>3, <2>1 DEF Inserts, TargetOK, Known
<1> QED BY <1>1, <1>2, <1>3, HoldersStep DEF Same, Describes

(* The locks on rows and keys keep the writers apart. *)
LEMMA ExcludeStep ==
  ASSUME ReportsInv, [Next]_vars
  PROVE  WritersExclude'
<1> USE ReportsAssumption, NoneAssumption
<1>0. /\ VarsOK /\ RegistersOK /\ WritersExclude /\ TargetsOK /\ nextPid \in Nat
      /\ \A n \in Names : Known(n) => player[n].pid \in Nat /\ player[n].pid < nextPid
  BY DEF ReportsInv, TypeOK, VarsOK, PidsOK, Known, Row, Pids
<1>1. ASSUME NEW v \in Handlers, NEW w \in Handlers, v # w
      PROVE  keys'[v] \cap keys'[w] = {}
  <2>1. keys[v] \cap keys[w] = {}
    BY <1>0, <1>1 DEF WritersExclude
  <2>2. ASSUME NEW x \in Handlers
        PROVE  \/ keys'[x] \subseteq keys[x]
               \/ \E k : /\ \A y \in Handlers \ {x} : keys'[y] = keys[y] /\ k \notin keys[y]
                         /\ keys'[x] = keys[x] \cup {k}
    <3>1. CASE Same(x) \/ Ended(x)
      BY <3>1 DEF Same, Ended
    <3>2. CASE InsertGuild(x)
      BY <1>0, <3>2 DEF InsertGuild, InsertKey, KeyHeld, VarsOK
    <3>3. CASE InsertDescription(x)
      BY <1>0, <3>3 DEF InsertDescription, InsertKey, KeyHeld, VarsOK
    <3>4. CASE Receive(x) \/ SelectExisting(x) \/ SelectGuild(x) \/ SelectDescription(x)
               \/ UpdatePlayer(x) \/ InsertPlayer(x)
      BY <3>4 DEF Receive, SelectExisting, SelectGuild, SelectDescription, SelectKey,
                  UpdatePlayer, InsertPlayer
    <3>5. CASE FlagRemoved(x) /\ pc'[x] = "announce"
      BY <1>0, <3>5 DEF FlagRemoved, Release, Goto, VarsOK
    <3> QED BY <1>0, <3>1, <3>2, <3>3, <3>4, <3>5, HandlerEffect DEF Moved
  <2> QED BY <1>1, <2>1, <2>2
<1>2. ASSUME NEW v \in Handlers, NEW w \in Handlers, v # w, pc'[v] \in Holding, pc'[w] \in Holding
      PROVE  job'[v].name # job'[w].name /\ target'[v] # target'[w]
  <2>1. ASSUME NEW x \in Handlers, NEW y \in Handlers, x # y, pc'[x] \in Holding, pc'[y] \in Holding,
               UpdatePlayer(x) \/ InsertPlayer(x)
        PROVE  job'[x].name # job'[y].name /\ target'[x] # target'[y]
    <3>1. Same(y) /\ pc[y] \in Holding
      <4>1. Same(y)
        BY <1>0, <2>1, OthersStay DEF Step
      <4> QED BY <2>1, <4>1 DEF Same
    <3>2. job[y].name # job[x].name /\ job' = job
      BY <2>1, <3>1 DEF UpdatePlayer, InsertPlayer, RowHeld
    <3>3. PICK n \in Names : n = job[y].name
      BY <1>0, <3>1, RegistersType DEF Holding
    <3>4. TargetOK(y)
      BY <1>0, <3>1 DEF TargetsOK
    <3>5. Known(n) => player[n].pid = target[y]
      BY <3>1, <3>3, <3>4 DEF TargetOK, ReportsInv, ReadsOK
    <3>6. CASE UpdatePlayer(x)
      <4>1. target'[x] = seen[x].pid /\ seen[x] # None
        BY <1>0, <3>6 DEF UpdatePlayer, VarsOK
      <4>2. PICK m \in Names : m = job[x].name
        BY <1>0, <3>6, RegistersType DEF UpdatePlayer
      <4>3. Known(m) /\ player[m].pid = seen[x].pid
        BY <4>1, <4>2 DEF ReportsInv, ReadsOK
      <4>4. seen[x].pid # target[y]
        BY <3>2, <3>3, <3>4, <3>5, <4>2, <4>3 DEF TargetOK, ReportsInv, PidsOK, ReadsOK
      <4> QED BY <3>1, <3>2, <4>1, <4>4 DEF Same
    <3>7. CASE InsertPlayer(x)
      <4>1. target'[x] = nextPid
        BY <1>0, <3>7 DEF InsertPlayer, VarsOK
      <4>2. target[y] < nextPid /\ target[y] \in Nat
        BY <1>0, <3>3, <3>4, <3>5 DEF TargetOK, ReportsInv, ReadsOK, Pids
      <4> QED BY <1>0, <3>1, <3>2, <4>1, <4>2 DEF Same
    <3> QED BY <2>1, <3>6, <3>7
  <2>2. CASE \E x \in {v, w} : UpdatePlayer(x) \/ InsertPlayer(x)
    BY <1>2, <2>1, <2>2
  <2>3. CASE ~\E x \in {v, w} : UpdatePlayer(x) \/ InsertPlayer(x)
    <3>1. \A x \in {v, w} : pc[x] \in Holding /\ job'[x] = job[x] /\ target'[x] = target[x]
      BY <1>2, <2>3, HoldersStep DEF Same, Describes, Updates, Inserts
    <3> QED BY <1>0, <1>2, <3>1 DEF WritersExclude
  <2> QED BY <2>2, <2>3
<1> QED BY <1>1, <1>2 DEF WritersExclude

(* What is appended comes last, what was there before stays. *)
LEMMA AppendFacts ==
  ASSUME NEW S, NEW s \in Seq(S), NEW e \in S
  PROVE  /\ Append(s, e) # <<>>
         /\ Append(s, e)[Len(Append(s, e))] = e
         /\ DOMAIN s \subseteq DOMAIN Append(s, e)
         /\ \A i \in DOMAIN s : Append(s, e)[i] = s[i]
         /\ \A i \in DOMAIN Append(s, e) : i \in DOMAIN s \/ Append(s, e)[i] = e
         /\ \E i \in DOMAIN Append(s, e) : Append(s, e)[i] = e
<1>1. /\ Append(s, e) \in Seq(S) /\ Len(Append(s, e)) = Len(s) + 1
      /\ \A i \in 1..Len(s) : Append(s, e)[i] = s[i]
      /\ Append(s, e)[Len(s) + 1] = e
  BY AppendProperties
<1>2. Len(s) \in Nat /\ DOMAIN s = 1..Len(s) /\ DOMAIN Append(s, e) = 1..(Len(s) + 1)
  BY <1>1
<1>3. Append(s, e) # <<>>
  BY <1>1, <1>2, EmptySeq
<1> QED BY <1>1, <1>2, <1>3

(* What a commit does to the history. *)
LEMMA HistoryEffect ==
  ASSUME ReportsInv, NEW w \in Handlers, Commit(w)
  PROVE  LET p == target[w]
             e == [fetch |-> job[w].fetch, resp |-> job[w].resp]
         IN  /\ \A q \in Pids : q # p => history'[q] = history[q]
             /\ history'[p] # <<>> /\ history'[p][Len(history'[p])] = e
             /\ \A i \in DOMAIN history[p] : i \in DOMAIN history'[p] /\ history'[p][i] = history[p][i]
             /\ \A i \in DOMAIN history'[p] :
                  (i \in DOMAIN history[p] /\ history'[p][i] = history[p][i]) \/ history'[p][i] = e
             /\ \E i \in DOMAIN history'[p] : history'[p][i] = e
<1> DEFINE p == target[w]
           e == [fetch |-> job[w].fetch, resp |-> job[w].resp]
<1>1. p \in Pids /\ e \in Entry
  BY CommitEffect DEF Entry
<1>2. history[p] \in Seq(Entry) /\ history' = [history EXCEPT ![p] = Append(@, e)]
  BY <1>1 DEF Commit, ReportsInv, TypeOK, VarsOK
<1>3. history'[p] = Append(history[p], e) /\ \A q \in Pids : q # p => history'[q] = history[q]
  BY <1>1, <1>2 DEF ReportsInv, TypeOK, VarsOK
<1>4. history[p] \in Seq(Entry)
  BY <1>2
<1> HIDE DEF p, e
<1>5. /\ Append(history[p], e) # <<>>
      /\ Append(history[p], e)[Len(Append(history[p], e))] = e
      /\ DOMAIN history[p] \subseteq DOMAIN Append(history[p], e)
      /\ \A i \in DOMAIN history[p] : Append(history[p], e)[i] = history[p][i]
      /\ \A i \in DOMAIN Append(history[p], e) :
           i \in DOMAIN history[p] \/ Append(history[p], e)[i] = e
      /\ \E i \in DOMAIN Append(history[p], e) : Append(history[p], e)[i] = e
  BY <1>1, <1>4, AppendFacts
<1>6. /\ history'[p] # <<>> /\ history'[p][Len(history'[p])] = e
      /\ \A i \in DOMAIN history[p] : i \in DOMAIN history'[p] /\ history'[p][i] = history[p][i]
      /\ \A i \in DOMAIN history'[p] :
           (i \in DOMAIN history[p] /\ history'[p][i] = history[p][i]) \/ history'[p][i] = e
      /\ \E i \in DOMAIN history'[p] : history'[p][i] = e
  BY <1>3, <1>5
<1> QED BY <1>3, <1>6 DEF p, e

(* Keys and contents are never taken back once committed. *)
LEMMA InternedGrows ==
  ASSUME ReportsInv, [Next]_vars
  PROVE  interned \subseteq interned' /\ stored \subseteq stored'
BY TablesEffect DEF ReportsInv, TypeOK, Untouched, Commit, Flags, Discover

(* A key that was found or inserted is there until the commit. *)
LEMMA KeysStep ==
  ASSUME ReportsInv, [Next]_vars
  PROVE  KeysOK'
<1> SUFFICES ASSUME NEW w \in Handlers PROVE KeyOK(w)'
  BY DEF KeysOK
<1> USE ReportsAssumption DEF Holding
<1>0. VarsOK /\ RegistersOK /\ KeyOK(w) /\ interned \subseteq interned'
  BY InternedGrows DEF ReportsInv, TypeOK, KeysOK
<1>1. CASE Same(w)
  BY <1>0, <1>1 DEF Same, KeyOK
<1>2. CASE Ended(w)
  BY <1>2 DEF Ended, KeyOK
<1>3. CASE Receive(w) \/ SelectExisting(w) \/ (FlagRemoved(w) /\ pc'[w] = "announce")
  <2>1. pc'[w] \in {"select", "flag", "guild", "announce"}
    BY <1>0, <1>3 DEF Receive, SelectExisting, Goto, VarsOK
  <2> QED BY <2>1 DEF KeyOK
<1>4. CASE SelectGuild(w) \/ SelectDescription(w)
  <2>1. pc[w] \in InTransaction /\ job' = job /\ keys' = keys
    BY <1>4 DEF SelectGuild, SelectDescription, SelectKey, InTransaction
  <2>2. DescriptionOf[job[w].resp] # None
    BY <1>0, <2>1, RegistersType DEF Keys
  <2> QED BY <1>0, <1>4, <2>1, <2>2 DEF SelectGuild, SelectDescription, SelectKey, Goto, VarsOK, KeyOK
<1>5. CASE InsertGuild(w) \/ InsertDescription(w)
  BY <1>0, <1>5 DEF InsertGuild, InsertDescription, InsertKey, Goto, VarsOK, KeyOK
<1>6. CASE UpdatePlayer(w) \/ InsertPlayer(w)
  <2>1. job' = job /\ keys' = keys /\ pc[w] = "write" /\ pc'[w] = "describe"
    BY <1>0, <1>6 DEF UpdatePlayer, InsertPlayer, Goto, VarsOK
  <2> QED BY <1>0, <2>1 DEF KeyOK
<1> QED BY <1>0, <1>1, <1>2, <1>3, <1>4, <1>5, <1>6, HandlerEffect DEF Moved

(* An entry of the history names keys that are committed. *)
Resolved(e) ==
  /\ GuildOf[e.resp] \in interned \cup {None}
  /\ DescriptionOf[e.resp] \in interned
  /\ e.resp \in stored

(* Hence every entry resolves. *)
LEMMA LinksStep ==
  ASSUME ReportsInv, [Next]_vars
  PROVE  LinksResolve'
<1> SUFFICES ASSUME NEW p \in Pids, NEW i \in DOMAIN history'[p]
             PROVE  Resolved(history[p][i])'
  BY DEF LinksResolve, Resolved
<1>0. /\ \A j \in DOMAIN history[p] : Resolved(history[p][j])
      /\ interned \subseteq interned' /\ stored \subseteq stored'
  BY InternedGrows DEF ReportsInv, LinksResolve, Resolved
<1>1. CASE history'[p] = history[p]
  BY <1>0, <1>1 DEF Resolved
<1>2. ASSUME NEW w \in Handlers, Commit(w)
      PROVE  Resolved(history[p][i])'
  <2>1. CASE p # target[w]
    BY <1>1, <1>2, <2>1, HistoryEffect
  <2>2. CASE p = target[w] /\ i \in DOMAIN history[p] /\ history'[p][i] = history[p][i]
    BY <1>0, <2>2 DEF Resolved
  <2>3. CASE p = target[w] /\ history'[p][i] = [fetch |-> job[w].fetch, resp |-> job[w].resp]
    <3>1. KeyOK(w) /\ pc[w] = "commit"
      BY <1>2 DEF ReportsInv, KeysOK, Commit
    <3>2. interned' = interned \cup keys[w] /\ stored' = stored \cup {job[w].resp}
      BY <1>2 DEF Commit
    <3> QED BY <2>3, <3>1, <3>2 DEF KeyOK, Resolved, Holding
  <2> QED BY <1>2, <2>1, <2>2, <2>3, HistoryEffect
<1>3. CASE ~\E w \in Handlers : Commit(w)
  <2>1. history' = history
    BY <1>3, TablesEffect DEF ReportsInv, TypeOK, Untouched, Flags, Discover
  <2> QED BY <1>1, <2>1
<1> QED BY <1>2, <1>3

(* The row and the last entry, for one row. *)
Agrees(row) ==
  IF history[row.pid] = <<>>
  THEN row.reported = 0 /\ row.resp = None
  ELSE LastEntry(row.pid) = [fetch |-> row.reported, resp |-> row.resp]

(* Row and history move together. *)
LEMMA RowStep ==
  ASSUME ReportsInv, [Next]_vars
  PROVE  RowIsLastEntry'
<1> SUFFICES ASSUME NEW n \in Names, Known(n)'
             PROVE  Agrees(player[n])'
  BY DEF RowIsLastEntry, Agrees
<1>0. /\ \A m \in Names : Known(m) => Agrees(player[m]) /\ player[m] \in Row /\ player[m].pid \in Pids
      /\ VarsOK
  BY DEF ReportsInv, TypeOK, VarsOK, RowIsLastEntry, Agrees, Known, Row
<1>1. CASE Untouched
  BY <1>0, <1>1 DEF Untouched, Agrees, LastEntry, Known
<1>2. ASSUME NEW w \in Handlers, Commit(w)
      PROVE  Agrees(player[n])'
  <2>1. PICK k \in Names : k = job[w].name
    BY <1>2, CommitEffect
  <2>2. CASE n = k
    <3>1. /\ player'[n].pid = target[w] /\ player'[n].reported = job[w].fetch
          /\ player'[n].resp = job[w].resp
      BY <1>2, <2>1, <2>2, CommitEffect, WrittenType
    <3>2. /\ history'[target[w]] # <<>>
          /\ history'[target[w]][Len(history'[target[w]])] = [fetch |-> job[w].fetch, resp |-> job[w].resp]
      BY <1>2, HistoryEffect
    <3> QED BY <3>1, <3>2 DEF Agrees, LastEntry
  <2>3. CASE n # k
    <3>1. player'[n] = player[n] /\ Known(n) /\ player[n].pid # target[w]
      BY <1>2, <2>1, <2>3, CommitEffect DEF Known
    <3>2. history'[player[n].pid] = history[player[n].pid]
      BY <1>0, <1>2, <3>1, HistoryEffect
    <3> QED BY <1>0, <3>1, <3>2 DEF Agrees, LastEntry
  <2> QED BY <2>2, <2>3
<1>3. ASSUME NEW m \in Names, Flags(m)
      PROVE  Agrees(player[n])'
  <2>1. /\ Known(n) /\ player'[n].pid = player[n].pid /\ player'[n].reported = player[n].reported
        /\ player'[n].resp = player[n].resp /\ history' = history
    BY <1>3, FlagsEffect
  <2>2. Agrees(player[n])
    BY <1>0, <2>1
  <2> QED BY <2>1, <2>2 DEF Agrees, LastEntry
<1>4. ASSUME NEW m \in Names, Discover(m)
      PROVE  Agrees(player[n])'
  <2>1. history' = history
    BY <1>4 DEF Discover
  <2>2. CASE n = m
    BY <1>4, <2>1, <2>2, DiscoverEffect DEF Agrees
  <2>3. CASE n # m
    BY <1>0, <1>4, <2>1, <2>3, DiscoverEffect DEF Agrees, LastEntry, Known
  <2> QED BY <2>2, <2>3
<1> QED BY <1>0, <1>1, <1>2, <1>3, <1>4, TablesEffect

(* What a handler has read changes only when it reads. *)
LEMMA SeenEffect ==
  ASSUME ReportsInv, [Next]_vars, NEW w \in Handlers, seen'[w] # None
  PROVE  \/ seen'[w] = seen[w]
         \/ /\ job[w].name \in Names /\ Known(job[w].name) /\ seen'[w] = player[job[w].name]
            /\ UNCHANGED <<player, history>>
<1>0. VarsOK /\ RegistersOK
  BY DEF ReportsInv, TypeOK
<1>1. CASE SelectExisting(w)
  BY <1>0, <1>1, RegistersType DEF SelectExisting, db, VarsOK, Known
<1>2. CASE Same(w) \/ Ended(w)
  BY <1>2 DEF Same, Ended
<1>3. CASE Receive(w) \/ SelectGuild(w) \/ InsertGuild(w) \/ UpdatePlayer(w) \/ InsertPlayer(w)
           \/ SelectDescription(w) \/ InsertDescription(w)
  BY <1>3 DEF Receive, SelectGuild, InsertGuild, UpdatePlayer, InsertPlayer, SelectDescription,
              InsertDescription, SelectKey, InsertKey
<1>4. CASE FlagRemoved(w) /\ pc'[w] = "announce"
  BY <1>0, <1>4 DEF FlagRemoved, Release, Goto, VarsOK
<1> QED BY <1>0, <1>1, <1>2, <1>3, <1>4, HandlerEffect DEF Moved

(* Dates stay in order: a report that is older than the row read is discarded. *)
LEMMA DatesStep ==
  ASSUME ReportsInv, [Next]_vars
  PROVE  DatesOK'
<1> USE ReportsAssumption
<1>0. DatesOK /\ VarsOK /\ RegistersOK
  BY DEF ReportsInv, TypeOK
<1>1. ASSUME NEW n \in Names, Known(n)'
      PROVE  Dated(player[n])'
  <2>1. CASE Untouched
    BY <1>0, <1>1, <2>1 DEF Untouched, DatesOK, Dated, Known
  <2>2. ASSUME NEW w \in Handlers, Commit(w)
        PROVE  Dated(player[n])'
    <3>1. CASE n # job[w].name
      <4>1. player'[n] = player[n]
        BY <2>2, <3>1, CommitEffect
      <4> QED BY <1>0, <1>1, <4>1 DEF DatesOK, Dated, Known
    <3>2. CASE n = job[w].name
      <4>1. player'[n] = Written(w) /\ job[w].fetch \in 1..MaxTime /\ pc[w] \in Holding
        BY <2>2, <3>2, CommitEffect
      <4>2. seen[w] # None => seen[w] \in Row /\ Dated(seen[w]) /\ seen[w].reported < job[w].fetch
        BY <1>0, <4>1, RegistersType DEF DatesOK, ReportsInv, TargetsOK, TargetOK
      <4>3. Dated(Written(w))
        BY <4>1, <4>2 DEF Written, HasChanged, Dated, Row
      <4> QED BY <4>1, <4>3 DEF Dated
    <3> QED BY <3>1, <3>2
  <2>3. ASSUME NEW m \in Names, Flags(m)
        PROVE  Dated(player[n])'
    BY <1>0, <1>1, <2>3, FlagsEffect DEF DatesOK, Dated
  <2>4. ASSUME NEW m \in Names, Discover(m)
        PROVE  Dated(player[n])'
    <3>1. CASE n = m
      BY <2>4, <3>1, DiscoverEffect DEF Dated
    <3>2. CASE n # m
      BY <1>0, <1>1, <2>4, <3>2, DiscoverEffect DEF DatesOK, Dated, Known
    <3> QED BY <3>1, <3>2
  <2> QED BY <1>0, <2>1, <2>2, <2>3, <2>4, TablesEffect
<1>2. ASSUME NEW w \in Handlers, seen'[w] # None
      PROVE  Dated(seen[w])'
  BY <1>0, <1>2, SeenEffect DEF DatesOK, Dated
<1> QED BY <1>1, <1>2 DEF DatesOK

(* An entry that shows a profile stays in the history. *)
LEMMA WitnessStays ==
  ASSUME ReportsInv, [Next]_vars, NEW CONSTANT row \in Row, Witnessed(row)
  PROVE  Witnessed(row)'
<1>1. row.pid \in Pids
  BY DEF Row
<1>2. CASE history' = history
  BY <1>2 DEF Witnessed
<1>3. ASSUME NEW w \in Handlers, Commit(w)
      PROVE  Witnessed(row)'
  <2>1. \A i \in DOMAIN history[row.pid] :
          i \in DOMAIN history'[row.pid] /\ history'[row.pid][i] = history[row.pid][i]
    BY <1>1, <1>3, HistoryEffect
  <2> QED BY <2>1 DEF Witnessed
<1> QED BY <1>2, <1>3, TablesEffect DEF ReportsInv, TypeOK, Untouched, Flags, Discover

(* A row that is written keeps a witness of its last_changed. *)
LEMMA ProfilesStep ==
  ASSUME ReportsInv, [Next]_vars
  PROVE  ProfilesOK'
<1> USE ReportsAssumption
<1>0. /\ ProfilesOK /\ VarsOK /\ RegistersOK
      /\ \A m \in Names : Known(m) => player[m] \in Row
  BY DEF ReportsInv, TypeOK, VarsOK, Known
<1>1. ASSUME NEW n \in Names, Known(n), player'[n] = player[n]
      PROVE  Witnessed(player[n])'
  <2>1. PICK row \in Row : row = player[n]
    BY <1>0, <1>1
  <2>2. Witnessed(row)'
    BY <1>0, <1>1, <2>1, WitnessStays DEF ProfilesOK
  <2> QED BY <1>1, <2>1, <2>2 DEF Witnessed
<1>2. ASSUME NEW n \in Names, Known(n)'
      PROVE  Witnessed(player[n])'
  <2>1. CASE Untouched
    BY <1>1, <1>2, <2>1 DEF Untouched, Known
  <2>2. ASSUME NEW w \in Handlers, Commit(w)
        PROVE  Witnessed(player[n])'
    <3>1. CASE n # job[w].name
      BY <1>1, <1>2, <2>2, <3>1, CommitEffect DEF Known
    <3>2. CASE n = job[w].name
      <4>1. /\ player'[n] = Written(w) /\ Written(w).pid = target[w]
            /\ Written(w).resp = job[w].resp /\ pc[w] \in Holding
        BY <2>2, <3>2, CommitEffect, WrittenType
      <4>2. CASE Written(w).changed = job[w].fetch
        <5>1. PICK i \in DOMAIN history'[target[w]] :
                history'[target[w]][i] = [fetch |-> job[w].fetch, resp |-> job[w].resp]
          BY <2>2, HistoryEffect
        <5> QED BY <4>1, <4>2, <5>1 DEF Witnessed
      <4>3. CASE Written(w).changed # job[w].fetch
        <5>1. /\ seen[w] # None /\ seen[w].resp # None
              /\ ProfileOf[seen[w].resp] = ProfileOf[job[w].resp]
              /\ Written(w).changed = seen[w].changed
          BY <4>3 DEF Written, HasChanged
        <5>2. seen[w].pid = target[w] /\ Witnessed(seen[w])
          BY <1>0, <4>1, <5>1 DEF ProfilesOK, ReportsInv, TargetsOK, TargetOK
        <5>3. PICK i \in DOMAIN history[target[w]] :
                /\ history[target[w]][i].fetch = seen[w].changed
                /\ ProfileOf[history[target[w]][i].resp] = ProfileOf[seen[w].resp]
          BY <5>1, <5>2 DEF Witnessed
        <5>4. \A j \in DOMAIN history[target[w]] :
                j \in DOMAIN history'[target[w]] /\ history'[target[w]][j] = history[target[w]][j]
          BY <2>2, HistoryEffect
        <5> QED BY <4>1, <5>1, <5>3, <5>4 DEF Witnessed
      <4> QED BY <4>2, <4>3
    <3> QED BY <3>1, <3>2
  <2>3. ASSUME NEW m \in Names, Flags(m)
        PROVE  Witnessed(player[n])'
    <3>1. history' = history
      BY <2>3 DEF Flags
    <3>2. /\ Known(n) /\ player'[n].pid = player[n].pid
          /\ player'[n].changed = player[n].changed /\ player'[n].resp = player[n].resp
      BY <1>2, <2>3, FlagsEffect
    <3> QED BY <1>0, <3>1, <3>2 DEF ProfilesOK, Witnessed
  <2>4. ASSUME NEW m \in Names, Discover(m)
        PROVE  Witnessed(player[n])'
    <3>1. CASE n = m
      BY <2>4, <3>1, DiscoverEffect DEF Witnessed
    <3>2. CASE n # m
      BY <1>1, <1>2, <2>4, <3>2, DiscoverEffect DEF Known
    <3> QED BY <3>1, <3>2
  <2> QED BY <1>0, <2>1, <2>2, <2>3, <2>4, TablesEffect
<1>3. ASSUME NEW w \in Handlers, seen'[w] # None
      PROVE  Witnessed(seen[w])'
  <2>1. PICK row \in Row : row = seen'[w]
    BY <1>3, TypeStep DEF TypeOK, VarsOK
  <2>2. Witnessed(row)
    BY <1>0, <1>3, <2>1, SeenEffect DEF ProfilesOK
  <2>3. Witnessed(row)'
    BY <2>2, WitnessStays
  <2> QED BY <2>1, <2>3 DEF Witnessed
<1> QED BY <1>2, <1>3 DEF ProfilesOK

(* A row that is flagged as removed stays flagged. *)
LEMMA FlagStays ==
  ASSUME ReportsInv, [Next]_vars, NEW CONSTANT p, Flagged(p)
  PROVE  Flagged(p)'
<1>1. PICK n \in Names : Known(n) /\ player[n].pid = p /\ player[n].removed
  BY DEF Flagged
<1>2. Known(n)' /\ player'[n].pid = p
  BY <1>1, RowStays
<1>3. player'[n].removed
  <2>1. CASE Untouched
    BY <1>1, <2>1 DEF Untouched
  <2>2. ASSUME NEW w \in Handlers, Commit(w)
        PROVE  player'[n].removed
    <3>1. CASE n # job[w].name
      BY <1>1, <2>2, <3>1, CommitEffect
    <3>2. CASE n = job[w].name
      <4>1. player'[n] = Written(w)
        BY <2>2, <3>2, CommitEffect
      <4>2. Written(w).removed = (Known(job[w].name) /\ player[job[w].name].removed)
        BY DEF Written
      <4> QED BY <1>1, <3>2, <4>1, <4>2
    <3> QED BY <3>1, <3>2
  <2>3. ASSUME NEW m \in Names, Flags(m)
        PROVE  player'[n].removed
    BY <1>1, <2>3, FlagsEffect
  <2>4. ASSUME NEW m \in Names, Discover(m)
        PROVE  player'[n].removed
    BY <1>1, <2>4, DiscoverEffect
  <2> QED BY <2>1, <2>2, <2>3, <2>4, TablesEffect DEF ReportsInv, TypeOK
<1> QED BY <1>2, <1>3 DEF Flagged

(* Who sends what. *)
Sends(v, p, u) == announced' = [announced EXCEPT ![p] = u]

(* Every step sends nothing, or ends all handlers, or is one of the three sends. *)
LEMMA AnnouncedEffect ==
  ASSUME ReportsInv, [Next]_vars
  PROVE  \/ announced' = announced
         \/ \A w \in Handlers : pc'[w] = "idle"
         \/ \E v \in Handlers : Updates(v) /\ pc'[v] \in Holding /\ Sends(v, seen[v].pid, job[v].resp)
         \/ \E v \in Handlers : Inserts(v) /\ pc'[v] \in Holding /\ Sends(v, nextPid, job[v].resp)
         \/ \E v \in Handlers : pc[v] = "announce" /\ Sends(v, target[v], Removed)
<1>0. VarsOK
  BY DEF ReportsInv, TypeOK
<1>1. CASE UNCHANGED vars \/ \E n \in Names : Discover(n)
  BY <1>1 DEF vars, Discover
<1>2. CASE Restart
  BY <1>2 DEF Restart
<1>3. ASSUME NEW v \in Handlers, UpdatePlayer(v)
      PROVE  Updates(v) /\ pc'[v] \in Holding /\ Sends(v, seen[v].pid, job[v].resp)
  BY <1>0, <1>3 DEF UpdatePlayer, Updates, Send, Sends, Goto, Holding, db, VarsOK
<1>4. ASSUME NEW v \in Handlers, InsertPlayer(v)
      PROVE  Inserts(v) /\ pc'[v] \in Holding /\ Sends(v, nextPid, job[v].resp)
  BY <1>0, <1>4 DEF InsertPlayer, Inserts, DrawPid, Send, Sends, Goto, Holding, VarsOK
<1>5. ASSUME NEW v \in Handlers, AnnounceRemoved(v)
      PROVE  pc[v] = "announce" /\ Sends(v, target[v], Removed)
  BY <1>5 DEF AnnounceRemoved, Send, Sends
<1>6. ASSUME NEW v \in Handlers, Receive(v) \/ SelectExisting(v) \/ SelectGuild(v) \/ InsertGuild(v)
             \/ Discard(v) \/ InsertConflict(v) \/ SelectDescription(v) \/ InsertDescription(v)
             \/ Commit(v) \/ FlagRemoved(v) \/ Abort(v)
      PROVE  announced' = announced
  BY <1>6 DEF Receive, SelectExisting, SelectGuild, InsertGuild, Discard, InsertConflict,
              SelectDescription, InsertDescription, SelectKey, InsertKey, Commit, FlagRemoved, Abort
<1> QED BY <1>1, <1>2, <1>3, <1>4, <1>5, <1>6 DEF Next, Step

(* While a row is held nobody sends for it but a removal that came first. *)
LEMMA AnnouncedStep ==
  ASSUME ReportsInv, [Next]_vars
  PROVE  AnnouncedOK'
<1> USE ReportsAssumption
<1>0. /\ VarsOK /\ RegistersOK /\ AnnouncedOK
      /\ \A p \in Pids : announced[p] \in Responses \cup {Removed, None}
  BY DEF ReportsInv, TypeOK, VarsOK
<1>1. ASSUME NEW w \in Handlers, pc'[w] = "announce"
      PROVE  Flagged(target[w])'
  <2>1. CASE Same(w)
    <3>1. PICK p : p = target[w]
      OBVIOUS
    <3>2. Flagged(p)'
      BY <1>0, <1>1, <2>1, <3>1, FlagStays DEF AnnouncedOK, Same
    <3> QED BY <2>1, <3>1, <3>2 DEF Same, Flagged
  <2>2. CASE FlagRemoved(w)
    <3>1. Known(job[w].name) /\ player' = [player EXCEPT ![job[w].name].removed = TRUE]
          /\ target'[w] = player[job[w].name].pid
      BY <1>0, <1>1, <2>2 DEF FlagRemoved, Release, Goto, VarsOK
    <3>2. PICK n \in Names : n = job[w].name
      BY <1>0, <2>2, RegistersType DEF FlagRemoved
    <3>3. Flags(n)
      BY <2>2, <3>1, <3>2 DEF FlagRemoved, Flags
    <3>4. /\ Known(n) => player'[n].pid = player[n].pid /\ player'[n].removed
          /\ Known(n)' <=> Known(n)
      BY <3>3, FlagsEffect
    <3>5. Known(n)
      BY <3>3 DEF Flags
    <3> QED BY <3>1, <3>2, <3>4, <3>5 DEF Flagged
  <2>3. CASE Ended(w)
    BY <1>1, <2>3 DEF Ended
  <2>4. CASE Moved(w) /\ ~FlagRemoved(w)
    BY <1>0, <1>1, <2>4 DEF Moved, Receive, SelectExisting, SelectGuild, InsertGuild, UpdatePlayer,
       InsertPlayer, SelectDescription, InsertDescription, SelectKey, InsertKey, Goto, VarsOK
  <2> QED BY <1>0, <2>1, <2>2, <2>3, <2>4, HandlerEffect
<1>2. ASSUME NEW w \in Handlers, pc'[w] \in Holding
      PROVE  \/ announced'[target'[w]] = job'[w].resp
             \/ announced'[target'[w]] = Removed /\ Flagged(target[w])'
  <2>0. target'[w] \in Pids
    BY <1>2, TargetsStep DEF TargetsOK, TargetOK
  <2>1. CASE Updates(w) \/ Inserts(w)
    <3>1. announced' = [announced EXCEPT ![target'[w]] = job[w].resp]
      BY <2>1 DEF Updates, Inserts, UpdatePlayer, InsertPlayer, Send
    <3>2. job'[w] = job[w] /\ announced'[target'[w]] = job[w].resp
      BY <1>0, <2>0, <2>1, <3>1 DEF Updates, Inserts, VarsOK
    <3> QED BY <3>2
  <2>2. CASE pc[w] \in Holding /\ job'[w] = job[w] /\ target'[w] = target[w]
             /\ ~Updates(w) /\ ~Inserts(w)
    <3>1. PICK p \in Pids : p = target[w]
      BY <2>0, <2>2
    <3>2. announced[p] = job[w].resp \/ (announced[p] = Removed /\ Flagged(p))
      BY <1>0, <2>2, <3>1 DEF AnnouncedOK
    <3>3. Flagged(p) => Flagged(p)'
      BY FlagStays
    <3>4. \/ announced'[p] = announced[p]
          \/ announced'[p] = Removed /\ Flagged(p)
      <4>1. CASE announced' = announced
        BY <4>1
      <4>2. CASE \A v \in Handlers : pc'[v] = "idle"
        BY <1>2, <4>2 DEF Holding
      <4>3. ASSUME NEW v \in Handlers, Updates(v) \/ Inserts(v), pc'[v] \in Holding,
                   Sends(v, target'[v], job[v].resp)
            PROVE  announced'[p] = announced[p]
        <5>1. v # w
          BY <2>2, <4>3
        <5>2. target'[v] # target'[w]
          BY <1>2, <4>3, <5>1, ExcludeStep DEF WritersExclude
        <5> QED BY <1>0, <2>2, <3>1, <4>3, <5>2 DEF Sends, VarsOK
      <4>4. ASSUME NEW v \in Handlers, pc[v] = "announce", Sends(v, target[v], Removed)
            PROVE  \/ announced'[p] = announced[p]
                   \/ announced'[p] = Removed /\ Flagged(p)
        <5>1. Flagged(target[v])
          BY <1>0, <4>4 DEF AnnouncedOK
        <5> QED BY <1>0, <3>1, <4>4, <5>1 DEF Sends, VarsOK
      <4> QED BY <4>1, <4>2, <4>3, <4>4, AnnouncedEffect DEF Updates, Inserts
    <3>5. Flagged(target[w])' <=> Flagged(p)'
      BY <2>2, <3>1 DEF Flagged
    <3> QED BY <2>2, <3>1, <3>2, <3>3, <3>4, <3>5
  <2> QED BY <1>2, <2>1, <2>2, HoldersStep DEF Same, Describes
<1> QED BY <1>1, <1>2 DEF AnnouncedOK

-----------------------------------------------------------------------------
(* The theorems *)

(* The empty tables satisfy the invariant. *)
LEMMA ReportsInit == Init => ReportsInv
<1> SUFFICES ASSUME Init PROVE ReportsInv
  OBVIOUS
<1> USE ReportsAssumption, NoneAssumption DEF Init, Holding, InTransaction
<1>1. TypeOK
  BY DEF TypeOK, VarsOK, RegistersOK, Label
<1>2. PidsOK /\ ReadsOK /\ WritersExclude /\ TargetsOK /\ KeysOK
  BY DEF PidsOK, ReadsOK, WritersExclude, TargetsOK, KeysOK, KeyOK, Known
<1>3. LinksResolve /\ RowIsLastEntry /\ DatesOK /\ ProfilesOK /\ AnnouncedOK
  BY DEF LinksResolve, RowIsLastEntry, DatesOK, ProfilesOK, AnnouncedOK, Known
<1> QED BY <1>1, <1>2, <1>3 DEF ReportsInv

(* Everything the run "reports" checks of states follows from the          *)
(* inductive invariant, which every step keeps part by part.               *)
THEOREM ReportsInvariant == Spec => []ReportsInv
<1>1. ReportsInv /\ [Next]_vars => ReportsInv'
  BY TypeStep, PidsStep, ReadsStep, ExcludeStep, TargetsStep, KeysStep, LinksStep, RowStep,
     DatesStep, ProfilesStep, AnnouncedStep DEF ReportsInv
<1> QED BY <1>1, ReportsInit, PTL DEF Spec

(* The tables and the registers of the handlers keep their shape, for any  *)
(* number of requests of handle_crawl_report.                              *)
THEOREM TypeCorrect == Spec => []TypeOK
BY ReportsInvariant, PTL DEF ReportsInv

(* The row of a player and the last entry of its history come from the     *)
(* same report, whatever transactions of insert_player ran at once.        *)
THEOREM RowsAgreeWithHistory == Spec => []RowIsLastEntry
BY ReportsInvariant, PTL DEF ReportsInv

(* No committed entry names a guild, description or response that was      *)
(* rolled back.                                                            *)
THEOREM LinksAreResolved == Spec => []LinksResolve
BY ReportsInvariant, PTL DEF ReportsInv

(* At most one transaction at a time writes a player, guild or description.*)
THEOREM WritersAreExclusive == Spec => []WritersExclude
BY ReportsInvariant, PTL DEF ReportsInv

(* last_changed names an entry with the present level, attributes and xp.  *)
THEOREM ChangesAreShown == Spec => []ChangedShowsProfile
<1>1. ReportsInv => ChangedShowsProfile
  BY DEF ReportsInv, DatesOK, ProfilesOK, Dated, Witnessed, ChangedShowsProfile
<1> QED BY <1>1, ReportsInvariant, PTL

(* A report that is committed is the last one that was sent to the caches, *)
(* unless a removal of a flagged player was sent after it.                 *)
THEOREM CommitsAreAnnounced == Spec => CommitIsAnnounced
<1> DEFINE Announced ==
      \A p \in Pids : history'[p] # history[p] =>
        \/ announced[p] = history'[p][Len(history'[p])].resp
        \/ /\ announced[p] = Removed
           /\ \E n \in Names : Known(n)' /\ player'[n].pid = p /\ player'[n].removed
<1>1. ReportsInv /\ [Next]_vars => Announced
  <2> SUFFICES ASSUME ReportsInv, [Next]_vars, NEW p \in Pids, history'[p] # history[p]
               PROVE  \/ announced[p] = history'[p][Len(history'[p])].resp
                      \/ announced[p] = Removed /\ Flagged(p)'
    BY DEF Flagged
  <2>1. PICK w \in Handlers : Commit(w)
    BY TablesEffect DEF ReportsInv, TypeOK, Untouched, Flags, Discover
  <2>2. p = target[w] /\ history'[p][Len(history'[p])].resp = job[w].resp /\ pc[w] \in Holding
    <3>1. \A q \in Pids : q # target[w] => history'[q] = history[q]
      BY <2>1, HistoryEffect
    <3>2. history'[target[w]][Len(history'[target[w]])] = [fetch |-> job[w].fetch, resp |-> job[w].resp]
      BY <2>1, HistoryEffect
    <3> QED BY <2>1, <3>1, <3>2, CommitEffect
  <2>3. announced[p] = job[w].resp \/ (announced[p] = Removed /\ Flagged(target[w]))
    BY <2>2 DEF ReportsInv, AnnouncedOK
  <2>4. Flagged(target[w]) => Flagged(p)
    BY <2>2 DEF Flagged
  <2>5. Flagged(p) => Flagged(p)'
    BY FlagStays
  <2> QED BY <2>2, <2>3, <2>4, <2>5
<1> QED BY <1>1, ReportsInvariant, PTL DEF CommitIsAnnounced, Spec

(* A row only goes back to an older report if another transaction replaced *)
(* what its writer had read: without a race, last_reported never decreases.*)
THEOREM OnlyRacesGoBack == Spec => OnlyARaceGoesBack
<1> DEFINE Raced ==
      \A n \in Names :
        Known(n) /\ Known(n)' /\ player'[n].reported < player[n].reported =>
          \E w \in Handlers : /\ pc[w] = "commit" /\ pc'[w] = "idle"
                              /\ seen[w].reported < player[n].reported
<1>1. ReportsInv /\ [Next]_vars => Raced
  <2> SUFFICES ASSUME ReportsInv, [Next]_vars, NEW n \in Names, Known(n),
                      player'[n].reported < player[n].reported
               PROVE  \E w \in Handlers : /\ pc[w] = "commit" /\ pc'[w] = "idle"
                                          /\ seen[w].reported < player[n].reported
    OBVIOUS
  <2> USE ReportsAssumption
  <2>0. player[n].reported \in Nat /\ VarsOK
    BY DEF ReportsInv, TypeOK, VarsOK, Known, Row
  <2>1. PICK w \in Handlers : Commit(w)
    <3>1. CASE Untouched
      BY <2>0, <3>1 DEF Untouched
    <3>2. ASSUME NEW m \in Names, Flags(m)
          PROVE  FALSE
      <4>1. player'[n].reported = player[n].reported
        BY <3>2, FlagsEffect
      <4> QED BY <2>0, <4>1
    <3>3. ASSUME NEW m \in Names, Discover(m)
          PROVE  FALSE
      BY <2>0, <3>3, DiscoverEffect
    <3> QED BY <2>0, <3>1, <3>2, <3>3, TablesEffect
  <2>2. n = job[w].name /\ player'[n] = Written(w)
    BY <2>0, <2>1, CommitEffect
  <2>3. pc[w] = "commit" /\ pc'[w] = "idle"
    BY <2>0, <2>1 DEF Commit, Release, Goto, VarsOK
  <2>4. job[w].fetch < player[n].reported /\ job[w].fetch \in Nat
    BY <2>1, <2>2, CommitEffect, WrittenType
  <2>5. seen[w] # None /\ pc[w] \in Holding
    BY <2>1, <2>2, CommitEffect
  <2>6. seen[w].reported < job[w].fetch /\ seen[w].reported \in Nat
    BY <2>0, <2>5, RegistersType DEF ReportsInv, TypeOK, TargetsOK, TargetOK, Row
  <2> QED BY <2>0, <2>3, <2>4, <2>6
<1> QED BY <1>1, ReportsInvariant, PTL DEF OnlyARaceGoesBack, Spec

(* A guild is locked before a player, a player before a description: what  *)
(* a transaction holds tells how far it is.                                *)
LocksOK(w) ==
  /\ pc[w] \notin {"write"} \cup Holding => keys[w] = {}
  /\ pc[w] \in {"write", "describe", "newdescription"} => keys[w] \subseteq Guilds
LocksInOrder == \A w \in Handlers : LocksOK(w)

(* Only inserting a guild or a description adds to what is held.           *)
LEMMA LocksStep ==
  ASSUME ReportsInv, LocksInOrder, [Next]_vars
  PROVE  LocksInOrder'
<1> SUFFICES ASSUME NEW w \in Handlers PROVE LocksOK(w)'
  BY DEF LocksInOrder
<1> USE ReportsAssumption DEF Holding
<1>0. VarsOK /\ RegistersOK /\ LocksOK(w)
  BY DEF ReportsInv, TypeOK, LocksInOrder
<1>1. CASE Same(w)
  BY <1>0, <1>1 DEF Same, LocksOK
<1>2. CASE Ended(w)
  BY <1>2 DEF Ended, LocksOK
<1>3. CASE Receive(w) \/ SelectExisting(w) \/ (FlagRemoved(w) /\ pc'[w] = "announce")
  <2>1. pc[w] \in {"idle", "select", "flag"}
        /\ pc'[w] \in {"select", "flag", "guild", "announce"}
    BY <1>0, <1>3 DEF Receive, SelectExisting, FlagRemoved, Goto, VarsOK
  <2>2. keys'[w] = keys[w]
    <3>1. CASE Receive(w) \/ SelectExisting(w)
      BY <3>1 DEF Receive, SelectExisting
    <3>2. CASE FlagRemoved(w) /\ pc'[w] = "announce"
      BY <1>0, <3>2 DEF FlagRemoved, Release, Goto, VarsOK
    <3> QED BY <1>3, <3>1, <3>2
  <2> QED BY <1>0, <2>1, <2>2 DEF LocksOK
<1>4. CASE SelectGuild(w) \/ SelectDescription(w)
  <2>1. keys' = keys
    BY <1>4 DEF SelectGuild, SelectDescription, SelectKey
  <2>2. \/ pc[w] = "guild" /\ pc'[w] \in {"write", "newguild"}
        \/ pc[w] = "describe" /\ pc'[w] \in {"commit", "newdescription"}
    BY <1>0, <1>4 DEF SelectGuild, SelectDescription, SelectKey, Goto, VarsOK
  <2> QED BY <1>0, <2>1, <2>2 DEF LocksOK
<1>5. CASE InsertGuild(w)
  <2>1. pc[w] = "newguild" /\ pc'[w] = "write" /\ job[w].resp \in Responses
    BY <1>0, <1>5, RegistersType DEF InsertGuild, InsertKey, Goto, VarsOK, InTransaction
  <2>2. GuildOf[job[w].resp] \in Guilds
    BY <1>0, <2>1 DEF RegistersOK
  <2>3. keys'[w] = keys[w] \cup {GuildOf[job[w].resp]}
    BY <1>0, <1>5 DEF InsertGuild, InsertKey, VarsOK
  <2> QED BY <1>0, <2>1, <2>2, <2>3 DEF LocksOK
<1>6. CASE InsertDescription(w)
  <2>1. pc'[w] = "commit"
    BY <1>0, <1>6 DEF InsertDescription, InsertKey, Goto, VarsOK
  <2> QED BY <2>1 DEF LocksOK
<1>7. CASE UpdatePlayer(w) \/ InsertPlayer(w)
  <2>1. keys' = keys /\ pc[w] = "write" /\ pc'[w] = "describe"
    BY <1>0, <1>7 DEF UpdatePlayer, InsertPlayer, Goto, VarsOK
  <2> QED BY <1>0, <2>1 DEF LocksOK
<1> QED BY <1>0, <1>1, <1>2, <1>3, <1>4, <1>5, <1>6, <1>7, HandlerEffect DEF Moved

(* Reports never wait for each other in a circle, for any number of        *)
(* requests and any guilds, players and descriptions they share: whoever   *)
(* is waited for is further on in insert_player.                           *)
THEOREM WaitsHaveNoCircle == Spec => []WaitsGoUp
<1>1. Init => LocksInOrder
  BY DEF Init, LocksInOrder, LocksOK, Holding
<1>2. ReportsInv /\ LocksInOrder => WaitsGoUp
  <2> SUFFICES ASSUME ReportsInv, LocksInOrder,
                      NEW v \in Handlers, NEW w \in Handlers, v # w, WaitsFor(w, v)
               PROVE  Rank(pc[v]) > Rank(pc[w])
    BY DEF WaitsGoUp
  <2>0. VarsOK /\ RegistersOK /\ LocksOK(v)
    BY DEF ReportsInv, TypeOK, LocksInOrder
  <2>1. CASE pc[w] = "newguild" /\ GuildOf[job[w].resp] \in keys[v]
    <3>1. pc[v] \in {"write", "describe", "newdescription", "commit"}
      BY <2>0, <2>1 DEF LocksOK, Holding
    <3> QED BY <2>1, <3>1 DEF Rank
  <2>2. CASE pc[w] \in {"write", "flag"} /\ pc[v] \in Holding
    BY <2>2 DEF Rank, Holding
  <2>3. CASE pc[w] = "newdescription" /\ DescriptionOf[job[w].resp] \in keys[v]
    <3>1. DescriptionOf[job[w].resp] \in Descriptions
      BY <2>0, <2>3, RegistersType, ReportsAssumption DEF InTransaction, Holding
    <3>2. pc[v] = "commit"
      BY <2>0, <2>3, <3>1, ReportsAssumption DEF LocksOK, Holding
    <3> QED BY <2>3, <3>2 DEF Rank
  <2> QED BY <2>1, <2>2, <2>3 DEF WaitsFor
<1> QED BY <1>1, <1>2, LocksStep, ReportsInvariant, PTL DEF Spec

(* The transactions implement PlayerHistory: a commit is a Record, a flag  *)
(* a Flag, a discovery a Discover, and every other step leaves row and     *)
(* history alone.                                                          *)
THEOREM ImplementsHistory == Spec => Atomic
<1>1. Init => History!Init
  BY DEF Init, History!Init
<1>2. ReportsInv /\ [Next]_vars => [History!Next]_(History!hvars)
  <2> SUFFICES ASSUME ReportsInv, [Next]_vars
               PROVE  History!Next \/ UNCHANGED History!hvars
    OBVIOUS
  <2> USE ReportsAssumption
  <2>0. VarsOK
    BY DEF ReportsInv, TypeOK
  <2>1. CASE Untouched
    BY <2>1 DEF Untouched, History!hvars
  <2>2. ASSUME NEW w \in Handlers, Commit(w)
        PROVE  History!Next
    <3>1. PICK n \in Names : n = job[w].name
      BY <2>2, CommitEffect
    <3>2. PICK p \in Pids : p = target[w]
      BY <2>2, CommitEffect
    <3>3. PICK f \in 1..MaxTime : f = job[w].fetch
      BY <2>2, CommitEffect
    <3>4. PICK r \in Responses : r = job[w].resp
      BY <2>2, CommitEffect
    <3>5. Written(w).changed \in 1..f
      <4>1. seen[w] # None => /\ seen[w] \in Row /\ Dated(seen[w])
                              /\ seen[w].reported < job[w].fetch
        BY <2>0, <2>2, RegistersType, CommitEffect
           DEF ReportsInv, TypeOK, DatesOK, TargetsOK, TargetOK
      <4> QED BY <3>3, <4>1 DEF Written, HasChanged, Dated, Row
    <3>6. player' = [player EXCEPT ![n] =
            [pid |-> p, reported |-> f, changed |-> Written(w).changed, resp |-> r,
             removed |-> Known(n) /\ player[n].removed]]
      BY <2>2, <3>1, <3>2, <3>3, <3>4 DEF Commit, Written
    <3>7. history' = [history EXCEPT ![p] = Append(@, [fetch |-> f, resp |-> r])]
      BY <2>2, <3>2, <3>3, <3>4 DEF Commit
    <3>8. IF Known(n) THEN player[n].pid = p ELSE History!Unused(p)
      <4>1. CASE Known(n)
        BY <2>2, <3>1, <3>2, <4>1, CommitEffect DEF Known
      <4>2. CASE ~Known(n)
        BY <2>2, <3>1, <3>2, <4>2, CommitEffect DEF Known, History!Unused, History!Known
      <4> QED BY <4>1, <4>2
    <3>9. History!Record(n, p, f, r)
      BY <3>5, <3>6, <3>7, <3>8 DEF History!Record, History!Known, Known
    <3> QED BY <3>9 DEF History!Next
  <2>3. ASSUME NEW n \in Names, Flags(n)
        PROVE  History!Next
    BY <2>3 DEF Flags, Known, History!Next, History!Flag, History!Known
  <2>4. ASSUME NEW n \in Names, Discover(n)
        PROVE  History!Next
    <3>1. \A m \in Names : Known(m) => player[m].pid # nextPid
      <4>1. \A m \in Names : Known(m) => player[m].pid < nextPid /\ player[m].pid \in Nat
        BY DEF ReportsInv, PidsOK, TypeOK, VarsOK, Known, Row, Pids
      <4> QED BY <4>1
    <3>2. History!Unused(nextPid) /\ nextPid \in Pids
      BY <2>4, <3>1, DiscoverEffect DEF History!Unused, History!Known, Known
    <3> QED BY <2>4, <3>2 DEF Discover, Known, History!Next, History!Discover, History!Known
  <2> QED BY <2>0, <2>1, <2>2, <2>3, <2>4, TablesEffect
<1> QED BY <1>1, <1>2, ReportsInvariant, PTL DEF Spec, Atomic, History!Spec
=============================================================================
