----------------------------- MODULE Maintenance -----------------------------
(***************************************************************************)
(* The maintenance programs of src/examples, run by hand against the live  *)
(* database while crawl reports come in: compact_ids.rs gives the players  *)
(* with the largest ids the free small ones, reencode_others.rs stores     *)
(* responses of an old version anew, remove_old.rs deletes responses that  *)
(* no player_info row refers to.  One program runs at a time and can be    *)
(* interrupted anywhere; its transactions are stepped by the statements    *)
(* that see or lock something, and so are those of insert_player, of which *)
(* only the ids are here (the rest is PlayerReports).                      *)
(*                                                                         *)
(* A chunk of compact_ids is one id (chunk-size 1): ids that move together *)
(* meet fewer reports half-way.  All chunks and tasks may run at once.     *)
(***************************************************************************)
EXTENDS Naturals, FiniteSets

CONSTANTS
  Names,      \* player names of one server
  Handlers,   \* report transactions in progress
  Contents,   \* bytes of a stored response
  Encoded,    \* those that reencode_response makes
  Reported,   \* of these, the responses of the reports that come in
  MeaningOf,  \* MeaningOf[c]: what re-encoding keeps of c
  None,       \* no program, content or lock
  StartPids,  \* player_ids that may be in use at the start
  StartRows,  \* what may be stored at the start: [content, old]
  StartResps, \* as many responses are
  MaxPid,     \* bound: values of player_player_id_seq
  MaxResp,    \* bound: values of the sequence of otherplayer_resp_id
  MaxReports, \* bound: reports
  MaxRuns     \* bound: programs started

ASSUME MaintenanceAssumption ==
  /\ IsFiniteSet(Names) /\ IsFiniteSet(Contents)
  /\ Reported \subseteq Encoded /\ Encoded \subseteq Contents
  /\ DOMAIN MeaningOf = Contents
  /\ \A c \in Contents : \E e \in Encoded : MeaningOf[e] = MeaningOf[c]
  /\ None \notin Contents \cup Nat \cup {"compact", "reencode", "remove"}
  /\ StartRows \subseteq [content : Contents, old : BOOLEAN]
  /\ \A r \in StartRows : r.content \in Encoded \/ r.old
  /\ MaxPid \in Nat /\ MaxResp \in Nat /\ MaxReports \in Nat /\ MaxRuns \in Nat
  /\ StartPids \subseteq 1..(MaxPid - 1) /\ StartPids # {} /\ StartResps \in 1..MaxResp

VARIABLES
  player,     \* player[n]: the committed player_id of n, or 0
  infos,      \* table player_info: set of rows, see Row
  resps,      \* table otherplayer_resp: [content, old] for each id in use
  fk,         \* the constraint player_info_player_id_fkey is there
  seq, rseq,  \* the next values of the two sequences
  rep,        \* rep[h]: the report of handler h
  prog,       \* the program that runs
  tasks,      \* tasks[i]: what it does with the player or response i
  reports, runs,
  broken,     \* history variable: compact_ids was stopped, or failed, without the key
  raced       \* history variable: an id drawn was unseen when the sequence was set

tables == <<player, infos, resps, fk>>
history == <<broken, raced>>
vars == <<tables, seq, rseq, rep, prog, tasks, reports, runs, history>>

(* of and what are history: the name and the content that was reported;    *)
(* crossed says that compact_ids moved the player while it was.            *)
Row == [no : 0..MaxReports, pid : 1..MaxPid, resp : 1..MaxResp, of : Names,
        what : Contents, crossed : BOOLEAN]

Idle == [at |-> "idle", no |-> 0, of |-> None, what |-> None, pid |-> 0, new |-> FALSE,
         holds |-> None, resp |-> 0, fresh |-> FALSE, crossed |-> FALSE]
Stopped == [name |-> None, at |-> "stopped", count |-> 0, crossed |-> FALSE]
Task(new) == [at |-> "todo", new |-> new, made |-> None, rows |-> {}]
NoTasks == [i \in {} |-> Task(0)]

PidsInUse == {player[n] : n \in Names} \ {0}
IsLargest(p, S) == p \in S /\ \A q \in S : q <= p

Init ==
  /\ player \in {f \in [Names -> StartPids \cup {0}] :
                   \A m, n \in Names : m # n /\ f[m] # 0 => f[m] # f[n]}
  /\ resps \in [1..StartResps -> StartRows]
  /\ \E last \in [Names -> 1..StartResps] :
       infos = {[no |-> 0, pid |-> player[n], resp |-> last[n], of |-> n,
                 what |-> resps[last[n]].content, crossed |-> FALSE] :
                  n \in {m \in Names : player[m] # 0}}
  /\ fk = TRUE /\ rseq = StartResps + 1
  /\ \E p \in StartPids : IsLargest(p, StartPids) /\ seq = p + 1
  /\ rep = [h \in Handlers |-> Idle]
  /\ prog = Stopped /\ tasks = NoTasks
  /\ reports = 0 /\ runs = 0
  /\ broken = FALSE /\ raced = FALSE

-----------------------------------------------------------------------------
(* Reports *)

(* The ids of which a chunk has seen the player_info rows and not yet the  *)
(* player row.                                                             *)
HalfMoved == {i \in DOMAIN tasks : prog.name = "compact" /\ tasks[i].at = "half"}

(* SELECT player_id at the start of the transaction. *)
Open(h, n, c) ==
  /\ rep[h].at = "idle" /\ reports < MaxReports
  /\ reports' = reports + 1
  /\ rep' = [rep EXCEPT ![h] = [Idle EXCEPT
       !.at = "read", !.no = reports + 1, !.of = n, !.what = c, !.pid = player[n],
       !.new = player[n] = 0, !.crossed = player[n] \in HalfMoved]]
  /\ UNCHANGED <<tables, seq, rseq, prog, tasks, runs, history>>

Held(h, pid) == \E g \in Handlers \ {h} : rep[g].holds = pid
InsertsName(h, n) == \E g \in Handlers \ {h} : rep[g].new /\ rep[g].holds # None /\ rep[g].of = n

(* UPDATE player WHERE player_id = the id that was read: locks the row, or *)
(* changes nothing if no player has that id any more.                      *)
UpdatePlayer(h) ==
  /\ rep[h].at = "read" /\ ~rep[h].new /\ ~Held(h, rep[h].pid)
  /\ rep' = [rep EXCEPT ![h].at = "written",
       ![h].holds = IF rep[h].pid \in PidsInUse THEN rep[h].pid ELSE None]
  /\ UNCHANGED <<tables, seq, rseq, prog, tasks, reports, runs, history>>

(* INSERT INTO player draws an id.  A draw between the SELECT MAX and the  *)
(* ALTER SEQUENCE of compact_ids is forgotten by the latter.               *)
Draw == /\ seq <= MaxPid /\ seq' = seq + 1
        /\ prog' = [prog EXCEPT !.crossed = @ \/ prog.at = "alter"]

InsertPlayer(h) ==
  /\ rep[h].at = "read" /\ rep[h].new /\ ~InsertsName(h, rep[h].of) /\ ~Held(h, seq)
  /\ Draw
  /\ rep' = IF player[rep[h].of] # 0 \/ seq \in PidsInUse
            THEN [rep EXCEPT ![h] = Idle]
            ELSE [rep EXCEPT ![h].at = "written", ![h].pid = seq, ![h].holds = seq]
  /\ UNCHANGED <<tables, rseq, tasks, reports, runs, history>>

Stored(c) == {i \in DOMAIN resps : resps[i].content = c}

(* SELECT the id of the response, any that has it, or INSERT it. *)
FindResponse(h) ==
  /\ rep[h].at = "written"
  /\ \/ /\ \E i \in Stored(rep[h].what) :
             rep' = [rep EXCEPT ![h].at = "found", ![h].resp = i]
        /\ UNCHANGED rseq
     \/ /\ Stored(rep[h].what) = {} /\ rseq <= MaxResp
        /\ rep' = [rep EXCEPT ![h].at = "found", ![h].resp = rseq, ![h].fresh = TRUE]
        /\ rseq' = rseq + 1
  /\ UNCHANGED <<tables, seq, prog, tasks, reports, runs, history>>

(* INSERT INTO player_info checks its keys and locks what they refer to;   *)
(* if one is missing the report fails, see Abort.                          *)
InsertInfo(h) ==
  /\ rep[h].at = "found"
  /\ rep[h].fresh \/ rep[h].resp \in DOMAIN resps
  /\ fk => rep[h].pid \in PidsInUse \/ rep[h].new
  /\ rep' = [rep EXCEPT ![h].at = "linked", ![h].holds = IF fk THEN rep[h].pid ELSE @]
  /\ UNCHANGED <<tables, seq, rseq, prog, tasks, reports, runs, history>>

Commit(h) ==
  /\ rep[h].at = "linked"
  /\ LET r == rep[h]
     IN  /\ player' = IF r.new THEN [player EXCEPT ![r.of] = r.pid] ELSE player
         /\ infos' = infos \cup {[no |-> r.no, pid |-> r.pid, resp |-> r.resp, of |-> r.of,
                                  what |-> r.what, crossed |-> r.crossed]}
         /\ resps' = [i \in DOMAIN resps \cup {r.resp} |->
                        IF i \in DOMAIN resps THEN resps[i]
                        ELSE [content |-> r.what, old |-> FALSE]]
  /\ rep' = [rep EXCEPT ![h] = Idle]
  /\ UNCHANGED <<fk, seq, rseq, prog, tasks, reports, runs, history>>

(* An older report, a missing key, a lost connection, the end of the       *)
(* process: the transaction is rolled back.                                *)
Abort(h) ==
  /\ rep[h].at # "idle"
  /\ rep' = [rep EXCEPT ![h] = Idle]
  /\ UNCHANGED <<tables, seq, rseq, prog, tasks, reports, runs, history>>

-----------------------------------------------------------------------------
(* Programs: start and end *)

Start(name, at, todo) ==
  /\ prog = Stopped /\ runs < MaxRuns
  /\ prog' = [Stopped EXCEPT !.name = name, !.at = at, !.count = Cardinality(PidsInUse)]
  /\ tasks' = todo
  /\ runs' = runs + 1
  /\ UNCHANGED <<tables, seq, rseq, rep, reports, history>>

End == prog' = Stopped /\ tasks' = NoTasks

(* CTRL+C, a panic or a lost connection: open transactions roll back. *)
Interrupt ==
  /\ prog # Stopped
  /\ End
  /\ broken' = (broken \/ prog.at \in {"move", "restore"})
  /\ UNCHANGED <<tables, seq, rseq, rep, reports, runs, raced>>

(* One transaction fails; the others go on. *)
TaskFails(i) ==
  /\ prog.at \in {"move", "work"} /\ tasks[i].at \notin {"done", "failed"}
  /\ tasks' = [tasks EXCEPT ![i].at = "failed", ![i].rows = {}]
  /\ UNCHANGED <<tables, seq, rseq, rep, prog, reports, runs, history>>

AllEnded == \A i \in DOMAIN tasks : tasks[i].at \in {"done", "failed"}

(* reencode_others and remove_old look at no result. *)
WorkEnds ==
  /\ prog.at = "work" /\ AllEnded
  /\ End
  /\ UNCHANGED <<tables, seq, rseq, rep, reports, runs, history>>

-----------------------------------------------------------------------------
(* compact_ids.rs *)

(* SELECT COUNT; without players there is nothing to do. *)
CountPlayers == PidsInUse # {} /\ Start("compact", "list", NoTasks)

(* The ids that n players take when they are compact. *)
Slots_FromZero(n) == 0..n
Slots(n) == 1..n

(* The largest old id gets the smallest free one, and so on: one such map. *)
IdMaps(available, to_move) ==
  {id_map \in [to_move -> available] : \A old \in to_move :
     Cardinality({a \in available : a < id_map[old]}) = Cardinality({p \in to_move : p > old})}

(* SELECT the ids.  Players that appeared since the count leave too few    *)
(* slots, which is a panic; with nothing to move only the sequence is set, *)
(* and the foreign key stays as it is.                                     *)
ListIds ==
  /\ prog.at = "list"
  /\ LET available == Slots(prog.count) \ PidsInUse
         to_move   == {p \in PidsInUse : p > prog.count}
     IN  IF Cardinality(to_move) > Cardinality(available) THEN End
         ELSE /\ \E id_map \in IdMaps(available, to_move) :
                   tasks' = [old \in to_move |-> Task(id_map[old])]
              /\ prog' = [prog EXCEPT !.at = IF to_move = {} THEN "max" ELSE "drop"]
  /\ UNCHANGED <<tables, seq, rseq, rep, reports, runs, history>>

(* DROP CONSTRAINT locks both tables: it waits for everyone who used them. *)
DropKey ==
  /\ prog.at = "drop" /\ \A h \in Handlers : rep[h].at = "idle"
  /\ fk' = FALSE
  /\ prog' = [prog EXCEPT !.at = "move"]
  /\ UNCHANGED <<player, infos, resps, seq, rseq, rep, tasks, reports, runs, history>>

Crossing(old) ==
  [h \in Handlers |-> [rep[h] EXCEPT !.crossed = @ \/ (rep[h].at # "idle" /\ rep[h].pid = old)]]

(* UPDATE player_info, seen by nobody yet ... *)
MoveInfos_OutsideTransaction(old) ==
  /\ prog.at = "move" /\ tasks[old].at = "todo"
  /\ tasks' = [tasks EXCEPT ![old].at = "half"]
  /\ infos' = {[r EXCEPT !.pid = IF @ = old THEN tasks[old].new ELSE @] : r \in infos}
  /\ rep' = Crossing(old)
  /\ UNCHANGED <<player, resps, fk, seq, rseq, prog, reports, runs, history>>

MoveInfos(old) ==
  /\ prog.at = "move" /\ tasks[old].at = "todo"
  /\ tasks' = [tasks EXCEPT ![old].at = "half", ![old].rows = {r \in infos : r.pid = old}]
  /\ rep' = Crossing(old)
  /\ UNCHANGED <<tables, seq, rseq, prog, reports, runs, history>>

(* ... then UPDATE player, which waits for reports of the player and needs *)
(* the new id to be free, and COMMIT.                                      *)
MovePlayer(old) ==
  /\ prog.at = "move" /\ tasks[old].at = "half"
  /\ LET new == tasks[old].new
     IN  /\ new \notin PidsInUse
         /\ \A h \in Handlers : rep[h].holds \notin {old, new}
         /\ player' = [n \in Names |-> IF player[n] = old THEN new ELSE player[n]]
         /\ infos' = (infos \ tasks[old].rows)
                       \cup {[r EXCEPT !.pid = new] : r \in tasks[old].rows}
  /\ tasks' = [tasks EXCEPT ![old].at = "done", ![old].rows = {}]
  /\ rep' = Crossing(old)
  /\ UNCHANGED <<resps, fk, seq, rseq, prog, reports, runs, history>>

(* An error of any chunk is reported after all of them have ended, and the *)
(* program ends there.                                                     *)
MovesEnd ==
  /\ prog.at = "move" /\ AllEnded
  /\ IF \E i \in DOMAIN tasks : tasks[i].at = "failed"
     THEN End /\ broken' = TRUE
     ELSE /\ prog' = [prog EXCEPT !.at = "restore"]
          /\ tasks' = NoTasks /\ UNCHANGED broken
  /\ UNCHANGED <<tables, seq, rseq, rep, reports, runs, raced>>

(* ADD CONSTRAINT waits for those who write and checks every row. *)
RestoreKey_Unvalidated ==
  /\ prog.at = "restore" /\ \A h \in Handlers : rep[h].at \in {"idle", "read"}
  /\ fk' = TRUE /\ prog' = [prog EXCEPT !.at = "max"]
  /\ UNCHANGED <<player, infos, resps, seq, rseq, rep, tasks, reports, runs, history>>

RestoreKey ==
  /\ prog.at = "restore" /\ \A h \in Handlers : rep[h].at \in {"idle", "read"}
  /\ IF \A r \in infos : r.pid \in PidsInUse
     THEN fk' = TRUE /\ prog' = [prog EXCEPT !.at = "max"] /\ UNCHANGED <<tasks, broken>>
     ELSE End /\ broken' = TRUE /\ UNCHANGED fk
  /\ UNCHANGED <<player, infos, resps, seq, rseq, rep, reports, runs, raced>>

(* SELECT MAX, which does not see an id that is drawn and not committed,   *)
(* then ALTER SEQUENCE RESTART WITH the next.                              *)
SelectMax ==
  /\ prog.at = "max"
  /\ \E max \in PidsInUse :
       /\ IsLargest(max, PidsInUse)
       /\ prog' = [prog EXCEPT !.at = "alter", !.count = max,
                     !.crossed = \E h \in Handlers : rep[h].new /\ rep[h].holds # None]
  /\ UNCHANGED <<tables, seq, rseq, rep, tasks, reports, runs, history>>

NextAfter_Largest(max) == max
NextAfter(max) == max + 1

ResetSequence ==
  /\ prog.at = "alter"
  /\ seq' = NextAfter(prog.count)
  /\ raced' = (raced \/ prog.crossed)
  /\ End
  /\ UNCHANGED <<tables, rseq, rep, reports, runs, broken>>

-----------------------------------------------------------------------------
(* reencode_others.rs *)

TasksFor(ids) == [i \in ids |-> Task(0)]

ListOld == Start("reencode", "work", TasksFor({i \in DOMAIN resps : resps[i].old}))

(* A response that is there and old is encoded anew; what has the same     *)
(* bytes already, any of it, will take its place, or a new row will.  If   *)
(* that is the response itself, it is left as it is.  (Between reading it  *)
(* and looking for the bytes nothing changes it.)                          *)
MatchResponse(i) ==
  /\ prog.name = "reencode" /\ tasks[i].at = "todo"
  /\ \E c \in {e \in Encoded : MeaningOf[e] = MeaningOf[resps[i].content]} :
       \/ /\ \E j \in Stored(c) :
               tasks' = [tasks EXCEPT ![i].at = IF j = i THEN "done" ELSE "matched",
                                      ![i].new = j]
          /\ UNCHANGED rseq
       \/ /\ Stored(c) = {} /\ rseq <= MaxResp
          /\ tasks' = [tasks EXCEPT ![i].at = "matched", ![i].new = rseq, ![i].made = c]
          /\ rseq' = rseq + 1
  /\ UNCHANGED <<tables, seq, rep, prog, reports, runs, history>>

(* UPDATE player_info, seen by nobody yet; the new response must be there. *)
Repoint(i) ==
  /\ prog.name = "reencode" /\ tasks[i].at = "matched"
  /\ LET rows == {r \in infos : r.resp = i}
     IN  /\ rows = {} \/ tasks[i].made # None \/ tasks[i].new \in DOMAIN resps
         /\ tasks' = [tasks EXCEPT ![i].at = "half", ![i].rows = rows]
  /\ UNCHANGED <<tables, seq, rseq, rep, prog, reports, runs, history>>

(* Someone has inserted a reference to response i and not committed yet.   *)
Linked(i) ==
  \/ \E h \in Handlers : rep[h].at = "linked" /\ rep[h].resp = i
  \/ \E j \in DOMAIN tasks : tasks[j].rows # {} /\ tasks[j].new = i

(* A committed row other than these refers to it. *)
Referenced_Never(i, rows) == FALSE
Referenced(i, rows) == \E r \in infos \ rows : r.resp = i

(* DELETE the old response, and COMMIT. *)
DeleteOld(i) ==
  /\ prog.name = "reencode" /\ tasks[i].at = "half"
  /\ ~Linked(i) /\ ~Referenced(i, tasks[i].rows)
  /\ LET t == tasks[i]
     IN  /\ infos' = (infos \ t.rows) \cup {[r EXCEPT !.resp = t.new] : r \in t.rows}
         /\ resps' = [j \in (DOMAIN resps \ {i}) \cup (IF t.made = None THEN {} ELSE {t.new}) |->
                        IF j \in DOMAIN resps THEN resps[j]
                        ELSE [content |-> t.made, old |-> FALSE]]
  /\ tasks' = [tasks EXCEPT ![i].at = "done", ![i].rows = {}]
  /\ UNCHANGED <<player, fk, seq, rseq, rep, prog, reports, runs, history>>

-----------------------------------------------------------------------------
(* remove_old.rs *)

ListUnused ==
  Start("remove", "work", TasksFor({i \in DOMAIN resps : ~Referenced(i, {})}))

RemoveUnused(i) ==
  /\ prog.name = "remove" /\ tasks[i].at = "todo"
  /\ ~Linked(i) /\ ~Referenced(i, {})
  /\ resps' = [j \in DOMAIN resps \ {i} |-> resps[j]]
  /\ tasks' = [tasks EXCEPT ![i].at = "done"]
  /\ UNCHANGED <<player, infos, fk, seq, rseq, rep, prog, reports, runs, history>>

-----------------------------------------------------------------------------
Report(h) ==
  \/ \E n \in Names, c \in Reported : Open(h, n, c)
  \/ UpdatePlayer(h) \/ InsertPlayer(h) \/ FindResponse(h) \/ InsertInfo(h) \/ Commit(h)
  \/ Abort(h)

(* The bounds are used up and nobody is at work. *)
Quiet ==
  /\ reports = MaxReports /\ runs = MaxRuns /\ prog = Stopped
  /\ \A h \in Handlers : rep[h].at = "idle"
  /\ UNCHANGED vars

Next ==
  \/ Quiet
  \/ \E h \in Handlers : Report(h)
  \/ CountPlayers \/ ListOld \/ ListUnused \/ Interrupt \/ WorkEnds
  \/ ListIds \/ DropKey \/ MovesEnd \/ RestoreKey \/ SelectMax \/ ResetSequence
  \/ \E i \in DOMAIN tasks : \/ MoveInfos(i) \/ MovePlayer(i)
                             \/ MatchResponse(i) \/ Repoint(i) \/ DeleteOld(i)
                             \/ RemoveUnused(i) \/ TaskFails(i)

Spec == Init /\ [][Next]_vars

-----------------------------------------------------------------------------
(* Properties *)

(* Every variable keeps its shape, no two players have the same id, and a  *)
(* task only holds rows that are there.                                    *)
TypeOK ==
  /\ player \in [Names -> 0..MaxPid]
  /\ \A m, n \in Names : m # n /\ player[m] # 0 => player[m] # player[n]
  /\ infos \subseteq Row
  /\ DOMAIN resps \subseteq 1..MaxResp
  /\ \A i \in DOMAIN resps : resps[i] \in [content : Contents, old : BOOLEAN]
  /\ seq \in 1..MaxPid + 1 /\ rseq \in 1..MaxResp + 1
  /\ \A h \in Handlers : rep[h].at \in {"idle", "read", "written", "found", "linked"}
  /\ \A i \in DOMAIN tasks : tasks[i].rows \subseteq infos
  /\ {fk, broken, raced} \subseteq BOOLEAN
  /\ reports \in 0..MaxReports /\ runs \in 0..MaxRuns

(* A history entry stays with the player it was reported for through all   *)
(* moves of ids, interruptions and later runs.  Only a report that was     *)
(* open while its player's id was moved may be left under the old id.      *)
HistoryKeepsItsPlayer ==
  \A r \in infos : r.crossed \/ player[r.of] = r.pid

(* An entry refers to a response that is there and means what was reported,*)
(* although responses are merged, and deleted as unused, beside reports    *)
(* that have found them and not yet referred to them.                      *)
HistoryKeepsItsResponse ==
  \A r \in infos : /\ r.resp \in DOMAIN resps
                   /\ MeaningOf[resps[r.resp].content] = MeaningOf[r.what]

(* The next player gets an id that no player has, also after the sequence  *)
(* was set back, and nobody is kept out by one that is taken; unless an id *)
(* was drawn, and not committed, before SELECT MAX, or drawn between it    *)
(* and ALTER SEQUENCE.                                                     *)
FreshIdsAreFree ==
  raced \/ /\ \A p \in PidsInUse : p < seq
           /\ \A h \in Handlers : rep[h].new => rep[h].pid < seq

(* Without its foreign key player_info is left only by a run that was      *)
(* interrupted or failed, and a key that is there can be relied on.        *)
ForeignKeyComesBack ==
  /\ fk \/ broken \/ prog.at \in {"move", "restore"}
  /\ fk => \A r \in infos : r.pid \in PidsInUse
=============================================================================
