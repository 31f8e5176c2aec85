------------------------- MODULE Maintenance_proofs -------------------------
(***************************************************************************)
(* What the run of Maintenance checks on a small instance, proved for any  *)
(* names, handlers, contents and ids that satisfy the assumption: in       *)
(* particular for moves of many players at once.                           *)
(***************************************************************************)
EXTENDS Maintenance, FiniteSetTheorems, TLAPS

(* The bounds are numbers and None is none of them. *)
LEMMA Constants ==
  /\ MaxPid \in Nat /\ MaxResp \in Nat /\ MaxReports \in Nat /\ MaxRuns \in Nat
  /\ None \notin Nat /\ None \notin Contents /\ Encoded \subseteq Contents /\ Reported \subseteq Encoded
BY MaintenanceAssumption

USE Constants

-----------------------------------------------------------------------------
(* The inductive invariant *)

RespRecord == [content : Contents, old : BOOLEAN]
RepLabel == {"idle", "read", "written", "found", "linked"}
SomeName == Names \cup {None}
SomeContent == Contents \cup {None}
Pid == 0..MaxPid
Lock == Pid \cup {None}
RespId == 0..MaxResp
ReportNo == 0..MaxReports
RepRecord ==
  [at : RepLabel, no : ReportNo, of : SomeName, what : SomeContent, pid : Pid, new : BOOLEAN,
   holds : Lock, resp : RespId, fresh : BOOLEAN, crossed : BOOLEAN]

ProgName == {None, "compact", "reencode", "remove"}
ProgLabel == {"stopped", "list", "drop", "move", "restore", "max", "alter", "work"}
ProgRecord == [name : ProgName, at : ProgLabel, count : Nat, crossed : BOOLEAN]

TaskLabel == {"todo", "matched", "half", "done", "failed"}
TaskRecord == [at : TaskLabel, new : Nat, made : SomeContent, rows : SUBSET Row]

VarsOK ==
  /\ player \in [Names -> Pid]
  /\ infos \subseteq Row
  /\ resps \in [DOMAIN resps -> RespRecord] /\ DOMAIN resps \subseteq 1..MaxResp
  /\ fk \in BOOLEAN /\ broken \in BOOLEAN /\ raced \in BOOLEAN
  /\ seq \in 1..MaxPid + 1 /\ rseq \in 1..MaxResp + 1
  /\ rep \in [Handlers -> RepRecord]
  /\ prog \in ProgRecord
  /\ tasks \in [DOMAIN tasks -> TaskRecord] /\ DOMAIN tasks \subseteq Nat
  /\ reports \in 0..MaxReports /\ runs \in 0..MaxRuns

(* What a report knows at each of its statements. *)
Active(h) == rep[h].at # "idle"
Writing(h) == rep[h].new /\ rep[h].at \in {"written", "found", "linked"}
Responding(h) == rep[h].at \in {"found", "linked"}

RepOK(h) ==
  /\ ~Active(h) => ~rep[h].new /\ ~rep[h].fresh
  /\ Active(h) => rep[h].of \in Names /\ rep[h].what \in Contents
  /\ Active(h) /\ ~rep[h].new => rep[h].pid \in 1..MaxPid
  /\ rep[h].new /\ rep[h].holds # None => Writing(h)
  /\ rep[h].new /\ ~Writing(h) => rep[h].pid = 0
  /\ Writing(h) => rep[h].pid \in 1..MaxPid /\ rep[h].holds = rep[h].pid
  /\ rep[h].fresh => Responding(h)
  /\ Responding(h) => rep[h].resp \in 1..MaxResp

RepsOK == \A h \in Handlers : RepOK(h)

(* Which program is where, and when it has tasks. *)
ProgOK ==
  /\ prog.at = "stopped" <=> prog.name = None
  /\ prog.at \in {"list", "drop", "move", "restore", "max", "alter"} <=> prog.name = "compact"
  /\ prog.at \notin {"drop", "move", "work"} => DOMAIN tasks = {}

(* An uncommitted player has an id and a name that nobody else has. *)
NewOnesOK ==
  /\ \A m, n \in Names : m # n /\ player[m] # 0 => player[m] # player[n]
  /\ \A h \in Handlers : Writing(h) => player[rep[h].of] = 0 /\ rep[h].pid \notin PidsInUse
  /\ \A g, h \in Handlers : g # h /\ Writing(g) /\ Writing(h) =>
       rep[g].of # rep[h].of /\ rep[g].pid # rep[h].pid

(* A chunk moves an id that is in use to a smaller one; between its two    *)
(* statements it has all rows of the id, except those of reports that know *)
(* of the move.                                                            *)
MoveOK(i) ==
  /\ i \in 1..MaxPid /\ tasks[i].new \in 1..(i - 1)
  /\ tasks[i].at # "matched"
  /\ tasks[i].at \in {"todo", "half"} => i \in PidsInUse
  /\ tasks[i].at # "half" => tasks[i].rows = {}
  /\ tasks[i].at = "half" =>
       /\ tasks[i].rows \subseteq {r \in infos : r.pid = i}
       /\ \A r \in infos \ tasks[i].rows : r.pid = i => r.crossed
       /\ \A h \in Handlers : Active(h) /\ rep[h].pid = i => rep[h].crossed

MovesOK == prog.name = "compact" => \A i \in DOMAIN tasks : MoveOK(i)

(* A report that was not crossed writes the id its player has. *)
ReportsKeepPlayer ==
  \A h \in Handlers : Active(h) /\ ~rep[h].new /\ ~rep[h].crossed => player[rep[h].of] = rep[h].pid

(* The key is away while ids move, and what is linked under it is there. *)
KeyOK ==
  /\ ForeignKeyComesBack
  /\ prog.at \in {"move", "restore"} => ~fk
  /\ \A h \in Handlers : fk /\ rep[h].at = "linked" /\ ~rep[h].new => rep[h].pid \in PidsInUse

(* The largest id that was selected is still the largest when the sequence *)
(* is set, unless an id was drawn meanwhile or unseen.                     *)
SequenceOK ==
  /\ FreshIdsAreFree
  /\ prog.at = "alter" =>
       /\ prog.count \in 1..MaxPid
       /\ ~prog.crossed => /\ \A p \in PidsInUse : p <= prog.count
                           /\ \A h \in Handlers : rep[h].new => rep[h].holds = None

PlayersInv == NewOnesOK /\ MovesOK /\ ReportsKeepPlayer /\ HistoryKeepsItsPlayer /\ KeyOK /\ SequenceOK

(* Ids of responses that are drawn and not committed yet. *)
Making(i) == tasks[i].made # None /\ tasks[i].at \in {"matched", "half"}

FreshOK ==
  /\ \A i \in DOMAIN resps : i < rseq
  /\ \A h \in Handlers : rep[h].fresh => rep[h].resp < rseq /\ rep[h].resp \notin DOMAIN resps
  /\ \A i \in DOMAIN tasks : Making(i) => tasks[i].new < rseq /\ tasks[i].new \notin DOMAIN resps
  /\ \A g, h \in Handlers : g # h /\ rep[g].fresh /\ rep[h].fresh => rep[g].resp # rep[h].resp
  /\ \A i, j \in DOMAIN tasks : i # j /\ Making(i) /\ Making(j) => tasks[i].new # tasks[j].new
  /\ \A h \in Handlers, i \in DOMAIN tasks :
       rep[h].fresh /\ Making(i) => rep[h].resp # tasks[i].new

(* A response that a report found is never replaced by another of that id, *)
(* and one it has linked is there.                                         *)
FoundOK ==
  \A h \in Handlers : Responding(h) /\ ~rep[h].fresh =>
    /\ rep[h].resp < rseq
    /\ \A g \in Handlers : rep[g].fresh => rep[g].resp # rep[h].resp
    /\ \A i \in DOMAIN tasks : Making(i) => tasks[i].new # rep[h].resp
    /\ rep[h].resp \in DOMAIN resps => resps[rep[h].resp].content = rep[h].what
    /\ rep[h].at = "linked" => rep[h].resp \in DOMAIN resps

(* What takes the place of an old response means the same, is another, and *)
(* is there as soon as rows refer to it; they are rows of the old one.     *)
TargetOK(i) ==
  /\ tasks[i].at \in {"todo", "matched", "half"} => i \in DOMAIN resps
  /\ tasks[i].at = "todo" => tasks[i].made = None
  /\ tasks[i].at # "half" => tasks[i].rows = {}
  /\ tasks[i].rows \subseteq {r \in infos : r.resp = i}
  /\ tasks[i].at \in {"matched", "half"} =>
       /\ tasks[i].new \in 1..MaxResp /\ tasks[i].new < rseq /\ tasks[i].new # i
       /\ tasks[i].made # None => MeaningOf[tasks[i].made] = MeaningOf[resps[i].content]
       /\ tasks[i].made = None =>
            /\ \A h \in Handlers : rep[h].fresh => rep[h].resp # tasks[i].new
            /\ \A j \in DOMAIN tasks : Making(j) => tasks[j].new # tasks[i].new
            /\ tasks[i].new \in DOMAIN resps =>
                 MeaningOf[resps[tasks[i].new].content] = MeaningOf[resps[i].content]
            /\ tasks[i].rows # {} => tasks[i].new \in DOMAIN resps

TargetsOK ==
  /\ prog.name # "reencode" => \A i \in DOMAIN tasks : tasks[i].made = None
  /\ prog.name = "remove" => \A i \in DOMAIN tasks : tasks[i].rows = {}
  /\ prog.name = "reencode" => \A i \in DOMAIN tasks : TargetOK(i)

RespsInv == FreshOK /\ FoundOK /\ TargetsOK /\ HistoryKeepsItsResponse

ShapesOK == VarsOK /\ RepsOK /\ ProgOK

IInv == ShapesOK /\ PlayersInv /\ RespsInv

-----------------------------------------------------------------------------
(* Players are finitely many, so counting them gives a number. *)
LEMMA CountIsNat == VarsOK => Cardinality(PidsInUse) \in Nat
<1> SUFFICES ASSUME VarsOK PROVE Cardinality(PidsInUse) \in Nat
  OBVIOUS
<1>1. PidsInUse \in SUBSET (1..MaxPid)
  BY DEF VarsOK, PidsInUse, Pid
<1>2. IsFiniteSet(1..MaxPid)
  BY FS_Interval
<1> QED BY <1>1, <1>2, FS_Subset, FS_CardinalityType

(* The sets of labels, and what is in every one of them. *)
LEMMA Members ==
  /\ "idle" \in RepLabel /\ "read" \in RepLabel /\ "written" \in RepLabel
  /\ "found" \in RepLabel /\ "linked" \in RepLabel
  /\ None \in SomeName /\ None \in SomeContent /\ None \in Lock /\ None \in ProgName
  /\ Names \subseteq SomeName /\ Contents \subseteq SomeContent /\ Pid \subseteq Lock
  /\ 0 \in Pid /\ 0 \in RespId /\ 0 \in ReportNo /\ 1..MaxPid \subseteq Pid
  /\ 1..MaxResp \subseteq RespId
  /\ ProgName = {None, "compact", "reencode", "remove"}
  /\ ProgLabel = {"stopped", "list", "drop", "move", "restore", "max", "alter", "work"}
  /\ TaskLabel = {"todo", "matched", "half", "done", "failed"}
BY DEF RepLabel, SomeName, SomeContent, Lock, Pid, RespId, ReportNo, ProgName, ProgLabel, TaskLabel

(* A chunk that touches the rows of a player crosses its reports, and does *)
(* nothing else to reports.                                                *)
LEMMA CrossingEffect ==
  ASSUME VarsOK, NEW old, rep' = Crossing(old)
  PROVE  /\ rep' \in [Handlers -> RepRecord]
         /\ \A h \in Handlers :
              /\ rep'[h].at = rep[h].at /\ rep'[h].no = rep[h].no /\ rep'[h].of = rep[h].of
              /\ rep'[h].what = rep[h].what /\ rep'[h].pid = rep[h].pid
              /\ rep'[h].new = rep[h].new /\ rep'[h].holds = rep[h].holds
              /\ rep'[h].resp = rep[h].resp /\ rep'[h].fresh = rep[h].fresh
              /\ rep'[h].crossed <=> rep[h].crossed \/ (Active(h) /\ rep[h].pid = old)
<1>1. ASSUME NEW h \in Handlers
      PROVE  \E b \in BOOLEAN : /\ b = (rep[h].crossed \/ (rep[h].at # "idle" /\ rep[h].pid = old))
                                /\ rep'[h] = [rep[h] EXCEPT !.crossed = b]
  BY DEF Crossing
<1>2. ASSUME NEW h \in Handlers PROVE rep[h] \in RepRecord
  BY DEF VarsOK
<1>3. ASSUME NEW h \in Handlers PROVE rep'[h] \in RepRecord
  <2>1. PICK b \in BOOLEAN : rep'[h] = [rep[h] EXCEPT !.crossed = b]
    BY <1>1
  <2>2. rep[h] \in RepRecord
    BY <1>2
  <2> QED BY <2>1, <2>2 DEF RepRecord
<1>4. rep' \in [Handlers -> RepRecord]
  BY <1>3 DEF Crossing
<1> QED BY <1>1, <1>2, <1>4 DEF RepRecord, Active

(* What programs and reports are like before they start. *)
LEMMA Records ==
  /\ Stopped \in ProgRecord /\ Idle \in RepRecord
  /\ NoTasks \in [{} -> TaskRecord] /\ DOMAIN NoTasks = {}
  /\ \A n \in Nat : Task(n) \in TaskRecord /\ Task(n).rows = {} /\ Task(n).new = n
                    /\ Task(n).at = "todo" /\ Task(n).made = None
<1>1. Stopped \in ProgRecord
  BY Members DEF Stopped, ProgRecord
<1>2. Idle \in RepRecord
  BY Members DEF Idle, RepRecord
<1>3. \A n \in Nat : Task(n) \in TaskRecord /\ Task(n).rows = {} /\ Task(n).new = n
                     /\ Task(n).at = "todo" /\ Task(n).made = None
  BY Members DEF Task, TaskRecord
<1> QED BY <1>1, <1>2, <1>3 DEF NoTasks

(* Reports keep the shape of every variable. *)
LEMMA ReportsKeepVars ==
  ASSUME VarsOK, RepsOK, NEW h \in Handlers, Report(h) PROVE VarsOK'
<1>0. /\ rep[h] \in RepRecord /\ prog \in ProgRecord /\ seq \in 1..MaxPid + 1
      /\ rep \in [Handlers -> RepRecord] /\ rseq \in 1..MaxResp + 1
  BY DEF VarsOK
<1>1. ASSUME NEW n \in Names, NEW c \in Reported, Open(h, n, c) PROVE VarsOK'
  <2>1. player[n] \in Pid /\ reports + 1 \in ReportNo /\ c \in SomeContent /\ n \in SomeName
        /\ reports' \in 0..MaxReports
    BY <1>1, Members DEF VarsOK, Open, ReportNo
  <2>2. \A new, crossed \in BOOLEAN :
          [Idle EXCEPT !.at = "read", !.no = reports + 1, !.of = n, !.what = c,
                       !.pid = player[n], !.new = new, !.crossed = crossed] \in RepRecord
    BY <2>1, Members, Records DEF RepRecord
  <2>3. rep'[h] \in RepRecord
    <3>1. (player[n] = 0) \in BOOLEAN /\ (player[n] \in HalfMoved) \in BOOLEAN
      OBVIOUS
    <3>2. [Idle EXCEPT !.at = "read", !.no = reports + 1, !.of = n, !.what = c,
            !.pid = player[n], !.new = player[n] = 0, !.crossed = player[n] \in HalfMoved] \in RepRecord
      BY <2>2, <3>1, Zenon
    <3> QED BY <1>0, <1>1, <3>2 DEF Open
  <2>4. rep' \in [Handlers -> RepRecord]
    BY <1>0, <1>1, <2>3 DEF Open
  <2> QED BY <1>1, <2>1, <2>4 DEF Open, VarsOK, tables, history
<1>2. CASE UpdatePlayer(h)
  <2>1. rep' \in [Handlers -> RepRecord]
    BY <1>0, <1>2, Members DEF UpdatePlayer, RepRecord
  <2> QED BY <1>2, <2>1 DEF UpdatePlayer, VarsOK, tables, history
<1>3. CASE InsertPlayer(h)
  <2>1. seq \in Pid /\ seq' \in 1..MaxPid + 1
    BY <1>0, <1>3 DEF InsertPlayer, Draw, Pid
  <2>2. [rep EXCEPT ![h].at = "written", ![h].pid = seq, ![h].holds = seq] \in [Handlers -> RepRecord]
    BY <1>0, <2>1, Members DEF RepRecord
  <2>3. [rep EXCEPT ![h] = Idle] \in [Handlers -> RepRecord]
    BY <1>0, Records
  <2>4. rep' \in [Handlers -> RepRecord]
    BY <1>3, <2>2, <2>3 DEF InsertPlayer
  <2>5. (prog.crossed \/ prog.at = "alter") \in BOOLEAN
        /\ prog' = [prog EXCEPT !.crossed = (prog.crossed \/ prog.at = "alter")]
    BY <1>3 DEF InsertPlayer, Draw
  <2>6. prog' \in ProgRecord
    BY <1>0, <2>5 DEF ProgRecord
  <2> QED BY <1>3, <2>1, <2>4, <2>6 DEF InsertPlayer, Draw, VarsOK, tables, history
<1>4. CASE FindResponse(h)
  <2>1. DOMAIN resps \subseteq RespId /\ (rseq <= MaxResp => rseq \in RespId)
    BY <1>0 DEF VarsOK, RespId
  <2>2. rep' \in [Handlers -> RepRecord]
    BY <1>0, <1>4, <2>1, Members DEF FindResponse, Stored, RepRecord
  <2>3. rseq' \in 1..MaxResp + 1
    BY <1>0, <1>4 DEF FindResponse
  <2> QED BY <1>4, <2>2, <2>3 DEF FindResponse, VarsOK, tables, history
<1>5. CASE InsertInfo(h)
  <2>1. rep' \in [Handlers -> RepRecord]
    BY <1>0, <1>5, Members DEF InsertInfo, RepRecord
  <2> QED BY <1>5, <2>1 DEF InsertInfo, VarsOK, tables, history
<1>6. CASE Commit(h)
  <2> DEFINE row == [no |-> rep[h].no, pid |-> rep[h].pid, resp |-> rep[h].resp, of |-> rep[h].of,
                     what |-> rep[h].what, crossed |-> rep[h].crossed]
  <2>1. rep[h].pid \in 1..MaxPid /\ rep[h].of \in Names /\ rep[h].what \in Contents
        /\ rep[h].resp \in 1..MaxResp
    BY <1>6 DEF Commit, RepsOK, RepOK, Active, Writing, Responding
  <2>2. row \in Row
    BY <1>0, <2>1 DEF Row, RepRecord, ReportNo
  <2>3. infos' \subseteq Row /\ player' \in [Names -> Pid]
    BY <1>6, <2>1, <2>2, Members DEF Commit, VarsOK
  <2>4. [content |-> rep[h].what, old |-> FALSE] \in RespRecord
    BY <2>1 DEF RespRecord
  <2>5. resps' \in [DOMAIN resps' -> RespRecord] /\ DOMAIN resps' \subseteq 1..MaxResp
    BY <1>6, <2>1, <2>4 DEF Commit, VarsOK
  <2>6. rep' \in [Handlers -> RepRecord]
    BY <1>6, Records DEF Commit, VarsOK
  <2> QED BY <1>6, <2>3, <2>5, <2>6 DEF Commit, VarsOK, history
<1>7. CASE Abort(h)
  BY <1>7, Records DEF Abort, VarsOK, tables, history
<1> QED BY <1>1, <1>2, <1>3, <1>4, <1>5, <1>6, <1>7 DEF Report

(* The steps of the programs. *)
Programs ==
  \/ CountPlayers \/ ListOld \/ ListUnused \/ Interrupt \/ WorkEnds
  \/ ListIds \/ DropKey \/ MovesEnd \/ RestoreKey \/ SelectMax \/ ResetSequence
  \/ \E i \in DOMAIN tasks : \/ MoveInfos(i) \/ MovePlayer(i)
                             \/ MatchResponse(i) \/ Repoint(i) \/ DeleteOld(i)
                             \/ RemoveUnused(i) \/ TaskFails(i)

(* A step is one of a report or of a program, or leaves everything as it is. *)
LEMMA StepCases ==
  ASSUME [Next]_vars
  PROVE  (\E h \in Handlers : Report(h)) \/ Programs \/ UNCHANGED vars
BY DEF Next, Programs, Quiet

(* A program that starts. *)
LEMMA StartKeepsVars ==
  ASSUME VarsOK, NEW name \in ProgName, NEW at \in ProgLabel, NEW todo, Start(name, at, todo),
         todo \in [DOMAIN todo -> TaskRecord], DOMAIN todo \subseteq Nat
  PROVE  VarsOK' /\ prog'.name = name /\ prog'.at = at
<1>1. prog' \in ProgRecord /\ prog'.name = name /\ prog'.at = at
  BY CountIsNat, Records DEF Start, ProgRecord
<1>2. runs' \in 0..MaxRuns
  BY DEF Start, VarsOK
<1> QED BY <1>1, <1>2 DEF Start, VarsOK, tables, history

(* A program keeps the shape of every variable. *)
LEMMA ProgramsKeepVars ==
  ASSUME VarsOK, ProgOK, MovesOK, SequenceOK, TargetsOK, Programs PROVE VarsOK'
<1>0. /\ prog \in ProgRecord /\ tasks \in [DOMAIN tasks -> TaskRecord]
      /\ DOMAIN tasks \subseteq Nat /\ rseq \in 1..MaxResp + 1 /\ infos \subseteq Row
  BY DEF VarsOK
<1>a. NoTasks \in [DOMAIN NoTasks -> TaskRecord] /\ DOMAIN NoTasks \subseteq Nat
  BY Records
<1>b. ASSUME NEW S \in SUBSET Nat
      PROVE  TasksFor(S) \in [DOMAIN TasksFor(S) -> TaskRecord] /\ DOMAIN TasksFor(S) \subseteq Nat
  BY Records DEF TasksFor
<1>1. CASE CountPlayers
  BY <1>1, <1>a, StartKeepsVars, Members DEF CountPlayers
<1>2. CASE ListOld
  <2>1. {i \in DOMAIN resps : resps[i].old} \in SUBSET Nat
    BY DEF VarsOK
  <2> QED BY <1>2, <1>b, <2>1, StartKeepsVars, Members DEF ListOld
<1>3. CASE ListUnused
  <2>1. {i \in DOMAIN resps : ~Referenced(i, {})} \in SUBSET Nat
    BY DEF VarsOK
  <2> QED BY <1>3, <1>b, <2>1, StartKeepsVars, Members DEF ListUnused
<1>4. CASE Interrupt
  <2>1. broken' \in BOOLEAN
    BY <1>4 DEF Interrupt
  <2> QED BY <1>4, <1>a, <2>1, Records DEF Interrupt, End, VarsOK, tables
<1>5. CASE WorkEnds
  BY <1>5, <1>a, Records DEF WorkEnds, End, VarsOK, tables, history
<1>6. CASE ListIds
  <2>1. CASE End
    BY <1>6, <2>1, <1>a, Records DEF ListIds, End, VarsOK, tables, history
  <2>2. CASE ~End
    <3> DEFINE available == Slots(prog.count) \ PidsInUse
               to_move == {p \in PidsInUse : p > prog.count}
    <3>1. PICK id_map \in IdMaps(available, to_move) :
            /\ tasks' = [old \in to_move |-> Task(id_map[old])]
            /\ prog' = [prog EXCEPT !.at = IF to_move = {} THEN "max" ELSE "drop"]
      BY <1>6, <2>2 DEF ListIds
    <3>2. id_map \in [to_move -> Nat] /\ to_move \subseteq Nat
      BY <1>0 DEF IdMaps, Slots, ProgRecord, PidsInUse, VarsOK, Pid
    <3>3. tasks' \in [DOMAIN tasks' -> TaskRecord] /\ DOMAIN tasks' \subseteq Nat
      BY <3>1, <3>2, Records
    <3>4. prog' \in ProgRecord
      BY <1>0, <3>1, Members DEF ProgRecord
    <3> QED BY <1>6, <3>3, <3>4 DEF ListIds, VarsOK, tables, history
  <2> QED BY <2>1, <2>2
<1>7. CASE DropKey
  <2>1. prog' \in ProgRecord
    BY <1>0, <1>7, Members DEF DropKey, ProgRecord
  <2> QED BY <1>7, <2>1 DEF DropKey, VarsOK, history
<1>8. CASE MovesEnd
  <2>1. CASE End
    BY <1>8, <2>1, <1>a, Records DEF MovesEnd, End, VarsOK, tables
  <2>2. CASE ~End
    <3>1. prog' \in ProgRecord
      BY <1>0, <1>8, <2>2, Members DEF MovesEnd, ProgRecord
    <3> QED BY <1>8, <2>2, <1>a, <3>1 DEF MovesEnd, VarsOK, tables
  <2> QED BY <2>1, <2>2
<1>9. CASE RestoreKey
  <2>1. CASE End
    BY <1>9, <2>1, <1>a, Records DEF RestoreKey, End, VarsOK
  <2>2. CASE ~End
    <3>1. prog' \in ProgRecord
      BY <1>0, <1>9, <2>2, Members DEF RestoreKey, ProgRecord
    <3> QED BY <1>9, <2>2, <3>1 DEF RestoreKey, VarsOK
  <2> QED BY <2>1, <2>2
<1>10. CASE SelectMax
  <2>1. \A crossed \in BOOLEAN : \A max \in Nat :
          [prog EXCEPT !.at = "alter", !.count = max, !.crossed = crossed] \in ProgRecord
    BY <1>0, Members DEF ProgRecord
  <2>2. (\E h \in Handlers : rep[h].new /\ rep[h].holds # None) \in BOOLEAN
        /\ PidsInUse \subseteq Nat
    BY DEF VarsOK, PidsInUse, Pid
  <2>3. prog' \in ProgRecord
    <3>1. PICK max \in PidsInUse :
            prog' = [prog EXCEPT !.at = "alter", !.count = max,
                       !.crossed = \E h \in Handlers : rep[h].new /\ rep[h].holds # None]
      BY <1>10, Zenon DEF SelectMax
    <3>2. max \in Nat
      BY <2>2
    <3> QED BY <2>1, <2>2, <3>1, <3>2, Zenon
  <2> QED BY <1>10, <2>3 DEF SelectMax, VarsOK, tables, history
<1>11. CASE ResetSequence
  <2>1. seq' \in 1..MaxPid + 1 /\ raced' \in BOOLEAN
    BY <1>11 DEF ResetSequence, NextAfter, SequenceOK
  <2> QED BY <1>11, <2>1, <1>a, Records DEF ResetSequence, End, VarsOK, tables
<1>12. ASSUME NEW i \in DOMAIN tasks, MoveInfos(i) PROVE VarsOK'
  <2>1. tasks[i] \in TaskRecord /\ {r \in infos : r.pid = i} \in SUBSET Row
    BY <1>0
  <2>2. [tasks[i] EXCEPT !.at = "half", !.rows = {r \in infos : r.pid = i}] \in TaskRecord
    BY <2>1, Members DEF TaskRecord
  <2>3. tasks' \in [DOMAIN tasks' -> TaskRecord] /\ DOMAIN tasks' \subseteq Nat
    BY <1>0, <1>12, <2>2 DEF MoveInfos
  <2> QED BY <1>12, <2>3, CrossingEffect DEF MoveInfos, VarsOK, tables, history
<1>13. ASSUME NEW i \in DOMAIN tasks, MovePlayer(i) PROVE VarsOK'
  <2>1. tasks[i] \in TaskRecord /\ prog.name = "compact"
    BY <1>0, <1>13 DEF MovePlayer, ProgOK
  <2>2. tasks[i].new \in 1..MaxPid
    BY <2>1 DEF MovesOK, MoveOK
  <2>3. player' \in [Names -> Pid]
    BY <1>13, <2>2, Members DEF MovePlayer, VarsOK
  <2>4. \A r \in Row : [r EXCEPT !.pid = tasks[i].new] \in Row
    BY <2>2 DEF Row
  <2>5. infos' \subseteq Row
    BY <1>0, <1>13, <2>1, <2>4 DEF MovePlayer, TaskRecord
  <2>6. [tasks[i] EXCEPT !.at = "done", !.rows = {}] \in TaskRecord
    BY <2>1, Members DEF TaskRecord
  <2>7. tasks' \in [DOMAIN tasks' -> TaskRecord] /\ DOMAIN tasks' \subseteq Nat
    BY <1>0, <1>13, <2>6 DEF MovePlayer
  <2> QED BY <1>13, <2>3, <2>5, <2>7, CrossingEffect DEF MovePlayer, VarsOK, history
<1>14. ASSUME NEW i \in DOMAIN tasks, MatchResponse(i) PROVE VarsOK'
  <2>0. tasks[i] \in TaskRecord /\ MaxResp \in Nat
    BY <1>0
  <2>1. /\ tasks' \in [DOMAIN tasks -> TaskRecord]
        /\ rseq' \in 1..MaxResp + 1
    <3>1. PICK c \in Encoded :
            \/ \E j \in Stored(c) :
                 /\ tasks' = [tasks EXCEPT ![i].at = IF j = i THEN "done" ELSE "matched", ![i].new = j]
                 /\ rseq' = rseq
            \/ /\ tasks' = [tasks EXCEPT ![i].at = "matched", ![i].new = rseq, ![i].made = c]
               /\ rseq <= MaxResp /\ rseq' = rseq + 1
      BY <1>14 DEF MatchResponse
    <3>2. c \in SomeContent /\ Stored(c) \subseteq Nat /\ rseq \in Nat
      <4>1. c \in Contents
        OBVIOUS
      <4>2. Stored(c) \subseteq Nat
        BY DEF Stored, VarsOK
      <4> QED BY <1>0, <4>1, <4>2, Members
    <3>3. \A at \in TaskLabel, new \in Nat, made \in SomeContent :
            /\ [tasks[i] EXCEPT !.at = at, !.new = new] \in TaskRecord
            /\ [tasks[i] EXCEPT !.at = at, !.new = new, !.made = made] \in TaskRecord
      BY <2>0 DEF TaskRecord
    <3>4. ASSUME NEW j \in Stored(c), rseq' = rseq,
                 tasks' = [tasks EXCEPT ![i].at = IF j = i THEN "done" ELSE "matched", ![i].new = j]
          PROVE  tasks' \in [DOMAIN tasks -> TaskRecord] /\ rseq' \in 1..MaxResp + 1
      <4>1. (IF j = i THEN "done" ELSE "matched") \in TaskLabel /\ j \in Nat
        BY <3>2, Members
      <4>2. PICK at \in TaskLabel : tasks' = [tasks EXCEPT ![i].at = at, ![i].new = j]
        BY <3>4, <4>1, Zenon
      <4>3. [tasks EXCEPT ![i].at = at, ![i].new = j] \in [DOMAIN tasks -> TaskRecord]
        <5>1. [tasks[i] EXCEPT !.at = at, !.new = j] \in TaskRecord
          BY <2>0, <4>1 DEF TaskRecord
        <5>2. [tasks EXCEPT ![i].at = at, ![i].new = j]
                = [tasks EXCEPT ![i] = [tasks[i] EXCEPT !.at = at, !.new = j]]
          OBVIOUS
        <5> QED BY <1>0, <5>1, <5>2
      <4> QED BY <1>0, <3>4, <4>2, <4>3
    <3>5. ASSUME rseq <= MaxResp, rseq' = rseq + 1,
                 tasks' = [tasks EXCEPT ![i].at = "matched", ![i].new = rseq, ![i].made = c]
          PROVE  tasks' \in [DOMAIN tasks -> TaskRecord] /\ rseq' \in 1..MaxResp + 1
      <4>1. tasks' \in [DOMAIN tasks -> TaskRecord]
        BY <1>0, <3>2, <3>3, <3>5, Members
      <4>2. rseq' \in 1..MaxResp + 1
        BY <1>0, <2>0, <3>5
      <4> QED BY <4>1, <4>2
    <3> QED BY <3>1, <3>4, <3>5
  <2> QED BY <1>0, <1>14, <2>1 DEF MatchResponse, VarsOK, tables, history
<1>15. ASSUME NEW i \in DOMAIN tasks, Repoint(i) PROVE VarsOK'
  <2>1. tasks[i] \in TaskRecord /\ {r \in infos : r.resp = i} \in SUBSET Row
    BY <1>0
  <2>2. [tasks[i] EXCEPT !.at = "half", !.rows = {r \in infos : r.resp = i}] \in TaskRecord
    BY <2>1, Members DEF TaskRecord
  <2>3. tasks' \in [DOMAIN tasks' -> TaskRecord] /\ DOMAIN tasks' \subseteq Nat
    BY <1>0, <1>15, <2>2 DEF Repoint
  <2> QED BY <1>15, <2>3 DEF Repoint, VarsOK, tables, history
<1>16. ASSUME NEW i \in DOMAIN tasks, DeleteOld(i)
       PROVE  VarsOK'
  <2>1. tasks[i] \in TaskRecord
    BY <1>0
  <2>a. tasks[i].new \in 1..MaxResp
    BY <1>0, <1>16 DEF DeleteOld, TargetsOK, TargetOK
  <2>2. \A r \in Row : [r EXCEPT !.resp = tasks[i].new] \in Row
    BY <2>a DEF Row
  <2>3. infos' \subseteq Row
    BY <1>0, <1>16, <2>1, <2>2 DEF DeleteOld, TaskRecord
  <2>4. tasks[i].made # None => [content |-> tasks[i].made, old |-> FALSE] \in RespRecord
    BY <2>1 DEF TaskRecord, SomeContent, RespRecord
  <2>5. resps' \in [DOMAIN resps' -> RespRecord] /\ DOMAIN resps' \subseteq 1..MaxResp
    BY <1>16, <2>a, <2>4 DEF DeleteOld, VarsOK
  <2>6. [tasks[i] EXCEPT !.at = "done", !.rows = {}] \in TaskRecord
    BY <2>1, Members DEF TaskRecord
  <2>7. tasks' \in [DOMAIN tasks' -> TaskRecord] /\ DOMAIN tasks' \subseteq Nat
    BY <1>0, <1>16, <2>6 DEF DeleteOld
  <2> QED BY <1>16, <2>3, <2>5, <2>7 DEF DeleteOld, VarsOK, history
<1>17. ASSUME NEW i \in DOMAIN tasks, RemoveUnused(i) PROVE VarsOK'
  <2>1. tasks[i] \in TaskRecord
    BY <1>0
  <2>2. [tasks[i] EXCEPT !.at = "done"] \in TaskRecord
    BY <2>1, Members DEF TaskRecord
  <2>3. tasks' \in [DOMAIN tasks' -> TaskRecord] /\ DOMAIN tasks' \subseteq Nat
    BY <1>0, <1>17, <2>2 DEF RemoveUnused
  <2> QED BY <1>17, <2>3 DEF RemoveUnused, VarsOK, history
<1>18. ASSUME NEW i \in DOMAIN tasks, TaskFails(i) PROVE VarsOK'
  <2>1. tasks[i] \in TaskRecord
    BY <1>0
  <2>2. [tasks[i] EXCEPT !.at = "failed", !.rows = {}] \in TaskRecord
    BY <2>1, Members DEF TaskRecord
  <2>3. tasks' \in [DOMAIN tasks' -> TaskRecord] /\ DOMAIN tasks' \subseteq Nat
    BY <1>0, <1>18, <2>2 DEF TaskFails
  <2> QED BY <1>18, <2>3 DEF TaskFails, VarsOK, tables, history
<1> QED BY <1>1, <1>2, <1>3, <1>4, <1>5, <1>6, <1>7, <1>8, <1>9, <1>10, <1>11, <1>12, <1>13,
           <1>14, <1>15, <1>16, <1>17, <1>18 DEF Programs

-----------------------------------------------------------------------------
(* What the steps change *)

(* What each statement of a report does to its registers. *)
LEMMA ReportEffect ==
  ASSUME VarsOK, NEW h \in Handlers, Report(h)
  PROVE  /\ \A g \in Handlers \ {h} : rep'[g] = rep[g]
         /\ tasks' = tasks /\ fk' = fk /\ history' = history /\ runs' = runs
         /\ prog'.name = prog.name /\ prog'.at = prog.at /\ prog'.count = prog.count
         /\ ~InsertPlayer(h) => prog' = prog /\ seq' = seq
         /\ ~FindResponse(h) => rseq' = rseq
         /\ ~Commit(h) => player' = player /\ infos' = infos /\ resps' = resps
<1>1. rep \in [Handlers -> RepRecord] /\ prog \in ProgRecord
  BY DEF VarsOK
<1>2. ASSUME NEW n \in Names, NEW c \in Reported, Open(h, n, c)
      PROVE  /\ \A g \in Handlers \ {h} : rep'[g] = rep[g]
             /\ tasks' = tasks /\ fk' = fk /\ history' = history /\ runs' = runs
             /\ prog' = prog /\ seq' = seq /\ rseq' = rseq
             /\ player' = player /\ infos' = infos /\ resps' = resps
  BY <1>1, <1>2 DEF Open, tables
<1>3. CASE UpdatePlayer(h)
  BY <1>1, <1>3 DEF UpdatePlayer, tables
<1>4. CASE InsertPlayer(h)
  BY <1>1, <1>4 DEF InsertPlayer, Draw, tables, ProgRecord, FindResponse, Commit
<1>5. CASE FindResponse(h)
  BY <1>1, <1>5 DEF FindResponse, tables
<1>6. CASE InsertInfo(h)
  BY <1>1, <1>6 DEF InsertInfo, tables
<1>7. CASE Commit(h)
  BY <1>1, <1>7 DEF Commit, history
<1>8. CASE Abort(h)
  BY <1>1, <1>8 DEF Abort, tables
<1> QED BY <1>2, <1>3, <1>4, <1>5, <1>6, <1>7, <1>8 DEF Report

(* A transaction reads its player and is crossed if a chunk is half-way with it. *)
LEMMA OpenEffect ==
  ASSUME VarsOK, NEW h \in Handlers, NEW n \in Names, NEW c \in Reported, Open(h, n, c)
  PROVE  /\ rep'[h].at = "read" /\ rep'[h].of = n /\ rep'[h].what = c
         /\ rep'[h].pid = player[n] /\ (rep'[h].new <=> player[n] = 0)
         /\ rep'[h].holds = None /\ rep'[h].resp = 0 /\ ~rep'[h].fresh
         /\ (rep'[h].crossed <=> player[n] \in HalfMoved)
<1>1. rep'[h] = [Idle EXCEPT !.at = "read", !.no = reports + 1, !.of = n, !.what = c,
         !.pid = player[n], !.new = player[n] = 0, !.crossed = player[n] \in HalfMoved]
  BY DEF Open, VarsOK
<1>a. PICK new \in BOOLEAN : /\ new = (player[n] = 0)
                            /\ rep'[h] = [Idle EXCEPT !.at = "read", !.no = reports + 1, !.of = n,
                                 !.what = c, !.pid = player[n], !.new = new,
                                 !.crossed = player[n] \in HalfMoved]
  BY <1>1
<1>2. PICK crossed \in BOOLEAN : /\ crossed = (player[n] \in HalfMoved)
                                /\ rep'[h] = [Idle EXCEPT !.at = "read", !.no = reports + 1, !.of = n,
                                     !.what = c, !.pid = player[n], !.new = new, !.crossed = crossed]
  <2>1. CASE player[n] \in HalfMoved
    <3>1. rep'[h] = [Idle EXCEPT !.at = "read", !.no = reports + 1, !.of = n, !.what = c,
                      !.pid = player[n], !.new = new, !.crossed = TRUE]
      BY <1>a, <2>1
    <3> QED BY <2>1, <3>1
  <2>2. CASE player[n] \notin HalfMoved
    <3>1. rep'[h] = [Idle EXCEPT !.at = "read", !.no = reports + 1, !.of = n, !.what = c,
                      !.pid = player[n], !.new = new, !.crossed = FALSE]
      <4>1. (player[n] \in HalfMoved) = FALSE
        BY <2>2
      <4> QED BY <1>a, <4>1
    <3>2. FALSE = (player[n] \in HalfMoved)
      BY <2>2
    <3> QED BY <3>1, <3>2
  <2> QED BY <2>1, <2>2
<1>3. /\ rep'[h].new = new /\ rep'[h].crossed = crossed /\ rep'[h].fresh = FALSE
      /\ rep'[h].at = "read" /\ rep'[h].of = n /\ rep'[h].what = c
      /\ rep'[h].pid = player[n] /\ rep'[h].holds = None /\ rep'[h].resp = 0
  BY <1>2 DEF Idle
<1> QED BY <1>a, <1>2, <1>3

(* The row of a known player is written. *)
LEMMA UpdatePlayerEffect ==
  ASSUME VarsOK, NEW h \in Handlers, UpdatePlayer(h)
  PROVE  /\ rep[h].at = "read" /\ ~rep[h].new /\ rep'[h].at = "written"
         /\ rep'[h].of = rep[h].of /\ rep'[h].what = rep[h].what /\ rep'[h].pid = rep[h].pid
         /\ rep'[h].new = rep[h].new /\ rep'[h].resp = rep[h].resp
         /\ rep'[h].fresh = rep[h].fresh /\ rep'[h].crossed = rep[h].crossed
BY DEF UpdatePlayer, VarsOK, RepRecord

(* A new player gets the next id of the sequence, or the report fails. *)
LEMMA InsertPlayerEffect ==
  ASSUME VarsOK, NEW h \in Handlers, InsertPlayer(h)
  PROVE  /\ rep[h].at = "read" /\ rep[h].new /\ seq <= MaxPid /\ seq' = seq + 1
         /\ ~InsertsName(h, rep[h].of) /\ ~Held(h, seq)
         /\ (prog'.crossed <=> prog.crossed \/ prog.at = "alter")
         /\ \/ rep'[h] = Idle
            \/ /\ player[rep[h].of] = 0 /\ seq \notin PidsInUse
               /\ rep'[h].at = "written" /\ rep'[h].pid = seq /\ rep'[h].holds = seq
               /\ rep'[h].of = rep[h].of /\ rep'[h].what = rep[h].what /\ rep'[h].new
               /\ rep'[h].resp = rep[h].resp /\ rep'[h].fresh = rep[h].fresh
               /\ rep'[h].crossed = rep[h].crossed
<1>1. prog'.crossed <=> prog.crossed \/ prog.at = "alter"
  <2>1. PICK crossed \in BOOLEAN : /\ crossed = (prog.crossed \/ prog.at = "alter")
                                   /\ prog' = [prog EXCEPT !.crossed = crossed]
    BY DEF InsertPlayer, Draw
  <2> QED BY <2>1 DEF VarsOK, ProgRecord
<1>2. rep' = [rep EXCEPT ![h] = Idle] => rep'[h] = Idle
  BY DEF VarsOK
<1> QED BY <1>1, <1>2 DEF InsertPlayer, Draw, VarsOK, RepRecord

(* The response is one that is stored, or a new one with the next id. *)
LEMMA FindResponseEffect ==
  ASSUME VarsOK, NEW h \in Handlers, FindResponse(h)
  PROVE  /\ rep[h].at = "written" /\ rep'[h].at = "found"
         /\ rep'[h].of = rep[h].of /\ rep'[h].what = rep[h].what /\ rep'[h].pid = rep[h].pid
         /\ rep'[h].new = rep[h].new /\ rep'[h].holds = rep[h].holds
         /\ rep'[h].crossed = rep[h].crossed
         /\ \/ /\ rep'[h].resp \in Stored(rep[h].what) /\ rep'[h].fresh = rep[h].fresh
               /\ rseq' = rseq
            \/ rep'[h].resp = rseq /\ rep'[h].fresh /\ rseq <= MaxResp /\ rseq' = rseq + 1
BY DEF FindResponse, VarsOK, RepRecord

(* The history entry refers to a player and a response that are there. *)
LEMMA InsertInfoEffect ==
  ASSUME VarsOK, NEW h \in Handlers, InsertInfo(h)
  PROVE  /\ rep[h].at = "found" /\ rep'[h].at = "linked"
         /\ rep[h].fresh \/ rep[h].resp \in DOMAIN resps
         /\ fk => rep[h].pid \in PidsInUse \/ rep[h].new
         /\ rep'[h].of = rep[h].of /\ rep'[h].what = rep[h].what /\ rep'[h].pid = rep[h].pid
         /\ rep'[h].new = rep[h].new /\ rep'[h].resp = rep[h].resp
         /\ rep'[h].holds = (IF fk THEN rep[h].pid ELSE rep[h].holds)
         /\ rep'[h].fresh = rep[h].fresh /\ rep'[h].crossed = rep[h].crossed
BY DEF InsertInfo, VarsOK, RepRecord

(* A transaction that ends. *)
LEMMA EndEffect ==
  ASSUME VarsOK, NEW h \in Handlers, rep' = [rep EXCEPT ![h] = Idle] \/ rep'[h] = Idle
  PROVE  /\ rep'[h].at = "idle" /\ rep'[h].pid = 0 /\ rep'[h].holds = None
         /\ ~rep'[h].new /\ ~rep'[h].fresh /\ ~rep'[h].crossed
BY DEF VarsOK, Idle

(* What a program does to the tables and to reports. *)
LEMMA ProgramEffect ==
  ASSUME Programs
  PROVE  /\ reports' = reports
         /\ \/ UNCHANGED <<player, infos, resps, rep>>
            \/ \E i \in DOMAIN tasks : MoveInfos(i) \/ MovePlayer(i) \/ DeleteOld(i) \/ RemoveUnused(i)
BY DEF Programs, CountPlayers, ListOld, ListUnused, Start, Interrupt, WorkEnds, ListIds, DropKey,
       MovesEnd, RestoreKey, SelectMax, ResetSequence, MatchResponse, Repoint, TaskFails,
       MoveInfos, MovePlayer, DeleteOld, RemoveUnused, tables

(* What reports know at each statement stays true. *)
LEMMA RepsStep ==
  ASSUME VarsOK, RepsOK, [Next]_vars PROVE RepsOK'
<1>1. ASSUME NEW h \in Handlers, Report(h) PROVE RepsOK'
  <2>0. RepOK(h) /\ rep[h] \in RepRecord
    BY DEF RepsOK, VarsOK
  <2>1. ASSUME NEW n \in Names, NEW c \in Reported, Open(h, n, c) PROVE RepOK(h)'
    <3>1. player[n] # 0 => player[n] \in 1..MaxPid
      BY DEF VarsOK, Pid
    <3> QED BY <2>1, <3>1, OpenEffect DEF RepOK, Active, Writing, Responding
  <2>2. ASSUME UpdatePlayer(h) PROVE RepOK(h)'
    BY <2>0, <2>2, UpdatePlayerEffect DEF RepOK, Active, Writing, Responding
  <2>3. ASSUME InsertPlayer(h) PROVE RepOK(h)'
    <3>1. seq <= MaxPid => seq \in 1..MaxPid
      BY DEF VarsOK
    <3>2. CASE rep'[h] = Idle
      BY <3>2, EndEffect DEF RepOK, Active, Writing, Responding
    <3>3. CASE rep'[h] # Idle
      BY <2>0, <2>3, <3>1, <3>3, InsertPlayerEffect DEF RepOK, Active, Writing, Responding
    <3> QED BY <3>2, <3>3
  <2>4. ASSUME FindResponse(h) PROVE RepOK(h)'
    <3>1. Stored(rep[h].what) \subseteq 1..MaxResp /\ (rseq <= MaxResp => rseq \in 1..MaxResp)
      BY DEF VarsOK, Stored
    <3> QED BY <2>0, <2>4, <3>1, FindResponseEffect DEF RepOK, Active, Writing, Responding
  <2>5. ASSUME InsertInfo(h) PROVE RepOK(h)'
    BY <2>0, <2>5, InsertInfoEffect DEF RepOK, Active, Writing, Responding
  <2>6. ASSUME Commit(h) \/ Abort(h) PROVE RepOK(h)'
    <3>1. rep' = [rep EXCEPT ![h] = Idle]
      BY <2>6 DEF Commit, Abort
    <3> QED BY <3>1, EndEffect DEF RepOK, Active, Writing, Responding
  <2>7. RepOK(h)'
    BY <1>1, <2>1, <2>2, <2>3, <2>4, <2>5, <2>6 DEF Report
  <2>8. ASSUME NEW g \in Handlers, g # h PROVE RepOK(g)'
    <3>1. rep'[g] = rep[g] /\ RepOK(g)
      BY <1>1, <2>8, ReportEffect DEF RepsOK
    <3> QED BY <3>1 DEF RepOK, Active, Writing, Responding
  <2> QED BY <2>7, <2>8 DEF RepsOK
<1>2. CASE Programs
  <2>1. CASE rep' = rep
    BY <2>1 DEF RepsOK, RepOK, Active, Writing, Responding
  <2>2. ASSUME NEW i \in DOMAIN tasks, MoveInfos(i) \/ MovePlayer(i) PROVE RepsOK'
    <3>1. rep' = Crossing(i)
      BY <2>2 DEF MoveInfos, MovePlayer
    <3>2. ASSUME NEW h \in Handlers PROVE RepOK(h)'
      <4>1. RepOK(h)
        BY DEF RepsOK
      <4> QED BY <3>1, <4>1, CrossingEffect DEF RepOK, Active, Writing, Responding
    <3> QED BY <3>2 DEF RepsOK
  <2> QED BY <1>2, <2>1, <2>2, ProgramEffect DEF DeleteOld, RemoveUnused
<1>3. CASE UNCHANGED vars
  BY <1>3 DEF vars, RepsOK, RepOK, Active, Writing, Responding
<1> QED BY <1>1, <1>2, <1>3, StepCases

(* Nothing is new about uncommitted players. *)
LEMMA NoNewOnes ==
  ASSUME NewOnesOK, player' = player,
         \A h \in Handlers : Writing(h)' =>
           Writing(h) /\ rep'[h].of = rep[h].of /\ rep'[h].pid = rep[h].pid
  PROVE  NewOnesOK'
BY DEF NewOnesOK, PidsInUse

(* Ids and names stay the players' own. *)
LEMMA NewOnesStep ==
  ASSUME VarsOK, RepsOK, ProgOK, MovesOK, NewOnesOK, [Next]_vars PROVE NewOnesOK'
<1>1. ASSUME NEW h \in Handlers, Report(h) PROVE NewOnesOK'
  <2>0. /\ RepOK(h) /\ rep[h] \in RepRecord
        /\ \A g \in Handlers \ {h} : rep'[g] = rep[g] /\ (Writing(g)' <=> Writing(g))
    BY <1>1, ReportEffect DEF RepsOK, VarsOK, Writing
  <2>1. ASSUME NEW n \in Names, NEW c \in Reported, Open(h, n, c) PROVE NewOnesOK'
    <3>1. ~Writing(h)' /\ player' = player
      BY <2>1, OpenEffect DEF Writing, Open, tables
    <3> QED BY <2>0, <3>1, NoNewOnes
  <2>2. CASE UpdatePlayer(h)
    <3>1. ~Writing(h)' /\ player' = player
      BY <2>2, UpdatePlayerEffect DEF Writing, UpdatePlayer, tables
    <3> QED BY <2>0, <3>1, NoNewOnes
  <2>3. CASE InsertPlayer(h)
    <3>1. player' = player /\ PidsInUse' = PidsInUse
      BY <2>3 DEF InsertPlayer, tables, PidsInUse
    <3>2. CASE rep'[h] = Idle
      <4>1. ~Writing(h)'
        BY <3>2, EndEffect DEF Writing
      <4> QED BY <2>0, <3>1, <4>1, NoNewOnes
    <3>3. CASE rep'[h] # Idle
      <4>1. player[rep[h].of] = 0 /\ seq \notin PidsInUse /\ rep'[h].pid = seq /\ rep'[h].of = rep[h].of
            /\ ~InsertsName(h, rep[h].of) /\ ~Held(h, seq)
        BY <2>3, <3>3, InsertPlayerEffect
      <4>2. ASSUME NEW g \in Handlers \ {h}, Writing(g)
            PROVE  rep[g].of # rep[h].of /\ rep[g].pid # seq
        <5>1. rep[g].holds = rep[g].pid /\ rep[g].pid \in Nat /\ rep[g].new
          BY <4>2 DEF RepsOK, RepOK, Writing
        <5>2. rep[g].holds # None
          BY <5>1
        <5> QED BY <4>1, <4>2, <5>1, <5>2 DEF InsertsName, Held
      <4> QED BY <2>0, <3>1, <4>1, <4>2 DEF NewOnesOK
    <3> QED BY <3>2, <3>3
  <2>4. CASE FindResponse(h)
    <3>1. player' = player /\ (Writing(h)' => Writing(h)) /\ rep'[h].of = rep[h].of /\ rep'[h].pid = rep[h].pid
      BY <2>4, FindResponseEffect DEF Writing, FindResponse, tables
    <3> QED BY <2>0, <3>1, NoNewOnes
  <2>5. CASE InsertInfo(h)
    <3>1. player' = player /\ (Writing(h)' => Writing(h)) /\ rep'[h].of = rep[h].of /\ rep'[h].pid = rep[h].pid
      BY <2>5, InsertInfoEffect DEF Writing, InsertInfo, tables
    <3> QED BY <2>0, <3>1, NoNewOnes
  <2>6. CASE Abort(h)
    <3>1. ~Writing(h)' /\ player' = player
      BY <2>6, EndEffect DEF Writing, Abort, tables
    <3> QED BY <2>0, <3>1, NoNewOnes
  <2>7. CASE Commit(h)
    <3>1. ~Writing(h)'
      BY <2>7, EndEffect DEF Writing, Commit
    <3>2. CASE ~rep[h].new
      <4>1. player' = player
        BY <2>7, <3>2 DEF Commit
      <4> QED BY <2>0, <3>1, <4>1, NoNewOnes
    <3>3. CASE rep[h].new
      <4>1. Writing(h) /\ rep[h].of \in Names
        BY <2>0, <2>7, <3>3 DEF Commit, Writing, RepOK, Active
      <4>2. /\ player' = [player EXCEPT ![rep[h].of] = rep[h].pid] /\ rep[h].pid # 0
            /\ PidsInUse' \subseteq PidsInUse \cup {rep[h].pid}
        BY <2>0, <2>7, <3>3, <4>1 DEF Commit, VarsOK, PidsInUse, RepOK
      <4>3. player[rep[h].of] = 0 /\ rep[h].pid \notin PidsInUse
        BY <4>1 DEF NewOnesOK
      <4>4. \A m, n \in Names : m # n /\ player'[m] # 0 => player'[m] # player'[n]
        BY <4>1, <4>2, <4>3 DEF NewOnesOK, VarsOK, PidsInUse
      <4>5. ASSUME NEW g \in Handlers, Writing(g)'
            PROVE  player'[rep'[g].of] = 0 /\ rep'[g].pid \notin PidsInUse'
        <5>1. g # h /\ rep'[g] = rep[g] /\ Writing(g)
          BY <2>0, <3>1, <4>5
        <5>2. rep[g].of # rep[h].of /\ rep[g].pid # rep[h].pid
          BY <4>1, <5>1 DEF NewOnesOK
        <5>3. player[rep[g].of] = 0 /\ rep[g].pid \notin PidsInUse /\ rep[g].of \in Names
          BY <5>1 DEF NewOnesOK, RepsOK, RepOK, Writing, Active
        <5> QED BY <4>2, <5>1, <5>2, <5>3 DEF VarsOK
      <4> QED BY <2>0, <3>1, <4>4, <4>5 DEF NewOnesOK
    <3> QED BY <3>2, <3>3
  <2> QED BY <1>1, <2>1, <2>2, <2>3, <2>4, <2>5, <2>6, <2>7 DEF Report
<1>2. CASE Programs
  <2>1. CASE player' = player /\ rep' = rep
    BY <2>1, NoNewOnes DEF Writing
  <2>2. ASSUME NEW i \in DOMAIN tasks, MoveInfos(i) PROVE NewOnesOK'
    <3>1. rep' = Crossing(i) /\ player' = player
      BY <2>2 DEF MoveInfos, tables
    <3> QED BY <3>1, CrossingEffect, NoNewOnes DEF Writing
  <2>3. ASSUME NEW i \in DOMAIN tasks, MovePlayer(i) PROVE NewOnesOK'
    <3> DEFINE new == tasks[i].new
    <3>1. i \in 1..MaxPid /\ new \in 1..(i - 1) /\ i \in PidsInUse
      BY <2>3 DEF MovePlayer, ProgOK, MovesOK, MoveOK
    <3>2. /\ rep' = Crossing(i) /\ new \notin PidsInUse
          /\ player' = [n \in Names |-> IF player[n] = i THEN new ELSE player[n]]
          /\ \A h \in Handlers : rep[h].holds # i /\ rep[h].holds # new
      BY <2>3 DEF MovePlayer
    <3>3. PidsInUse' \subseteq (PidsInUse \ {i}) \cup {new}
      BY <3>1, <3>2 DEF PidsInUse, VarsOK
    <3>4. \A m, n \in Names : m # n /\ player'[m] # 0 => player'[m] # player'[n]
      BY <3>1, <3>2 DEF NewOnesOK, PidsInUse
    <3>5. ASSUME NEW h \in Handlers, Writing(h)'
          PROVE  Writing(h) /\ rep'[h].of = rep[h].of /\ rep'[h].pid = rep[h].pid
      BY <3>2, <3>5, CrossingEffect DEF Writing
    <3>6. ASSUME NEW h \in Handlers, Writing(h)
          PROVE  player'[rep[h].of] = 0 /\ rep[h].pid \notin PidsInUse'
      <4>1. rep[h].of \in Names /\ rep[h].holds = rep[h].pid
        BY <3>6 DEF RepsOK, RepOK, Writing, Active
      <4>2. player[rep[h].of] = 0 /\ rep[h].pid \notin PidsInUse
        BY <3>6 DEF NewOnesOK
      <4> QED BY <3>1, <3>2, <3>3, <4>1, <4>2
    <3> QED BY <3>4, <3>5, <3>6 DEF NewOnesOK
  <2> QED BY <1>2, <2>1, <2>2, <2>3, ProgramEffect DEF DeleteOld, RemoveUnused
<1>3. CASE UNCHANGED vars
  BY <1>3, NoNewOnes DEF vars, tables, Writing
<1> QED BY <1>1, <1>2, <1>3, StepCases

(* What a program that ends, starts or goes on leaves behind. *)
LEMMA ProgramLabels ==
  /\ Stopped.name = None /\ Stopped.at = "stopped" /\ None # "compact" /\ None # "reencode"
  /\ None # "remove" /\ DOMAIN NoTasks = {}
  /\ VarsOK => \A at, count, crossed :
       /\ [prog EXCEPT !.at = at].name = prog.name /\ [prog EXCEPT !.at = at].at = at
       /\ [prog EXCEPT !.at = at].count = prog.count /\ [prog EXCEPT !.at = at].crossed = prog.crossed
       /\ [prog EXCEPT !.at = at, !.count = count, !.crossed = crossed].name = prog.name
       /\ [prog EXCEPT !.at = at, !.count = count, !.crossed = crossed].at = at
       /\ [prog EXCEPT !.at = at, !.count = count, !.crossed = crossed].count = count
       /\ [prog EXCEPT !.at = at, !.count = count, !.crossed = crossed].crossed = crossed
BY MaintenanceAssumption DEF Stopped, NoTasks, VarsOK, ProgRecord

(* A program starts where none runs. *)
LEMMA StartEffect ==
  ASSUME NEW name, NEW at, NEW todo, Start(name, at, todo)
  PROVE  prog.at = "stopped" /\ prog'.name = name /\ prog'.at = at /\ tasks' = todo
BY DEF Start, Stopped

(* Where the steps of compact_ids lead. *)
LEMMA CompactEffect ==
  ASSUME VarsOK
  PROVE  /\ End => prog'.at = "stopped" /\ prog'.name = None /\ DOMAIN tasks' = {}
         /\ ListIds => prog.at = "list" /\ prog'.at \in {"stopped", "max", "drop"}
         /\ DropKey => prog.at = "drop" /\ prog'.at = "move"
         /\ MovesEnd => /\ prog.at = "move"
                        /\ \/ broken' /\ prog'.at = "stopped"
                           \/ broken' = broken /\ prog'.at = "restore"
         /\ RestoreKey => /\ prog.at = "restore"
                          /\ \/ /\ fk' = TRUE /\ prog'.at = "max" /\ broken' = broken
                                /\ \A r \in infos : r.pid \in PidsInUse
                             \/ fk' = fk /\ prog'.at = "stopped" /\ broken'
<1>1. End => prog'.at = "stopped" /\ prog'.name = None /\ DOMAIN tasks' = {}
  BY ProgramLabels DEF End
<1>2. ASSUME ListIds PROVE prog.at = "list" /\ prog'.at \in {"stopped", "max", "drop"}
  <2> DEFINE to_move == {p \in PidsInUse : p > prog.count}
  <2>1. prog.at = "list" /\ (End \/ prog' = [prog EXCEPT !.at = IF to_move = {} THEN "max" ELSE "drop"])
    BY <1>2 DEF ListIds
  <2>2. ~End => prog' = [prog EXCEPT !.at = "max"] \/ prog' = [prog EXCEPT !.at = "drop"]
    BY <2>1
  <2> QED BY <1>1, <2>1, <2>2 DEF VarsOK, ProgRecord
<1>3. ASSUME DropKey PROVE prog.at = "drop" /\ prog'.at = "move"
  BY <1>3, ProgramLabels DEF DropKey
<1>4. ASSUME MovesEnd
      PROVE  /\ prog.at = "move"
             /\ (broken' /\ prog'.at = "stopped") \/ (broken' = broken /\ prog'.at = "restore")
  <2>1. prog.at = "move" /\ ((End /\ broken') \/ (prog' = [prog EXCEPT !.at = "restore"] /\ broken' = broken))
    BY <1>4 DEF MovesEnd
  <2> QED BY <1>1, <2>1 DEF VarsOK, ProgRecord
<1>5. ASSUME RestoreKey
      PROVE  /\ prog.at = "restore"
             /\ \/ /\ fk' = TRUE /\ prog'.at = "max" /\ broken' = broken
                   /\ \A r \in infos : r.pid \in PidsInUse
                \/ fk' = fk /\ prog'.at = "stopped" /\ broken'
  <2>1. /\ prog.at = "restore"
        /\ \/ /\ fk' = TRUE /\ prog' = [prog EXCEPT !.at = "max"] /\ broken' = broken
              /\ \A r \in infos : r.pid \in PidsInUse
           \/ End /\ broken' /\ fk' = fk
    BY <1>5 DEF RestoreKey
  <2> QED BY <1>1, <2>1 DEF VarsOK, ProgRecord
<1> QED BY <1>1, <1>2, <1>3, <1>4, <1>5

(* The largest id is noted, and whether a new player is not committed yet. *)
LEMMA SelectMaxEffect ==
  ASSUME VarsOK, SelectMax
  PROVE  /\ prog.at = "max" /\ prog'.name = prog.name /\ prog'.at = "alter"
         /\ \E max \in PidsInUse : IsLargest(max, PidsInUse) /\ prog'.count = max
         /\ ~prog'.crossed => \A h \in Handlers : rep[h].new => rep[h].holds = None
<1>1. PICK max \in PidsInUse :
        /\ IsLargest(max, PidsInUse)
        /\ prog' = [prog EXCEPT !.at = "alter", !.count = max,
                      !.crossed = \E h \in Handlers : rep[h].new /\ rep[h].holds # None]
  BY Zenon DEF SelectMax
<1>2. PICK crossed \in BOOLEAN :
        /\ (\E h \in Handlers : rep[h].new /\ rep[h].holds # None) => crossed
        /\ prog' = [prog EXCEPT !.at = "alter", !.count = max, !.crossed = crossed]
  <2>1. CASE \E h \in Handlers : rep[h].new /\ rep[h].holds # None
    <3>1. (\E h \in Handlers : rep[h].new /\ rep[h].holds # None) = TRUE
      BY <2>1
    <3>2. prog' = [prog EXCEPT !.at = "alter", !.count = max, !.crossed = TRUE]
      BY <1>1, <3>1, Zenon
    <3> QED BY <3>2
  <2>2. CASE ~\E h \in Handlers : rep[h].new /\ rep[h].holds # None
    <3>1. (\E h \in Handlers : rep[h].new /\ rep[h].holds # None) = FALSE
      BY <2>2
    <3>2. prog' = [prog EXCEPT !.at = "alter", !.count = max, !.crossed = FALSE]
      BY <1>1, <3>1, Zenon
    <3> QED BY <2>2, <3>2
  <2> QED BY <2>1, <2>2
<1>3. prog.at = "max" /\ prog'.name = prog.name /\ prog'.at = "alter" /\ prog'.count = max
      /\ prog'.crossed = crossed
  BY <1>2 DEF SelectMax, VarsOK, ProgRecord
<1> QED BY <1>1, <1>2, <1>3

(* Labels and tasks stay those of the program. *)
LEMMA ProgStep ==
  ASSUME VarsOK, ProgOK, [Next]_vars PROVE ProgOK'
<1>1. ASSUME NEW h \in Handlers, Report(h) PROVE ProgOK'
  BY <1>1, ReportEffect DEF ProgOK
<1>2. CASE Programs
  <2>1. CASE CountPlayers
    BY <2>1, StartEffect, ProgramLabels DEF CountPlayers, ProgOK
  <2>2. CASE ListOld
    BY <2>2, StartEffect, ProgramLabels DEF ListOld, ProgOK
  <2>3. CASE ListUnused
    BY <2>3, StartEffect, ProgramLabels DEF ListUnused, ProgOK
  <2>4. CASE End
    BY <2>4, ProgramLabels DEF End, ProgOK
  <2>5. CASE ListIds /\ ~End
    <3> DEFINE to_move == {p \in PidsInUse : p > prog.count}
    <3>1. /\ prog.at = "list" /\ DOMAIN tasks' = to_move
          /\ prog' = [prog EXCEPT !.at = IF to_move = {} THEN "max" ELSE "drop"]
      BY <2>5 DEF ListIds
    <3> QED BY <3>1, ProgramLabels DEF ProgOK
  <2>6. CASE DropKey
    BY <2>6, ProgramLabels DEF DropKey, ProgOK
  <2>7. CASE MovesEnd /\ ~End
    <3>1. prog.at = "move" /\ prog' = [prog EXCEPT !.at = "restore"] /\ tasks' = NoTasks
      BY <2>7 DEF MovesEnd
    <3> QED BY <3>1, ProgramLabels DEF ProgOK
  <2>8. CASE RestoreKey /\ ~End
    <3>1. prog.at = "restore" /\ prog' = [prog EXCEPT !.at = "max"] /\ tasks' = tasks
      BY <2>8 DEF RestoreKey
    <3> QED BY <3>1, ProgramLabels DEF ProgOK
  <2>9. CASE SelectMax
    <3>1. /\ prog.at = "max" /\ tasks' = tasks
          /\ \E count, crossed : prog' = [prog EXCEPT !.at = "alter", !.count = count, !.crossed = crossed]
      BY <2>9, Zenon DEF SelectMax
    <3> QED BY <3>1, ProgramLabels DEF ProgOK
  <2>10. ASSUME NEW i \in DOMAIN tasks,
                MoveInfos(i) \/ MovePlayer(i) \/ MatchResponse(i) \/ Repoint(i) \/ DeleteOld(i)
                \/ RemoveUnused(i) \/ TaskFails(i)
         PROVE  ProgOK'
    <3>1. prog' = prog /\ DOMAIN tasks' = DOMAIN tasks
      BY <2>10 DEF MoveInfos, MovePlayer, MatchResponse, Repoint, DeleteOld, RemoveUnused, TaskFails, VarsOK
    <3> QED BY <3>1 DEF ProgOK
  <2> QED BY <1>2, <2>1, <2>2, <2>3, <2>4, <2>5, <2>6, <2>7, <2>8, <2>9, <2>10
          DEF Programs, Interrupt, WorkEnds, ResetSequence
<1>3. CASE UNCHANGED vars
  BY <1>3 DEF vars, ProgOK
<1> QED BY <1>1, <1>2, <1>3, StepCases

(* A report adds players and never takes one away. *)
LEMMA ReportsKeepIds ==
  ASSUME VarsOK, RepsOK, NewOnesOK, NEW h \in Handlers, Report(h)
  PROVE  /\ PidsInUse \subseteq PidsInUse'
         /\ ~(Commit(h) /\ rep[h].new) => player' = player
         /\ Commit(h) /\ rep[h].new =>
              /\ Writing(h) /\ rep[h].of \in Names /\ player[rep[h].of] = 0
              /\ rep[h].pid \in 1..MaxPid
              /\ player' = [player EXCEPT ![rep[h].of] = rep[h].pid]
              /\ PidsInUse' = PidsInUse \cup {rep[h].pid}
<1>1. ~(Commit(h) /\ rep[h].new) => player' = player
  BY ReportEffect DEF Commit
<1>2. ASSUME Commit(h), rep[h].new
      PROVE  /\ Writing(h) /\ rep[h].of \in Names /\ player[rep[h].of] = 0
             /\ rep[h].pid \in 1..MaxPid
             /\ player' = [player EXCEPT ![rep[h].of] = rep[h].pid]
             /\ PidsInUse' = PidsInUse \cup {rep[h].pid}
  <2>1. Writing(h) /\ rep[h].of \in Names /\ rep[h].pid \in 1..MaxPid
    BY <1>2 DEF Commit, Writing, RepsOK, RepOK, Active
  <2>2. player' = [player EXCEPT ![rep[h].of] = rep[h].pid] /\ player[rep[h].of] = 0
    BY <1>2, <2>1 DEF Commit, NewOnesOK
  <2>3. PidsInUse' = PidsInUse \cup {rep[h].pid}
    BY <2>1, <2>2 DEF VarsOK, PidsInUse
  <2> QED BY <2>1, <2>2, <2>3
<1>3. PidsInUse \subseteq PidsInUse'
  <2>1. CASE player' = player
    BY <2>1 DEF PidsInUse
  <2>2. CASE Commit(h) /\ rep[h].new
    BY <1>2, <2>2
  <2> QED BY <1>1, <2>1, <2>2
<1> QED BY <1>1, <1>2, <1>3

(* Reports write the id of their player. *)
LEMMA KeepPlayerStep ==
  ASSUME VarsOK, RepsOK, ProgOK, NewOnesOK, MovesOK, ReportsKeepPlayer, [Next]_vars
  PROVE  ReportsKeepPlayer'
<1>1. ASSUME NEW h \in Handlers, Report(h) PROVE ReportsKeepPlayer'
  <2> SUFFICES ASSUME NEW g \in Handlers, Active(g)', ~rep'[g].new, ~rep'[g].crossed
               PROVE  player'[rep'[g].of] = rep'[g].pid
    BY DEF ReportsKeepPlayer
  <2>1. CASE g # h
    <3>1. rep'[g] = rep[g] /\ player[rep[g].of] = rep[g].pid /\ rep[g].pid # 0 /\ rep[g].of \in Names
      BY <1>1, <2>1, ReportEffect DEF ReportsKeepPlayer, Active, RepsOK, RepOK
    <3> QED BY <1>1, <3>1, ReportsKeepIds DEF VarsOK
  <2>2. CASE g = h
    <3>1. ASSUME NEW n \in Names, NEW c \in Reported, Open(h, n, c) PROVE player'[rep'[g].of] = rep'[g].pid
      <4>1. player' = player
        BY <3>1 DEF Open, tables
      <4>2. rep'[h].of = n /\ rep'[h].pid = player[n]
        BY <3>1, OpenEffect
      <4> QED BY <2>2, <4>1, <4>2
    <3>2. ASSUME UpdatePlayer(h) \/ InsertPlayer(h) \/ FindResponse(h) \/ InsertInfo(h)
          PROVE  player'[rep'[g].of] = rep'[g].pid
      <4>1. rep'[h].at # "idle" /\ ~rep'[h].new
        BY <2>2 DEF Active
      <4>2. /\ Active(h) /\ ~rep[h].new /\ ~rep[h].crossed
            /\ rep'[h].of = rep[h].of /\ rep'[h].pid = rep[h].pid
        BY <2>2, <3>2, <4>1, UpdatePlayerEffect, InsertPlayerEffect, FindResponseEffect,
           InsertInfoEffect, EndEffect
           DEF Active
      <4>3. player' = player
        BY <3>2 DEF UpdatePlayer, InsertPlayer, FindResponse, InsertInfo, tables
      <4> QED BY <2>2, <4>2, <4>3 DEF ReportsKeepPlayer
    <3>3. ~(Commit(h) \/ Abort(h))
      BY <2>2, EndEffect DEF Commit, Abort, Active
    <3> QED BY <1>1, <3>1, <3>2, <3>3 DEF Report
  <2> QED BY <2>1, <2>2
<1>2. CASE Programs
  <2>1. CASE player' = player /\ rep' = rep
    BY <2>1 DEF ReportsKeepPlayer, Active
  <2>2. ASSUME NEW i \in DOMAIN tasks, MoveInfos(i) PROVE ReportsKeepPlayer'
    <3>1. rep' = Crossing(i) /\ player' = player
      BY <2>2 DEF MoveInfos, tables
    <3>2. ASSUME NEW g \in Handlers, Active(g)', ~rep'[g].new, ~rep'[g].crossed
          PROVE  /\ Active(g) /\ ~rep[g].new /\ ~rep[g].crossed
                 /\ rep'[g].of = rep[g].of /\ rep'[g].pid = rep[g].pid
      BY <3>1, <3>2, CrossingEffect DEF Active
    <3> QED BY <3>1, <3>2 DEF ReportsKeepPlayer
  <2>3. ASSUME NEW i \in DOMAIN tasks, MovePlayer(i) PROVE ReportsKeepPlayer'
    <3>1. rep' = Crossing(i) /\ \A n \in Names : player[n] # i => player'[n] = player[n]
      BY <2>3 DEF MovePlayer
    <3> SUFFICES ASSUME NEW g \in Handlers, Active(g)', ~rep'[g].new, ~rep'[g].crossed
                 PROVE  player'[rep'[g].of] = rep'[g].pid
      BY DEF ReportsKeepPlayer
    <3>2. /\ Active(g) /\ ~rep[g].new /\ ~rep[g].crossed /\ rep[g].pid # i
          /\ rep'[g].of = rep[g].of /\ rep'[g].pid = rep[g].pid
      BY <3>1, CrossingEffect DEF Active
    <3>3. player[rep[g].of] = rep[g].pid /\ rep[g].of \in Names
      BY <3>2 DEF ReportsKeepPlayer, RepsOK, RepOK
    <3> QED BY <3>1, <3>2, <3>3
  <2> QED BY <1>2, <2>1, <2>2, <2>3, ProgramEffect DEF DeleteOld, RemoveUnused
<1>3. CASE UNCHANGED vars
  BY <1>3 DEF vars, tables, ReportsKeepPlayer, Active
<1> QED BY <1>1, <1>2, <1>3, StepCases

(* History stays with its player. *)
LEMMA HistoryStep ==
  ASSUME VarsOK, RepsOK, ProgOK, NewOnesOK, MovesOK, ReportsKeepPlayer, TargetsOK,
         HistoryKeepsItsPlayer, [Next]_vars
  PROVE  HistoryKeepsItsPlayer'
<1>0. \A r \in infos : r.pid # 0 /\ r.of \in Names
  BY DEF VarsOK, Row
<1>1. ASSUME NEW h \in Handlers, Report(h) PROVE HistoryKeepsItsPlayer'
  <2>1. ASSUME NEW r \in infos, ~r.crossed PROVE player'[r.of] = r.pid
    <3>1. player[r.of] = r.pid
      BY <2>1 DEF HistoryKeepsItsPlayer
    <3> QED BY <1>0, <1>1, <3>1, ReportsKeepIds DEF VarsOK
  <2>2. CASE infos' = infos
    BY <2>1, <2>2 DEF HistoryKeepsItsPlayer
  <2>3. CASE Commit(h)
    <3>1. ASSUME NEW r \in infos' \ infos, ~r.crossed PROVE player'[r.of] = r.pid
      <4>1. r.of = rep[h].of /\ r.pid = rep[h].pid /\ ~rep[h].crossed /\ Active(h)
        BY <2>3, <3>1 DEF Commit, Active
      <4>2. rep[h].of \in Names
        BY <4>1 DEF RepsOK, RepOK
      <4>3. CASE rep[h].new
        BY <1>1, <2>3, <4>1, <4>2, <4>3, ReportsKeepIds DEF VarsOK
      <4>4. CASE ~rep[h].new
        BY <1>1, <4>1, <4>2, <4>4, ReportsKeepIds DEF ReportsKeepPlayer
      <4> QED BY <4>3, <4>4
    <3> QED BY <2>1, <3>1 DEF HistoryKeepsItsPlayer
  <2> QED BY <1>1, <2>2, <2>3, ReportEffect
<1>2. CASE Programs
  <2>1. CASE player' = player /\ infos' = infos
    BY <2>1 DEF HistoryKeepsItsPlayer
  <2>2. ASSUME NEW i \in DOMAIN tasks, MovePlayer(i) PROVE HistoryKeepsItsPlayer'
    <3> DEFINE new == tasks[i].new
    <3>1. /\ tasks[i].rows \subseteq {r \in infos : r.pid = i}
          /\ \A r \in infos \ tasks[i].rows : r.pid = i => r.crossed
          /\ i # 0
      BY <2>2 DEF MovePlayer, MovesOK, MoveOK, ProgOK
    <3>2. /\ player' = [n \in Names |-> IF player[n] = i THEN new ELSE player[n]]
          /\ infos' = (infos \ tasks[i].rows) \cup {[r EXCEPT !.pid = new] : r \in tasks[i].rows}
      BY <2>2 DEF MovePlayer
    <3>3. ASSUME NEW r \in infos \ tasks[i].rows, ~r.crossed PROVE player'[r.of] = r.pid
      BY <1>0, <3>1, <3>2, <3>3 DEF HistoryKeepsItsPlayer
    <3>4. ASSUME NEW m \in {[r EXCEPT !.pid = new] : r \in tasks[i].rows}, ~m.crossed
          PROVE  player'[m.of] = m.pid
      <4>0. PICK r \in tasks[i].rows : m = [r EXCEPT !.pid = new]
        OBVIOUS
      <4>1. r \in infos /\ r \in Row /\ r.pid = i
        BY <3>1 DEF VarsOK
      <4>2. m.of = r.of /\ m.pid = new /\ m.crossed = r.crossed
        BY <4>0, <4>1 DEF Row
      <4>3. player[r.of] = i
        BY <3>4, <4>1, <4>2 DEF HistoryKeepsItsPlayer
      <4> QED BY <1>0, <3>2, <4>1, <4>2, <4>3
    <3>5. \A r \in infos' : r \in infos \ tasks[i].rows \/ r \in {[q EXCEPT !.pid = new] : q \in tasks[i].rows}
      BY <3>2
    <3> QED BY <3>3, <3>4, <3>5 DEF HistoryKeepsItsPlayer
  <2>3. ASSUME NEW i \in DOMAIN tasks, DeleteOld(i) PROVE HistoryKeepsItsPlayer'
    <3>1. /\ player' = player
          /\ infos' = (infos \ tasks[i].rows) \cup {[r EXCEPT !.resp = tasks[i].new] : r \in tasks[i].rows}
          /\ tasks[i].rows \subseteq infos
      BY <2>3 DEF DeleteOld, TargetsOK, TargetOK
    <3>2. ASSUME NEW m \in {[r EXCEPT !.resp = tasks[i].new] : r \in tasks[i].rows}
          PROVE  \E r \in infos : m.of = r.of /\ m.pid = r.pid /\ m.crossed = r.crossed
      <4>1. PICK r \in tasks[i].rows : m = [r EXCEPT !.resp = tasks[i].new]
        OBVIOUS
      <4>2. r \in infos /\ r \in Row
        BY <3>1 DEF VarsOK
      <4> QED BY <4>1, <4>2 DEF Row
    <3>3. \A m \in infos' : m \in infos \/ m \in {[r EXCEPT !.resp = tasks[i].new] : r \in tasks[i].rows}
      BY <3>1
    <3> QED BY <3>1, <3>2, <3>3 DEF HistoryKeepsItsPlayer
  <2> QED BY <1>2, <2>1, <2>2, <2>3, ProgramEffect DEF MoveInfos, RemoveUnused, tables
<1>3. CASE UNCHANGED vars
  BY <1>3 DEF vars, tables, HistoryKeepsItsPlayer
<1> QED BY <1>1, <1>2, <1>3, StepCases

(* What chunks know of the ids they move stays true. *)
LEMMA MovesStep ==
  ASSUME VarsOK, RepsOK, ProgOK, NewOnesOK, MovesOK, [Next]_vars PROVE MovesOK'
<1>0. \A i \in DOMAIN tasks : tasks[i] \in TaskRecord
  BY DEF VarsOK
<1>1. ASSUME NEW h \in Handlers, Report(h) PROVE MovesOK'
  <2> SUFFICES ASSUME prog.name = "compact", NEW i \in DOMAIN tasks PROVE MoveOK(i)'
    BY <1>1, ReportEffect DEF MovesOK
  <2>0. MoveOK(i) /\ tasks' = tasks /\ PidsInUse \subseteq PidsInUse'
    BY <1>1, ReportEffect, ReportsKeepIds DEF MovesOK
  <2> SUFFICES ASSUME tasks[i].at = "half"
               PROVE  /\ tasks[i].rows \subseteq {r \in infos' : r.pid = i}
                      /\ \A r \in infos' \ tasks[i].rows : r.pid = i => r.crossed
                      /\ \A g \in Handlers : Active(g)' /\ rep'[g].pid = i => rep'[g].crossed
    BY <2>0 DEF MoveOK
  <2>1. i \in PidsInUse /\ i # 0
    BY <2>0 DEF MoveOK
  <2>2. ASSUME NEW g \in Handlers, Active(g)', rep'[g].pid = i PROVE rep'[g].crossed
    <3>1. CASE g # h
      BY <1>1, <2>0, <2>2, <3>1, ReportEffect DEF MoveOK, Active
    <3>2. CASE g = h
      <4>1. ASSUME NEW n \in Names, NEW c \in Reported, Open(h, n, c) PROVE rep'[h].crossed
        <5>1. i \in HalfMoved
          BY DEF HalfMoved
        <5> QED BY <2>2, <3>2, <4>1, <5>1, OpenEffect
      <4>2. ASSUME UpdatePlayer(h) \/ FindResponse(h) \/ InsertInfo(h) PROVE rep'[h].crossed
        <5>1. Active(h) /\ rep'[h].pid = rep[h].pid /\ rep'[h].crossed = rep[h].crossed
          BY <4>2, UpdatePlayerEffect, FindResponseEffect, InsertInfoEffect DEF Active
        <5> QED BY <2>0, <2>2, <3>2, <5>1 DEF MoveOK
      <4>3. ASSUME InsertPlayer(h) PROVE FALSE
        BY <2>1, <2>2, <3>2, <4>3, InsertPlayerEffect, EndEffect
      <4>4. ~(Commit(h) \/ Abort(h))
        BY <2>2, <3>2, EndEffect DEF Commit, Abort, Active
      <4> QED BY <1>1, <3>2, <4>1, <4>2, <4>3, <4>4 DEF Report
    <3> QED BY <3>1, <3>2
  <2>3. infos \subseteq infos' /\ \A r \in infos' \ infos : r.pid = i => r.crossed
    <3>1. CASE Commit(h)
      <4>1. Active(h) /\ (rep[h].pid = i => rep[h].crossed)
        BY <2>0, <3>1 DEF Commit, Active, MoveOK
      <4> QED BY <3>1, <4>1 DEF Commit
    <3>2. CASE ~Commit(h)
      BY <1>1, <3>2, ReportEffect
    <3> QED BY <3>1, <3>2
  <2> QED BY <2>0, <2>2, <2>3 DEF MoveOK
<1>2. CASE Programs
  <2>0. CASE prog'.name # "compact"
    BY <2>0 DEF MovesOK
  <2>1. CASE DOMAIN tasks' = {}
    BY <2>1 DEF MovesOK
  <2>2. CASE CountPlayers \/ ListOld \/ ListUnused
    <3>1. CountPlayers => DOMAIN tasks' = {}
      BY StartEffect, ProgramLabels DEF CountPlayers
    <3>2. ListOld \/ ListUnused => prog'.name # "compact"
      BY StartEffect DEF ListOld, ListUnused
    <3> QED BY <2>0, <2>1, <2>2, <3>1, <3>2
  <2>3. CASE Interrupt \/ WorkEnds \/ ResetSequence \/ MovesEnd
    BY <2>1, <2>3, ProgramLabels DEF Interrupt, WorkEnds, ResetSequence, MovesEnd, End
  <2>4. CASE ListIds
    <3> DEFINE available == Slots(prog.count) \ PidsInUse
               to_move == {p \in PidsInUse : p > prog.count}
    <3>1. CASE End
      BY <2>1, <3>1, ProgramLabels DEF End
    <3>2. CASE ~End
      <4>1. PICK id_map \in IdMaps(available, to_move) : tasks' = [old \in to_move |-> Task(id_map[old])]
        BY <2>4, <3>2 DEF ListIds
      <4>2. ASSUME NEW i \in to_move PROVE MoveOK(i)'
        <5>1. id_map[i] \in available /\ prog.count \in Nat
          BY <4>1 DEF IdMaps, VarsOK, ProgRecord
        <5>2. i \in 1..MaxPid /\ i > prog.count /\ i \in PidsInUse /\ id_map[i] \in 1..prog.count
          BY <5>1 DEF Slots, PidsInUse, VarsOK, Pid
        <5>3. id_map[i] \in 1..(i - 1) /\ id_map[i] \in Nat
          BY <5>1, <5>2
        <5>4. tasks'[i].new = id_map[i] /\ tasks'[i].at = "todo" /\ tasks'[i].rows = {}
          BY <4>1, <5>3, Records
        <5>5. PidsInUse' = PidsInUse
          BY <2>4 DEF ListIds, tables, PidsInUse
        <5> QED BY <5>2, <5>3, <5>4, <5>5 DEF MoveOK
      <4> QED BY <4>1, <4>2 DEF MovesOK
    <3> QED BY <3>1, <3>2
  <2>5. CASE RestoreKey
    BY <2>1, <2>5, ProgramLabels DEF RestoreKey, End, ProgOK
  <2>6. CASE SelectMax
    BY <2>1, <2>6, ProgramLabels DEF SelectMax, ProgOK
  <2>7. CASE DropKey
    <3>1. prog.name = "compact" /\ tasks' = tasks /\ UNCHANGED <<player, infos, rep>>
      BY <2>7 DEF DropKey, ProgOK
    <3> QED BY <3>1 DEF MovesOK, MoveOK, PidsInUse, Active
  <2>8. ASSUME NEW j \in DOMAIN tasks, MatchResponse(j) \/ Repoint(j) \/ DeleteOld(j) \/ RemoveUnused(j)
        PROVE  MovesOK'
    BY <2>0, <2>8 DEF MatchResponse, Repoint, DeleteOld, RemoveUnused
  <2>9. ASSUME NEW j \in DOMAIN tasks, TaskFails(j) PROVE MovesOK'
    <3> SUFFICES ASSUME prog.name = "compact", NEW i \in DOMAIN tasks PROVE MoveOK(i)'
      BY <2>9 DEF MovesOK, TaskFails, VarsOK
    <3>1. MoveOK(i) /\ UNCHANGED <<player, infos, rep>> /\ tasks[j] \in TaskRecord
      BY <1>0, <2>9 DEF MovesOK, TaskFails, tables
    <3>2. CASE i # j
      <4>1. tasks'[i] = tasks[i]
        BY <2>9, <3>2 DEF TaskFails, VarsOK
      <4> QED BY <3>1, <4>1 DEF MoveOK, PidsInUse, Active
    <3>3. CASE i = j
      <4>1. tasks'[j].at = "failed" /\ tasks'[j].rows = {} /\ tasks'[j].new = tasks[j].new
        BY <2>9, <3>1 DEF TaskFails, VarsOK, TaskRecord
      <4> QED BY <3>1, <3>3, <4>1 DEF MoveOK
    <3> QED BY <3>2, <3>3
  <2>10. ASSUME NEW j \in DOMAIN tasks, MoveInfos(j) PROVE MovesOK'
    <3> SUFFICES ASSUME NEW i \in DOMAIN tasks PROVE MoveOK(i)'
      BY <2>10 DEF MovesOK, MoveInfos, VarsOK
    <3>1. /\ MoveOK(i) /\ player' = player /\ infos' = infos /\ rep' = Crossing(j)
          /\ tasks[j] \in TaskRecord /\ tasks[j].at = "todo"
      BY <1>0, <2>10 DEF MovesOK, MoveInfos, ProgOK, tables
    <3>2. \A g \in Handlers : /\ (Active(g)' <=> Active(g)) /\ rep'[g].pid = rep[g].pid
                             /\ (rep'[g].crossed <=> rep[g].crossed \/ (Active(g) /\ rep[g].pid = j))
      BY <3>1, CrossingEffect DEF Active
    <3>3. CASE i # j
      <4>1. tasks'[i] = tasks[i]
        BY <2>10, <3>3 DEF MoveInfos, VarsOK
      <4> QED BY <3>1, <3>2, <4>1 DEF MoveOK, PidsInUse
    <3>4. CASE i = j
      <4>1. tasks'[j].at = "half" /\ tasks'[j].rows = {r \in infos : r.pid = j} /\ tasks'[j].new = tasks[j].new
        BY <2>10, <3>1 DEF MoveInfos, VarsOK, TaskRecord
      <4> QED BY <3>1, <3>2, <3>4, <4>1 DEF MoveOK, PidsInUse
    <3> QED BY <3>3, <3>4
  <2>11. ASSUME NEW j \in DOMAIN tasks, MovePlayer(j) PROVE MovesOK'
    <3> SUFFICES ASSUME NEW i \in DOMAIN tasks PROVE MoveOK(i)'
      BY <2>11 DEF MovesOK, MovePlayer, VarsOK
    <3> DEFINE new == tasks[j].new
               moved == {[r EXCEPT !.pid = new] : r \in tasks[j].rows}
    <3>1. MoveOK(i) /\ MoveOK(j) /\ tasks[j] \in TaskRecord /\ tasks[j].at = "half"
      BY <1>0, <2>11 DEF MovesOK, MovePlayer, ProgOK
    <3>2. /\ rep' = Crossing(j) /\ new \notin PidsInUse
          /\ player' = [n \in Names |-> IF player[n] = j THEN new ELSE player[n]]
          /\ infos' = (infos \ tasks[j].rows) \cup moved
      BY <2>11 DEF MovePlayer
    <3>3. CASE i = j
      <4>1. tasks'[j].at = "done" /\ tasks'[j].rows = {} /\ tasks'[j].new = new
        BY <2>11, <3>1 DEF MovePlayer, VarsOK, TaskRecord
      <4> QED BY <3>1, <3>3, <4>1 DEF MoveOK
    <3>4. CASE i # j
      <4>1. tasks'[i] = tasks[i]
        BY <2>11, <3>4 DEF MovePlayer, VarsOK
      <4>2. i \in PidsInUse => i \in PidsInUse'
        BY <3>2, <3>4 DEF PidsInUse, VarsOK
      <4>3. ASSUME tasks[i].at = "half"
            PROVE  /\ tasks[i].rows \subseteq {r \in infos' : r.pid = i}
                   /\ \A r \in infos' \ tasks[i].rows : r.pid = i => r.crossed
                   /\ \A g \in Handlers : Active(g)' /\ rep'[g].pid = i => rep'[g].crossed
        <5>1. \A r \in moved : r.pid = new /\ new # i
          <6>1. ASSUME NEW r \in tasks[j].rows PROVE [r EXCEPT !.pid = new].pid = new
            BY <3>1 DEF MoveOK, VarsOK, Row
          <6>2. new # i
            BY <3>1, <3>2, <4>3 DEF MoveOK
          <6> QED BY <6>1, <6>2
        <5>2. \A r \in tasks[j].rows : r.pid = j
          BY <3>1 DEF MoveOK
        <5>3. \A g \in Handlers : Active(g)' /\ rep'[g].pid = i => rep'[g].crossed
          BY <3>1, <3>2, <4>3, CrossingEffect DEF MoveOK, Active
        <5> HIDE DEF moved, new
        <5>4. tasks[i].rows \subseteq {r \in infos' : r.pid = i}
          BY <3>1, <3>2, <3>4, <4>3, <5>2 DEF MoveOK
        <5>5. \A r \in infos' \ tasks[i].rows : r.pid = i => r.crossed
          BY <3>1, <3>2, <4>3, <5>1 DEF MoveOK
        <5> QED BY <5>3, <5>4, <5>5
      <4> QED BY <3>1, <4>1, <4>2, <4>3 DEF MoveOK
    <3> QED BY <3>3, <3>4
  <2> QED BY <1>2, <2>2, <2>3, <2>4, <2>5, <2>6, <2>7, <2>8, <2>9, <2>10, <2>11 DEF Programs
<1>3. CASE UNCHANGED vars
  BY <1>3 DEF vars, tables, MovesOK, MoveOK, PidsInUse, Active
<1> QED BY <1>1, <1>2, <1>3, StepCases

(* The key is there unless a run has it, or lost it. *)
LEMMA KeyStep ==
  ASSUME VarsOK, RepsOK, ProgOK, NewOnesOK, TargetsOK, KeyOK, [Next]_vars PROVE KeyOK'
<1>1. ASSUME NEW h \in Handlers, Report(h) PROVE KeyOK'
  <2>0. /\ fk' = fk /\ broken' = broken /\ prog'.at = prog.at /\ PidsInUse \subseteq PidsInUse'
        /\ \A g \in Handlers \ {h} : rep'[g] = rep[g]
    BY <1>1, ReportEffect, ReportsKeepIds DEF history
  <2>1. ASSUME fk PROVE \A r \in infos' : r.pid \in PidsInUse'
    <3>1. \A r \in infos : r.pid \in PidsInUse'
      BY <2>0, <2>1 DEF KeyOK, ForeignKeyComesBack
    <3>2. CASE infos' = infos
      BY <3>1, <3>2
    <3>3. CASE Commit(h)
      <4>1. rep[h].pid \in PidsInUse'
        BY <1>1, <2>0, <2>1, <3>3, ReportsKeepIds DEF KeyOK, Commit
      <4> QED BY <3>1, <3>3, <4>1 DEF Commit
    <3> QED BY <1>1, <3>2, <3>3, ReportEffect
  <2>2. ASSUME NEW g \in Handlers, fk, rep'[g].at = "linked", ~rep'[g].new PROVE rep'[g].pid \in PidsInUse'
    <3>1. CASE g # h
      BY <2>0, <2>2, <3>1 DEF KeyOK
    <3>2. CASE g = h
      <4>1. InsertInfo(h)
        BY <1>1, <2>2, <3>2, OpenEffect, UpdatePlayerEffect, InsertPlayerEffect, FindResponseEffect, EndEffect
           DEF Report, Commit, Abort
      <4> QED BY <2>0, <2>2, <3>2, <4>1, InsertInfoEffect
    <3> QED BY <3>1, <3>2
  <2> QED BY <2>0, <2>1, <2>2 DEF KeyOK, ForeignKeyComesBack
<1>2. CASE Programs
  <2>1. CASE UNCHANGED <<player, infos, rep, fk>> /\ broken' = broken
             /\ (prog.at \in {"move", "restore"} <=> prog'.at \in {"move", "restore"})
    BY <2>1 DEF KeyOK, ForeignKeyComesBack, PidsInUse
  <2>2. CASE UNCHANGED <<player, infos, rep, fk>> /\ prog'.at \notin {"move", "restore"} /\ broken'
    BY <2>2 DEF KeyOK, ForeignKeyComesBack, PidsInUse
  <2>3. CASE CountPlayers \/ ListOld \/ ListUnused
    <3>1. UNCHANGED <<player, infos, rep, fk>> /\ broken' = broken
      BY <2>3 DEF CountPlayers, ListOld, ListUnused, Start, tables, history
    <3>2. prog.at = "stopped" /\ prog'.at \in {"list", "work"}
      BY <2>3, StartEffect DEF CountPlayers, ListOld, ListUnused
    <3> QED BY <2>1, <3>1, <3>2
  <2>4. CASE Interrupt
    <3>1. UNCHANGED <<player, infos, rep, fk>> /\ broken' = (broken \/ prog.at \in {"move", "restore"})
      BY <2>4 DEF Interrupt, tables
    <3>2. prog'.at = "stopped"
      BY <2>4, ProgramLabels DEF Interrupt, End
    <3>3. CASE prog.at \in {"move", "restore"}
      BY <2>2, <3>1, <3>2, <3>3
    <3>4. CASE prog.at \notin {"move", "restore"}
      <4>1. broken' = broken
        BY <3>1, <3>4 DEF VarsOK
      <4> QED BY <2>1, <3>1, <3>2, <3>4, <4>1
    <3> QED BY <3>3, <3>4
  <2>5. CASE WorkEnds \/ ResetSequence
    <3>1. UNCHANGED <<player, infos, rep, fk>> /\ broken' = broken /\ prog.at \in {"work", "alter"}
      BY <2>5 DEF WorkEnds, ResetSequence, tables, history
    <3>2. prog'.at = "stopped"
      BY <2>5, ProgramLabels DEF WorkEnds, ResetSequence, End
    <3> QED BY <2>1, <3>1, <3>2
  <2>6. CASE ListIds
    <3>1. UNCHANGED <<player, infos, rep, fk>> /\ broken' = broken /\ prog.at = "list"
      BY <2>6 DEF ListIds, tables, history
    <3>2. prog'.at \in {"stopped", "max", "drop"}
      BY <2>6, CompactEffect
    <3> QED BY <2>1, <3>1, <3>2
  <2>7. CASE SelectMax
    <3>1. UNCHANGED <<player, infos, rep, fk>> /\ broken' = broken /\ prog.at = "max"
      BY <2>7 DEF SelectMax, tables, history
    <3> QED BY <2>1, <2>7, <3>1, SelectMaxEffect
  <2>8. CASE DropKey
    <3>1. ~fk' /\ prog'.at = "move"
      BY <2>8, ProgramLabels DEF DropKey
    <3> QED BY <3>1 DEF KeyOK, ForeignKeyComesBack
  <2>9. CASE MovesEnd
    <3>1. UNCHANGED <<player, infos, rep, fk>> /\ prog.at = "move"
      BY <2>9 DEF MovesEnd, tables
    <3>2. (broken' /\ prog'.at = "stopped") \/ (broken' = broken /\ prog'.at = "restore")
      BY <2>9, CompactEffect
    <3> QED BY <2>1, <2>2, <3>1, <3>2
  <2>10. CASE RestoreKey
    <3>1. UNCHANGED <<player, infos, rep>> /\ prog.at = "restore"
          /\ \A h \in Handlers : rep[h].at \in {"idle", "read"}
      BY <2>10 DEF RestoreKey
    <3>2. CASE fk' = TRUE /\ prog'.at = "max" /\ \A r \in infos : r.pid \in PidsInUse
      BY <3>1, <3>2 DEF KeyOK, ForeignKeyComesBack, PidsInUse
    <3>3. CASE fk' = fk /\ prog'.at = "stopped" /\ broken'
      BY <2>2, <3>1, <3>3
    <3> QED BY <2>10, <3>2, <3>3, CompactEffect
  <2>11. ASSUME NEW i \in DOMAIN tasks, MatchResponse(i) \/ Repoint(i) \/ RemoveUnused(i) \/ TaskFails(i)
         PROVE  KeyOK'
    <3>1. UNCHANGED <<player, infos, rep, fk>> /\ broken' = broken /\ prog' = prog
      BY <2>11 DEF MatchResponse, Repoint, RemoveUnused, TaskFails, tables, history
    <3> QED BY <2>1, <3>1
  <2>12. ASSUME NEW i \in DOMAIN tasks, MoveInfos(i) \/ MovePlayer(i) PROVE KeyOK'
    <3>1. prog.at = "move" /\ prog' = prog /\ fk' = fk
      BY <2>12 DEF MoveInfos, MovePlayer, tables
    <3> QED BY <3>1 DEF KeyOK, ForeignKeyComesBack
  <2>13. ASSUME NEW i \in DOMAIN tasks, DeleteOld(i) PROVE KeyOK'
    <3>1. /\ UNCHANGED <<player, rep, fk>> /\ broken' = broken /\ prog' = prog
          /\ infos' = (infos \ tasks[i].rows) \cup {[r EXCEPT !.resp = tasks[i].new] : r \in tasks[i].rows}
          /\ tasks[i].rows \subseteq infos
      BY <2>13 DEF DeleteOld, TargetsOK, TargetOK, history
    <3>2. ASSUME NEW m \in {[r EXCEPT !.resp = tasks[i].new] : r \in tasks[i].rows}
          PROVE  \E r \in infos : m.pid = r.pid
      BY <3>1 DEF VarsOK, Row
    <3>3. \A m \in infos' : m \in infos \/ m \in {[r EXCEPT !.resp = tasks[i].new] : r \in tasks[i].rows}
      BY <3>1
    <3>4. fk => \A r \in infos' : r.pid \in PidsInUse
      BY <3>2, <3>3 DEF KeyOK, ForeignKeyComesBack
    <3> QED BY <3>1, <3>4 DEF KeyOK, ForeignKeyComesBack, PidsInUse
  <2> QED BY <1>2, <2>3, <2>4, <2>5, <2>6, <2>7, <2>8, <2>9, <2>10, <2>11, <2>12, <2>13 DEF Programs
<1>3. CASE UNCHANGED vars
  BY <1>3 DEF vars, tables, history, KeyOK, ForeignKeyComesBack, PidsInUse
<1> QED BY <1>1, <1>2, <1>3, StepCases

(* Ids that are drawn are free, and the sequence is set to one that is. *)
LEMMA SequenceStep ==
  ASSUME VarsOK, RepsOK, ProgOK, NewOnesOK, MovesOK, SequenceOK, [Next]_vars PROVE SequenceOK'
<1>0. /\ seq \in Nat /\ PidsInUse \subseteq 1..MaxPid
      /\ \A h \in Handlers : rep[h].pid \in Nat /\ rep[h].new \in BOOLEAN
  BY DEF VarsOK, PidsInUse, Pid, RepRecord
<1>1. ASSUME NEW h \in Handlers, Report(h) PROVE SequenceOK'
  <2>0. /\ raced' = raced /\ prog'.at = prog.at /\ prog'.count = prog.count
        /\ \A g \in Handlers \ {h} : rep'[g] = rep[g]
        /\ RepOK(h)
    BY <1>1, ReportEffect DEF history, RepsOK
  <2>1. CASE InsertPlayer(h)
    <3>0. PidsInUse' = PidsInUse
      BY <2>1 DEF InsertPlayer, tables, PidsInUse
    <3>1. PidsInUse' = PidsInUse /\ seq' = seq + 1 /\ (prog.at = "alter" => prog'.crossed)
      BY <2>1, <3>0, InsertPlayerEffect
    <3>2. rep'[h].new => rep'[h].pid < seq'
      BY <1>0, <2>1, <3>1, InsertPlayerEffect, EndEffect
    <3>3. ~raced => \A g \in Handlers \ {h} : rep'[g].new => rep'[g].pid < seq'
      BY <1>0, <2>0, <3>1 DEF SequenceOK, FreshIdsAreFree
    <3>4. ~raced => \A p \in PidsInUse : p < seq'
      BY <1>0, <3>1 DEF SequenceOK, FreshIdsAreFree
    <3>5. FreshIdsAreFree'
      BY <2>0, <3>1, <3>2, <3>3, <3>4 DEF FreshIdsAreFree
    <3> QED BY <2>0, <3>1, <3>5 DEF SequenceOK
  <2>2. CASE ~InsertPlayer(h)
    <3>1. prog' = prog /\ seq' = seq
      BY <1>1, <2>2, ReportEffect
    <3>2. rep'[h].new => (rep'[h].pid = 0 /\ rep'[h].holds = None)
                          \/ (rep[h].new /\ rep'[h].pid = rep[h].pid /\ rep[h].holds # None)
      <4>1. ASSUME NEW n \in Names, NEW c \in Reported, Open(h, n, c)
            PROVE  rep'[h].new => rep'[h].pid = 0 /\ rep'[h].holds = None
        BY <4>1, OpenEffect
      <4>2. ASSUME FindResponse(h) \/ InsertInfo(h)
            PROVE  rep'[h].new => rep[h].new /\ rep'[h].pid = rep[h].pid /\ rep[h].holds # None
        <5>1. rep'[h].new = rep[h].new /\ rep'[h].pid = rep[h].pid /\ rep[h].at \in {"written", "found"}
          BY <4>2, FindResponseEffect, InsertInfoEffect
        <5> QED BY <1>0, <2>0, <5>1 DEF RepOK, Writing
      <4>3. ASSUME UpdatePlayer(h) \/ Commit(h) \/ Abort(h) PROVE ~rep'[h].new
        BY <4>3, UpdatePlayerEffect, EndEffect DEF Commit, Abort
      <4> QED BY <1>1, <2>2, <4>1, <4>2, <4>3 DEF Report
    <3>3. CASE player' = player
      <4>1. PidsInUse' = PidsInUse
        BY <3>3 DEF PidsInUse
      <4>2. ~raced => /\ \A p \in PidsInUse : p < seq
                      /\ \A g \in Handlers : rep'[g].new => rep'[g].pid < seq
        <5>1. 0 < seq
          BY DEF VarsOK
        <5> QED BY <2>0, <3>2, <5>1 DEF SequenceOK, FreshIdsAreFree
      <4>3. prog.at = "alter" /\ ~prog.crossed => \A g \in Handlers : rep'[g].new => rep'[g].holds = None
        BY <2>0, <3>2 DEF SequenceOK
      <4> QED BY <2>0, <3>1, <4>1, <4>2, <4>3 DEF SequenceOK, FreshIdsAreFree
    <3>4. CASE Commit(h) /\ rep[h].new
      <4>1. PidsInUse' = PidsInUse \cup {rep[h].pid} /\ Writing(h) /\ rep[h].holds # None /\ ~rep'[h].new
        <5>1. PidsInUse' = PidsInUse \cup {rep[h].pid} /\ Writing(h)
          BY <1>1, <3>4, ReportsKeepIds
        <5>2. rep[h].holds = rep[h].pid /\ rep[h].pid \in Nat
          BY <1>0, <2>0, <5>1 DEF RepOK
        <5>3. ~rep'[h].new
          BY <3>4, EndEffect DEF Commit
        <5> QED BY <5>1, <5>2, <5>3
      <4>2. ~(prog.at = "alter" /\ ~prog.crossed)
        BY <3>4, <4>1 DEF SequenceOK
      <4>3. ~raced => /\ \A p \in PidsInUse' : p < seq
                      /\ \A g \in Handlers : rep'[g].new => rep'[g].pid < seq
        BY <2>0, <3>4, <4>1 DEF SequenceOK, FreshIdsAreFree
      <4> QED BY <2>0, <3>1, <4>2, <4>3 DEF SequenceOK, FreshIdsAreFree
    <3> QED BY <1>1, <3>3, <3>4, ReportsKeepIds
  <2> QED BY <2>1, <2>2
<1>2. CASE Programs
  <2>1. CASE UNCHANGED <<player, rep, seq>> /\ raced' = raced /\ prog'.at # "alter"
    BY <2>1 DEF SequenceOK, FreshIdsAreFree, PidsInUse
  <2>2. CASE CountPlayers \/ ListOld \/ ListUnused
    <3>1. UNCHANGED <<player, rep, seq>> /\ raced' = raced
      BY <2>2 DEF CountPlayers, ListOld, ListUnused, Start, tables, history
    <3>2. prog'.at \in {"list", "work"}
      BY <2>2, StartEffect DEF CountPlayers, ListOld, ListUnused
    <3> QED BY <2>1, <3>1, <3>2
  <2>3. CASE Interrupt \/ WorkEnds \/ ListIds \/ MovesEnd \/ RestoreKey \/ DropKey
    <3>1. UNCHANGED <<player, rep, seq>> /\ raced' = raced
      BY <2>3 DEF Interrupt, WorkEnds, ListIds, MovesEnd, RestoreKey, DropKey, tables, history
    <3>2. prog'.at \in {"stopped", "max", "drop", "restore", "move"}
      BY <2>3, CompactEffect DEF Interrupt, WorkEnds
    <3> QED BY <2>1, <3>1, <3>2
  <2>4. CASE SelectMax
    <3>1. UNCHANGED <<player, rep, seq>> /\ raced' = raced /\ PidsInUse' = PidsInUse
      BY <2>4 DEF SelectMax, tables, history, PidsInUse
    <3> QED BY <1>0, <2>4, <3>1, SelectMaxEffect DEF SequenceOK, FreshIdsAreFree, IsLargest
  <2>5. CASE ResetSequence
    <3>1. UNCHANGED <<player, rep>> /\ PidsInUse' = PidsInUse /\ prog.at = "alter"
          /\ seq' = prog.count + 1 /\ raced' = (raced \/ prog.crossed)
      BY <2>5 DEF ResetSequence, NextAfter, tables, PidsInUse
    <3>2. prog'.at = "stopped"
      BY <2>5, ProgramLabels DEF ResetSequence, End
    <3>3. prog.count \in Nat /\ ~raced' => ~prog.crossed
      BY <3>1 DEF SequenceOK
    <3>4. ~raced' => \A p \in PidsInUse : p < seq'
      BY <1>0, <3>1, <3>3 DEF SequenceOK
    <3>5. ~raced' => \A h \in Handlers : rep[h].new => rep[h].pid < seq'
      <4>1. ASSUME ~raced', NEW h \in Handlers, rep[h].new PROVE rep[h].pid = 0
        BY <3>1, <3>3, <4>1 DEF SequenceOK, RepsOK, RepOK
      <4> QED BY <3>1, <4>1 DEF SequenceOK
    <3> QED BY <3>1, <3>2, <3>4, <3>5 DEF SequenceOK, FreshIdsAreFree
  <2>6. ASSUME NEW i \in DOMAIN tasks,
               MatchResponse(i) \/ Repoint(i) \/ DeleteOld(i) \/ RemoveUnused(i) \/ TaskFails(i)
        PROVE  SequenceOK'
    <3>1. UNCHANGED <<player, rep, seq, prog>> /\ raced' = raced
      BY <2>6 DEF MatchResponse, Repoint, DeleteOld, RemoveUnused, TaskFails, tables, history
    <3> QED BY <3>1 DEF SequenceOK, FreshIdsAreFree, PidsInUse
  <2>7. ASSUME NEW i \in DOMAIN tasks, MoveInfos(i) PROVE SequenceOK'
    <3>1. UNCHANGED <<player, seq, prog>> /\ raced' = raced /\ rep' = Crossing(i) /\ prog.at = "move"
      BY <2>7 DEF MoveInfos, tables, history
    <3> QED BY <3>1, CrossingEffect DEF SequenceOK, FreshIdsAreFree, PidsInUse
  <2>8. ASSUME NEW i \in DOMAIN tasks, MovePlayer(i) PROVE SequenceOK'
    <3>1. UNCHANGED <<seq, prog>> /\ raced' = raced /\ rep' = Crossing(i) /\ prog.at = "move"
      BY <2>8 DEF MovePlayer, history
    <3>2. i \in PidsInUse /\ tasks[i].new \in 1..(i - 1) /\ i \in Nat
      BY <2>8 DEF MovePlayer, ProgOK, MovesOK, MoveOK
    <3>3. PidsInUse' \subseteq PidsInUse \cup {tasks[i].new}
      BY <2>8 DEF MovePlayer, PidsInUse
    <3>4. ~raced => \A p \in PidsInUse' : p < seq
      BY <1>0, <3>2, <3>3 DEF SequenceOK, FreshIdsAreFree
    <3>5. ~raced => \A h \in Handlers : rep'[h].new => rep'[h].pid < seq
      BY <3>1, CrossingEffect DEF SequenceOK, FreshIdsAreFree
    <3> QED BY <3>1, <3>4, <3>5 DEF SequenceOK, FreshIdsAreFree
  <2> QED BY <1>2, <2>2, <2>3, <2>4, <2>5, <2>6, <2>7, <2>8 DEF Programs
<1>3. CASE UNCHANGED vars
  BY <1>3 DEF vars, tables, history, SequenceOK, FreshIdsAreFree, PidsInUse
<1> QED BY <1>1, <1>2, <1>3, StepCases

-----------------------------------------------------------------------------
(* Responses *)

(* What the steps of reencode_others and remove_old do to their task. *)
LEMMA MatchEffect ==
  ASSUME VarsOK, NEW i \in DOMAIN tasks, MatchResponse(i)
  PROVE  /\ prog.name = "reencode" /\ tasks[i].at = "todo" /\ DOMAIN tasks' = DOMAIN tasks
         /\ \A j \in DOMAIN tasks \ {i} : tasks'[j] = tasks[j]
         /\ tasks'[i].rows = tasks[i].rows
         /\ \E c \in Encoded :
              /\ MeaningOf[c] = MeaningOf[resps[i].content]
              /\ \/ /\ tasks'[i].new \in Stored(c) /\ tasks'[i].made = tasks[i].made /\ rseq' = rseq
                    /\ tasks'[i].at = (IF tasks'[i].new = i THEN "done" ELSE "matched")
                 \/ /\ tasks'[i].at = "matched" /\ tasks'[i].new = rseq /\ tasks'[i].made = c
                    /\ rseq <= MaxResp /\ rseq' = rseq + 1
<1>0. tasks[i] \in TaskRecord /\ tasks \in [DOMAIN tasks -> TaskRecord]
  BY DEF VarsOK
<1>1. PICK c \in Encoded :
        /\ MeaningOf[c] = MeaningOf[resps[i].content]
        /\ \/ /\ \E j \in Stored(c) :
                   tasks' = [tasks EXCEPT ![i].at = IF j = i THEN "done" ELSE "matched", ![i].new = j]
              /\ rseq' = rseq
           \/ /\ tasks' = [tasks EXCEPT ![i].at = "matched", ![i].new = rseq, ![i].made = c]
              /\ rseq <= MaxResp /\ rseq' = rseq + 1
  BY DEF MatchResponse
<1>2. CASE /\ \E j \in Stored(c) :
                 tasks' = [tasks EXCEPT ![i].at = IF j = i THEN "done" ELSE "matched", ![i].new = j]
           /\ rseq' = rseq
  <2>1. PICK j \in Stored(c) :
          tasks' = [tasks EXCEPT ![i].at = IF j = i THEN "done" ELSE "matched", ![i].new = j]
    BY <1>2
  <2>2. /\ DOMAIN tasks' = DOMAIN tasks /\ \A k \in DOMAIN tasks \ {i} : tasks'[k] = tasks[k]
        /\ tasks'[i].rows = tasks[i].rows /\ tasks'[i].new = j /\ tasks'[i].made = tasks[i].made
        /\ tasks'[i].at = (IF j = i THEN "done" ELSE "matched")
    BY <1>0, <2>1 DEF TaskRecord
  <2> QED BY <1>1, <1>2, <2>2 DEF MatchResponse
<1>3. CASE /\ tasks' = [tasks EXCEPT ![i].at = "matched", ![i].new = rseq, ![i].made = c]
           /\ rseq <= MaxResp /\ rseq' = rseq + 1
  <2>1. /\ DOMAIN tasks' = DOMAIN tasks /\ \A k \in DOMAIN tasks \ {i} : tasks'[k] = tasks[k]
        /\ tasks'[i].rows = tasks[i].rows /\ tasks'[i].new = rseq /\ tasks'[i].made = c
        /\ tasks'[i].at = "matched"
    BY <1>0, <1>3 DEF TaskRecord
  <2> QED BY <1>1, <1>3, <2>1 DEF MatchResponse
<1> QED BY <1>1, <1>2, <1>3

(* The rows of an old response are taken. *)
LEMMA RepointEffect ==
  ASSUME VarsOK, NEW i \in DOMAIN tasks, Repoint(i)
  PROVE  /\ prog.name = "reencode" /\ tasks[i].at = "matched" /\ DOMAIN tasks' = DOMAIN tasks
         /\ \A j \in DOMAIN tasks \ {i} : tasks'[j] = tasks[j]
         /\ tasks'[i].at = "half" /\ tasks'[i].new = tasks[i].new /\ tasks'[i].made = tasks[i].made
         /\ tasks'[i].rows = {r \in infos : r.resp = i}
         /\ tasks'[i].rows = {} \/ tasks[i].made # None \/ tasks[i].new \in DOMAIN resps
<1>1. tasks[i] \in TaskRecord /\ tasks \in [DOMAIN tasks -> TaskRecord]
  BY DEF VarsOK
<1> QED BY <1>1 DEF Repoint, TaskRecord

(* A task that ends. *)
LEMMA TaskEndEffect ==
  ASSUME VarsOK, NEW i \in DOMAIN tasks, DeleteOld(i) \/ RemoveUnused(i) \/ TaskFails(i)
  PROVE  /\ DOMAIN tasks' = DOMAIN tasks /\ \A j \in DOMAIN tasks \ {i} : tasks'[j] = tasks[j]
         /\ tasks'[i].at \in {"done", "failed"}
         /\ tasks'[i].new = tasks[i].new /\ tasks'[i].made = tasks[i].made
         /\ tasks'[i].rows = {} \/ (RemoveUnused(i) /\ tasks'[i].rows = tasks[i].rows)
<1>1. tasks[i] \in TaskRecord /\ tasks \in [DOMAIN tasks -> TaskRecord]
  BY DEF VarsOK
<1>2. CASE DeleteOld(i)
  BY <1>1, <1>2 DEF DeleteOld, TaskRecord
<1>3. CASE RemoveUnused(i)
  BY <1>1, <1>3 DEF RemoveUnused, TaskRecord
<1>4. CASE TaskFails(i)
  BY <1>1, <1>4 DEF TaskFails, TaskRecord
<1> QED BY <1>2, <1>3, <1>4

(* Chunks of compact_ids leave responses alone. *)
LEMMA ChunkEffect ==
  ASSUME VarsOK, NEW i \in DOMAIN tasks, MoveInfos(i) \/ MovePlayer(i)
  PROVE  /\ DOMAIN tasks' = DOMAIN tasks /\ \A j \in DOMAIN tasks : tasks'[j].made = tasks[j].made
         /\ prog.at = "move" /\ prog' = prog /\ resps' = resps /\ rseq' = rseq /\ rep' = Crossing(i)
<1>1. \A j \in DOMAIN tasks : tasks[j] \in TaskRecord
  BY DEF VarsOK
<1> QED BY <1>1 DEF MoveInfos, MovePlayer, TaskRecord, VarsOK, tables

(* Tasks of a program that starts, goes on or ends. *)
LEMMA NewTasksEffect ==
  ASSUME VarsOK, ProgOK,
         CountPlayers \/ ListOld \/ ListUnused \/ Interrupt \/ WorkEnds \/ ListIds
         \/ MovesEnd \/ RestoreKey \/ SelectMax \/ ResetSequence \/ DropKey
  PROVE  /\ UNCHANGED <<player, infos, resps, rseq, rep>>
         /\ \/ tasks' = tasks /\ prog.name = "compact" /\ prog'.name = "compact"
            \/ /\ prog'.name = "reencode" => DOMAIN tasks' \subseteq DOMAIN resps
               /\ \A i \in DOMAIN tasks' :
                    tasks'[i].made = None /\ tasks'[i].rows = {} /\ tasks'[i].at = "todo"
<1>1. UNCHANGED <<player, infos, resps, rseq, rep>>
  <2>1. ASSUME CountPlayers \/ ListOld \/ ListUnused PROVE UNCHANGED <<player, infos, resps, rseq, rep>>
    BY <2>1 DEF CountPlayers, ListOld, ListUnused, Start, tables
  <2>2. ASSUME Interrupt \/ WorkEnds \/ ListIds \/ MovesEnd PROVE UNCHANGED <<player, infos, resps, rseq, rep>>
    BY <2>2 DEF Interrupt, WorkEnds, ListIds, MovesEnd, tables
  <2>3. ASSUME RestoreKey \/ ResetSequence \/ DropKey PROVE UNCHANGED <<player, infos, resps, rseq, rep>>
    BY <2>3 DEF RestoreKey, ResetSequence, DropKey, tables
  <2>4. ASSUME SelectMax PROVE UNCHANGED <<player, infos, resps, rseq, rep>>
    <3>1. UNCHANGED <<tables, seq, rseq, rep, tasks, reports, runs, history>>
      BY <2>4, Zenon DEF SelectMax
    <3> QED BY <3>1 DEF tables
  <2> QED BY <2>1, <2>2, <2>3, <2>4
<1> DEFINE New == /\ prog'.name = "reencode" => DOMAIN tasks' \subseteq DOMAIN resps
                  /\ \A i \in DOMAIN tasks' :
                       tasks'[i].made = None /\ tasks'[i].rows = {} /\ tasks'[i].at = "todo"
           Same == tasks' = tasks /\ prog.name = "compact" /\ prog'.name = "compact"
<1> SUFFICES New \/ Same
  BY <1>1, Zenon
<1>a. DOMAIN tasks' = {} => New
  OBVIOUS
<1>b. \A at : prog' = [prog EXCEPT !.at = at] => prog'.name = prog.name
  BY DEF VarsOK, ProgRecord
<1>2. CASE End
  <2>1. DOMAIN tasks' = {}
    BY <1>2, CompactEffect
  <2> QED BY <1>a, <2>1
<1>3. CASE CountPlayers
  <2>1. DOMAIN tasks' = {}
    BY <1>3, StartEffect, ProgramLabels DEF CountPlayers
  <2> QED BY <1>a, <2>1
<1>4. ASSUME NEW S \in SUBSET Nat, tasks' = TasksFor(S)
      PROVE  /\ DOMAIN tasks' = S
             /\ \A i \in DOMAIN tasks' :
                  tasks'[i].made = None /\ tasks'[i].rows = {} /\ tasks'[i].at = "todo"
  BY <1>4, Records DEF TasksFor
<1>5. CASE ListOld
  <2> DEFINE S == {i \in DOMAIN resps : resps[i].old}
  <2>1. S \in SUBSET Nat /\ S \subseteq DOMAIN resps
    BY DEF VarsOK
  <2>2. tasks' = TasksFor(S)
    BY <1>5, StartEffect DEF ListOld
  <2> HIDE DEF S
  <2> QED BY <1>4, <2>1, <2>2
<1>6. CASE ListUnused
  <2> DEFINE S == {i \in DOMAIN resps : ~Referenced(i, {})}
  <2>1. S \in SUBSET Nat
    BY DEF VarsOK
  <2>2. tasks' = TasksFor(S) /\ prog'.name = "remove"
    BY <1>6, StartEffect DEF ListUnused
  <2> HIDE DEF S
  <2> QED BY <1>4, <2>1, <2>2
<1>7. CASE ListIds /\ ~End
  <2> DEFINE available == Slots(prog.count) \ PidsInUse
             to_move == {p \in PidsInUse : p > prog.count}
  <2>1. PICK id_map \in IdMaps(available, to_move) :
          /\ tasks' = [old \in to_move |-> Task(id_map[old])]
          /\ prog' = [prog EXCEPT !.at = IF to_move = {} THEN "max" ELSE "drop"]
    BY <1>7 DEF ListIds
  <2>2. id_map \in [to_move -> Nat]
    BY DEF IdMaps, Slots, VarsOK, ProgRecord
  <2>3. \A i \in DOMAIN tasks' : tasks'[i].made = None /\ tasks'[i].rows = {} /\ tasks'[i].at = "todo"
    BY <2>1, <2>2, Records
  <2>4. prog'.name = prog.name
    BY <2>1 DEF VarsOK, ProgRecord
  <2>5. prog.name = "compact"
    BY <1>7 DEF ListIds, ProgOK
  <2> QED BY <2>3, <2>4, <2>5
<1>8. CASE SelectMax
  <2>1. tasks' = tasks /\ prog'.name = prog.name /\ prog.name = "compact"
    BY <1>8, SelectMaxEffect DEF SelectMax, ProgOK
  <2> QED BY <2>1
<1>9. CASE DropKey
  <2>1. tasks' = tasks /\ prog.name = "compact" /\ prog' = [prog EXCEPT !.at = "move"]
    BY <1>9 DEF DropKey, ProgOK
  <2> QED BY <1>b, <2>1
<1>10. CASE RestoreKey /\ ~End
  <2>1. tasks' = tasks /\ prog.name = "compact" /\ prog' = [prog EXCEPT !.at = "max"]
    BY <1>10 DEF RestoreKey, ProgOK
  <2> QED BY <1>b, <2>1
<1>11. CASE MovesEnd /\ ~End
  <2>1. DOMAIN tasks' = {}
    BY <1>11, ProgramLabels DEF MovesEnd
  <2> QED BY <1>a, <2>1
<1> QED BY <1>2, <1>3, <1>5, <1>6, <1>7, <1>8, <1>9, <1>10, <1>11 DEF Interrupt, WorkEnds, ResetSequence

(* What a report does to responses: it draws an id, finds one that is      *)
(* there, or adds the one it drew.                                         *)
LEMMA ReportResps ==
  ASSUME VarsOK, RepsOK, FoundOK, NEW h \in Handlers, Report(h)
  PROVE  /\ rseq \in Nat /\ rseq' \in {rseq, rseq + 1}
         /\ \A g \in Handlers : rep'[g].fresh =>
              \/ rep[g].fresh /\ rep'[g].resp = rep[g].resp
              \/ g = h /\ rep'[g].resp = rseq /\ rseq' = rseq + 1
         /\ \A g \in Handlers : Responding(g)' /\ ~rep'[g].fresh =>
              \/ /\ Responding(g) /\ ~rep[g].fresh
                 /\ rep'[g].resp = rep[g].resp /\ rep'[g].what = rep[g].what
                 /\ rep'[g].at = "linked" => rep[g].at = "linked" \/ rep[g].resp \in DOMAIN resps
              \/ rep'[g].resp \in Stored(rep'[g].what) /\ rep'[g].at = "found"
         /\ DOMAIN resps \subseteq DOMAIN resps'
         /\ \A i \in DOMAIN resps : resps'[i] = resps[i]
         /\ \A i \in DOMAIN resps' \ DOMAIN resps :
              Commit(h) /\ rep[h].fresh /\ i = rep[h].resp /\ resps'[i].content = rep[h].what
<1>0. RepOK(h) /\ rseq \in Nat /\ rep[h].fresh \in BOOLEAN
  BY DEF RepsOK, VarsOK, RepRecord
<1>1. rseq' \in {rseq, rseq + 1}
  BY <1>0, ReportEffect, FindResponseEffect
<1>2. ASSUME NEW g \in Handlers, rep'[g].fresh
      PROVE  \/ rep[g].fresh /\ rep'[g].resp = rep[g].resp
             \/ g = h /\ rep'[g].resp = rseq /\ rseq' = rseq + 1
  <2>1. CASE g # h
    BY <1>2, <2>1, ReportEffect
  <2>2. CASE g = h
    <3>1. ASSUME NEW n \in Names, NEW c \in Reported PROVE ~Open(h, n, c)
      BY <1>2, <2>2, OpenEffect
    <3>2. ~(Commit(h) \/ Abort(h))
      BY <1>2, <2>2, EndEffect DEF Commit, Abort
    <3>3. ~FindResponse(h) => rep[h].fresh /\ rep'[h].resp = rep[h].resp
      BY <1>2, <2>2, <3>1, <3>2, UpdatePlayerEffect, InsertPlayerEffect, InsertInfoEffect, EndEffect DEF Report
    <3>4. FindResponse(h) => rep'[h].resp = rseq /\ rseq' = rseq + 1
      BY <1>0, <1>2, <2>2, FindResponseEffect DEF RepOK, Responding
    <3> QED BY <2>2, <3>3, <3>4
  <2> QED BY <2>1, <2>2
<1>3. ASSUME NEW g \in Handlers, Responding(g)', ~rep'[g].fresh
      PROVE  \/ /\ Responding(g) /\ ~rep[g].fresh
                /\ rep'[g].resp = rep[g].resp /\ rep'[g].what = rep[g].what
                /\ rep'[g].at = "linked" => rep[g].at = "linked" \/ rep[g].resp \in DOMAIN resps
             \/ rep'[g].resp \in Stored(rep'[g].what) /\ rep'[g].at = "found"
  <2>1. CASE g # h
    BY <1>3, <2>1, ReportEffect DEF Responding
  <2>2. CASE g = h
    <3>1. rep'[h].at \in {"found", "linked"} /\ ~rep'[h].fresh
      BY <1>3, <2>2 DEF Responding
    <3>2. FindResponse(h) \/ InsertInfo(h)
      BY <1>1, <3>1, OpenEffect, UpdatePlayerEffect, InsertPlayerEffect, EndEffect DEF Report, Commit, Abort
    <3>3. FindResponse(h) => rep'[h].resp \in Stored(rep'[h].what) /\ rep'[h].at = "found"
      BY <3>1, FindResponseEffect
    <3>4. InsertInfo(h) => /\ Responding(h) /\ ~rep[h].fresh
                           /\ rep'[h].resp = rep[h].resp /\ rep'[h].what = rep[h].what
                           /\ rep[h].resp \in DOMAIN resps
      BY <3>1, InsertInfoEffect DEF Responding
    <3> QED BY <2>2, <3>2, <3>3, <3>4
  <2> QED BY <2>1, <2>2
<1>4. /\ DOMAIN resps \subseteq DOMAIN resps'
      /\ \A i \in DOMAIN resps : resps'[i] = resps[i]
      /\ \A i \in DOMAIN resps' \ DOMAIN resps :
           Commit(h) /\ rep[h].fresh /\ i = rep[h].resp /\ resps'[i].content = rep[h].what
  <2>1. CASE ~Commit(h)
    BY <2>1, ReportEffect
  <2>2. CASE Commit(h)
    <3>1. ~rep[h].fresh => rep[h].resp \in DOMAIN resps
      BY <2>2 DEF Commit, FoundOK, Responding
    <3>2. resps' = [i \in DOMAIN resps \cup {rep[h].resp} |->
                      IF i \in DOMAIN resps THEN resps[i] ELSE [content |-> rep[h].what, old |-> FALSE]]
      BY <2>2 DEF Commit
    <3> QED BY <2>2, <3>1, <3>2
  <2> QED BY <2>1, <2>2
<1> QED BY <1>0, <1>1, <1>2, <1>3, <1>4

(* What the programs do to responses. *)
LEMMA ProgramResps ==
  ASSUME VarsOK, ProgOK, TargetsOK, Programs
  PROVE  /\ \A h \in Handlers : /\ rep'[h].at = rep[h].at /\ rep'[h].what = rep[h].what
                                /\ rep'[h].fresh = rep[h].fresh /\ rep'[h].resp = rep[h].resp
         /\ \/ \E i \in DOMAIN tasks : MatchResponse(i)
            \/ /\ rseq' = rseq
               /\ \A j \in DOMAIN tasks' : Making(j)' =>
                    j \in DOMAIN tasks /\ Making(j) /\ tasks'[j].new = tasks[j].new
               /\ \/ resps' = resps
                  \/ \E i \in DOMAIN tasks : DeleteOld(i) \/ RemoveUnused(i)
<1>1. ASSUME NEW h \in Handlers
      PROVE  /\ rep'[h].at = rep[h].at /\ rep'[h].what = rep[h].what
             /\ rep'[h].fresh = rep[h].fresh /\ rep'[h].resp = rep[h].resp
  <2>1. rep' = rep \/ \E i \in DOMAIN tasks : MoveInfos(i) \/ MovePlayer(i)
    <3>1. \A i \in DOMAIN tasks : DeleteOld(i) \/ RemoveUnused(i) => rep' = rep
      BY DEF DeleteOld, RemoveUnused
    <3> QED BY <3>1, ProgramEffect
  <2> QED BY <2>1, ChunkEffect, CrossingEffect
<1> DEFINE Kept == \A j \in DOMAIN tasks' : Making(j)' =>
                     j \in DOMAIN tasks /\ Making(j) /\ tasks'[j].new = tasks[j].new
<1>3. ASSUME NEW i \in DOMAIN tasks, MoveInfos(i) \/ MovePlayer(i)
      PROVE  rseq' = rseq /\ resps' = resps /\ Kept
  <2>1. prog.name = "compact"
    BY <1>3, ChunkEffect DEF ProgOK
  <2> QED BY <1>3, <2>1, ChunkEffect DEF Making, TargetsOK
<1>4. ASSUME NEW i \in DOMAIN tasks, Repoint(i) PROVE rseq' = rseq /\ resps' = resps /\ Kept
  <2>1. rseq' = rseq /\ resps' = resps
    <3>1. UNCHANGED <<tables, seq, rseq, rep, prog, reports, runs, history>>
      BY <1>4, Zenon DEF Repoint
    <3> QED BY <3>1 DEF tables
  <2> QED BY <1>4, <2>1, RepointEffect DEF Making
<1>5. ASSUME NEW i \in DOMAIN tasks, DeleteOld(i) \/ RemoveUnused(i) \/ TaskFails(i)
      PROVE  rseq' = rseq /\ Kept
  <2>1. rseq' = rseq
    BY <1>5 DEF DeleteOld, RemoveUnused, TaskFails
  <2> QED BY <1>5, <2>1, TaskEndEffect DEF Making
<1>6. ASSUME NEW i \in DOMAIN tasks, TaskFails(i) PROVE resps' = resps
  BY <1>6 DEF TaskFails, tables
<1> HIDE DEF Kept
<1>7. \/ \E i \in DOMAIN tasks : MatchResponse(i)
      \/ /\ rseq' = rseq /\ Kept
         /\ resps' = resps \/ \E i \in DOMAIN tasks : DeleteOld(i) \/ RemoveUnused(i)
  <2>1. CASE CountPlayers \/ ListOld \/ ListUnused \/ Interrupt \/ WorkEnds \/ ListIds
             \/ MovesEnd \/ RestoreKey \/ SelectMax \/ ResetSequence \/ DropKey
    <3>1. rseq' = rseq /\ resps' = resps
      BY <2>1, NewTasksEffect
    <3>2. Kept
      BY <2>1, NewTasksEffect DEF Making, Kept
    <3> QED BY <3>1, <3>2
  <2>2. CASE \E i \in DOMAIN tasks : \/ MoveInfos(i) \/ MovePlayer(i)
                             \/ MatchResponse(i) \/ Repoint(i) \/ DeleteOld(i)
                             \/ RemoveUnused(i) \/ TaskFails(i)
    BY <1>3, <1>4, <1>5, <1>6, <2>2
  <2> QED BY <2>1, <2>2 DEF Programs
<1> USE DEF Kept
<1> QED BY <1>1, <1>7

(* What a task of reencode_others or remove_old that deletes does. *)
LEMMA DeleteEffect ==
  ASSUME VarsOK, ProgOK, TargetsOK, NEW i \in DOMAIN tasks, DeleteOld(i) \/ RemoveUnused(i)
  PROVE  /\ \A j \in DOMAIN resps \ {i} : j \in DOMAIN resps' /\ resps'[j] = resps[j]
         /\ \A j \in DOMAIN resps' \ DOMAIN resps :
              DeleteOld(i) /\ Making(i) /\ j = tasks[i].new /\ resps'[j].content = tasks[i].made
         /\ DeleteOld(i) => /\ prog.name = "reencode" /\ prog' = prog
                            /\ Making(i) => tasks[i].new \in DOMAIN resps'
         /\ \A j \in DOMAIN tasks : j # i /\ tasks[j].rows # {} => tasks[j].new # i
         /\ \A h \in Handlers : rep[h].at = "linked" => rep[h].resp # i
<1>1. CASE DeleteOld(i)
  <2>1. /\ tasks[i].at = "half" /\ ~Linked(i) /\ prog.name = "reencode" /\ prog' = prog
        /\ resps' = [j \in (DOMAIN resps \ {i}) \cup (IF tasks[i].made = None THEN {} ELSE {tasks[i].new}) |->
                        IF j \in DOMAIN resps THEN resps[j]
                        ELSE [content |-> tasks[i].made, old |-> FALSE]]
    BY <1>1 DEF DeleteOld
  <2>2. Making(i) <=> tasks[i].made # None
    BY <2>1 DEF Making
  <2>3. /\ \A j \in DOMAIN tasks : j # i /\ tasks[j].rows # {} => tasks[j].new # i
        /\ \A h \in Handlers : rep[h].at = "linked" => rep[h].resp # i
    BY <2>1 DEF Linked
  <2>4. \A j \in DOMAIN resps \ {i} : j \in DOMAIN resps' /\ resps'[j] = resps[j]
    BY <2>1
  <2>5. CASE tasks[i].made = None
    BY <1>1, <2>1, <2>2, <2>3, <2>4, <2>5
  <2>6. CASE tasks[i].made # None
    <3>1. resps' = [j \in (DOMAIN resps \ {i}) \cup {tasks[i].new} |->
                      IF j \in DOMAIN resps THEN resps[j]
                      ELSE [content |-> tasks[i].made, old |-> FALSE]]
      BY <2>1, <2>6
    <3> QED BY <1>1, <2>1, <2>2, <2>3, <2>4, <2>6, <3>1
  <2> QED BY <2>5, <2>6
<1>2. CASE RemoveUnused(i)
  <2>1. ~Linked(i) /\ resps' = [j \in DOMAIN resps \ {i} |-> resps[j]] /\ prog.name = "remove"
    BY <1>2 DEF RemoveUnused
  <2>2. ~DeleteOld(i)
    BY <2>1 DEF DeleteOld
  <2> QED BY <2>1, <2>2 DEF Linked
<1> QED BY <1>1, <1>2

(* Ids that are drawn stay free and different. *)
LEMMA FreshStep ==
  ASSUME VarsOK, RepsOK, ProgOK, FreshOK, FoundOK, TargetsOK, [Next]_vars PROVE FreshOK'
<1>0. /\ rseq \in Nat /\ DOMAIN resps \subseteq Nat
      /\ \A h \in Handlers : rep[h].resp \in Nat
      /\ \A i \in DOMAIN tasks : tasks[i].new \in Nat
  BY DEF VarsOK, RepRecord, RespId, TaskRecord
<1>1. ASSUME NEW h \in Handlers, Report(h) PROVE FreshOK'
  <2>1. tasks' = tasks /\ \A i \in DOMAIN tasks : Making(i)' <=> Making(i)
    BY <1>1, ReportEffect DEF Making
  <2>2. rseq' \in {rseq, rseq + 1}
    BY <1>1, ReportResps
  <2>3. ASSUME NEW g \in Handlers, rep'[g].fresh
        PROVE  \/ rep[g].fresh /\ rep'[g].resp = rep[g].resp
               \/ g = h /\ rep'[g].resp = rseq /\ rseq' = rseq + 1
    BY <1>1, <2>3, ReportResps
  <2>4. ASSUME NEW i \in DOMAIN resps'
        PROVE  i \in DOMAIN resps \/ (Commit(h) /\ rep[h].fresh /\ i = rep[h].resp)
    BY <1>1, <2>4, ReportResps
  <2>5. Commit(h) => ~rep'[h].fresh
    BY EndEffect DEF Commit
  <2>6. \A i \in DOMAIN resps' : i < rseq'
    BY <1>0, <2>2, <2>4 DEF FreshOK
  <2>7. ASSUME NEW g \in Handlers, rep'[g].fresh
        PROVE  rep'[g].resp < rseq' /\ rep'[g].resp \notin DOMAIN resps'
    <3>1. CASE rep[g].fresh /\ rep'[g].resp = rep[g].resp
      BY <1>0, <2>2, <2>4, <2>5, <2>7, <3>1 DEF FreshOK
    <3>2. CASE g = h /\ rep'[g].resp = rseq /\ rseq' = rseq + 1
      BY <1>0, <2>4, <2>5, <2>7, <3>2 DEF FreshOK
    <3> QED BY <2>3, <2>7, <3>1, <3>2
  <2>8. ASSUME NEW i \in DOMAIN tasks, Making(i) PROVE tasks[i].new < rseq' /\ tasks[i].new \notin DOMAIN resps'
    BY <1>0, <2>2, <2>4, <2>8 DEF FreshOK
  <2>9. ASSUME NEW f \in Handlers, NEW g \in Handlers, f # g, rep'[f].fresh, rep'[g].fresh
        PROVE  rep'[f].resp # rep'[g].resp
    BY <1>0, <2>3, <2>9 DEF FreshOK
  <2>10. ASSUME NEW g \in Handlers, NEW i \in DOMAIN tasks, rep'[g].fresh, Making(i)
         PROVE  rep'[g].resp # tasks[i].new
    BY <1>0, <2>3, <2>10 DEF FreshOK
  <2>11. \A i, j \in DOMAIN tasks : i # j /\ Making(i) /\ Making(j) => tasks[i].new # tasks[j].new
    BY DEF FreshOK
  <2> QED BY <2>1, <2>6, <2>7, <2>8, <2>9, <2>10, <2>11 DEF FreshOK
<1>2. CASE Programs
  <2>0. \A h \in Handlers : rep'[h].fresh = rep[h].fresh /\ rep'[h].resp = rep[h].resp
    BY <1>2, ProgramResps
  <2>1. ASSUME NEW i \in DOMAIN tasks, MatchResponse(i) PROVE FreshOK'
    <3>1. resps' = resps
      <4>1. UNCHANGED <<tables, seq, rep, prog, reports, runs, history>>
        BY <2>1, Zenon DEF MatchResponse
      <4> QED BY <4>1 DEF tables
    <3>2. /\ DOMAIN tasks' = DOMAIN tasks /\ rseq' \in {rseq, rseq + 1}
          /\ \A j \in DOMAIN tasks : Making(j)' =>
               \/ j # i /\ Making(j) /\ tasks'[j].new = tasks[j].new
               \/ j = i /\ tasks'[j].new = rseq /\ rseq' = rseq + 1
      <4>1. tasks[i].made = None
        BY <2>1, MatchEffect DEF TargetsOK, TargetOK
      <4> QED BY <1>0, <2>1, <4>1, MatchEffect DEF Making
    <3>3. \A j \in DOMAIN resps' : j < rseq'
      BY <1>0, <3>1, <3>2 DEF FreshOK
    <3>4. \A h \in Handlers : rep'[h].fresh => rep'[h].resp < rseq' /\ rep'[h].resp \notin DOMAIN resps'
      BY <1>0, <2>0, <3>1, <3>2 DEF FreshOK
    <3>5. ASSUME NEW j \in DOMAIN tasks, Making(j)'
          PROVE  tasks'[j].new < rseq' /\ tasks'[j].new \notin DOMAIN resps'
      BY <1>0, <3>1, <3>2, <3>5 DEF FreshOK
    <3>6. ASSUME NEW j \in DOMAIN tasks, NEW k \in DOMAIN tasks, j # k, Making(j)', Making(k)'
          PROVE  tasks'[j].new # tasks'[k].new
      BY <1>0, <3>2, <3>6 DEF FreshOK
    <3>7. ASSUME NEW h \in Handlers, NEW j \in DOMAIN tasks, rep'[h].fresh, Making(j)'
          PROVE  rep'[h].resp # tasks'[j].new
      BY <1>0, <2>0, <3>2, <3>7 DEF FreshOK
    <3>8. \A g, h \in Handlers : g # h /\ rep'[g].fresh /\ rep'[h].fresh => rep'[g].resp # rep'[h].resp
      BY <2>0 DEF FreshOK
    <3> QED BY <3>2, <3>3, <3>4, <3>5, <3>6, <3>7, <3>8 DEF FreshOK
  <2>2. ASSUME /\ rseq' = rseq
               /\ \A j \in DOMAIN tasks' : Making(j)' =>
                    j \in DOMAIN tasks /\ Making(j) /\ tasks'[j].new = tasks[j].new,
               \A j \in DOMAIN resps' \ DOMAIN resps :
                 \E i \in DOMAIN tasks : ~Making(i)' /\ Making(i) /\ j = tasks[i].new
        PROVE  FreshOK'
    <3>1. \A j \in DOMAIN resps' : j < rseq'
      BY <2>2 DEF FreshOK
    <3>2. \A h \in Handlers : rep'[h].fresh => rep'[h].resp < rseq' /\ rep'[h].resp \notin DOMAIN resps'
      BY <2>0, <2>2 DEF FreshOK
    <3>3. ASSUME NEW j \in DOMAIN tasks', Making(j)'
          PROVE  tasks'[j].new < rseq' /\ tasks'[j].new \notin DOMAIN resps'
      BY <2>2, <3>3 DEF FreshOK
    <3>4. ASSUME NEW j \in DOMAIN tasks', NEW k \in DOMAIN tasks', j # k, Making(j)', Making(k)'
          PROVE  tasks'[j].new # tasks'[k].new
      BY <2>2, <3>4 DEF FreshOK
    <3>5. ASSUME NEW h \in Handlers, NEW j \in DOMAIN tasks', rep'[h].fresh, Making(j)'
          PROVE  rep'[h].resp # tasks'[j].new
      BY <2>0, <2>2, <3>5 DEF FreshOK
    <3>6. \A g, h \in Handlers : g # h /\ rep'[g].fresh /\ rep'[h].fresh => rep'[g].resp # rep'[h].resp
      BY <2>0 DEF FreshOK
    <3> QED BY <3>1, <3>2, <3>3, <3>4, <3>5, <3>6 DEF FreshOK
  <2>3. ASSUME NEW i \in DOMAIN tasks, DeleteOld(i) \/ RemoveUnused(i)
        PROVE  /\ ~Making(i)'
               /\ \A j \in DOMAIN resps' \ DOMAIN resps : Making(i) /\ j = tasks[i].new
    BY <2>3, DeleteEffect, TaskEndEffect DEF Making
  <2> QED BY <1>2, <2>1, <2>2, <2>3, ProgramResps
<1>3. CASE UNCHANGED vars
  BY <1>3 DEF vars, tables, FreshOK, Making
<1> QED BY <1>1, <1>2, <1>3, StepCases

(* What reports have found stays what they look for. *)
LEMMA FoundStep ==
  ASSUME VarsOK, RepsOK, ProgOK, FreshOK, FoundOK, TargetsOK, [Next]_vars PROVE FoundOK'
<1>0. /\ rseq \in Nat /\ DOMAIN resps \subseteq Nat
      /\ \A h \in Handlers : rep[h].resp \in Nat
  BY DEF VarsOK, RepRecord, RespId
<1> DEFINE Found(h) ==
      /\ rep[h].resp < rseq
      /\ \A g \in Handlers : rep[g].fresh => rep[g].resp # rep[h].resp
      /\ \A i \in DOMAIN tasks : Making(i) => tasks[i].new # rep[h].resp
      /\ rep[h].resp \in DOMAIN resps => resps[rep[h].resp].content = rep[h].what
      /\ rep[h].at = "linked" => rep[h].resp \in DOMAIN resps
<1>1. ASSUME NEW h \in Handlers, Report(h) PROVE FoundOK'
  <2> SUFFICES ASSUME NEW g \in Handlers, Responding(g)', ~rep'[g].fresh PROVE Found(g)'
    BY DEF FoundOK
  <2>1. tasks' = tasks /\ \A i \in DOMAIN tasks : Making(i)' <=> Making(i)
    BY <1>1, ReportEffect DEF Making
  <2>2. rseq' \in {rseq, rseq + 1}
    BY <1>1, ReportResps
  <2>3. \A f \in Handlers : rep'[f].fresh =>
          \/ rep[f].fresh /\ rep'[f].resp = rep[f].resp
          \/ f = h /\ rep'[f].resp = rseq /\ rseq' = rseq + 1
    BY <1>1, ReportResps
  <2>4. /\ DOMAIN resps \subseteq DOMAIN resps'
        /\ \A i \in DOMAIN resps : resps'[i] = resps[i]
        /\ \A i \in DOMAIN resps' \ DOMAIN resps : rep[h].fresh /\ i = rep[h].resp
    BY <1>1, ReportResps
  <2>5. CASE /\ Responding(g) /\ ~rep[g].fresh
             /\ rep'[g].resp = rep[g].resp /\ rep'[g].what = rep[g].what
             /\ rep'[g].at = "linked" => rep[g].at = "linked" \/ rep[g].resp \in DOMAIN resps
    <3>1. Found(g)
      BY <2>5 DEF FoundOK
    <3>2. rep'[g].resp < rseq' /\ \A f \in Handlers : rep'[f].fresh => rep'[f].resp # rep'[g].resp
      BY <1>0, <2>2, <2>3, <2>5, <3>1
    <3>3. \A i \in DOMAIN tasks : Making(i) => tasks[i].new # rep'[g].resp
      BY <2>5, <3>1
    <3>4. rep'[g].resp \in DOMAIN resps' => resps'[rep'[g].resp].content = rep'[g].what
      BY <2>4, <2>5, <3>1
    <3>5. rep'[g].at = "linked" => rep'[g].resp \in DOMAIN resps'
      BY <2>4, <2>5, <3>1
    <3> QED BY <2>1, <3>2, <3>3, <3>4, <3>5
  <2>6. CASE rep'[g].resp \in Stored(rep'[g].what) /\ rep'[g].at = "found"
    <3>1. rep'[g].resp \in DOMAIN resps /\ resps[rep'[g].resp].content = rep'[g].what
      BY <2>6 DEF Stored
    <3>2. rep'[g].resp < rseq' /\ \A f \in Handlers : rep'[f].fresh => rep'[f].resp # rep'[g].resp
      BY <1>0, <2>2, <2>3, <3>1 DEF FreshOK
    <3>3. \A i \in DOMAIN tasks : Making(i) => tasks[i].new # rep'[g].resp
      BY <3>1 DEF FreshOK
    <3> QED BY <2>1, <2>4, <2>6, <3>1, <3>2, <3>3
  <2> HIDE DEF Found
  <2> QED BY <1>1, <2>5, <2>6, ReportResps
<1>2. CASE Programs
  <2> SUFFICES ASSUME NEW g \in Handlers, Responding(g)', ~rep'[g].fresh PROVE Found(g)'
    BY DEF FoundOK
  <2>0. \A h \in Handlers : /\ rep'[h].at = rep[h].at /\ rep'[h].what = rep[h].what
                            /\ rep'[h].fresh = rep[h].fresh /\ rep'[h].resp = rep[h].resp
    BY <1>2, ProgramResps
  <2>a. Found(g)
    BY <2>0 DEF FoundOK, Responding
  <2>1. ASSUME NEW i \in DOMAIN tasks, MatchResponse(i) PROVE Found(g)'
    <3>1. resps' = resps
      <4>1. UNCHANGED <<tables, seq, rep, prog, reports, runs, history>>
        BY <2>1, Zenon DEF MatchResponse
      <4> QED BY <4>1 DEF tables
    <3>2. /\ DOMAIN tasks' = DOMAIN tasks /\ rseq' \in {rseq, rseq + 1}
          /\ \A j \in DOMAIN tasks : Making(j)' =>
               (Making(j) /\ tasks'[j].new = tasks[j].new) \/ tasks'[j].new = rseq
      <4>1. tasks[i].made = None
        BY <2>1, MatchEffect DEF TargetsOK, TargetOK
      <4> QED BY <1>0, <2>1, <4>1, MatchEffect DEF Making
    <3> QED BY <1>0, <2>0, <2>a, <3>1, <3>2
  <2>2. ASSUME /\ rseq' = rseq
               /\ \A j \in DOMAIN tasks' : Making(j)' =>
                    j \in DOMAIN tasks /\ Making(j) /\ tasks'[j].new = tasks[j].new,
               resps' = resps
        PROVE  Found(g)'
    BY <2>0, <2>2, <2>a
  <2>3. ASSUME NEW i \in DOMAIN tasks, DeleteOld(i) \/ RemoveUnused(i),
               /\ rseq' = rseq
               /\ \A j \in DOMAIN tasks' : Making(j)' =>
                    j \in DOMAIN tasks /\ Making(j) /\ tasks'[j].new = tasks[j].new
        PROVE  Found(g)'
    <3>1. /\ \A j \in DOMAIN resps \ {i} : j \in DOMAIN resps' /\ resps'[j] = resps[j]
          /\ \A j \in DOMAIN resps' \ DOMAIN resps : Making(i) /\ j = tasks[i].new
          /\ rep[g].at = "linked" => rep[g].resp # i
      BY <2>3, DeleteEffect
    <3>2. i \in DOMAIN resps' => i \notin DOMAIN resps \/ resps'[i] = resps[i]
      BY <2>3 DEF DeleteOld, RemoveUnused
    <3>3. rep[g].resp \in DOMAIN resps' =>
            rep[g].resp \in DOMAIN resps /\ resps'[rep[g].resp] = resps[rep[g].resp]
      BY <2>a, <3>1, <3>2
    <3> QED BY <2>0, <2>3, <2>a, <3>1, <3>3
  <2> HIDE DEF Found
  <2> QED BY <1>2, <2>1, <2>2, <2>3, ProgramResps
<1>3. CASE UNCHANGED vars
  BY <1>3 DEF vars, tables, FoundOK, Responding, Making
<1> QED BY <1>1, <1>2, <1>3, StepCases

(* What takes the place of an old response means the same. *)
LEMMA TargetsStep ==
  ASSUME VarsOK, RepsOK, ProgOK, FreshOK, FoundOK, TargetsOK, [Next]_vars PROVE TargetsOK'
<1>0. /\ rseq \in Nat /\ DOMAIN resps \subseteq 1..MaxResp /\ DOMAIN resps \subseteq Nat
      /\ \A h \in Handlers : rep[h].resp \in Nat
      /\ \A i \in DOMAIN tasks : tasks[i].new \in Nat
  BY DEF VarsOK, RepRecord, RespId, TaskRecord
<1>1. ASSUME NEW h \in Handlers, Report(h) PROVE TargetsOK'
  <2>1. tasks' = tasks /\ prog'.name = prog.name /\ \A i \in DOMAIN tasks : Making(i)' <=> Making(i)
    BY <1>1, ReportEffect DEF Making
  <2>2. rseq' \in {rseq, rseq + 1} /\ infos \subseteq infos'
    <3>1. Commit(h) => infos \subseteq infos'
      BY DEF Commit
    <3>2. ~Commit(h) => infos' = infos
      BY <1>1, ReportEffect
    <3> QED BY <1>1, <3>1, <3>2, ReportResps
  <2>3. \A f \in Handlers : rep'[f].fresh =>
          \/ rep[f].fresh /\ rep'[f].resp = rep[f].resp
          \/ f = h /\ rep'[f].resp = rseq
    BY <1>1, ReportResps
  <2>4. /\ DOMAIN resps \subseteq DOMAIN resps'
        /\ \A i \in DOMAIN resps : resps'[i] = resps[i]
        /\ \A i \in DOMAIN resps' \ DOMAIN resps : rep[h].fresh /\ i = rep[h].resp
    BY <1>1, ReportResps
  <2>5. ASSUME prog.name = "reencode", NEW i \in DOMAIN tasks PROVE TargetOK(i)'
    <3>1. TargetOK(i)
      BY <2>5 DEF TargetsOK
    <3>2. tasks[i].at \in {"matched", "half"} => i \in DOMAIN resps /\ tasks[i].new < rseq'
      BY <1>0, <2>2, <3>1 DEF TargetOK
    <3>3. ASSUME tasks[i].at \in {"matched", "half"}, tasks[i].made = None
          PROVE  /\ \A f \in Handlers : rep'[f].fresh => rep'[f].resp # tasks[i].new
                 /\ tasks[i].new \in DOMAIN resps' => tasks[i].new \in DOMAIN resps
      BY <1>0, <2>3, <2>4, <3>1, <3>3 DEF TargetOK
    <3> QED BY <2>1, <2>2, <2>4, <3>1, <3>2, <3>3 DEF TargetOK
  <2> QED BY <2>1, <2>5 DEF TargetsOK
<1>2. CASE Programs
  <2>0. \A h \in Handlers : rep'[h].fresh = rep[h].fresh /\ rep'[h].resp = rep[h].resp
    BY <1>2, ProgramResps
  <2>1. CASE CountPlayers \/ ListOld \/ ListUnused \/ Interrupt \/ WorkEnds \/ ListIds
             \/ MovesEnd \/ RestoreKey \/ SelectMax \/ ResetSequence \/ DropKey
    <3>1. resps' = resps
      BY <2>1, NewTasksEffect
    <3>2. CASE tasks' = tasks /\ prog.name = "compact" /\ prog'.name = "compact"
      BY <3>2 DEF TargetsOK
    <3>3. CASE /\ prog'.name = "reencode" => DOMAIN tasks' \subseteq DOMAIN resps
               /\ \A i \in DOMAIN tasks' :
                    tasks'[i].made = None /\ tasks'[i].rows = {} /\ tasks'[i].at = "todo"
      BY <3>1, <3>3 DEF TargetsOK, TargetOK
    <3> QED BY <2>1, <3>2, <3>3, NewTasksEffect
  <2>2. ASSUME NEW i \in DOMAIN tasks, MoveInfos(i) \/ MovePlayer(i) PROVE TargetsOK'
    <3>1. prog.name = "compact" /\ prog' = prog /\ DOMAIN tasks' = DOMAIN tasks
          /\ \A j \in DOMAIN tasks : tasks'[j].made = tasks[j].made
      BY <2>2, ChunkEffect DEF ProgOK
    <3> QED BY <3>1 DEF TargetsOK
  <2>3. ASSUME NEW i \in DOMAIN tasks, MatchResponse(i) PROVE TargetsOK'
    <3>1. resps' = resps /\ infos' = infos /\ prog' = prog /\ prog.name = "reencode"
      <4>1. UNCHANGED <<tables, seq, rep, prog, reports, runs, history>>
        BY <2>3, Zenon DEF MatchResponse
      <4>2. prog.name = "reencode"
        BY <2>3, MatchEffect
      <4> QED BY <4>1, <4>2 DEF tables
    <3>2. TargetOK(i) /\ tasks[i].made = None /\ tasks[i].at = "todo" /\ tasks[i].rows = {}
      BY <2>3, <3>1, MatchEffect DEF TargetsOK, TargetOK
    <3>3. /\ DOMAIN tasks' = DOMAIN tasks /\ rseq' \in {rseq, rseq + 1}
          /\ \A j \in DOMAIN tasks : Making(j)' =>
               (Making(j) /\ tasks'[j].new = tasks[j].new) \/ tasks'[j].new = rseq
          /\ \A j \in DOMAIN tasks \ {i} : tasks'[j] = tasks[j]
          /\ tasks'[i].rows = {}
      BY <1>0, <2>3, <3>2, MatchEffect DEF Making
    <3>4. ASSUME NEW j \in DOMAIN tasks, j # i PROVE TargetOK(j)'
      <4>1. TargetOK(j) /\ tasks'[j] = tasks[j]
        BY <3>1, <3>3, <3>4 DEF TargetsOK
      <4>2. tasks[j].at \in {"matched", "half"} => tasks[j].new < rseq'
        BY <1>0, <3>3, <4>1 DEF TargetOK
      <4>3. ASSUME tasks[j].at \in {"matched", "half"}, tasks[j].made = None
            PROVE  \A k \in DOMAIN tasks : Making(k)' => tasks'[k].new # tasks[j].new
        BY <1>0, <3>3, <4>1, <4>3 DEF TargetOK
      <4> QED BY <2>0, <3>1, <3>3, <4>1, <4>2, <4>3 DEF TargetOK
    <3>5. TargetOK(i)'
      <4>1. PICK c \in Encoded :
              /\ MeaningOf[c] = MeaningOf[resps[i].content]
              /\ \/ /\ tasks'[i].new \in Stored(c) /\ tasks'[i].made = tasks[i].made /\ rseq' = rseq
                    /\ tasks'[i].at = (IF tasks'[i].new = i THEN "done" ELSE "matched")
                 \/ /\ tasks'[i].at = "matched" /\ tasks'[i].new = rseq /\ tasks'[i].made = c
                    /\ rseq <= MaxResp /\ rseq' = rseq + 1
        BY <2>3, MatchEffect
      <4>2. CASE /\ tasks'[i].new \in Stored(c) /\ tasks'[i].made = tasks[i].made /\ rseq' = rseq
                 /\ tasks'[i].at = (IF tasks'[i].new = i THEN "done" ELSE "matched")
        <5>1. tasks'[i].new \in DOMAIN resps /\ resps[tasks'[i].new].content = c
          BY <4>2 DEF Stored
        <5>2. /\ tasks'[i].new \in 1..MaxResp /\ tasks'[i].new < rseq
              /\ \A h \in Handlers : rep[h].fresh => rep[h].resp # tasks'[i].new
          BY <1>0, <5>1 DEF FreshOK
        <5>3. \A j \in DOMAIN tasks : Making(j)' => tasks'[j].new # tasks'[i].new
          BY <1>0, <3>3, <5>1, <5>2 DEF FreshOK
        <5>4. tasks'[i].made = None /\ tasks'[i].at \in {"done", "matched"} /\ i \in DOMAIN resps
              /\ (tasks'[i].at = "matched" => tasks'[i].new # i)
          BY <3>2, <4>2 DEF TargetOK
        <5> QED BY <2>0, <3>1, <3>3, <4>1, <4>2, <5>1, <5>2, <5>3, <5>4 DEF TargetOK
      <4>3. CASE /\ tasks'[i].at = "matched" /\ tasks'[i].new = rseq /\ tasks'[i].made = c
                 /\ rseq <= MaxResp /\ rseq' = rseq + 1
        <5>1. i \in DOMAIN resps /\ c # None /\ rseq # i
          BY <1>0, <3>2 DEF TargetOK, FreshOK
        <5>2. rseq \in 1..MaxResp /\ rseq < rseq'
          BY <1>0, <4>3 DEF VarsOK
        <5> QED BY <3>1, <3>3, <4>1, <4>3, <5>1, <5>2 DEF TargetOK
      <4> QED BY <4>1, <4>2, <4>3
    <3> QED BY <3>1, <3>3, <3>4, <3>5 DEF TargetsOK
  <2>4. ASSUME NEW i \in DOMAIN tasks, Repoint(i) PROVE TargetsOK'
    <3>1. /\ resps' = resps /\ infos' = infos /\ prog' = prog /\ rseq' = rseq
          /\ prog.name = "reencode" /\ tasks[i].at = "matched" /\ DOMAIN tasks' = DOMAIN tasks
      <4>1. UNCHANGED <<tables, seq, rseq, rep, prog, reports, runs, history>>
        BY <2>4, Zenon DEF Repoint
      <4> QED BY <2>4, <4>1, RepointEffect DEF tables
    <3>2. \A j \in DOMAIN tasks : /\ Making(j)' <=> Making(j)
                                 /\ tasks'[j].new = tasks[j].new /\ tasks'[j].made = tasks[j].made
      BY <2>4, <3>1, RepointEffect DEF Making
    <3>3. ASSUME NEW j \in DOMAIN tasks, j # i PROVE TargetOK(j)'
      <4>1. TargetOK(j) /\ tasks'[j] = tasks[j]
        BY <2>4, <3>1, <3>3, RepointEffect DEF TargetsOK
      <4> QED BY <2>0, <3>1, <3>2, <4>1 DEF TargetOK
    <3>4. TargetOK(i)'
      <4>1. TargetOK(i)
        BY <3>1 DEF TargetsOK
      <4>2. /\ tasks'[i].at = "half" /\ tasks'[i].rows = {r \in infos : r.resp = i}
            /\ tasks'[i].rows = {} \/ tasks[i].made # None \/ tasks[i].new \in DOMAIN resps
        BY <2>4, RepointEffect
      <4> QED BY <2>0, <3>1, <3>2, <4>1, <4>2 DEF TargetOK
    <3> QED BY <3>1, <3>3, <3>4 DEF TargetsOK
  <2>5. ASSUME NEW i \in DOMAIN tasks, TaskFails(i) PROVE TargetsOK'
    <3>1. /\ resps' = resps /\ infos' = infos /\ prog' = prog /\ rseq' = rseq
          /\ DOMAIN tasks' = DOMAIN tasks
          /\ \A j \in DOMAIN tasks \ {i} : tasks'[j] = tasks[j]
          /\ tasks'[i].at \in {"done", "failed"} /\ tasks'[i].rows = {} /\ tasks'[i].made = tasks[i].made
      <4>1. UNCHANGED <<tables, seq, rseq, rep, prog, reports, runs, history>>
        BY <2>5, Zenon DEF TaskFails
      <4>2. tasks'[i].rows = {}
        <5>1. tasks[i] \in TaskRecord
          BY DEF VarsOK
        <5> QED BY <2>5, <5>1 DEF TaskFails, TaskRecord, VarsOK
      <4> QED BY <2>5, <4>1, <4>2, TaskEndEffect DEF tables
    <3>2. \A j \in DOMAIN tasks : Making(j)' => Making(j) /\ tasks'[j].new = tasks[j].new
      BY <3>1 DEF Making
    <3>3. ASSUME prog.name = "reencode", NEW j \in DOMAIN tasks PROVE TargetOK(j)'
      <4>1. TargetOK(j)
        BY <3>3 DEF TargetsOK
      <4>2. CASE j = i
        BY <3>1, <4>1, <4>2 DEF TargetOK
      <4>3. CASE j # i
        <5>1. tasks'[j] = tasks[j]
          BY <3>1, <4>3
        <5> QED BY <2>0, <3>1, <3>2, <4>1, <5>1 DEF TargetOK
      <4> QED BY <4>2, <4>3
    <3> QED BY <3>1, <3>3 DEF TargetsOK
  <2>6. ASSUME NEW i \in DOMAIN tasks, RemoveUnused(i) PROVE TargetsOK'
    <3>1. prog' = prog /\ prog.name = "remove"
      BY <2>6 DEF RemoveUnused
    <3>2. DOMAIN tasks' = DOMAIN tasks /\ \A j \in DOMAIN tasks : tasks'[j].made = tasks[j].made
          /\ (tasks'[j].rows = {} \/ tasks'[j].rows = tasks[j].rows)
      BY <2>6, TaskEndEffect
    <3> QED BY <3>1, <3>2 DEF TargetsOK
  <2>7. ASSUME NEW i \in DOMAIN tasks, DeleteOld(i) PROVE TargetsOK'
    <3>1. /\ prog' = prog /\ prog.name = "reencode" /\ rseq' = rseq
          /\ infos' = (infos \ tasks[i].rows) \cup {[r EXCEPT !.resp = tasks[i].new] : r \in tasks[i].rows}
          /\ tasks'[i].rows = {}
      <4>1. tasks'[i].rows = {}
        <5>1. ~RemoveUnused(i)
          BY <2>7 DEF DeleteOld, RemoveUnused
        <5> QED BY <2>7, <5>1, TaskEndEffect
      <4> QED BY <2>7, <4>1 DEF DeleteOld
    <3>2. /\ DOMAIN tasks' = DOMAIN tasks /\ \A j \in DOMAIN tasks \ {i} : tasks'[j] = tasks[j]
          /\ tasks'[i].at \in {"done", "failed"} /\ tasks'[i].made = tasks[i].made
      BY <2>7, TaskEndEffect
    <3>3. /\ \A j \in DOMAIN resps \ {i} : j \in DOMAIN resps' /\ resps'[j] = resps[j]
          /\ \A j \in DOMAIN resps' \ DOMAIN resps : Making(i) /\ j = tasks[i].new
          /\ \A j \in DOMAIN tasks : j # i /\ tasks[j].rows # {} => tasks[j].new # i
      BY <2>7, DeleteEffect
    <3>4. i \in DOMAIN resps' => i \notin DOMAIN resps \/ resps'[i] = resps[i]
      BY <2>7 DEF DeleteOld
    <3>5. \A j \in DOMAIN tasks : Making(j)' => Making(j) /\ tasks'[j].new = tasks[j].new
      BY <3>2 DEF Making
    <3>6. TargetOK(i)'
      BY <3>1, <3>2 DEF TargetOK
    <3>7. ASSUME NEW j \in DOMAIN tasks, j # i PROVE TargetOK(j)'
      <4>1. TargetOK(j) /\ TargetOK(i) /\ tasks'[j] = tasks[j]
        BY <3>1, <3>2, <3>7 DEF TargetsOK
      <4>2. tasks[j].rows \subseteq {r \in infos' : r.resp = j}
        BY <3>1, <3>7, <4>1 DEF TargetOK
      <4>3. tasks[j].at \in {"todo", "matched", "half"} => j \in DOMAIN resps' /\ resps'[j] = resps[j]
        BY <3>3, <3>7, <4>1 DEF TargetOK
      <4>4. ASSUME tasks[j].at \in {"matched", "half"}, tasks[j].made = None
            PROVE  /\ \A h \in Handlers : rep'[h].fresh => rep'[h].resp # tasks[j].new
                   /\ \A k \in DOMAIN tasks : Making(k)' => tasks'[k].new # tasks[j].new
                   /\ tasks[j].new \in DOMAIN resps' =>
                        MeaningOf[resps'[tasks[j].new].content] = MeaningOf[resps'[j].content]
                   /\ tasks[j].rows # {} => tasks[j].new \in DOMAIN resps'
        <5>1. tasks[j].new \in DOMAIN resps' =>
                tasks[j].new \in DOMAIN resps /\ resps'[tasks[j].new] = resps[tasks[j].new]
          BY <3>3, <3>4, <4>1, <4>4 DEF TargetOK
        <5>2. tasks[j].rows # {} => tasks[j].new \in DOMAIN resps'
          BY <3>3, <3>7, <4>1, <4>4 DEF TargetOK
        <5> QED BY <2>0, <3>5, <4>1, <4>3, <4>4, <5>1, <5>2 DEF TargetOK
      <4> QED BY <3>1, <3>2, <4>1, <4>2, <4>3, <4>4 DEF TargetOK
    <3> QED BY <3>1, <3>2, <3>6, <3>7 DEF TargetsOK
  <2> QED BY <1>2, <2>1, <2>2, <2>3, <2>4, <2>5, <2>6, <2>7 DEF Programs
<1>3. CASE UNCHANGED vars
  BY <1>3 DEF vars, tables, TargetsOK, TargetOK, Making
<1> QED BY <1>1, <1>2, <1>3, StepCases

(* An entry keeps a response that means what was reported. *)
LEMMA ResponseHistoryStep ==
  ASSUME VarsOK, RepsOK, ProgOK, MovesOK, RespsInv, [Next]_vars PROVE HistoryKeepsItsResponse'
<1>0. /\ FreshOK /\ FoundOK /\ TargetsOK /\ HistoryKeepsItsResponse
      /\ infos \subseteq Row
  BY DEF RespsInv, VarsOK
<1>1. ASSUME NEW h \in Handlers, Report(h) PROVE HistoryKeepsItsResponse'
  <2>1. /\ DOMAIN resps \subseteq DOMAIN resps'
        /\ \A i \in DOMAIN resps : resps'[i] = resps[i]
        /\ \A i \in DOMAIN resps' \ DOMAIN resps : resps'[i].content = rep[h].what
    BY <1>0, <1>1, ReportResps
  <2>2. \A r \in infos : /\ r.resp \in DOMAIN resps'
                         /\ MeaningOf[resps'[r.resp].content] = MeaningOf[r.what]
    BY <1>0, <2>1 DEF HistoryKeepsItsResponse
  <2>3. CASE ~Commit(h)
    <3>1. infos' = infos
      BY <1>1, <2>3, ReportEffect
    <3> QED BY <2>2, <3>1 DEF HistoryKeepsItsResponse
  <2>4. CASE Commit(h)
    <3>1. rep[h].resp \in DOMAIN resps' /\ rep[h].at = "linked"
      BY <2>4 DEF Commit
    <3>2. rep[h].resp \in DOMAIN resps => rep[h].fresh \/ resps[rep[h].resp].content = rep[h].what
      BY <1>0, <3>1 DEF FoundOK, Responding
    <3>3. rep[h].fresh => rep[h].resp \notin DOMAIN resps
      BY <1>0 DEF FreshOK
    <3>4. resps'[rep[h].resp].content = rep[h].what
      BY <2>1, <3>1, <3>2, <3>3
    <3>5. \A r \in infos' \ infos : r.resp = rep[h].resp /\ r.what = rep[h].what
      BY <2>4 DEF Commit
    <3> QED BY <2>2, <3>1, <3>4, <3>5 DEF HistoryKeepsItsResponse
  <2> QED BY <2>3, <2>4
<1>2. CASE Programs
  <2>1. CASE infos' = infos /\ resps' = resps
    BY <1>0, <2>1 DEF HistoryKeepsItsResponse
  <2>2. ASSUME NEW i \in DOMAIN tasks, MoveInfos(i) PROVE infos' = infos /\ resps' = resps
    <3>1. UNCHANGED <<tables, seq, rseq, prog, reports, runs, history>>
      BY <2>2, Zenon DEF MoveInfos
    <3> QED BY <3>1 DEF tables
  <2>3. ASSUME NEW i \in DOMAIN tasks, MovePlayer(i) PROVE HistoryKeepsItsResponse'
    <3>1. /\ resps' = resps /\ tasks[i].rows \subseteq infos
          /\ infos' = (infos \ tasks[i].rows) \cup {[r EXCEPT !.pid = tasks[i].new] : r \in tasks[i].rows}
      BY <2>3 DEF MovePlayer, MovesOK, MoveOK, ProgOK
    <3>2. ASSUME NEW m \in {[r EXCEPT !.pid = tasks[i].new] : r \in tasks[i].rows}
          PROVE  \E r \in infos : m.resp = r.resp /\ m.what = r.what
      <4>1. PICK r \in tasks[i].rows : m = [r EXCEPT !.pid = tasks[i].new]
        OBVIOUS
      <4>2. r \in infos /\ r \in Row
        BY <1>0, <3>1
      <4> QED BY <4>1, <4>2 DEF Row
    <3>3. \A m \in infos' : m \in infos \/ m \in {[r EXCEPT !.pid = tasks[i].new] : r \in tasks[i].rows}
      BY <3>1
    <3> QED BY <1>0, <3>1, <3>2, <3>3 DEF HistoryKeepsItsResponse
  <2>4. ASSUME NEW i \in DOMAIN tasks, DeleteOld(i) PROVE HistoryKeepsItsResponse'
    <3>1. /\ TargetOK(i) /\ tasks[i].at = "half" /\ ~Referenced(i, tasks[i].rows)
          /\ infos' = (infos \ tasks[i].rows) \cup {[r EXCEPT !.resp = tasks[i].new] : r \in tasks[i].rows}
      BY <1>0, <2>4 DEF DeleteOld, TargetsOK
    <3>2. /\ \A j \in DOMAIN resps \ {i} : j \in DOMAIN resps' /\ resps'[j] = resps[j]
          /\ \A j \in DOMAIN resps' \ DOMAIN resps :
               Making(i) /\ j = tasks[i].new /\ resps'[j].content = tasks[i].made
          /\ Making(i) => tasks[i].new \in DOMAIN resps'
      BY <1>0, <2>4, DeleteEffect
    <3>3. ASSUME NEW r \in infos \ tasks[i].rows
          PROVE  r.resp \in DOMAIN resps' /\ MeaningOf[resps'[r.resp].content] = MeaningOf[r.what]
      <4>1. r.resp # i
        BY <3>1 DEF Referenced
      <4> QED BY <1>0, <3>2, <4>1 DEF HistoryKeepsItsResponse
    <3>4. ASSUME NEW r \in tasks[i].rows
          PROVE  /\ tasks[i].new \in DOMAIN resps'
                 /\ MeaningOf[resps'[tasks[i].new].content] = MeaningOf[r.what]
      <4>1. r \in infos /\ r.resp = i /\ MeaningOf[resps[i].content] = MeaningOf[r.what]
        BY <1>0, <3>1 DEF TargetOK, HistoryKeepsItsResponse
      <4>2. CASE tasks[i].made # None
        <5>1. Making(i)
          BY <3>1, <4>2 DEF Making
        <5>2. tasks[i].new \in DOMAIN resps' \ DOMAIN resps
          BY <1>0, <3>2, <5>1 DEF FreshOK
        <5>3. MeaningOf[tasks[i].made] = MeaningOf[resps[i].content]
          BY <3>1, <4>2 DEF TargetOK
        <5> QED BY <3>2, <4>1, <5>2, <5>3
      <4>3. CASE tasks[i].made = None
        <5>1. /\ tasks[i].new \in DOMAIN resps \ {i}
              /\ MeaningOf[resps[tasks[i].new].content] = MeaningOf[resps[i].content]
          BY <3>1, <4>3 DEF TargetOK
        <5> QED BY <3>2, <4>1, <5>1
      <4> QED BY <4>2, <4>3
    <3>5. ASSUME NEW m \in {[r EXCEPT !.resp = tasks[i].new] : r \in tasks[i].rows}
          PROVE  m.resp \in DOMAIN resps' /\ MeaningOf[resps'[m.resp].content] = MeaningOf[m.what]
      <4>1. PICK r \in tasks[i].rows : m = [r EXCEPT !.resp = tasks[i].new]
        OBVIOUS
      <4>2. r \in Row
        BY <1>0, <3>1 DEF TargetOK
      <4>3. m.resp = tasks[i].new /\ m.what = r.what
        BY <4>1, <4>2 DEF Row
      <4> QED BY <3>4, <4>3
    <3>6. \A m \in infos' : m \in infos \ tasks[i].rows
                            \/ m \in {[r EXCEPT !.resp = tasks[i].new] : r \in tasks[i].rows}
      BY <3>1
    <3> QED BY <3>3, <3>5, <3>6 DEF HistoryKeepsItsResponse
  <2>5. ASSUME NEW i \in DOMAIN tasks, RemoveUnused(i) PROVE HistoryKeepsItsResponse'
    <3>1. infos' = infos /\ \A r \in infos : r.resp # i
      BY <2>5 DEF RemoveUnused, Referenced
    <3>2. \A j \in DOMAIN resps \ {i} : j \in DOMAIN resps' /\ resps'[j] = resps[j]
      BY <1>0, <2>5, DeleteEffect
    <3> QED BY <1>0, <3>1, <3>2 DEF HistoryKeepsItsResponse
  <2> QED BY <1>2, <2>1, <2>2, <2>3, <2>4, <2>5, ProgramEffect
<1>3. CASE UNCHANGED vars
  BY <1>0, <1>3 DEF vars, tables, HistoryKeepsItsResponse
<1> QED BY <1>1, <1>2, <1>3, StepCases

-----------------------------------------------------------------------------
(* Theorems *)

(* The invariant holds at the start, with any players and responses. *)
LEMMA AtStart == Init => IInv
<1> SUFFICES ASSUME Init PROVE IInv
  OBVIOUS
<1>0. /\ StartPids \subseteq 1..(MaxPid - 1) /\ StartPids # {} /\ StartResps \in 1..MaxResp
      /\ StartRows \subseteq RespRecord
  BY MaintenanceAssumption DEF RespRecord
<1>1. /\ player \in [Names -> StartPids \cup {0}]
      /\ \A m, n \in Names : m # n /\ player[m] # 0 => player[m] # player[n]
      /\ resps \in [1..StartResps -> StartRows] /\ fk = TRUE /\ rseq = StartResps + 1
      /\ prog = Stopped /\ tasks = NoTasks /\ reports = 0 /\ runs = 0
      /\ broken = FALSE /\ raced = FALSE /\ rep = [h \in Handlers |-> Idle]
  BY DEF Init
<1>2. PICK last \in [Names -> 1..StartResps] :
        infos = {[no |-> 0, pid |-> player[n], resp |-> last[n], of |-> n,
                  what |-> resps[last[n]].content, crossed |-> FALSE] :
                   n \in {m \in Names : player[m] # 0}}
  BY DEF Init
<1>3. PICK p \in StartPids : IsLargest(p, StartPids) /\ seq = p + 1
  BY DEF Init
<1>4. player \in [Names -> Pid] /\ PidsInUse \subseteq StartPids /\ seq \in 1..MaxPid + 1
      /\ \A q \in PidsInUse : q < seq
  <2>1. \A q \in StartPids : q \in 1..MaxPid /\ q # 0
    BY <1>0
  <2>2. player \in [Names -> Pid]
    BY <1>1, <2>1 DEF Pid
  <2>3. PidsInUse \subseteq StartPids
    BY <1>1 DEF PidsInUse
  <2>4. p \in 1..(MaxPid - 1) /\ seq = p + 1 /\ \A q \in StartPids : q <= p
    BY <1>0, <1>3 DEF IsLargest
  <2>5. seq \in 1..MaxPid + 1
    BY <2>4
  <2>6. \A q \in StartPids : q < seq
    BY <2>1, <2>4
  <2> QED BY <2>2, <2>3, <2>5, <2>6
<1>5. ASSUME NEW r \in infos
      PROVE  /\ r \in Row /\ player[r.of] = r.pid /\ r.pid \in PidsInUse
             /\ r.resp \in DOMAIN resps /\ resps[r.resp].content = r.what
  <2>1. PICK n \in Names : /\ player[n] # 0
                           /\ r = [no |-> 0, pid |-> player[n], resp |-> last[n], of |-> n,
                                   what |-> resps[last[n]].content, crossed |-> FALSE]
    BY <1>2
  <2>2. player[n] \in 1..MaxPid /\ player[n] \in PidsInUse
    <3>1. player[n] \in PidsInUse
      BY <2>1 DEF PidsInUse
    <3>2. player[n] \in Pid
      BY <1>4
    <3> QED BY <2>1, <3>1, <3>2 DEF Pid
  <2>3. last[n] \in DOMAIN resps /\ last[n] \in 1..MaxResp /\ resps[last[n]].content \in Contents
    BY <1>0, <1>1, <1>2 DEF RespRecord
  <2> QED BY <2>1, <2>2, <2>3 DEF Row
<1>6. ASSUME NEW h \in Handlers PROVE rep[h].at = "idle" /\ ~rep[h].new /\ ~rep[h].fresh /\ rep[h].holds = None
  BY <1>1 DEF Idle
<1>7. prog.at = "stopped" /\ prog.name = None /\ DOMAIN tasks = {}
  BY <1>1, ProgramLabels
<1>8. VarsOK
  <2>1. infos \subseteq Row
    BY <1>5
  <2>2. resps \in [DOMAIN resps -> RespRecord] /\ DOMAIN resps \subseteq 1..MaxResp
    BY <1>0, <1>1
  <2>3. rep \in [Handlers -> RepRecord] /\ prog \in ProgRecord /\ tasks \in [DOMAIN tasks -> TaskRecord]
    BY <1>1, <1>7, Records
  <2>4. rseq \in 1..MaxResp + 1
    BY <1>0, <1>1
  <2>5. reports \in 0..MaxReports /\ runs \in 0..MaxRuns
    BY <1>1
  <2>6. fk \in BOOLEAN /\ broken \in BOOLEAN /\ raced \in BOOLEAN /\ DOMAIN tasks \subseteq Nat
    BY <1>1, <1>7
  <2> QED BY <1>4, <2>1, <2>2, <2>3, <2>4, <2>5, <2>6 DEF VarsOK
<1>9. RepsOK
  BY <1>6 DEF RepsOK, RepOK, Active, Writing, Responding
<1>10. ProgOK
  BY <1>7, ProgramLabels DEF ProgOK
<1>11. NewOnesOK /\ MovesOK /\ ReportsKeepPlayer
  BY <1>1, <1>6, <1>7 DEF NewOnesOK, MovesOK, ReportsKeepPlayer, Active, Writing
<1>12. HistoryKeepsItsPlayer /\ KeyOK
  BY <1>1, <1>5, <1>6, <1>7 DEF HistoryKeepsItsPlayer, KeyOK, ForeignKeyComesBack
<1>13. SequenceOK
  BY <1>4, <1>6, <1>7 DEF SequenceOK, FreshIdsAreFree
<1>14. FreshOK
  BY <1>0, <1>1, <1>6, <1>7 DEF FreshOK
<1>15. FoundOK /\ TargetsOK
  BY <1>6, <1>7 DEF FoundOK, Responding, TargetsOK
<1>16. HistoryKeepsItsResponse
  BY <1>5 DEF HistoryKeepsItsResponse
<1> QED BY <1>8, <1>9, <1>10, <1>11, <1>12, <1>13, <1>14, <1>15, <1>16
       DEF IInv, ShapesOK, PlayersInv, RespsInv

(* Every step of a report or a program keeps it. *)
LEMMA EveryStep == IInv /\ [Next]_vars => IInv'
<1> SUFFICES ASSUME IInv, [Next]_vars PROVE IInv'
  OBVIOUS
<1>1. /\ VarsOK /\ RepsOK /\ ProgOK
      /\ NewOnesOK /\ MovesOK /\ ReportsKeepPlayer /\ HistoryKeepsItsPlayer /\ KeyOK /\ SequenceOK
      /\ FreshOK /\ FoundOK /\ TargetsOK /\ HistoryKeepsItsResponse
  BY DEF IInv, ShapesOK, PlayersInv, RespsInv
<1>2. VarsOK'
  <2>1. CASE UNCHANGED vars
    BY <1>1, <2>1 DEF vars, tables, history, VarsOK
  <2> QED BY <1>1, <2>1, StepCases, ReportsKeepVars, ProgramsKeepVars
<1>3. RepsOK' /\ ProgOK'
  BY <1>1, RepsStep, ProgStep
<1>4. NewOnesOK' /\ MovesOK' /\ ReportsKeepPlayer'
  BY <1>1, NewOnesStep, MovesStep, KeepPlayerStep
<1>5. HistoryKeepsItsPlayer' /\ KeyOK' /\ SequenceOK'
  BY <1>1, HistoryStep, KeyStep, SequenceStep
<1>6. FreshOK' /\ FoundOK' /\ TargetsOK'
  BY <1>1, FreshStep, FoundStep, TargetsStep
<1>7. HistoryKeepsItsResponse'
  BY <1>1, ResponseHistoryStep DEF RespsInv
<1> QED BY <1>2, <1>3, <1>4, <1>5, <1>6, <1>7 DEF IInv, ShapesOK, PlayersInv, RespsInv

(* It always holds. *)
THEOREM InvariantHolds == Spec => []IInv
<1>1. Init => IInv
  BY AtStart
<1>2. IInv /\ [Next]_vars => IInv'
  BY EveryStep
<1> QED BY <1>1, <1>2, PTL DEF Spec

(* Every variable keeps its shape, players have ids of their own, and a    *)
(* task of a program only holds rows that are there.                       *)
THEOREM TypeCorrect == Spec => []TypeOK
<1>1. IInv => TypeOK
  <2> SUFFICES ASSUME IInv PROVE TypeOK
    OBVIOUS
  <2>1. VarsOK /\ ProgOK /\ NewOnesOK /\ MovesOK /\ TargetsOK
    BY DEF IInv, ShapesOK, PlayersInv, RespsInv
  <2>2. ASSUME NEW i \in DOMAIN tasks PROVE tasks[i].rows \subseteq infos
    <3>1. CASE prog.name = "compact"
      BY <2>1, <3>1 DEF MovesOK, MoveOK
    <3>2. CASE prog.name = "reencode"
      BY <2>1, <3>2 DEF TargetsOK, TargetOK
    <3>3. CASE prog.name = "remove"
      BY <2>1, <3>3 DEF TargetsOK
    <3>4. CASE prog.name = None
      BY <2>1, <3>4 DEF ProgOK
    <3> QED BY <2>1, <3>1, <3>2, <3>3, <3>4 DEF VarsOK, ProgRecord, ProgName
  <2>3. /\ player \in [Names -> 0..MaxPid] /\ infos \subseteq Row /\ DOMAIN resps \subseteq 1..MaxResp
        /\ \A i \in DOMAIN resps : resps[i] \in [content : Contents, old : BOOLEAN]
        /\ seq \in 1..MaxPid + 1 /\ rseq \in 1..MaxResp + 1
        /\ {fk, broken, raced} \subseteq BOOLEAN
        /\ reports \in 0..MaxReports /\ runs \in 0..MaxRuns
    BY <2>1 DEF VarsOK, Pid, RespRecord
  <2>4. \A h \in Handlers : rep[h].at \in {"idle", "read", "written", "found", "linked"}
    BY <2>1 DEF VarsOK, RepRecord, RepLabel
  <2>5. \A m, n \in Names : m # n /\ player[m] # 0 => player[m] # player[n]
    BY <2>1 DEF NewOnesOK
  <2> QED BY <2>2, <2>3, <2>4, <2>5 DEF TypeOK
<1> QED BY <1>1, InvariantHolds, PTL

(* A history entry stays with its player through every move of ids, unless *)
(* its report was open while the id was moved.                             *)
THEOREM EntriesKeepTheirPlayer == Spec => []HistoryKeepsItsPlayer
<1>1. IInv => HistoryKeepsItsPlayer
  BY DEF IInv, PlayersInv
<1> QED BY <1>1, InvariantHolds, PTL

(* An entry refers to a response that is there and means what was          *)
(* reported, whatever is merged or deleted beside the reports.             *)
THEOREM EntriesKeepTheirResponse == Spec => []HistoryKeepsItsResponse
<1>1. IInv => HistoryKeepsItsResponse
  BY DEF IInv, RespsInv
<1> QED BY <1>1, InvariantHolds, PTL

(* The sequence is above every id in use, also after compact_ids has set   *)
(* it, unless an id was drawn, and not committed, before SELECT MAX, or    *)
(* drawn between it and ALTER SEQUENCE.                                    *)
THEOREM NextIdsAreFree == Spec => []FreshIdsAreFree
<1>1. IInv => FreshIdsAreFree
  BY DEF IInv, PlayersInv, SequenceOK
<1> QED BY <1>1, InvariantHolds, PTL

(* The foreign key is only missing while ids move or after a run that was  *)
(* stopped or failed, and holds when it is there.                          *)
THEOREM KeyComesBack == Spec => []ForeignKeyComesBack
<1>1. IInv => ForeignKeyComesBack
  BY DEF IInv, PlayersInv, KeyOK
<1> QED BY <1>1, InvariantHolds, PTL
=============================================================================
