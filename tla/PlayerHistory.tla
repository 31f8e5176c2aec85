---------------------------- MODULE PlayerHistory ----------------------------
(***************************************************************************)
(* What the crawl reports promise about the tables player and player_info, *)
(* whatever the transactions of src/src/db/crawling.rs do to get there:    *)
(* every accepted report takes effect at one instant, in which the row of  *)
(* the player and its history move together, and nothing else ever moves   *)
(* either of them.  PlayerReports implements this specification.           *)
(***************************************************************************)
EXTENDS Naturals, Sequences

CONSTANTS
  Names,      \* player names of one server: UNIQUE (server_id, name)
  Pids,       \* values of the SERIAL player_id
  Responses,  \* contents of crawled player responses
  MaxTime,    \* bound: fetch times are 1..MaxTime, 0 stands for SQL NULL
  None        \* no row, or the NULL columns of a row that was never reported

VARIABLES
  player,     \* player[n]: the row of table player, or None
  history     \* history[p]: the rows of player_info of p, in commit order

hvars == <<player, history>>

(***************************************************************************)
(* A row: its id, last_reported, last_changed, the columns a response      *)
(* fills (xp, level, attributes, honor, guild, ...) and is_removed.        *)
(***************************************************************************)
Row == [pid : Pids, reported : 0..MaxTime, changed : 0..MaxTime,
        resp : Responses \cup {None}, removed : BOOLEAN]

Entry == [fetch : 1..MaxTime, resp : Responses]

Known(n) == player[n] # None

Unused(p) == /\ history[p] = <<>>
             /\ \A n \in Names : Known(n) => player[n].pid # p

Init == /\ player = [n \in Names |-> None]
        /\ history = [p \in Pids |-> <<>>]

(* The Hall of Fame shows a name for the first time. *)
Discover(n, p) ==
  /\ ~Known(n) /\ Unused(p)
  /\ player' = [player EXCEPT ![n] = [pid |-> p, reported |-> 0, changed |-> 0,
                                      resp |-> None, removed |-> FALSE]]
  /\ UNCHANGED history

(* A report is recorded: row and history in one step, the flag untouched. *)
Record(n, p, f, r) ==
  /\ IF Known(n) THEN player[n].pid = p ELSE Unused(p)
  /\ \E c \in 1..f :
       player' = [player EXCEPT ![n] =
                    [pid |-> p, reported |-> f, changed |-> c, resp |-> r,
                     removed |-> Known(n) /\ player[n].removed]]
  /\ history' = [history EXCEPT ![p] = Append(@, [fetch |-> f, resp |-> r])]

(* The game server says that the player is gone. *)
Flag(n) ==
  /\ Known(n)
  /\ player' = [player EXCEPT ![n].removed = TRUE]
  /\ UNCHANGED history

Next ==
  \E n \in Names :
    \/ \E p \in Pids : Discover(n, p)
    \/ \E p \in Pids, f \in 1..MaxTime, r \in Responses : Record(n, p, f, r)
    \/ Flag(n)

Spec == Init /\ [][Next]_hvars
=============================================================================
