---------------------------- MODULE HoxTableMgr -----------------------------
(***************************************************************************)
(* The tables of the server: class hoxTableMgr of server/hoxTable.cpp (the *)
(* map from ids to tables and the list of ids to use again), and the set   *)
(* of tables each hoxPlayer keeps (server/hoxPlayer.cpp).                  *)
(*                                                                         *)
(* A table object is a number, in the order of creation: an id is used     *)
(* again after its table was purged, an object never is.  Of a table only  *)
(* the players at it are kept; whether it accepts a JOIN (HoxTable) is a   *)
(* choice.  Each action is a request handler or a part of one between two  *)
(* points where the server switches threads.                               *)
(***************************************************************************)
EXTENDS Integers, Sequences, FiniteSets

CONSTANTS
    Players,        \* the hoxPlayer objects
    MaxCreated      \* bound: tables created in all

ASSUME MaxCreatedAssumption == MaxCreated \in Nat

VARIABLES
    tableMap,       \* _tableMap: from the ids in use to table objects
    freeIdList,     \* _freeIdList
    created,        \* table objects created so far
    allPlayers,     \* _allPlayers of each table object
    tables          \* _tables of each player

vars == <<tableMap, freeIdList, created, allPlayers, tables>>

Ids     == 1..MaxCreated
Objects == 1..MaxCreated
Used    == DOMAIN tableMap
Free    == {freeIdList[k] : k \in DOMAIN freeIdList}

TypeOK ==
    /\ Used \subseteq Ids /\ tableMap \in [Used -> 1..created]
    /\ freeIdList \in Seq(Ids)
    /\ created \in 0..MaxCreated
    /\ allPlayers \in [Objects -> SUBSET Players]
    /\ tables \in [Players -> SUBSET Objects]

Init ==
    /\ tableMap = [i \in {} |-> 0]
    /\ freeIdList = <<>>
    /\ created = 0
    /\ allPlayers = [o \in Objects |-> {}]
    /\ tables = [p \in Players |-> {}]

-----------------------------------------------------------------------------
(* Mutants: the size is taken once too late; the free ids are not used.    *)
NewIdTooLate == IF freeIdList = <<>> THEN Cardinality(Used) + 2 ELSE Head(freeIdList)
NewIdBySize  == Cardinality(Used) + 1

(* _generateNewTableId: the first free id, or one more than there are.     *)
NewId        == IF freeIdList = <<>> THEN Cardinality(Used) + 1 ELSE Head(freeIdList)
FreeListLeft == IF freeIdList = <<>> THEN <<>> ELSE Tail(freeIdList)

(* The ids of S, each once, in any order.  (std::map hands them out in the *)
(* order of their decimal strings; nothing below depends on it.)           *)
Orders(S) ==
    {s \in [1..Cardinality(S) -> S] :
        \A x \in S : \E k \in DOMAIN s : \A j \in DOMAIN s : s[j] = x <=> j = k}

(* Mutant: a table with one player left is taken for empty.                *)
RunCleanupEarly(pl) ==
    LET purged == {i \in Used : Cardinality(pl[tableMap[i]]) <= 1}
    IN  /\ tableMap' = [i \in Used \ purged |-> tableMap[i]]
        /\ \E s \in Orders(purged) : freeIdList' = freeIdList \o s

(* runCleanup, when the players at the tables are pl.                      *)
RunCleanup(pl) ==
    LET purged == {i \in Used : pl[tableMap[i]] = {}}
    IN  /\ tableMap' = [i \in Used \ purged |-> tableMap[i]]
        /\ \E s \in Orders(purged) : freeIdList' = freeIdList \o s

-----------------------------------------------------------------------------
(* handle_NEW: createTable, and the creator joins; a new table accepts him.*)
NewTable(p) ==
    /\ created < MaxCreated
    /\ created' = created + 1
    /\ tableMap' = [i \in Used \cup {NewId} |->
                       IF i = NewId THEN created + 1 ELSE tableMap[i]]
    /\ freeIdList' = FreeListLeft
    /\ allPlayers' = [allPlayers EXCEPT ![created + 1] = @ \cup {p}]
    /\ tables' = [tables EXCEPT ![p] = @ \cup {created + 1}]

(* handle_JOIN, when assignPlayerAs accepts; otherwise nothing changes.    *)
JoinTable(p, i) ==
    /\ i \in Used
    /\ allPlayers' = [allPlayers EXCEPT ![tableMap[i]] = @ \cup {p}]
    /\ tables' = [tables EXCEPT ![p] = @ \cup {tableMap[i]}]
    /\ UNCHANGED <<tableMap, freeIdList, created>>

(* handle_LEAVE: the player need not be at the table; then runCleanup.     *)
LeaveTable(p, i) ==
    /\ i \in Used
    /\ allPlayers' = [allPlayers EXCEPT ![tableMap[i]] = @ \ {p}]
    /\ tables' = [tables EXCEPT ![p] = @ \ {tableMap[i]}]
    /\ RunCleanup(allPlayers')
    /\ UNCHANGED created

(* leaveAllTables, when a session shuts down: the loop empties _tables.    *)
(* closeIO, and with it a thread switch, comes before runCleanup; an       *)
(* expired session gets no runCleanup at all.                              *)
(* Mutant: the tables forget the player, the player not the tables.        *)
LeaveAllTablesOneSided(p) ==
    /\ allPlayers' = [o \in Objects |->
                         IF o \in tables[p] THEN allPlayers[o] \ {p} ELSE allPlayers[o]]
    /\ UNCHANGED <<tableMap, freeIdList, created, tables>>

LeaveAllTables(p) ==
    /\ allPlayers' = [o \in Objects |->
                         IF o \in tables[p] THEN allPlayers[o] \ {p} ELSE allPlayers[o]]
    /\ tables' = [tables EXCEPT ![p] = {}]
    /\ UNCHANGED <<tableMap, freeIdList, created>>

(* runCleanup from closeAndDeleteSession.                                  *)
CleanupAfterClose ==
    /\ RunCleanup(allPlayers)
    /\ UNCHANGED <<created, allPlayers, tables>>

Next ==
    \/ \E p \in Players :
         \/ NewTable(p)
         \/ \E i \in Ids : JoinTable(p, i)
         \/ \E i \in Ids : LeaveTable(p, i)
         \/ LeaveAllTables(p)
    \/ CleanupAfterClose

Spec == Init /\ [][Next]_vars

-----------------------------------------------------------------------------
(* Properties.                                                             *)

(* The ids in use and the free ones are 1..n for some n, each exactly      *)
(* once: _generateNewTableId can take the size of the map plus one for new *)
(* when the list is empty, although ids come back in any order.            *)
IdsPartition ==
    /\ \E n \in 0..created : Used \cup Free = 1..n
    /\ Used \cap Free = {}
    /\ \A j, k \in DOMAIN freeIdList : freeIdList[j] = freeIdList[k] => j = k

(* A table and its players agree: who is on _allPlayers of a table has it  *)
(* in his _tables and the other way round, a table somebody is at can be   *)
(* found under its id, and no table has two ids.                           *)
MembershipAgrees ==
    /\ \A p \in Players, o \in Objects : p \in allPlayers[o] <=> o \in tables[p]
    /\ \A p \in Players : \A o \in tables[p] : \E i \in Used : tableMap[i] = o
    /\ \A i, j \in Used : tableMap[i] = tableMap[j] => i = j

(* A table keeps its id for life, and an id is given to another table only *)
(* when the players of the first one are all gone.                         *)
IdStep ==
    \A i \in Used :
        \/ i \in DOMAIN tableMap' /\ tableMap'[i] = tableMap[i]
        \/ i \notin DOMAIN tableMap' /\ allPlayers'[tableMap[i]] = {}
IdsForLife == [][IdStep]_vars
=============================================================================
