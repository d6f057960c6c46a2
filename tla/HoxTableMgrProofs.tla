------------------------- MODULE HoxTableMgrProofs --------------------------
(***************************************************************************)
(* Theorems about HoxTableMgr, for any players and any number of tables.   *)
(***************************************************************************)
EXTENDS HoxTableMgr, FiniteSetTheorems, TLAPS

-----------------------------------------------------------------------------
(* Type correctness.  It needs IdsPartition: the id of a new table is in   *)
(* range because the ids in use and the free ones have no gaps.            *)

LEMMA UsedObjects == TypeOK => \A i \in Used : tableMap[i] \in Objects
<1> SUFFICES ASSUME TypeOK, NEW i \in Used PROVE tableMap[i] \in Objects
  OBVIOUS
<1>1. tableMap[i] \in 1..created
  BY DEF TypeOK
<1>2. created \in 0..MaxCreated
  BY DEF TypeOK
<1> QED
  BY <1>1, <1>2, MaxCreatedAssumption DEF Objects

(* The order in which ids are purged is a sequence of exactly those ids.   *)
LEMMA OrdersLemma ==
    ASSUME NEW S, IsFiniteSet(S), NEW s \in Orders(S)
    PROVE  /\ s \in Seq(S)
           /\ {s[k] : k \in DOMAIN s} = S
           /\ \A j, k \in DOMAIN s : s[j] = s[k] => j = k
<1>1. Cardinality(S) \in Nat
  BY FS_CardinalityType
<1>2. s \in [1..Cardinality(S) -> S] /\ DOMAIN s = 1..Cardinality(S)
  BY DEF Orders
<1>3. \A x \in S : \E k \in DOMAIN s : \A j \in DOMAIN s : s[j] = x <=> j = k
  BY DEF Orders
<1>4. s \in Seq(S)
  BY <1>1, <1>2
<1>5. {s[k] : k \in DOMAIN s} = S
  BY <1>2, <1>3, Zenon
<1>6. ASSUME NEW j \in DOMAIN s, NEW k \in DOMAIN s, s[j] = s[k] PROVE j = k
  <2>1. s[j] \in S
    BY <1>2
  <2>2. PICK l \in DOMAIN s : \A i \in DOMAIN s : s[i] = s[j] <=> i = l
    BY <1>3, <2>1
  <2>3. j = l /\ k = l
    BY <1>6, <2>2
  <2> QED
    BY <2>3
<1> QED
  BY <1>4, <1>5, <1>6

LEMMA UsedFinite ==
    ASSUME TypeOK
    PROVE  \A S \in SUBSET Used : IsFiniteSet(S)
<1>1. MaxCreated \in Int /\ 1 \in Int
  BY MaxCreatedAssumption
<1>2. IsFiniteSet(Ids)
  BY <1>1, FS_Interval, Zenon DEF Ids
<1> QED
  BY <1>2, FS_Subset, Zenon DEF TypeOK

(* runCleanup moves ids from the map to the list and loses none.           *)
LEMMA RunCleanupLemma ==
    ASSUME TypeOK, IdsPartition, NEW pl, RunCleanup(pl)
    PROVE  /\ DOMAIN tableMap' \subseteq Used
           /\ \A i \in DOMAIN tableMap' : tableMap'[i] = tableMap[i]
           /\ \A i \in Used : i \in DOMAIN tableMap' <=> pl[tableMap[i]] # {}
           /\ freeIdList' \in Seq(Ids)
           /\ Used' \cup Free' = Used \cup Free
           /\ Used' \cap Free' = {}
           /\ \A j, k \in DOMAIN freeIdList' :
                  freeIdList'[j] = freeIdList'[k] => j = k
<1> DEFINE purged == {i \in Used : pl[tableMap[i]] = {}}
<1>1. tableMap' = [i \in Used \ purged |-> tableMap[i]]
  BY DEF RunCleanup
<1>2. PICK s \in Orders(purged) : freeIdList' = freeIdList \o s
  BY DEF RunCleanup
<1>3. IsFiniteSet(purged)
  BY UsedFinite
<1> HIDE DEF purged
<1>4. /\ s \in Seq(purged)
      /\ {s[k] : k \in DOMAIN s} = purged
      /\ \A j, k \in DOMAIN s : s[j] = s[k] => j = k
  BY <1>2, <1>3, OrdersLemma
<1>5. purged \subseteq Used /\ Used \subseteq Ids
  BY DEF TypeOK, purged
<1>6. /\ freeIdList \in Seq(Ids)
      /\ s \in Seq(Ids)
  BY <1>4, <1>5 DEF TypeOK
<1>7. freeIdList' \in Seq(Ids)
  BY <1>2, <1>6
<1>8. DOMAIN freeIdList = 1..Len(freeIdList) /\ DOMAIN s = 1..Len(s)
  BY <1>6
<1>9. /\ DOMAIN freeIdList' = 1..(Len(freeIdList) + Len(s))
      /\ \A k \in DOMAIN freeIdList : freeIdList'[k] = freeIdList[k]
      /\ \A k \in DOMAIN s : freeIdList'[Len(freeIdList) + k] = s[k]
      /\ Len(freeIdList) \in Nat /\ Len(s) \in Nat
  BY <1>2, <1>6
<1>10. \A k \in DOMAIN freeIdList' :
          \/ k \in DOMAIN freeIdList
          \/ \E m \in DOMAIN s : k = Len(freeIdList) + m
  <2> SUFFICES ASSUME NEW k \in DOMAIN freeIdList', k \notin DOMAIN freeIdList
               PROVE  \E m \in DOMAIN s : k = Len(freeIdList) + m
    OBVIOUS
  <2>1. k - Len(freeIdList) \in DOMAIN s
    BY <1>8, <1>9
  <2> QED
    BY <2>1, <1>9
<1>11. Free' = Free \cup purged
  <2>1. ASSUME NEW k \in DOMAIN freeIdList'
        PROVE  freeIdList'[k] \in Free \cup purged
    BY <1>4, <1>9, <1>10 DEF Free
  <2>2. \A k \in DOMAIN freeIdList : k \in DOMAIN freeIdList'
    BY <1>8, <1>9
  <2>3. \A k \in DOMAIN s : Len(freeIdList) + k \in DOMAIN freeIdList'
    BY <1>8, <1>9
  <2>4. Free \subseteq Free'
    BY <1>9, <2>2 DEF Free
  <2>5. purged \subseteq Free'
    BY <1>4, <1>9, <2>3 DEF Free
  <2>6. Free' \subseteq Free \cup purged
    BY <2>1 DEF Free
  <2> QED
    BY <2>4, <2>5, <2>6
<1>12. Used' = Used \ purged
  BY <1>1 DEF Used
<1>13. Used' \cup Free' = Used \cup Free /\ Used' \cap Free' = {}
  BY <1>5, <1>11, <1>12 DEF IdsPartition
<1>14. \A k \in DOMAIN freeIdList, m \in DOMAIN s : freeIdList[k] # s[m]
  <2>1. \A k \in DOMAIN freeIdList : freeIdList[k] \notin Used
    BY DEF IdsPartition, Free
  <2> QED
    BY <2>1, <1>4, <1>5
<1>15. \A j, k \in DOMAIN freeIdList' : freeIdList'[j] = freeIdList'[k] => j = k
  BY <1>4, <1>9, <1>10, <1>14 DEF IdsPartition
<1>16. /\ DOMAIN tableMap' \subseteq Used
       /\ \A i \in DOMAIN tableMap' : tableMap'[i] = tableMap[i]
       /\ \A i \in Used : i \in DOMAIN tableMap' <=> pl[tableMap[i]] # {}
  BY <1>1 DEF purged
<1> QED
  BY <1>7, <1>13, <1>15, <1>16

(* The id of a new table is not in use, and taking it leaves no gap.       *)
LEMMA NewIdLemma ==
    ASSUME TypeOK, IdsPartition, NEW p \in Players, NewTable(p)
    PROVE  /\ NewId \in Ids /\ NewId \notin Used
           /\ Used' = Used \cup {NewId}
           /\ freeIdList' \in Seq(Ids)
           /\ \E n \in 0..created' : Used' \cup Free' = 1..n
           /\ Used' \cap Free' = {}
           /\ \A j, k \in DOMAIN freeIdList' :
                  freeIdList'[j] = freeIdList'[k] => j = k
<1>1. PICK n \in 0..created : Used \cup Free = 1..n
  BY DEF IdsPartition
<1>2. /\ created \in Nat /\ created < MaxCreated /\ created' = created + 1
      /\ freeIdList' = FreeListLeft
      /\ MaxCreated \in Nat
  BY MaxCreatedAssumption DEF NewTable, TypeOK
<1>3. Used' = Used \cup {NewId}
  BY DEF NewTable, Used
<1>4. CASE freeIdList = <<>>
  <2>1. Free = {} /\ Used = 1..n
    <3>1. DOMAIN freeIdList = {}
      BY <1>4
    <3>2. Free = {}
      BY <3>1, Zenon DEF Free
    <3> QED
      BY <1>1, <3>2
  <2>2. Cardinality(1..n) = n
    <3>1. 1 \in Int /\ n \in Int
      BY <1>1
    <3>2. Cardinality(1..n) = IF 1 > n THEN 0 ELSE n - 1 + 1
      BY <3>1, FS_Interval, Zenon
    <3> QED
      BY <1>1, <3>2
  <2>3. NewId = n + 1
    BY <1>4, <2>1, <2>2 DEF NewId
  <2>4. freeIdList' = <<>> /\ Free' = {}
    BY <1>2, <1>4 DEF FreeListLeft, Free
  <2>5. Used' \cup Free' = 1..(n + 1) /\ n + 1 \in 0..created'
    BY <1>1, <1>2, <1>3, <2>1, <2>3, <2>4
  <2> QED
    BY <1>1, <1>2, <1>3, <2>1, <2>3, <2>4, <2>5 DEF Ids
<1>5. CASE freeIdList # <<>>
  <2>1. /\ NewId = Head(freeIdList) /\ freeIdList' = Tail(freeIdList)
        /\ freeIdList \in Seq(Ids) /\ Len(freeIdList) \in Nat \ {0}
        /\ DOMAIN freeIdList = 1..Len(freeIdList)
    BY <1>2, <1>5 DEF NewId, FreeListLeft, TypeOK
  <2>2. /\ NewId = freeIdList[1] /\ NewId \in Ids /\ NewId \in Free
        /\ freeIdList' \in Seq(Ids)
        /\ DOMAIN freeIdList' = 1..(Len(freeIdList) - 1)
        /\ \A k \in DOMAIN freeIdList' : freeIdList'[k] = freeIdList[k + 1]
    BY <2>1 DEF Free
  <2>3. NewId \notin Used
    BY <2>2 DEF IdsPartition
  <2>4. \A j, k \in DOMAIN freeIdList' : freeIdList'[j] = freeIdList'[k] => j = k
    <3>1. \A j, k \in DOMAIN freeIdList : freeIdList[j] = freeIdList[k] => j = k
      BY DEF IdsPartition
    <3>2. SUFFICES ASSUME NEW j \in DOMAIN freeIdList', NEW k \in DOMAIN freeIdList',
                          freeIdList'[j] = freeIdList'[k]
                   PROVE  j = k
      OBVIOUS
    <3>3. j + 1 \in DOMAIN freeIdList /\ k + 1 \in DOMAIN freeIdList
      BY <2>1, <2>2
    <3>4. freeIdList[j + 1] = freeIdList[k + 1]
      BY <2>2, <3>2
    <3>5. j + 1 = k + 1
      BY <3>1, <3>3, <3>4
    <3> QED
      BY <2>1, <2>2, <3>5
  <2>5. Free' = Free \ {NewId}
    <3>1. ASSUME NEW k \in DOMAIN freeIdList'
          PROVE  freeIdList'[k] \in Free \ {NewId}
      <4>1. k + 1 \in DOMAIN freeIdList /\ k + 1 # 1 /\ 1 \in DOMAIN freeIdList
        BY <2>1, <2>2, <3>1
      <4>2. freeIdList[k + 1] # freeIdList[1]
        BY <4>1 DEF IdsPartition
      <4> QED
        BY <2>2, <3>1, <4>1, <4>2 DEF Free
    <3>2. ASSUME NEW k \in DOMAIN freeIdList, freeIdList[k] # NewId
          PROVE  freeIdList[k] \in Free'
      <4>1. k - 1 \in DOMAIN freeIdList' /\ (k - 1) + 1 = k
        BY <2>1, <2>2, <3>2
      <4>2. freeIdList'[k - 1] = freeIdList[k]
        BY <2>2, <4>1
      <4> QED
        BY <4>1, <4>2 DEF Free
    <3>3. Free' \subseteq Free \ {NewId}
      BY <3>1 DEF Free
    <3>4. Free \ {NewId} \subseteq Free'
      BY <3>2 DEF Free
    <3> QED
      BY <3>3, <3>4
  <2>6. Used' \cup Free' = 1..n /\ n \in 0..created'
    BY <1>1, <1>2, <1>3, <2>2, <2>5
  <2> QED
    BY <1>3, <2>2, <2>3, <2>4, <2>5, <2>6 DEF IdsPartition
<1> QED
  BY <1>4, <1>5

IdsInv == TypeOK /\ IdsPartition

LEMMA IdsInvInit == Init => IdsInv
<1> SUFFICES ASSUME Init PROVE IdsInv
  OBVIOUS
<1>1. Used = {} /\ Free = {} /\ tableMap \in [Used -> 1..created]
  BY DEF Init, Used, Free
<1>2. freeIdList \in Seq(Ids)
  BY DEF Init
<1>3. TypeOK
  BY <1>1, <1>2, MaxCreatedAssumption DEF Init, TypeOK, Objects
<1>4. Used \cup Free = 1..0 /\ 0 \in 0..created
  BY <1>1 DEF Init
<1>5. IdsPartition
  BY <1>1, <1>4 DEF Init, IdsPartition
<1> QED
  BY <1>3, <1>5 DEF IdsInv

LEMMA IdsInvNext == IdsInv /\ [Next]_vars => IdsInv'
<1> SUFFICES ASSUME TypeOK, IdsPartition, [Next]_vars
             PROVE  TypeOK' /\ IdsPartition'
  BY DEF IdsInv
<1>1. ASSUME NEW p \in Players, NewTable(p)
      PROVE  TypeOK' /\ IdsPartition'
  <2>1. /\ created' \in 0..MaxCreated /\ created + 1 = created'
        /\ created + 1 \in Objects /\ 1..created \subseteq 1..created'
    BY <1>1, MaxCreatedAssumption DEF NewTable, TypeOK, Objects
  <2>2. tableMap' \in [Used' -> 1..created'] /\ Used' \subseteq Ids
    <3>1. tableMap' = [i \in Used \cup {NewId} |->
                          IF i = NewId THEN created + 1 ELSE tableMap[i]]
      BY <1>1 DEF NewTable
    <3>2. Used' = Used \cup {NewId}
      BY <3>1 DEF Used
    <3>3. created + 1 \in 1..created'
      BY <2>1 DEF Objects
    <3>4. \A i \in Used : tableMap[i] \in 1..created'
      BY <2>1 DEF TypeOK
    <3>5. NewId \in Ids
      BY <1>1, NewIdLemma
    <3> QED
      BY <3>1, <3>2, <3>3, <3>4, <3>5 DEF TypeOK
  <2>3. freeIdList' \in Seq(Ids)
    BY <1>1, NewIdLemma
  <2>4. allPlayers' \in [Objects -> SUBSET Players] /\ tables' \in [Players -> SUBSET Objects]
    BY <1>1, <2>1 DEF NewTable, TypeOK
  <2>5. TypeOK'
    BY <2>1, <2>2, <2>3, <2>4 DEF TypeOK
  <2>6. IdsPartition'
    BY <1>1, NewIdLemma DEF IdsPartition
  <2> QED
    BY <2>5, <2>6
<1>2. ASSUME NEW p \in Players, NEW i \in Ids, JoinTable(p, i)
      PROVE  TypeOK' /\ IdsPartition'
  <2>1. tableMap[i] \in Objects
    BY <1>2, UsedObjects DEF JoinTable
  <2>2. UNCHANGED <<tableMap, freeIdList, created, Used, Free>>
    BY <1>2 DEF JoinTable, Used, Free
  <2>3. allPlayers' \in [Objects -> SUBSET Players] /\ tables' \in [Players -> SUBSET Objects]
    BY <1>2, <2>1 DEF JoinTable, TypeOK
  <2>4. TypeOK'
    BY <2>2, <2>3 DEF TypeOK
  <2>5. IdsPartition'
    BY <2>2 DEF IdsPartition
  <2> QED
    BY <2>4, <2>5
<1>3. ASSUME NEW pl, RunCleanup(pl), created' = created,
             allPlayers' \in [Objects -> SUBSET Players],
             tables' \in [Players -> SUBSET Objects]
      PROVE  TypeOK' /\ IdsPartition'
  <2>1. tableMap' \in [Used' -> 1..created']
    <3>1. tableMap' = [j \in Used' |-> tableMap'[j]]
      BY <1>3 DEF RunCleanup, Used
    <3>2. \A j \in Used' : j \in Used /\ tableMap'[j] = tableMap[j]
      BY <1>3, RunCleanupLemma DEF Used
    <3> QED
      BY <1>3, <3>1, <3>2 DEF TypeOK
  <2>2. Used' \subseteq Ids /\ freeIdList' \in Seq(Ids)
    BY <1>3, RunCleanupLemma DEF TypeOK, Used
  <2>3. TypeOK'
    BY <1>3, <2>1, <2>2 DEF TypeOK
  <2>4. IdsPartition'
    BY <1>3, RunCleanupLemma DEF IdsPartition
  <2> QED
    BY <2>3, <2>4
<1>4. ASSUME NEW p \in Players, NEW i \in Ids, LeaveTable(p, i)
      PROVE  TypeOK' /\ IdsPartition'
  <2>1. tableMap[i] \in Objects
    BY <1>4, UsedObjects DEF LeaveTable
  <2>2. allPlayers' \in [Objects -> SUBSET Players] /\ tables' \in [Players -> SUBSET Objects]
    BY <1>4, <2>1 DEF LeaveTable, TypeOK
  <2> QED
    BY <1>3, <1>4, <2>2 DEF LeaveTable
<1>5. ASSUME NEW p \in Players, LeaveAllTables(p)
      PROVE  TypeOK' /\ IdsPartition'
  <2>1. UNCHANGED <<tableMap, freeIdList, created, Used, Free>>
    BY <1>5 DEF LeaveAllTables, Used, Free
  <2>2. allPlayers' \in [Objects -> SUBSET Players] /\ tables' \in [Players -> SUBSET Objects]
    BY <1>5 DEF LeaveAllTables, TypeOK
  <2>3. TypeOK'
    BY <2>1, <2>2 DEF TypeOK
  <2>4. IdsPartition'
    BY <2>1 DEF IdsPartition
  <2> QED
    BY <2>3, <2>4
<1>6. CASE CleanupAfterClose
  BY <1>3, <1>6 DEF CleanupAfterClose, TypeOK
<1>7. CASE UNCHANGED vars
  <2>1. UNCHANGED <<Used, Free>>
    BY <1>7 DEF vars, Used, Free
  <2> QED
    BY <1>7, <2>1 DEF vars, TypeOK, IdsPartition
<1> QED
  BY <1>1, <1>2, <1>4, <1>5, <1>6, <1>7 DEF Next

LEMMA IdsInvariant == Spec => []IdsInv
<1> QED
  BY IdsInvInit, IdsInvNext, PTL DEF Spec

(* Every variable of the table manager keeps its type.                     *)
THEOREM TypeCorrect == Spec => []TypeOK
<1>1. IdsInv => TypeOK
  BY DEF IdsInv
<1> QED
  BY <1>1, IdsInvariant, PTL

(* In any order of creating, leaving and purging tables, the ids in use    *)
(* and the free ids are 1..n, each once: no new table takes a used id.     *)
THEOREM IdsPartitionCorrect == Spec => []IdsPartition
<1>1. IdsInv => IdsPartition
  BY DEF IdsInv
<1> QED
  BY <1>1, IdsInvariant, PTL

-----------------------------------------------------------------------------
(* A table and its players agree.  MembershipAgrees is inductive once the  *)
(* ids are known to be in order: the id of a new table takes no other      *)
(* table's place, and only tables without players are purged.              *)

AllInv == IdsInv /\ MembershipAgrees

LEMMA AllInvInit == Init => AllInv
<1> SUFFICES ASSUME Init PROVE MembershipAgrees
  BY IdsInvInit DEF AllInv
<1>1. Used = {}
  BY DEF Init, Used
<1> QED
  BY <1>1 DEF Init, MembershipAgrees

(* Purging takes the id only from tables nobody is at.                     *)
LEMMA PurgeKeepsMembership ==
    ASSUME IdsInv, RunCleanup(allPlayers'),
           \A p \in Players, o \in Objects : p \in allPlayers'[o] <=> o \in tables'[p],
           \A p \in Players : \A o \in tables'[p] : o \in Objects,
           \A p \in Players : \A o \in tables'[p] : \E i \in Used : tableMap[i] = o,
           \A i, j \in Used : tableMap[i] = tableMap[j] => i = j
    PROVE  MembershipAgrees'
<1>1. /\ DOMAIN tableMap' \subseteq Used
      /\ \A i \in DOMAIN tableMap' : tableMap'[i] = tableMap[i]
      /\ \A i \in Used : i \in DOMAIN tableMap' <=> allPlayers'[tableMap[i]] # {}
  BY RunCleanupLemma DEF IdsInv
<1>2. ASSUME NEW p \in Players, NEW o \in tables'[p]
      PROVE  \E i \in Used' : tableMap'[i] = o
  <2>1. PICK i \in Used : tableMap[i] = o
    BY <1>2
  <2>2. o \in Objects /\ p \in allPlayers'[o]
    BY <1>2
  <2>3. i \in DOMAIN tableMap'
    BY <1>1, <2>1, <2>2
  <2> QED
    BY <1>1, <2>1, <2>3 DEF Used
<1>3. \A i, j \in Used' : tableMap'[i] = tableMap'[j] => i = j
  BY <1>1 DEF Used
<1> QED
  BY <1>2, <1>3 DEF MembershipAgrees

LEMMA AllInvNext == AllInv /\ [Next]_vars => AllInv'
<1> SUFFICES ASSUME IdsInv, MembershipAgrees, [Next]_vars
             PROVE  MembershipAgrees'
  BY IdsInvNext DEF AllInv
<1>0. TypeOK /\ IdsPartition /\ TypeOK'
  BY IdsInvNext DEF IdsInv
<1>1. ASSUME NEW p \in Players, NewTable(p)
      PROVE  MembershipAgrees'
  <2>1. NewId \notin Used /\ Used' = Used \cup {NewId}
    BY <1>0, <1>1, NewIdLemma
  <2>2. tableMap' = [i \in Used \cup {NewId} |->
                        IF i = NewId THEN created + 1 ELSE tableMap[i]]
    BY <1>1 DEF NewTable
  <2>3. tableMap'[NewId] = created + 1 /\ \A i \in Used : tableMap'[i] = tableMap[i]
    BY <2>1, <2>2
  <2>4. created \in Nat /\ \A i \in Used : tableMap[i] # created + 1
    BY <1>0 DEF TypeOK
  <2>5. created + 1 \in Objects
    BY <1>0, <1>1, <2>4, MaxCreatedAssumption DEF NewTable, TypeOK, Objects
  <2>6. \A q \in Players, o \in Objects : q \in allPlayers'[o] <=> o \in tables'[q]
    <3> SUFFICES ASSUME NEW q \in Players, NEW o \in Objects
                 PROVE  q \in allPlayers'[o] <=> o \in tables'[q]
      OBVIOUS
    <3>1. allPlayers'[o] = IF o = created + 1 THEN allPlayers[o] \cup {p} ELSE allPlayers[o]
      BY <1>0, <1>1 DEF NewTable, TypeOK
    <3>2. tables'[q] = IF q = p THEN tables[q] \cup {created + 1} ELSE tables[q]
      BY <1>0, <1>1 DEF NewTable, TypeOK
    <3> QED
      BY <3>1, <3>2 DEF MembershipAgrees
  <2>7. ASSUME NEW q \in Players, NEW o \in tables'[q]
        PROVE  \E i \in Used' : tableMap'[i] = o
    <3>1. tables'[q] = IF q = p THEN tables[q] \cup {created + 1} ELSE tables[q]
      BY <1>0, <1>1 DEF NewTable, TypeOK
    <3>2. CASE o = created + 1
      BY <2>1, <2>3, <3>2
    <3>3. CASE o \in tables[q]
      <4>1. PICK i \in Used : tableMap[i] = o
        BY <3>3 DEF MembershipAgrees
      <4> QED
        BY <2>1, <2>3, <4>1
    <3> QED
      BY <2>7, <3>1, <3>2, <3>3
  <2>8. \A i, j \in Used' : tableMap'[i] = tableMap'[j] => i = j
    BY <2>1, <2>3, <2>4 DEF MembershipAgrees
  <2> QED
    BY <2>6, <2>7, <2>8 DEF MembershipAgrees
<1>2. ASSUME NEW p \in Players, NEW i \in Ids, JoinTable(p, i)
      PROVE  MembershipAgrees'
  <2>1. i \in Used /\ tableMap[i] \in Objects /\ tableMap' = tableMap /\ Used' = Used
    BY <1>0, <1>2, UsedObjects DEF JoinTable, Used
  <2>2. ASSUME NEW q \in Players, NEW o \in Objects
        PROVE  /\ allPlayers'[o] = IF o = tableMap[i] THEN allPlayers[o] \cup {p}
                                   ELSE allPlayers[o]
               /\ tables'[q] = IF q = p THEN tables[q] \cup {tableMap[i]} ELSE tables[q]
    BY <1>0, <1>2, <2>2 DEF JoinTable, TypeOK
  <2>3. \A q \in Players, o \in Objects : q \in allPlayers'[o] <=> o \in tables'[q]
    <3> SUFFICES ASSUME NEW q \in Players, NEW o \in Objects
                 PROVE  q \in allPlayers'[o] <=> o \in tables'[q]
      OBVIOUS
    <3>1. q \in allPlayers[o] <=> o \in tables[q]
      BY DEF MembershipAgrees
    <3>2. p \in allPlayers[o] <=> o \in tables[p]
      BY DEF MembershipAgrees
    <3>3. /\ allPlayers'[o] = IF o = tableMap[i] THEN allPlayers[o] \cup {p}
                             ELSE allPlayers[o]
          /\ tables'[q] = IF q = p THEN tables[q] \cup {tableMap[i]} ELSE tables[q]
      BY <2>2
    <3>4. CASE o = tableMap[i] /\ q = p
      BY <3>1, <3>3, <3>4
    <3>5. CASE o # tableMap[i]
      BY <3>1, <3>3, <3>5
    <3>6. CASE q # p
      BY <3>1, <3>3, <3>6
    <3> QED
      BY <3>4, <3>5, <3>6
  <2>4. ASSUME NEW q \in Players, NEW o \in tables'[q]
        PROVE  o \in tables[q] \/ o = tableMap[i]
    <3>1. tables'[q] = IF q = p THEN tables[q] \cup {tableMap[i]} ELSE tables[q]
      BY <2>1, <2>2
    <3> QED
      BY <2>4, <3>1
  <2>5. \A q \in Players : \A o \in tables'[q] : \E j \in Used' : tableMap'[j] = o
    BY <2>1, <2>4 DEF MembershipAgrees
  <2>6. \A j, k \in Used' : tableMap'[j] = tableMap'[k] => j = k
    BY <2>1 DEF MembershipAgrees
  <2> QED
    BY <2>3, <2>5, <2>6 DEF MembershipAgrees
<1>3. ASSUME NEW p \in Players, NEW i \in Ids, LeaveTable(p, i)
      PROVE  MembershipAgrees'
  <2>1. i \in Used /\ tableMap[i] \in Objects
    BY <1>0, <1>3, UsedObjects DEF LeaveTable
  <2>2. ASSUME NEW q \in Players, NEW o \in Objects
        PROVE  /\ allPlayers'[o] = IF o = tableMap[i] THEN allPlayers[o] \ {p}
                                   ELSE allPlayers[o]
               /\ tables'[q] = IF q = p THEN tables[q] \ {tableMap[i]} ELSE tables[q]
    BY <1>0, <1>3, <2>2 DEF LeaveTable, TypeOK
  <2>3. \A q \in Players, o \in Objects : q \in allPlayers'[o] <=> o \in tables'[q]
    <3> SUFFICES ASSUME NEW q \in Players, NEW o \in Objects
                 PROVE  q \in allPlayers'[o] <=> o \in tables'[q]
      OBVIOUS
    <3>1. q \in allPlayers[o] <=> o \in tables[q]
      BY DEF MembershipAgrees
    <3>2. p \in allPlayers[o] <=> o \in tables[p]
      BY DEF MembershipAgrees
    <3>3. /\ allPlayers'[o] = IF o = tableMap[i] THEN allPlayers[o] \ {p}
                             ELSE allPlayers[o]
          /\ tables'[q] = IF q = p THEN tables[q] \ {tableMap[i]} ELSE tables[q]
      BY <2>2
    <3>4. CASE o = tableMap[i] /\ q = p
      BY <3>1, <3>3, <3>4
    <3>5. CASE o # tableMap[i]
      BY <3>1, <3>3, <3>5
    <3>6. CASE q # p
      BY <3>1, <3>3, <3>6
    <3> QED
      BY <3>4, <3>5, <3>6
  <2>4. \A q \in Players : \A o \in tables'[q] : o \in Objects /\ o \in tables[q]
    BY <1>0, <2>1, <2>2 DEF TypeOK
  <2>5. \A q \in Players : \A o \in tables'[q] : \E j \in Used : tableMap[j] = o
    BY <2>4 DEF MembershipAgrees
  <2>6. \A j, k \in Used : tableMap[j] = tableMap[k] => j = k
    BY DEF MembershipAgrees
  <2>7. RunCleanup(allPlayers')
    BY <1>3 DEF LeaveTable
  <2> QED
    BY <2>3, <2>4, <2>5, <2>6, <2>7, PurgeKeepsMembership
<1>4. ASSUME NEW p \in Players, LeaveAllTables(p)
      PROVE  MembershipAgrees'
  <2>1. tableMap' = tableMap /\ Used' = Used
    BY <1>4 DEF LeaveAllTables, Used
  <2>2. ASSUME NEW q \in Players, NEW o \in Objects
        PROVE  /\ allPlayers'[o] = IF o \in tables[p] THEN allPlayers[o] \ {p}
                                   ELSE allPlayers[o]
               /\ tables'[q] = IF q = p THEN {} ELSE tables[q]
    BY <1>0, <1>4, <2>2 DEF LeaveAllTables, TypeOK
  <2>3. \A q \in Players, o \in Objects : q \in allPlayers'[o] <=> o \in tables'[q]
    <3> SUFFICES ASSUME NEW q \in Players, NEW o \in Objects
                 PROVE  q \in allPlayers'[o] <=> o \in tables'[q]
      OBVIOUS
    <3>1. q \in allPlayers[o] <=> o \in tables[q]
      BY DEF MembershipAgrees
    <3>2. p \in allPlayers[o] <=> o \in tables[p]
      BY DEF MembershipAgrees
    <3>3. /\ allPlayers'[o] = IF o \in tables[p] THEN allPlayers[o] \ {p}
                             ELSE allPlayers[o]
          /\ tables'[q] = IF q = p THEN {} ELSE tables[q]
      BY <2>2
    <3>4. CASE q = p
      BY <3>1, <3>2, <3>3, <3>4
    <3>5. CASE q # p
      BY <3>1, <3>3, <3>5
    <3> QED
      BY <3>4, <3>5
  <2>4. \A q \in Players : tables'[q] \subseteq tables[q]
    BY <1>0, <1>4 DEF LeaveAllTables, TypeOK
  <2> QED
    BY <2>1, <2>3, <2>4 DEF MembershipAgrees
<1>5. CASE CleanupAfterClose
  <2>1. UNCHANGED <<allPlayers, tables>> /\ RunCleanup(allPlayers')
    BY <1>5 DEF CleanupAfterClose
  <2>2. \A q \in Players : \A o \in tables'[q] : o \in Objects
    BY <1>0, <2>1 DEF TypeOK
  <2> QED
    BY <2>1, <2>2, PurgeKeepsMembership DEF MembershipAgrees
<1>6. CASE UNCHANGED vars
  BY <1>6 DEF vars, Used, MembershipAgrees
<1> QED
  BY <1>1, <1>2, <1>3, <1>4, <1>5, <1>6 DEF Next

LEMMA AllInvariant == Spec => []AllInv
<1> QED
  BY AllInvInit, AllInvNext, PTL DEF Spec

(* Tables and players agree on who is where, and a table somebody is at    *)
(* can be found under exactly one id.                                      *)
THEOREM MembershipCorrect == Spec => []MembershipAgrees
<1>1. AllInv => MembershipAgrees
  BY DEF AllInv
<1> QED
  BY <1>1, AllInvariant, PTL

(* No id is given to another table while somebody is at the first one.     *)
THEOREM IdsForLifeCorrect == Spec => IdsForLife
<1>1. IdsInv /\ [Next]_vars => [IdStep]_vars
  <2> SUFFICES ASSUME IdsInv, Next PROVE IdStep
    OBVIOUS
  <2>0. TypeOK /\ IdsPartition
    BY DEF IdsInv
  <2>1. ASSUME NEW p \in Players, NewTable(p) PROVE IdStep
    <3>1. NewId \notin Used
      BY <2>0, <2>1, NewIdLemma
    <3>2. tableMap' = [i \in Used \cup {NewId} |->
                          IF i = NewId THEN created + 1 ELSE tableMap[i]]
      BY <2>1 DEF NewTable
    <3> QED
      BY <3>1, <3>2 DEF IdStep
  <2>2. ASSUME RunCleanup(allPlayers') PROVE IdStep
    <3>1. /\ \A i \in DOMAIN tableMap' : tableMap'[i] = tableMap[i]
          /\ \A i \in Used : i \in DOMAIN tableMap' <=> allPlayers'[tableMap[i]] # {}
      BY <2>0, <2>2, RunCleanupLemma
    <3> QED
      BY <3>1 DEF IdStep
  <2>3. ASSUME NEW p \in Players, NEW i \in Ids, LeaveTable(p, i) PROVE IdStep
    BY <2>2, <2>3 DEF LeaveTable
  <2>4. CASE CleanupAfterClose
    BY <2>2, <2>4 DEF CleanupAfterClose
  <2>5. ASSUME tableMap' = tableMap PROVE IdStep
    BY <2>5 DEF IdStep, Used
  <2> QED
    BY <2>1, <2>3, <2>4, <2>5 DEF Next, JoinTable, LeaveAllTables
<1> QED
  BY <1>1, IdsInvariant, PTL DEF Spec, IdsForLife
=============================================================================
