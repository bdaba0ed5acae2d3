--------------------------- MODULE Programs_proofs ---------------------------
(***************************************************************************)
(* Proofs about the programs that share no state with others: bdd_lookup   *)
(* (hw1/src/bdd.c) on any sound table; a master of the conversion          *)
(* pipelines (hw4/src/custom_functions.c), for paths, files and pipes of   *)
(* any size; and the notation tool (hw2/src/notation.c, drivers.c) on any  *)
(* input that keeps to its two rules, with any command line and any bound  *)
(* on the variations.                                                      *)
(*                                                                         *)
(* The heap of the tool is an arbitrary tree of moves, so every function   *)
(* on it is a recursion along its links.  Recursion gives what such a      *)
(* definition needs, a measure that the links go down by, and ByRank is    *)
(* the induction that belongs to it; all that is said of under, of         *)
(* insertion_point, of the automaton, of the positions of the moves rests  *)
(* on these two.                                                           *)
(***************************************************************************)
EXTENDS Bdd, Pipeline, Notation, NaturalsInduction, WellFoundedInduction, FiniteSetTheorems,
        SequenceTheorems, TLAPS

-----------------------------------------------------------------------------
(* What bdd_lookup (hw1/src/bdd.c) keeps and returns, for every size of the     *)
(* table.  The argument: a search along the slots never passes an empty one,   *)
(* and no node is ever taken out of the map, so a node that is in the table is *)
(* met before the first empty slot; and there always is an empty slot.         *)

(* The header's sizes, as numbers. *)
LEMMA Sizes ==
    /\ BDD_NUM_LEAVES \in Nat /\ BDD_NUM_LEAVES > 0
    /\ BDD_NODES_MAX \in Nat /\ BDD_LEVELS_MAX \in Nat /\ BDD_HASH_SIZE \in Nat
    /\ BDD_NUM_LEAVES <= BDD_NODES_MAX /\ BDD_NODES_MAX <= BDD_HASH_SIZE
BY BddAssumption

(* hash yields a slot of the map (custom_functions.c:55). *)
LEMMA HashInSlots ==
    ASSUME NEW nd, nd.level \in Nat, nd.left \in Nat, nd.right \in Nat
    PROVE  hash(nd) \in Slots
<1> DEFINE N == BDD_NUM_LEAVES
           a == nd.left % N
           b == nd.right % N
           c == nd.level % 16
           Q == N * N
<1>1. N \in Nat /\ N > 0
  BY Sizes
<1>2. a \in 0..N - 1 /\ b \in 0..N - 1 /\ c \in 0..15
  BY <1>1
<1>3. Q \in Nat /\ a * N \in Nat /\ a * N <= Q - N
  <2> HIDE DEF a
  <2>1. (N - 1 - a) * N >= 0
    BY <1>1, <1>2
  <2>2. (N - 1 - a) * N = Q - N - a * N
    BY <1>1, <1>2
  <2> QED BY <2>1, <2>2, <1>1, <1>2
<1>4. c * Q \in Nat /\ c * Q <= 15 * Q
  <2> HIDE DEF c, Q
  <2> QED BY <1>2, <1>3
<1>5. 16 * Q <= BDD_HASH_SIZE /\ BDD_HASH_SIZE \in Nat
  BY BddAssumption
<1>6. a * N + b + c * Q \in 0..BDD_HASH_SIZE - 1
  <2> DEFINE x == a * N
             y == c * Q
  <2>1. x \in Nat /\ x <= Q - N /\ y \in Nat /\ y <= 15 * Q /\ Q \in Nat
    BY <1>3, <1>4
  <2> HIDE DEF x, y, Q, a, b, c
  <2>2. x + b + y \in 0..BDD_HASH_SIZE - 1
    BY <2>1, <1>1, <1>2, <1>5
  <2> QED BY <2>2 DEF x, y
<1> QED BY <1>6 DEF hash, Slots

(* The search stays in the map, and in as many steps as the map has slots it   *)
(* meets every one (the wrap of bdd_lookup, bdd.c:71).                         *)
LEMMA SlotInSlots ==
    ASSUME NEW h \in Slots, NEW k \in Slots
    PROVE  slot(h, k) \in Slots
BY Sizes DEF slot, Slots

LEMMA SlotOnto ==
    ASSUME NEW h \in Slots, NEW s \in Slots
    PROVE  \E k \in Slots : slot(h, k) = s
<1>1. CASE s >= h
  <2>1. s - h \in Slots /\ slot(h, s - h) = s
    BY <1>1, Sizes DEF slot, Slots
  <2> QED BY <2>1
<1>2. CASE s < h
  <2>1. s - h + BDD_HASH_SIZE \in Slots /\ slot(h, s - h + BDD_HASH_SIZE) = s
    BY <1>2, Sizes DEF slot, Slots
  <2> QED BY <2>1
<1> QED BY <1>1, <1>2, Sizes DEF Slots

(* The map is never full: it has more slots than the table has nodes, and no   *)
(* two slots hold the same one (bdd.h:51).                                     *)
LEMMA FreeSlot ==
    ASSUME NEW t, TableSound(t)
    PROVE  \E s \in Slots : t.map[s] = NULL_INDEX
<1> SUFFICES ASSUME \A s \in Slots : t.map[s] # NULL_INDEX
             PROVE  FALSE
  OBVIOUS
<1>1. t.map \in [Slots -> InUse(t) \cup {NULL_INDEX}]
  BY DEF TableSound, MapSound
<1>2. t.map \in [Slots -> InUse(t)]
  BY <1>1
<1>3. IsFiniteSet(Slots) /\ Cardinality(Slots) = BDD_HASH_SIZE
  BY Sizes, FS_Interval DEF Slots
<1>4. t.next \in Nat /\ BDD_NUM_LEAVES <= t.next /\ t.next <= BDD_NODES_MAX
  BY Sizes DEF TableSound, NodesSound
<1>5. IsFiniteSet(InUse(t)) /\ Cardinality(InUse(t)) = t.next - BDD_NUM_LEAVES
  <2> DEFINE last == t.next - 1
  <2>1. last \in Int /\ BDD_NUM_LEAVES \in Int /\ BDD_NUM_LEAVES <= last + 1
    BY <1>4, Sizes
  <2>2. last = t.next - 1 /\ InUse(t) = BDD_NUM_LEAVES..last
    BY DEF InUse
  <2> HIDE DEF last
  <2>3. IsFiniteSet(BDD_NUM_LEAVES..last)
        /\ Cardinality(BDD_NUM_LEAVES..last) =
             IF BDD_NUM_LEAVES > last THEN 0 ELSE last - BDD_NUM_LEAVES + 1
    BY <2>1, FS_Interval
  <2> QED BY <2>1, <2>2, <2>3, <1>4
<1>6. Cardinality(InUse(t)) < Cardinality(Slots)
  BY <1>3, <1>4, <1>5, Sizes
<1>7. PICK x, y \in Slots : x # y /\ t.map[x] = t.map[y]
  BY <1>2, <1>3, <1>5, <1>6, FS_PigeonHole
<1> QED BY <1>7 DEF TableSound, MapSound

(* A search that can stop has a first step at which it stops. *)
LEMMA FirstStopExists ==
    ASSUME NEW t, NEW nd, \E k \in Slots : Stops(t, nd, k)
    PROVE  \E k \in Slots : FirstStop(t, nd, k)
<1> DEFINE T == {k \in Slots : Stops(t, nd, k)}
<1>1. T \subseteq Nat /\ T # {}
  BY DEF Slots
<1>2. PICK k \in T : \A j \in T : ~(<<j, k>> \in OpToRel(<, Nat))
  BY <1>1, NatLessThanWellFounded, WFMin, Zenon
<1>3. \A j \in T : ~(j < k)
  BY <1>1, <1>2 DEF OpToRel
<1>4. \A j \in 0..k - 1 : j \in Slots /\ j < k
  BY Sizes DEF Slots
<1>5. k \in Slots /\ FirstStop(t, nd, k)
  BY <1>3, <1>4 DEF FirstStop
<1> QED BY <1>5

(* bdd_lookup never runs through the whole map (its last return, bdd.c:73). *)
LEMMA SearchEnds ==
    ASSUME NEW t, TableSound(t), NEW nd \in Node
    PROVE  \E k \in Slots : FirstStop(t, nd, k)
<1>1. hash(nd) \in Slots
  <2>1. nd.level \in Nat /\ nd.left \in Nat /\ nd.right \in Nat
    BY Sizes DEF Node, Levels, Indices
  <2> QED BY <2>1, HashInSlots
<1>2. PICK s \in Slots : t.map[s] = NULL_INDEX
  BY FreeSlot
<1>3. PICK k \in Slots : slot(hash(nd), k) = s
  BY <1>1, SlotOnto
<1>4. Stops(t, nd, k)
  BY <1>2, <1>3 DEF Stops
<1> QED BY <1>4, FirstStopExists

(* A search that stops at an empty slot has shown that the node is in no entry *)
(* of the table.                                                               *)
LEMMA EmptyMeansAbsent ==
    ASSUME NEW t, TableSound(t), NEW nd \in Node,
           NEW k \in Slots, FirstStop(t, nd, k),
           t.map[slot(hash(nd), k)] = NULL_INDEX
    PROVE  \A p \in InUse(t) : t.nodes[p] # nd
<1> SUFFICES ASSUME NEW p \in InUse(t), t.nodes[p] = nd
             PROVE  FALSE
  OBVIOUS
<1>1. PICK z \in Slots :
        /\ t.map[slot(hash(nd), z)] = p
        /\ \A j \in 0..z - 1 : t.map[slot(hash(nd), j)] # NULL_INDEX
  BY DEF TableSound, Reached
<1>2. p # NULL_INDEX
  BY Sizes DEF TableSound, NodesSound, InUse, NULL_INDEX
<1>3. Stops(t, nd, z)
  BY <1>1 DEF Stops
<1>4. z \notin 0..k - 1
  BY <1>3 DEF FirstStop
<1>5. k \notin 0..z - 1
  BY <1>1
<1>6. z = k
  BY <1>4, <1>5, Sizes DEF Slots
<1> QED BY <1>1, <1>2, <1>6

(* A node with distinct children that the table does not have, put into the    *)
(* empty slot the search ended at, leaves the table sound: the new node is     *)
(* reached from its hash, and no other loses its way (bdd.c:57).            *)
LEMMA InsertKeepsSound ==
    ASSUME NEW t, TableSound(t), NEW nd \in Node,
           nd.left < t.next, nd.right < t.next, nd.left # nd.right,
           NEW k \in Slots, FirstStop(t, nd, k),
           t.map[slot(hash(nd), k)] = NULL_INDEX, t.next < BDD_NODES_MAX,
           NEW u, u.nodes = [t.nodes EXCEPT ![t.next] = nd],
           u.map = [t.map EXCEPT ![slot(hash(nd), k)] = t.next],
           u.next = t.next + 1
    PROVE  TableSound(u)
<1> DEFINE s == slot(hash(nd), k)
<1>1. s \in Slots
  <2>1. nd.level \in Nat /\ nd.left \in Nat /\ nd.right \in Nat
    BY Sizes DEF Node, Levels, Indices
  <2> QED BY <2>1, HashInSlots, SlotInSlots
<1>2. /\ t.next \in Nat /\ BDD_NUM_LEAVES <= t.next
      /\ t.nodes \in [Indices -> Node]
      /\ t.next \in Indices
      /\ t.map \in [Slots -> InUse(t) \cup {NULL_INDEX}]
  BY Sizes DEF TableSound, NodesSound, MapSound, Indices
<1>3. /\ InUse(u) = InUse(t) \cup {t.next}
      /\ t.next \notin InUse(t) /\ t.next # NULL_INDEX /\ NULL_INDEX \notin InUse(t)
      /\ InUse(t) \subseteq Indices
  BY <1>2, Sizes DEF InUse, NULL_INDEX, Indices
<1>4. /\ u.nodes \in [Indices -> Node]
      /\ u.nodes[t.next] = nd
      /\ \A p \in Indices : p # t.next => u.nodes[p] = t.nodes[p]
  BY <1>2
<1>5. /\ u.map[s] = t.next
      /\ \A x \in Slots : x # s => u.map[x] = t.map[x]
      /\ u.map \in [Slots -> InUse(u) \cup {NULL_INDEX}]
  BY <1>1, <1>2, <1>3
<1>6. \A p \in InUse(t) : u.nodes[p] = t.nodes[p]
  BY <1>3, <1>4
<1>7. NodesSound(u)
  <2>1. u.next \in BDD_NUM_LEAVES..BDD_NODES_MAX
    BY <1>2, Sizes
  <2>2. ASSUME NEW p \in InUse(u)
        PROVE  /\ u.nodes[p].left < p /\ u.nodes[p].right < p
               /\ u.nodes[p].left # u.nodes[p].right
    <3>1. CASE p = t.next
      BY <3>1, <1>4
    <3>2. CASE p \in InUse(t)
      BY <3>2, <1>6 DEF TableSound, NodesSound
    <3> QED BY <2>2, <3>1, <3>2, <1>3
  <2>3. \A p \in Indices \ InUse(u) : null_node(u, p)
    BY <1>3, <1>4 DEF TableSound, NodesSound, null_node
  <2> QED BY <2>1, <2>2, <2>3, <1>4 DEF NodesSound
<1>8. NodesUnique(u)
  <2>1. \A p \in InUse(t) : t.nodes[p] # nd
    BY EmptyMeansAbsent
  <2>2. \A p, j \in InUse(t) : t.nodes[p] = t.nodes[j] => p = j
    BY DEF TableSound, NodesUnique
  <2> QED BY <2>1, <2>2, <1>3, <1>4, <1>6 DEF NodesUnique
<1>9. MapSound(u)
  <2>1. \A x, y \in Slots : t.map[x] # NULL_INDEX /\ t.map[x] = t.map[y] => x = y
    BY DEF TableSound, MapSound
  <2>2. \A x \in Slots : x # s => u.map[x] # t.next
    BY <1>2, <1>3, <1>5
  <2> QED BY <2>1, <2>2, <1>5 DEF MapSound
<1>10. \A x \in Slots : t.map[x] # NULL_INDEX => u.map[x] # NULL_INDEX
  BY <1>3, <1>5
<1>11. ASSUME NEW p \in InUse(u)
       PROVE  Reached(u, p)
  <2>1. CASE p = t.next
    <3>1. ASSUME NEW j \in 0..k - 1
          PROVE  u.map[slot(hash(nd), j)] # NULL_INDEX
      <4>1. ~Stops(t, nd, j)
        BY DEF FirstStop
      <4>2. t.map[slot(hash(nd), j)] # NULL_INDEX
        BY <4>1 DEF Stops
      <4>3. slot(hash(nd), j) \in Slots
        <5>1. j \in Slots
          BY Sizes DEF Slots
        <5>2. nd.level \in Nat /\ nd.left \in Nat /\ nd.right \in Nat
          BY Sizes DEF Node, Levels, Indices
        <5> QED BY <5>1, <5>2, HashInSlots, SlotInSlots
      <4> QED BY <4>2, <4>3, <1>10
    <3> QED BY <3>1, <2>1, <1>4, <1>5 DEF Reached
  <2>2. CASE p \in InUse(t)
    <3>1. PICK z \in Slots :
            /\ t.map[slot(hash(t.nodes[p]), z)] = p
            /\ \A j \in 0..z - 1 : t.map[slot(hash(t.nodes[p]), j)] # NULL_INDEX
      BY <2>2 DEF TableSound, Reached
    <3>2. hash(t.nodes[p]) \in Slots
      <4>1. t.nodes[p] \in Node
        BY <2>2, <1>2, <1>3
      <4>2. /\ t.nodes[p].level \in Nat /\ t.nodes[p].left \in Nat
            /\ t.nodes[p].right \in Nat
        BY <4>1, Sizes DEF Node, Levels, Indices
      <4> QED BY <4>2, HashInSlots
    <3>3. slot(hash(t.nodes[p]), z) \in Slots
      BY <3>2, SlotInSlots
    <3>4. slot(hash(t.nodes[p]), z) # s
      BY <3>1, <2>2, <1>3
    <3>5. u.map[slot(hash(t.nodes[p]), z)] = p
      BY <3>1, <3>3, <3>4, <1>5
    <3>6. ASSUME NEW j \in 0..z - 1
          PROVE  u.map[slot(hash(t.nodes[p]), j)] # NULL_INDEX
      <4>1. j \in Slots
        BY Sizes DEF Slots
      <4>2. slot(hash(t.nodes[p]), j) \in Slots
        BY <4>1, <3>2, SlotInSlots
      <4> QED BY <3>1, <4>2, <1>10
    <3>7. u.nodes[p] = t.nodes[p]
      BY <2>2, <1>6
    <3> QED BY <3>5, <3>6, <3>7 DEF Reached
  <2> QED BY <2>1, <2>2, <1>3
<1> QED BY <1>7, <1>8, <1>9, <1>11 DEF TableSound

(* Calling exit changes nothing in the table. *)
LEMMA ExitKeepsSound ==
    ASSUME NEW t, TableSound(t), NEW u,
           u.nodes = t.nodes, u.map = t.map, u.next = t.next
    PROVE  TableSound(u)
BY DEF TableSound, NodesSound, NodesUnique, MapSound, Reached, InUse, null_node

(* The table of a program that has just started is sound.                      *)
THEOREM EmptyTableSound ==
    EmptyTable \in Table /\ TableSound(EmptyTable)
<1>1. Zero \in Node /\ NULL_INDEX \in Indices
  BY Sizes DEF Zero, Node, Levels, Indices, NULL_INDEX
<1>2. EmptyTable \in Table
  BY <1>1, Sizes DEF EmptyTable, Table
<1>3. InUse(EmptyTable) = {}
  BY Sizes DEF InUse, EmptyTable
<1>4. NodesSound(EmptyTable)
  <2>1. EmptyTable.next \in BDD_NUM_LEAVES..BDD_NODES_MAX
    BY Sizes DEF EmptyTable
  <2>2. EmptyTable.nodes = [p \in Indices |-> Zero]
    BY DEF EmptyTable
  <2>3. EmptyTable.nodes \in [Indices -> Node]
    BY <1>1, <2>2
  <2>4. \A p \in Indices : null_node(EmptyTable, p)
    BY <2>2 DEF null_node
  <2> QED BY <1>3, <2>1, <2>3, <2>4 DEF NodesSound
<1>5. MapSound(EmptyTable)
  BY <1>3 DEF MapSound, EmptyTable
<1> QED BY <1>2, <1>3, <1>4, <1>5 DEF TableSound, NodesUnique

(* bdd_lookup (bdd.c:37) with children that are in the table keeps the table   *)
(* sound and every entry of it, and returns the only index the node asked for  *)
(* has: its child when the two are equal, and otherwise the entry with that    *)
(* level and those children.  It ends the program exactly when that entry is   *)
(* missing and the table has no room for it.                                   *)
THEOREM LookupSound ==
    ASSUME NEW t \in Table, TableSound(t), ~t.exit,
           NEW level \in Levels,
           NEW left \in 0..t.next - 1, NEW right \in 0..t.next - 1
    PROVE  LET r == bdd_lookup(t, level, left, right)
               nd == [level |-> level, left |-> left, right |-> right]
           IN  /\ r.t \in Table /\ TableSound(r.t)
               /\ \A p \in InUse(t) : p \in InUse(r.t) /\ r.t.nodes[p] = t.nodes[p]
               /\ r.t.exit <=> /\ left # right
                              /\ t.next = BDD_NODES_MAX
                              /\ \A p \in InUse(t) : t.nodes[p] # nd
               /\ ~r.t.exit =>
                     IF left = right THEN r.n = left /\ r.t = t
                     ELSE r.n \in InUse(r.t) /\ r.t.nodes[r.n] = nd
<1> DEFINE r == bdd_lookup(t, level, left, right)
           nd == [level |-> level, left |-> left, right |-> right]
           k == CHOOSE k \in Slots : FirstStop(t, nd, k)
           s == slot(hash(nd), k)
<1>1. /\ t.next \in Nat /\ t.next <= BDD_NODES_MAX /\ BDD_NUM_LEAVES <= t.next
      /\ left \in Indices /\ right \in Indices
      /\ left < t.next /\ right < t.next
  BY Sizes DEF TableSound, NodesSound, Indices
<1>2. /\ nd \in Node /\ nd.level = level /\ nd.left = left
      /\ nd.right = right
  BY <1>1 DEF Node
<1>3. r = IF left = right THEN [t |-> t, n |-> left] ELSE Found(t, nd)
  BY <1>1 DEF bdd_lookup
<1>4. CASE left = right
  <2>1. r.t = t /\ r.n = left
    BY <1>3, <1>4
  <2> QED BY <2>1, <1>4
<1>5. CASE left # right
  <2>1. \E z \in Slots : FirstStop(t, nd, z)
    <3> HIDE DEF nd
    <3> QED BY <1>2, SearchEnds
  <2>2. k \in Slots /\ FirstStop(t, nd, k)
    <3> HIDE DEF nd
    <3> QED BY <2>1
  <2>3. s \in Slots
    <3>1. /\ nd.level \in Nat /\ nd.left \in Nat /\ nd.right \in Nat
      BY <1>1, <1>2, Sizes DEF Levels, Indices
    <3> HIDE DEF nd, k
    <3> QED BY <3>1, <2>2, HashInSlots, SlotInSlots
  <2>4. r = IF t.map[s] # NULL_INDEX THEN [t |-> t, n |-> t.map[s]]
            ELSE IF t.next < BDD_NODES_MAX /\ null_node(t, t.next)
                 THEN [t |-> Inserted(t, nd, s), n |-> t.next]
                 ELSE [t |-> [t EXCEPT !.exit = TRUE], n |-> -1]
    <3>1. r = Found(t, nd)
      BY <1>3, <1>5
    <3> HIDE DEF nd, r
    <3> QED BY <2>1, <3>1 DEF Found
  <2> HIDE DEF r, k, nd
  <2>5. CASE t.map[s] # NULL_INDEX
    <3>1. r.t = t /\ r.n = t.map[s]
      BY <2>4, <2>5
    <3>2. t.map[s] \in InUse(t)
      BY <2>3, <2>5 DEF TableSound, MapSound
    <3>3. t.nodes[t.map[s]] = nd
      BY <2>2, <2>5 DEF FirstStop, Stops
    <3>4. r.t.exit = FALSE /\ ~(\A p \in InUse(t) : t.nodes[p] # nd)
      BY <3>1, <3>2, <3>3 DEF Table
    <3> QED BY <3>1, <3>2, <3>3, <3>4, <1>5 DEF r, nd
  <2>6. CASE t.map[s] = NULL_INDEX /\ t.next < BDD_NODES_MAX
    <3>1. null_node(t, t.next)
      <4>1. t.next \in Indices \ InUse(t)
        BY <1>1, <2>6, Sizes DEF Indices, InUse
      <4> QED BY <4>1 DEF TableSound, NodesSound
    <3>2. r.t = Inserted(t, nd, s) /\ r.n = t.next
      BY <2>4, <2>6, <3>1
    <3>3. /\ r.t.nodes = [t.nodes EXCEPT ![t.next] = nd]
          /\ r.t.map = [t.map EXCEPT ![s] = t.next]
          /\ r.t.next = t.next + 1
          /\ r.t.exit = t.exit
          /\ r.t \in Table
      <4> HIDE DEF s
      <4>1. t.next \in Indices
        BY <1>1, <2>6, Sizes DEF Indices
      <4> DEFINE nodes == [t.nodes EXCEPT ![t.next] = nd]
                 map == [t.map EXCEPT ![s] = t.next]
      <4>2. Inserted(t, nd, s) =
              [nodes |-> nodes, map |-> map, next |-> t.next + 1, exit |-> t.exit]
        BY DEF Inserted
      <4>3. nodes \in [Indices -> Node] /\ map \in [Slots -> Indices]
        BY <4>1, <1>2, <2>3 DEF Table
      <4>4. t.next + 1 \in Nat /\ t.exit \in BOOLEAN
        BY <1>1 DEF Table
      <4>5. r.t = [nodes |-> nodes, map |-> map, next |-> t.next + 1, exit |-> t.exit]
        BY <3>2, <4>2
      <4>6. r.t.nodes = nodes /\ r.t.map = map /\ r.t.next = t.next + 1
            /\ r.t.exit = t.exit
        <5> HIDE DEF nodes, map
        <5> QED BY <4>5
      <4>7. r.t \in Table
        <5> HIDE DEF nodes, map
        <5> QED BY <4>3, <4>4, <4>5 DEF Table
      <4> QED BY <4>6, <4>7
    <3>4. TableSound(r.t)
      BY <1>1, <1>2, <1>5, <2>2, <2>6, <3>3, InsertKeepsSound
    <3>5. \A p \in InUse(t) : t.nodes[p] # nd
      BY <1>2, <2>2, <2>6, EmptyMeansAbsent
    <3>6. /\ r.t.nodes[t.next] = nd
          /\ \A p \in InUse(t) : p \in InUse(r.t) /\ r.t.nodes[p] = t.nodes[p]
          /\ t.next \in InUse(r.t)
      <4>1. t.nodes \in [Indices -> Node]
        BY DEF Table
      <4>2. t.next \in Indices /\ InUse(t) \subseteq Indices /\ t.next \notin InUse(t)
        BY <1>1, <2>6, Sizes DEF Indices, InUse
      <4>3. InUse(r.t) = InUse(t) \cup {t.next}
        BY <1>1, <3>3, Sizes DEF InUse
      <4> QED BY <3>3, <4>1, <4>2, <4>3
    <3>7. r.n = t.next /\ ~r.t.exit /\ t.next # BDD_NODES_MAX
      BY <2>6, <3>2, <3>3, <1>1, Sizes
    <3> QED BY <1>5, <3>3, <3>4, <3>6, <3>7 DEF r, nd
  <2>7. CASE t.map[s] = NULL_INDEX /\ ~(t.next < BDD_NODES_MAX)
    <3>1. r.t = [t EXCEPT !.exit = TRUE]
      BY <2>4, <2>7
    <3>2. /\ r.t.nodes = t.nodes /\ r.t.map = t.map /\ r.t.next = t.next
          /\ r.t.exit /\ r.t \in Table
      BY <3>1 DEF Table
    <3>3. TableSound(r.t)
      BY <3>2, ExitKeepsSound
    <3>4. t.next = BDD_NODES_MAX
      BY <1>1, <2>7, Sizes
    <3>5. \A p \in InUse(t) : t.nodes[p] # nd
      BY <1>2, <2>2, <2>7, EmptyMeansAbsent
    <3>6. InUse(r.t) = InUse(t)
      BY <3>2 DEF InUse
    <3> QED BY <1>5, <3>2, <3>3, <3>4, <3>5, <3>6 DEF r, nd
  <2> QED BY <2>5, <2>6, <2>7 DEF r, nd
<1> QED BY <1>4, <1>5

-----------------------------------------------------------------------------
(* That a master exits with 0 only after the whole file was printed rests on   *)
(* Chain: as long as no stage up to k has failed, a stage k that is gone has   *)
(* passed on the whole file, for it saw the end of its input, and that was the *)
(* end of a stage of which the same is true.                                   *)

(* A stage gives no more than it takes, and a stage that failed is gone.   *)
Flow ==
  /\ \A k \in AllStages : given[k] <= taken[k]
  /\ \A k \in failed : Gone(k)

Intact(k) == \A j \in Stages : j <= k => j \notin failed
Chain == \A k \in Stages : Gone(k) /\ Intact(k) => given[k] = Size

(* Stages are forked in their order, and where the master is.              *)
Places ==
  /\ \A k \in Stages : stage[k] # "none" <=> k < forks
  /\ master_pc = "connect" => forks = 0
  /\ master_pc = "cat" => Cat
  /\ master_pc \in {"loop", "check", "suspend", "suspended"} \/ handling => ~Cat
  /\ exit_status # -1 <=> master_pc = "exited"
  /\ ~Cat => forks <= length

Counts ==
  /\ Cat => job_process_count = 0
  /\ CountExact

MasterInv == PipelineTypeOK /\ Flow /\ Chain /\ Places /\ Counts /\ SuccessTruthful

(* The stages of a path are as many as its length.                         *)
LEMMA StagesFinite ==
  ASSUME PipelineTypeOK
  PROVE  /\ IsFiniteSet(Stages) /\ Stages \subseteq AllStages
         /\ ~Cat => Cardinality(Stages) = length
<1>1. CASE Cat
  BY <1>1, FS_Singleton, BoundsNat DEF Cat, Stages, AllStages, PipelineTypeOK
<1>2. CASE ~Cat
  <2>1. 0 \in Int /\ length - 1 \in Int /\ length > 0
    BY <1>2, BoundsNat DEF Cat, PipelineTypeOK
  <2>2. /\ IsFiniteSet(0..(length - 1))
        /\ Cardinality(0..(length - 1)) =
             IF 0 > length - 1 THEN 0 ELSE (length - 1) - 0 + 1
    BY <2>1, FS_Interval, Zenon
  <2>3. (IF 0 > length - 1 THEN 0 ELSE (length - 1) - 0 + 1) = length
    BY <2>1, BoundsNat DEF PipelineTypeOK
  <2>4. Stages = 0..(length - 1) /\ Stages \subseteq AllStages
    BY <1>2, <2>1, BoundsNat DEF Stages, AllStages, PipelineTypeOK
  <2> QED BY <2>2, <2>3, <2>4
<1> QED BY <1>1, <1>2

(* As many stages are reaped as there are only when all are.               *)
LEMMA AllReaped ==
  ASSUME PipelineTypeOK, ~Cat, Cardinality(Reaped) = length
  PROVE  Reaped = Stages
<1>1. Reaped \subseteq Stages BY DEF Reaped
<1> QED BY <1>1, StagesFinite, FS_Subset

LEMMA MasterInvInit == PipelineInit => MasterInv
<1> SUFFICES ASSUME PipelineInit PROVE MasterInv OBVIOUS
<1>0. length \in 0..MaxLength BY DEF PipelineInit
<1>s. Stages \subseteq AllStages /\ AllStages \subseteq Int
  BY <1>0, BoundsNat DEF Stages, AllStages, Cat
<1>n. \A k \in AllStages : stage[k] = "none" /\ taken[k] = 0 /\ given[k] = 0
  BY DEF PipelineInit
<1>1. PipelineTypeOK
  <2>1. 0 \in 0..Size /\ 0 \in 0..MaxLength /\ 0 \in 0..(MaxLength + 1)
    BY BoundsNat
  <2> QED BY <2>1, <1>0 DEF PipelineInit, PipelineTypeOK
<1>2. Flow /\ Chain /\ SuccessTruthful
  BY <1>n, <1>s DEF PipelineInit, Flow, Chain, SuccessTruthful, Gone
<1>3. Places
  <2>1. \A k \in Stages : ~(k < 0)
    BY <1>0, BoundsNat DEF Stages, Cat
  <2>2. 0 <= length BY <1>0, BoundsNat
  <2> QED BY <2>1, <2>2, <1>n, <1>s DEF PipelineInit, Places
<1>4. Reaped = {} BY <1>n, <1>s DEF Reaped
<1>5. Counts BY <1>4, FS_EmptySet DEF PipelineInit, Counts, CountExact
<1> QED BY <1>1, <1>2, <1>3, <1>5 DEF MasterInv

(* Steps that only read or write data.                                     *)
LEMMA DataStep ==
  ASSUME MasterInv, NEW k \in Stages, Read(k) \/ Write(k)
  PROVE  MasterInv'
<1> USE DEF MasterInv, masterVars
<1>0. k \in AllStages /\ Stages' = Stages /\ Cat' = Cat
  BY StagesFinite DEF Read, Write, Stages, Cat
<1>t. \A j \in AllStages : taken[j] \in 0..Size /\ given[j] \in 0..Size
  BY DEF PipelineTypeOK
<1>o. Offered(k) \in 0..Size
  BY <1>t, <1>0, BoundsNat DEF Offered, Stages, AllStages, Cat, PipelineTypeOK
<1>1. /\ taken' \in [AllStages -> 0..Size] /\ given' \in [AllStages -> 0..Size]
      /\ \A j \in AllStages : given'[j] <= taken'[j]
  <2>1. CASE Read(k)
    BY <2>1, <1>0, <1>t, <1>o, BoundsNat DEF Read, Carries, PipelineTypeOK, Flow
  <2>2. CASE Write(k)
    BY <2>2, <1>0, <1>t, BoundsNat DEF Write, Carries, PipelineTypeOK, Flow
  <2> QED BY <2>1, <2>2
<1>2. PipelineTypeOK' BY <1>0, <1>1 DEF PipelineTypeOK, Read, Write
<1>3. Flow' BY <1>1 DEF Flow, Gone, Read, Write
<1>4. \A j \in Stages : Gone(j) => given'[j] = given[j]
  BY <1>0, StagesFinite DEF Read, Write, Gone, Runs, PipelineTypeOK
<1>5. Chain' BY <1>4, <1>0 DEF Chain, Gone, Intact, Read, Write
<1>6. Places' BY <1>0 DEF Places, Read, Write
<1>7. Reaped' = Reaped BY <1>0 DEF Reaped, Read, Write
<1>8. Counts' BY <1>7, <1>0 DEF Counts, CountExact, Read, Write
<1>9. SuccessTruthful'
  <2>1. SUFFICES ASSUME exit_status = 0 PROVE FALSE
    BY <1>0 DEF SuccessTruthful, Read, Write
  <2> QED BY <2>1 DEF SuccessTruthful, Reaped, Read, Write, Runs
<1> QED BY <1>2, <1>3, <1>5, <1>6, <1>8, <1>9

(* A stage ends.                                                           *)
LEMMA EndStep ==
  ASSUME MasterInv, NEW k \in Stages, StageSucceeds(k) \/ StageFails(k) \/ StageBreaks(k)
  PROVE  MasterInv'
<1> USE DEF MasterInv, masterVars, dataVars, StageEnds
<1> DEFINE Step == StageSucceeds(k) \/ StageFails(k) \/ StageBreaks(k)
<1>a. /\ stage' = [stage EXCEPT ![k] = "ended"] /\ UNCHANGED <<length, masterVars, dataVars>>
      /\ Runs(k) /\ sigchld' = (sigchld \/ master_pc # "exited")
      /\ failed' = failed \/ failed' = failed \cup {k}
  BY DEF StageSucceeds, StageFails, StageBreaks
<1>0. k \in AllStages /\ Stages' = Stages /\ Cat' = Cat
  BY <1>a, StagesFinite DEF Stages, Cat
<1>1. PipelineTypeOK' BY <1>a, <1>0 DEF PipelineTypeOK
<1>2. Flow' BY <1>a, <1>0, StagesFinite DEF Flow, Gone, PipelineTypeOK
<1>3. Chain'
  <2> SUFFICES ASSUME NEW j \in Stages, Gone(j)', Intact(j)' PROVE given[j] = Size
    BY <1>0, <1>a DEF Chain
  <2>1. Intact(j) BY <1>a, <1>0 DEF Intact
  <2>2. CASE j # k BY <2>2, <2>1, <1>a, <1>0, StagesFinite DEF Chain, Gone, PipelineTypeOK
  <2>3. CASE j = k
    <3>1. k \notin failed'
      <4>1. k \in Int /\ k <= k BY BoundsNat DEF Stages, PipelineTypeOK
      <4> QED BY <4>1, <2>3, <1>0 DEF Intact
    <3>2. ~Carries(k) /\ InputEnds(k)
      BY <3>1 DEF StageSucceeds, StageFails, StageBreaks
    <3>3. given[k] \in 0..Size /\ taken[k] \in 0..Size /\ given[k] <= taken[k]
      BY <1>0 DEF PipelineTypeOK, Flow
    <3>4. given[k] = Offered(k)
      BY <3>2, <3>3, BoundsNat DEF Carries, InputEnds, Offered
    <3>5. CASE k = 0 BY <3>5, <3>4, <2>3 DEF Offered
    <3>6. CASE k > 0
      <4>1. k - 1 \in Stages /\ k \in Nat /\ k - 1 < k
        BY <3>6 DEF Stages, PipelineTypeOK
      <4>2. Intact(k - 1)
        <5> SUFFICES ASSUME NEW z \in Stages, z <= k - 1 PROVE z \notin failed
          BY DEF Intact
        <5>1. z <= k BY <4>1 DEF Stages, PipelineTypeOK
        <5> QED BY <5>1, <2>1, <2>3 DEF Intact
      <4>3. given[k - 1] = Size
        BY <4>1, <4>2, <3>2, <3>6 DEF Chain, InputEnds
      <4> QED BY <4>1, <4>3, <3>4, <3>6, <2>3 DEF Offered
    <3> QED BY <3>5, <3>6 DEF Stages, PipelineTypeOK
  <2> QED BY <2>2, <2>3
<1>4. Places' BY <1>a, <1>0, StagesFinite DEF Places, Runs, PipelineTypeOK
<1>5. Reaped' = Reaped BY <1>a, <1>0, StagesFinite DEF Reaped, Runs, PipelineTypeOK
<1>6. k \notin Reaped BY <1>a DEF Reaped, Runs
<1>7. Reaped' \cap failed' = Reaped \cap failed BY <1>5, <1>6, <1>a
<1>8. Counts' BY <1>a, <1>0, <1>5, <1>7 DEF Counts, CountExact
<1>9. SuccessTruthful'
  <2>1. SUFFICES ASSUME exit_status = 0 PROVE FALSE
    BY <1>a DEF SuccessTruthful
  <2> QED BY <2>1, <1>6 DEF SuccessTruthful
<1> QED BY <1>1, <1>2, <1>3, <1>4, <1>8, <1>9

(* Steps of the master that change no stage.                               *)
LEMMA QuietStep ==
  ASSUME MasterInv,
         \/ Connect \/ ConnectFails \/ ForkFails \/ LoopEnds \/ CheckCount \/ Suspend
         \/ HandlerEnter \/ HandlerReturn
  PROVE  MasterInv'
<1> USE DEF MasterInv, dataVars
<1>a. UNCHANGED <<length, forks, job_process_count, exitValue, stage, failed, dataVars>>
  BY DEF Connect, ConnectFails, ForkFails, LoopEnds, CheckCount, Suspend,
         HandlerEnter, HandlerReturn, Exit
<1>0. Stages' = Stages /\ Cat' = Cat /\ Reaped' = Reaped /\ Printed' = Printed
  BY <1>a DEF Stages, Cat, Reaped, Printed
<1>1. PipelineTypeOK' BY <1>a, <1>0
  DEF PipelineTypeOK, Connect, ConnectFails, ForkFails, LoopEnds, CheckCount, Suspend,
      HandlerEnter, HandlerReturn, Exit
<1>2. Flow' /\ Chain' /\ Counts'
  BY <1>a, <1>0 DEF Flow, Chain, Gone, Intact, Counts, CountExact
<1>3. Places' BY <1>a, <1>0
  DEF Places, Connect, ConnectFails, ForkFails, LoopEnds, CheckCount, Suspend,
      HandlerEnter, HandlerReturn, Exit, PipelineTypeOK
<1>4. SuccessTruthful'
  <2>1. CASE exit_status' = exit_status BY <2>1, <1>a, <1>0 DEF SuccessTruthful
  <2>2. CASE exit_status' # 0 BY <2>2 DEF SuccessTruthful
  <2>3. CASE exit_status' # exit_status /\ exit_status' = 0
    <3>1. master_pc = "check" /\ job_process_count = length /\ exitValue = 0
      BY <2>3 DEF Connect, ConnectFails, ForkFails, LoopEnds, CheckCount, Suspend,
         HandlerEnter, HandlerReturn, Exit
    <3>2. ~Cat BY <3>1 DEF Places
    <3>3. Reaped = Stages BY <3>1, <3>2, AllReaped DEF Counts, CountExact
    <3>4. failed = {}
      BY <3>1, <3>2, <3>3 DEF Counts, CountExact, PipelineTypeOK
    <3>5. length - 1 \in Stages /\ Gone(length - 1) /\ Intact(length - 1)
      <4>1. length - 1 \in Stages BY <3>2 DEF Stages, Cat, PipelineTypeOK
      <4> QED BY <4>1, <3>3, <3>4 DEF Gone, Intact, Reaped
    <3>6. Printed = Size BY <3>5, <3>2 DEF Chain, Printed
    <3> QED BY <3>3, <3>4, <3>6, <1>0, <1>a DEF SuccessTruthful
  <2> QED BY <2>1, <2>2, <2>3
<1> QED BY <1>1, <1>2, <1>3, <1>4

(* A stage is forked.                                                      *)
LEMMA ForkStep ==
  ASSUME MasterInv, ForkCat \/ ForkStage
  PROVE  MasterInv'
<1> USE DEF MasterInv, dataVars
<1>a. /\ stage' = [stage EXCEPT ![forks] = "running"] /\ forks' = forks + 1
      /\ UNCHANGED <<length, master_pc, job_process_count, exitValue, exit_status, handling,
                     sigchld, failed, dataVars>>
  BY DEF ForkCat, ForkStage, Fork
<1>0. Stages' = Stages /\ Cat' = Cat BY <1>a DEF Stages, Cat
<1>forks. forks \in Stages /\ forks \in AllStages /\ forks \in Nat
  <2>1. forks \in Nat BY DEF PipelineTypeOK
  <2>2. forks \in Stages
    BY <2>1 DEF ForkCat, ForkStage, Stages, Places, Cat, PipelineTypeOK
  <2> QED BY <2>1, <2>2, StagesFinite
<1>s. stage[forks] = "none" BY <1>forks DEF Places
<1>1. PipelineTypeOK'
  <2>1. forks + 1 \in 0..(MaxLength + 1) BY <1>forks, BoundsNat DEF AllStages
  <2> QED BY <2>1, <1>a, <1>0, <1>forks DEF PipelineTypeOK
<1>2. Flow' BY <1>a, <1>s, <1>forks, StagesFinite DEF Flow, Gone, PipelineTypeOK
<1>3. Chain' BY <1>a, <1>0, <1>forks, StagesFinite DEF Chain, Gone, Intact, PipelineTypeOK
<1>4. Places'
  <2>1. \A k \in Stages : stage'[k] # "none" <=> k < forks + 1
    BY <1>a, <1>forks, StagesFinite DEF Places, PipelineTypeOK, Stages
  <2>2. master_pc # "connect" /\ (~Cat => forks + 1 <= length)
    BY <1>forks DEF ForkCat, ForkStage, Places, PipelineTypeOK
  <2> QED BY <2>1, <2>2, <1>a, <1>0 DEF Places
<1>5. Reaped' = Reaped BY <1>a, <1>0, <1>s, <1>forks, StagesFinite DEF Reaped, PipelineTypeOK
<1>6. Counts' BY <1>a, <1>0, <1>5 DEF Counts, CountExact
<1>7. SuccessTruthful'
  <2>1. exit_status # 0 BY DEF ForkCat, ForkStage, Places
  <2> QED BY <2>1, <1>a DEF SuccessTruthful
<1> QED BY <1>1, <1>2, <1>3, <1>4, <1>6, <1>7

(* A stage is reaped, by the handler or by the waitpid for cat.            *)
LEMMA ReapStep ==
  ASSUME MasterInv, NEW k \in Stages, HandlerReap(k) \/ (k = 0 /\ WaitCat)
  PROVE  MasterInv'
<1> USE DEF MasterInv, dataVars
<1>a. /\ stage' = [stage EXCEPT ![k] = "reaped"] /\ stage[k] = "ended"
      /\ UNCHANGED <<length, forks, handling, sigchld, failed, dataVars>>
  BY DEF HandlerReap, WaitCat
<1>0. Stages' = Stages /\ Cat' = Cat /\ k \in AllStages /\ Printed' = Printed
  BY <1>a, StagesFinite DEF Stages, Cat, Printed
<1>r. Reaped' = Reaped \cup {k} /\ k \notin Reaped
  BY <1>a, <1>0, StagesFinite DEF Reaped, PipelineTypeOK
<1>g. \A j \in Stages : Gone(j)' <=> Gone(j)
  BY <1>a, <1>0, StagesFinite DEF Gone, PipelineTypeOK
<1>f. IsFiniteSet(Reaped) /\ Cardinality(Reaped') = Cardinality(Reaped) + 1
      /\ Cardinality(Reaped') <= Cardinality(Stages)
  <2>1. Reaped' \subseteq Stages /\ Reaped \subseteq Stages BY <1>r DEF Reaped
  <2> QED BY <2>1, <1>r, StagesFinite, FS_Subset, FS_AddElement
<1>2. Flow' BY <1>g, <1>a, <1>0 DEF Flow, PipelineTypeOK
<1>3. Chain' BY <1>g, <1>a, <1>0 DEF Chain, Intact
<1>4. CASE HandlerReap(k)
  <2> USE <1>4 DEF HandlerReap
  <2>1. ~Cat BY DEF Places
  <2>2. Counts' BY <2>1, <1>0, <1>r, <1>f, <1>a DEF Counts, CountExact, PipelineTypeOK
  <2>3. job_process_count' \in 0..MaxLength
    BY <2>1, <1>f, StagesFinite, BoundsNat, FS_CardinalityType DEF Counts, CountExact, PipelineTypeOK
  <2>4. PipelineTypeOK' BY <2>3, <1>a, <1>0 DEF PipelineTypeOK
  <2>5. Places' BY <1>a, <1>0, StagesFinite DEF Places, PipelineTypeOK
  <2>6. SuccessTruthful'
    <3>1. exit_status # 0 BY <1>r DEF SuccessTruthful
    <3> QED BY <3>1 DEF SuccessTruthful
  <2> QED BY <1>2, <1>3, <2>2, <2>4, <2>5, <2>6
<1>5. CASE k = 0 /\ WaitCat
  <2> USE <1>5 DEF WaitCat, Exit
  <2>1. Cat BY DEF Places
  <2>2. Counts' BY <2>1, <1>0 DEF Counts, CountExact
  <2>3. PipelineTypeOK' BY <1>a, <1>0 DEF PipelineTypeOK
  <2>4. Places' BY <2>1, <1>a, <1>0, StagesFinite DEF Places, PipelineTypeOK
  <2>5. SuccessTruthful'
    <3>1. SUFFICES ASSUME 0 \notin failed
                   PROVE  Reaped' = Stages /\ failed = {} /\ Printed = Size
      BY <1>0, <1>a DEF SuccessTruthful
    <3>2. Stages = {0} BY <2>1 DEF Stages
    <3>3. failed = {} /\ Reaped' = Stages
      BY <3>1, <3>2, <1>r DEF PipelineTypeOK, Reaped
    <3>4. Printed = Size
      BY <3>2, <3>3, <2>1, <1>a DEF Printed, Chain, Gone, Intact
    <3> QED BY <3>3, <3>4
  <2> QED BY <1>2, <1>3, <2>2, <2>3, <2>4, <2>5
<1> QED BY <1>4, <1>5

LEMMA MasterInvStep == MasterInv /\ [PipelineNext]_pipelineVars => MasterInv'
<1> SUFFICES ASSUME MasterInv, [PipelineNext]_pipelineVars PROVE MasterInv' OBVIOUS
<1>1. CASE UNCHANGED pipelineVars
  BY <1>1 DEF MasterInv, pipelineVars, masterVars, dataVars, PipelineTypeOK, Flow, Chain, Intact, Places,
     Counts, CountExact, SuccessTruthful, Gone, Reaped, Printed, Stages, Cat
<1>2. CASE \E k \in Stages : Read(k) \/ Write(k)
  BY <1>2, DataStep
<1>3. CASE \E k \in Stages : StageSucceeds(k) \/ StageFails(k) \/ StageBreaks(k)
  BY <1>3, EndStep
<1>4. CASE \/ Connect \/ ConnectFails \/ ForkFails \/ LoopEnds \/ CheckCount \/ Suspend
           \/ HandlerEnter \/ HandlerReturn
  BY <1>4, QuietStep
<1>5. CASE ForkCat \/ ForkStage BY <1>5, ForkStep
<1>6. CASE \E k \in Stages : HandlerReap(k) BY <1>6, ReapStep
<1>7. CASE WaitCat
  <2>1. 0 \in Stages BY <1>7 DEF WaitCat, MasterInv, Places, Stages
  <2> QED BY <2>1, <1>7, ReapStep
<1> QED BY <1>1, <1>2, <1>3, <1>4, <1>5, <1>6, <1>7 DEF PipelineNext, Master, Handler, Stage

(* The invariant holds in every reachable state of a master.               *)
THEOREM PipelineCorrect == PipelineSpec => []MasterInv
BY MasterInvInit, MasterInvStep, PTL DEF PipelineSpec

(* A master that exits with 0 has printed the whole file, through stages   *)
(* none of which failed.                                                   *)
THEOREM SuccessTruthfulHolds == PipelineSpec => []SuccessTruthful
BY PipelineCorrect, PTL DEF MasterInv

(* What the master waits for is the exact number of reaped stages.         *)
THEOREM CountExactHolds == PipelineSpec => []CountExact
<1>1. MasterInv => CountExact BY DEF MasterInv, Counts
<1> QED BY <1>1, PipelineCorrect, PTL

(* The proofs by induction below look for a least bad case.                *)
LEMMA Least ==
  ASSUME NEW S \in SUBSET Nat, S # {}
  PROVE  \E k \in S : \A j \in S : k <= j
<1>1. PICK k \in S : \A j \in S : ~(<<j, k>> \in OpToRel(<, Nat))
  BY NatLessThanWellFounded, WFMin, Zenon
<1>2. \A j \in S : j \in Nat /\ k \in Nat
  OBVIOUS
<1>3. \A j \in S : ~(j < k)
  BY <1>1, <1>2 DEF OpToRel
<1> QED
  BY <1>2, <1>3

\* B holds at a place of D whenever it holds at every lower rank
Inherits(D, rank, B) ==
  /\ rank \in [D -> Nat] /\ B \in SUBSET D
  /\ \A x \in D : (\A y \in D : rank[y] < rank[x] => y \in B) => x \in B

\* What holds wherever it holds at every lower rank holds everywhere.
LEMMA ByRank ==
  ASSUME NEW D, NEW rank, NEW B, Inherits(D, rank, B)
  PROVE  B = D
<1> USE DEF Inherits
<1> DEFINE bad == {rank[x] : x \in D \ B}
<1>1. SUFFICES ASSUME D \ B # {} PROVE FALSE
  OBVIOUS
<1>2. bad # {} /\ bad \in SUBSET Nat
  BY <1>1
<1>3. PICK k \in bad : \A j \in bad : k <= j
  BY <1>2, Least
<1>4. PICK x \in D \ B : k = rank[x]
  BY <1>3
<1>5. ASSUME NEW y \in D, rank[y] < rank[x] PROVE y \in B
  <2>1. rank[y] \in Nat /\ rank[x] \in Nat
    OBVIOUS
  <2>2. rank[y] \notin bad
    <3> HIDE DEF bad
    <3> QED BY <1>2, <1>3, <1>4, <1>5, <2>1
  <2> QED BY <2>2
<1>6. x \in D /\ x \notin B
  OBVIOUS
<1> QED
  BY <1>5, <1>6

\* G, what a recursive definition makes of a function, depends at each place of
\* D on what the function is at lower ranks only
LooksDown(D, A, n, rank, G) ==
  /\ n \in Nat /\ rank \in [D -> 0 .. n]
  /\ G \in [[D -> A] -> [D -> A]] /\ A # {}
  /\ \A f, g \in [D -> A] : \A x \in D :
       (\A y \in D : rank[y] < rank[x] => f[y] = g[y]) => G[f][x] = G[g][x]

\* A function defined by such a recursion exists.
LEMMA Recursion ==
  ASSUME NEW D, NEW A, NEW n, NEW rank, NEW G, LooksDown(D, A, n, rank, G)
  PROVE  \E f \in [D -> A] : f = G[f]
<1> USE DEF LooksDown
<1> DEFINE Upto(f, k) == \A x \in D : rank[x] < k => f[x] = G[f][x]
           K == {k \in 0 .. n + 1 : \E f \in [D -> A] : Upto(f, k)}
<1>1. \A k \in 0 .. n + 1 : (\A j \in 0 .. n + 1 : j < k => j \in K) => k \in K
  <2> SUFFICES ASSUME NEW k \in 0 .. n + 1, \A j \in 0 .. n + 1 : j < k => j \in K
               PROVE  \E f \in [D -> A] : Upto(f, k)
    OBVIOUS
  <2>1. CASE k = 0
    <3>1. PICK a : a \in A
      OBVIOUS
    <3>2. [x \in D |-> a] \in [D -> A]
      BY <3>1
    <3>3. Upto([x \in D |-> a], k)
      BY <2>1
    <3> QED BY <3>2, <3>3
  <2>2. CASE k # 0
    <3>1. k - 1 \in K
      BY <2>2
    <3>2. PICK f \in [D -> A] : Upto(f, k - 1)
      BY <3>1
    <3>3. G[f] \in [D -> A]
      OBVIOUS
    <3>4. ASSUME NEW x \in D, rank[x] < k PROVE G[f][x] = G[G[f]][x]
      <4>1. \A y \in D : rank[y] < rank[x] => f[y] = G[f][y]
        BY <2>2, <3>2, <3>4
      <4> QED BY <3>3, <4>1
    <3> QED BY <3>3, <3>4
  <2> QED BY <2>1, <2>2
<1>2. K = 0 .. n + 1
  <2> DEFINE bad == (0 .. n + 1) \ K
  <2>1. SUFFICES ASSUME bad # {} PROVE FALSE
    OBVIOUS
  <2>2. bad \in SUBSET Nat
    OBVIOUS
  <2>3. PICK k \in bad : \A j \in bad : k <= j
    <3> HIDE DEF bad
    <3> QED BY <2>1, <2>2, Least
  <2>4. \A j \in 0 .. n + 1 : j < k => j \in K
    <3> HIDE DEF K
    <3> QED BY <2>3
  <2> HIDE DEF K
  <2> QED BY <1>1, <2>3, <2>4
<1>3. n + 1 \in K
  <2> HIDE DEF K
  <2> QED BY <1>2
<1>4. PICK f \in [D -> A] : Upto(f, n + 1)
  BY <1>3
<1>5. \A x \in D : f[x] = G[f][x]
  BY <1>4
<1> QED BY <1>5

-----------------------------------------------------------------------------
(* The heap of moves.                                                      *)
\* the links of a heap of at most n moves lead to later moves
Rising(nodes, n) ==
  /\ DOMAIN nodes \subseteq 1 .. n
  /\ \A x \in DOMAIN nodes : \A y \in {nodes[x].next, nodes[x].sub} :
       y = NULL \/ (y \in DOMAIN nodes /\ x < y)

\* every move but the first hangs from another
Hung(nodes, c) ==
  /\ c \in DOMAIN nodes
  /\ \A y \in DOMAIN nodes \ {c} : \E x \in DOMAIN nodes : y \in {nodes[x].next, nodes[x].sub}

\* How far a move is from the end of the heap: what the recursions along the
\* links go down by.
Distance(nodes, n) == [x \in DOMAIN nodes \cup {NULL} |-> IF x = NULL THEN 0 ELSE n + 1 - x]

\* The links lead down by that measure.
LEMMA DistanceFalls ==
  ASSUME NEW n \in Nat, NEW nodes, Rising(nodes, n)
  PROVE  /\ Distance(nodes, n) \in [DOMAIN nodes \cup {NULL} -> 0 .. n]
         /\ \A x \in DOMAIN nodes : \A y \in {nodes[x].next, nodes[x].sub} :
              y \in DOMAIN nodes \cup {NULL} /\ Distance(nodes, n)[y] < Distance(nodes, n)[x]
  BY DEF Rising, Distance, NULL

\* What free_move_list frees is the whole heap but the move it starts at.
LEMMA UnderIsAll ==
  ASSUME NEW n \in Nat, NEW nodes, NEW c, Rising(nodes, n), Hung(nodes, c)
  PROVE  under(nodes, c) \cup {c} = DOMAIN nodes /\ c \notin under(nodes, c)
<1> DEFINE D == DOMAIN nodes \cup {NULL}
           rank == Distance(nodes, n)
           body(f) == [x \in D |-> IF x = NULL THEN {}
                                   ELSE {x} \cup f[nodes[x].next] \cup f[nodes[x].sub]]
           list == CHOOSE f : f = body(f)
<1>1. /\ rank \in [D -> 0 .. n] /\ rank \in [D -> Nat] /\ NULL \notin DOMAIN nodes
      /\ \A x \in DOMAIN nodes : /\ nodes[x].next \in D /\ rank[nodes[x].next] < rank[x]
                                 /\ nodes[x].sub \in D /\ rank[nodes[x].sub] < rank[x]
  <2>1. rank \in [D -> 0 .. n]
    BY DistanceFalls
  <2>2. rank \in [D -> Nat]
    BY <2>1
  <2>3. NULL \notin DOMAIN nodes
    BY DEF Rising, NULL
  <2> QED BY <2>1, <2>2, <2>3, DistanceFalls
<1> HIDE DEF rank
<1>2. \E f \in [D -> SUBSET D] : f = body(f)
  <2> DEFINE A == SUBSET D
             G == [f \in [D -> A] |-> body(f)]
  <2>1. ASSUME NEW f \in [D -> A] PROVE body(f) \in [D -> A]
    BY <1>1
  <2>2. G \in [[D -> A] -> [D -> A]]
    BY <2>1
  <2>3. ASSUME NEW f \in [D -> A], NEW g \in [D -> A], NEW x \in D,
               \A y \in D : rank[y] < rank[x] => f[y] = g[y]
        PROVE  G[f][x] = G[g][x]
    BY <1>1, <2>3
  <2>4. \A f \in [D -> A] : G[f] = body(f)
    OBVIOUS
  <2>5. A # {}
    OBVIOUS
  <2> HIDE DEF G, D, body
  <2>6. LooksDown(D, A, n, rank, G)
    <3>1. n \in Nat /\ rank \in [D -> 0 .. n]
      BY <1>1
    <3> QED BY <3>1, <2>2, <2>3, <2>5 DEF LooksDown
  <2> HIDE DEF A
  <2>7. \E f \in [D -> A] : f = G[f]
    BY <2>6, Recursion
  <2> QED BY <2>4, <2>7 DEF A
<1>3. list = body(list)
  <2> HIDE DEF body
  <2> QED BY <1>2
<1>4. under(nodes, c) = list[nodes[c].next] \cup list[nodes[c].sub]
  BY DEF under
<1> HIDE DEF list
<1>5. /\ list[NULL] = {}
      /\ \A x \in DOMAIN nodes : list[x] = {x} \cup list[nodes[x].next] \cup list[nodes[x].sub]
  BY <1>1, <1>3
<1> DEFINE closed(S) == \A z \in S : \A y \in {nodes[z].next, nodes[z].sub} : y = NULL \/ y \in S
           good == {x \in D : /\ list[x] \subseteq DOMAIN nodes /\ closed(list[x])
                            /\ \A y \in list[x] : x <= y}
<1>6. good = D
  <2>1. ASSUME NEW x \in D, \A y \in D : rank[y] < rank[x] => y \in good PROVE x \in good
    <3>1. CASE x = NULL
      BY <1>5, <3>1
    <3>2. CASE x # NULL
      <4> DEFINE a == nodes[x].next
                 b == nodes[x].sub
      <4>1. x \in DOMAIN nodes
        BY <3>2
      <4>2. a \in D /\ b \in D /\ a \in good /\ b \in good
        <5> HIDE DEF good
        <5> QED BY <1>1, <2>1, <4>1
      <4>3. list[x] = {x} \cup list[a] \cup list[b]
        BY <1>5, <4>1
      <4>4. (a = NULL \/ a \in list[a]) /\ (b = NULL \/ b \in list[b])
        BY <1>5, <4>2
      <4>5. closed(list[x])
        BY <4>2, <4>3, <4>4
      <4>6. \A y \in list[x] : x <= y
        <5>1. x \in Nat /\ (a # NULL => x < a) /\ (b # NULL => x < b)
          BY <4>1 DEF Rising
        <5>2. list[a] \subseteq DOMAIN nodes /\ list[b] \subseteq DOMAIN nodes /\ DOMAIN nodes \subseteq Nat
          BY <4>2 DEF Rising
        <5>3. a \in Nat /\ b \in Nat /\ (a = NULL => list[a] = {}) /\ (b = NULL => list[b] = {})
          BY <1>5, <4>2 DEF Rising, NULL
        <5>4. (\A y \in list[a] : a <= y) /\ (\A y \in list[b] : b <= y)
          BY <4>2
        <5> HIDE DEF a, b
        <5>5. \A y \in list[a] \cup list[b] : x <= y
          BY <5>1, <5>2, <5>3, <5>4
        <5> QED BY <4>3, <5>1, <5>5
      <4> QED BY <4>1, <4>2, <4>3, <4>5, <4>6
    <3> QED BY <3>1, <3>2
  <2>2. good \in SUBSET D
    OBVIOUS
  <2> HIDE DEF good, D
  <2>3. Inherits(D, rank, good)
    BY <1>1, <2>1, <2>2 DEF Inherits
  <2> QED BY <2>3, ByRank
<1> DEFINE U == under(nodes, c) \cup {c}
<1>7. c \in DOMAIN nodes /\ nodes[c].next \in D /\ nodes[c].sub \in D
  BY <1>1 DEF Hung
<1>8. U = list[c]
  BY <1>4, <1>5, <1>7
<1>9. c \in U /\ U \subseteq DOMAIN nodes /\ closed(U)
  <2>1. c \in good
    BY <1>6, <1>7
  <2> QED BY <1>8, <2>1
<1>10. DOMAIN nodes \subseteq U
  <2> DEFINE bad == DOMAIN nodes \ U
  <2>1. SUFFICES ASSUME bad # {} PROVE FALSE
    OBVIOUS
  <2>2. bad \in SUBSET Nat
    BY DEF Rising
  <2>3. PICK y \in bad : \A z \in bad : y <= z
    <3> HIDE DEF bad
    <3> QED BY <2>1, <2>2, Least
  <2>4. y \in DOMAIN nodes /\ y # c /\ y \notin U
    BY <1>9
  <2>5. PICK x \in DOMAIN nodes : y \in {nodes[x].next, nodes[x].sub}
    BY <2>4 DEF Hung
  <2>6. x < y /\ x \in Nat /\ y \in Nat
    BY <1>1, <2>4, <2>5 DEF Rising
  <2>7. x \in U
    BY <2>3, <2>6
  <2> HIDE DEF U
  <2> QED BY <1>1, <1>9, <2>4, <2>5, <2>7
<1>11. c \notin under(nodes, c)
  <2> DEFINE a == nodes[c].next
             b == nodes[c].sub
  <2>1. a \in good /\ b \in good
    BY <1>6, <1>7
  <2>2. (\A y \in list[a] : a <= y) /\ (\A y \in list[b] : b <= y)
    BY <2>1
  <2>3. c \in Nat /\ a \in Nat /\ b \in Nat /\ (a = NULL \/ c < a) /\ (b = NULL \/ c < b)
    BY <1>7 DEF Rising, NULL
  <2>4. c \in list[a] => a = NULL
    <3> HIDE DEF a
    <3> QED BY <2>2, <2>3
  <2>5. c \in list[b] => b = NULL
    <3> HIDE DEF b
    <3> QED BY <2>2, <2>3
  <2> HIDE DEF a, b
  <2>6. c \notin list[a] /\ c \notin list[b]
    BY <1>5, <2>4, <2>5
  <2> QED BY <1>4, <2>6 DEF a, b
<1> QED BY <1>9, <1>10, <1>11

\* Where a variation is linked, no other hangs.
LEMMA InsertionPoint ==
  ASSUME NEW n \in Nat, Rising(node, n), NEW mo \in DOMAIN node
  PROVE  insertion_point(mo) \in DOMAIN node /\ node[insertion_point(mo)].sub = NULL
<1> DEFINE D == DOMAIN node
           rank == [x \in D |-> n - x]
           body(f) == [x \in D |-> IF node[x].sub = NULL THEN x ELSE f[node[x].sub]]
           ip == CHOOSE f : f = body(f)
<1>1. /\ rank \in [D -> 0 .. n] /\ rank \in [D -> Nat]
      /\ \A x \in D : node[x].sub # NULL => node[x].sub \in D /\ rank[node[x].sub] < rank[x]
  BY DEF Rising
<1> HIDE DEF rank
<1>2. \E f \in [D -> D] : f = body(f)
  <2> DEFINE G == [f \in [D -> D] |-> body(f)]
  <2>1. ASSUME NEW f \in [D -> D] PROVE body(f) \in [D -> D]
    BY <1>1
  <2>2. G \in [[D -> D] -> [D -> D]]
    BY <2>1
  <2>3. ASSUME NEW f \in [D -> D], NEW g \in [D -> D], NEW x \in D,
               \A y \in D : rank[y] < rank[x] => f[y] = g[y]
        PROVE  G[f][x] = G[g][x]
    BY <1>1, <2>3
  <2>4. \A f \in [D -> D] : G[f] = body(f)
    OBVIOUS
  <2>5. D # {}
    OBVIOUS
  <2> HIDE DEF G, D, body
  <2>6. LooksDown(D, D, n, rank, G)
    <3>1. n \in Nat /\ rank \in [D -> 0 .. n]
      BY <1>1
    <3> QED BY <3>1, <2>2, <2>3, <2>5 DEF LooksDown
  <2>7. \E f \in [D -> D] : f = G[f]
    BY <2>6, Recursion
  <2> QED BY <2>4, <2>7
<1>3. ip = body(ip)
  <2> HIDE DEF body
  <2> QED BY <1>2
<1>4. insertion_point(mo) = ip[mo]
  BY DEF insertion_point
<1> HIDE DEF ip
<1>5. \A x \in D : ip[x] = IF node[x].sub = NULL THEN x ELSE ip[node[x].sub]
  BY <1>3
<1> DEFINE good == {x \in D : ip[x] \in D /\ node[ip[x]].sub = NULL}
<1>6. good = D
  <2>1. ASSUME NEW x \in D, \A y \in D : rank[y] < rank[x] => y \in good PROVE x \in good
    BY <1>1, <1>5, <2>1
  <2>2. good \in SUBSET D
    OBVIOUS
  <2> HIDE DEF good, D
  <2>3. Inherits(D, rank, good)
    BY <1>1, <2>1, <2>2 DEF Inherits
  <2> QED BY <2>3, ByRank
<1> QED BY <1>4, <1>6

-----------------------------------------------------------------------------
(* The moves.                                                              *)
\* the depl records
Moves ==
  [uid: Nat, next: Nat, prev: Nat, sub: Nat, move: Nat, whiteturn: BOOLEAN,
   type: VOID .. PROM_ET_PRISE, piece: VOID .. PAWN, prise: VOID .. PAWN, promotion: VOID .. PAWN,
   fromlig: 0 .. SIZE - 1, fromcol: 0 .. SIZE - 1, tolig: 0 .. SIZE - 1, tocol: 0 .. SIZE - 1]

\* the moves with the links, the turn and the number of d
Like(d) == {n \in Moves : /\ n.uid = d.uid /\ n.next = d.next /\ n.prev = d.prev /\ n.sub = d.sub
                          /\ n.move = d.move /\ n.whiteturn = d.whiteturn}

\* the types the parser writes
ReadTypes == {MOVE, PRISE, PROMOTION, PROM_ET_PRISE}
Parsed(d)   == {n \in Like(d) : n.type \in ReadTypes}

\* the states of the parser's automaton while it reads into d
Automaton(d) ==
  [etat: -1 .. TML, num: -1 .. 17, d: Parsed(d), piece: VOID .. PAWN, col: 0 .. 8, lig: 0 .. 8]

\* A letter of the table is a piece.
LEMMA PieceIsPiece ==
  ASSUME NEW lang, NEW c
  PROVE  piece(lang, c) \in VOID .. PAWN
<1>1. CASE ispiece(lang, c)
  <2>1. \E p \in VOID .. PAWN : c_language[lang][p + 1] = c
    BY <1>1 DEF ispiece
  <2>2. (CHOOSE p \in VOID .. PAWN : c_language[lang][p + 1] = c) \in VOID .. PAWN
    <3> HIDE DEF c_language
    <3> QED BY <2>1
  <2> QED BY <1>1, <2>2 DEF piece
<1>2. CASE ~ispiece(lang, c)
  BY <1>2 DEF piece, VOID, PAWN
<1> QED BY <1>1, <1>2

\* The tables: columns are only read where one is written, and lines.
LEMMA Tables ==
  ASSUME NEW etat \in 0 .. 9, NEW code \in 0 .. 7
  PROVE  /\ transit[etat + 1][code + 1] \in -1 .. TML
         /\ action[etat + 1][code + 1] \in -1 .. 17
         /\ action[etat + 1][code + 1] \in {2, 13} => code = 1
         /\ action[etat + 1][code + 1] = 3 => code = 2
<1>1. CASE etat = 0 BY <1>1 DEF transit, action, TML
<1>2. CASE etat = 1 BY <1>2 DEF transit, action, TML
<1>3. CASE etat = 2 BY <1>3 DEF transit, action, TML
<1>4. CASE etat = 3 BY <1>4 DEF transit, action, TML
<1>5. CASE etat = 4 BY <1>5 DEF transit, action, TML
<1>6. CASE etat = 5 BY <1>6 DEF transit, action, TML
<1>7. CASE etat = 6 BY <1>7 DEF transit, action, TML
<1>8. CASE etat = 7 BY <1>8 DEF transit, action, TML
<1>9. CASE etat = 8 BY <1>9 DEF transit, action, TML
<1>10. CASE etat = 9 BY <1>10 DEF transit, action, TML
<1> QED BY <1>1, <1>2, <1>3, <1>4, <1>5, <1>6, <1>7, <1>8, <1>9, <1>10

\* The columns of the automaton.
LEMMA CodeOf ==
  ASSUME NEW lang, NEW s
  PROVE  /\ typechar(lang, s) \in 0 .. 7
         /\ typechar(lang, s) = 1 => s.k = "col"
         /\ typechar(lang, s) = 2 => s.k = "lig"
<1> DEFINE l == s.k = "letter" /\ ispiece(lang, s.v)
<1> HIDE DEF l
<1>1. typechar(lang, s) =
        CASE l -> 0
          [] s.k = "col" -> 1
          [] s.k = "lig" -> 2
          [] s.k = "-"   -> 3
          [] s.k = "x"   -> 4
          [] s.k = "="   -> 5
          [] s.k = "end" -> 6
          [] OTHER       -> 7
  BY DEF typechar, l
<1> DEFINE any == l \/ s.k \in {"col", "lig", "-", "x", "=", "end"}
<1>2. l => s.k = "letter"
  BY DEF l
<1>3. CASE l BY <1>1, <1>2, <1>3
<1>4. CASE s.k = "col" /\ ~l BY <1>1, <1>4
<1>5. CASE s.k = "lig" /\ ~l BY <1>1, <1>5
<1>6. CASE s.k = "-" /\ ~l BY <1>1, <1>6
<1>7. CASE s.k = "x" /\ ~l BY <1>1, <1>7
<1>8. CASE s.k = "=" /\ ~l BY <1>1, <1>8
<1>9. CASE s.k = "end" /\ ~l BY <1>1, <1>9
<1>10. CASE ~any BY <1>1, <1>10
<1> QED BY <1>3, <1>4, <1>5, <1>6, <1>7, <1>8, <1>9, <1>10

\* What the parser, the search and the drivers write into a move leaves its
\* links, its turn and its number.
LEMMA Writing ==
  ASSUME NEW d, NEW e \in Like(d)
  PROVE  /\ \A p \in VOID .. PAWN : /\ [e EXCEPT !.piece = p] \in Like(d)
                                   /\ [e EXCEPT !.prise = p] \in Like(d)
                                   /\ [e EXCEPT !.promotion = p] \in Like(d)
         /\ \A t \in VOID .. PROM_ET_PRISE : [e EXCEPT !.type = t] \in Like(d)
         /\ \A c \in 0 .. SIZE - 1 : /\ [e EXCEPT !.fromcol = c] \in Like(d)
                                    /\ [e EXCEPT !.fromlig = c] \in Like(d)
                                    /\ [e EXCEPT !.tocol = c] \in Like(d)
                                    /\ [e EXCEPT !.tolig = c] \in Like(d)
<1> USE DEF Like, Moves
<1>1. \A p \in VOID .. PAWN : [e EXCEPT !.piece = p] \in Like(d)
  OBVIOUS
<1>2. \A p \in VOID .. PAWN : [e EXCEPT !.prise = p] \in Like(d)
  OBVIOUS
<1>3. \A p \in VOID .. PAWN : [e EXCEPT !.promotion = p] \in Like(d)
  OBVIOUS
<1>4. \A t \in VOID .. PROM_ET_PRISE : [e EXCEPT !.type = t] \in Like(d)
  OBVIOUS
<1>5. \A c \in 0 .. SIZE - 1 : [e EXCEPT !.fromcol = c] \in Like(d)
  OBVIOUS
<1>6. \A c \in 0 .. SIZE - 1 : [e EXCEPT !.fromlig = c] \in Like(d)
  OBVIOUS
<1>7. \A c \in 0 .. SIZE - 1 : [e EXCEPT !.tocol = c] \in Like(d)
  OBVIOUS
<1>8. \A c \in 0 .. SIZE - 1 : [e EXCEPT !.tolig = c] \in Like(d)
  OBVIOUS
<1> QED BY <1>1, <1>2, <1>3, <1>4, <1>5, <1>6, <1>7, <1>8

\* The same, for what the parser writes.
LEMMA ReadWriting ==
  ASSUME NEW d, NEW e \in Parsed(d)
  PROVE  /\ \A p \in VOID .. PAWN : /\ [e EXCEPT !.piece = p] \in Parsed(d)
                                   /\ [e EXCEPT !.prise = p] \in Parsed(d)
                                   /\ [e EXCEPT !.promotion = p] \in Parsed(d)
         /\ \A t \in ReadTypes : [e EXCEPT !.type = t] \in Parsed(d)
         /\ \A c \in 0 .. SIZE - 1 : /\ [e EXCEPT !.fromcol = c] \in Parsed(d)
                                    /\ [e EXCEPT !.fromlig = c] \in Parsed(d)
                                    /\ [e EXCEPT !.tocol = c] \in Parsed(d)
                                    /\ [e EXCEPT !.tolig = c] \in Parsed(d)
<1>1. e \in Like(d) /\ e.type \in ReadTypes /\ e \in Moves
  BY DEF Parsed, Like
<1>2. ReadTypes \subseteq VOID .. PROM_ET_PRISE
  BY DEF ReadTypes, VOID, MOVE, PRISE, PROMOTION, PROM_ET_PRISE
<1>3. ASSUME NEW p \in VOID .. PAWN
      PROVE  /\ [e EXCEPT !.piece = p] \in Parsed(d)
             /\ [e EXCEPT !.prise = p] \in Parsed(d)
             /\ [e EXCEPT !.promotion = p] \in Parsed(d)
  <2>1. /\ [e EXCEPT !.piece = p].type = e.type /\ [e EXCEPT !.prise = p].type = e.type
        /\ [e EXCEPT !.promotion = p].type = e.type
    BY <1>1 DEF Moves
  <2> QED BY <1>1, <2>1, Writing DEF Parsed
<1>4. ASSUME NEW t \in ReadTypes PROVE [e EXCEPT !.type = t] \in Parsed(d)
  <2>1. [e EXCEPT !.type = t].type = t
    BY <1>1 DEF Moves
  <2> QED BY <1>1, <1>2, <2>1, Writing DEF Parsed
<1>5. ASSUME NEW c \in 0 .. SIZE - 1
      PROVE  /\ [e EXCEPT !.fromcol = c] \in Parsed(d)
             /\ [e EXCEPT !.fromlig = c] \in Parsed(d)
             /\ [e EXCEPT !.tocol = c] \in Parsed(d)
             /\ [e EXCEPT !.tolig = c] \in Parsed(d)
  <2>1. /\ [e EXCEPT !.fromcol = c].type = e.type /\ [e EXCEPT !.fromlig = c].type = e.type
        /\ [e EXCEPT !.tocol = c].type = e.type /\ [e EXCEPT !.tolig = c].type = e.type
    BY <1>1 DEF Moves
  <2> QED BY <1>1, <2>1, Writing DEF Parsed
<1> QED BY <1>3, <1>4, <1>5

\* A step of the automaton reads into the move it is given.
LEMMA ExecuteKeeps ==
  ASSUME NEW d \in Moves, NEW a \in Automaton(d), NEW lang, NEW s, NEW num \in -1 .. 17,
         num \in {2, 13} => s.v \in 1 .. 8, num = 3 => s.v \in 1 .. 8
  PROVE  execute(num, lang, s, a) \in Automaton(d)
<1> DEFINE p == piece(lang, s.v)
           from == [a.d EXCEPT !.piece = a.piece, !.fromcol = a.col, !.fromlig = a.lig]
           to   == [a.d EXCEPT !.tocol = a.col, !.tolig = a.lig]
<1>1. p \in VOID .. PAWN
  BY PieceIsPiece
<1> HIDE DEF p
<1>2. /\ a.d \in Parsed(d) /\ a.piece \in VOID .. PAWN /\ a.col \in 0 .. 8 /\ a.lig \in 0 .. 8
      /\ a = [etat |-> a.etat, num |-> a.num, d |-> a.d, piece |-> a.piece, col |-> a.col, lig |-> a.lig]
      /\ a.etat \in -1 .. TML /\ a.num \in -1 .. 17
  BY DEF Automaton
<1>4. QUEEN \in VOID .. PAWN /\ a.col \in 0 .. SIZE - 1 /\ a.lig \in 0 .. SIZE - 1
      /\ {MOVE, PRISE, PROMOTION, PROM_ET_PRISE} \subseteq ReadTypes
      /\ a.d.type \in ReadTypes
  BY <1>2 DEF VOID, PAWN, QUEEN, SIZE, ReadTypes, Parsed
<1>5. from \in Parsed(d) /\ to \in Parsed(d)
  <2> DEFINE e1 == [a.d EXCEPT !.piece = a.piece]
             e2 == [e1 EXCEPT !.fromcol = a.col]
             e3 == [a.d EXCEPT !.tocol = a.col]
  <2>1. e1 \in Parsed(d) /\ e3 \in Parsed(d)
    BY <1>2, <1>4, ReadWriting
  <2>2. from = [e2 EXCEPT !.fromlig = a.lig] /\ to = [e3 EXCEPT !.tolig = a.lig]
    OBVIOUS
  <2> HIDE DEF e1, e3
  <2>3. e2 \in Parsed(d) /\ to \in Parsed(d)
    BY <1>2, <1>4, <2>1, <2>2, ReadWriting
  <2> HIDE DEF e2
  <2> QED BY <1>2, <1>4, <2>2, <2>3, ReadWriting
<1>6. execute(num, lang, s, a) =
        CASE num \in {1, 15} ->
             [a EXCEPT !.piece = p, !.d.promotion = IF num = 15 THEN p ELSE @]
        [] num = 2  -> [a EXCEPT !.col = s.v]
        [] num = 3  -> [a EXCEPT !.lig = s.v]
        [] num = 4  -> [a EXCEPT !.d = from]
        [] num = 5  -> [a EXCEPT !.d = [from EXCEPT !.type = PRISE, !.prise = a.piece]]
        [] num \in {6, 7} -> [a EXCEPT !.d = [to EXCEPT !.piece = a.piece]]
        [] num \in {8, 9} -> [a EXCEPT !.d = to]
        [] num = 10 -> [a EXCEPT !.d.piece = a.piece, !.d.type = PRISE]
        [] num = 13 -> [a EXCEPT !.d = [from EXCEPT !.type = MOVE], !.col = s.v]
        [] num = 14 ->
             [a EXCEPT !.piece = QUEEN,
                       !.d = [to EXCEPT !.promotion = QUEEN,
                                        !.type = IF @ = PRISE THEN PROM_ET_PRISE ELSE PROMOTION]]
        [] OTHER -> a
  BY DEF execute, p
<1> DEFINE x == execute(num, lang, s, a)
           Made(e, q, c, l) == [etat |-> a.etat, num |-> a.num, d |-> e, piece |-> q, col |-> c, lig |-> l]
<1>7. \A e \in Parsed(d), q \in VOID .. PAWN, c \in 0 .. 8, l \in 0 .. 8 : Made(e, q, c, l) \in Automaton(d)
  BY <1>2 DEF Automaton
<1> HIDE DEF from, to
<1>8. CASE num \in {1, 15}
  <2> DEFINE e == [a.d EXCEPT !.promotion = IF num = 15 THEN p ELSE a.d.promotion]
  <2>1. x = [a EXCEPT !.piece = p, !.d = e]
    <3>1. x = [a EXCEPT !.piece = p, !.d.promotion = IF num = 15 THEN p ELSE @]
      BY <1>6, <1>8
    <3>2. [a EXCEPT !.piece = p, !.d.promotion = IF num = 15 THEN p ELSE @] = [a EXCEPT !.piece = p, !.d = e]
      BY <1>2
    <3> QED BY <3>1, <3>2
  <2>2. a.d.promotion \in VOID .. PAWN
    BY <1>2 DEF Parsed, Like, Moves
  <2>3. e \in Parsed(d)
    BY <1>1, <1>2, <1>4, <2>2, ReadWriting
  <2>4. [a EXCEPT !.piece = p, !.d = e] \in Automaton(d)
    <3> HIDE DEF e
    <3> QED BY <1>1, <2>3 DEF Automaton
  <2> HIDE DEF e, x
  <2>5. x \in Automaton(d)
    BY <2>1, <2>4
  <2> QED BY <2>5 DEF x
<1>9. CASE num \in {2, 3, 4, 8, 9}
  <2>1. CASE num = 2
    <3>1. x = Made(a.d, a.piece, s.v, a.lig)
      BY <1>2, <1>6, <2>1
    <3>2. s.v \in 0 .. 8
      BY <2>1
    <3> QED BY <1>2, <1>7, <3>1, <3>2
  <2>2. CASE num = 3
    <3>1. x = Made(a.d, a.piece, a.col, s.v)
      BY <1>2, <1>6, <2>2
    <3>2. s.v \in 0 .. 8
      BY <2>2
    <3> QED BY <1>2, <1>7, <3>1, <3>2
  <2>3. CASE num = 4
    <3>1. x = Made(from, a.piece, a.col, a.lig)
      BY <1>2, <1>6, <2>3
    <3> QED BY <1>2, <1>5, <1>7, <3>1
  <2>4. CASE num \in {8, 9}
    <3>1. x = Made(to, a.piece, a.col, a.lig)
      BY <1>2, <1>6, <2>4
    <3> QED BY <1>2, <1>5, <1>7, <3>1
  <2> QED BY <1>9, <2>1, <2>2, <2>3, <2>4
<1>10. CASE num = 5
  <2> DEFINE e1 == [from EXCEPT !.type = PRISE]
             e == [e1 EXCEPT !.prise = a.piece]
  <2>1. x = Made(e, a.piece, a.col, a.lig)
    BY <1>2, <1>6, <1>10
  <2>2. e1 \in Parsed(d)
    BY <1>2, <1>4, <1>5, ReadWriting
  <2> HIDE DEF e1
  <2>3. e \in Parsed(d)
    BY <1>2, <1>4, <2>2, ReadWriting
  <2> QED BY <1>2, <1>7, <2>1, <2>3
<1>11. CASE num \in {6, 7}
  <2> DEFINE e == [to EXCEPT !.piece = a.piece]
  <2>1. x = Made(e, a.piece, a.col, a.lig)
    BY <1>2, <1>6, <1>11
  <2>2. e \in Parsed(d)
    BY <1>2, <1>4, <1>5, ReadWriting
  <2> QED BY <1>2, <1>7, <2>1, <2>2
<1>12. CASE num = 10
  <2> DEFINE e1 == [a.d EXCEPT !.piece = a.piece]
             e == [e1 EXCEPT !.type = PRISE]
  <2>1. x = Made(e, a.piece, a.col, a.lig)
    <3>1. x = [a EXCEPT !.d.piece = a.piece, !.d.type = PRISE]
      BY <1>6, <1>12
    <3>2. [a EXCEPT !.d.piece = a.piece, !.d.type = PRISE] = [a EXCEPT !.d = e]
      BY <1>2
    <3> HIDE DEF e
    <3>3. [a EXCEPT !.d = e] = Made(e, a.piece, a.col, a.lig)
      BY <1>2
    <3> QED BY <3>1, <3>2, <3>3
  <2>2. e1 \in Parsed(d)
    BY <1>2, <1>4, ReadWriting
  <2> HIDE DEF e1
  <2>3. e \in Parsed(d)
    BY <1>2, <1>4, <2>2, ReadWriting
  <2> QED BY <1>2, <1>7, <2>1, <2>3
<1>13. CASE num = 13
  <2> DEFINE e == [from EXCEPT !.type = MOVE]
  <2>1. x = [a EXCEPT !.d = e, !.col = s.v]
    BY <1>6, <1>13
  <2>2. e \in Parsed(d)
    BY <1>2, <1>4, <1>5, ReadWriting
  <2>3. s.v \in 0 .. 8
    BY <1>13
  <2>4. [a EXCEPT !.d = e, !.col = s.v] \in Automaton(d)
    <3> HIDE DEF e
    <3> QED BY <2>2, <2>3 DEF Automaton
  <2> HIDE DEF e, x
  <2>5. x \in Automaton(d)
    BY <2>1, <2>4
  <2> QED BY <2>5 DEF x
<1>14. CASE num = 14
  <2> DEFINE e1 == [to EXCEPT !.promotion = QUEEN]
             e == [e1 EXCEPT !.type = IF to.type = PRISE THEN PROM_ET_PRISE ELSE PROMOTION]
  <2>1. x = [a EXCEPT !.piece = QUEEN, !.d = e]
    <3>1. [to EXCEPT !.promotion = QUEEN, !.type = IF @ = PRISE THEN PROM_ET_PRISE ELSE PROMOTION] = e
      BY <1>5 DEF Parsed, Like, Moves
    <3> QED BY <1>6, <1>14, <3>1
  <2>2. e1 \in Parsed(d)
    BY <1>2, <1>4, <1>5, ReadWriting
  <2> HIDE DEF e1
  <2>3. e \in Parsed(d)
    BY <1>2, <1>4, <2>2, ReadWriting
  <2>4. [a EXCEPT !.piece = QUEEN, !.d = e] \in Automaton(d)
    <3> HIDE DEF e
    <3> QED BY <1>4, <2>3 DEF Automaton
  <2> HIDE DEF e, x
  <2>5. x \in Automaton(d)
    BY <2>1, <2>4
  <2> QED BY <2>5 DEF x
<1>15. CASE num \notin {1, 2, 3, 4, 5, 6, 7, 8, 9, 10, 13, 14, 15}
  BY <1>6, <1>15
<1> QED
  BY <1>8, <1>9, <1>10, <1>11, <1>12, <1>13, <1>14, <1>15

\* the spellings the scanner lets through
Legible(s) ==
  sequence(s) /\ \A n \in DOMAIN s : s[n].k \in {"col", "lig"} => s[n].v \in 1 .. 8

\* A spelling with its end is legible as well.
LEMMA TokenOf ==
  ASSUME NEW s, Legible(s)
  PROVE  /\ Len(Append(s, END)) \in Nat
         /\ \A i \in 1 .. Len(Append(s, END)) :
              Append(s, END)[i].k \in {"col", "lig"} => Append(s, END)[i].v \in 1 .. 8
<1> DEFINE X == {s[n] : n \in 1 .. Len(s)}
<1>1. Len(s) \in Nat /\ s = [n \in 1 .. Len(s) |-> s[n]]
  BY DEF Legible, sequence
<1>2. s \in Seq(X)
  BY <1>1
<1>3. \A i \in 1 .. Len(s) : s[i].k \in {"col", "lig"} => s[i].v \in 1 .. 8
  BY <1>1 DEF Legible
<1> HIDE DEF X
<1>4. /\ Len(Append(s, END)) = Len(s) + 1
      /\ \A i \in 1 .. Len(s) : Append(s, END)[i] = s[i]
      /\ Append(s, END)[Len(s) + 1] = END
  BY <1>1, <1>2
<1>5. END.k = "end"
  BY DEF END
<1>6. ASSUME NEW i \in 1 .. Len(Append(s, END)),
             Append(s, END)[i].k \in {"col", "lig"}
      PROVE  Append(s, END)[i].v \in 1 .. 8
  <2>1. i \in 1 .. Len(s) \/ i = Len(s) + 1
    BY <1>1, <1>4
  <2>2. CASE i \in 1 .. Len(s)
    BY <1>3, <1>4, <1>6, <2>2
  <2>3. CASE i = Len(s) + 1
    BY <1>4, <1>5, <1>6, <2>3
  <2> QED BY <2>1, <2>2, <2>3
<1> QED BY <1>1, <1>4, <1>6

\* A move starts as one that reads nothing.
LEMMA InitParse ==
  ASSUME NEW d \in Moves
  PROVE  init_parse(d) \in Parsed(d)
<1> DEFINE e1 == [d EXCEPT !.type = MOVE]
           e2 == [e1 EXCEPT !.piece = VOID]
           e3 == [e2 EXCEPT !.fromcol = 0]
           e4 == [e3 EXCEPT !.fromlig = 0]
           e5 == [e4 EXCEPT !.tocol = 0]
           e6 == [e5 EXCEPT !.tolig = 0]
           e7 == [e6 EXCEPT !.promotion = VOID]
           e8 == [e7 EXCEPT !.prise = VOID]
<1>1. init_parse(d) = e8
  BY DEF init_parse
<1>2. /\ VOID \in VOID .. PAWN /\ 0 \in 0 .. SIZE - 1
      /\ MOVE \in VOID .. PROM_ET_PRISE /\ MOVE \in ReadTypes
  BY DEF VOID, PAWN, SIZE, MOVE, PROM_ET_PRISE, ReadTypes
<1>3. e1 \in Parsed(d)
  <2>1. d \in Like(d)
    BY DEF Like
  <2>2. e1 \in Like(d)
    BY <1>2, <2>1, Writing
  <2> QED BY <1>2, <2>2 DEF Parsed, Like, Moves
<1> HIDE DEF e1
<1>4. e2 \in Parsed(d)
  BY <1>2, <1>3, ReadWriting
<1> HIDE DEF e2
<1>5. e3 \in Parsed(d)
  BY <1>2, <1>4, ReadWriting
<1> HIDE DEF e3
<1>6. e4 \in Parsed(d)
  BY <1>2, <1>5, ReadWriting
<1> HIDE DEF e4
<1>7. e5 \in Parsed(d)
  BY <1>2, <1>6, ReadWriting
<1> HIDE DEF e5
<1>8. e6 \in Parsed(d)
  BY <1>2, <1>7, ReadWriting
<1> HIDE DEF e6
<1>9. e7 \in Parsed(d)
  BY <1>2, <1>8, ReadWriting
<1> HIDE DEF e7
<1>10. e8 \in Parsed(d)
  BY <1>2, <1>9, ReadWriting
<1> QED BY <1>1, <1>10

\* The parser reads into the move it is given.
LEMMA ParseReads ==
  ASSUME NEW d \in Moves, NEW lang, NEW s, Legible(s)
  PROVE  parse(lang, d, s) \in Automaton(d)
<1> DEFINE token == Append(s, END)
           L == Len(token)
           D == 0 .. L
           A == Automaton(d)
           rank == [i \in D |-> i]
           step(a, t) ==
             LET code == typechar(lang, t)
                 num  == action[a.etat + 1][code + 1]
             IN  [execute(num, lang, t, a) EXCEPT !.num = num, !.etat = transit[a.etat + 1][code + 1]]
           begin == [etat |-> 0, num |-> 0, d |-> init_parse(d), piece |-> VOID, col |-> 0, lig |-> 0]
           body(f) == [i \in D |->
              IF i = 0 THEN begin
              ELSE IF f[i - 1].etat \in {-1, TML} THEN f[i - 1] ELSE step(f[i - 1], token[i])]
           run == CHOOSE f : f = body(f)
<1>1. L \in Nat /\ \A i \in 1 .. L : token[i].k \in {"col", "lig"} => token[i].v \in 1 .. 8
  BY TokenOf
<1>2. begin \in A
  BY InitParse DEF Automaton, VOID, PAWN, TML
<1>3. ASSUME NEW a \in A, a.etat \notin {-1, TML}, NEW i \in 1 .. L
      PROVE  step(a, token[i]) \in A
  <2> DEFINE t == token[i]
             code == typechar(lang, t)
             num == action[a.etat + 1][code + 1]
             x == execute(num, lang, t, a)
  <2>1. a.etat \in 0 .. 9
    BY <1>3 DEF Automaton, TML
  <2>2. code \in 0 .. 7 /\ (code = 1 => t.k = "col") /\ (code = 2 => t.k = "lig")
    BY CodeOf
  <2> HIDE DEF code
  <2>3. /\ num \in -1 .. 17 /\ transit[a.etat + 1][code + 1] \in -1 .. TML
        /\ (num \in {2, 13} => code = 1) /\ (num = 3 => code = 2)
    BY <2>1, <2>2, Tables
  <2> HIDE DEF num, t
  <2>4. (num \in {2, 13} => t.v \in 1 .. 8) /\ (num = 3 => t.v \in 1 .. 8)
    BY <1>1, <2>2, <2>3 DEF t
  <2>5. x \in A
    BY <2>3, <2>4, ExecuteKeeps
  <2> HIDE DEF x
  <2>6. [x EXCEPT !.num = num, !.etat = transit[a.etat + 1][code + 1]] \in A
    BY <2>3, <2>5 DEF Automaton
  <2> QED BY <2>6 DEF x, num, code, t
<1> HIDE DEF token, A, step, begin
<1>4. \E f \in [D -> A] : f = body(f)
  <2> DEFINE G == [f \in [D -> A] |-> body(f)]
  <2>1. ASSUME NEW f \in [D -> A] PROVE body(f) \in [D -> A]
    BY <1>1, <1>2, <1>3
  <2>2. G \in [[D -> A] -> [D -> A]]
    BY <2>1
  <2>3. ASSUME NEW f \in [D -> A], NEW g \in [D -> A], NEW x \in D,
               \A y \in D : rank[y] < rank[x] => f[y] = g[y]
        PROVE  G[f][x] = G[g][x]
    BY <1>1, <2>3
  <2>4. \A f \in [D -> A] : G[f] = body(f)
    OBVIOUS
  <2>5. A # {}
    BY <1>2
  <2>6. rank \in [D -> 0 .. L]
    BY <1>1
  <2> HIDE DEF G, D, body, rank
  <2>7. LooksDown(D, A, L, rank, G)
    BY <1>1, <2>2, <2>3, <2>5, <2>6 DEF LooksDown
  <2>8. \E f \in [D -> A] : f = G[f]
    BY <2>7, Recursion
  <2> QED BY <2>4, <2>8
<1>5. run = body(run)
  <2> HIDE DEF body
  <2> QED BY <1>4
<1>6. parse(lang, d, s) = run[L]
  BY DEF parse, token, step, begin
<1> HIDE DEF run
<1>7. \A i \in D : run[i] = IF i = 0 THEN begin
                           ELSE IF run[i - 1].etat \in {-1, TML} THEN run[i - 1]
                           ELSE step(run[i - 1], token[i])
  BY <1>5
<1> DEFINE good == {i \in D : run[i] \in A}
<1>8. good = D
  <2>1. ASSUME NEW i \in D, \A y \in D : rank[y] < rank[i] => y \in good PROVE i \in good
    <3>1. CASE i = 0
      BY <1>2, <1>7, <3>1
    <3>2. CASE i # 0
      <4>1. i - 1 \in D /\ rank[i - 1] < rank[i] /\ i \in 1 .. L
        BY <1>1, <3>2
      <4>2. run[i - 1] \in A
        BY <2>1, <4>1
      <4> QED BY <1>3, <1>7, <3>2, <4>1, <4>2
    <3> QED BY <3>1, <3>2
  <2>2. good \in SUBSET D /\ rank \in [D -> Nat]
    BY <1>1
  <2> HIDE DEF good, D, rank
  <2>3. Inherits(D, rank, good)
    BY <2>1, <2>2 DEF Inherits
  <2> QED BY <2>3, ByRank
<1>9. L \in D
  BY <1>1
<1> QED BY <1>6, <1>8, <1>9 DEF A

-----------------------------------------------------------------------------
(* The command line.                                                       *)
Driver ==
  [type: Drivers, algebraic: BOOLEAN, only_board: BOOLEAN, print_headers: BOOLEAN,
   out_table: DOMAIN c_language, variation: 0 .. VARIATION_MAX, iswhiteturn: BOOLEAN, interrupt: BOOLEAN]

Shown == [moves: Seq(Nat), stop: BOOLEAN]

\* what the options have set so far
Settings ==
  [dr: Driver, driver: Drivers, lang: DOMAIN c_language, shown: Shown, exit: {"no", "0", "1"}]

\* the command lines main is given
Usable(opts) ==
  /\ sequence(opts)
  /\ \A n \in DOMAIN opts : /\ opts[n].o = "c" => opts[n].v \in Seq(Nat)
                            /\ opts[n].o = "e" => opts[n].v \in Nat

\* An option leaves usable settings.
LEMMA OptionKeeps ==
  ASSUME NEW a \in Settings, NEW o, o.o = "c" => o.v \in Seq(Nat), o.o = "e" => o.v \in Nat
  PROVE  option(a, o) \in Settings
<1> DEFINE x == option(a, o)
           lang == IF o.v \in DOMAIN c_language THEN o.v ELSE DEFAULT_LANGUAGE
           driver == IF o.v \in Drivers THEN o.v ELSE "ascii"
<1>1. lang \in DOMAIN c_language
  BY NotationAssumption
<1>2. driver \in Drivers
  BY DEF Drivers
<1>3. a.dr \in Driver /\ a.shown \in Shown
  BY DEF Settings
<1> HIDE DEF lang, driver
<1>4. CASE a.exit # "no"
  BY <1>4 DEF option
<1>5. CASE a.exit = "no" /\ o.o \in {"a", "s", "b", "i", "t"}
  <2> DEFINE e == CASE o.o = "a" -> [a.dr EXCEPT !.algebraic = TRUE]
                    [] o.o = "s" -> [a.dr EXCEPT !.algebraic = FALSE]
                    [] o.o = "t" -> [a.dr EXCEPT !.out_table = lang]
                    [] o.o = "b" -> [a.dr EXCEPT !.only_board = TRUE]
                    [] o.o = "i" -> [a.dr EXCEPT !.print_headers = FALSE]
  <2>1. x = [a EXCEPT !.dr = e]
    <3>1. CASE o.o = "a"
      BY <1>5, <3>1 DEF option, Settings
    <3>2. CASE o.o = "s"
      BY <1>5, <3>2 DEF option, Settings
    <3>3. CASE o.o = "b"
      BY <1>5, <3>3 DEF option, Settings
    <3>4. CASE o.o = "i"
      BY <1>5, <3>4 DEF option, Settings
    <3>5. CASE o.o = "t"
      BY <1>5, <3>5 DEF option, Settings, lang
    <3> QED BY <1>5, <3>1, <3>2, <3>3, <3>4, <3>5
  <2>2. e \in Driver
    <3> HIDE DEF Drivers
    <3>1. CASE o.o = "a"
      BY <1>3, <3>1 DEF Driver
    <3>2. CASE o.o = "s"
      BY <1>3, <3>2 DEF Driver
    <3>3. CASE o.o = "b"
      BY <1>3, <3>3 DEF Driver
    <3>4. CASE o.o = "i"
      BY <1>3, <3>4 DEF Driver
    <3>5. CASE o.o = "t"
      BY <1>1, <1>3, <3>5 DEF Driver
    <3> QED BY <1>5, <3>1, <3>2, <3>3, <3>4, <3>5
  <2> HIDE DEF e
  <2>3. [a EXCEPT !.dr = e] \in Settings
    BY <2>2 DEF Settings
  <2> HIDE DEF x
  <2>4. x \in Settings
    BY <2>1, <2>3
  <2> QED BY <2>4 DEF x
<1>6. CASE a.exit = "no" /\ o.o = "f"
  <2>1. x = [a EXCEPT !.lang = lang]
    BY <1>6 DEF option, lang
  <2>2. [a EXCEPT !.lang = lang] \in Settings
    BY <1>1 DEF Settings
  <2> QED BY <2>1, <2>2
<1>7. CASE a.exit = "no" /\ o.o = "d"
  <2>1. x = [a EXCEPT !.driver = driver]
    BY <1>7 DEF option, driver
  <2>2. [a EXCEPT !.driver = driver] \in Settings
    BY <1>2 DEF Settings
  <2> QED BY <2>1, <2>2
<1>8. CASE a.exit = "no" /\ o.o = "c"
  <2> DEFINE mv == a.shown.moves \o o.v
             ex == IF Len(mv) > NB_MOVE_TO_DISP THEN "1" ELSE "no"
             e == [a.shown EXCEPT !.moves = mv]
  <2>1. mv \in Seq(Nat)
    BY <1>3, <1>8 DEF Shown
  <2>2. ex \in {"no", "0", "1"}
    OBVIOUS
  <2>3. x = [a EXCEPT !.shown.moves = @ \o o.v, !.exit = ex]
    BY <1>8 DEF option
  <2> HIDE DEF mv, ex
  <2>4. [a EXCEPT !.shown.moves = @ \o o.v, !.exit = ex] = [a EXCEPT !.shown = e, !.exit = ex]
    BY <1>3 DEF Settings, Shown, mv
  <2>5. e \in Shown
    BY <1>3, <2>1 DEF Shown
  <2> HIDE DEF e
  <2>6. [a EXCEPT !.shown = e, !.exit = ex] \in Settings
    BY <2>2, <2>5 DEF Settings
  <2> HIDE DEF x
  <2>7. x \in Settings
    BY <2>3, <2>4, <2>6
  <2> QED BY <2>7 DEF x
<1>9. CASE a.exit = "no" /\ o.o = "e"
  <2> DEFINE e == [moves |-> <<o.v>>, stop |-> TRUE]
  <2>1. x = [a EXCEPT !.shown = e]
    BY <1>9 DEF option
  <2>2. e \in Shown
    BY <1>9 DEF Shown
  <2> HIDE DEF e
  <2>3. [a EXCEPT !.shown = e] \in Settings
    BY <2>2 DEF Settings
  <2> QED BY <2>1, <2>3
<1>10. CASE a.exit = "no" /\ o.o \notin {"a", "s", "b", "i", "t", "f", "d", "c", "e"}
  <2> DEFINE ex == IF o.o \in {"h", "file"} THEN IF o.v THEN IF o.o = "h" THEN "0" ELSE "no" ELSE "1"
                   ELSE IF o.o = "v" THEN "0" ELSE "1"
  <2>1. x = [a EXCEPT !.exit = ex]
    BY <1>10 DEF option
  <2>2. ex \in {"no", "0", "1"}
    OBVIOUS
  <2> HIDE DEF ex
  <2>3. [a EXCEPT !.exit = ex] \in Settings
    BY <2>2 DEF Settings
  <2> QED BY <2>1, <2>3
<1> QED
  BY <1>4, <1>5, <1>6, <1>7, <1>8, <1>9, <1>10

\* So do all of a command line.
LEMMA ParseOptions ==
  ASSUME NEW opts, Usable(opts)
  PROVE  parse_options(opts) \in Settings
<1> DEFINE begin == [dr |-> new_driver, driver |-> "ascii", lang |-> DEFAULT_LANGUAGE,
                     shown |-> [moves |-> <<>>, stop |-> FALSE], exit |-> "no"]
           L == Len(opts)
           D == 0 .. L
           A == Settings
           rank == [i \in D |-> i]
           body(f) == [i \in D |-> IF i = 0 THEN begin ELSE option(f[i - 1], opts[i])]
           got == CHOOSE f : f = body(f)
<1>1. /\ L \in Nat
      /\ \A i \in 1 .. L : /\ opts[i].o = "c" => opts[i].v \in Seq(Nat)
                           /\ opts[i].o = "e" => opts[i].v \in Nat
  BY DEF Usable, sequence
<1>2. begin \in A
  <2>1. new_driver \in Driver
    BY NotationAssumption DEF new_driver, Driver, Drivers
  <2>2. [moves |-> <<>>, stop |-> FALSE] \in Shown
    BY DEF Shown
  <2>3. DEFAULT_LANGUAGE \in DOMAIN c_language
    BY NotationAssumption
  <2> HIDE DEF c_language
  <2> QED BY <2>1, <2>2, <2>3 DEF Settings, Drivers
<1>3. ASSUME NEW a \in A, NEW i \in 1 .. L PROVE option(a, opts[i]) \in A
  BY <1>1, OptionKeeps
<1> HIDE DEF A, begin
<1>4. \E f \in [D -> A] : f = body(f)
  <2> DEFINE G == [f \in [D -> A] |-> body(f)]
  <2>1. ASSUME NEW f \in [D -> A] PROVE body(f) \in [D -> A]
    BY <1>1, <1>2, <1>3
  <2>2. G \in [[D -> A] -> [D -> A]]
    BY <2>1
  <2>3. ASSUME NEW f \in [D -> A], NEW g \in [D -> A], NEW x \in D,
               \A y \in D : rank[y] < rank[x] => f[y] = g[y]
        PROVE  G[f][x] = G[g][x]
    BY <1>1, <2>3
  <2>4. \A f \in [D -> A] : G[f] = body(f)
    OBVIOUS
  <2>5. A # {} /\ rank \in [D -> 0 .. L]
    BY <1>1, <1>2
  <2> HIDE DEF G, D, body, rank
  <2>6. LooksDown(D, A, L, rank, G)
    BY <1>1, <2>2, <2>3, <2>5 DEF LooksDown
  <2>7. \E f \in [D -> A] : f = G[f]
    BY <2>6, Recursion
  <2> QED BY <2>4, <2>7
<1>5. got = body(got)
  <2> HIDE DEF body
  <2> QED BY <1>4
<1>6. parse_options(opts) = got[L]
  BY DEF parse_options, begin
<1> HIDE DEF got
<1>7. \A i \in D : got[i] = IF i = 0 THEN begin ELSE option(got[i - 1], opts[i])
  BY <1>5
<1> DEFINE good == {i \in D : got[i] \in A}
<1>8. good = D
  <2>1. ASSUME NEW i \in D, \A y \in D : rank[y] < rank[i] => y \in good PROVE i \in good
    <3>1. CASE i = 0
      BY <1>2, <1>7, <3>1
    <3>2. CASE i # 0
      <4>1. i - 1 \in D /\ rank[i - 1] < rank[i] /\ i \in 1 .. L
        BY <1>1, <3>2
      <4>2. got[i - 1] \in A
        BY <2>1, <4>1
      <4> QED BY <1>3, <1>7, <3>2, <4>1, <4>2
    <3> QED BY <3>1, <3>2
  <2>2. good \in SUBSET D /\ rank \in [D -> Nat]
    BY <1>1
  <2> HIDE DEF good, D, rank
  <2>3. Inherits(D, rank, good)
    BY <2>1, <2>2 DEF Inherits
  <2> QED BY <2>3, ByRank
<1>9. L \in D
  BY <1>1
<1> QED BY <1>6, <1>8, <1>9 DEF A

\* The driver the program starts with.
LEMMA InitDriver ==
  ASSUME NEW d \in Driver, NEW type \in Drivers
  PROVE  init_driver(d, type) \in Driver /\ init_driver(d, type).variation = 0
<1>1. 0 \in 0 .. VARIATION_MAX
  BY NotationAssumption
<1> HIDE DEF Drivers, c_language
<1> QED BY <1>1 DEF init_driver, Driver

\* what a driver may become by writing a board or a move
SameLevel(d) == {e \in Driver : e.variation = d.variation}

\* A board displayed leaves the level.
LEMMA OutputBoard ==
  ASSUME NEW d \in Driver, NEW o
  PROVE  /\ output_board(d, o).dr \in SameLevel(d)
         /\ output_board(d, o) = [dr |-> output_board(d, o).dr, out |-> output_board(d, o).out]
<1> DEFINE e == [d EXCEPT !.interrupt = TRUE]
<1>1. e \in SameLevel(d) /\ d \in SameLevel(d)
  BY DEF SameLevel, Driver
<1> HIDE DEF e
<1>2. \/ output_board(d, o) = [dr |-> e, out |-> wrote(o, "board")]
      \/ output_board(d, o) = [dr |-> d, out |-> wrote(o, "board")]
      \/ output_board(d, o) = [dr |-> d, out |-> o]
  BY DEF output_board, output_board_ascii, output_board_ps, output_board_tex, output_board_roff, e
<1> QED BY <1>1, <1>2

-----------------------------------------------------------------------------
(***************************************************************************)
(* Doing and undoing moves, for every board and every move.                *)
(***************************************************************************)
-----------------------------------------------------------------------------
(***************************************************************************)
(* Writing a function at two or four places and writing it back.           *)
(***************************************************************************)
LEMMA WriteBack2 ==
  ASSUME NEW S, NEW T, NEW f \in [S -> T], NEW p \in S, NEW q \in S, NEW x, NEW y
  PROVE  [[[[f EXCEPT ![p] = x] EXCEPT ![q] = y] EXCEPT ![p] = f[p]] EXCEPT ![q] = f[q]] = f
  OBVIOUS

\* The same at four places.
LEMMA WriteBack4 ==
  ASSUME NEW S, NEW T, NEW f \in [S -> T], NEW p \in S, NEW q \in S, NEW r \in S, NEW s \in S,
         NEW v, NEW w, NEW x, NEW y
  PROVE  /\ [[[[[[[[f EXCEPT ![p] = v] EXCEPT ![q] = w] EXCEPT ![r] = x] EXCEPT ![s] = y]
                EXCEPT ![p] = f[p]] EXCEPT ![q] = f[q]] EXCEPT ![s] = f[s]] EXCEPT ![r] = f[r]] = f
         /\ [[[[[[[[f EXCEPT ![p] = v] EXCEPT ![q] = w] EXCEPT ![r] = x] EXCEPT ![s] = y]
                EXCEPT ![q] = f[q]] EXCEPT ![p] = f[p]] EXCEPT ![r] = f[r]] EXCEPT ![s] = f[s]] = f
  OBVIOUS

-----------------------------------------------------------------------------
\* The squares of a move are squares of the array, and the home line of the
\* colour that moves is line 1 or line 8.
LEMMA Home ==
  ASSUME NEW n \in Moves
  PROVE  /\ <<n.fromlig, n.fromcol>> \in Squares
         /\ <<n.tolig, n.tocol>> \in Squares
         /\ <<n.tolig, n.fromcol>> \in Squares
         /\ <<home(n), 1>> \in Squares /\ <<home(n), 3>> \in Squares /\ <<home(n), 4>> \in Squares
         /\ <<home(n), 5>> \in Squares /\ <<home(n), 6>> \in Squares /\ <<home(n), 7>> \in Squares
         /\ <<home(n), 8>> \in Squares
  <1>1. home(n) \in 0 .. SIZE - 1
    BY DEF home, SIZE
  <1>2. \A c \in 1 .. 8 : <<home(n), c>> \in Squares
    BY <1>1 DEF Squares, SIZE
  <1>3. /\ <<n.fromlig, n.fromcol>> \in Squares
        /\ <<n.tolig, n.tocol>> \in Squares
        /\ <<n.tolig, n.fromcol>> \in Squares
    BY DEF Moves, Squares
  <1> QED BY <1>2, <1>3

\* Undoing is the inverse of doing wherever the move fits the board (Exact): a
\* move, a catch, a promotion or a castling that is taken back leaves the board
\* that stood before it (do_move, undo_move).
THEOREM UndoExact ==
  ASSUME NEW g \in Boards, NEW n \in Moves, Exact(g, n)
  PROVE  undo_move(do_move(g, n), n) = g
<1> DEFINE h == home(n)
           from == <<n.fromlig, n.fromcol>>
           to == <<n.tolig, n.tocol>>
           void == <<VOID, VOID>>
           king == <<KING, CURCOLOR(n)>>
           rook == <<ROOK, CURCOLOR(n)>>
<1>0. /\ g \in [Squares -> Cells] /\ from \in Squares /\ to \in Squares
      /\ <<h, 1>> \in Squares /\ <<h, 3>> \in Squares /\ <<h, 4>> \in Squares /\ <<h, 5>> \in Squares
      /\ <<h, 6>> \in Squares /\ <<h, 7>> \in Squares /\ <<h, 8>> \in Squares
  BY Home DEF Boards
<1> USE DEF MOVE, PRISE, GRANDROQUE, PETITROQUE, EN_PASSANT, PROMOTION, PROM_ET_PRISE
<1>1. CASE n.type \in {MOVE, PRISE, PROMOTION, PROM_ET_PRISE}
  <2> DEFINE b == [[g EXCEPT ![to] = <<n.piece, CURCOLOR(n)>>] EXCEPT ![from] = void]
  <2>1. do_move(g, n) = b
    BY <1>1 DEF do_move, setboard, clsboard
  <2>2. undo_move(b, n) = [[b EXCEPT ![to] = g[to]] EXCEPT ![from] = g[from]]
    <3> HIDE DEF b
    <3>1. CASE n.type = MOVE
      <4>1. g[to] = void /\ g[from] = <<n.piece, CURCOLOR(n)>>
        BY <3>1 DEF Exact
      <4> QED BY <3>1, <4>1 DEF undo_move, setboard, clsboard
    <3>2. CASE n.type = PRISE
      <4>1. g[to] = <<n.prise, OPPCOLOR(n)>> /\ g[from] = <<n.piece, CURCOLOR(n)>>
        BY <3>2 DEF Exact
      <4> QED BY <3>2, <4>1 DEF undo_move, setboard, clsboard
    <3>3. CASE n.type = PROMOTION
      <4>1. g[to] = void /\ g[from] = <<PAWN, CURCOLOR(n)>>
        BY <3>3 DEF Exact
      <4> QED BY <3>3, <4>1 DEF undo_move, setboard, clsboard
    <3>4. CASE n.type = PROM_ET_PRISE
      <4>1. g[to] = <<n.prise, OPPCOLOR(n)>> /\ g[from] = <<PAWN, CURCOLOR(n)>>
        BY <3>4 DEF Exact
      <4> QED BY <3>4, <4>1 DEF undo_move, setboard, clsboard
    <3> QED BY <1>1, <3>1, <3>2, <3>3, <3>4
  <2>3. [[b EXCEPT ![to] = g[to]] EXCEPT ![from] = g[from]] = g
    <3> HIDE DEF to, from, void
    <3> QED BY <1>0, WriteBack2
  <2> HIDE DEF b
  <2> QED BY <2>1, <2>2, <2>3
<1>2. CASE n.type = GRANDROQUE
  <2> DEFINE b == [[[[g EXCEPT ![<<h, 3>>] = king] EXCEPT ![<<h, 4>>] = rook]
                      EXCEPT ![<<h, 1>>] = void] EXCEPT ![<<h, 5>>] = void]
  <2>1. do_move(g, n) = b
    BY <1>2 DEF do_move, setboard, clsboard
  <2>2. undo_move(b, n)
          = [[[[b EXCEPT ![<<h, 3>>] = g[<<h, 3>>]] EXCEPT ![<<h, 4>>] = g[<<h, 4>>]]
                 EXCEPT ![<<h, 5>>] = g[<<h, 5>>]] EXCEPT ![<<h, 1>>] = g[<<h, 1>>]]
    <3> HIDE DEF b
    <3>1. g[<<h, 3>>] = void /\ g[<<h, 4>>] = void /\ g[<<h, 5>>] = king /\ g[<<h, 1>>] = rook
      BY <1>2 DEF Exact
    <3> QED BY <1>2, <3>1 DEF undo_move, setboard, clsboard
  <2>3. <<h, 1>> \in Squares /\ <<h, 3>> \in Squares /\ <<h, 4>> \in Squares /\ <<h, 5>> \in Squares
    BY <1>0
  <2>4. [[[[b EXCEPT ![<<h, 3>>] = g[<<h, 3>>]] EXCEPT ![<<h, 4>>] = g[<<h, 4>>]]
                 EXCEPT ![<<h, 5>>] = g[<<h, 5>>]] EXCEPT ![<<h, 1>>] = g[<<h, 1>>]] = g
    <3> HIDE DEF h, king, rook, void
    <3> QED BY <1>0, <2>3, WriteBack4
  <2> HIDE DEF b
  <2> QED BY <2>1, <2>2, <2>4
<1>3. CASE n.type = PETITROQUE
  <2> DEFINE b == [[[[g EXCEPT ![<<h, 7>>] = king] EXCEPT ![<<h, 6>>] = rook]
                      EXCEPT ![<<h, 5>>] = void] EXCEPT ![<<h, 8>>] = void]
  <2>1. do_move(g, n) = b
    BY <1>3 DEF do_move, setboard, clsboard
  <2>2. undo_move(b, n)
          = [[[[b EXCEPT ![<<h, 6>>] = g[<<h, 6>>]] EXCEPT ![<<h, 7>>] = g[<<h, 7>>]]
                 EXCEPT ![<<h, 5>>] = g[<<h, 5>>]] EXCEPT ![<<h, 8>>] = g[<<h, 8>>]]
    <3> HIDE DEF b
    <3>1. g[<<h, 6>>] = void /\ g[<<h, 7>>] = void /\ g[<<h, 5>>] = king /\ g[<<h, 8>>] = rook
      BY <1>3 DEF Exact
    <3> QED BY <1>3, <3>1 DEF undo_move, setboard, clsboard
  <2>3. <<h, 5>> \in Squares /\ <<h, 6>> \in Squares /\ <<h, 7>> \in Squares /\ <<h, 8>> \in Squares
    BY <1>0
  <2>4. [[[[b EXCEPT ![<<h, 6>>] = g[<<h, 6>>]] EXCEPT ![<<h, 7>>] = g[<<h, 7>>]]
                 EXCEPT ![<<h, 5>>] = g[<<h, 5>>]] EXCEPT ![<<h, 8>>] = g[<<h, 8>>]] = g
    <3> HIDE DEF h, king, rook, void
    <3> QED BY <1>0, <2>3, WriteBack4
  <2> HIDE DEF b
  <2> QED BY <2>1, <2>2, <2>4
<1> QED
  BY <1>1, <1>2, <1>3 DEF Exact

-----------------------------------------------------------------------------
(***************************************************************************)
(* Writing the same places of two functions that agree everywhere else.    *)
(***************************************************************************)
LEMMA Rewrite2 ==
  ASSUME NEW S, NEW T, NEW f \in [S -> T], NEW k \in [S -> T],
         NEW p \in S, NEW q \in S, NEW v, NEW w,
         \A z \in S \ {p, q} : k[z] = f[z]
  PROVE  [[k EXCEPT ![p] = v] EXCEPT ![q] = w]
         = [[f EXCEPT ![p] = v] EXCEPT ![q] = w]
  OBVIOUS

\* The same at three places, and at four.
LEMMA Rewrite3 ==
  ASSUME NEW S, NEW T, NEW f \in [S -> T], NEW k \in [S -> T],
         NEW p \in S, NEW q \in S, NEW r \in S, NEW v, NEW w, NEW x,
         \A z \in S \ {p, q, r} : k[z] = f[z]
  PROVE  [[[k EXCEPT ![p] = v] EXCEPT ![q] = w] EXCEPT ![r] = x]
         = [[[f EXCEPT ![p] = v] EXCEPT ![q] = w] EXCEPT ![r] = x]
  OBVIOUS

\* The same at four.
LEMMA Rewrite4 ==
  ASSUME NEW S, NEW T, NEW f \in [S -> T], NEW k \in [S -> T],
         NEW p \in S, NEW q \in S, NEW r \in S, NEW s \in S, NEW v, NEW w, NEW x, NEW y,
         \A z \in S \ {p, q, r, s} : k[z] = f[z]
  PROVE  [[[[k EXCEPT ![p] = v] EXCEPT ![q] = w] EXCEPT ![r] = x] EXCEPT ![s] = y]
         = [[[[f EXCEPT ![p] = v] EXCEPT ![q] = w] EXCEPT ![r] = x] EXCEPT ![s] = y]
  OBVIOUS

\* the squares do_move and undo_move write
Written(n) ==
  CASE n.type = GRANDROQUE -> {<<home(n), c>> : c \in {1, 3, 4, 5}}
    [] n.type = PETITROQUE -> {<<home(n), c>> : c \in {5, 6, 7, 8}}
    [] n.type = EN_PASSANT -> {<<n.tolig, n.tocol>>, <<n.tolig, n.fromcol>>, <<n.fromlig, n.fromcol>>}
    [] OTHER -> {<<n.tolig, n.tocol>>, <<n.fromlig, n.fromcol>>}

\* the boards that differ from g at most on the squares of P
Near(g, P) == {b \in Boards : \A z \in Squares \ P : b[z] = g[z]}

\* setboard and clsboard write one square, and leave a board.
LEMMA Wrote ==
  ASSUME NEW g, NEW P, NEW b \in Near(g, P), NEW l, NEW c, <<l, c>> \in P, <<l, c>> \in Squares
  PROVE  /\ \A p \in VOID .. PAWN, col \in BLACK .. WHITE : setboard(b, l, c, p, col) \in Near(g, P)
         /\ clsboard(b, l, c) \in Near(g, P)
  <1>1. \A p \in VOID .. PAWN, col \in BLACK .. WHITE : <<p, col>> \in Cells
    BY DEF Cells
  <1>2. <<VOID, VOID>> \in Cells
    BY DEF Cells, VOID, PAWN, BLACK, WHITE
  <1>3. \A x \in Cells : [b EXCEPT ![<<l, c>>] = x] \in Near(g, P)
    BY DEF Boards, Near
  <1> QED BY <1>1, <1>2, <1>3 DEF setboard, clsboard

\* do_move and undo_move write squares of the move only, whatever its type.
LEMMA WritesOnly ==
  ASSUME NEW g \in Boards, NEW n \in Moves, NEW b \in Near(g, Written(n))
  PROVE  do_move(b, n) \in Near(g, Written(n)) /\ undo_move(b, n) \in Near(g, Written(n))
<1> DEFINE h == home(n)
           W == Written(n)
<1>1. /\ CURCOLOR(n) \in BLACK .. WHITE /\ OPPCOLOR(n) \in BLACK .. WHITE
      /\ n.piece \in VOID .. PAWN /\ n.prise \in VOID .. PAWN
      /\ KING \in VOID .. PAWN /\ ROOK \in VOID .. PAWN /\ PAWN \in VOID .. PAWN
  BY DEF CURCOLOR, OPPCOLOR, BLACK, WHITE, Moves, VOID, PAWN, KING, ROOK
<1>2. /\ <<n.fromlig, n.fromcol>> \in Squares /\ <<n.tolig, n.tocol>> \in Squares
      /\ <<n.tolig, n.fromcol>> \in Squares
      /\ <<h, 1>> \in Squares /\ <<h, 3>> \in Squares /\ <<h, 4>> \in Squares /\ <<h, 5>> \in Squares
      /\ <<h, 6>> \in Squares /\ <<h, 7>> \in Squares /\ <<h, 8>> \in Squares
  BY Home
<1> USE DEF MOVE, PRISE, GRANDROQUE, PETITROQUE, EN_PASSANT, PROMOTION, PROM_ET_PRISE
<1>3. CASE n.type = GRANDROQUE
  <2> DEFINE done == setboard(setboard(b, h, 3, KING, CURCOLOR(n)), h, 4, ROOK, CURCOLOR(n))
             half == clsboard(done, h, 1)
             gone == clsboard(clsboard(b, h, 3), h, 4)
             back == setboard(gone, h, 5, KING, CURCOLOR(n))
  <2>1. /\ do_move(b, n) = clsboard(half, h, 5)
        /\ undo_move(b, n) = setboard(back, h, 1, ROOK, CURCOLOR(n))
    BY <1>3 DEF do_move, undo_move
  <2>2. <<h, 1>> \in W /\ <<h, 3>> \in W /\ <<h, 4>> \in W /\ <<h, 5>> \in W
    BY <1>3 DEF Written
  <2> HIDE DEF h, W
  <2>3. done \in Near(g, W) /\ gone \in Near(g, W)
    BY <1>1, <1>2, <2>2, Wrote DEF W
  <2> HIDE DEF done, gone
  <2>4. half \in Near(g, W) /\ back \in Near(g, W)
    BY <1>1, <1>2, <2>2, <2>3, Wrote
  <2> HIDE DEF half, back
  <2>5. do_move(b, n) \in Near(g, W) /\ undo_move(b, n) \in Near(g, W)
    BY <1>1, <1>2, <2>1, <2>2, <2>4, Wrote
  <2> QED BY <2>5 DEF W
<1>4. CASE n.type = PETITROQUE
  <2> DEFINE done == setboard(setboard(b, h, 7, KING, CURCOLOR(n)), h, 6, ROOK, CURCOLOR(n))
             half == clsboard(done, h, 5)
             gone == clsboard(clsboard(b, h, 6), h, 7)
             back == setboard(gone, h, 5, KING, CURCOLOR(n))
  <2>1. /\ do_move(b, n) = clsboard(half, h, 8)
        /\ undo_move(b, n) = setboard(back, h, 8, ROOK, CURCOLOR(n))
    BY <1>4 DEF do_move, undo_move
  <2>2. <<h, 5>> \in W /\ <<h, 6>> \in W /\ <<h, 7>> \in W /\ <<h, 8>> \in W
    BY <1>4 DEF Written
  <2> HIDE DEF h, W
  <2>3. done \in Near(g, W) /\ gone \in Near(g, W)
    BY <1>1, <1>2, <2>2, Wrote DEF W
  <2> HIDE DEF done, gone
  <2>4. half \in Near(g, W) /\ back \in Near(g, W)
    BY <1>1, <1>2, <2>2, <2>3, Wrote
  <2> HIDE DEF half, back
  <2>5. do_move(b, n) \in Near(g, W) /\ undo_move(b, n) \in Near(g, W)
    BY <1>1, <1>2, <2>1, <2>2, <2>4, Wrote
  <2> QED BY <2>5 DEF W
<1>5. CASE n.type = EN_PASSANT
  <2> DEFINE moved == setboard(b, n.tolig, n.tocol, n.piece, CURCOLOR(n))
             gone == clsboard(b, n.tolig, n.tocol)
  <2>1. /\ do_move(b, n) = clsboard(clsboard(moved, n.tolig, n.fromcol), n.fromlig, n.fromcol)
        /\ undo_move(b, n) = setboard(setboard(gone, n.tolig, n.fromcol, PAWN, OPPCOLOR(n)),
                                      n.fromlig, n.fromcol, n.piece, CURCOLOR(n))
    BY <1>5 DEF do_move, undo_move
  <2>2. <<n.tolig, n.tocol>> \in W /\ <<n.tolig, n.fromcol>> \in W /\ <<n.fromlig, n.fromcol>> \in W
    BY <1>5 DEF Written
  <2> HIDE DEF W
  <2>3. moved \in Near(g, W) /\ gone \in Near(g, W)
    BY <1>1, <1>2, <2>2, Wrote DEF W
  <2> HIDE DEF moved, gone
  <2>4. do_move(b, n) \in Near(g, W)
    BY <1>1, <1>2, <2>1, <2>2, <2>3, Wrote
  <2>5. undo_move(b, n) \in Near(g, W)
    BY <1>1, <1>2, <2>1, <2>2, <2>3, Wrote
  <2> QED BY <2>4, <2>5 DEF W
<1>6. CASE n.type \in {MOVE, PRISE, PROMOTION, PROM_ET_PRISE}
  <2> DEFINE gone == clsboard(b, n.tolig, n.tocol)
             back == setboard(b, n.tolig, n.tocol, n.prise, OPPCOLOR(n))
  <2>1. do_move(b, n) = clsboard(setboard(b, n.tolig, n.tocol, n.piece, CURCOLOR(n)), n.fromlig, n.fromcol)
    BY <1>6 DEF do_move
  <2>2. \/ undo_move(b, n) = setboard(gone, n.fromlig, n.fromcol, n.piece, CURCOLOR(n))
        \/ undo_move(b, n) = setboard(back, n.fromlig, n.fromcol, n.piece, CURCOLOR(n))
        \/ undo_move(b, n) = setboard(gone, n.fromlig, n.fromcol, PAWN, CURCOLOR(n))
        \/ undo_move(b, n) = setboard(back, n.fromlig, n.fromcol, PAWN, CURCOLOR(n))
    BY <1>6 DEF undo_move
  <2>3. <<n.tolig, n.tocol>> \in W /\ <<n.fromlig, n.fromcol>> \in W
    BY <1>6 DEF Written
  <2> HIDE DEF W
  <2>4. gone \in Near(g, W) /\ back \in Near(g, W)
    BY <1>1, <1>2, <2>3, Wrote DEF W
  <2> HIDE DEF gone, back
  <2>5. clsboard(setboard(b, n.tolig, n.tocol, n.piece, CURCOLOR(n)), n.fromlig, n.fromcol) \in Near(g, W)
    <3>1. setboard(b, n.tolig, n.tocol, n.piece, CURCOLOR(n)) \in Near(g, W)
      BY <1>1, <1>2, <2>3, Wrote DEF W
    <3> QED
      BY <1>2, <2>3, <3>1, Wrote
  <2>6. /\ \A p \in {n.piece, PAWN} : setboard(gone, n.fromlig, n.fromcol, p, CURCOLOR(n)) \in Near(g, W)
        /\ \A p \in {n.piece, PAWN} : setboard(back, n.fromlig, n.fromcol, p, CURCOLOR(n)) \in Near(g, W)
    BY <1>1, <1>2, <2>3, <2>4, Wrote
  <2> QED BY <2>1, <2>2, <2>5, <2>6 DEF W
<1>7. CASE n.type = VOID
  BY <1>7 DEF do_move, undo_move, VOID
<1> QED
  BY <1>3, <1>4, <1>5, <1>6, <1>7 DEF Moves, VOID

\* Looking for ambiguity takes the move just done back and does it again: that
\* leaves the board as it was for every move, also for those undo_move does
\* not take back exactly, such as a catch "en passant" (ambiguity).
THEOREM AmbiguityKeepsBoard ==
  ASSUME NEW g \in Boards, NEW n \in Moves
  PROVE  ambiguity(do_move(g, n), n).board = do_move(g, n)
<1> DEFINE k == undo_move(do_move(g, n), n)
           h == home(n)
           from == <<n.fromlig, n.fromcol>>
           to == <<n.tolig, n.tocol>>
           beside == <<n.tolig, n.fromcol>>
           mine(p) == <<p, CURCOLOR(n)>>
           void == <<VOID, VOID>>
<1>1. /\ k \in Boards /\ g \in Boards
      /\ \A z \in Squares \ Written(n) : k[z] = g[z]
  <2>1. g \in Near(g, Written(n))
    BY DEF Near
  <2>2. k \in Near(g, Written(n))
    BY <2>1, WritesOnly
  <2> QED BY <2>2 DEF Near
<1>2. ambiguity(do_move(g, n), n).board = do_move(k, n)
  BY DEF ambiguity, compared
<1> HIDE DEF k
<1> USE DEF MOVE, PRISE, GRANDROQUE, PETITROQUE, EN_PASSANT, PROMOTION, PROM_ET_PRISE
<1>3. /\ from \in Squares /\ to \in Squares /\ beside \in Squares
      /\ <<h, 1>> \in Squares /\ <<h, 3>> \in Squares /\ <<h, 4>> \in Squares /\ <<h, 5>> \in Squares
      /\ <<h, 6>> \in Squares /\ <<h, 7>> \in Squares /\ <<h, 8>> \in Squares
  BY Home
<1>4. do_move(k, n) = do_move(g, n)
  <2>1. CASE n.type \in {MOVE, PRISE, PROMOTION, PROM_ET_PRISE}
    <3>1. \A z \in Squares \ {to, from} : k[z] = g[z]
      BY <1>1, <2>1 DEF Written
    <3>2. \A b : do_move(b, n) = [[b EXCEPT ![to] = mine(n.piece)] EXCEPT ![from] = void]
      BY <2>1 DEF do_move, setboard, clsboard
    <3> HIDE DEF from, to, mine, void
    <3>3. [[k EXCEPT ![to] = mine(n.piece)] EXCEPT ![from] = void]
          = [[g EXCEPT ![to] = mine(n.piece)] EXCEPT ![from] = void]
      BY <1>1, <1>3, <3>1, Rewrite2 DEF Boards
    <3> QED BY <3>2, <3>3
  <2>2. CASE n.type = EN_PASSANT
    <3>1. \A z \in Squares \ {to, beside, from} : k[z] = g[z]
      BY <1>1, <2>2 DEF Written
    <3>2. \A b : do_move(b, n)
                 = [[[b EXCEPT ![to] = mine(n.piece)] EXCEPT ![beside] = void] EXCEPT ![from] = void]
      BY <2>2 DEF do_move, setboard, clsboard
    <3> HIDE DEF from, to, beside, mine, void
    <3>3. [[[k EXCEPT ![to] = mine(n.piece)] EXCEPT ![beside] = void] EXCEPT ![from] = void]
          = [[[g EXCEPT ![to] = mine(n.piece)] EXCEPT ![beside] = void] EXCEPT ![from] = void]
      BY <1>1, <1>3, <3>1, Rewrite3 DEF Boards
    <3> QED BY <3>2, <3>3
  <2>3. CASE n.type = GRANDROQUE
    <3> DEFINE p == <<h, 3>>   q == <<h, 4>>   r == <<h, 1>>   s == <<h, 5>>
    <3>1. \A z \in Squares \ {p, q, r, s} : k[z] = g[z]
      BY <1>1, <2>3 DEF Written
    <3>2. \A b : do_move(b, n) = [[[[b EXCEPT ![p] = mine(KING)] EXCEPT ![q] = mine(ROOK)]
                                     EXCEPT ![r] = void] EXCEPT ![s] = void]
      BY <2>3 DEF do_move, setboard, clsboard
    <3>3. p \in Squares /\ q \in Squares /\ r \in Squares /\ s \in Squares
      BY <1>3
    <3> HIDE DEF p, q, r, s, mine, void
    <3>4. [[[[k EXCEPT ![p] = mine(KING)] EXCEPT ![q] = mine(ROOK)] EXCEPT ![r] = void] EXCEPT ![s] = void]
          = [[[[g EXCEPT ![p] = mine(KING)] EXCEPT ![q] = mine(ROOK)] EXCEPT ![r] = void] EXCEPT ![s] = void]
      BY <1>1, <3>1, <3>3, Rewrite4 DEF Boards
    <3> QED BY <3>2, <3>4
  <2>4. CASE n.type = PETITROQUE
    <3> DEFINE p == <<h, 7>>   q == <<h, 6>>   r == <<h, 5>>   s == <<h, 8>>
    <3>1. \A z \in Squares \ {p, q, r, s} : k[z] = g[z]
      BY <1>1, <2>4 DEF Written
    <3>2. \A b : do_move(b, n) = [[[[b EXCEPT ![p] = mine(KING)] EXCEPT ![q] = mine(ROOK)]
                                     EXCEPT ![r] = void] EXCEPT ![s] = void]
      BY <2>4 DEF do_move, setboard, clsboard
    <3>3. p \in Squares /\ q \in Squares /\ r \in Squares /\ s \in Squares
      BY <1>3
    <3> HIDE DEF p, q, r, s, mine, void
    <3>4. [[[[k EXCEPT ![p] = mine(KING)] EXCEPT ![q] = mine(ROOK)] EXCEPT ![r] = void] EXCEPT ![s] = void]
          = [[[[g EXCEPT ![p] = mine(KING)] EXCEPT ![q] = mine(ROOK)] EXCEPT ![r] = void] EXCEPT ![s] = void]
      BY <1>1, <3>1, <3>3, Rewrite4 DEF Boards
    <3> QED BY <3>2, <3>4
  <2>5. CASE n.type = VOID
    BY <2>5 DEF k, do_move, undo_move, VOID
  <2> QED BY <2>1, <2>2, <2>3, <2>4, <2>5 DEF Moves, VOID
<1> QED BY <1>2, <1>4

-----------------------------------------------------------------------------
(* The search for the square a move comes from finds squares of the board. *)
Inner == (1 .. 8) \X (1 .. 8)

\* guess_depl only finds squares of the board.
LEMMA GuessInner ==
  ASSUME NEW g, NEW n, NEW tab, tab \in Seq(Int \X Int), NEW l1, NEW c1, NEW path
  PROVE  guess_depl(g, n, tab, l1, c1, path) \in Seq(Inner)
<1> DEFINE origin == [i \in DOMAIN tab |-> <<n.tolig - tab[i][1], n.tocol - tab[i][2]>>]
           fits(s) == /\ in_board(s[1], s[2])
                      /\ g[s] = <<n.piece, CURCOLOR(n)>>
                      /\ path => path_free(g, s[1], s[2], n.tolig, n.tocol)
                      /\ l1 \in {0, s[1]}
                      /\ c1 \in {0, s[2]}
           L == Len(tab)
           D == 0 .. L
           A == Seq(Inner)
           rank == [i \in D |-> i]
           body(f) == [i \in D |-> IF i = 0 THEN <<>>
                                   ELSE IF fits(origin[i]) THEN Append(f[i - 1], origin[i]) ELSE f[i - 1]]
           found == CHOOSE f : f = body(f)
<1>1. L \in Nat /\ DOMAIN tab = 1 .. L
  OBVIOUS
<1>2. ASSUME NEW i \in 1 .. L, fits(origin[i]) PROVE origin[i] \in Inner
  <2>1. origin[i] = <<n.tolig - tab[i][1], n.tocol - tab[i][2]>>
    BY <1>1
  <2> DEFINE l == n.tolig - tab[i][1]
             c == n.tocol - tab[i][2]
  <2> HIDE DEF l, c
  <2>2. origin[i] = <<l, c>>
    BY <2>1 DEF l, c
  <2> HIDE DEF origin
  <2>3. l \in 1 .. 8 /\ c \in 1 .. 8
    <3>1. in_board(l, c)
      BY <1>2, <2>2
    <3> QED BY ONLY <3>1 DEF in_board
  <2> QED BY ONLY <2>2, <2>3 DEF Inner
<1> HIDE DEF origin, fits, A
<1>3. <<>> \in A /\ \A q \in A, s \in Inner : Append(q, s) \in A
  BY DEF A
<1>4. \E f \in [D -> A] : f = body(f)
  <2> DEFINE G == [f \in [D -> A] |-> body(f)]
  <2>1. ASSUME NEW f \in [D -> A] PROVE body(f) \in [D -> A]
    BY <1>1, <1>2, <1>3
  <2>2. G \in [[D -> A] -> [D -> A]]
    BY <2>1
  <2>3. ASSUME NEW f \in [D -> A], NEW k \in [D -> A], NEW x \in D,
               \A y \in D : rank[y] < rank[x] => f[y] = k[y]
        PROVE  G[f][x] = G[k][x]
    BY <1>1, <2>3
  <2>4. \A f \in [D -> A] : G[f] = body(f)
    OBVIOUS
  <2>5. A # {} /\ rank \in [D -> 0 .. L]
    BY <1>1, <1>3
  <2> HIDE DEF G, D, body, rank
  <2>6. LooksDown(D, A, L, rank, G)
    BY <1>1, <2>2, <2>3, <2>5 DEF LooksDown
  <2>7. \E f \in [D -> A] : f = G[f]
    BY <2>6, Recursion
  <2> QED BY <2>4, <2>7
<1>5. found = body(found)
  <2> HIDE DEF body
  <2> QED BY <1>4
<1>6. guess_depl(g, n, tab, l1, c1, path) = found[L]
  BY DEF guess_depl, origin, fits
<1> HIDE DEF found
<1>7. \A i \in D : found[i] = IF i = 0 THEN <<>>
                             ELSE IF fits(origin[i]) THEN Append(found[i - 1], origin[i]) ELSE found[i - 1]
  BY <1>5
<1> DEFINE good == {i \in D : found[i] \in A}
<1>8. good = D
  <2>1. ASSUME NEW i \in D, \A y \in D : rank[y] < rank[i] => y \in good PROVE i \in good
    <3>1. CASE i = 0
      BY <1>3, <1>7, <3>1
    <3>2. CASE i # 0
      <4>1. i - 1 \in D /\ rank[i - 1] < rank[i] /\ i \in 1 .. L
        BY <1>1, <3>2
      <4>2. found[i - 1] \in A
        BY <2>1, <4>1
      <4> QED BY <1>2, <1>3, <1>7, <3>2, <4>1, <4>2
    <3> QED BY <3>1, <3>2
  <2>2. good \in SUBSET D /\ rank \in [D -> Nat]
    BY <1>1
  <2> HIDE DEF good, D, rank
  <2>3. Inherits(D, rank, good)
    BY <2>1, <2>2 DEF Inherits
  <2> QED BY <2>3, ByRank
<1>9. L \in D
  BY <1>1
<1> QED BY <1>6, <1>8, <1>9 DEF A

\* The tables of the pieces hold pairs of integers.
LEMMA TablesOf ==
  /\ \A u \in Int : /\ m_pawn_move(u) \in Seq(Int \X Int) /\ m_pawn_x(u) \in Seq(Int \X Int)
                    /\ m_pawn(u) \in Seq(Int \X Int)
  /\ m_knight \in Seq(Int \X Int) /\ m_bishop \in Seq(Int \X Int) /\ m_rook \in Seq(Int \X Int)
  /\ m_queen \in Seq(Int \X Int) /\ m_king \in Seq(Int \X Int)
<1>1. ASSUME NEW u \in Int PROVE m_pawn_move(u) \in Seq(Int \X Int) /\ m_pawn_x(u) \in Seq(Int \X Int)
  <2>1. u \in Int /\ 0 \in Int /\ 1 \in Int /\ -1 \in Int /\ 2 * u \in Int
    OBVIOUS
  <2>2. <<u, 0>> \in Int \X Int /\ <<2 * u, 0>> \in Int \X Int /\ <<u, 1>> \in Int \X Int /\ <<u, -1>> \in Int \X Int
    BY <2>1
  <2> QED BY <2>2 DEF m_pawn_move, m_pawn_x
<1>2. \A u \in Int : m_pawn(u) \in Seq(Int \X Int)
  BY <1>1, ConcatProperties DEF m_pawn
<1>3. m_knight \in Seq(Int \X Int) /\ m_king \in Seq(Int \X Int)
  BY DEF m_knight, m_king
<1>4. \A l, c \in Int : Ray(l, c) \in Seq(Int \X Int)
  <2>1. ASSUME NEW l \in Int, NEW c \in Int PROVE Ray(l, c) \in Seq(Int \X Int)
    <3>1. \A i \in 1 .. 7 : <<(8 - i) * l, (8 - i) * c>> \in Int \X Int
      OBVIOUS
    <3> QED BY <3>1 DEF Ray
  <2> QED BY <2>1
<1>5. m_bishop \in Seq(Int \X Int) /\ m_rook \in Seq(Int \X Int)
  <2>1. ASSUME NEW S, NEW p \in Seq(S), NEW q \in Seq(S), NEW r \in Seq(S), NEW s \in Seq(S)
        PROVE  p \o q \o r \o s \in Seq(S)
    OBVIOUS
  <2>2. 0 \in Int /\ 1 \in Int /\ -1 \in Int
    OBVIOUS
  <2>3. /\ Ray(1, 1) \in Seq(Int \X Int) /\ Ray(1, -1) \in Seq(Int \X Int)
        /\ Ray(-1, -1) \in Seq(Int \X Int) /\ Ray(-1, 1) \in Seq(Int \X Int)
        /\ Ray(1, 0) \in Seq(Int \X Int) /\ Ray(-1, 0) \in Seq(Int \X Int)
        /\ Ray(0, 1) \in Seq(Int \X Int) /\ Ray(0, -1) \in Seq(Int \X Int)
    BY <1>4, <2>2
  <2> QED BY <2>1, <2>3 DEF m_bishop, m_rook
<1>6. m_queen \in Seq(Int \X Int)
  BY <1>5, ConcatProperties DEF m_queen
<1> QED BY <1>1, <1>2, <1>3, <1>5, <1>6

\* So are the other squares a move could come from.
LEMMA AlternatesInner ==
  ASSUME NEW g, NEW n, NEW pawn \in Seq(Int \X Int), NEW l1, NEW c1
  PROVE  alternates(g, n, pawn, l1, c1) \in Seq(Inner)
<1>1. <<>> \in Seq(Inner)
  OBVIOUS
<1> QED
  BY <1>1, GuessInner, TablesOf DEF alternates

\* The table of a pawn, for either turn.
LEMMA PawnTable ==
  ASSUME NEW n
  PROVE  pawn_table(n) \in Seq(Int \X Int)
<1>1. up(n) \in Int
  BY DEF up
<1> QED BY <1>1, TablesOf DEF pawn_table

-----------------------------------------------------------------------------
(* What executing a move makes of it, and of the board.                    *)
LEMMA LikeMoves ==
  ASSUME NEW d, NEW n \in Like(d)
  PROVE  /\ n \in Moves
         /\ n.type \in VOID .. PROM_ET_PRISE /\ n.piece \in VOID .. PAWN /\ n.prise \in VOID .. PAWN
         /\ n.fromlig \in 0 .. SIZE - 1 /\ n.fromcol \in 0 .. SIZE - 1
         /\ n.tolig \in 0 .. SIZE - 1 /\ n.tocol \in 0 .. SIZE - 1
         /\ n.whiteturn = d.whiteturn
  BY DEF Like, Moves

\* The home line is on the board.
LEMMA HomeLine ==
  ASSUME NEW n
  PROVE  home(n) \in 0 .. SIZE - 1
  BY DEF home, SIZE

\* A move whose origin is filled in plays like the one that was read.
LEMMA GuessLike ==
  ASSUME NEW g, NEW d, NEW n \in Like(d)
  PROVE  guess_move(g, n).m \in Like(d) /\ guess_move(g, n).m.type = n.type
<1>1. CASE n.type \in Roques
  BY <1>1 DEF guess_move
<1>2. CASE n.type \notin Roques
  <2> DEFINE alt == alternates(g, n, pawn_table(n), n.fromlig, n.fromcol)
  <2>1. alt \in Seq(Inner)
    BY AlternatesInner, PawnTable
  <2>2. guess_move(g, n) = with_origin(n, alt)
    BY <1>2 DEF guess_move
  <2> HIDE DEF alt
  <2>3. CASE alt = <<>>
    BY <2>2, <2>3 DEF with_origin
  <2>4. CASE alt # <<>>
    <3>1. alt[1] \in Inner
      BY <2>1, <2>4
    <3>2. alt[1][1] \in 0 .. SIZE - 1 /\ alt[1][2] \in 0 .. SIZE - 1
      BY <3>1 DEF Inner, SIZE
    <3> DEFINE e1 == [n EXCEPT !.fromlig = alt[1][1]]
               e == [e1 EXCEPT !.fromcol = alt[1][2]]
    <3>3. guess_move(g, n).m = e
      BY <2>2, <2>4 DEF with_origin
    <3>4. e1 \in Like(d) /\ e1.type = n.type
      BY <3>2, Writing DEF Like, Moves
    <3> HIDE DEF e1
    <3>5. e \in Like(d) /\ e.type = n.type
      <4>1. e \in Like(d)
        BY <3>2, <3>4, Writing
      <4>2. e.type = e1.type
        BY <3>4 DEF Like, Moves
      <4> QED BY <3>4, <4>1, <4>2
    <3> QED BY <3>3, <3>5
  <2> QED BY <2>3, <2>4
<1> QED BY <1>1, <1>2

\* So does one whose piece is filled in.
LEMMA NamedLike ==
  ASSUME NEW d, NEW n \in Like(d)
  PROVE  named(n) \in Like(d) /\ named(n).type = n.type
<1>1. PAWN \in VOID .. PAWN
  BY DEF VOID, PAWN
<1>2. [n EXCEPT !.piece = PAWN] \in Like(d)
  BY <1>1, Writing
<1>3. [n EXCEPT !.piece = PAWN].type = n.type
  BY DEF Like, Moves
<1> QED BY <1>2, <1>3 DEF named

\* Squares of the board are squares of the array.
LEMMA OnBoard ==
  ASSUME NEW g \in Boards, NEW l \in 0 .. SIZE - 1, NEW c \in 0 .. SIZE - 1
  PROVE  <<l, c>> \in Squares /\ g[<<l, c>>] \in Cells /\ g[<<l, c>>][1] \in VOID .. PAWN
<1>1. <<l, c>> \in Squares
  BY DEF Squares
<1>2. g[<<l, c>>] \in Cells
  BY <1>1 DEF Boards
<1> QED BY <1>1, <1>2 DEF Cells

\* So does one that turns out to be a catch.
LEMMA TakingLike ==
  ASSUME NEW g \in Boards, NEW d, NEW n \in Like(d)
  PROVE  taking(g, n) \in Like(d) /\ taking(g, n).type \in {n.type, PRISE}
<1> DEFINE held  == IF n.fromlig # 0 \/ n.fromcol # 0
                    THEN [n EXCEPT !.piece = g[<<n.fromlig, n.fromcol>>][1]] ELSE n
           catch == g[<<n.tolig, n.tocol>>][1]
           e1 == [held EXCEPT !.type = PRISE]
           e == [e1 EXCEPT !.prise = catch]
<1>1. g[<<n.fromlig, n.fromcol>>][1] \in VOID .. PAWN /\ catch \in VOID .. PAWN
  BY LikeMoves, OnBoard
<1>2. held \in Like(d) /\ held.type = n.type
  <2>1. [n EXCEPT !.piece = g[<<n.fromlig, n.fromcol>>][1]] \in Like(d)
    BY <1>1, Writing
  <2>2. [n EXCEPT !.piece = g[<<n.fromlig, n.fromcol>>][1]].type = n.type
    BY DEF Like, Moves
  <2> QED BY <2>1, <2>2
<1>3. taking(g, n) = IF catch # VOID THEN e ELSE held
  BY DEF taking
<1> HIDE DEF held, catch
<1>4. PRISE \in VOID .. PROM_ET_PRISE
  BY DEF PRISE, VOID, PROM_ET_PRISE
<1>5. e1 \in Like(d) /\ e1.type = PRISE
  BY <1>2, <1>4, Writing, SMTT(60) DEF Like, Moves
<1> HIDE DEF e1
<1>6. e \in Like(d) /\ e.type = PRISE
  <2>1. e \in Like(d)
    BY <1>1, <1>5, Writing
  <2>2. e.type = e1.type
    BY <1>5 DEF Like, Moves
  <2> QED BY <1>5, <2>1, <2>2
<1> QED BY <1>2, <1>3, <1>6

\* the board a move is checked on, once the check is done
CheckedBoard(g, n) == IF n.type = EN_PASSANT THEN clsboard(g, n.fromlig, n.tocol) ELSE g

\* A square cleared leaves a board.
LEMMA ClearedBoard ==
  ASSUME NEW g \in Boards, NEW l \in 0 .. SIZE - 1, NEW c \in 0 .. SIZE - 1
  PROVE  clsboard(g, l, c) \in Boards
<1>1. g \in Near(g, Squares)
  BY DEF Near
<1>2. <<l, c>> \in Squares
  BY DEF Squares
<1> QED BY <1>1, <1>2, Wrote DEF Near

\* So does one that was checked.
LEMMA CheckLike ==
  ASSUME NEW g \in Boards, NEW d, NEW n \in Like(d), n.type # EN_PASSANT
  PROVE  LET c == check_move(g, n)
         IN  c.m \in Like(d) /\ c.board = CheckedBoard(g, c.m)
<1> DEFINE c == check_move(g, n)
           w == [n EXCEPT !.type = IF n.fromcol < n.tocol THEN PETITROQUE ELSE GRANDROQUE]
           p == [n EXCEPT !.type = EN_PASSANT]
<1>1. /\ PETITROQUE \in VOID .. PROM_ET_PRISE /\ GRANDROQUE \in VOID .. PROM_ET_PRISE
      /\ EN_PASSANT \in VOID .. PROM_ET_PRISE /\ EN_PASSANT \notin {PETITROQUE, GRANDROQUE}
  BY DEF PETITROQUE, GRANDROQUE, EN_PASSANT, VOID, PROM_ET_PRISE
<1>2. w \in Like(d) /\ p \in Like(d)
  BY <1>1, Writing
<1>3. /\ w.type # EN_PASSANT /\ p.type = EN_PASSANT
      /\ p.fromlig = n.fromlig /\ p.tocol = n.tocol
  BY <1>1 DEF Like, Moves
<1> HIDE DEF w, p
<1>4. \/ c.m = n /\ c.board = g
      \/ c.m = w /\ c.board = g
      \/ c.m = p /\ c.board = clsboard(g, n.fromlig, n.tocol)
  BY DEF check_move, w, p
<1> HIDE DEF c
<1>5. c.m \in Like(d) /\ c.board = CheckedBoard(g, c.m)
  BY <1>2, <1>3, <1>4 DEF CheckedBoard
<1> QED BY <1>5 DEF c

\* So does a castling.
LEMMA CastledLike ==
  ASSUME NEW g, NEW d, NEW n \in Like(d)
  PROVE  /\ castled(n) \in Like(d)
         /\ do_move(g, castled(n)) = do_move(g, n)
         /\ CheckedBoard(g, castled(n)) = CheckedBoard(g, n)
<1> DEFINE e == [n EXCEPT !.fromlig = home(n)]
<1>1. CASE n.type \notin Roques
  BY <1>1 DEF castled
<1>2. CASE n.type \in Roques
  <2>1. castled(n) = e
    BY <1>2 DEF castled
  <2>2. e \in Like(d)
    BY HomeLine, Writing
  <2>3. e.type = n.type /\ e.whiteturn = n.whiteturn
    BY DEF Like, Moves
  <2> HIDE DEF e
  <2>4. home(e) = home(n) /\ CURCOLOR(e) = CURCOLOR(n)
    BY <2>3 DEF home, CURCOLOR
  <2>5. do_move(g, e) = do_move(g, n)
    BY <1>2, <2>3, <2>4 DEF do_move, Roques, GRANDROQUE, PETITROQUE, MOVE, PRISE, PROMOTION, PROM_ET_PRISE, EN_PASSANT
  <2>6. CheckedBoard(g, e) = CheckedBoard(g, n)
    BY <1>2, <2>3 DEF CheckedBoard, Roques, GRANDROQUE, PETITROQUE, EN_PASSANT
  <2> QED BY <2>1, <2>2, <2>5, <2>6
<1> QED BY <1>1, <1>2

\* A move done leaves a board.
LEMMA DoneBoard ==
  ASSUME NEW g \in Boards, NEW n \in Moves
  PROVE  do_move(g, n) \in Boards /\ undo_move(g, n) \in Boards
<1>1. g \in Near(g, Written(n))
  BY DEF Near
<1> QED BY <1>1, WritesOnly DEF Near

\* A move played is the move that was read with its piece, its origin and its
\* type filled in, and the board is the one forward gives.
LEMMA PlayedForward ==
  ASSUME NEW g \in Boards, NEW d, NEW n \in Like(d), n.type # EN_PASSANT
  PROVE  LET r == played(g, n)
         IN  /\ r.m \in Like(d)
             /\ CheckedBoard(g, r.m) \in Boards
             /\ r.board = do_move(CheckedBoard(g, r.m), r.m)
             /\ r.board = forward(g, r.m)
<1> DEFINE r == played(g, n)
           guessed == IF n.fromlig = 0 \/ n.fromcol = 0 THEN guess_move(g, named(n))
                      ELSE [ok |-> TRUE, m |-> named(n)]
           t == taking(g, guessed.m)
           c == check_move(g, t)
<1>1. guessed.m \in Like(d) /\ guessed.m.type = n.type
  BY NamedLike, GuessLike
<1>2. r = checked(guessed, c)
  BY DEF played
<1> HIDE DEF guessed
<1>3. t \in Like(d) /\ t.type # EN_PASSANT
  <2>1. PRISE # EN_PASSANT
    BY DEF PRISE, EN_PASSANT
  <2> QED BY <1>1, <2>1, TakingLike
<1> HIDE DEF t
<1>4. c.m \in Like(d) /\ c.board = CheckedBoard(g, c.m)
  BY <1>3, CheckLike
<1> HIDE DEF c
<1>5. r.m = castled(c.m) /\ r.board = do_move(c.board, c.m)
  BY <1>2 DEF checked
<1> HIDE DEF r
<1>6. /\ r.m \in Like(d) /\ r.board = do_move(CheckedBoard(g, r.m), r.m)
  BY <1>4, <1>5, CastledLike
<1>7. CheckedBoard(g, r.m) \in Boards
  <2>1. r.m.fromlig \in 0 .. SIZE - 1 /\ r.m.tocol \in 0 .. SIZE - 1
    BY <1>6, LikeMoves
  <2> QED BY <2>1, ClearedBoard DEF CheckedBoard
<1>8. r.board = forward(g, r.m)
  BY <1>6 DEF forward, CheckedBoard
<1> QED BY <1>6, <1>7, <1>8 DEF r

-----------------------------------------------------------------------------
(* What is written.                                                        *)
Coords == 0 .. SIZE - 1
Texts  == [roque: VOID .. PROM_ET_PRISE, piece: VOID .. PAWN, debcol: Coords, from: Coords \X Coords,
           lie: {"x", "-", "none"}, to: Coords \X Coords, prom: VOID .. PAWN]
Plain  == [k: {"in", "out", "text", "board", "init", "end"}]
Marks  == [k: {"mark"}, move: Nat, white: BOOLEAN]
Played == [k: {"move"}, uid: Nat, white: BOOLEAN, txt: Texts, dots: BOOLEAN, num: Nat]
Items  == Plain \cup Marks \cup Played

\* What a driver writes apart from moves is an item.
LEMMA WroteItem ==
  ASSUME NEW o \in Seq(Items), NEW what \in {"in", "out", "text", "board", "init", "end"}
  PROVE  wrote(o, what) \in Seq(Items)
<1>1. [k |-> what] \in Items
  BY DEF Items, Plain
<1> HIDE DEF Items
<1> QED BY <1>1 DEF wrote

\* A castling written as the move of its king keeps its links.
LEMMA RoqueMoveLike ==
  ASSUME NEW q, NEW n \in Like(q)
  PROVE  /\ roque_to_move(n) \in Like(q)
         /\ roque_to_move(n).type = n.type
<1> DEFINE c == IF n.type = GRANDROQUE THEN 3 ELSE 7
           e1 == [n EXCEPT !.piece = KING]
           e2 == [e1 EXCEPT !.fromcol = 5]
           e3 == [e2 EXCEPT !.tocol = c]
           e4 == [e3 EXCEPT !.fromlig = home(n)]
           e5 == [e4 EXCEPT !.tolig = home(n)]
<1>1. roque_to_move(n) = e5
  BY DEF roque_to_move
<1>2. KING \in VOID .. PAWN /\ 5 \in 0 .. SIZE - 1 /\ c \in 0 .. SIZE - 1 /\ home(n) \in 0 .. SIZE - 1
  BY HomeLine DEF KING, VOID, PAWN, SIZE
<1> HIDE DEF c
<1>3. e1 \in Like(q) /\ e1.type = n.type
  BY <1>2, Writing DEF Like, Moves
<1> HIDE DEF e1
<1>4. e2 \in Like(q) /\ e2.type = n.type
  <2>1. e2 \in Like(q)
    BY <1>2, <1>3, Writing
  <2>2. e2.type = e1.type
    BY <1>3 DEF Like, Moves
  <2> QED BY <1>3, <2>1, <2>2
<1> HIDE DEF e2
<1>5. e3 \in Like(q) /\ e3.type = n.type
  <2>1. e3 \in Like(q)
    BY <1>2, <1>4, Writing
  <2>2. e3.type = e2.type
    BY <1>4 DEF Like, Moves
  <2> QED BY <1>4, <2>1, <2>2
<1> HIDE DEF e3
<1>6. e4 \in Like(q) /\ e4.type = n.type
  <2>1. e4 \in Like(q)
    BY <1>2, <1>5, Writing
  <2>2. e4.type = e3.type
    BY <1>5 DEF Like, Moves
  <2> QED BY <1>5, <2>1, <2>2
<1> HIDE DEF e4
<1>7. e5 \in Like(q) /\ e5.type = n.type
  <2>1. e5 \in Like(q)
    BY <1>2, <1>6, Writing
  <2>2. e5.type = e4.type
    BY <1>6 DEF Like, Moves
  <2> QED BY <1>6, <2>1, <2>2
<1> QED BY <1>1, <1>7

\* And it plays as before: its type is what forward looks at.
LEMMA RoqueMoveForward ==
  ASSUME NEW q, NEW n \in Like(q), NEW e \in Like(q), e.type = n.type, n.type \in Roques, NEW h
  PROVE  forward(h, e) = forward(h, n)
<1>1. home(e) = home(n) /\ CURCOLOR(e) = CURCOLOR(n)
  BY LikeMoves DEF home, CURCOLOR
<1> QED
  BY <1>1 DEF forward, do_move, Roques, GRANDROQUE, PETITROQUE, MOVE, PRISE, PROMOTION, PROM_ET_PRISE, EN_PASSANT

\* The text of a move.
LEMMA TextOf ==
  ASSUME NEW d \in Driver, NEW n \in Moves, NEW amb
  PROVE  text_of(d, n, amb) \in Texts /\ roque_text(n) \in Texts
<1> DEFINE t == text_of(d, n, amb)
<1>1. /\ n.piece \in VOID .. PAWN /\ n.promotion \in VOID .. PAWN /\ n.type \in VOID .. PROM_ET_PRISE
      /\ n.fromcol \in Coords /\ n.fromlig \in Coords /\ n.tocol \in Coords /\ n.tolig \in Coords
  BY DEF Moves, Coords
<1>2. 0 \in Coords /\ VOID \in VOID .. PROM_ET_PRISE /\ VOID \in VOID .. PAWN /\ PAWN \in VOID .. PAWN
  BY DEF Coords, SIZE, VOID, PROM_ET_PRISE, PAWN
<1>3. roque_text(n) \in Texts
  BY <1>1, <1>2 DEF roque_text, Texts
<1>4. /\ t = [roque |-> t.roque, piece |-> t.piece, debcol |-> t.debcol, from |-> t.from,
              lie |-> t.lie, to |-> t.to, prom |-> t.prom]
      /\ t.roque = VOID /\ t.prom = n.promotion /\ t.to = <<n.tocol, n.tolig>>
      /\ t.piece \in {n.piece, PAWN} /\ t.debcol \in {0, n.fromcol}
      /\ t.lie \in {"x", "-", "none"}
      /\ t.from \in {<<n.fromcol, 0>>, <<0, n.fromlig>>, <<n.fromcol, n.fromlig>>, <<0, 0>>}
  BY DEF text_of
<1> HIDE DEF t
<1>5. t.from \in Coords \X Coords /\ t.to \in Coords \X Coords
  BY <1>1, <1>2, <1>4
<1>6. t.roque \in VOID .. PROM_ET_PRISE /\ t.piece \in VOID .. PAWN /\ t.debcol \in Coords /\ t.prom \in VOID .. PAWN
  BY <1>1, <1>2, <1>4
<1>7. t \in Texts
  BY <1>4, <1>5, <1>6 DEF Texts
<1> QED BY <1>3, <1>7 DEF t

\* The item a written move is.
LEMMA FlushBuffer ==
  ASSUME NEW d \in Driver, NEW n \in Moves, NEW txt \in Texts
  PROVE  flush_buffer(d, n, txt) \in Items
<1>1. n.uid \in Nat /\ n.move \in Nat /\ n.whiteturn \in BOOLEAN /\ d.interrupt \in BOOLEAN
  BY DEF Moves, Driver
<1> DEFINE again == d.interrupt /\ ~n.whiteturn
           dots == again /\ d.type \notin Replayers
           num == IF d.type = "gnu" THEN 0
                  ELSE IF n.whiteturn \/ (again /\ d.type # "xchess") THEN n.move ELSE 0
<1>2. dots \in BOOLEAN /\ num \in Nat
  BY <1>1
<1>3. flush_buffer(d, n, txt) = [k |-> "move", uid |-> n.uid, white |-> n.whiteturn, txt |-> txt,
                                 dots |-> dots, num |-> num]
  BY DEF flush_buffer
<1> HIDE DEF dots, num
<1> QED BY <1>1, <1>2, <1>3 DEF Items, Played

\* Writing a move leaves the board as it was, and of the move what playing it
\* looks at: the search for ambiguity takes it back and does it again.
LEMMA OutputMove ==
  ASSUME NEW d \in Driver, NEW q, NEW n \in Like(q), NEW k \in Boards, NEW o \in Seq(Items)
  PROVE  LET w == output_move(d, n, do_move(k, n), o)
         IN  /\ w.dr \in SameLevel(d) /\ w.m \in Like(q)
             /\ w.board = do_move(k, n) /\ w.out \in Seq(Items)
             /\ \A h : forward(h, w.m) = forward(h, n)
<1> DEFINE g == do_move(k, n)
           w == output_move(d, n, g, o)
           castling == n.type \in Roques
           amb == ambiguity(g, n)
           n2  == IF castling /\ roque_alg(d) THEN roque_to_move(n) ELSE n
           txt == IF castling /\ ~roque_alg(d) THEN roque_text(n)
                  ELSE text_of(d, n2, IF castling THEN [ambigue |-> FALSE] ELSE amb)
           d2  == [d EXCEPT !.iswhiteturn = n.whiteturn, !.interrupt = FALSE]
<1>1. n \in Moves
  BY LikeMoves
<1>2. amb.board = g
  BY <1>1, AmbiguityKeepsBoard
<1>3. n2 \in Like(q) /\ (\A h : forward(h, n2) = forward(h, n))
  BY RoqueMoveLike, RoqueMoveForward
<1>4. n2 \in Moves
  BY <1>3, LikeMoves
<1> HIDE DEF n2, amb
<1>5. txt \in Texts
  BY <1>1, <1>4, TextOf
<1> HIDE DEF txt, g
<1>6. d2 \in SameLevel(d) /\ d \in SameLevel(d)
  BY <1>1 DEF SameLevel, Driver, Moves
<1>7. Append(o, flush_buffer(d, n2, txt)) \in Seq(Items)
  BY <1>4, <1>5, FlushBuffer
<1> HIDE DEF d2
<1>8. \/ w = [dr |-> d, m |-> n, board |-> g, out |-> o]
      \/ w = [dr |-> d2, m |-> n2, board |-> IF castling THEN g ELSE amb.board,
              out |-> Append(o, flush_buffer(d, n2, txt))]
  BY DEF output_move, n2, amb, txt, d2
<1> HIDE DEF w
<1>9. /\ w.dr \in SameLevel(d) /\ w.m \in Like(q)
      /\ w.board = g /\ w.out \in Seq(Items)
      /\ \A h : forward(h, w.m) = forward(h, n)
  <2>1. CASE w = [dr |-> d, m |-> n, board |-> g, out |-> o]
    BY <1>6, <2>1
  <2>2. CASE w = [dr |-> d2, m |-> n2, board |-> IF castling THEN g ELSE amb.board,
                  out |-> Append(o, flush_buffer(d, n2, txt))]
    BY <1>2, <1>3, <1>6, <1>7, <2>2
  <2> QED BY <1>8, <2>1, <2>2
<1> QED BY <1>9 DEF w, g

\* What is written with a board.
LEMMA OutputBoardOut ==
  ASSUME NEW d \in Driver, NEW o \in Seq(Items)
  PROVE  output_board(d, o).out \in Seq(Items)
<1>1. output_board(d, o).out \in {o, wrote(o, "board")}
  BY DEF output_board, output_board_ascii, output_board_ps, output_board_tex, output_board_roff
<1> QED BY <1>1, WroteItem

\* What is written at the start, at the end, and between the moves.
LEMMA OutputRest ==
  ASSUME NEW d \in Driver, NEW o \in Seq(Items)
  PROVE  /\ output_init(d, o) \in Seq(Items)
         /\ output_end(d, o) \in Seq(Items)
         /\ output_text(d, o) \in Seq(Items)
         /\ output_variation(d, o, "in") \in Seq(Items)
         /\ output_variation(d, o, "out") \in Seq(Items)
<1>1. /\ output_init(d, o) \in {o, wrote(o, "init")}
      /\ output_end(d, o) \in {o, wrote(o, "end")}
      /\ output_text(d, o) \in {o, wrote(o, "text")}
      /\ output_variation(d, o, "in") \in {o, wrote(o, "in")}
      /\ output_variation(d, o, "out") \in {o, wrote(o, "out")}
  BY DEF output_init, output_init_tex, output_init_gnu, output_end, output_end_tex, output_text,
         output_text_tex, output_text_generic, output_variation, output_variation_generic
<1> QED BY <1>1, WroteItem

\* A board displayed wherever one is asked for leaves the level.
LEMMA AfterMove ==
  ASSUME shown \in Shown, NEW d, NEW err, NEW w, w.dr \in Driver, w.out \in Seq(Items),
         after_move(d, err, w)
  PROVE  dr' \in SameLevel(w.dr) /\ out' \in Seq(Items)
<1> DEFINE asked(i) == ~d.whiteturn /\ shown.moves[i] = d.move
           first == output_board(w.dr, w.out)
           L == Len(shown.moves)
           D == 0 .. L
           A == [dr: SameLevel(w.dr), out: Seq(Items)]
           begin == [dr |-> w.dr, out |-> w.out]
           rank == [i \in D |-> i]
           body(f) == [i \in D |->
                         IF i = 0 THEN begin
                         ELSE IF asked(i) THEN output_board(f[i - 1].dr, f[i - 1].out) ELSE f[i - 1]]
           show == CHOOSE f : f = body(f)
           stops == err \/ (shown.stop /\ \E i \in DOMAIN shown.moves : asked(i))
<1>1. L \in Nat
  BY DEF Shown
<1>2. ASSUME NEW a \in A PROVE output_board(a.dr, a.out) \in A
  <2>1. a.dr \in Driver /\ a.out \in Seq(Items)
    BY DEF SameLevel
  <2>2. output_board(a.dr, a.out).dr \in SameLevel(w.dr)
    <3>1. output_board(a.dr, a.out).dr \in SameLevel(a.dr)
      BY <2>1, OutputBoard
    <3> QED BY <3>1 DEF SameLevel
  <2>3. output_board(a.dr, a.out).out \in Seq(Items)
    BY <2>1, OutputBoardOut
  <2>4. output_board(a.dr, a.out) = [dr |-> output_board(a.dr, a.out).dr, out |-> output_board(a.dr, a.out).out]
    BY <2>1, OutputBoard
  <2> QED BY <2>2, <2>3, <2>4
<1>3. begin \in A
  BY DEF SameLevel
<1> HIDE DEF A, asked, begin
<1>4. \E f \in [D -> A] : f = body(f)
  <2> DEFINE G == [f \in [D -> A] |-> body(f)]
  <2>1. ASSUME NEW f \in [D -> A] PROVE body(f) \in [D -> A]
    BY <1>1, <1>2, <1>3
  <2>2. G \in [[D -> A] -> [D -> A]]
    BY <2>1
  <2>3. ASSUME NEW f \in [D -> A], NEW g \in [D -> A], NEW x \in D,
               \A y \in D : rank[y] < rank[x] => f[y] = g[y]
        PROVE  G[f][x] = G[g][x]
    <3>1. x # 0 => x - 1 \in D /\ rank[x - 1] < rank[x]
      BY <1>1
    <3>2. x # 0 => f[x - 1] = g[x - 1]
      BY <2>3, <3>1
    <3> HIDE DEF rank
    <3>3. body(f)[x] = body(g)[x]
      BY <3>2
    <3> QED BY <3>3
  <2>4. \A f \in [D -> A] : G[f] = body(f)
    OBVIOUS
  <2>5. A # {} /\ rank \in [D -> 0 .. L]
    BY <1>1, <1>3
  <2> HIDE DEF G, D, body, rank
  <2>6. LooksDown(D, A, L, rank, G)
    BY <1>1, <2>2, <2>3, <2>5 DEF LooksDown
  <2>7. \E f \in [D -> A] : f = G[f]
    BY <2>6, Recursion
  <2> QED BY <2>4, <2>7
<1>5. show = body(show)
  <2> HIDE DEF body
  <2> QED BY <1>4
<1>6. \A i \in D : show[i] = IF i = 0 THEN begin
                             ELSE IF asked(i) THEN output_board(show[i - 1].dr, show[i - 1].out) ELSE show[i - 1]
  <2> HIDE DEF show
  <2> QED BY <1>5
<1>7. /\ out' = IF err THEN first.out
                ELSE IF stops THEN output_end(first.dr, first.out) ELSE show[L].out
      /\ dr'  = IF stops THEN first.dr ELSE show[L].dr
  BY DEF after_move, begin, asked
<1> HIDE DEF show
<1> DEFINE good == {i \in D : show[i] \in A}
<1>8. good = D
  <2>1. ASSUME NEW i \in D, \A y \in D : rank[y] < rank[i] => y \in good PROVE i \in good
    <3>1. CASE i = 0
      BY <1>3, <1>6, <3>1
    <3>2. CASE i # 0
      <4>1. i - 1 \in D /\ rank[i - 1] < rank[i]
        BY <1>1, <3>2
      <4>2. show[i - 1] \in A
        BY <2>1, <4>1
      <4> QED BY <1>2, <1>6, <3>2, <4>2
    <3> QED BY <3>1, <3>2
  <2>2. good \in SUBSET D /\ rank \in [D -> Nat]
    BY <1>1
  <2> HIDE DEF good, D, rank
  <2>3. Inherits(D, rank, good)
    BY <2>1, <2>2 DEF Inherits
  <2> QED BY <2>3, ByRank
<1>9. show[L] \in A
  BY <1>1, <1>8
<1>10. first \in A
  BY <1>2, <1>3 DEF begin
<1>11. output_end(first.dr, first.out) \in Seq(Items)
  BY <1>10, OutputRest DEF A, SameLevel
<1> HIDE DEF first, stops
<1> QED BY <1>7, <1>9, <1>10, <1>11 DEF A

-----------------------------------------------------------------------------
(* The invariant of the heap.                                              *)
Kinds == {"head", "move", "nothing", "branch"} \cup Placed

Typed ==
  /\ pc \in {"start", "reading", "ended"} /\ input \in DOMAIN Inputs /\ pos \in Nat
  /\ dr \in Driver /\ shown \in Shown /\ out \in Seq(Items)
  /\ counter \in Nat /\ nboards \in Nat
  /\ stack \in [0 .. VARIATION_MAX - 1 -> [d: Nat, b: Nat, d1: BOOLEAN, d2: BOOLEAN]]
  /\ did \in Seq(Kinds) /\ Len(did) = counter
  /\ base \in Boards
  /\ configuring => configside \in {WHITE, BLACK}

\* the moves are a tree whose links lead to later moves
Tree ==
  /\ chain = 1 /\ Rising(node, counter) /\ Hung(node, chain)
  /\ \A x \in DOMAIN node : node[x] \in Moves /\ node[x].uid = x
  /\ node[chain].prev = NULL
  /\ \A x \in DOMAIN node \ {chain} : node[x].prev \in DOMAIN node /\ node[x].prev < x

\* no variation replaces the head
Told ==
  /\ did[chain] = "head"
  /\ \A x \in DOMAIN node \ {chain} : did[x] # "head"
  /\ \A x \in DOMAIN node \ {chain} : did[x] = "branch" => node[x].prev # chain

Level == 0 .. dr.variation - 1

\* the open lines end at moves that nothing follows, the outer ones first
LineEnds ==
  /\ m \in DOMAIN node /\ node[m].next = NULL
  /\ \A l \in Level : /\ stack[l].d \in DOMAIN node /\ node[stack[l].d].next = NULL
                      /\ stack[l].d < m /\ \A k \in Level : k < l => stack[k].d < stack[l].d

\* each open line has its own board, and no other is allocated
LineBoards ==
  /\ DOMAIN board = {tos} \cup {stack[l].b : l \in Level}
  /\ tos \in 0 .. nboards
  /\ \A l \in Level : /\ stack[l].b < tos /\ \A k \in Level : k < l => stack[k].b < stack[l].b
  /\ IsFiniteSet(DOMAIN board) /\ Cardinality(DOMAIN board) = dr.variation + 1
  /\ \A b \in DOMAIN board : board[b] \in Boards

HeapInv ==
  /\ Typed
  /\ pc = "reading" => Tree /\ Told /\ LineEnds /\ LineBoards
  /\ pc # "reading" => node = Empty /\ board = Empty

-----------------------------------------------------------------------------
\* new is the heap nodes of at most n moves with a move more, that hangs from at
Grown(nodes, new, n, at) ==
  /\ at \in DOMAIN nodes /\ DOMAIN new = DOMAIN nodes \cup {n + 1}
  /\ new[n + 1].next = NULL /\ new[n + 1].sub = NULL
  /\ \A x \in DOMAIN nodes \ {at} : new[x].next = nodes[x].next /\ new[x].sub = nodes[x].sub
  /\ \/ nodes[at].next = NULL /\ new[at].next = n + 1 /\ new[at].sub = nodes[at].sub
     \/ nodes[at].sub = NULL /\ new[at].sub = n + 1 /\ new[at].next = nodes[at].next

\* A move linked where no other was keeps the tree.
LEMMA GrownTree ==
  ASSUME NEW n \in Nat, NEW nodes, NEW new, NEW at, NEW c, Rising(nodes, n), Hung(nodes, c),
         Grown(nodes, new, n, at)
  PROVE  Rising(new, n + 1) /\ Hung(new, c)
<1>1. /\ DOMAIN nodes \subseteq 1 .. n /\ NULL \notin DOMAIN nodes /\ n + 1 \notin DOMAIN nodes
      /\ at \in DOMAIN nodes
  BY DEF Rising, NULL, Grown
<1>2. Rising(new, n + 1)
  <2>1. DOMAIN new \subseteq 1 .. n + 1
    BY <1>1 DEF Grown
  <2>2. ASSUME NEW x \in DOMAIN new, NEW y \in {new[x].next, new[x].sub}
        PROVE  y = NULL \/ (y \in DOMAIN new /\ x < y)
    <3>1. CASE x = n + 1
      BY <3>1 DEF Grown
    <3>2. CASE x # n + 1
      <4>1. x \in DOMAIN nodes /\ x < n + 1
        BY <1>1, <3>2 DEF Grown
      <4>2. y \in {nodes[x].next, nodes[x].sub} \/ y = n + 1
        BY <4>1 DEF Grown
      <4>3. n + 1 \in DOMAIN new /\ DOMAIN nodes \subseteq DOMAIN new
        BY DEF Grown
      <4> QED BY <4>1, <4>2, <4>3 DEF Rising
    <3> QED BY <3>1, <3>2
  <2> QED BY <2>1, <2>2 DEF Rising
<1>3. Hung(new, c)
  <2>1. c \in DOMAIN new
    BY DEF Hung, Grown
  <2>2. ASSUME NEW y \in DOMAIN new \ {c}
        PROVE  \E x \in DOMAIN new : y \in {new[x].next, new[x].sub}
    <3>1. CASE y = n + 1
      <4>1. at \in DOMAIN new /\ y \in {new[at].next, new[at].sub}
        BY <3>1 DEF Grown
      <4> QED BY <4>1
    <3>2. CASE y # n + 1
      <4>1. y \in DOMAIN nodes \ {c} /\ y # NULL
        BY <1>1, <3>2 DEF Grown
      <4>2. PICK x \in DOMAIN nodes : y \in {nodes[x].next, nodes[x].sub}
        BY <4>1 DEF Hung
      <4>3. x \in DOMAIN new /\ y \in {new[x].next, new[x].sub}
        BY <4>1, <4>2 DEF Grown
      <4> QED BY <4>3
    <3> QED BY <3>1, <3>2
  <2> QED BY <2>1, <2>2 DEF Hung
<1> QED BY <1>2, <1>3

\* A tree freed from its head leaves nothing.
LEMMA FreedTree ==
  ASSUME NEW n \in Nat, NEW nodes, Rising(nodes, n), Hung(nodes, chain)
  PROVE  [x \in DOMAIN nodes \ (under(nodes, chain) \cup {chain}) |-> nodes[x]] = Empty
<1>1. DOMAIN nodes \ (under(nodes, chain) \cup {chain}) = {}
  BY UnderIsAll
<1> QED BY <1>1 DEF Empty

\* The boards freed are all there are.
LEMMA FreedBoards ==
  ASSUME NEW boards, DOMAIN boards = {tos} \cup {stack[l].b : l \in Level}
  PROVE  [b \in DOMAIN boards \ ({stack[i].b : i \in 0 .. dr.variation - 1} \cup {tos}) |-> boards[b]] = Empty
<1>1. DOMAIN boards \ ({stack[i].b : i \in 0 .. dr.variation - 1} \cup {tos}) = {}
  BY DEF Level
<1> QED BY <1>1 DEF Empty

\* what linking a move after the current one does to the tree
LEMMA LinkedGrown ==
  ASSUME Tree, LineEnds, counter \in Nat, NEW e, e.next = NULL, e.sub = NULL
  PROVE  /\ Grown(node, linked(e), counter, m)
         /\ Rising(linked(e), uid) /\ Hung(linked(e), chain)
         /\ uid \notin DOMAIN node /\ NULL \notin DOMAIN node
<1>1. uid \notin DOMAIN node /\ NULL \notin DOMAIN node /\ m \in DOMAIN node /\ m # uid
  BY DEF Tree, Rising, uid, LineEnds, NULL
<1>2. Grown(node, linked(e), counter, m)
  <2>1. node[m] \in Moves /\ node[m].next = NULL
    BY DEF Tree, LineEnds
  <2>2. linked(e)[m].next = uid /\ linked(e)[m].sub = node[m].sub
    BY <1>1, <2>1 DEF linked, Moves
  <2>3. \A x \in DOMAIN node \ {m} : linked(e)[x] = node[x]
    BY <1>1 DEF linked
  <2>4. linked(e)[uid] = e /\ DOMAIN linked(e) = DOMAIN node \cup {uid}
    BY DEF linked
  <2> QED BY <1>1, <2>1, <2>2, <2>3, <2>4 DEF Grown, uid
<1>3. Rising(linked(e), uid) /\ Hung(linked(e), chain)
  BY <1>2, GrownTree DEF Tree, uid
<1> QED BY <1>1, <1>2, <1>3

\* the old moves in a heap the move e was linked into
LEMMA LinkedOld ==
  ASSUME Tree, LineEnds, counter \in Nat, NEW e
  PROVE  /\ DOMAIN linked(e) = DOMAIN node \cup {uid} /\ linked(e)[uid] = e
         /\ \A x \in DOMAIN node : /\ linked(e)[x] \in Moves
                                   /\ linked(e)[x] = [node[x] EXCEPT !.next = linked(e)[x].next]
                                   /\ x # m => linked(e)[x] = node[x]
<1>1. uid \notin DOMAIN node /\ m \in DOMAIN node /\ m # uid /\ uid \in Nat
  BY DEF Tree, Rising, uid, LineEnds
<1>2. DOMAIN linked(e) = DOMAIN node \cup {uid} /\ linked(e)[uid] = e
  BY DEF linked
<1>3. ASSUME NEW x \in DOMAIN node, x # m PROVE linked(e)[x] = node[x]
  BY <1>1, <1>3 DEF linked
<1>4. linked(e)[m] = [node[m] EXCEPT !.next = uid]
  BY <1>1 DEF linked
<1>5. ASSUME NEW n \in Moves, NEW y \in Nat
      PROVE  /\ [n EXCEPT !.next = y] \in Moves /\ [n EXCEPT !.next = y].next = y
             /\ n = [n EXCEPT !.next = n.next]
  BY DEF Moves
<1>6. ASSUME NEW x \in DOMAIN node
      PROVE  linked(e)[x] \in Moves /\ linked(e)[x] = [node[x] EXCEPT !.next = linked(e)[x].next]
  <2>1. node[x] \in Moves
    BY DEF Tree
  <2>2. CASE x = m
    BY <1>1, <1>4, <1>5, <2>1, <2>2
  <2>3. CASE x # m
    BY <1>3, <1>5, <2>1, <2>3
  <2> QED BY <2>2, <2>3
<1> QED BY <1>2, <1>3, <1>6

\* A move linked after the current one keeps the tree and the ends of the lines.
LEMMA Appended ==
  ASSUME Tree, Told, LineEnds, Typed,
         NEW e \in Moves, e.uid = uid, e.next = NULL, e.sub = NULL, e.prev = m,
         NEW what \in Kinds, what \notin {"head", "branch"}, NewMove(what),
         node' = linked(e), UNCHANGED <<chain, stack>>, dr'.variation = dr.variation
  PROVE  Tree' /\ Told' /\ LineEnds'
<1>1. counter \in Nat /\ did \in Seq(Kinds) /\ Len(did) = counter
  BY DEF Typed
<1>2. /\ Rising(linked(e), uid) /\ Hung(linked(e), chain)
      /\ uid \notin DOMAIN node /\ NULL \notin DOMAIN node
  BY <1>1, LinkedGrown
<1>3. /\ DOMAIN node' = DOMAIN node \cup {uid} /\ node'[uid] = e
      /\ \A x \in DOMAIN node : /\ node'[x] \in Moves
                                /\ node'[x] = [node[x] EXCEPT !.next = node'[x].next]
                                /\ x # m => node'[x] = node[x]
  <2>1. /\ DOMAIN linked(e) = DOMAIN node \cup {uid} /\ linked(e)[uid] = e
        /\ \A x \in DOMAIN node : /\ linked(e)[x] \in Moves
                                  /\ linked(e)[x] = [node[x] EXCEPT !.next = linked(e)[x].next]
                                  /\ x # m => linked(e)[x] = node[x]
    BY ONLY <1>1, LinkedOld, Tree, LineEnds
  <2>2. node' = linked(e)
    OBVIOUS
  <2> QED BY ONLY <2>1, <2>2, Zenon
<1>4. /\ m \in DOMAIN node /\ chain = 1 /\ chain \in DOMAIN node
      /\ \A x \in DOMAIN node : x \in 1 .. counter /\ x < uid /\ node[x] \in Moves
  BY <1>1 DEF Tree, LineEnds, Rising, Hung, uid
<1>5. \A x \in DOMAIN node : node'[x].prev = node[x].prev /\ node'[x].uid = node[x].uid
  BY <1>3, <1>4 DEF Moves
<1>6. m' = uid /\ counter' = uid /\ did' = Append(did, what) /\ chain' = chain /\ uid = counter + 1
  BY DEF NewMove, uid
<1>7. did'[uid] = what /\ \A x \in DOMAIN node : did'[x] = did[x]
  BY <1>1, <1>4, <1>6
<1>8. Tree'
  <2>1. Rising(node', counter') /\ Hung(node', chain')
    BY <1>2, <1>6
  <2>2. \A x \in DOMAIN node' : node'[x] \in Moves /\ node'[x].uid = x
    BY <1>3, <1>5 DEF Tree
  <2>3. node'[chain'].prev = NULL
    BY <1>4, <1>5, <1>6 DEF Tree
  <2>4. ASSUME NEW x \in DOMAIN node' \ {chain'} PROVE node'[x].prev \in DOMAIN node' /\ node'[x].prev < x
    <3>1. CASE x = uid
      BY <1>3, <1>4, <3>1
    <3>2. CASE x # uid
      <4>1. x \in DOMAIN node \ {chain}
        BY <1>3, <1>6, <3>2
      <4>2. node[x].prev \in DOMAIN node /\ node[x].prev < x
        BY <4>1 DEF Tree
      <4> QED BY <1>3, <1>5, <4>1, <4>2
    <3> QED BY <3>1, <3>2
  <2> QED BY <1>4, <1>6, <2>1, <2>2, <2>3, <2>4 DEF Tree
<1>9. Told'
  <2>1. did'[chain'] = "head"
    BY <1>4, <1>6, <1>7 DEF Told
  <2>2. \A x \in DOMAIN node' \ {chain'} : did'[x] # "head"
    BY <1>3, <1>6, <1>7 DEF Told
  <2>3. ASSUME NEW x \in DOMAIN node' \ {chain'}, did'[x] = "branch"
        PROVE  node'[x].prev # chain'
    <3>1. x # uid
      BY <1>7, <2>3
    <3>2. x \in DOMAIN node \ {chain} /\ did[x] = "branch"
      BY <1>3, <1>6, <1>7, <2>3, <3>1
    <3>3. node[x].prev # chain
      BY <3>2 DEF Told
    <3> QED BY <1>5, <1>6, <3>2, <3>3
  <2> QED BY <2>1, <2>2, <2>3 DEF Told
<1>10. LineEnds'
  <2>1. Level' = Level /\ stack' = stack
    BY DEF Level
  <2>2. m' \in DOMAIN node' /\ node'[m'].next = NULL
    BY <1>3, <1>6
  <2>3. ASSUME NEW l \in Level
        PROVE  /\ stack[l].d \in DOMAIN node' /\ node'[stack[l].d].next = NULL
               /\ stack[l].d < m' /\ \A k \in Level : k < l => stack[k].d < stack[l].d
    <3>1. /\ stack[l].d \in DOMAIN node /\ node[stack[l].d].next = NULL /\ stack[l].d < m
          /\ \A k \in Level : k < l => stack[k].d < stack[l].d
      BY DEF LineEnds
    <3>2. stack[l].d # m /\ stack[l].d < uid
      BY <1>4, <3>1
    <3> QED BY <1>3, <1>6, <3>1, <3>2
  <2> QED BY <2>1, <2>2, <2>3 DEF LineEnds
<1> QED BY <1>8, <1>9, <1>10

\* a move that can be linked after the current one
Fresh(e) == e \in Moves /\ e.uid = uid /\ e.next = NULL /\ e.sub = NULL /\ e.prev = m

\* What plays like a move that can be linked can be linked.
LEMMA FreshLike ==
  ASSUME NEW d, Fresh(d), NEW e \in Like(d)
  PROVE  Fresh(e)
  BY DEF Fresh, Like

\* add_trailing_move yields a move that can be linked.
LEMMA TrailingMove ==
  ASSUME Tree, LineEnds, Typed
  PROVE  Fresh(add_trailing_move(m)) /\ Fresh(init_parse(add_trailing_move(m)))
<1> DEFINE n == new_move(counter + 1)
           w == ~node[m].whiteturn
           k == IF node[m].whiteturn THEN node[m].move ELSE node[m].move + 1
           e1 == [n EXCEPT !.prev = m]
           e2 == [e1 EXCEPT !.whiteturn = w]
           e == [e2 EXCEPT !.move = k]
<1>1. counter \in Nat /\ m \in Nat /\ node[m] \in Moves
  BY DEF Typed, Tree, Rising, LineEnds
<1>2. w \in BOOLEAN /\ k \in Nat
  BY <1>1 DEF Moves
<1>3. n \in Moves /\ n.uid = uid /\ n.next = NULL /\ n.sub = NULL
  BY <1>1 DEF new_move, Moves, uid, NULL, VOID, PAWN, PROM_ET_PRISE, SIZE
<1>4. add_trailing_move(m) = e
  BY DEF add_trailing_move
<1> HIDE DEF n, w, k
<1>5. e1 \in Moves /\ e1.uid = uid /\ e1.next = NULL /\ e1.sub = NULL /\ e1.prev = m
  BY <1>1, <1>3 DEF Moves
<1> HIDE DEF e1
<1>6. e2 \in Moves /\ e2.uid = uid /\ e2.next = NULL /\ e2.sub = NULL /\ e2.prev = m
  BY <1>2, <1>5 DEF Moves
<1> HIDE DEF e2
<1>7. e \in Moves /\ e.uid = uid /\ e.next = NULL /\ e.sub = NULL /\ e.prev = m
  BY <1>2, <1>6 DEF Moves
<1> HIDE DEF e
<1>8. Fresh(e)
  BY <1>7 DEF Fresh
<1>9. init_parse(e) \in Like(e)
  BY <1>7, InitParse DEF Parsed
<1> QED BY <1>4, <1>8, <1>9, FreshLike

\* The current board is written; no other changes.
LEMMA BoardWritten ==
  ASSUME LineBoards, NEW g \in Boards, board' = [board EXCEPT ![tos] = g],
         UNCHANGED <<tos, nboards, stack>>, dr'.variation = dr.variation
  PROVE  LineBoards'
<1>1. DOMAIN board' = DOMAIN board /\ \A b \in DOMAIN board : board'[b] \in Boards
  BY DEF LineBoards
<1>2. Level' = Level
  BY DEF Level
<1> QED BY <1>1, <1>2 DEF LineBoards

\* No board changes.
LEMMA BoardKept ==
  ASSUME LineBoards, UNCHANGED <<board, tos, nboards, stack>>, dr'.variation = dr.variation
  PROVE  LineBoards'
<1>1. Level' = Level
  BY DEF Level
<1> QED BY <1>1 DEF LineBoards

\* what every rule of the scanner leaves alone or only adds to
LEMMA TypedStep ==
  ASSUME Typed, pc' \in {"reading", "ended"}, UNCHANGED <<input, stack, shown, parser, base>>, pos' = pos + 1,
         dr' \in Driver, out' \in Seq(Items), nboards' \in Nat,
         NEW what \in Kinds, NewMove(what)
  PROVE  Typed'
<1>1. did' \in Seq(Kinds) /\ Len(did') = counter' /\ counter' \in Nat
  BY DEF Typed, NewMove, uid
<1> QED BY <1>1 DEF Typed, parser

\* A token that is no move keeps the invariant.
LEMMA MisreadInv ==
  ASSUME HeapInv, pc = "reading", NEW d, Fresh(d), misread(d),
         UNCHANGED <<chain, nboards, tos, stack, shown, parser, input>>, pos' = pos + 1
  PROVE  HeapInv'
<1>1. Typed /\ Tree /\ Told /\ LineEnds /\ LineBoards
  BY DEF HeapInv
<1>2. "nothing" \in Kinds /\ NewMove("nothing") /\ node' = linked(d)
  BY DEF Kinds, misread
<1>3. Tree' /\ Told' /\ LineEnds'
  BY <1>1, <1>2, Appended DEF Fresh, misread
<1>4. LineBoards'
  BY <1>1, BoardKept DEF misread
<1>5. mark(d) \in Items
  BY DEF Fresh, mark, Moves, Items, Marks
<1>6. dr' \in Driver /\ out' \in Seq(Items) /\ nboards' \in Nat
  <2> HIDE DEF Items
  <2> QED BY <1>1, <1>5 DEF misread, Typed
<1>7. Typed'
  <2>1. pc' \in {"reading", "ended"} /\ UNCHANGED base
    BY DEF misread
  <2> QED BY <1>1, <1>2, <1>6, <2>1, TypedStep
<1>8. pc' = "reading"
  BY DEF misread
<1> QED BY <1>3, <1>4, <1>7, <1>8 DEF HeapInv

\* So does a piece put on the board.
LEMMA ConfigureInv ==
  ASSUME HeapInv, pc = "reading", configuring, NEW d, Fresh(d), configure(d),
         UNCHANGED <<chain, nboards, tos, stack, shown, parser, input>>, pos' = pos + 1
  PROVE  HeapInv'
<1> DEFINE e == [d EXCEPT !.piece = IF @ = VOID THEN PAWN ELSE @]
           what == IF configside = WHITE THEN "white" ELSE "black"
           p == IF d.piece = VOID THEN PAWN ELSE d.piece
           g == setboard(board[tos], d.tolig, d.tocol, p, configside)
<1>1. Typed /\ Tree /\ Told /\ LineEnds /\ LineBoards
  BY DEF HeapInv
<1>2. what \in Kinds /\ what \notin {"head", "branch"} /\ NewMove(what) /\ node' = linked(e)
  BY DEF Kinds, Placed, configure
<1>3. Fresh(e)
  <2>1. p \in VOID .. PAWN
    BY DEF Fresh, Moves, VOID, PAWN
  <2>2. [d EXCEPT !.piece = p] \in Like(d)
    BY <2>1, Writing DEF Fresh, Like
  <2>3. e = [d EXCEPT !.piece = p]
    BY DEF Fresh, Moves
  <2> QED BY <2>2, <2>3, FreshLike
<1>4. g \in Boards
  <2>1. board[tos] \in Boards /\ configside \in BLACK .. WHITE
    BY <1>1 DEF LineBoards, Typed, BLACK, WHITE
  <2>2. <<d.tolig, d.tocol>> \in Squares /\ p \in VOID .. PAWN
    BY DEF Fresh, Moves, Squares, VOID, PAWN
  <2>3. <<p, configside>> \in Cells
    BY <2>1, <2>2 DEF Cells
  <2> HIDE DEF p
  <2> QED BY <2>1, <2>2, <2>3 DEF setboard, Boards
<1>5. board' = [board EXCEPT ![tos] = g]
  BY <1>1 DEF configure, LineBoards
<1> HIDE DEF e, what, g
<1>6. dr' = dr /\ out' = out /\ UNCHANGED base /\ pc' = "reading"
  BY DEF configure
<1>7. Tree' /\ Told' /\ LineEnds'
  BY <1>1, <1>2, <1>3, <1>6, Appended DEF Fresh
<1>8. LineBoards'
  BY <1>1, <1>4, <1>5, <1>6, BoardWritten
<1>9. Typed'
  <2>1. dr' \in Driver /\ out' \in Seq(Items) /\ nboards' \in Nat
    BY <1>1, <1>6 DEF Typed
  <2> QED BY <1>1, <1>2, <1>6, <2>1, TypedStep
<1> QED BY <1>6, <1>7, <1>8, <1>9 DEF HeapInv

\* what a move done and written is
LEMMA Executed ==
  ASSUME Typed, LineBoards, NEW d, Fresh(d), d.type # EN_PASSANT, execute_move(d)
  PROVE  \E e : /\ Fresh(e) /\ e \in Like(d)
                /\ forward(board[tos], e) \in Boards
                /\ dr' \in SameLevel(dr) /\ out' \in Seq(Items)
                /\ NewMove("move") /\ UNCHANGED base
                /\ \/ /\ pc' = "ended" /\ status' = "0"
                      /\ free_resources(linked(e), [board EXCEPT ![tos] = forward(board[tos], e)])
                   \/ /\ UNCHANGED <<pc, status>>
                      /\ node' = linked(e)
                      /\ board' = [board EXCEPT ![tos] = forward(board[tos], e)]
<1> DEFINE r == played(board[tos], d)
           w == output_move(dr, r.m, r.board, out)
           k == CheckedBoard(board[tos], r.m)
           err == error_flag \/ ~r.ok
<1>1. board[tos] \in Boards /\ d \in Like(d) /\ shown \in Shown
  BY DEF LineBoards, Fresh, Like, Typed
<1>2. /\ r.m \in Like(d) /\ k \in Boards /\ r.board = do_move(k, r.m)
      /\ r.board = forward(board[tos], r.m)
  BY <1>1, PlayedForward
<1>3. dr \in Driver /\ out \in Seq(Items)
  BY DEF Typed
<1>4. after_move(d, err, w)
  BY DEF execute_move, write_move
<1> HIDE DEF k, r, err
<1>5. /\ w.dr \in SameLevel(dr) /\ w.m \in Like(d) /\ w.board = r.board /\ w.out \in Seq(Items)
      /\ \A h : forward(h, w.m) = forward(h, r.m)
  <2> DEFINE n == r.m
             x == output_move(dr, n, do_move(k, n), out)
  <2>1. w = x
    BY <1>2
  <2>2. n \in Like(d)
    BY <1>2
  <2> HIDE DEF n
  <2>3. /\ x.dr \in SameLevel(dr) /\ x.m \in Like(d) /\ x.board = do_move(k, n) /\ x.out \in Seq(Items)
        /\ \A h : forward(h, x.m) = forward(h, n)
    BY ONLY <1>2, <1>3, <2>2, OutputMove
  <2> HIDE DEF w, x
  <2> QED BY <1>2, <2>1, <2>3 DEF n
<1> HIDE DEF w
<1>6. w.board = forward(board[tos], w.m) /\ forward(board[tos], w.m) \in Boards
  <2>1. r.m \in Moves
    BY <1>2, LikeMoves
  <2> QED BY <1>2, <1>5, <2>1, DoneBoard
<1>7. Fresh(w.m)
  BY <1>5, FreshLike
<1>8. dr' \in SameLevel(dr) /\ out' \in Seq(Items)
  BY <1>1, <1>4, <1>5, AfterMove DEF SameLevel
<1>9. [linked(d) EXCEPT ![uid] = w.m] = linked(w.m)
  BY DEF linked
<1>10. /\ NewMove("move") /\ UNCHANGED base
       /\ \/ /\ exit("0")
             /\ free_resources([linked(d) EXCEPT ![uid] = w.m], [board EXCEPT ![tos] = w.board])
          \/ /\ node' = [linked(d) EXCEPT ![uid] = w.m]
             /\ board' = [board EXCEPT ![tos] = w.board] /\ UNCHANGED <<pc, status>>
  BY <1>4 DEF after_move
<1> QED BY <1>5, <1>6, <1>7, <1>8, <1>9, <1>10 DEF exit

\* Everything is freed at an exit.
LEMMA FreedAll ==
  ASSUME LineBoards, NEW n \in Nat, NEW nodes, Rising(nodes, n), Hung(nodes, chain),
         NEW boards, DOMAIN boards = DOMAIN board, free_resources(nodes, boards)
  PROVE  node' = Empty /\ board' = Empty
<1>1. DOMAIN boards = {tos} \cup {stack[l].b : l \in Level}
  BY DEF LineBoards
<1>2. [x \in DOMAIN nodes \ (under(nodes, chain) \cup {chain}) |-> nodes[x]] = Empty
  BY FreedTree
<1>3. [b \in DOMAIN boards \ ({stack[i].b : i \in 0 .. dr.variation - 1} \cup {tos}) |-> boards[b]] = Empty
  BY <1>1, FreedBoards
<1> QED BY <1>2, <1>3 DEF free_resources

\* So does a move done, whether the program goes on or stops.
LEMMA ExecuteInv ==
  ASSUME HeapInv, pc = "reading", NEW d, Fresh(d), d.type # EN_PASSANT, execute_move(d),
         UNCHANGED <<chain, nboards, tos, stack, shown, parser, input>>, pos' = pos + 1
  PROVE  HeapInv'
<1>1. Typed /\ Tree /\ Told /\ LineEnds /\ LineBoards
  BY DEF HeapInv
<1>2. PICK e : /\ Fresh(e) /\ e \in Like(d)
               /\ forward(board[tos], e) \in Boards
               /\ dr' \in SameLevel(dr) /\ out' \in Seq(Items)
               /\ NewMove("move") /\ UNCHANGED base
               /\ \/ /\ pc' = "ended" /\ status' = "0"
                     /\ free_resources(linked(e), [board EXCEPT ![tos] = forward(board[tos], e)])
                  \/ /\ UNCHANGED <<pc, status>>
                     /\ node' = linked(e)
                     /\ board' = [board EXCEPT ![tos] = forward(board[tos], e)]
  BY <1>1, Executed
<1> DEFINE g == forward(board[tos], e)
           boards == [board EXCEPT ![tos] = g]
<1>3. "move" \in Kinds /\ "move" \notin {"head", "branch"}
  BY DEF Kinds
<1>4. dr' \in Driver /\ dr'.variation = dr.variation
  BY <1>2 DEF SameLevel
<1>5. Typed'
  <2>1. pc' \in {"reading", "ended"} /\ nboards' \in Nat
    BY <1>1, <1>2 DEF Typed
  <2> QED BY <1>1, <1>2, <1>3, <1>4, <2>1, TypedStep
<1>6. CASE pc' = "ended" /\ free_resources(linked(e), boards)
  <2>1. Rising(linked(e), uid) /\ Hung(linked(e), chain) /\ uid \in Nat
    BY <1>1, <1>2, LinkedGrown DEF Fresh, Typed, uid
  <2>2. DOMAIN boards = DOMAIN board
    OBVIOUS
  <2> HIDE DEF boards
  <2>3. node' = Empty /\ board' = Empty
    BY <1>1, <1>6, <2>1, <2>2, FreedAll
  <2> QED BY <1>5, <1>6, <2>3 DEF HeapInv
<1>7. CASE pc' = pc /\ node' = linked(e) /\ board' = boards
  <2>1. Tree' /\ Told' /\ LineEnds'
    BY <1>1, <1>2, <1>3, <1>4, <1>7, Appended DEF Fresh
  <2> HIDE DEF g
  <2>2. LineBoards'
    BY <1>1, <1>2, <1>4, <1>7, BoardWritten DEF g
  <2> QED BY <1>5, <1>7, <2>1, <2>2 DEF HeapInv
<1> QED BY <1>2, <1>6, <1>7

\* So does every spelling the scanner lets through.
LEMMA ParseMoveInv ==
  ASSUME HeapInv, pc = "reading", NEW s, Legible(s), parse_move(s), UNCHANGED input, pos' = pos + 1
  PROVE  HeapInv'
<1> DEFINE d == add_trailing_move(m)
           p == parse(in_language, d, s)
<1>1. Fresh(d)
  BY TrailingMove DEF HeapInv
<1>2. p \in Automaton(d)
  BY <1>1, ParseReads DEF Fresh
<1>3. p.d \in Like(d) /\ p.d.type # EN_PASSANT
  BY <1>2 DEF Automaton, Parsed, ReadTypes, MOVE, PRISE, PROMOTION, PROM_ET_PRISE, EN_PASSANT
<1>4. parsed(p)
  BY DEF parse_move
<1> HIDE DEF p, d
<1> DEFINE e == p.d
<1>5. Fresh(e) /\ e.type # EN_PASSANT
  BY <1>1, <1>3, FreshLike
<1>6. /\ UNCHANGED <<chain, nboards, tos, stack, shown, parser>>
      /\ misread(e) \/ (configuring /\ configure(e)) \/ execute_move(e)
  BY <1>4 DEF parsed
<1> HIDE DEF e
<1> QED BY <1>5, <1>6, MisreadInv, ConfigureInv, ExecuteInv

\* So does a castling.
LEMMA ParseRoqueInv ==
  ASSUME HeapInv, pc = "reading", NEW t \in Roques, parse_roque(t), UNCHANGED input, pos' = pos + 1
  PROVE  HeapInv'
<1> DEFINE d == init_parse(add_trailing_move(m))
           e == [d EXCEPT !.type = t]
<1>1. Fresh(d)
  BY TrailingMove DEF HeapInv
<1>2. t \in VOID .. PROM_ET_PRISE /\ t # EN_PASSANT
  BY DEF Roques, GRANDROQUE, PETITROQUE, VOID, PROM_ET_PRISE, EN_PASSANT
<1>3. execute_move(e) /\ UNCHANGED <<chain, nboards, tos, stack, shown, parser>>
  BY DEF parse_roque
<1> HIDE DEF d
<1>4. e \in Like(d) /\ e.type = t
  <2>1. d \in Moves /\ d \in Like(d)
    BY <1>1 DEF Fresh, Like
  <2>2. e.type = t
    BY <2>1 DEF Moves
  <2> QED BY <1>2, <2>1, <2>2, Writing
<1>5. Fresh(e)
  BY <1>1, <1>4, FreshLike
<1> HIDE DEF e
<1> QED BY <1>2, <1>3, <1>4, <1>5, ExecuteInv

\* The head of a variation has the turn of the move before the one it replaces.
LEMMA AddVariation ==
  ASSUME Tree, LineEnds, Typed
  PROVE  LET e == add_variation(m)
         IN  e \in Moves /\ e.uid = uid /\ e.next = NULL /\ e.sub = NULL /\ e.prev = m
<1> DEFINE n == new_move(uid)
           e1 == [n EXCEPT !.prev = m]
           p == node[node[m].prev]
           e2 == [e1 EXCEPT !.whiteturn = p.whiteturn]
           e3 == [e2 EXCEPT !.move = p.move]
<1>1. counter \in Nat /\ m \in Nat /\ m \in DOMAIN node /\ node[m] \in Moves
  BY DEF Typed, Tree, Rising, LineEnds
<1>2. n \in Moves /\ n.uid = uid /\ n.next = NULL /\ n.sub = NULL
  BY <1>1 DEF new_move, Moves, uid, NULL, VOID, PAWN, PROM_ET_PRISE, SIZE
<1>3. add_variation(m) = IF node[m].prev = NULL THEN e1 ELSE e3
  BY DEF add_variation
<1> HIDE DEF n
<1>4. e1 \in Moves /\ e1.uid = uid /\ e1.next = NULL /\ e1.sub = NULL /\ e1.prev = m
  BY <1>1, <1>2 DEF Moves
<1> HIDE DEF e1
<1>5. node[m].prev # NULL => p \in Moves
  BY <1>1 DEF Tree
<1> HIDE DEF p
<1>6. node[m].prev # NULL => e2 \in Moves /\ e2.uid = uid /\ e2.next = NULL /\ e2.sub = NULL /\ e2.prev = m
  BY <1>4, <1>5 DEF Moves
<1> HIDE DEF e2
<1>7. node[m].prev # NULL => e3 \in Moves /\ e3.uid = uid /\ e3.next = NULL /\ e3.sub = NULL /\ e3.prev = m
  BY <1>5, <1>6 DEF Moves
<1> HIDE DEF e3
<1> QED BY <1>3, <1>4, <1>7

\* the heap with a variation of the current move
Varied ==
  [x \in DOMAIN node \cup {uid} |->
     IF x = uid THEN add_variation(m)
     ELSE IF x = insertion_point(m) THEN [node[x] EXCEPT !.sub = uid] ELSE node[x]]

\* Linking the variation keeps the tree.
LEMMA VariedTree ==
  ASSUME Tree, LineEnds, Typed
  PROVE  /\ Rising(Varied, uid) /\ Hung(Varied, chain) /\ uid \in Nat
         /\ DOMAIN Varied = DOMAIN node \cup {uid} /\ Varied[uid] = add_variation(m)
         /\ uid \notin DOMAIN node
         /\ \A x \in DOMAIN node : /\ Varied[x] \in Moves
                                   /\ Varied[x] = [node[x] EXCEPT !.sub = Varied[x].sub]
<1> DEFINE ip == insertion_point(m)
           e == add_variation(m)
<1>1. /\ counter \in Nat /\ m \in DOMAIN node /\ uid \notin DOMAIN node
      /\ uid = counter + 1 /\ uid \in Nat
  BY DEF Typed, Tree, Rising, LineEnds, uid
<1>2. ip \in DOMAIN node /\ node[ip].sub = NULL
  BY <1>1, InsertionPoint DEF Tree
<1>3. e.next = NULL /\ e.sub = NULL
  BY AddVariation
<1> HIDE DEF ip, e
<1>4. DOMAIN Varied = DOMAIN node \cup {uid} /\ Varied[uid] = e
  BY DEF Varied, e
<1>5. \A x \in DOMAIN node \ {ip} : Varied[x] = node[x]
  BY <1>1 DEF Varied, ip
<1>6. Varied[ip] = [node[ip] EXCEPT !.sub = uid]
  BY <1>1, <1>2 DEF Varied, ip
<1>7. \A x \in DOMAIN node : node[x] \in Moves
  BY DEF Tree
<1>8. ASSUME NEW n \in Moves, NEW y \in Nat
      PROVE  /\ [n EXCEPT !.sub = y] \in Moves /\ [n EXCEPT !.sub = y].sub = y
             /\ [n EXCEPT !.sub = y].next = n.next
             /\ n = [n EXCEPT !.sub = n.sub]
  BY DEF Moves
<1>9. Grown(node, Varied, counter, ip)
  <2>1. Varied[ip].next = node[ip].next /\ Varied[ip].sub = uid
    BY <1>1, <1>2, <1>6, <1>7, <1>8
  <2> QED BY <1>1, <1>2, <1>3, <1>4, <1>5, <2>1 DEF Grown
<1>10. Rising(Varied, uid) /\ Hung(Varied, chain)
  BY <1>1, <1>9, GrownTree DEF Tree
<1>11. ASSUME NEW x \in DOMAIN node
       PROVE  Varied[x] \in Moves /\ Varied[x] = [node[x] EXCEPT !.sub = Varied[x].sub]
  <2>1. CASE x = ip
    BY <1>1, <1>6, <1>7, <1>8, <2>1
  <2>2. CASE x # ip
    BY <1>5, <1>7, <1>8, <2>2
  <2> QED BY <2>1, <2>2
<1> QED BY <1>1, <1>4, <1>10, <1>11 DEF e

\* Entering a variation keeps the invariant.
LEMMA EnterInv ==
  ASSUME HeapInv, pc = "reading", did[m] # "branch", enter_variation, UNCHANGED input, pos' = pos + 1
  PROVE  HeapInv'
<1> DEFINE l == dr.variation
           top == nboards + 1
           prev == node[m].prev
           e == [d |-> m, b |-> tos, d1 |-> dr.iswhiteturn, d2 |-> TRUE]
<1>1. Typed /\ Tree /\ Told /\ LineEnds /\ LineBoards
  BY DEF HeapInv
<1>2. /\ m \in DOMAIN node /\ m \in Nat /\ tos \in 0 .. nboards /\ nboards \in Nat /\ counter \in Nat
      /\ dr \in Driver /\ l \in 0 .. VARIATION_MAX /\ VARIATION_MAX \in Nat /\ out \in Seq(Items)
      /\ dr.iswhiteturn \in BOOLEAN
  BY <1>1, NotationAssumption DEF Typed, Tree, Rising, LineEnds, LineBoards, Driver
<1>3. CASE l >= VARIATION_MAX
  <2>1. UNCHANGED <<pc, status, heap, dr, out, did, shown, parser, base, input>>
    BY <1>3 DEF enter_variation
  <2>2. Typed' /\ Tree' /\ Told' /\ LineEnds' /\ LineBoards'
    <3>1. Typed'
      BY <1>1, <2>1 DEF Typed, heap, parser
    <3>2. Tree' /\ Told'
      BY <1>1, <2>1 DEF Tree, Told, heap, Rising, Hung
    <3>3. LineEnds' /\ LineBoards'
      BY <1>1, <2>1 DEF LineEnds, LineBoards, heap, Level
    <3> QED BY <3>1, <3>2, <3>3
  <2> QED BY <2>1, <2>2 DEF HeapInv
<1>4. CASE l < VARIATION_MAX
  <2>1. /\ stack' = [stack EXCEPT ![l] = e]
        /\ counter' = uid /\ did' = Append(did, "branch") /\ tos' = top /\ nboards' = top
        /\ UNCHANGED <<chain, shown, parser, base>>
        /\ IF prev = NULL
           THEN /\ exit("1")
                /\ node' = [x \in DOMAIN Varied \ (under(Varied, chain) \cup {chain}) |-> Varied[x]]
                /\ board' = [b \in DOMAIN board \ ({stack[i].b : i \in 0 .. l - 1} \cup {tos}) |-> board[b]]
                /\ UNCHANGED <<m, dr, out>>
           ELSE /\ m' = uid /\ node' = Varied
                /\ board' = [b \in DOMAIN board \cup {top} |->
                               IF b = top THEN undo_move(board[tos], node[m]) ELSE board[b]]
                /\ dr' = [dr EXCEPT !.variation = l + 1, !.interrupt = TRUE]
                /\ out' = output_variation(dr, out, "in")
                /\ UNCHANGED <<pc, status>>
    <3>1. ~(l >= VARIATION_MAX)
      BY <1>2, <1>4
    <3> HIDE DEF l
    <3> QED BY <3>1, Zenon DEF enter_variation, Varied, l
  <2>2. stack' = [stack EXCEPT ![l] = e] /\ e \in [d: Nat, b: Nat, d1: BOOLEAN, d2: BOOLEAN]
    BY <1>2, <1>4, <2>1 DEF enter_variation
  <2> HIDE DEF e
  <2>3. /\ stack' \in [0 .. VARIATION_MAX - 1 -> [d: Nat, b: Nat, d1: BOOLEAN, d2: BOOLEAN]]
        /\ stack'[l] = e /\ \A i \in Level : stack'[i] = stack[i]
    BY <1>1, <1>2, <1>4, <2>2, SMTT(60) DEF Typed, Level
  <2>4. /\ Rising(Varied, uid) /\ Hung(Varied, chain) /\ uid \in Nat
        /\ DOMAIN Varied = DOMAIN node \cup {uid} /\ Varied[uid] = add_variation(m)
        /\ uid \notin DOMAIN node
        /\ \A x \in DOMAIN node : /\ Varied[x] \in Moves
                                  /\ Varied[x] = [node[x] EXCEPT !.sub = Varied[x].sub]
    BY <1>1, VariedTree
  <2>5. "branch" \in Kinds
    BY DEF Kinds
  <2>6. did' \in Seq(Kinds) /\ Len(did') = counter' /\ counter' \in Nat /\ nboards' \in Nat
    BY <1>1, <1>2, <2>1, <2>4, <2>5, SMTT(60) DEF Typed, uid
  <2>7. CASE prev = NULL
    <3>1. pc' = "ended" /\ UNCHANGED <<dr, out>>
      BY <2>1, <2>7 DEF exit
    <3>2. node' = Empty
      BY <2>1, <2>4, <2>7, FreedTree
    <3>3. board' = Empty
      BY <1>1, <2>1, <2>7, FreedBoards DEF LineBoards
    <3>4. Typed'
      BY <1>1, <2>1, <2>3, <2>6, <3>1, SMTT(60) DEF Typed, parser
    <3> QED BY <3>1, <3>2, <3>3, <3>4 DEF HeapInv
  <2>8. CASE prev # NULL
    <3>1. /\ m' = uid /\ node' = Varied /\ chain' = chain /\ tos' = top /\ counter' = uid
          /\ board' = [b \in DOMAIN board \cup {top} |->
                               IF b = top THEN undo_move(board[tos], node[m]) ELSE board[b]]
          /\ UNCHANGED <<pc, status>>
      BY <2>1, <2>8
    <3>2. dr' \in Driver /\ dr'.variation = l + 1
      <4>1. dr' = [dr EXCEPT !.variation = l + 1, !.interrupt = TRUE]
        BY <2>1, <2>8
      <4>2. l + 1 \in 0 .. VARIATION_MAX
        BY <1>2, <1>4
      <4> HIDE DEF l
      <4> QED BY <1>2, <4>1, <4>2 DEF Driver
    <3>3. out' \in Seq(Items)
      BY <1>2, <2>1, <2>8, OutputRest
    <3>4. Typed'
      BY <1>1, <2>1, <2>3, <2>6, <3>1, <3>2, <3>3, SMTT(60) DEF Typed, parser
    <3>5. /\ m # chain /\ chain = 1 /\ chain \in DOMAIN node
          /\ \A x \in DOMAIN node : node[x] \in Moves /\ x < uid /\ x \in Nat
          /\ \A x \in DOMAIN node : node[x].prev = Varied[x].prev /\ node[x].uid = Varied[x].uid /\ node[x].next = Varied[x].next
      <4>1. \A x \in DOMAIN node : node[x] \in Moves /\ x < uid /\ x \in Nat
        BY <1>1, <1>2 DEF Tree, Rising, uid
      <4>2. \A x \in DOMAIN node : node[x].prev = Varied[x].prev /\ node[x].uid = Varied[x].uid /\ node[x].next = Varied[x].next
        BY <2>4, <4>1 DEF Moves
      <4> QED BY <1>1, <2>8, <4>1, <4>2 DEF Tree, Hung
    <3>6. LET b == add_variation(m) IN b \in Moves /\ b.uid = uid /\ b.next = NULL /\ b.sub = NULL /\ b.prev = m
      BY <1>1, AddVariation
    <3>7. did'[uid] = "branch" /\ \A x \in DOMAIN node : did'[x] = did[x]
      <4>1. did \in Seq(Kinds) /\ uid = Len(did) + 1 /\ did' = Append(did, "branch")
        BY <1>1, <2>1 DEF Typed, uid
      <4>2. \A x \in DOMAIN node : x \in 1 .. Len(did)
        BY <1>1 DEF Typed, Tree, Rising
      <4> QED BY <4>1, <4>2
    <3>8. Tree'
      <4>1. Rising(node', counter') /\ Hung(node', chain')
        BY <2>4, <3>1
      <4>2. \A x \in DOMAIN node' : node'[x] \in Moves /\ node'[x].uid = x
        BY <1>1, <2>4, <3>1, <3>5, <3>6 DEF Tree
      <4>3. node'[chain'].prev = NULL
        BY <1>1, <3>1, <3>5 DEF Tree
      <4>4. ASSUME NEW x \in DOMAIN node' \ {chain'} PROVE node'[x].prev \in DOMAIN node' /\ node'[x].prev < x
        <5>1. CASE x = uid
          BY <1>2, <2>4, <3>1, <3>5, <3>6, <5>1
        <5>2. CASE x # uid
          <6>1. x \in DOMAIN node \ {chain}
            BY <2>4, <3>1, <5>2
          <6>2. node[x].prev \in DOMAIN node /\ node[x].prev < x
            BY <1>1, <6>1 DEF Tree
          <6> QED BY <2>4, <3>1, <3>5, <6>1, <6>2
        <5> QED BY <5>1, <5>2
      <4> QED BY <3>1, <3>5, <4>1, <4>2, <4>3, <4>4 DEF Tree
    <3>9. Told'
      <4>1. \A x \in DOMAIN node' \ {chain'} : x = uid \/ x \in DOMAIN node \ {chain}
        BY <2>4, <3>1
      <4>2. did'[chain'] = "head"
        BY <1>1, <3>1, <3>5, <3>7 DEF Told
      <4>3. \A x \in DOMAIN node' \ {chain'} : did'[x] # "head"
        BY <1>1, <3>7, <4>1 DEF Told
      <4>4. \A x \in DOMAIN node' \ {chain'} : did'[x] = "branch" => node'[x].prev # chain'
        BY <1>1, <2>4, <3>1, <3>5, <3>6, <3>7, <4>1 DEF Told
      <4> QED BY <4>2, <4>3, <4>4 DEF Told
    <3>10. Level' = Level \cup {l} /\ l \notin Level /\ \A k \in Level : k < l
      BY <1>2, <3>2 DEF Level
    <3>11. LineEnds'
      <4>1. m' \in DOMAIN node' /\ node'[m'].next = NULL
        BY <2>4, <3>1, <3>6
      <4>2. ASSUME NEW i \in Level'
            PROVE  /\ stack'[i].d \in DOMAIN node' /\ node'[stack'[i].d].next = NULL
                   /\ stack'[i].d < m' /\ \A k \in Level' : k < i => stack'[k].d < stack'[i].d
        <5>1. CASE i = l
          <6>1. stack'[i].d = m
            BY <2>3, <5>1 DEF e
          <6>2. \A k \in Level' : k < i => k \in Level
            BY <1>2, <3>10, <5>1
          <6>3. \A k \in Level' : k < i => stack'[k].d < m
            BY <1>1, <2>3, <6>2 DEF LineEnds
          <6> QED BY <1>1, <1>2, <2>4, <3>1, <3>5, <6>1, <6>3 DEF LineEnds
        <5>2. CASE i # l
          <6>1. i \in Level /\ stack'[i].d = stack[i].d
            BY <2>3, <3>10, <5>2
          <6>2. stack[i].d \in DOMAIN node /\ node[stack[i].d].next = NULL
            BY <1>1, <6>1 DEF LineEnds
          <6>3. \A k \in Level' : k < i => k \in Level
            BY <1>2, <3>10, <6>1 DEF Level
          <6>4. \A k \in Level' : k < i => stack'[k].d < stack'[i].d
            BY <1>1, <2>3, <6>1, <6>3 DEF LineEnds
          <6> QED BY <2>4, <3>1, <3>5, <6>1, <6>2, <6>4
        <5> QED BY <5>1, <5>2
      <4> QED BY <4>1, <4>2 DEF LineEnds
    <3>12. LineBoards'
      <4>1. top \notin DOMAIN board /\ DOMAIN board' = DOMAIN board \cup {top} /\ top \in Nat
            /\ \A i \in Level : stack[i].b < tos
        BY <1>1, <1>2, <3>1 DEF LineBoards
      <4>2. DOMAIN board' = {tos'} \cup {stack'[i].b : i \in Level'}
        <5>1. {stack'[i].b : i \in Level'} = {stack[i].b : i \in Level} \cup {tos}
          <6>1. stack'[l].b = tos
            BY <2>3 DEF e
          <6> QED BY <2>3, <3>10, <6>1
        <5> QED BY <1>1, <3>1, <4>1, <5>1 DEF LineBoards
      <4>3. tos' \in 0 .. nboards'
        BY <1>2, <2>1
      <4>4. ASSUME NEW i \in Level'
            PROVE  stack'[i].b < tos' /\ \A k \in Level' : k < i => stack'[k].b < stack'[i].b
        <5>1. CASE i = l
          <6>1. stack'[i].b = tos
            BY <2>3, <5>1 DEF e
          <6>2. \A k \in Level' : k < i => k \in Level
            BY <1>2, <3>10, <5>1
          <6>3. \A k \in Level' : k < i => stack'[k].b < tos
            BY <1>1, <2>3, <6>2 DEF LineBoards
          <6> QED BY <1>2, <3>1, <6>1, <6>3
        <5>2. CASE i # l
          <6>1. i \in Level /\ stack'[i].b = stack[i].b
            BY <2>3, <3>10, <5>2
          <6>2. \A k \in Level' : k < i => k \in Level
            BY <1>2, <3>10, <6>1 DEF Level
          <6>3. \A k \in Level' : k < i => stack'[k].b < stack'[i].b
            BY <1>1, <2>3, <6>1, <6>2 DEF LineBoards
          <6>4. stack[i].b < tos /\ stack[i].b \in Nat
            BY <1>1, <1>2, <1>4, <6>1, SMTT(60) DEF LineBoards, Typed, Level
          <6> QED BY <1>2, <3>1, <6>1, <6>3, <6>4
        <5> QED BY <5>1, <5>2
      <4>5. IsFiniteSet(DOMAIN board') /\ Cardinality(DOMAIN board') = dr'.variation + 1
        <5>1. IsFiniteSet(DOMAIN board) /\ Cardinality(DOMAIN board) = l + 1
          BY <1>1 DEF LineBoards
        <5>2. IsFiniteSet(DOMAIN board \cup {top}) /\ Cardinality(DOMAIN board \cup {top}) = l + 1 + 1
          BY <4>1, <5>1, FS_AddElement
        <5> QED BY <3>2, <4>1, <5>2
      <4>6. \A b \in DOMAIN board' : board'[b] \in Boards
        <5>1. undo_move(board[tos], node[m]) \in Boards
          BY <1>1, <1>2, <3>5, DoneBoard DEF LineBoards
        <5> QED BY <1>1, <3>1, <4>1, <5>1 DEF LineBoards
      <4> QED BY <4>2, <4>3, <4>4, <4>5, <4>6 DEF LineBoards
    <3> QED BY <3>1, <3>4, <3>8, <3>9, <3>11, <3>12 DEF HeapInv
  <2> QED BY <2>7, <2>8
<1> QED BY <1>2, <1>3, <1>4

\* Leaving one keeps it: the line below has its own end and its own board.
LEMMA ExitInv ==
  ASSUME HeapInv, pc = "reading", exit_variation, UNCHANGED input, pos' = pos + 1
  PROVE  HeapInv'
<1> DEFINE l == dr.variation
           e == stack[l - 1]
<1>1. Typed /\ Tree /\ Told /\ LineEnds /\ LineBoards
  BY DEF HeapInv
<1>2. /\ dr \in Driver /\ l \in 0 .. VARIATION_MAX /\ VARIATION_MAX \in Nat /\ out \in Seq(Items)
  BY <1>1, NotationAssumption DEF Typed, Driver
<1>3. UNCHANGED <<pc, status, shown, parser, did, base, node, counter, chain, nboards, stack>>
  BY <1>1 DEF exit_variation, heap
<1>4. Tree' /\ Told'
  BY <1>1, <1>3 DEF Tree, Told, Rising, Hung
<1>5. CASE l = 0
  <2>1. UNCHANGED <<heap, dr, out>>
    BY <1>5 DEF exit_variation
  <2>2. Typed'
    BY <1>1, <1>3, <2>1 DEF Typed, heap, parser
  <2>3. LineEnds' /\ LineBoards'
    BY <1>1, <2>1 DEF LineEnds, LineBoards, heap, Level
  <2> QED BY <1>3, <1>4, <2>2, <2>3 DEF HeapInv
<1>6. CASE l # 0
  <2>1. /\ board' = [b \in DOMAIN board \ {tos} |-> board[b]]
        /\ m' = e.d /\ tos' = e.b
        /\ dr' = [dr EXCEPT !.iswhiteturn = e.d1, !.interrupt = e.d2, !.variation = @ - 1]
        /\ out' = output_variation(dr, out, "out")
    BY <1>6 DEF exit_variation
  <2>2. /\ l - 1 \in Level /\ e \in [d: Nat, b: Nat, d1: BOOLEAN, d2: BOOLEAN]
        /\ Level = (0 .. l - 2) \cup {l - 1} /\ l - 1 \in 0 .. VARIATION_MAX
        /\ \A k \in 0 .. l - 2 : k < l - 1 /\ k \in Level
    <3>1. Level = 0 .. l - 1 /\ l \in Nat /\ l # 0 /\ VARIATION_MAX \in Nat /\ l <= VARIATION_MAX
      BY <1>2, <1>6 DEF Level
    <3> HIDE DEF l
    <3>2. l - 1 \in 0 .. VARIATION_MAX - 1 /\ l - 1 \in Level
      BY <3>1
    <3>3. e \in [d: Nat, b: Nat, d1: BOOLEAN, d2: BOOLEAN]
      BY <1>1, <3>2 DEF Typed
    <3>4. Level = (0 .. l - 2) \cup {l - 1} /\ l - 1 \in 0 .. VARIATION_MAX
          /\ \A k \in 0 .. l - 2 : k < l - 1 /\ k \in Level
      BY <3>1
    <3> QED BY <3>2, <3>3, <3>4
  <2>3. dr' \in Driver /\ dr'.variation = l - 1
    <3>1. e.d1 \in BOOLEAN /\ e.d2 \in BOOLEAN
      BY <2>2
    <3> HIDE DEF e
    <3> QED BY <1>2, <2>1, <2>2, <3>1 DEF Driver
  <2>4. Level' = 0 .. l - 2
    BY <1>2, <2>3 DEF Level
  <2>5. out' \in Seq(Items)
    BY <1>2, <2>1, OutputRest
  <2>6. Typed'
    BY <1>1, <1>3, <2>3, <2>5 DEF Typed, parser
  <2> HIDE DEF l
  <2>7. LineEnds'
    BY <1>1, <1>3, <2>1, <2>2, <2>4 DEF LineEnds
  <2>8. LineBoards'
    <3>1. /\ DOMAIN board = {tos} \cup {stack[i].b : i \in Level}
          /\ \A i \in Level : stack[i].b < tos
          /\ \A i \in 0 .. l - 2 : stack[i].b < e.b
          /\ tos \in Nat /\ nboards \in Nat /\ e.b \in Nat
      BY <1>1, <2>2 DEF LineBoards, Typed
    <3>2. DOMAIN board' = {e.b} \cup {stack[i].b : i \in 0 .. l - 2}
      <4>1. DOMAIN board' = DOMAIN board \ {tos}
        BY <2>1
      <4>2. {stack[i].b : i \in Level} = {e.b} \cup {stack[i].b : i \in 0 .. l - 2}
        BY <2>2
      <4>3. tos \notin {stack[i].b : i \in Level}
        BY <3>1
      <4> QED BY <3>1, <4>1, <4>2, <4>3
    <3>3. tos' \in 0 .. nboards'
      <4>1. e.b < tos /\ tos <= nboards
        BY <1>1, <2>2, <3>1 DEF LineBoards
      <4> QED BY <1>3, <2>1, <3>1, <4>1
    <3>4. IsFiniteSet(DOMAIN board') /\ Cardinality(DOMAIN board') = dr'.variation + 1
      <4>1. IsFiniteSet(DOMAIN board) /\ Cardinality(DOMAIN board) = l + 1 /\ tos \in DOMAIN board
        BY <1>1 DEF LineBoards, l
      <4>3. l \in Nat
        BY <1>2 DEF l
      <4>2. IsFiniteSet(DOMAIN board \ {tos}) /\ Cardinality(DOMAIN board \ {tos}) = l
        <5> DEFINE B == DOMAIN board
        <5>1. IsFiniteSet(B) /\ tos \in B /\ Cardinality(B) = l + 1
          BY <4>1
        <5> HIDE DEF B
        <5>2. IsFiniteSet(B \ {tos}) /\ Cardinality(B \ {tos}) = Cardinality(B) - 1
          BY <5>1, FS_RemoveElement
        <5>3. IsFiniteSet(B \ {tos}) /\ Cardinality(B \ {tos}) = l
          BY ONLY <4>3, <5>1, <5>2
        <5> QED BY ONLY <5>3 DEF B
      <4> QED BY <2>1, <2>3, <4>2, <4>3
    <3>5. \A b \in DOMAIN board' : board'[b] \in Boards
      BY <1>1, <2>1 DEF LineBoards
    <3> QED BY <1>1, <1>3, <2>1, <2>2, <2>4, <3>1, <3>2, <3>3, <3>4, <3>5 DEF LineBoards
  <2> QED BY <1>3, <1>4, <2>6, <2>7, <2>8 DEF HeapInv
<1> QED BY <1>5, <1>6

\* A mark is an item.
LEMMA MarkItem ==
  ASSUME NEW n \in Moves
  PROVE  mark(n) \in Items
  BY DEF mark, Moves, Items, Marks

\* A new number and turn of the current move leave its links.
LEMMA Renumbered ==
  ASSUME Tree, LineEnds, NEW kw
  PROVE  LET n == [node[m] EXCEPT !.move = IF kw = "blacksmove" THEN 1 ELSE 0, !.whiteturn = (kw = "blacksmove")]
         IN  /\ n \in Moves
             /\ n.uid = node[m].uid /\ n.next = node[m].next /\ n.sub = node[m].sub /\ n.prev = node[m].prev
             /\ n.type = node[m].type /\ n.piece = node[m].piece
             /\ n.tolig = node[m].tolig /\ n.tocol = node[m].tocol
<1> DEFINE k == IF kw = "blacksmove" THEN 1 ELSE 0
           w == (kw = "blacksmove")
<1>1. node[m] \in Moves /\ k \in Nat /\ w \in BOOLEAN
  BY DEF Tree, LineEnds
<1> HIDE DEF k, w
<1>2. /\ [node[m] EXCEPT !.move = k, !.whiteturn = w] \in Moves
      /\ LET n == [node[m] EXCEPT !.move = k, !.whiteturn = w]
         IN  /\ n.uid = node[m].uid /\ n.next = node[m].next /\ n.sub = node[m].sub /\ n.prev = node[m].prev
             /\ n.type = node[m].type /\ n.piece = node[m].piece
             /\ n.tolig = node[m].tolig /\ n.tocol = node[m].tocol
  BY <1>1 DEF Moves
<1> QED BY <1>2 DEF k, w

\* A renumbering keeps the invariant.
LEMMA RenumberInv ==
  ASSUME HeapInv, pc = "reading", NEW kw, renumber(kw),
         UNCHANGED <<pc, status, error_flag, shown, movecount, did, input>>, pos' = pos + 1
  PROVE  HeapInv'
<1> DEFINE n == [node[m] EXCEPT !.move = IF kw = "blacksmove" THEN 1 ELSE 0, !.whiteturn = (kw = "blacksmove")]
<1>1. Typed /\ Tree /\ Told /\ LineEnds /\ LineBoards
  BY DEF HeapInv
<1>2. /\ n \in Moves
      /\ n.uid = node[m].uid /\ n.next = node[m].next /\ n.sub = node[m].sub /\ n.prev = node[m].prev
  BY <1>1, Renumbered
<1>3. /\ node' = [node EXCEPT ![m] = n] /\ out' = Append(out, mark(n))
      /\ configuring' = (configuring /\ kw # "startplay")
      /\ UNCHANGED <<counter, m, chain, board, nboards, tos, stack, dr, in_language, configside, base>>
  BY DEF renumber
<1> HIDE DEF n
<1>4. out' \in Seq(Items)
  <2>1. mark(n) \in Items
    BY <1>2, MarkItem
  <2> HIDE DEF Items
  <2> QED BY <1>1, <1>3, <2>1 DEF Typed
<1>5. Typed'
  <2>1. configuring' => configside' \in {WHITE, BLACK}
    BY <1>1, <1>3, Zenon DEF Typed
  <2> QED BY <1>1, <1>3, <1>4, <2>1 DEF Typed
<1>6. /\ DOMAIN node' = DOMAIN node /\ m \in DOMAIN node
      /\ \A x \in DOMAIN node : /\ node'[x].uid = node[x].uid /\ node'[x].next = node[x].next
                                /\ node'[x].sub = node[x].sub /\ node'[x].prev = node[x].prev
                                /\ node'[x] \in Moves
  BY <1>1, <1>2, <1>3 DEF Tree, LineEnds
<1>7. Tree'
  <2>1. Rising(node', counter') /\ Hung(node', chain')
    BY <1>1, <1>3, <1>6 DEF Tree, Rising, Hung
  <2> QED BY <1>1, <1>3, <1>6, <2>1 DEF Tree, Hung
<1>8. Told' /\ LineEnds'
  BY <1>1, <1>3, <1>6 DEF Told, LineEnds, Level
<1>9. LineBoards'
  BY <1>1, <1>3, BoardKept
<1> QED BY <1>5, <1>7, <1>8, <1>9 DEF HeapInv

\* The boards a play is set up on.
LEMMA FirstBoards ==
  clear_board \in Boards /\ init_board \in Boards
<1>1. <<VOID, VOID>> \in Cells
  BY DEF Cells, VOID, PAWN, WHITE, BLACK
<1>2. clear_board \in Boards
  BY <1>1 DEF clear_board, Boards
<1>3. init_board \in Boards
  <2> DEFINE officers == <<ROOK, KNIGHT, BISHOP, QUEEN, KING, BISHOP, KNIGHT, ROOK>>
             cell(s) == IF s[2] \in 1 .. 8 /\ s[1] \in {1, 2, 7, 8}
                        THEN <<IF s[1] \in {1, 8} THEN officers[s[2]] ELSE PAWN, IF s[1] < 3 THEN WHITE ELSE BLACK>>
                        ELSE <<VOID, VOID>>
  <2>1. \A c \in 1 .. 8 : officers[c] \in VOID .. PAWN
    BY DEF VOID, KING, QUEEN, ROOK, BISHOP, KNIGHT, PAWN
  <2>2. PAWN \in VOID .. PAWN /\ WHITE \in BLACK .. WHITE /\ BLACK \in BLACK .. WHITE
    BY DEF VOID, PAWN, WHITE, BLACK
  <2> HIDE DEF officers
  <2>3. \A s \in Squares : cell(s) \in Cells
    BY <1>1, <2>1, <2>2 DEF Cells
  <2>4. init_board = [s \in Squares |-> cell(s)]
    BY DEF init_board, officers
  <2> HIDE DEF cell
  <2> QED BY <2>3, <2>4 DEF Boards
<1> QED BY <1>2, <1>3

\* A move whose links are cut is a move.
LEMMA CutMove ==
  ASSUME NEW n \in Moves
  PROVE  LET e == [n EXCEPT !.next = NULL, !.sub = NULL]
         IN  e \in Moves /\ e.uid = n.uid /\ e.next = NULL /\ e.sub = NULL /\ e.prev = n.prev
BY DEF Moves, NULL

\* Outside of every variation only the head is left.
LEMMA RestartInv ==
  ASSUME HeapInv, pc = "reading", dr.variation = 0,
         NEW kw \in {"clearboard", "default", "configwhite", "configblack"}, restart(kw),
         UNCHANGED <<pc, status, error_flag, shown, movecount, did, input>>, pos' = pos + 1
  PROVE  HeapInv'
<1> DEFINE g == CASE kw = "clearboard" -> clear_board
                  [] kw = "default"    -> init_board
                  [] OTHER             -> board[tos]
<1>1. Typed /\ Tree /\ Told /\ LineEnds /\ LineBoards
  BY DEF HeapInv
<1>2. /\ m' = chain /\ node' = free_move_list(node, chain)
      /\ board' = [board EXCEPT ![tos] = g] /\ base' = g
      /\ configuring' = (configuring \/ kw \in {"configwhite", "configblack"})
      /\ configside'  = CASE kw = "configwhite" -> WHITE [] kw = "configblack" -> BLACK
                          [] OTHER -> configside
      /\ out' = Append(out, mark(node[chain]))
      /\ UNCHANGED <<counter, chain, nboards, tos, stack, dr, in_language>>
  BY DEF restart
<1>3. g \in Boards
  <2>1. board[tos] \in Boards
    BY <1>1 DEF LineBoards
  <2> QED BY <2>1, FirstBoards
<1> HIDE DEF g
<1>4. chain \in DOMAIN node /\ node[chain] \in Moves /\ chain = 1 /\ counter \in Nat
  BY <1>1 DEF Tree, Hung, Typed
<1>5. DOMAIN node \ under(node, chain) = {chain}
  <2>1. counter \in Nat /\ Rising(node, counter) /\ Hung(node, chain)
    BY <1>1, <1>4 DEF Tree
  <2>2. under(node, chain) \cup {chain} = DOMAIN node /\ chain \notin under(node, chain)
    BY ONLY <2>1, UnderIsAll
  <2> QED BY ONLY <2>2
<1>6. DOMAIN node' = {chain} /\ node'[chain] = [node[chain] EXCEPT !.next = NULL, !.sub = NULL]
  BY <1>2, <1>5 DEF free_move_list
<1>7. /\ node'[chain] \in Moves /\ node'[chain].uid = chain /\ node'[chain].next = NULL
      /\ node'[chain].sub = NULL /\ node'[chain].prev = NULL
  <2>2. node[chain].uid = chain /\ node[chain].prev = NULL
    BY <1>1, <1>4 DEF Tree
  <2> DEFINE n == node[chain]
             e == [n EXCEPT !.next = NULL, !.sub = NULL]
  <2>3. e \in Moves /\ e.uid = n.uid /\ e.next = NULL /\ e.sub = NULL /\ e.prev = n.prev
    <3>1. n \in Moves
      BY <1>4
    <3> HIDE DEF n
    <3> QED BY <3>1, CutMove
  <2>4. node'[chain] = e
    BY <1>6
  <2> HIDE DEF e
  <2> QED BY ONLY <2>2, <2>3, <2>4 DEF n
<1>8. out' \in Seq(Items)
  <2>1. mark(node[chain]) \in Items
    BY <1>4, MarkItem
  <2> HIDE DEF Items
  <2> QED BY <1>1, <1>2, <2>1 DEF Typed
<1>9. configuring' => configside' \in {WHITE, BLACK}
  BY <1>1, <1>2 DEF Typed
<1>10. Typed'
  BY <1>1, <1>2, <1>3, <1>8, <1>9 DEF Typed
<1>11. Tree'
  <2>1. 1 \in 1 .. counter
    BY <1>1, <1>4 DEF Tree, Rising
  <2> QED BY <1>2, <1>4, <1>6, <1>7, <2>1 DEF Tree, Rising, Hung
<1>12. Told' /\ LineEnds'
  BY <1>1, <1>2, <1>6, <1>7 DEF Told, LineEnds, Level
<1>13. LineBoards'
  BY <1>1, <1>2, <1>3, BoardWritten
<1> QED BY <1>10, <1>11, <1>12, <1>13 DEF HeapInv

\* what only writes and sets what the next tokens are read with
LEMMA WritingInv ==
  ASSUME HeapInv, pc = "reading", UNCHANGED <<pc, heap, shown, did, input, configuring, configside, base>>,
         pos' = pos + 1, dr' \in SameLevel(dr), out' \in Seq(Items)
  PROVE  HeapInv'
<1>1. Typed /\ Tree /\ Told /\ LineEnds /\ LineBoards
  BY DEF HeapInv
<1>2. Typed'
  BY <1>1 DEF Typed, heap, SameLevel
<1>3. Tree' /\ Told'
  BY <1>1 DEF Tree, Told, heap, Rising, Hung
<1>4. LineEnds' /\ LineBoards'
  BY <1>1 DEF LineEnds, LineBoards, heap, Level, SameLevel
<1> QED BY <1>2, <1>3, <1>4 DEF HeapInv

\* A text is an item.
LEMMA TextItem ==
  [k |-> "text"] \in Items
  BY DEF Items, Plain

\* Every keyword keeps the invariant.
LEMMA KeywordInv ==
  ASSUME HeapInv, pc = "reading", NEW kw, NEW text, parse_keyword(kw, text),
         kw \in {"clearboard", "default", "configwhite", "configblack"} => dr.variation = 0,
         UNCHANGED input, pos' = pos + 1
  PROVE  HeapInv'
<1>1. UNCHANGED <<pc, status, error_flag, shown, movecount, did>>
  BY DEF parse_keyword
<1>2. Typed /\ dr \in Driver /\ dr \in SameLevel(dr) /\ out \in Seq(Items)
  BY DEF HeapInv, Typed, SameLevel
<1>3. CASE kw \in {"startplay", "whitesmove", "blacksmove"}
  <2>1. renumber(kw)
    BY <1>3 DEF parse_keyword
  <2> QED BY <1>1, <2>1, RenumberInv
<1>4. CASE kw \in {"clearboard", "default", "configwhite", "configblack"}
  <2>1. restart(kw)
    BY <1>4 DEF parse_keyword
  <2> QED BY <1>1, <1>4, <2>1, RestartInv
<1>5. CASE kw = "showboard"
  <2>1. /\ dr' = output_board(dr, out).dr /\ out' = output_board(dr, out).out
        /\ UNCHANGED <<heap, configuring, configside, base>>
    BY <1>5 DEF parse_keyword
  <2>2. dr' \in SameLevel(dr) /\ out' \in Seq(Items)
    BY <1>2, <2>1, OutputBoard, OutputBoardOut
  <2> QED BY <1>1, <2>1, <2>2, WritingInv
<1>6. CASE kw \in {"title", "subtitle", "score"}
  <2>1. out' = output_text(dr, out) /\ UNCHANGED <<heap, dr, configuring, configside, base>>
    BY <1>6 DEF parse_keyword
  <2>2. out' \in Seq(Items)
    BY <1>2, <2>1, OutputRest
  <2> QED BY <1>1, <1>2, <2>1, <2>2, WritingInv
<1>7. CASE kw = "special"
  <2>1. out' = Append(out, [k |-> "text"]) /\ UNCHANGED <<heap, dr, configuring, configside, base>>
    BY <1>7 DEF parse_keyword
  <2>2. out' \in Seq(Items)
    <3> HIDE DEF Items
    <3> QED BY <1>2, <2>1, TextItem
  <2> QED BY <1>1, <1>2, <2>1, <2>2, WritingInv
<1>8. CASE kw \notin {"startplay", "whitesmove", "blacksmove", "clearboard", "default", "configwhite",
                      "configblack", "showboard", "title", "subtitle", "score", "special"}
  <2>1. UNCHANGED <<heap, dr, out, configuring, configside, base>>
    <3>1. CASE kw = "language"
      BY <3>1 DEF parse_keyword
    <3>2. CASE kw # "language"
      BY <1>8, <3>2 DEF parse_keyword
    <3> QED BY <3>1, <3>2
  <2> QED BY <1>1, <1>2, <2>1, WritingInv
<1> QED BY <1>3, <1>4, <1>5, <1>6, <1>7, <1>8

\* a token whose rule is applied where the input may hold it
Matched(t) ==
  /\ Fair(t) /\ rule(t)
  /\ t.k \in {"move", "roque", "number", "comment", "keyword", "in", "out"}
  /\ t.k = "move"  => Legible(t.v)
  /\ t.k = "roque" => t.v \in Roques

\* the token that a rule of the scanner matches, on an input that keeps to the
\* two rules
LEMMA NextToken ==
  ASSUME Disciplined, HeapInv, yylex
  PROVE  \E t : Matched(t)
<1>1. pc = "reading" /\ pos < Len(Inputs[input])
  BY DEF yylex
<1>2. Typed /\ Tree /\ LineEnds /\ m \in DOMAIN node
  BY <1>1 DEF HeapInv, LineEnds
<1>3. pos + 1 \in DOMAIN Inputs[input]
  <2> DEFINE i == Inputs[input]
  <2>1. sequence(i)
    BY <1>2, InputsAssumption DEF Typed
  <2>2. pos \in Nat
    BY <1>2 DEF Typed
  <2> HIDE DEF i
  <2>3. DOMAIN i = 1 .. Len(i) /\ Len(i) \in Nat
    BY <2>1 DEF sequence
  <2>4. pos < Len(i)
    BY <1>1 DEF i
  <2>5. pos + 1 \in DOMAIN i
    BY <2>2, <2>3, <2>4
  <2> QED BY <2>5 DEF i
<1>4. PICK j \in DOMAIN Inputs[input][pos + 1] :
        LET t == Inputs[input][pos + 1][j]
        IN  IF Derefs(t) /\ m \notin DOMAIN node THEN undefined
            ELSE /\ IF Disciplined THEN Fair(t) ELSE TRUE
                 /\ rule(t)
  BY DEF yylex
<1> DEFINE t == Inputs[input][pos + 1][j]
<1>5. Fair(t) /\ rule(t)
  BY <1>2, <1>4
<1>6. /\ t.k \in {"move", "roque", "number", "comment", "keyword", "in", "out"}
      /\ t.k = "move"  => /\ sequence(t.v)
                          /\ \A n \in DOMAIN t.v : t.v[n].k \in {"col", "lig"} => t.v[n].v \in 1 .. 8
      /\ t.k = "roque" => t.v \in Roques
  BY <1>2, <1>3, InputsAssumption DEF Typed
<1> HIDE DEF t
<1>7. t.k = "move"  => Legible(t.v)
  BY <1>6 DEF Legible
<1>8. Matched(t)
  BY <1>5, <1>6, <1>7 DEF Matched
<1> QED BY <1>8

\* every rule of the scanner keeps the invariant
LEMMA YylexInv ==
  ASSUME Disciplined, HeapInv, yylex
  PROVE  HeapInv'
<1>1. pc = "reading" /\ pos' = pos + 1 /\ UNCHANGED input
  BY DEF yylex
<1>2. Typed
  BY DEF HeapInv
<1>3. PICK t : Matched(t)
  BY NextToken
<1>4. /\ Fair(t) /\ rule(t)
      /\ t.k \in {"move", "roque", "number", "comment", "keyword", "in", "out"}
      /\ t.k = "move"  => Legible(t.v)
      /\ t.k = "roque" => t.v \in Roques
  BY <1>3 DEF Matched
<1>5. dr \in SameLevel(dr) /\ out \in Seq(Items) /\ dr \in Driver
  BY <1>2 DEF Typed, SameLevel
<1>6. CASE t.k = "move"
  BY <1>1, <1>4, <1>6, ParseMoveInv DEF rule
<1>7. CASE t.k = "roque"
  BY <1>1, <1>4, <1>7, ParseRoqueInv DEF rule
<1>8. CASE t.k = "number"
  <2>1. UNCHANGED <<pc, heap, dr, out, shown, did, configuring, configside, base>>
    BY <1>4, <1>8 DEF rule, parse_number
  <2> QED BY <1>1, <1>5, <2>1, WritingInv
<1>9. CASE t.k = "comment"
  <2>1. /\ UNCHANGED <<pc, heap, dr, shown, did, configuring, configside, base>>
        /\ out' = output_text(dr, out) \/ out' = out
    BY <1>4, <1>9 DEF rule, parse_comment, parser
  <2>2. out' \in Seq(Items)
    BY <1>5, <2>1, OutputRest
  <2> QED BY <1>1, <1>5, <2>1, <2>2, WritingInv
<1>10. CASE t.k = "keyword"
  <2>1. parse_keyword(t.v, t.text)
    BY <1>4, <1>10 DEF rule
  <2>2. t.v \in {"clearboard", "default", "configwhite", "configblack"} => dr.variation = 0
    BY <1>4, <1>10 DEF Fair
  <2> QED BY <1>1, <2>1, <2>2, KeywordInv
<1>11. CASE t.k = "in"
  <2>1. enter_variation /\ did[m] # "branch"
    BY <1>4, <1>11 DEF rule, Fair
  <2> QED BY <1>1, <2>1, EnterInv
<1>12. CASE t.k = "out"
  <2>1. exit_variation
    BY <1>4, <1>12 DEF rule
  <2> QED BY <1>1, <2>1, ExitInv
<1> QED BY <1>4, <1>6, <1>7, <1>8, <1>9, <1>10, <1>11, <1>12

\* The end of the input frees everything.
LEMMA EndInv ==
  ASSUME HeapInv, EndOfInput
  PROVE  HeapInv'
<1> DEFINE w == output_board(dr, out)
<1>1. pc = "reading" /\ Typed /\ Tree /\ LineBoards
  BY DEF HeapInv, EndOfInput
<1>2. /\ out' = w.out \/ out' = output_end(w.dr, w.out)
      /\ dr' = w.dr /\ pc' = "ended" /\ free_resources(node, board)
      /\ UNCHANGED <<input, pos, counter, chain, nboards, tos, stack, shown, parser, did, base>>
  BY DEF EndOfInput, exit
<1>3. w.dr \in Driver /\ w.out \in Seq(Items)
  <2>1. dr \in Driver /\ out \in Seq(Items)
    BY <1>1 DEF Typed
  <2> QED BY <2>1, OutputBoard, OutputBoardOut DEF SameLevel
<1> HIDE DEF w
<1>4. out' \in Seq(Items) /\ dr' \in Driver
  BY <1>2, <1>3, OutputRest
<1>5. Typed'
  BY <1>1, <1>2, <1>4 DEF Typed, parser
<1>6. node' = Empty /\ board' = Empty
  <2>1. counter \in Nat /\ Rising(node, counter) /\ Hung(node, chain)
    BY <1>1 DEF Typed, Tree
  <2> QED BY <1>1, <1>2, <2>1, FreedAll
<1> QED BY <1>2, <1>5, <1>6 DEF HeapInv

\* The program starts with a heap that is sound, or ends at once.
LEMMA StartInv ==
  ASSUME HeapInv, notation_main
  PROVE  HeapInv'
<1>1. pc = "start" /\ Typed /\ node = Empty /\ board = Empty
  BY DEF HeapInv, notation_main
<1>2. PICK i \in DOMAIN Options :
        LET a == parse_options(Options[i])
            d == init_driver(a.dr, a.driver)
        IN  /\ dr' = d /\ in_language' = a.lang /\ shown' = a.shown
            /\ IF a.exit # "no"
               THEN exit(a.exit) /\ UNCHANGED <<heap, out, did, base>>
               ELSE /\ pc' = "reading" /\ status' = status
                    /\ tos' = 1 /\ nboards' = 1 /\ board' = [b \in {1} |-> init_board]
                    /\ m' = 1 /\ chain' = 1 /\ counter' = 1
                    /\ node' = [x \in {1} |-> init_parse(new_move(1))]
                    /\ out' = output_init(d, out)
                    /\ did' = <<"head">> /\ base' = init_board
                    /\ UNCHANGED stack
  BY DEF notation_main
<1> DEFINE a == parse_options(Options[i])
           d == init_driver(a.dr, a.driver)
<1>3. UNCHANGED <<input, pos, error_flag, configuring, configside, movecount>>
  BY DEF notation_main
<1>4. a \in Settings
  <2>1. Usable(Options[i])
    <3>1. sequence(Options[i])
      BY ONLY OptionsAssumption
    <3>2. \A n \in DOMAIN Options[i] : /\ Options[i][n].o = "c" => Options[i][n].v \in Seq(Nat)
                                       /\ Options[i][n].o = "e" => Options[i][n].v \in Nat
      BY ONLY OptionsAssumption
    <3> QED BY ONLY <3>1, <3>2 DEF Usable
  <2> QED BY <2>1, ParseOptions
<1>5. d \in Driver /\ d.variation = 0 /\ a.shown \in Shown
  BY <1>4, InitDriver DEF Settings
<1>6. CASE a.exit # "no"
  <2>1. pc' = "ended" /\ UNCHANGED <<heap, out, did, base>> /\ dr' = d /\ shown' = a.shown
    BY <1>2, <1>6 DEF exit
  <2> HIDE DEF a, d
  <2>2. Typed'
    BY <1>1, <1>3, <1>5, <2>1 DEF Typed, heap
  <2> QED BY <1>1, <2>1, <2>2 DEF HeapInv, heap
<1>7. CASE a.exit = "no"
  <2> DEFINE h == init_parse(new_move(1))
  <2>1. /\ pc' = "reading" /\ tos' = 1 /\ nboards' = 1 /\ board' = [b \in {1} |-> init_board]
        /\ m' = 1 /\ chain' = 1 /\ counter' = 1 /\ node' = [x \in {1} |-> h]
        /\ out' = output_init(d, out) /\ did' = <<"head">> /\ base' = init_board
        /\ UNCHANGED stack /\ dr' = d /\ shown' = a.shown
    BY <1>2, <1>7
  <2> HIDE DEF a, d
  <2>2. out' \in Seq(Items)
    BY <1>1, <1>5, <2>1, OutputRest DEF Typed
  <2>3. did' \in Seq(Kinds) /\ Len(did') = 1 /\ did'[1] = "head"
    BY <2>1 DEF Kinds
  <2>4. Typed'
    BY <1>1, <1>3, <1>5, <2>1, <2>2, <2>3, FirstBoards DEF Typed
  <2>5. h \in Moves /\ h.uid = 1 /\ h.next = NULL /\ h.sub = NULL /\ h.prev = NULL
    <3>1. new_move(1) \in Moves /\ new_move(1).uid = 1 /\ new_move(1).next = NULL
          /\ new_move(1).sub = NULL /\ new_move(1).prev = NULL
      BY DEF new_move, Moves, NULL, VOID, PAWN, PROM_ET_PRISE, SIZE
    <3>2. h \in Like(new_move(1))
      BY <3>1, InitParse DEF Parsed
    <3> HIDE DEF h
    <3> QED BY <3>1, <3>2 DEF Like
  <2> HIDE DEF h
  <2>6. /\ DOMAIN node' = {1} /\ node'[1] = h
        /\ DOMAIN board' = {1} /\ board'[1] = init_board
    BY <2>1
  <2>7. Tree'
    BY <2>1, <2>5, <2>6 DEF Tree, Rising, Hung
  <2>8. Told'
    BY <2>1, <2>3, <2>6 DEF Told
  <2>9. Level' = {}
    BY <1>5, <2>1 DEF Level
  <2>10. LineEnds'
    BY <2>1, <2>5, <2>6, <2>9 DEF LineEnds
  <2>11. LineBoards'
    <3>1. IsFiniteSet({1}) /\ Cardinality({1}) = 1
      BY FS_Singleton
    <3> QED BY <1>5, <2>1, <2>6, <2>9, <3>1, FirstBoards DEF LineBoards
  <2> QED BY <2>1, <2>4, <2>7, <2>8, <2>10, <2>11 DEF HeapInv
<1> QED BY <1>6, <1>7

\* Nothing is allocated yet.
LEMMA InitInv ==
  ASSUME Init
  PROVE  HeapInv
<1>1. new_driver \in Driver
  <2>1. DEFAULT_LANGUAGE \in DOMAIN c_language /\ 0 \in 0 .. VARIATION_MAX /\ "ascii" \in Drivers
    BY NotationAssumption DEF Drivers
  <2> HIDE DEF c_language, Drivers
  <2> QED BY <2>1 DEF new_driver, Driver
<1>2. shown \in Shown /\ out \in Seq(Items)
  BY DEF Init, Shown
<1>3. stack \in [0 .. VARIATION_MAX - 1 -> [d: Nat, b: Nat, d1: BOOLEAN, d2: BOOLEAN]]
  BY DEF Init, NULL
<1>4. Typed
  BY <1>1, <1>2, <1>3, FirstBoards DEF Init, Typed
<1> QED BY <1>4 DEF HeapInv, Init

-----------------------------------------------------------------------------
\* The invariant of the heap holds in every state the tool can be in.
THEOREM HeapInvHolds ==
  ASSUME Disciplined
  PROVE  Spec => []HeapInv
<1>1. Init => HeapInv
  BY InitInv
<1>2. HeapInv /\ [Next]_vars => HeapInv'
  <2> SUFFICES ASSUME HeapInv, [Next]_vars PROVE HeapInv'
    OBVIOUS
  <2>1. CASE notation_main
    BY <2>1, StartInv
  <2>2. CASE yylex
    BY <2>2, YylexInv
  <2>3. CASE EndOfInput
    BY <2>3, EndInv
  <2>4. CASE UNCHANGED vars
    <3>1. CASE pc = "reading"
      <4>1. Typed'
        BY <2>4 DEF HeapInv, Typed, vars, heap, parser
      <4>2. Tree' /\ Told' /\ LineEnds' /\ LineBoards'
        BY <2>4, <3>1 DEF HeapInv, Tree, Told, LineEnds, LineBoards, vars, heap, Rising, Hung, Level
      <4> QED BY <2>4, <3>1, <4>1, <4>2 DEF HeapInv, vars
    <3>2. CASE pc # "reading"
      BY <2>4, <3>2 DEF HeapInv, Typed, vars, heap, parser
    <3> QED BY <3>1, <3>2
  <2> QED BY <2>1, <2>2, <2>3, <2>4 DEF Next
<1> QED BY <1>1, <1>2, PTL DEF Spec

\* Nothing is lost and nothing is freed twice, with any number of variations
\* entered and left: while the tool reads, the boards allocated are those of the
\* open lines, one each, and every move is reached from the head; at every exit
\* all of it is freed.
THEOREM MemorySoundHolds ==
  ASSUME Disciplined
  PROVE  Spec => []MemorySound
<1>1. HeapInv => MemorySound
  <2> SUFFICES ASSUME HeapInv PROVE MemorySound
    OBVIOUS
  <2>1. ASSUME pc = "reading"
        PROVE  /\ DOMAIN board = {ln[1] : ln \in Lines}
               /\ Cardinality(DOMAIN board) = dr.variation + 1
               /\ DOMAIN node = under(node, chain) \cup {chain}
               /\ \A ln \in Lines : ln[2] \in DOMAIN node
    <3>1. Typed /\ Tree /\ LineEnds /\ LineBoards
      BY <2>1 DEF HeapInv
    <3>2. Lines = {<<tos, m>>} \cup {<<stack[l].b, stack[l].d>> : l \in Level}
      BY DEF Lines, Level
    <3>3. DOMAIN board = {ln[1] : ln \in Lines}
      <4>1. {ln[1] : ln \in Lines} = {tos} \cup {stack[l].b : l \in Level}
        <5>1. ASSUME NEW ln \in Lines PROVE ln[1] \in {tos} \cup {stack[l].b : l \in Level}
          BY <3>2
        <5>2. ASSUME NEW l \in Level PROVE stack[l].b \in {ln[1] : ln \in Lines}
          <6>1. <<stack[l].b, stack[l].d>> \in Lines
            BY <3>2
          <6> QED BY <6>1
        <5>3. tos \in {ln[1] : ln \in Lines}
          <6>1. <<tos, m>> \in Lines
            BY <3>2
          <6> QED BY <6>1
        <5> HIDE DEF Lines
        <5> QED BY <5>1, <5>2, <5>3
      <4> QED BY <3>1, <4>1 DEF LineBoards
    <3>4. Cardinality(DOMAIN board) = dr.variation + 1
      BY <3>1 DEF LineBoards
    <3>5. DOMAIN node = under(node, chain) \cup {chain}
      BY <3>1, UnderIsAll DEF Typed, Tree
    <3>6. \A ln \in Lines : ln[2] \in DOMAIN node
      BY <3>1, <3>2 DEF LineEnds
    <3> QED BY <3>3, <3>4, <3>5, <3>6
  <2> QED BY <2>1 DEF MemorySound, HeapInv, Typed
<1> QED BY <1>1, HeapInvHolds, PTL

-----------------------------------------------------------------------------
(* The board after a move.                                                 *)
\* Position and Inexact of a heap, of what its moves did, of its head and of
\* the board it starts from
PositionOf(nodes, kinds, c, b) ==
  LET P[x \in DOMAIN nodes] ==
        CASE x = c -> b
          [] kinds[x] = "branch" -> P[nodes[nodes[x].prev].prev]
          [] kinds[x] = "move"   -> forward(P[nodes[x].prev], nodes[x])
          [] kinds[x] \in Placed -> placing(P[nodes[x].prev], nodes[x], kinds[x])
          [] OTHER -> P[nodes[x].prev]
  IN  P

InexactOf(nodes, kinds, c, b) ==
  LET I[x \in DOMAIN nodes] ==
        IF x = c THEN FALSE
        ELSE LET p == nodes[x].prev
             IN  IF kinds[x] = "branch"
                 THEN \/ p = c \/ kinds[p] # "move"
                      \/ ~Exact(PositionOf(nodes, kinds, c, b)[nodes[p].prev], nodes[p])
                      \/ I[nodes[p].prev]
                 ELSE I[p]
  IN  I

\* a heap in which every move comes after one, and replaces one that comes after one
Lined(nodes, kinds, c, n) ==
  /\ DOMAIN nodes \subseteq 1 .. n /\ n \in Nat /\ c \in DOMAIN nodes /\ kinds[c] = "head"
  /\ \A x \in DOMAIN nodes : nodes[x] \in Moves
  /\ \A x \in DOMAIN nodes \ {c} :
       /\ nodes[x].prev \in DOMAIN nodes /\ nodes[x].prev < x
       /\ kinds[x] = "branch" => nodes[x].prev # c

\* the move on whose board x was done, and the board after x
Before(nodes, kinds, x) == IF kinds[x] = "branch" THEN nodes[nodes[x].prev].prev ELSE nodes[x].prev
Change(n, kind, h) ==
  CASE kind = "move" -> forward(h, n) [] kind \in Placed -> placing(h, n, kind) [] OTHER -> h

\* The move on whose board a move was done was read earlier.
LEMMA BeforeFalls ==
  ASSUME NEW nodes, NEW kinds, NEW c, NEW n, Lined(nodes, kinds, c, n), NEW x \in DOMAIN nodes \ {c}
  PROVE  Before(nodes, kinds, x) \in DOMAIN nodes /\ Before(nodes, kinds, x) < x
<1>1. nodes[x].prev \in DOMAIN nodes /\ nodes[x].prev < x /\ x \in Nat /\ nodes[x].prev \in Nat
  BY DEF Lined
<1>2. CASE kinds[x] = "branch"
  <2> DEFINE p == nodes[x].prev
  <2>1. p \in DOMAIN nodes \ {c} /\ p < x /\ p \in Nat
    BY <1>1, <1>2 DEF Lined
  <2>2. nodes[p].prev \in DOMAIN nodes /\ nodes[p].prev < p /\ nodes[p].prev \in Nat
    BY <2>1 DEF Lined
  <2>3. nodes[p].prev < x
    BY <1>1, <2>1, <2>2
  <2> QED BY <1>2, <2>2, <2>3 DEF Before
<1>3. CASE kinds[x] # "branch"
  BY <1>1, <1>3 DEF Before
<1> QED BY <1>2, <1>3

\* What a move does leaves a board.
LEMMA ChangeBoard ==
  ASSUME NEW h \in Boards, NEW n \in Moves, NEW kind
  PROVE  Change(n, kind, h) \in Boards
<1>1. /\ n.fromlig \in 0 .. SIZE - 1 /\ n.tocol \in 0 .. SIZE - 1 /\ n.tolig \in 0 .. SIZE - 1
      /\ n.piece \in VOID .. PAWN
  BY DEF Moves
<1>2. forward(h, n) \in Boards
  BY <1>1, ClearedBoard, DoneBoard DEF forward
<1>3. placing(h, n, kind) \in Boards
  <2> DEFINE col == IF kind = "white" THEN WHITE ELSE BLACK
  <2>1. <<n.tolig, n.tocol>> \in Squares
    BY <1>1 DEF Squares
  <2>2. <<n.piece, col>> \in Cells
    BY <1>1 DEF Cells, WHITE, BLACK
  <2> HIDE DEF col
  <2>3. setboard(h, n.tolig, n.tocol, n.piece, col) \in Boards
    BY <2>1, <2>2 DEF setboard, Boards
  <2> QED BY <2>3 DEF placing, col
<1> QED BY <1>2, <1>3 DEF Change

\* The position after a move is what the move makes of the one before.
LEMMA PositionIs ==
  ASSUME NEW nodes, NEW kinds, NEW c, NEW n, Lined(nodes, kinds, c, n), NEW b \in Boards
  PROVE  LET P == PositionOf(nodes, kinds, c, b)
         IN  /\ P \in [DOMAIN nodes -> Boards] /\ P[c] = b
             /\ \A x \in DOMAIN nodes \ {c} : P[x] = Change(nodes[x], kinds[x], P[Before(nodes, kinds, x)])
<1> DEFINE D == DOMAIN nodes
           A == Boards
           rank == [x \in D |-> x]
           body(f) == [x \in D |->
                         CASE x = c -> b
                           [] kinds[x] = "branch" -> f[nodes[nodes[x].prev].prev]
                           [] kinds[x] = "move"   -> forward(f[nodes[x].prev], nodes[x])
                           [] kinds[x] \in Placed -> placing(f[nodes[x].prev], nodes[x], kinds[x])
                           [] OTHER -> f[nodes[x].prev]]
           next(f) == [x \in D |-> IF x = c THEN b ELSE Change(nodes[x], kinds[x], f[Before(nodes, kinds, x)])]
           P == CHOOSE f : f = body(f)
<1>1. /\ n \in Nat /\ D \subseteq 1 .. n /\ c \in D /\ kinds[c] = "head"
      /\ \A x \in D : nodes[x] \in Moves
  BY DEF Lined
<1>2. \A x \in D \ {c} : Before(nodes, kinds, x) \in D /\ Before(nodes, kinds, x) < x
  BY BeforeFalls
<1>3. ASSUME NEW f PROVE body(f) = next(f)
  <2>1. ASSUME NEW x \in D PROVE body(f)[x] = next(f)[x]
    <3>1. CASE x = c
      BY <1>1, <3>1 DEF Placed
    <3>2. CASE x # c /\ kinds[x] = "branch"
      BY <3>2 DEF Placed, Change, Before
    <3>3. CASE x # c /\ kinds[x] = "move"
      BY <3>3 DEF Placed, Change, Before
    <3>4. CASE x # c /\ kinds[x] \in Placed
      BY <3>4 DEF Placed, Change, Before
    <3>5. CASE x # c /\ kinds[x] \notin Placed \cup {"branch", "move"}
      BY <3>5 DEF Change, Before
    <3> QED BY <3>1, <3>2, <3>3, <3>4, <3>5
  <2> QED BY <2>1
<1> HIDE DEF body
<1>4. ASSUME NEW f \in [D -> A] PROVE next(f) \in [D -> A]
  <2>1. ASSUME NEW x \in D PROVE next(f)[x] \in A
    <3>1. CASE x = c
      BY <3>1
    <3>2. CASE x # c
      <4>1. f[Before(nodes, kinds, x)] \in Boards /\ nodes[x] \in Moves
        BY <1>1, <1>2, <3>2
      <4> QED BY <3>2, <4>1, ChangeBoard
    <3> QED BY <3>1, <3>2
  <2> QED BY <2>1
<1>5. \E f \in [D -> A] : f = next(f)
  <2> DEFINE G == [f \in [D -> A] |-> next(f)]
  <2>1. G \in [[D -> A] -> [D -> A]]
    BY <1>4
  <2>2. ASSUME NEW f \in [D -> A], NEW g \in [D -> A], NEW x \in D,
               \A y \in D : rank[y] < rank[x] => f[y] = g[y]
        PROVE  G[f][x] = G[g][x]
    <3>1. x # c => f[Before(nodes, kinds, x)] = g[Before(nodes, kinds, x)]
      BY <1>2, <2>2
    <3>2. next(f)[x] = next(g)[x]
      BY <3>1
    <3> QED BY <3>2
  <2>3. \A f \in [D -> A] : G[f] = next(f)
    OBVIOUS
  <2>4. A # {} /\ rank \in [D -> 0 .. n] /\ n \in Nat
    BY <1>1
  <2> HIDE DEF G, D, next, rank, A
  <2>5. LooksDown(D, A, n, rank, G)
    BY <2>1, <2>2, <2>4 DEF LooksDown
  <2>6. \E f \in [D -> A] : f = G[f]
    BY <2>5, Recursion
  <2> QED BY <2>3, <2>6
<1>6. P = next(P)
  <2> HIDE DEF next
  <2>1. \E f : f = body(f)
    BY <1>3, <1>5
  <2>2. P = body(P)
    BY <2>1
  <2> QED BY <1>3, <2>2
<1>7. PositionOf(nodes, kinds, c, b) = P
  BY DEF PositionOf, body
<1> HIDE DEF P
<1>8. \A x \in D : P[x] = IF x = c THEN b ELSE Change(nodes[x], kinds[x], P[Before(nodes, kinds, x)])
  BY <1>6
<1>9. DOMAIN P = D /\ P = [x \in D |-> P[x]]
  <2>1. DOMAIN next(P) = D /\ next(P) = [x \in D |-> next(P)[x]]
    OBVIOUS
  <2> HIDE DEF next
  <2> QED BY <1>6, <2>1
<1> DEFINE good == {x \in D : P[x] \in A}
<1>10. good = D
  <2>1. ASSUME NEW x \in D, \A y \in D : rank[y] < rank[x] => y \in good PROVE x \in good
    <3>1. CASE x = c
      BY <1>8, <3>1
    <3>2. CASE x # c
      <4>1. P[Before(nodes, kinds, x)] \in Boards /\ nodes[x] \in Moves
        BY <1>1, <1>2, <2>1, <3>2
      <4>2. P[x] \in Boards
        BY <1>8, <3>2, <4>1, ChangeBoard
      <4> QED BY <4>2
    <3> QED BY <3>1, <3>2
  <2>2. good \in SUBSET D /\ rank \in [D -> Nat]
    BY <1>1
  <2> HIDE DEF good, D, rank
  <2>3. Inherits(D, rank, good)
    BY <2>1, <2>2 DEF Inherits
  <2> QED BY <2>3, ByRank
<1>11. P \in [D -> Boards]
  BY <1>9, <1>10
<1> QED BY <1>1, <1>7, <1>8, <1>11

\* whether a line that starts at the variation x starts where a move was taken
\* back that undo_move does not take back exactly
Unsure(nodes, kinds, c, b, x) ==
  /\ kinds[x] = "branch"
  /\ LET p == nodes[x].prev
     IN  kinds[p] # "move" \/ ~Exact(PositionOf(nodes, kinds, c, b)[nodes[p].prev], nodes[p])

\* A line is inexact where it starts at one or before.
LEMMA InexactIs ==
  ASSUME NEW nodes, NEW kinds, NEW c, NEW n, Lined(nodes, kinds, c, n), NEW b
  PROVE  LET I == InexactOf(nodes, kinds, c, b)
         IN  /\ I[c] = FALSE
             /\ \A x \in DOMAIN nodes : I[x] \in BOOLEAN
             /\ \A x \in DOMAIN nodes \ {c} :
                  I[x] = (Unsure(nodes, kinds, c, b, x) \/ I[Before(nodes, kinds, x)])
<1> DEFINE D == DOMAIN nodes
           A == BOOLEAN
           rank == [x \in D |-> x]
           Q == PositionOf(nodes, kinds, c, b)
           bad(x) == Unsure(nodes, kinds, c, b, x)
           body(f) == [x \in D |->
                         IF x = c THEN FALSE
                         ELSE IF kinds[x] = "branch"
                              THEN \/ nodes[x].prev = c \/ kinds[nodes[x].prev] # "move"
                                   \/ ~Exact(Q[nodes[nodes[x].prev].prev], nodes[nodes[x].prev])
                                   \/ f[nodes[nodes[x].prev].prev]
                              ELSE f[nodes[x].prev]]
           next(f) == [x \in D |-> IF x = c THEN FALSE ELSE bad(x) \/ f[Before(nodes, kinds, x)]]
           I == CHOOSE f : f = body(f)
<1>1. /\ n \in Nat /\ D \subseteq 1 .. n /\ c \in D
      /\ \A x \in D \ {c} : kinds[x] = "branch" => nodes[x].prev # c
  BY DEF Lined
<1>2. \A x \in D \ {c} : Before(nodes, kinds, x) \in D /\ Before(nodes, kinds, x) < x
  BY BeforeFalls
<1> HIDE DEF Q
<1>3. ASSUME NEW f \in [D -> A] PROVE body(f) = next(f)
  <2>1. ASSUME NEW x \in D PROVE body(f)[x] = next(f)[x]
    <3>1. CASE x = c
      BY <3>1
    <3>2. CASE x # c /\ kinds[x] = "branch"
      BY <1>1, <3>2 DEF Before, Unsure, Q
    <3>3. CASE x # c /\ kinds[x] # "branch"
      <4>1. Before(nodes, kinds, x) = nodes[x].prev /\ bad(x) = FALSE /\ f[Before(nodes, kinds, x)] \in BOOLEAN
        BY <1>2, <3>3 DEF Before, Unsure
      <4>2. next(f)[x] = f[nodes[x].prev]
        BY <3>3, <4>1
      <4>3. body(f)[x] = f[nodes[x].prev]
        BY <3>3
      <4> QED BY <4>2, <4>3
    <3> QED BY <3>1, <3>2, <3>3
  <2> HIDE DEF bad
  <2>2. body(f) = [x \in D |-> body(f)[x]] /\ next(f) = [x \in D |-> next(f)[x]]
    OBVIOUS
  <2> HIDE DEF body, next
  <2> QED BY <2>1, <2>2
<1> HIDE DEF bad
<1>4. ASSUME NEW f PROVE next(f) \in [D -> A]
  OBVIOUS
<1> HIDE DEF body
<1>5. \E f \in [D -> A] : f = next(f)
  <2> DEFINE G == [f \in [D -> A] |-> next(f)]
  <2>1. G \in [[D -> A] -> [D -> A]]
    BY <1>4
  <2>2. ASSUME NEW f \in [D -> A], NEW g \in [D -> A], NEW x \in D,
               \A y \in D : rank[y] < rank[x] => f[y] = g[y]
        PROVE  G[f][x] = G[g][x]
    <3>1. x # c => f[Before(nodes, kinds, x)] = g[Before(nodes, kinds, x)]
      BY <1>2, <2>2
    <3>2. next(f)[x] = next(g)[x]
      BY <3>1
    <3> QED BY <3>2
  <2>3. \A f \in [D -> A] : G[f] = next(f)
    OBVIOUS
  <2>4. A # {} /\ rank \in [D -> 0 .. n] /\ n \in Nat
    <3>1. A # {}
      <4>1. FALSE \in A
        OBVIOUS
      <4> HIDE DEF A
      <4> QED BY <4>1
    <3> QED BY <1>1, <3>1
  <2> HIDE DEF G, D, next, rank, A
  <2>5. LooksDown(D, A, n, rank, G)
    BY <2>1, <2>2, <2>4 DEF LooksDown
  <2>6. \E f \in [D -> A] : f = G[f]
    BY <2>5, Recursion
  <2> QED BY <2>3, <2>6
<1>6. PICK f0 \in [D -> A] : f0 = body(f0)
  <2> HIDE DEF next
  <2> QED BY <1>3, <1>5
<1>7. I = body(I)
  <2>1. \E f : f = body(f)
    BY <1>6
  <2> QED BY <2>1
<1>8. InexactOf(nodes, kinds, c, b) = I
  BY DEF InexactOf, body, Q
<1> HIDE DEF I
<1>9. /\ I[c] = FALSE
      /\ \A x \in D \ {c} : kinds[x] = "branch" => I[x] = (bad(x) \/ I[Before(nodes, kinds, x)])
      /\ \A x \in D \ {c} : kinds[x] # "branch" => I[x] = I[Before(nodes, kinds, x)] /\ bad(x) = FALSE
  <2>1. \A x \in D : I[x] =
                         IF x = c THEN FALSE
                         ELSE IF kinds[x] = "branch"
                              THEN \/ nodes[x].prev = c \/ kinds[nodes[x].prev] # "move"
                                   \/ ~Exact(Q[nodes[nodes[x].prev].prev], nodes[nodes[x].prev])
                                   \/ I[nodes[nodes[x].prev].prev]
                              ELSE I[nodes[x].prev]
    <3>1. \A x \in D : body(I)[x] = IF x = c THEN FALSE
                         ELSE IF kinds[x] = "branch"
                              THEN \/ nodes[x].prev = c \/ kinds[nodes[x].prev] # "move"
                                   \/ ~Exact(Q[nodes[nodes[x].prev].prev], nodes[nodes[x].prev])
                                   \/ I[nodes[nodes[x].prev].prev]
                              ELSE I[nodes[x].prev]
      BY DEF body
    <3> QED BY <1>7, <3>1
  <2> QED BY <1>1, <2>1 DEF Before, bad, Unsure, Q
<1> DEFINE good == {x \in D : I[x] \in BOOLEAN}
<1>10. good = D
  <2>1. ASSUME NEW x \in D, \A y \in D : rank[y] < rank[x] => y \in good PROVE x \in good
    <3>1. x # c => I[Before(nodes, kinds, x)] \in BOOLEAN
      BY <1>2, <2>1
    <3> QED BY <1>9, <3>1
  <2>2. good \in SUBSET D /\ rank \in [D -> Nat]
    BY <1>1
  <2> HIDE DEF good, D, rank
  <2>3. Inherits(D, rank, good)
    BY <2>1, <2>2 DEF Inherits
  <2> QED BY <2>3, ByRank
<1>11. \A x \in D \ {c} : I[x] = (bad(x) \/ I[Before(nodes, kinds, x)])
  <2> TAKE x \in D \ {c}
  <2>1. I[Before(nodes, kinds, x)] \in BOOLEAN
    BY <1>2, <1>10
  <2> QED BY <1>9, <2>1
<1> QED BY <1>8, <1>9, <1>10, <1>11 DEF bad

\* a move that plays as n does
SamePlay(e, n) ==
  /\ e.type = n.type /\ e.piece = n.piece /\ e.prise = n.prise /\ e.promotion = n.promotion
  /\ e.fromlig = n.fromlig /\ e.fromcol = n.fromcol /\ e.tolig = n.tolig /\ e.tocol = n.tocol
  /\ e.whiteturn = n.whiteturn

\* A catch en passant is not among the moves that are taken back exactly.
LEMMA ExactType ==
  ASSUME NEW g, NEW n, Exact(g, n)
  PROVE  n.type # EN_PASSANT
BY DEF Exact, EN_PASSANT, MOVE, PRISE, PROMOTION, PROM_ET_PRISE, GRANDROQUE, PETITROQUE

\* A move that plays as another makes the same board.
LEMMA SamePlayed ==
  ASSUME NEW e, NEW n, SamePlay(e, n), NEW h
  PROVE  forward(h, e) = forward(h, n) /\ Exact(h, e) = Exact(h, n)
<1>1. CURCOLOR(e) = CURCOLOR(n) /\ OPPCOLOR(e) = OPPCOLOR(n) /\ home(e) = home(n)
  BY DEF SamePlay, CURCOLOR, OPPCOLOR, home
<1>2. forward(h, e) = forward(h, n)
  BY <1>1 DEF SamePlay, forward, do_move
<1>3. Exact(h, e) = Exact(h, n)
  BY <1>1 DEF SamePlay, Exact
<1> QED BY <1>2, <1>3

\* new holds the moves of nodes with the same moves before them, and they play the same
Extends(nodes, kinds, new, more) ==
  /\ DOMAIN nodes \subseteq DOMAIN new
  /\ \A x \in DOMAIN nodes :
       /\ new[x].prev = nodes[x].prev /\ more[x] = kinds[x]
       /\ SamePlay(new[x], nodes[x])
          \/ (kinds[x] # "move" /\ new[x].piece = nodes[x].piece
                /\ new[x].tolig = nodes[x].tolig /\ new[x].tocol = nodes[x].tocol)

\* The positions of the old moves stay.
LEMMA PositionKept ==
  ASSUME NEW nodes, NEW kinds, NEW c, NEW n, Lined(nodes, kinds, c, n), NEW b \in Boards,
         NEW new, NEW more, NEW k, Lined(new, more, c, k), Extends(nodes, kinds, new, more)
  PROVE  /\ \A x \in DOMAIN nodes : PositionOf(new, more, c, b)[x] = PositionOf(nodes, kinds, c, b)[x]
         /\ \A x \in DOMAIN nodes : InexactOf(new, more, c, b)[x] = InexactOf(nodes, kinds, c, b)[x]
<1> DEFINE D == DOMAIN nodes
           rank == [x \in D |-> x]
           P == PositionOf(nodes, kinds, c, b)
           Q == PositionOf(new, more, c, b)
           I == InexactOf(nodes, kinds, c, b)
           J == InexactOf(new, more, c, b)
           bad(x) == Unsure(nodes, kinds, c, b, x)
           worse(x) == Unsure(new, more, c, b, x)
<1>1. D \subseteq Nat /\ c \in D /\ D \subseteq DOMAIN new
  BY DEF Lined, Extends
<1>2. /\ P[c] = b /\ Q[c] = b
      /\ \A x \in D \ {c} : P[x] = Change(nodes[x], kinds[x], P[Before(nodes, kinds, x)])
      /\ \A x \in DOMAIN new \ {c} : Q[x] = Change(new[x], more[x], Q[Before(new, more, x)])
  BY PositionIs
<1>3. /\ I[c] = FALSE /\ J[c] = FALSE
      /\ \A x \in D \ {c} : I[x] = (bad(x) \/ I[Before(nodes, kinds, x)])
      /\ \A x \in DOMAIN new \ {c} : J[x] = (worse(x) \/ J[Before(new, more, x)])
  BY InexactIs
<1> HIDE DEF P, Q, I, J, bad, worse
<1>4. \A x \in D \ {c} : /\ Before(nodes, kinds, x) \in D /\ Before(nodes, kinds, x) < x
                         /\ Before(new, more, x) = Before(nodes, kinds, x)
  <2> TAKE x \in D \ {c}
  <2>1. nodes[x].prev \in D
    BY DEF Lined
  <2> QED BY <2>1, BeforeFalls DEF Extends, Before
<1>5. ASSUME NEW x \in D, NEW h PROVE Change(new[x], more[x], h) = Change(nodes[x], kinds[x], h)
  <2>1. more[x] = kinds[x]
    BY DEF Extends
  <2>2. CASE SamePlay(new[x], nodes[x])
    <3>1. forward(h, new[x]) = forward(h, nodes[x])
      BY <2>2, SamePlayed
    <3>2. placing(h, new[x], kinds[x]) = placing(h, nodes[x], kinds[x])
      BY <2>2 DEF SamePlay, placing
    <3> QED BY <2>1, <3>1, <3>2 DEF Change
  <2>3. CASE /\ kinds[x] # "move" /\ new[x].piece = nodes[x].piece
             /\ new[x].tolig = nodes[x].tolig /\ new[x].tocol = nodes[x].tocol
    BY <2>1, <2>3 DEF Change, placing
  <2> QED BY <2>2, <2>3 DEF Extends
<1> DEFINE good == {x \in D : Q[x] = P[x]}
<1>6. good = D
  <2>1. ASSUME NEW x \in D, \A y \in D : rank[y] < rank[x] => y \in good PROVE x \in good
    <3>1. CASE x = c
      BY <1>2, <3>1
    <3>2. CASE x # c
      <4>1. Q[Before(nodes, kinds, x)] = P[Before(nodes, kinds, x)]
        BY <1>4, <2>1, <3>2
      <4> QED BY <1>1, <1>2, <1>4, <1>5, <3>2, <4>1
    <3> QED BY <3>1, <3>2
  <2>2. good \in SUBSET D /\ rank \in [D -> Nat]
    BY <1>1
  <2> HIDE DEF good, D, rank
  <2>3. Inherits(D, rank, good)
    BY <2>1, <2>2 DEF Inherits
  <2> QED BY <2>3, ByRank
<1>7. ASSUME NEW x \in D \ {c} PROVE worse(x) = bad(x)
  <2> DEFINE p == nodes[x].prev
  <2>1. p \in D /\ new[x].prev = p /\ more[x] = kinds[x]
    BY DEF Extends, Lined
  <2>2. more[p] = kinds[p] /\ new[p].prev = nodes[p].prev
    BY <2>1 DEF Extends
  <2>3. CASE kinds[x] # "branch" \/ kinds[p] # "move"
    BY <2>1, <2>2, <2>3 DEF bad, worse, Unsure
  <2>4. CASE kinds[x] = "branch" /\ kinds[p] = "move"
    <3>1. p \in D \ {c}
      BY <2>1, <2>4 DEF Lined
    <3>2. nodes[p].prev \in D
      BY <3>1 DEF Lined
    <3>3. Q[nodes[p].prev] = P[nodes[p].prev]
      BY <1>6, <3>2
    <3>4. SamePlay(new[p], nodes[p])
      BY <2>1, <2>4 DEF Extends
    <3>5. Exact(Q[nodes[p].prev], new[p]) = Exact(P[nodes[p].prev], nodes[p])
      BY <3>3, <3>4, SamePlayed
    <3> HIDE DEF p
    <3> QED BY <2>1, <2>2, <2>4, <3>5 DEF bad, worse, Unsure, P, Q, p
  <2> QED BY <2>3, <2>4
<1> DEFINE fine == {x \in D : J[x] = I[x]}
<1>8. fine = D
  <2>1. ASSUME NEW x \in D, \A y \in D : rank[y] < rank[x] => y \in fine PROVE x \in fine
    <3>1. CASE x = c
      BY <1>3, <3>1
    <3>2. CASE x # c
      <4>1. J[Before(nodes, kinds, x)] = I[Before(nodes, kinds, x)]
        BY <1>4, <2>1, <3>2
      <4>2. worse(x) = bad(x)
        BY <1>7, <3>2
      <4>3. J[x] = (worse(x) \/ J[Before(new, more, x)]) /\ I[x] = (bad(x) \/ I[Before(nodes, kinds, x)])
        BY <1>1, <1>3, <3>2
      <4>4. Before(new, more, x) = Before(nodes, kinds, x)
        BY <1>4, <3>2
      <4> QED BY <4>1, <4>2, <4>3, <4>4
    <3> QED BY <3>1, <3>2
  <2>2. fine \in SUBSET D /\ rank \in [D -> Nat]
    BY <1>1
  <2> HIDE DEF fine, D, rank
  <2>3. Inherits(D, rank, fine)
    BY <2>1, <2>2 DEF Inherits
  <2> QED BY <2>3, ByRank
<1> QED BY <1>6, <1>8 DEF P, Q, I, J

\* Position and Inexact, before and after a step.
LEMMA PositionHere ==
  /\ Position = PositionOf(node, did, chain, base) /\ Inexact = InexactOf(node, did, chain, base)
  /\ Position' = PositionOf(node', did', chain', base') /\ Inexact' = InexactOf(node', did', chain', base')
<1>1. Position = PositionOf(node, did, chain, base)
  BY DEF Position, PositionOf
<1>2. Position' = PositionOf(node', did', chain', base')
  BY DEF Position, PositionOf
<1>3. Inexact = InexactOf(node, did, chain, base)
  BY <1>1 DEF Inexact, InexactOf
<1>4. Inexact' = InexactOf(node', did', chain', base')
  BY <1>2 DEF Inexact, InexactOf
<1> QED BY <1>1, <1>2, <1>3, <1>4

\* The heap of a tool that reads is one whose positions are defined.
LEMMA LinedHere ==
  /\ HeapInv /\ pc = "reading" =>
       Lined(node, did, chain, counter) /\ base \in Boards
  /\ HeapInv' /\ pc' = "reading" =>
       Lined(node', did', chain', counter') /\ base' \in Boards
  BY DEF HeapInv, Typed, Tree, Told, Rising, Hung, Lined

\* every open line that stays open keeps its board
LEMMA LinesKept ==
  ASSUME HeapInv, HeapInv', pc = "reading", pc' = "reading", BoardOfLine,
         UNCHANGED <<chain, base>>, Extends(node, did, node', did'), NEW ln \in Lines,
         board'[ln[1]] = board[ln[1]]
  PROVE  ~Inexact'[ln[2]] => board'[ln[1]] = Position'[ln[2]]
<1>1. ln[2] \in DOMAIN node
  BY DEF Lines, HeapInv, LineEnds, Level
<1>2. Position'[ln[2]] = Position[ln[2]] /\ Inexact'[ln[2]] = Inexact[ln[2]]
  BY <1>1, LinedHere, PositionHere, PositionKept
<1> QED BY <1>2 DEF BoardOfLine

\* the current board becomes g
Redrawn(g) == board'[tos] = g /\ \A b \in DOMAIN board \ {tos} : board'[b] = board[b]

\* A move linked after the current one, with the board it makes.
LEMMA AppendedBoard ==
  ASSUME HeapInv, HeapInv', pc = "reading", pc' = "reading", BoardOfLine,
         UNCHANGED <<chain, base, stack, tos>>, dr'.variation = dr.variation,
         NEW e, Fresh(e), NEW what \in Kinds, what \notin {"head", "branch"}, NewMove(what),
         node' = linked(e),
         Redrawn(Change(e, what, board[tos]))
  PROVE  BoardOfLine'
<1>1. Typed /\ Tree /\ Told /\ LineEnds /\ LineBoards /\ counter \in Nat
  BY DEF HeapInv, Typed
<1>2. /\ DOMAIN node' = DOMAIN node \cup {uid} /\ node'[uid] = e
      /\ \A x \in DOMAIN node : node'[x] = [node[x] EXCEPT !.next = node'[x].next]
  <2>1. /\ DOMAIN linked(e) = DOMAIN node \cup {uid} /\ linked(e)[uid] = e
        /\ \A x \in DOMAIN node : linked(e)[x] = [node[x] EXCEPT !.next = linked(e)[x].next]
    BY ONLY <1>1, LinkedOld
  <2>2. node' = linked(e)
    OBVIOUS
  <2> QED BY ONLY <2>1, <2>2, Zenon
<1>3. m' = uid /\ m \in DOMAIN node /\ uid # chain /\ chain \in DOMAIN node /\ uid \notin DOMAIN node
  BY <1>1 DEF NewMove, LineEnds, Tree, Rising, Hung, uid
<1>4. did'[uid] = what /\ \A x \in DOMAIN node : did'[x] = did[x]
  <2>1. did \in Seq(Kinds) /\ uid = Len(did) + 1 /\ did' = Append(did, what)
    BY <1>1 DEF Typed, uid, NewMove
  <2>2. \A x \in DOMAIN node : x \in 1 .. Len(did)
    BY <1>1 DEF Typed, Tree, Rising
  <2> QED BY <2>1, <2>2
<1>5. Extends(node, did, node', did')
  <2>1. ASSUME NEW x \in DOMAIN node PROVE node'[x].prev = node[x].prev /\ SamePlay(node'[x], node[x])
    <3>1. node[x] \in Moves /\ node'[x] = [node[x] EXCEPT !.next = node'[x].next]
      BY <1>1, <1>2 DEF Tree
    <3>2. ASSUME NEW n \in Moves, NEW y
          PROVE  LET r == [n EXCEPT !.next = y] IN r.prev = n.prev /\ SamePlay(r, n)
      BY DEF Moves, SamePlay
    <3> DEFINE n == node[x]
               y == node'[x].next
               r == [n EXCEPT !.next = y]
    <3>3. r.prev = n.prev /\ SamePlay(r, n)
      <4>1. n \in Moves
        BY <3>1
      <4> HIDE DEF n, y
      <4> QED BY ONLY <3>2, <4>1
    <3>4. node'[x] = r
      BY <3>1
    <3> HIDE DEF r
    <3> QED BY <3>3, <3>4
  <2> QED BY <1>2, <1>4, <2>1 DEF Extends
<1>6. ~Inexact'[m'] => board'[tos'] = Position'[m']
  <2> DEFINE P == PositionOf(node', did', chain', base')
             I == InexactOf(node', did', chain', base')
  <2>1. Lined(node', did', chain', counter') /\ base' \in Boards
    BY LinedHere
  <2>2. Before(node', did', uid) = m
    BY <1>2, <1>4 DEF Before, Fresh
  <2>3. uid \in DOMAIN node' \ {chain'}
    BY <1>2, <1>3
  <2>4. P[uid] = Change(e, what, P[m])
    <3>1. \A x \in DOMAIN node' \ {chain'} : P[x] = Change(node'[x], did'[x], P[Before(node', did', x)])
      BY <2>1, PositionIs
    <3> QED BY <1>2, <1>4, <2>2, <2>3, <3>1
  <2>5. I[uid] = (Unsure(node', did', chain', base', uid) \/ I[m])
    <3>1. \A x \in DOMAIN node' \ {chain'} :
             I[x] = (Unsure(node', did', chain', base', x) \/ I[Before(node', did', x)])
      BY ONLY <2>1, InexactIs, Zenon
    <3> QED BY <2>2, <2>3, <3>1
  <2>6. P[m] = Position[m] /\ I[m] = Inexact[m]
    BY <1>3, <1>5, <2>1, LinedHere, PositionHere, PositionKept
  <2>7. ~Inexact[m] => board[tos] = Position[m]
    <3>1. <<tos, m>> \in Lines
      BY DEF Lines
    <3> QED BY <3>1 DEF BoardOfLine
  <2>8. board'[tos'] = Change(e, what, board[tos])
    BY DEF Redrawn
  <2>9. Position' = P /\ Inexact' = I
    BY PositionHere
  <2> HIDE DEF P, I
  <2> QED BY <1>3, <2>4, <2>5, <2>6, <2>7, <2>8, <2>9
<1>7. ASSUME NEW l \in Level
      PROVE  ~Inexact'[stack'[l].d] => board'[stack'[l].b] = Position'[stack'[l].d]
  <2> DEFINE ln == <<stack[l].b, stack[l].d>>
  <2>1. ln \in Lines
    BY DEF Lines, Level
  <2>2. stack[l].b # tos /\ stack[l].b \in DOMAIN board
    <3>1. stack[l].b < tos /\ stack[l].b \in Nat /\ tos \in Nat
      BY <1>1, NotationAssumption DEF LineBoards, Typed, Level, Driver
    <3> QED BY <1>1, <3>1 DEF LineBoards
  <2>3. board'[ln[1]] = board[ln[1]]
    BY <2>2 DEF Redrawn
  <2>4. ~Inexact'[ln[2]] => board'[ln[1]] = Position'[ln[2]]
    BY <1>5, <2>1, <2>3, LinesKept
  <2> QED BY <2>4
<1> QED BY <1>6, <1>7 DEF BoardOfLine, Lines, Level

\* The board of a variation is the one before the move it replaces.
LEMMA EnterBoard ==
  ASSUME HeapInv, HeapInv', pc = "reading", pc' = "reading", BoardOfLine, enter_variation, did[m] # "branch",
         ~(dr.variation >= VARIATION_MAX)
  PROVE  BoardOfLine'
<1> DEFINE l == dr.variation
           top == nboards + 1
           prev == node[m].prev
           e == [d |-> m, b |-> tos, d1 |-> dr.iswhiteturn, d2 |-> TRUE]
<1>1. Typed /\ Tree /\ Told /\ LineEnds /\ LineBoards /\ counter \in Nat /\ nboards \in Nat
  BY DEF HeapInv, Typed
<1>2. /\ stack' = [stack EXCEPT ![l] = e]
      /\ counter' = uid /\ did' = Append(did, "branch") /\ tos' = top
      /\ UNCHANGED <<chain, base>>
      /\ IF prev = NULL
         THEN /\ exit("1")
              /\ node' = [x \in DOMAIN Varied \ (under(Varied, chain) \cup {chain}) |-> Varied[x]]
              /\ board' = [b \in DOMAIN board \ ({stack[i].b : i \in 0 .. l - 1} \cup {tos}) |-> board[b]]
              /\ UNCHANGED <<m, dr, out>>
         ELSE /\ m' = uid /\ node' = Varied
              /\ board' = [b \in DOMAIN board \cup {top} |->
                             IF b = top THEN undo_move(board[tos], node[m]) ELSE board[b]]
              /\ dr' = [dr EXCEPT !.variation = l + 1, !.interrupt = TRUE]
              /\ out' = output_variation(dr, out, "in")
              /\ UNCHANGED <<pc, status>>
  <2> HIDE DEF l
  <2> QED BY Zenon DEF enter_variation, Varied, l
<1>3. /\ prev # NULL /\ m' = uid /\ node' = Varied
      /\ board' = [b \in DOMAIN board \cup {top} |->
                     IF b = top THEN undo_move(board[tos], node[m]) ELSE board[b]]
      /\ dr' = [dr EXCEPT !.variation = l + 1, !.interrupt = TRUE]
  BY <1>2 DEF exit
<1>4. /\ DOMAIN node' = DOMAIN node \cup {uid} /\ node'[uid] = add_variation(m) /\ uid \notin DOMAIN node
      /\ \A x \in DOMAIN node : node[x] \in Moves /\ node'[x] = [node[x] EXCEPT !.sub = node'[x].sub]
  <2>1. /\ DOMAIN Varied = DOMAIN node \cup {uid} /\ Varied[uid] = add_variation(m) /\ uid \notin DOMAIN node
        /\ \A x \in DOMAIN node : Varied[x] = [node[x] EXCEPT !.sub = Varied[x].sub]
    BY ONLY <1>1, VariedTree
  <2>2. \A x \in DOMAIN node : node[x] \in Moves
    BY <1>1 DEF Tree
  <2> QED BY ONLY <1>3, <2>1, <2>2, Zenon
<1>5. m \in DOMAIN node \ {chain} /\ uid # chain /\ prev \in DOMAIN node /\ chain' = chain
  BY <1>1, <1>2, <1>3, <1>4 DEF LineEnds, Tree, Hung
<1>6. did'[uid] = "branch" /\ \A x \in DOMAIN node : did'[x] = did[x]
  <2>1. did \in Seq(Kinds) /\ uid = Len(did) + 1 /\ did' = Append(did, "branch")
    BY <1>1, <1>2 DEF Typed, uid
  <2>2. \A x \in DOMAIN node : x \in 1 .. Len(did)
    BY <1>1 DEF Typed, Tree, Rising
  <2> QED BY <2>1, <2>2
<1>7. ASSUME NEW x \in DOMAIN node PROVE node'[x].prev = node[x].prev /\ SamePlay(node'[x], node[x])
  <2>1. ASSUME NEW n \in Moves, NEW y
        PROVE  LET r == [n EXCEPT !.sub = y] IN r.prev = n.prev /\ SamePlay(r, n)
    BY DEF Moves, SamePlay
  <2> DEFINE n == node[x]
             y == node'[x].sub
             r == [n EXCEPT !.sub = y]
  <2>2. r.prev = n.prev /\ SamePlay(r, n)
    <3>1. n \in Moves
      BY <1>4
    <3> HIDE DEF n, y
    <3> QED BY ONLY <2>1, <3>1
  <2>3. node'[x] = r
    BY <1>4
  <2> HIDE DEF r
  <2> QED BY <2>2, <2>3
<1>8. Extends(node, did, node', did')
  BY <1>4, <1>6, <1>7 DEF Extends
<1> DEFINE P == PositionOf(node', did', chain', base')
           I == InexactOf(node', did', chain', base')
           h == Position[prev]
<1>9. Lined(node', did', chain', counter') /\ base' \in Boards /\ Lined(node, did, chain, counter) /\ base \in Boards
  BY LinedHere
<1>10. node'[uid].prev = m /\ node'[m].prev = prev
  BY <1>1, <1>4, <1>5, <1>7, AddVariation
<1>11. Before(node', did', uid) = prev /\ Before(node, did, m) = prev
  BY <1>6, <1>10 DEF Before
<1>12. P[prev] = h /\ I[prev] = Inexact[prev] /\ P \in [DOMAIN node' -> Boards]
  BY <1>2, <1>5, <1>8, <1>9, PositionIs, PositionHere, PositionKept
<1>13. P[uid] = h
  <2>1. \A x \in DOMAIN node' \ {chain'} : P[x] = Change(node'[x], did'[x], P[Before(node', did', x)])
    BY <1>9, PositionIs
  <2>2. P[uid] = Change(node'[uid], "branch", h)
    BY <1>4, <1>5, <1>6, <1>11, <1>12, <2>1
  <2> QED BY <2>2 DEF Change, Placed
<1>14. I[uid] = (Unsure(node', did', chain', base', uid) \/ I[prev])
  <2>1. \A x \in DOMAIN node' \ {chain'} :
           I[x] = (Unsure(node', did', chain', base', x) \/ I[Before(node', did', x)])
    BY ONLY <1>9, InexactIs, Zenon
  <2> QED BY <1>4, <1>5, <1>11, <2>1
<1>15. Position[m] = Change(node[m], did[m], h)
  <2>1. \A x \in DOMAIN node \ {chain} : Position[x] = Change(node[x], did[x], Position[Before(node, did, x)])
    BY <1>9, PositionIs, PositionHere
  <2> QED BY <1>5, <1>11, <2>1
<1>16. Inexact[m] = Inexact[prev]
  <2>1. \A x \in DOMAIN node \ {chain} :
           InexactOf(node, did, chain, base)[x] =
             (Unsure(node, did, chain, base, x) \/ InexactOf(node, did, chain, base)[Before(node, did, x)])
    BY ONLY <1>9, InexactIs, Zenon
  <2>2. Unsure(node, did, chain, base, m) = FALSE
    BY DEF Unsure
  <2>3. InexactOf(node, did, chain, base)[prev] \in BOOLEAN
    <3>1. \A x \in DOMAIN node : InexactOf(node, did, chain, base)[x] \in BOOLEAN
      BY ONLY <1>9, InexactIs, Zenon
    <3> QED BY <1>5, <3>1
  <2> QED BY <1>5, <1>11, <2>1, <2>2, <2>3, PositionHere
<1>17. ~Inexact[m] => board[tos] = Position[m]
  <2>1. <<tos, m>> \in Lines
    BY DEF Lines
  <2> QED BY <2>1 DEF BoardOfLine
<1>18. h \in Boards /\ node[m] \in Moves
  <2>1. \A x \in DOMAIN node : Position[x] \in Boards
    BY <1>9, PositionIs, PositionHere
  <2> QED BY <1>4, <1>5, <2>1
<1>19. ~I[uid] => undo_move(board[tos], node[m]) = h
  <2> SUFFICES ASSUME ~I[uid] PROVE undo_move(board[tos], node[m]) = h
    OBVIOUS
  <2>1. ~Unsure(node', did', chain', base', uid) /\ ~Inexact[m]
    BY <1>12, <1>14, <1>16
  <2>2. did'[m] = "move" /\ Exact(P[prev], node'[m])
    BY <1>6, <1>10, <2>1 DEF Unsure
  <2>3. did[m] = "move" /\ Exact(h, node[m])
    BY <1>5, <1>6, <1>7, <1>12, <2>2, SamePlayed
  <2>4. board[tos] = forward(h, node[m])
    <3> HIDE DEF h
    <3> QED BY <1>15, <1>17, <2>1, <2>3 DEF Change, Placed
  <2>5. forward(h, node[m]) = do_move(h, node[m])
    <3>1. node[m].type # EN_PASSANT
      BY <2>3, ExactType
    <3> QED BY <3>1 DEF forward
  <2> QED BY <1>18, <2>3, <2>4, <2>5, UndoExact
<1>20. /\ top \notin DOMAIN board /\ tos \in DOMAIN board
       /\ \A b \in DOMAIN board : board'[b] = board[b]
       /\ board'[top] = undo_move(board[tos], node[m])
  <2>1. \A b \in DOMAIN board : b <= nboards
    <3>1. \A i \in Level : stack[i].b \in Nat /\ stack[i].b < tos /\ tos \in Nat /\ tos <= nboards
      BY <1>1, NotationAssumption DEF LineBoards, Typed, Level, Driver
    <3>2. tos \in Nat /\ tos <= nboards
      BY <1>1 DEF LineBoards
    <3> QED BY <1>1, <3>1, <3>2 DEF LineBoards
  <2>2. top \notin DOMAIN board
    BY <1>1, <2>1
  <2> QED BY <1>1, <1>3, <2>2 DEF LineBoards
<1>21. ~Inexact'[m'] => board'[tos'] = Position'[m']
  BY <1>2, <1>3, <1>13, <1>19, <1>20, PositionHere
<1>22. ASSUME NEW i \in Level'
       PROVE  ~Inexact'[stack'[i].d] => board'[stack'[i].b] = Position'[stack'[i].d]
  <2> DEFINE ln == <<stack'[i].b, stack'[i].d>>
  <2>1. l \in Nat /\ l + 1 <= VARIATION_MAX /\ i \in 0 .. l /\ stack \in [0 .. VARIATION_MAX - 1 -> [d: Nat, b: Nat, d1: BOOLEAN, d2: BOOLEAN]]
    <3>1. l \in 0 .. VARIATION_MAX /\ VARIATION_MAX \in Nat /\ dr \in Driver
      BY <1>1, NotationAssumption DEF Typed, Driver
    <3>2. dr'.variation = l + 1
      BY <1>3, <3>1 DEF Driver
    <3> QED BY <1>1, <3>1, <3>2 DEF Level, Typed
  <2>2. ln \in Lines /\ ln[1] \in DOMAIN board
    <3>1. CASE i = l
      <4>1. stack'[i] = e
        <5>1. l \in DOMAIN stack /\ stack' = [stack EXCEPT ![l] = e]
          <6>1. DOMAIN stack = 0 .. VARIATION_MAX - 1 /\ VARIATION_MAX \in Nat
            BY <2>1, NotationAssumption
          <6> HIDE DEF l, e
          <6>2. l \in 0 .. VARIATION_MAX - 1
            BY <2>1, <6>1
          <6> QED BY <1>2, <6>1, <6>2
        <5> HIDE DEF e, l
        <5> QED BY ONLY <3>1, <5>1
      <4>2. ln = <<tos, m>>
        BY <4>1
      <4> QED BY <1>20, <4>2 DEF Lines
    <3>2. CASE i # l
      <4>1. i \in Level /\ stack'[i] = stack[i]
        BY <1>2, <2>1, <3>2 DEF Level
      <4>2. ln = <<stack[i].b, stack[i].d>>
        BY <4>1
      <4> QED BY <1>1, <4>1, <4>2 DEF Lines, LineBoards, Level
    <3> QED BY <3>1, <3>2
  <2>3. board'[ln[1]] = board[ln[1]]
    BY <1>20, <2>2
  <2>4. ~Inexact'[ln[2]] => board'[ln[1]] = Position'[ln[2]]
    BY <1>2, <1>8, <2>2, <2>3, LinesKept
  <2> QED BY <2>4
<1> QED BY <1>21, <1>22 DEF BoardOfLine, Lines, Level

\* no open line is added, and those that stay keep their moves and boards
LEMMA LinesLeft ==
  ASSUME HeapInv, HeapInv', pc = "reading", pc' = "reading", BoardOfLine,
         UNCHANGED <<chain, base>>, Extends(node, did, node', did'), Lines' \subseteq Lines,
         \A ln \in Lines' : board'[ln[1]] = board[ln[1]]
  PROVE  BoardOfLine'
<1>1. ASSUME NEW ln \in Lines' PROVE ~Inexact'[ln[2]] => board'[ln[1]] = Position'[ln[2]]
  BY LinesKept
<1> QED BY <1>1 DEF BoardOfLine

\* A heap extends itself.
LEMMA ExtendsItself ==
  ASSUME UNCHANGED <<node, did>>
  PROVE  Extends(node, did, node', did')
BY DEF Extends, SamePlay

\* what leaves the heap alone
LEMMA HeapLeft ==
  ASSUME HeapInv, HeapInv', pc = "reading", pc' = "reading", BoardOfLine,
         UNCHANGED <<heap, did, base>>, dr'.variation = dr.variation
  PROVE  BoardOfLine'
<1>1. UNCHANGED <<chain, base, node, did, board>>
  BY DEF heap
<1>2. Lines' = Lines
  BY DEF heap, Lines
<1> QED BY <1>1, <1>2, ExtendsItself, LinesLeft

\* Leaving a variation takes up a suspended line with its board.
LEMMA ExitBoard ==
  ASSUME HeapInv, HeapInv', pc = "reading", pc' = "reading", BoardOfLine, exit_variation
  PROVE  BoardOfLine'
<1> DEFINE l == dr.variation
           e == stack[l - 1]
<1>1. UNCHANGED <<node, chain, stack, did, base>>
  BY DEF exit_variation, heap
<1>2. CASE l = 0
  <2>1. UNCHANGED <<heap, dr, did, base>>
    BY <1>2 DEF exit_variation
  <2> QED BY <2>1, HeapLeft
<1>3. CASE l # 0
  <2>1. /\ board' = [b \in DOMAIN board \ {tos} |-> board[b]]
        /\ m' = e.d /\ tos' = e.b
        /\ dr' = [dr EXCEPT !.iswhiteturn = e.d1, !.interrupt = e.d2, !.variation = @ - 1]
    BY <1>3 DEF exit_variation
  <2>2. dr \in Driver /\ l \in Nat /\ LineBoards /\ LineBoards'
    BY NotationAssumption DEF HeapInv, Typed, Driver
  <2>3. dr'.variation = l - 1
    BY <2>1, <2>2 DEF Driver
  <2>4. Level' \subseteq Level /\ l - 1 \in Level
    BY <1>3, <2>2, <2>3 DEF Level
  <2>5. Lines' = {<<e.b, e.d>>} \cup {<<stack[i].b, stack[i].d>> : i \in Level'}
    BY <1>1, <2>1 DEF Lines, Level
  <2>6. Lines = {<<tos, m>>} \cup {<<stack[i].b, stack[i].d>> : i \in Level}
    BY DEF Lines, Level
  <2>7. Lines' \subseteq Lines
    BY <2>4, <2>5, <2>6
  <2>8. ASSUME NEW ln \in Lines' PROVE board'[ln[1]] = board[ln[1]]
    <3>1. DOMAIN board' = {e.b} \cup {stack[i].b : i \in Level'}
      BY <1>1, <2>1, <2>2 DEF LineBoards
    <3>2. ln[1] \in DOMAIN board'
      BY <2>5, <3>1
    <3> QED BY <2>1, <3>2
  <2> QED BY <1>1, <2>7, <2>8, ExtendsItself, LinesLeft
<1> QED BY <1>2, <1>3

\* A renumbering is of a move that moves nothing.
LEMMA RenumberBoard ==
  ASSUME HeapInv, HeapInv', pc = "reading", pc' = "reading", BoardOfLine,
         NEW kw, renumber(kw), UNCHANGED did, did[m] \in {"head"} \cup Placed
  PROVE  BoardOfLine'
<1> DEFINE n == [node[m] EXCEPT !.move = IF kw = "blacksmove" THEN 1 ELSE 0, !.whiteturn = (kw = "blacksmove")]
<1>1. Tree /\ LineEnds
  BY DEF HeapInv
<1>2. /\ n.prev = node[m].prev /\ n.piece = node[m].piece
      /\ n.tolig = node[m].tolig /\ n.tocol = node[m].tocol
  BY <1>1, Renumbered
<1>3. node' = [node EXCEPT ![m] = n] /\ UNCHANGED <<m, chain, board, tos, stack, dr, base>>
  BY DEF renumber
<1> HIDE DEF n
<1>4. DOMAIN node' = DOMAIN node /\ m \in DOMAIN node /\ node'[m] = n
      /\ \A x \in DOMAIN node \ {m} : node'[x] = node[x]
  BY <1>1, <1>3 DEF LineEnds
<1>5. did[m] # "move"
  BY DEF Placed
<1>6. Extends(node, did, node', did')
  BY <1>2, <1>4, <1>5 DEF Extends, SamePlay
<1>7. Lines' = Lines
  BY <1>3 DEF Lines
<1> QED BY <1>3, <1>6, <1>7, LinesLeft

\* outside of every variation one line is left, and it starts here
LEMMA RestartBoard ==
  ASSUME HeapInv, HeapInv', pc = "reading", pc' = "reading", dr.variation = 0,
         NEW kw \in {"clearboard", "default", "configwhite", "configblack"}, restart(kw)
  PROVE  BoardOfLine'
<1> DEFINE g == CASE kw = "clearboard" -> clear_board
                  [] kw = "default"    -> init_board
                  [] OTHER             -> board[tos]
<1>1. /\ m' = chain /\ board' = [board EXCEPT ![tos] = g] /\ base' = g
      /\ UNCHANGED <<chain, tos, stack, dr>>
  BY DEF restart
<1> HIDE DEF g
<1>2. tos \in DOMAIN board
  BY DEF HeapInv, LineBoards
<1>3. Lines' = {<<tos, chain>>}
  BY <1>1 DEF Lines
<1>4. Lined(node', did', chain', counter') /\ base' \in Boards
  BY LinedHere
<1>5. Position'[chain'] = base'
  BY <1>4, PositionIs, PositionHere
<1> QED BY <1>1, <1>2, <1>3, <1>5 DEF BoardOfLine

\* No keyword takes a board from its line.
LEMMA KeywordBoard ==
  ASSUME HeapInv, HeapInv', pc = "reading", pc' = "reading", BoardOfLine,
         NEW kw, NEW text, parse_keyword(kw, text),
         kw \in {"clearboard", "default", "configwhite", "configblack"} => dr.variation = 0,
         kw \in {"startplay", "whitesmove", "blacksmove"} => did[m] \in {"head"} \cup Placed
  PROVE  BoardOfLine'
<1>1. UNCHANGED did
  BY DEF parse_keyword
<1>2. CASE kw \in {"startplay", "whitesmove", "blacksmove"}
  <2>1. renumber(kw)
    BY <1>2 DEF parse_keyword
  <2> QED BY <1>1, <1>2, <2>1, RenumberBoard
<1>3. CASE kw \in {"clearboard", "default", "configwhite", "configblack"}
  <2>1. restart(kw)
    BY <1>3 DEF parse_keyword
  <2> QED BY <1>3, <2>1, RestartBoard
<1>4. CASE kw = "showboard"
  <2>1. dr' = output_board(dr, out).dr /\ UNCHANGED <<heap, base>>
    BY <1>4 DEF parse_keyword
  <2>2. dr \in Driver /\ out \in Seq(Items)
    BY DEF HeapInv, Typed
  <2>3. dr' \in SameLevel(dr)
    BY <2>1, <2>2, OutputBoard
  <2>4. dr'.variation = dr.variation
    BY <2>3 DEF SameLevel
  <2> QED BY <1>1, <2>1, <2>4, HeapLeft
<1>5. CASE kw \notin {"startplay", "whitesmove", "blacksmove", "clearboard", "default", "configwhite",
                      "configblack", "showboard"}
  <2>1. UNCHANGED <<heap, dr, base>>
    <3>1. CASE kw \in {"title", "subtitle", "score"}
      BY <3>1 DEF parse_keyword
    <3>2. CASE kw = "special"
      BY <3>2 DEF parse_keyword
    <3>3. CASE kw = "language"
      BY <3>3 DEF parse_keyword
    <3>4. CASE kw \notin {"title", "subtitle", "score", "special", "language"}
      BY <1>5, <3>4 DEF parse_keyword
    <3> QED BY <3>1, <3>2, <3>3, <3>4
  <2> QED BY <1>1, <2>1, HeapLeft
<1> QED BY <1>2, <1>3, <1>4, <1>5

\* a move is linked after the current one, and its board is made
LEMMA ParsedBoard ==
  ASSUME HeapInv, HeapInv', pc = "reading", pc' = "reading", BoardOfLine, NEW d, Fresh(d), d.type # EN_PASSANT,
         UNCHANGED <<chain, nboards, tos, stack, shown, parser>>,
         misread(d) \/ (configuring /\ configure(d)) \/ execute_move(d)
  PROVE  BoardOfLine'
<1>1. Typed /\ LineBoards /\ board[tos] \in Boards /\ tos \in DOMAIN board
  BY DEF HeapInv, LineBoards
<1>2. CASE misread(d)
  <2>1. "nothing" \in Kinds /\ "nothing" \notin {"head", "branch"}
    BY DEF Kinds
  <2>2. NewMove("nothing") /\ node' = linked(d) /\ UNCHANGED <<board, dr, base>>
    BY <1>2 DEF misread
  <2>3. Change(d, "nothing", board[tos]) = board[tos]
    BY DEF Change, Placed
  <2>4. Redrawn(Change(d, "nothing", board[tos]))
    BY <2>2, <2>3 DEF Redrawn
  <2> QED BY <2>1, <2>2, <2>4, AppendedBoard
<1>3. CASE configuring /\ configure(d)
  <2> DEFINE e == [d EXCEPT !.piece = IF @ = VOID THEN PAWN ELSE @]
             p == IF d.piece = VOID THEN PAWN ELSE d.piece
             what == IF configside = WHITE THEN "white" ELSE "black"
             colour == IF what = "white" THEN WHITE ELSE BLACK
             g == setboard(board[tos], d.tolig, d.tocol, p, configside)
  <2>1. what \in Kinds /\ what \notin {"head", "branch"} /\ what \in Placed /\ what # "move"
    BY DEF Kinds, Placed
  <2>2. NewMove(what) /\ node' = linked(e) /\ UNCHANGED <<dr, base>>
    BY <1>3 DEF configure
  <2>3. board' = [board EXCEPT ![tos] = g]
    BY <1>1, <1>3 DEF configure
  <2>4. colour = configside
    BY <1>1, <1>3 DEF Typed
  <2>5. Fresh(e) /\ e.piece = p /\ e.tolig = d.tolig /\ e.tocol = d.tocol
    <3>1. p \in VOID .. PAWN /\ d \in Moves
      BY DEF Fresh, Moves, VOID, PAWN
    <3>2. [d EXCEPT !.piece = p] \in Like(d)
      BY <3>1, Writing DEF Fresh, Like
    <3>3. e = [d EXCEPT !.piece = p]
      BY <3>1 DEF Moves
    <3>4. e.piece = p /\ e.tolig = d.tolig /\ e.tocol = d.tocol
      BY <3>1 DEF Moves
    <3> QED BY <3>2, <3>3, <3>4, FreshLike
  <2>6. Change(e, what, board[tos]) = placing(board[tos], e, what)
    <3> HIDE DEF e, what
    <3> QED BY <2>1 DEF Change
  <2>7. placing(board[tos], e, what) = g
    <3> HIDE DEF e, what, p
    <3> QED BY <2>4, <2>5 DEF placing
  <2> HIDE DEF e, what, g
  <2>8. Redrawn(Change(e, what, board[tos]))
    BY <1>1, <2>3, <2>6, <2>7 DEF Redrawn
  <2> QED BY <2>1, <2>2, <2>5, <2>8, AppendedBoard
<1>4. CASE execute_move(d)
  <2>1. PICK e : /\ Fresh(e) /\ e \in Like(d)
                 /\ forward(board[tos], e) \in Boards
                 /\ dr' \in SameLevel(dr) /\ out' \in Seq(Items)
                 /\ NewMove("move") /\ UNCHANGED base
                 /\ \/ /\ pc' = "ended" /\ status' = "0"
                       /\ free_resources(linked(e), [board EXCEPT ![tos] = forward(board[tos], e)])
                    \/ /\ UNCHANGED <<pc, status>>
                       /\ node' = linked(e)
                       /\ board' = [board EXCEPT ![tos] = forward(board[tos], e)]
    BY <1>1, <1>4, Executed
  <2>2. node' = linked(e) /\ board' = [board EXCEPT ![tos] = forward(board[tos], e)]
    BY <2>1
  <2>3. "move" \in Kinds /\ "move" \notin {"head", "branch"}
    BY DEF Kinds
  <2>4. Change(e, "move", board[tos]) = forward(board[tos], e)
    BY DEF Change, Placed
  <2>5. dr'.variation = dr.variation
    BY <2>1 DEF SameLevel
  <2>6. Redrawn(Change(e, "move", board[tos]))
    BY <1>1, <2>2, <2>4 DEF Redrawn
  <2> QED BY <2>1, <2>2, <2>3, <2>5, <2>6, AppendedBoard
<1> QED BY <1>2, <1>3, <1>4

\* So is the one of every spelling the scanner lets through.
LEMMA ParseMoveBoard ==
  ASSUME HeapInv, HeapInv', pc = "reading", pc' = "reading", BoardOfLine, NEW s, Legible(s), parse_move(s)
  PROVE  BoardOfLine'
<1> DEFINE d == add_trailing_move(m)
           p == parse(in_language, d, s)
<1>1. Fresh(d)
  BY TrailingMove DEF HeapInv
<1>2. p \in Automaton(d)
  BY <1>1, ParseReads DEF Fresh
<1>3. p.d \in Like(d) /\ p.d.type # EN_PASSANT
  BY <1>2 DEF Automaton, Parsed, ReadTypes, MOVE, PRISE, PROMOTION, PROM_ET_PRISE, EN_PASSANT
<1>4. parsed(p)
  BY DEF parse_move
<1> HIDE DEF p, d
<1> DEFINE e == p.d
<1>5. Fresh(e) /\ e.type # EN_PASSANT
  BY <1>1, <1>3, FreshLike
<1>6. /\ UNCHANGED <<chain, nboards, tos, stack, shown, parser>>
      /\ misread(e) \/ (configuring /\ configure(e)) \/ execute_move(e)
  BY <1>4 DEF parsed
<1> HIDE DEF e
<1> QED BY <1>5, <1>6, ParsedBoard

\* So is the one of a castling.
LEMMA ParseRoqueBoard ==
  ASSUME HeapInv, HeapInv', pc = "reading", pc' = "reading", BoardOfLine, NEW t \in Roques, parse_roque(t)
  PROVE  BoardOfLine'
<1> DEFINE d == init_parse(add_trailing_move(m))
           e == [d EXCEPT !.type = t]
<1>1. Fresh(d)
  BY TrailingMove DEF HeapInv
<1>2. t \in VOID .. PROM_ET_PRISE /\ t # EN_PASSANT
  BY DEF Roques, GRANDROQUE, PETITROQUE, VOID, PROM_ET_PRISE, EN_PASSANT
<1>3. execute_move(e) /\ UNCHANGED <<chain, nboards, tos, stack, shown, parser>>
  BY DEF parse_roque
<1> HIDE DEF d
<1>4. e \in Like(d) /\ e.type = t
  <2>1. d \in Moves /\ d \in Like(d)
    BY <1>1 DEF Fresh, Like
  <2>2. e.type = t
    BY <2>1 DEF Moves
  <2> QED BY <1>2, <2>1, <2>2, Writing
<1>5. Fresh(e)
  BY <1>1, <1>4, FreshLike
<1> HIDE DEF e
<1> QED BY <1>2, <1>3, <1>4, <1>5, ParsedBoard

\* No rule of the scanner takes a board from its line.
LEMMA YylexBoard ==
  ASSUME Disciplined, HeapInv, HeapInv', BoardOfLine, yylex, pc' = "reading"
  PROVE  BoardOfLine'
<1>1. pc = "reading" /\ pos < Len(Inputs[input])
  BY DEF yylex
<1>2. Typed /\ m \in DOMAIN node /\ dr \in Driver
  BY <1>1 DEF HeapInv, LineEnds, Typed
<1>3. PICK t : Matched(t)
  BY NextToken
<1>4. /\ Fair(t) /\ rule(t)
      /\ t.k \in {"move", "roque", "number", "comment", "keyword", "in", "out"}
      /\ t.k = "move"  => Legible(t.v)
      /\ t.k = "roque" => t.v \in Roques
  BY <1>3 DEF Matched
<1>5. CASE t.k = "move"
  <2>1. parse_move(t.v)
    BY <1>4, <1>5 DEF rule
  <2> QED BY <1>1, <1>4, <1>5, <2>1, ParseMoveBoard
<1>6. CASE t.k = "roque"
  <2>1. parse_roque(t.v)
    BY <1>4, <1>6 DEF rule
  <2> QED BY <1>1, <1>4, <1>6, <2>1, ParseRoqueBoard
<1>7. CASE t.k = "number"
  <2>1. UNCHANGED <<heap, dr, did, base>>
    BY <1>4, <1>7 DEF rule, parse_number
  <2> QED BY <1>1, <2>1, HeapLeft
<1>8. CASE t.k = "comment"
  <2>1. UNCHANGED <<heap, dr, did, base>>
    BY <1>4, <1>8 DEF rule, parse_comment
  <2> QED BY <1>1, <2>1, HeapLeft
<1>9. CASE t.k = "keyword"
  <2>1. parse_keyword(t.v, t.text)
    BY <1>4, <1>9 DEF rule
  <2>2. /\ t.v \in {"clearboard", "default", "configwhite", "configblack"} => dr.variation = 0
        /\ t.v \in {"startplay", "whitesmove", "blacksmove"} => did[m] \in {"head"} \cup Placed
    BY <1>4, <1>9 DEF Fair
  <2> QED BY <1>1, <2>1, <2>2, KeywordBoard
<1>10. CASE t.k = "in"
  <2>1. enter_variation /\ did[m] # "branch"
    BY <1>4, <1>10 DEF rule, Fair
  <2>2. CASE dr.variation >= VARIATION_MAX
    <3>1. UNCHANGED <<heap, dr, did, base>>
      BY <2>1, <2>2 DEF enter_variation
    <3> QED BY <1>1, <3>1, HeapLeft
  <2>3. CASE ~(dr.variation >= VARIATION_MAX)
    BY <1>1, <2>1, <2>3, EnterBoard
  <2> QED BY <2>2, <2>3
<1>11. CASE t.k = "out"
  <2>1. exit_variation
    BY <1>4, <1>11 DEF rule
  <2> QED BY <1>1, <2>1, ExitBoard
<1> QED BY <1>4, <1>5, <1>6, <1>7, <1>8, <1>9, <1>10, <1>11

\* The play starts on the board it starts from.
LEMMA StartBoard ==
  ASSUME HeapInv, HeapInv', notation_main, pc' = "reading"
  PROVE  BoardOfLine'
<1>1. pc = "start"
  BY DEF notation_main
<1>2. PICK i \in DOMAIN Options :
        LET a == parse_options(Options[i])
            d == init_driver(a.dr, a.driver)
        IN  /\ dr' = d /\ in_language' = a.lang /\ shown' = a.shown
            /\ IF a.exit # "no"
               THEN exit(a.exit) /\ UNCHANGED <<heap, out, did, base>>
               ELSE /\ pc' = "reading" /\ status' = status
                    /\ tos' = 1 /\ nboards' = 1 /\ board' = [b \in {1} |-> init_board]
                    /\ m' = 1 /\ chain' = 1 /\ counter' = 1
                    /\ node' = [x \in {1} |-> init_parse(new_move(1))]
                    /\ out' = output_init(d, out)
                    /\ did' = <<"head">> /\ base' = init_board
                    /\ UNCHANGED stack
  BY DEF notation_main
<1>3. /\ dr' = init_driver(parse_options(Options[i]).dr, parse_options(Options[i]).driver)
      /\ tos' = 1 /\ board' = [b \in {1} |-> init_board] /\ m' = 1 /\ chain' = 1 /\ base' = init_board
  <2>1. parse_options(Options[i]).exit = "no"
    BY <1>2 DEF exit
  <2> QED BY <1>2, <2>1
<1>4. Lines' = {<<1, 1>>}
  <2>1. dr'.variation = 0
    BY <1>3 DEF init_driver
  <2> QED BY <1>3, <2>1 DEF Lines
<1>5. Position'[1] = init_board
  <2>1. Lined(node', did', chain', counter') /\ base' \in Boards
    BY LinedHere
  <2> QED BY <1>3, <2>1, PositionIs, PositionHere
<1> QED BY <1>3, <1>4, <1>5 DEF BoardOfLine

\* Every open line has its own position: its board is what its moves make of
\* the board it starts from, however many lines were opened, left and gone back
\* to in between, unless a line on the way starts where a move was taken back
\* that undo_move does not take back exactly.
THEOREM BoardOfLineHolds ==
  ASSUME Disciplined
  PROVE  Spec => []BoardOfLine
<1>1. Init => BoardOfLine
  BY DEF Init, BoardOfLine
<1>2. HeapInv /\ HeapInv' /\ BoardOfLine /\ [Next]_vars => BoardOfLine'
  <2> SUFFICES ASSUME HeapInv, HeapInv', BoardOfLine, [Next]_vars PROVE BoardOfLine'
    OBVIOUS
  <2>1. CASE pc' # "reading"
    BY <2>1 DEF BoardOfLine
  <2>2. CASE pc' = "reading" /\ notation_main
    BY <2>2, StartBoard
  <2>3. CASE pc' = "reading" /\ yylex
    BY <2>3, YylexBoard
  <2>4. CASE EndOfInput
    <3>1. pc' # "reading"
      BY <2>4 DEF EndOfInput, exit
    <3> QED BY <3>1 DEF BoardOfLine
  <2>5. CASE pc' = "reading" /\ UNCHANGED vars
    <3>1. UNCHANGED <<heap, dr, did, base, pc>>
      BY <2>5 DEF vars
    <3> QED BY <2>5, <3>1, HeapLeft
  <2> QED BY <2>1, <2>2, <2>3, <2>4, <2>5 DEF Next
<1> QED BY <1>1, <1>2, HeapInvHolds, PTL DEF Spec
==============================================================================
