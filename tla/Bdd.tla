---------------------------------- MODULE Bdd ----------------------------------
(* The node table of the BDD library (hw1/src/bdd.c): a table of nodes that    *)
(* never shrinks, and an open-addressed hash map over it that makes every node *)
(* unique.  Indices below BDD_NUM_LEAVES are the leaves: the value of a leaf   *)
(* is its index.  A table t is                                                 *)
(*   t.nodes  bdd_nodes, an entry of zeros for every index not in use          *)
(*   t.map    bdd_hash_map, by slot: the index of a node, or NULL              *)
(*   t.next   the next free index (the static BDD_NODE_INDEX of bdd_lookup)    *)
(*   t.exit   TRUE when the program has called exit                            *)
EXTENDS Integers, FiniteSets

CONSTANTS BDD_NUM_LEAVES,    \* 256, the pixel values; also the 1<<8 of hash
          BDD_NODES_MAX,     \* 2^20, the entries of the node table
          BDD_LEVELS_MAX,    \* 32
          BDD_HASH_SIZE      \* 2097169, the slots of the hash map

(* The header chooses the sizes so that the hash map is never full; hash yields *)
(* 20 bits (16 * 256 * 256), fewer than the map has slots.                      *)
ASSUME BddAssumption ==
    /\ BDD_NUM_LEAVES \in Nat \ {0}
    /\ BDD_NODES_MAX \in Nat
    /\ BDD_LEVELS_MAX \in Nat
    /\ BDD_HASH_SIZE \in Nat
    /\ BDD_NUM_LEAVES <= BDD_NODES_MAX
    /\ BDD_NODES_MAX <= BDD_HASH_SIZE
    /\ 16 * (BDD_NUM_LEAVES * BDD_NUM_LEAVES) <= BDD_HASH_SIZE

Levels == 0..BDD_LEVELS_MAX
Slots == 0..BDD_HASH_SIZE - 1
Indices == 0..BDD_NODES_MAX - 1
Node == [level : Levels, left : Indices, right : Indices]

Table == [nodes : [Indices -> Node], map : [Slots -> Indices],
          next : Nat, exit : BOOLEAN]

(* A zero entry of bdd_nodes.  No slot points to index 0, which is a leaf. *)
Zero == [level |-> 0, left |-> 0, right |-> 0]
NULL_INDEX == 0   \* NULL, in a slot

(* The table of a program that has just started. *)
EmptyTable == [nodes |-> [i \in Indices |-> Zero], map |-> [s \in Slots |-> NULL_INDEX],
               next |-> BDD_NUM_LEAVES, exit |-> FALSE]

hash(node) ==
    (node.left % BDD_NUM_LEAVES) * BDD_NUM_LEAVES
        + (node.right % BDD_NUM_LEAVES)
        + (node.level % 16) * (BDD_NUM_LEAVES * BDD_NUM_LEAVES)

(* The slot the search reaches after k steps from slot h. *)
slot(h, k) == IF h + k < BDD_HASH_SIZE THEN h + k ELSE h + k - BDD_HASH_SIZE

null_node(t, i) == t.nodes[i] = Zero

(* The search stops at an empty slot or at the node it looks for. *)
Stops(t, node, k) ==
    LET s == slot(hash(node), k)
    IN  t.map[s] # NULL_INDEX => t.nodes[t.map[s]] = node

FirstStop(t, node, k) ==
    /\ Stops(t, node, k)
    /\ \A j \in 0..k - 1 : ~Stops(t, node, j)

(* A new node at the next index, in slot s of the map. *)
Inserted(t, node, s) ==
    [nodes |-> [t.nodes EXCEPT ![t.next] = node],
     map |-> [t.map EXCEPT ![s] = t.next],
     next |-> t.next + 1,
     exit |-> t.exit]

(* Mutant: the search takes a slot in use for another node's: the node that is *)
(* there already is built a second time.                                       *)
ForgetfulFound(t, node) ==
    IF t.next < BDD_NODES_MAX
    THEN [t |-> Inserted(t, node, CHOOSE s \in Slots : t.map[s] = NULL_INDEX),
          n |-> t.next]
    ELSE [t |-> [t EXCEPT !.exit = TRUE], n |-> -1]

(* What the search finds for a node with distinct children. *)
Found(t, node) ==
    IF \E k \in Slots : FirstStop(t, node, k)
    THEN LET k == CHOOSE k \in Slots : FirstStop(t, node, k)
             s == slot(hash(node), k)
         IN  IF t.map[s] # NULL_INDEX THEN [t |-> t, n |-> t.map[s]]
             ELSE IF t.next < BDD_NODES_MAX /\ null_node(t, t.next)
                  THEN [t |-> Inserted(t, node, s), n |-> t.next]
                  ELSE [t |-> [t EXCEPT !.exit = TRUE], n |-> -1]
    ELSE [t |-> t, n |-> -1]

(* Mutant: a node with equal children is built all the same. *)
UnreducedLookup(t, level, left, right) ==
    IF t.exit THEN [t |-> t, n |-> -1]
    ELSE Found(t, [level |-> level, left |-> left, right |-> right])

(* bdd_lookup: the table afterwards and the index returned.  Nothing happens   *)
(* any more once the program has exited.                                       *)
bdd_lookup(t, level, left, right) ==
    IF t.exit \/ level \notin Levels
              \/ left \notin Indices \/ right \notin Indices
    THEN [t |-> t, n |-> -1]
    ELSE IF left = right THEN [t |-> t, n |-> left]
         ELSE Found(t, [level |-> level, left |-> left, right |-> right])

--------------------------------------------------------------------------------
(* What a table built by lookups satisfies, in named parts.                    *)

InUse(t) == BDD_NUM_LEAVES..t.next - 1

NodesSound(t) ==
    /\ t.next \in BDD_NUM_LEAVES..BDD_NODES_MAX
    /\ t.nodes \in [Indices -> Node]
    /\ \A i \in InUse(t) :
          /\ t.nodes[i].left < i /\ t.nodes[i].right < i
          /\ t.nodes[i].left # t.nodes[i].right
    /\ \A i \in Indices \ InUse(t) : null_node(t, i)

NodesUnique(t) ==
    \A i, j \in InUse(t) : t.nodes[i] = t.nodes[j] => i = j

MapSound(t) ==
    /\ t.map \in [Slots -> InUse(t) \cup {NULL_INDEX}]
    /\ \A s, u \in Slots : t.map[s] # NULL_INDEX /\ t.map[s] = t.map[u] => s = u

(* Node i is found from its hash without an empty slot on the way. *)
Reached(t, i) ==
    \E k \in Slots :
        /\ t.map[slot(hash(t.nodes[i]), k)] = i
        /\ \A j \in 0..k - 1 : t.map[slot(hash(t.nodes[i]), j)] # NULL_INDEX

TableSound(t) ==
    /\ NodesSound(t)
    /\ NodesUnique(t)
    /\ MapSound(t)
    /\ \A i \in InUse(t) : Reached(t, i)
================================================================================
