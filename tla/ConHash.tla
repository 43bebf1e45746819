------------------------------ MODULE ConHash ------------------------------
(***************************************************************************)
(* libconhash: a consistent-hash ring kept in a red-black tree of virtual  *)
(* nodes, and its Lua binding.  Lua's set() allocates a node and adds it;  *)
(* the C interface also deletes nodes and adds them again, which the       *)
(* binding does not export.  Hash values are the positions of the ring.    *)
(***************************************************************************)
EXTENDS RbTree, FiniteSets

CONSTANTS
  Nodes,      \* the node_s: <<name, k>> is what the k-th set of a name allocates
  HashOf,     \* the hash of each replica: HashOf[n][i]
  Objects,    \* the hashes of the objects that are looked up
  MaxFailed,  \* bound: allocations of a virtual node that fail
  None        \* conhash_lookup's NULL

Names == {node[1] : node \in Nodes}

VARIABLES
  state,    \* of the handle: "none", "open", "fini" (destory runs), "gone"
  tree,     \* conhash->vnode_tree
  owner,    \* rbnode->data->node
  ivnodes,  \* conhash->ivnodes
  flag,     \* node->flag: "free" (not allocated), "in" or "init" (not in)
  failed,   \* history: the replicas whose allocation failed
  deleted   \* history: conhash_del_node has been used

ringVars == <<state, tree, owner, ivnodes, flag, failed, deleted>>

(* __conhash_node2string and cb_hashfunc: every node_s of a name hashes    *)
(* alike.                                                                  *)
Replica(node, i) == HashOf[node[1]][i]
Replicas(node) == DOMAIN HashOf[node[1]]

ConHashInit ==
  /\ state = "none"
  /\ tree = EmptyTree
  /\ owner = [k \in {} |-> k]
  /\ ivnodes = 0
  /\ flag = [node \in Nodes |-> "free"]
  /\ failed = {}
  /\ deleted = FALSE

(* init, conhash_init and util_rbtree_init.                                *)
Open ==
  /\ state = "none"
  /\ state' = "open"
  /\ UNCHANGED <<tree, owner, ivnodes, flag, failed, deleted>>

Usable == state = "open" /\ tree.root # Freed

RECURSIVE AddReplicasOverwrites(_, _, _, _, _)
(* Mutant: a hash that is taken changes its owner.                         *)
AddReplicasOverwrites(r, node, i, lost, staleRed) ==
  IF i \notin Replicas(node) \/ r.tree.root = Freed THEN r
  ELSE
    LET h == Replica(node, i)
        next == IF Search(r.tree, h) # Null THEN [r EXCEPT !.owner[h] = node]
                ELSE [tree |-> Insert(r.tree, h, staleRed),
                      owner |-> Grow(r.owner, h, node),
                      ivnodes |-> r.ivnodes + 1]
    IN AddReplicasOverwrites(next, node, i + 1, lost, staleRed)

RECURSIVE AddReplicas(_, _, _, _, _)
(* __conhash_add_replicas from replica i on: a hash that is taken is       *)
(* skipped, and so is one whose virtual node cannot be allocated.          *)
AddReplicas(r, node, i, lost, staleRed) ==
  IF i \notin Replicas(node) \/ r.tree.root = Freed THEN r
  ELSE
    LET h == Replica(node, i)
        taken == Search(r.tree, h) # Null
        next == IF taken \/ i \in lost THEN r
                ELSE [tree |-> Insert(r.tree, h, staleRed),
                      owner |-> Grow(r.owner, h, node),
                      ivnodes |-> r.ivnodes + 1]
    IN AddReplicas(next, node, i + 1, lost, staleRed)

Ring == [tree |-> tree, owner |-> owner, ivnodes |-> ivnodes]

(* conhash_add_node.                                                       *)
AddNode(node) ==
  \E lost \in SUBSET Replicas(node), staleRed \in BOOLEAN :
    LET r == AddReplicas(Ring, node, 1, lost, staleRed)
        newly == {<<node, i>> : i \in lost}
    IN /\ Cardinality(failed \union newly) <= MaxFailed
       /\ flag' = [flag EXCEPT ![node] = "in"]
       /\ tree' = r.tree
       /\ owner' = r.owner
       /\ ivnodes' = r.ivnodes
       /\ failed' = failed \union newly
       /\ UNCHANGED <<state, deleted>>

(* set: a node of its own for every call, whatever the ring holds.         *)
Set(name) ==
  /\ Usable
  /\ \E node \in Nodes :
       /\ node[1] = name
       /\ \A other \in Nodes : other[1] = name => (flag[other] = "free" <=> other[2] >= node[2])
       /\ AddNode(node)

(* A node that was deleted is added again: NODE_FLAG_INIT, not _IN.        *)
AddAgain(node) ==
  /\ Usable
  /\ flag[node] = "init"
  /\ AddNode(node)

RECURSIVE DelReplicasOfAll(_, _, _)
(* Mutant: a hash is given back whoever owns it.                           *)
DelReplicasOfAll(r, node, i) ==
  IF i \notin Replicas(node) THEN r
  ELSE
    LET h == Replica(node, i)
        next == IF Search(r.tree, h) = Null THEN r
                ELSE [tree |-> Delete(r.tree, h),
                      owner |-> [k \in DOMAIN r.owner \ {h} |-> r.owner[k]],
                      ivnodes |-> r.ivnodes - 1]
    IN DelReplicasOfAll(next, node, i + 1)

RECURSIVE DelReplicasStops(_, _, _)
(* Mutant: the loop ends at the first hash that is another node's.         *)
DelReplicasStops(r, node, i) ==
  IF i \notin Replicas(node) THEN r
  ELSE
    LET h == Replica(node, i)
        mine == Search(r.tree, h) # Null /\ r.owner[h] = node
    IN IF ~mine THEN r
       ELSE DelReplicasStops([tree |-> Delete(r.tree, h),
                              owner |-> [k \in DOMAIN r.owner \ {h} |-> r.owner[k]],
                              ivnodes |-> r.ivnodes - 1], node, i + 1)

RECURSIVE DelReplicas(_, _, _)
(* __conhash_del_replicas: only the virtual nodes that are this node's.    *)
DelReplicas(r, node, i) ==
  IF i \notin Replicas(node) THEN r
  ELSE
    LET h == Replica(node, i)
        mine == Search(r.tree, h) # Null /\ r.owner[h] = node
        next == IF ~mine THEN r
                ELSE [tree |-> Delete(r.tree, h),
                      owner |-> [k \in DOMAIN r.owner \ {h} |-> r.owner[k]],
                      ivnodes |-> r.ivnodes - 1]
    IN DelReplicas(next, node, i + 1)

DelNode(node) ==
  /\ Usable
  /\ flag[node] = "in"
  /\ LET r == DelReplicas(Ring, node, 1)
     IN /\ tree' = r.tree
        /\ owner' = r.owner
        /\ ivnodes' = r.ivnodes
  /\ flag' = [flag EXCEPT ![node] = "init"]
  /\ deleted' = TRUE
  /\ UNCHANGED <<state, failed>>

(* conhash_lookup of an object with hash h: the node_s, or NULL.           *)
LookupNode(h) ==
  IF ivnodes = 0 THEN None ELSE owner[Lookup(tree, h)]

(* destory: conhash_fini deletes the root until the tree is empty, then    *)
(* the nodes and the ring are freed.                                       *)
Destory ==
  /\ Usable
  /\ state' = "fini"
  /\ UNCHANGED <<tree, owner, ivnodes, flag, failed, deleted>>

FiniDelete ==
  /\ state = "fini"
  /\ tree.root # Null
  /\ tree' = Delete(tree, tree.root)
  /\ owner' = [k \in DOMAIN owner \ {tree.root} |-> owner[k]]
  /\ UNCHANGED <<state, ivnodes, flag, failed, deleted>>

FiniFree ==
  /\ state = "fini"
  /\ tree.root = Null
  /\ state' = "gone"
  /\ flag' = [node \in Nodes |-> "free"]
  /\ UNCHANGED <<tree, owner, ivnodes, failed, deleted>>

ConHashNext ==
  \/ Open
  \/ \E name \in Names : Set(name)
  \/ \E node \in Nodes : AddAgain(node) \/ DelNode(node)
  \/ Destory
  \/ FiniDelete
  \/ FiniFree

ConHashSpec == ConHashInit /\ [][ConHashNext]_ringVars
-----------------------------------------------------------------------------
(* Lost: freed memory was read for a node and its links followed.          *)
Lost == tree.root = Freed

RECURSIVE BlackHeights(_, _)
(* The numbers of black nodes on the ways from k down to the sentinel.     *)
BlackHeights(t, k) ==
  IF k = Null THEN {0}
  ELSE {h + (IF t.red[k] THEN 0 ELSE 1) :
          h \in BlackHeights(t, t.child["left"][k]) \union BlackHeights(t, t.child["right"][k])}

Ascending(s) == \A i, j \in DOMAIN s : i < j => s[i] < s[j]

(* After any sequence of sets, deletes and deletions of the root the tree  *)
(* is a red-black search tree: its links agree both ways, no red node has  *)
(* a red child, every way down has the same number of black nodes, a       *)
(* traversal meets every key in ascending order, the library's own check   *)
(* (util_rbtree_check) accepts it, and size and ivnodes count its nodes.   *)
(* Only a ring that conhash_del_node was used on can be lost.              *)
TreeIsRedBlack ==
  IF Lost THEN deleted
  ELSE
    /\ \A k \in Keys(tree), s \in Sides :
         LET c == tree.child[s][k]
         IN c # Null => tree.parent[c] = k /\ ~(tree.red[k] /\ tree.red[c])
    /\ ~tree.red[tree.root] /\ ~tree.red[Null]
    /\ tree.parent[tree.root] \in {Null} \union IF deleted \/ state # "open" THEN {Freed} ELSE {}
    /\ Cardinality(BlackHeights(tree, tree.root)) = 1
    /\ LET visited == MidTravel(tree, tree.root)
       IN Ascending(visited) /\ {visited[i] : i \in DOMAIN visited} = Keys(tree)
    /\ Check(tree) = 0
    /\ tree.size = Cardinality(Keys(tree))
    /\ state = "open" => ivnodes = tree.size
    /\ DOMAIN owner = Keys(tree)

Positions == Objects \union UNION {{HashOf[n][i] : i \in DOMAIN HashOf[n]} : n \in Names}

R == INSTANCE HashRing WITH ring <- owner

(* conhash_lookup finds the node of the first place at or after the        *)
(* object's hash, of the lowest place when there is none, and NULL exactly *)
(* when the ring is empty.                                                 *)
LookupIsSuccessor ==
  state = "open" /\ ~Lost =>
    \A h \in Objects :
      IF owner = << >> THEN LookupNode(h) = None
      ELSE R!IsSuccessor(owner, h, Lookup(tree, h))

(* The ring holds what was set: each place belongs to a node that is in    *)
(* and hashes there, and a replica of a node that is in is missing only    *)
(* when its allocation failed or another node's replica has its hash.      *)
RingIsOwned ==
  state = "open" /\ ~Lost =>
    /\ \A h \in DOMAIN owner :
         flag[owner[h]] = "in" /\ \E i \in Replicas(owner[h]) : Replica(owner[h], i) = h
    /\ \A node \in Nodes : flag[node] = "in" =>
         \A i \in Replicas(node) :
           \/ Replica(node, i) \in DOMAIN owner /\ owner[Replica(node, i)] = node
           \/ <<node, i>> \in failed
           \/ \E other \in Nodes \ {node}, j \in 1 .. Cardinality(Positions) :
                j \in Replicas(other) /\ Replica(other, j) = Replica(node, i)

(* A lookup in the ring is answered with the node it was set up for.       *)
LookupIsRight == LookupIsSuccessor /\ RingIsOwned

(* Consistent hashing: whatever a step does to the ring, there is one node *)
(* that every object that changes hands goes to or comes from.             *)
OnlyOneNodesObjectsMove ==
  [][state = "open" /\ state' = "open" /\ ~Lost /\ ~Lost' =>
       \E node \in Nodes : \A h \in Objects :
         LookupNode(h)' # LookupNode(h) => node \in {LookupNode(h), LookupNode(h)'}]_ringVars

(* The tree and its owners implement the ring of HashRing.                 *)
ImplementsRing == R!Spec
=============================================================================
