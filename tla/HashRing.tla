----------------------------- MODULE HashRing -----------------------------
(***************************************************************************)
(* What consistent hashing promises: places on a ring of hash values       *)
(* belong to nodes; an object belongs to the node at the first place at or *)
(* after its own hash, and to the lowest place's node when there is none.  *)
(* One node comes or goes at a time, so only its objects change hands.     *)
(***************************************************************************)
EXTENDS Integers

CONSTANTS
  Nodes,      \* the nodes that can be on the ring
  Positions   \* the hash values

VARIABLE ring   \* who owns a place: a function from some positions to nodes

Places(r) == DOMAIN r

(* p is the place an object with hash h is looked up at.                   *)
IsSuccessor(r, h, p) ==
  /\ p \in Places(r)
  /\ \/ p >= h /\ \A q \in Places(r) : q >= h => p <= q
     \/ /\ \A q \in Places(r) : q < h
        /\ \A q \in Places(r) : p <= q

Init == ring = [p \in {} |-> p]

(* A node takes places nobody owned.                                       *)
Join(n) ==
  /\ Places(ring) \subseteq Places(ring') /\ Places(ring') \subseteq Positions
  /\ ring' = [p \in Places(ring') |-> IF p \in Places(ring) THEN ring[p] ELSE n]

(* A node gives back all its places.                                       *)
Leave(n) ==
  ring' = [p \in {q \in Places(ring) : ring[q] # n} |-> ring[p]]

(* Places fall vacant while the whole ring is taken down.                  *)
TakeDown ==
  \E p \in Places(ring) : ring' = [q \in Places(ring) \ {p} |-> ring[q]]

Next == TakeDown \/ \E n \in Nodes : Join(n) \/ Leave(n)

Spec == Init /\ [][Next]_ring
-----------------------------------------------------------------------------
(* Who an object with hash h belongs to: a node, or nobody.                *)
HeldBy(r, h) == {r[p] : p \in {q \in Places(r) : IsSuccessor(r, h, q)}}

TypeOK ==
  /\ ring \in [Places(ring) -> Nodes]
  /\ Places(ring) \subseteq Positions

(* Every object belongs to exactly one node unless the ring is empty.      *)
EveryObjectIsHeld ==
  \A h \in Int : IF Places(ring) = {} THEN HeldBy(ring, h) = {}
                 ELSE \E n \in Nodes : HeldBy(ring, h) = {n}

(* Whatever a step does, there is one node that every object that changes  *)
(* hands goes to or comes from.                                            *)
OneNodesObjectsMove ==
  [][\E n \in Nodes : \A h \in Int :
       HeldBy(ring', h) # HeldBy(ring, h) => n \in HeldBy(ring, h) \union HeldBy(ring', h)]_ring
=============================================================================
