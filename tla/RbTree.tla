------------------------------ MODULE RbTree ------------------------------
(***************************************************************************)
(* The red-black tree of libconhash (util_rbtree.c) as operators on a      *)
(* record.  A node is named by its key, which the callers keep unique;     *)
(* Null is the tree's own sentinel (rbtree->null), a node like the others: *)
(* it is black, and its parent is meaningful only while a delete runs.     *)
(* Freed is a pointer to a node whose memory was given back.               *)
(* The two halves of every fixup are mirror images, so the side is a       *)
(* parameter.  The loops are recursive operators: this module is for TLC.  *)
(***************************************************************************)
EXTENDS Integers, Sequences

CONSTANTS
  Null,   \* _NULL(rbtree)
  Freed   \* the address of a freed node

Sides == {"left", "right"}
Other(s) == IF s = "left" THEN "right" ELSE "left"

Keys(t) == DOMAIN t.parent \ {Null}

EmptyTree ==
  [root   |-> Null,
   size   |-> 0,
   child  |-> [s \in Sides |-> [k \in {Null} |-> Null]],
   parent |-> [k \in {Null} |-> Null],
   red    |-> [k \in {Null} |-> FALSE]]

(* Which child of its parent a node is; the code asks for the left first.  *)
SideOf(t, k) == IF t.child["left"][t.parent[k]] = k THEN "left" ELSE "right"

(* The child of p that was k becomes c; the root has no such child.        *)
Relink(t, k, c) ==
  IF k = t.root THEN [t EXCEPT !.root = c]
  ELSE [t EXCEPT !.child[SideOf(t, k)][t.parent[k]] = c]

(* rbtree_left_rotate for s = "left", rbtree_right_rotate for "right".     *)
Rotate(t, k, s) ==
  LET o == Other(s)
      c == t.child[o][k]
      inner == t.child[s][c]
      up == Relink(t, k, c)
      linked == [up EXCEPT !.child[s][c] = k, !.child[o][k] = inner,
                           !.parent[c] = t.parent[k], !.parent[k] = c]
  IN IF inner = Null THEN linked ELSE [linked EXCEPT !.parent[inner] = k]

RECURSIVE SubtreeMin(_, _)
(* util_rbsubtree_min, of a subtree that is not empty or of the sentinel.  *)
SubtreeMin(t, k) ==
  IF k = Null \/ t.child["left"][k] = Null THEN k ELSE SubtreeMin(t, t.child["left"][k])

RECURSIVE InsertFixup(_, _, _)
(* The parent's colour is read before anything else, and the root's parent *)
(* may be Freed: staleRed is what the freed memory then holds.  Taken for  *)
(* red, its links are followed and the tree is lost.                       *)
InsertFixup(t, k, staleRed) ==
  LET p == t.parent[k]
      parentIsRed == IF p = Freed THEN staleRed ELSE t.red[p]
  IN
  IF ~parentIsRed THEN [t EXCEPT !.red[t.root] = FALSE]
  ELSE IF p = Freed THEN [t EXCEPT !.root = Freed]
  ELSE
    LET g == t.parent[p]
        s == SideOf(t, p)
        u == t.child[Other(s)][g]
    IN IF t.red[u]
       THEN InsertFixup([t EXCEPT !.red = [@ EXCEPT ![u] = FALSE, ![p] = FALSE, ![g] = TRUE]],
                        g, staleRed)
       ELSE LET zigzag == k = t.child[Other(s)][p]
                line == IF zigzag THEN Rotate(t, p, s) ELSE t
                k2 == IF zigzag THEN p ELSE k
                p2 == line.parent[k2]
                g2 == line.parent[p2]
                coloured == [line EXCEPT !.red = [@ EXCEPT ![p2] = FALSE, ![g2] = TRUE]]
            IN InsertFixup(Rotate(coloured, g2, Other(s)), k2, staleRed)

RECURSIVE LeafFor(_, _, _)
(* The last node on the way down from k to where key belongs.              *)
LeafFor(t, k, key) ==
  LET next == t.child[IF key < k THEN "left" ELSE "right"][k]
  IN IF next = Null THEN k ELSE LeafFor(t, next, key)

Grow(f, k, v) == [x \in DOMAIN f \union {k} |-> IF x = k THEN v ELSE f[x]]

Insert(t, key, staleRed) ==
  LET p == IF t.root = Null THEN Null ELSE LeafFor(t, t.root, key)
      fresh == [root   |-> IF t.root = Null THEN key ELSE t.root,
                size   |-> t.size,
                child  |-> [s \in Sides |-> Grow(t.child[s], key, Null)],
                parent |-> Grow(t.parent, key, p),
                red    |-> Grow(t.red, key, TRUE)]
      linked == IF p = Null THEN fresh
                ELSE [fresh EXCEPT !.child[IF key < p THEN "left" ELSE "right"][p] = key]
      fixed == InsertFixup(linked, key, staleRed)
  IN [fixed EXCEPT !.size = @ + 1]

RECURSIVE DeleteFixup(_, _)
(* k is one black short; it may be the sentinel, whose parent is set then. *)
DeleteFixup(t, k) ==
  IF k = t.root \/ t.red[k] THEN [t EXCEPT !.red[k] = FALSE]
  ELSE
    LET p == t.parent[k]
        s == SideOf(t, k)
        o == Other(s)
        w0 == t.child[o][p]
        t1 == IF t.red[w0]
              THEN Rotate([t EXCEPT !.red = [@ EXCEPT ![w0] = FALSE, ![p] = TRUE]], p, s)
              ELSE t
        w1 == t1.child[o][p]
        near == t1.child[s][w1]
        far == t1.child[o][w1]
    IN IF ~t1.red[near] /\ ~t1.red[far]
       THEN DeleteFixup([t1 EXCEPT !.red[w1] = TRUE], p)
       ELSE LET t2 == IF t1.red[far] THEN t1
                      ELSE Rotate([t1 EXCEPT !.red = [@ EXCEPT ![near] = FALSE, ![w1] = TRUE]],
                                  w1, o)
                w2 == t2.child[o][p]
                t3 == [t2 EXCEPT !.red = [@ EXCEPT ![w2] = t2.red[p], ![p] = FALSE,
                                                   ![t2.child[o][w2]] = FALSE]]
                t4 == Rotate(t3, p, s)
            IN [t4 EXCEPT !.red[t4.root] = FALSE]

(* Mutant: temp keeps its own colour in the place of k.                    *)
TakePlaceOwnColour(t, k, temp) ==
  LET moved == [Relink(t, k, temp) EXCEPT
                  !.parent[temp] = t.parent[k],
                  !.child = [s \in Sides |-> [@[s] EXCEPT ![temp] = t.child[s][k]]]]
  IN [moved EXCEPT !.parent = [c \in DOMAIN @ |->
        IF c # Null /\ \E s \in Sides : t.child[s][k] = c THEN temp ELSE @[c]]]

(* temp takes the place, the links and the colour of k.                    *)
TakePlace(t, k, temp) ==
  LET moved == [Relink(t, k, temp) EXCEPT
                  !.parent[temp] = t.parent[k],
                  !.child = [s \in Sides |-> [@[s] EXCEPT ![temp] = t.child[s][k]]],
                  !.red[temp] = t.red[k]]
  IN [moved EXCEPT !.parent = [c \in DOMAIN @ |->
        IF c # Null /\ \E s \in Sides : t.child[s][k] = c THEN temp ELSE @[c]]]

(* The memory of k goes: a pointer to it that is left dangles.  Nobody     *)
(* reads the sentinel's parent before the next delete sets it.             *)
FreeNode(t, k) ==
  LET rest == DOMAIN t.parent \ {k}
  IN [t EXCEPT !.child = [s \in Sides |-> [c \in rest |-> t.child[s][c]]],
               !.parent = [c \in rest |-> CASE c = Null -> Null
                                            [] t.parent[c] = k -> Freed
                                            [] OTHER -> t.parent[c]],
               !.red = [c \in rest |-> t.red[c]]]

(* util_rbtree_delete and the free that follows it.  When k is the root    *)
(* and has at most one child, that child becomes the root and keeps its    *)
(* pointer to k.                                                           *)
Delete(t, k) ==
  LET left == t.child["left"][k]
      right == t.child["right"][k]
      temp == IF left = Null \/ right = Null THEN k ELSE SubtreeMin(t, right)
      subst == CASE left = Null -> right
                 [] right = Null -> left
                 [] OTHER -> t.child["right"][temp]
      q == t.parent[temp]
      cut == [t EXCEPT !.parent[subst] = IF q = k THEN temp ELSE q,
                       !.child[SideOf(t, temp)][q] = subst]
      placed == IF temp = k THEN cut ELSE TakePlace(cut, k, temp)
      fixed == IF temp = t.root THEN [t EXCEPT !.root = subst, !.red[subst] = FALSE]
               ELSE IF t.red[temp] THEN placed ELSE DeleteFixup(placed, subst)
  IN FreeNode([fixed EXCEPT !.size = @ - 1], k)

RECURSIVE SearchFrom(_, _, _)
SearchFrom(t, k, key) ==
  IF k = Null \/ k = key THEN k
  ELSE SearchFrom(t, t.child[IF key < k THEN "left" ELSE "right"][k], key)

Search(t, key) == SearchFrom(t, t.root, key)

RECURSIVE LookupFrom(_, _, _, _)
LookupFrom(t, k, key, best) ==
  IF k = Null THEN best
  ELSE IF key <= k THEN LookupFrom(t, t.child["left"][k], key, k)
  ELSE LookupFrom(t, t.child["right"][k], key, best)

Lookup(t, key) ==
  LET best == LookupFrom(t, t.root, key, Null)
  IN IF best = Null THEN SubtreeMin(t, t.root) ELSE best

RECURSIVE MidTravel(_, _)
MidTravel(t, k) ==
  IF k = Null THEN << >>
  ELSE MidTravel(t, t.child["left"][k]) \o <<k>> \o MidTravel(t, t.child["right"][k])

RECURSIVE CheckSubtree(_, _, _, _)
(* check is <<rbh, fini>>; a node whose left child is missing has its      *)
(* right subtree skipped, as the code's goto does.                         *)
CheckSubtree(t, k, check, above) ==
  LET height == above + (IF t.red[k] THEN 0 ELSE 1)
      Bad(s, c) ==
        LET n == t.child[s][k]
        IN IF t.red[k] /\ t.red[n] THEN 4
           ELSE IF (s = "left" /\ k < n) \/ (s = "right" /\ k > n) THEN 5
           ELSE c[2]
      Leaf(c) ==
        LET rbh == IF c[1] = 0 THEN height ELSE c[1]
        IN <<rbh, IF rbh # height THEN 3 ELSE c[2]>>
      Side(s, c) ==
        IF Bad(s, c) # c[2] THEN <<c[1], Bad(s, c)>>
        ELSE CheckSubtree(t, t.child[s][k], c, height)
  IN IF check[2] # 0 THEN check
     ELSE IF t.child["left"][k] = Null THEN Leaf(check)
     ELSE LET c == Side("left", check)
          IN IF t.child["right"][k] = Null THEN Leaf(c) ELSE Side("right", c)

Check(t) ==
  IF t.root = Null THEN 0
  ELSE IF t.red[t.root] THEN 1
  ELSE CheckSubtree(t, t.root, <<0, 0>>, 0)[2]
=============================================================================
