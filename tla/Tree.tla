-------------------------------- MODULE Tree --------------------------------
(***************************************************************************)
(* The red-black tree under every table of the stack (stack/pico_tree.c)   *)
(* and the loop pico_tree_foreach_safe whose body may delete the element   *)
(* it is at (include/pico_tree.h).                                         *)
(*                                                                         *)
(* Nodes keep their key for life (switchNodes moves pointers, not keys),   *)
(* so a node is named by its key.  Leaf is the one node LEAF that ends     *)
(* every path of every tree: a fix that colours it would show in all of    *)
(* them.  side is a child pointer, so that the two mirrored halves of each *)
(* fix are one definition.                                                 *)
(***************************************************************************)
EXTENDS Integers, Sequences, FiniteSets

CONSTANT TreeSize       \* keys are 1 .. TreeSize

ASSUME TreeAssumption == TreeSize \in Nat \ {0}

VARIABLES
    tree,    \* root, the nodes, and the keys that were inserted and not deleted
    walk     \* a pico_tree_foreach_safe loop: its two pointers and what it has seen

treeVars == <<tree, walk>>

Leaf == 0
TreeKeys == 1 .. TreeSize
Sides == {"leftChild", "rightChild"}
Other(side) == IF side = "leftChild" THEN "rightChild" ELSE "leftChild"

NewNode(color) == [parent |-> Leaf, color |-> color, leftChild |-> Leaf, rightChild |-> Leaf]
FreedNode == NewNode("FREED")

NoWalk == [on |-> FALSE, idx |-> Leaf, idx2 |-> Leaf, seen |-> <<>>, all |-> {}]

TreeInit ==
    /\ tree = [root |-> Leaf, keys |-> {},
               node |-> [x \in {Leaf} \union TreeKeys |->
                            IF x = Leaf THEN NewNode("BLACK") ELSE FreedNode]]
    /\ walk = NoWalk

-----------------------------------------------------------------------------
(* Pointers.                                                               *)
Parent(t, x) == t.node[x].parent
Granpa(t, x) == Parent(t, Parent(t, x))
Child(t, x, side) == t.node[x][side]
Color(t, x) == t.node[x].color
AmIChild(t, x, side) == x = Child(t, Parent(t, x), side)
Paint(t, x, c) == [t EXCEPT !.node[x].color = c]
SetParent(t, x, p) == IF x = Leaf THEN t ELSE [t EXCEPT !.node[x].parent = p]

(* The child next to the side given, and so on down.                       *)
RECURSIVE Outermost(_, _, _)
Outermost(t, x, side) ==
    IF Child(t, x, side) = Leaf THEN x ELSE Outermost(t, Child(t, x, side), side)
pico_tree_firstNode(t, x) == Outermost(t, x, "leftChild")

(* Up until a left child is left behind.                                   *)
RECURSIVE Up(_, _)
Up(t, x) ==
    IF Parent(t, x) # Leaf /\ AmIChild(t, x, "rightChild") THEN Up(t, Parent(t, x)) ELSE Parent(t, x)
pico_tree_next(t, x) ==
    IF Child(t, x, "rightChild") # Leaf THEN pico_tree_firstNode(t, Child(t, x, "rightChild"))
                                        ELSE Up(t, x)

(* y takes the place of x under the parent of x, or as the root.           *)
Replace(t, x, y) ==
    IF Parent(t, x) = Leaf THEN [t EXCEPT !.root = y]
    ELSE [t EXCEPT !.node[Parent(t, x)][IF AmIChild(t, x, "leftChild") THEN "leftChild"
                                                                      ELSE "rightChild"] = y]
switchNodes(t, x, y) == SetParent(Replace(t, x, y), y, Parent(t, x))

(* rotateToLeft for side "leftChild", rotateToRight for the other one.     *)
Rotate(t, x, side) ==
    LET y == Child(t, x, Other(side))
        inner == Child(t, y, side)
        moved == SetParent([t EXCEPT !.node[x][Other(side)] = inner], inner, x)
        up == SetParent(Replace(moved, x, y), y, Parent(t, x))
    IN  IF y = Leaf THEN t ELSE SetParent([up EXCEPT !.node[y][side] = x], x, y)

-----------------------------------------------------------------------------
(* Insertion.                                                              *)

RECURSIVE pico_tree_findNode(_, _, _)
pico_tree_findNode(t, x, key) ==
    IF x \in {Leaf, key} THEN x
    ELSE pico_tree_findNode(t, Child(t, x, IF x < key THEN "rightChild" ELSE "leftChild"), key)

RECURSIVE Place(_, _, _)
Place(t, x, key) ==
    LET side == IF key < x THEN "leftChild" ELSE "rightChild"
    IN  IF Child(t, x, side) = Leaf THEN <<x, side>> ELSE Place(t, Child(t, x, side), key)

pico_tree_insert_node(t, key) ==
    LET t1 == [t EXCEPT !.node[key] = NewNode("RED")]
        at == Place(t1, t1.root, key)
    IN  IF t.root = Leaf THEN [t1 EXCEPT !.root = key]
        ELSE [SetParent(t1, key, at[1]) EXCEPT !.node[at[1]][at[2]] = key]

(* side is the one the parent of x is on.                                  *)
RECURSIVE fix_insert_collisions(_, _)
fix_insert_collisions(t, x) ==
    LET p == Parent(t, x)
        g == Granpa(t, x)
        side == IF AmIChild(t, p, "rightChild") THEN "rightChild" ELSE "leftChild"
        uncle == Child(t, g, Other(side))
        inside == AmIChild(t, x, Other(side))
        low == IF inside THEN p ELSE x
        t1 == IF inside THEN Rotate(t, p, side) ELSE t
        t2 == Paint(Paint(t1, Parent(t1, low), "BLACK"), Granpa(t1, low), "RED")
    IN  IF Color(t, p) # "RED" \/ g = Leaf THEN Paint(t, t.root, "BLACK")
        ELSE IF Color(t, uncle) = "RED"
        THEN fix_insert_collisions(
                 Paint(Paint(Paint(t, p, "BLACK"), uncle, "BLACK"), g, "RED"), g)
        ELSE fix_insert_collisions(Rotate(t2, Granpa(t2, low), Other(side)), low)

pico_tree_insert(key) ==
    /\ ~walk.on
    /\ pico_tree_findNode(tree, tree.root, key) = Leaf
    /\ LET t == pico_tree_insert_node(tree, key)
       IN  tree' = [fix_insert_collisions(t, key) EXCEPT !.keys = @ \union {key}]
    /\ walk' = NoWalk

-----------------------------------------------------------------------------
(* Deletion.  Each of these returns the tree, the node that took the place *)
(* of what was removed, and the colour that was removed.                   *)

(* Mutant of pico_tree_delete_node: the right subtree of what was removed  *)
(* keeps its old parent.                                                   *)
ForgetsParent(t, d) ==
    LET min == pico_tree_firstNode(t, Child(t, d, "rightChild"))
        temp == Child(t, min, "rightChild")
        t1 == switchNodes(t, min, temp)
        t2 == [t1 EXCEPT !.node[min].rightChild = Child(t1, d, "rightChild")]
        t3 == IF Parent(t, min) = d /\ temp # Leaf THEN t ELSE t2
        t4 == switchNodes(t3, d, min)
        t5 == [t4 EXCEPT !.node[min].leftChild = Child(t4, d, "leftChild"),
                         !.node[min].color = Color(t4, d)]
    IN  [tree |-> SetParent(t5, Child(t5, min, "leftChild"), min), temp |-> temp,
         color |-> Color(t, min)]

pico_tree_delete_node(t, d) ==
    LET min == pico_tree_firstNode(t, Child(t, d, "rightChild"))
        temp == Child(t, min, "rightChild")
        t1 == switchNodes(t, min, temp)
        t2 == [t1 EXCEPT !.node[min].rightChild = Child(t1, d, "rightChild")]
        t3 == IF Parent(t, min) = d /\ temp # Leaf THEN t
              ELSE SetParent(t2, Child(t2, min, "rightChild"), min)
        t4 == switchNodes(t3, d, min)
        t5 == [t4 EXCEPT !.node[min].leftChild = Child(t4, d, "leftChild"),
                         !.node[min].color = Color(t4, d)]
    IN  [tree |-> SetParent(t5, Child(t5, min, "leftChild"), min), temp |-> temp,
         color |-> Color(t, min)]

pico_tree_delete_check_switch(t, d) ==
    LET only(side) == [tree |-> switchNodes(t, d, Child(t, d, side)),
                       temp |-> Child(t, d, side), color |-> Color(t, d)]
    IN  IF Child(t, d, "leftChild") = Leaf THEN only("rightChild")
        ELSE IF Child(t, d, "rightChild") = Leaf THEN only("leftChild")
        ELSE pico_tree_delete_node(t, d)

(* side is the one x is on; its sibling is temp.                           *)
RECURSIVE fix_delete_collisions(_, _)
fix_delete_collisions(t, x) ==
    LET p == Parent(t, x)
        side == IF AmIChild(t, x, "leftChild") THEN "leftChild" ELSE "rightChild"
        far == Other(side)
        red == Color(t, Child(t, p, far)) = "RED"
        t1 == IF red THEN Rotate(Paint(Paint(t, Child(t, p, far), "BLACK"), p, "RED"), p, side)
                     ELSE t
        s == Child(t1, p, far)
        t2 == Rotate(Paint(Paint(t1, Child(t1, s, side), "BLACK"), s, "RED"), s, far)
        t3 == IF Color(t1, Child(t1, s, far)) = "BLACK" THEN t2 ELSE t1
        sib == IF Color(t1, Child(t1, s, far)) = "BLACK" THEN Child(t2, Parent(t2, s), far) ELSE s
        t4 == Paint(Paint(Paint(t3, sib, Color(t3, p)), p, "BLACK"), Child(t3, sib, far), "BLACK")
    IN  IF x = t.root \/ Color(t, x) # "BLACK" \/ x = Leaf THEN Paint(t, x, "BLACK")
        ELSE IF \A c \in Sides : Color(t1, Child(t1, s, c)) = "BLACK"
        THEN fix_delete_collisions(Paint(t1, s, "RED"), p)
        ELSE LET t5 == Rotate(t4, p, side) IN fix_delete_collisions(t5, t5.root)

Deleted(t, d) ==
    LET r == pico_tree_delete_check_switch(t, d)
        fixed == IF r.color = "BLACK" THEN fix_delete_collisions(r.tree, r.temp) ELSE r.tree
    IN  [fixed EXCEPT !.node[d] = FreedNode, !.keys = @ \ {d}]

pico_tree_delete(key) ==
    /\ ~walk.on
    /\ pico_tree_findNode(tree, tree.root, key) = key
    /\ tree' = Deleted(tree, key)
    /\ walk' = NoWalk

(* The fixes of another tree have painted LEAF.                            *)
OtherTree ==
    /\ \E c \in {"RED", "BLACK"} : tree' = Paint(tree, Leaf, c)
    /\ UNCHANGED walk

-----------------------------------------------------------------------------
(* The loop pico_tree_foreach_safe.  The next node is read before the body *)
(* runs; the body leaves the tree alone or deletes the element it is at.   *)

WalkAt(x, seen, all) ==
    [on |-> x # Leaf, idx |-> x, idx2 |-> IF x = Leaf THEN Leaf ELSE pico_tree_next(tree', x),
     seen |-> seen, all |-> all]

pico_tree_foreach_safe ==
    /\ ~walk.on /\ tree.root # Leaf
    /\ UNCHANGED tree
    /\ walk' = WalkAt(pico_tree_firstNode(tree, tree.root), <<>>, tree.keys)

WalkBody ==
    /\ walk.on
    /\ tree' \in {tree} \union (IF walk.idx \in tree.keys THEN {Deleted(tree, walk.idx)} ELSE {})
    /\ walk' = WalkAt(walk.idx2, Append(walk.seen, walk.idx), walk.all)

TreeNext ==
    \/ \E key \in TreeKeys : pico_tree_insert(key) \/ pico_tree_delete(key)
    \/ OtherTree \/ pico_tree_foreach_safe \/ WalkBody
TreeSpec == TreeInit /\ [][TreeNext]_treeVars

-----------------------------------------------------------------------------
(* Type invariant of the tree and of the loop.                             *)
TreeTypeOK ==
    /\ tree.root \in {Leaf} \union TreeKeys /\ tree.keys \subseteq TreeKeys
    /\ \A x \in DOMAIN tree.node : tree.node[x].color \in {"RED", "BLACK", "FREED"}

RECURSIVE InOrder(_, _)
InOrder(t, x) ==
    IF x = Leaf THEN <<>>
    ELSE InOrder(t, Child(t, x, "leftChild")) \o <<x>> \o InOrder(t, Child(t, x, "rightChild"))

Sorted(s) == \A i, j \in DOMAIN s : i < j => s[i] < s[j]
ElementsOf(s) == {s[i] : i \in DOMAIN s}

(* Besides the types: the tree is a search tree of exactly the keys that   *)
(* were inserted and not deleted, its parent pointers are those of its     *)
(* children, none of its pointers is to a node that was freed, and a       *)
(* pico_tree_foreach_safe loop sees every key once and in order although   *)
(* its body deletes the elements it is at. All this whatever colour LEAF   *)
(* was left in.                                                            *)
TreeSound ==
    /\ TreeTypeOK
    /\ LET s == InOrder(tree, tree.root) IN Sorted(s) /\ ElementsOf(s) = tree.keys
    /\ \A x \in tree.keys : \A c \in Sides :
          Child(tree, x, c) # Leaf => Parent(tree, Child(tree, x, c)) = x
    /\ ~walk.on => Sorted(walk.seen) /\ ElementsOf(walk.seen) = walk.all

(* The numbers of black nodes on the paths from x down.                    *)
RECURSIVE BlackPaths(_, _)
BlackPaths(t, x) ==
    IF x = Leaf THEN {0}
    ELSE {n + (IF Color(t, x) = "BLACK" THEN 1 ELSE 0) :
             n \in UNION {BlackPaths(t, Child(t, x, c)) : c \in Sides}}

(* "the constant black path property" that fix_delete_collisions is there  *)
(* to restore, and on which the height of the tree rests.                  *)
ConstantBlackPath == Cardinality(BlackPaths(tree, tree.root)) = 1
=============================================================================
