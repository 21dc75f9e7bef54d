------------------------------- MODULE Rbtree -------------------------------
(* Red-black trees (convert/dwarves/rbtree.c, rbtree.h).  A tree is its root *)
(* and, for every node in it, the parent, the colour and the two children;   *)
(* NIL is the null pointer.  The left and right cases of the code are one    *)
(* case here, with d for the side and Opp(d) for the other.                  *)
EXTENDS Integers, Sequences

NIL == 0
Opp(d) == IF d = "left" THEN "right" ELSE "left"

RB_ROOT == [root |-> NIL, parent |-> <<>>, color |-> <<>>, child |-> <<>>]

InTree(t) == DOMAIN t.parent
IsRed(t, n) == n # NIL /\ t.color[n] = "red"
Side(t, n) == IF t.child[t.parent[n]]["left"] = n THEN "left" ELSE "right"

Painted(t, n, c) == [t EXCEPT !.color[n] = c]
WithParent(t, n, p) == IF n = NIL THEN t ELSE [t EXCEPT !.parent[n] = p]

(* The pointer to old, in its parent p or in the root, now points to new.    *)
Repointed(t, p, old, new) ==
  IF p = NIL THEN [t EXCEPT !.root = new]
  ELSE [t EXCEPT !.child[p][IF t.child[p]["left"] = old THEN "left" ELSE "right"] = new]

(* Without n: its memory is given back.                                      *)
Without(f, n) == [m \in DOMAIN f \ {n} |-> f[m]]
With(f, n, v) == [m \in DOMAIN f \cup {n} |-> IF m = n THEN v ELSE f[m]]

----------------------------------------------------------------------------
(* A red leaf below p on side d.                                             *)
rb_link_node(t, n, p, d) ==
  LET new == [t EXCEPT !.parent = With(@, n, p), !.color = With(@, n, "red"),
                       !.child = With(@, n, [left |-> NIL, right |-> NIL])]
  IN IF p = NIL THEN [new EXCEPT !.root = n] ELSE [new EXCEPT !.child[p][d] = n]

(* Mutant: the subtree that changes sides keeps its parent.                  *)
OrphanedBy(t, inner, n) == t
Adopted(t, inner, n) == WithParent(t, inner, n)

(* The child on the side opposite to d takes the place of n, n goes to d.    *)
rb_rotate(t, n, d) ==
  LET up == t.child[n][Opp(d)]
      inner == t.child[up][d]
      p == t.parent[n]
      moved == Repointed(Adopted([t EXCEPT !.child[n][Opp(d)] = inner, !.child[up][d] = n], inner, n), p, n, up)
  IN WithParent(WithParent(moved, up, p), n, up)

RECURSIVE rb_insert_color(_, _)
rb_insert_color(t, n) ==
  LET p == t.parent[n] IN
  IF ~IsRed(t, p) THEN Painted(t, t.root, "black")
  ELSE LET g == t.parent[p]
           d == Side(t, p)
           uncle == t.child[g][Opp(d)]
           inside == t.child[p][Opp(d)] = n
           top == IF inside THEN n ELSE p
           low == IF inside THEN p ELSE n
           straight == IF inside THEN rb_rotate(t, p, d) ELSE t
       IN IF IsRed(t, uncle)
          THEN rb_insert_color(Painted(Painted(Painted(t, uncle, "black"), p, "black"), g, "red"), g)
          ELSE rb_insert_color(rb_rotate(Painted(Painted(straight, top, "black"), g, "red"), g, Opp(d)), low)

----------------------------------------------------------------------------
(* n, maybe NIL, is below p and its paths lack one black node.               *)
RECURSIVE rb_erase_color(_, _, _)
rb_erase_color(t, n, p) ==
  IF IsRed(t, n) \/ n = t.root THEN IF n = NIL THEN t ELSE Painted(t, n, "black")
  ELSE LET d == IF t.child[p]["left"] = n THEN "left" ELSE "right"
           first == t.child[p][Opp(d)]
           u == IF IsRed(t, first) THEN rb_rotate(Painted(Painted(t, first, "black"), p, "red"), p, d) ELSE t
           other == u.child[p][Opp(d)]
           near == u.child[other][d]
           far == u.child[other][Opp(d)]
           v == IF IsRed(u, far) THEN u
                ELSE rb_rotate(Painted(Painted(u, near, "black"), other, "red"), other, Opp(d))
           last == v.child[p][Opp(d)]
           w == Painted(Painted(Painted(v, last, v.color[p]), p, "black"), v.child[last][Opp(d)], "black")
           done == rb_rotate(w, p, d)
       IN IF ~IsRed(u, near) /\ ~IsRed(u, far)
          THEN rb_erase_color(Painted(u, other, "red"), p, u.parent[p])
          ELSE Painted(done, done.root, "black")

RECURSIVE Outermost(_, _, _)
Outermost(t, n, d) == IF t.child[n][d] = NIL THEN n ELSE Outermost(t, t.child[n][d], d)

(* A node with two children is replaced by its successor.                    *)
rb_erase(t, old) ==
  LET kids == t.child[old]
      one == kids["left"] = NIL \/ kids["right"] = NIL
      n == IF one THEN old ELSE Outermost(t, kids["right"], "left")
      child == IF t.child[n]["left"] = NIL THEN t.child[n]["right"] ELSE t.child[n]["left"]
      p == t.parent[n]
      out == Repointed(WithParent(t, child, p), p, n, child)
      put == [out EXCEPT !.child[n] = out.child[old], !.parent[n] = t.parent[old], !.color[n] = t.color[old]]
      around == WithParent(WithParent(put, put.child[n]["left"], n), put.child[n]["right"], n)
      u == IF one THEN out ELSE Repointed(around, t.parent[old], old, n)
      v == [u EXCEPT !.parent = Without(@, old), !.color = Without(@, old), !.child = Without(@, old)]
  IN IF t.color[n] = "red" THEN v ELSE rb_erase_color(v, child, IF ~one /\ p = old THEN n ELSE p)

----------------------------------------------------------------------------
(* The first node on side d: rb_first, rb_last.                              *)
rb_end(t, d) == IF t.root = NIL THEN NIL ELSE Outermost(t, t.root, d)

RECURSIVE Ascended(_, _, _)
Ascended(t, n, d) ==
  LET p == t.parent[n] IN IF p = NIL \/ n # t.child[p][d] THEN p ELSE Ascended(t, p, d)

(* The neighbour on side d: rb_next, rb_prev.                                *)
rb_neighbour(t, n, d) ==
  IF t.child[n][d] # NIL THEN Outermost(t, t.child[n][d], Opp(d)) ELSE Ascended(t, n, d)

RECURSIVE WalkFrom(_, _, _)
WalkFrom(t, n, d) == IF n = NIL THEN <<>> ELSE <<n>> \o WalkFrom(t, rb_neighbour(t, n, d), d)

----------------------------------------------------------------------------
(* Black nodes on every path down from n, -1 if the paths differ.            *)
RECURSIVE Blacks(_, _)
Blacks(t, n) ==
  IF n = NIL THEN 0
  ELSE LET l == Blacks(t, t.child[n]["left"])
           r == Blacks(t, t.child[n]["right"])
       IN IF l = -1 \/ l # r THEN -1 ELSE IF IsRed(t, n) THEN l ELSE l + 1

(* Links agree in both directions, no red node has a red child, and all      *)
(* paths have the same number of black nodes.                                *)
IsRedBlack(t) ==
  /\ ~IsRed(t, t.root) /\ (t.root # NIL => t.parent[t.root] = NIL)
  /\ \A n \in InTree(t), d \in {"left", "right"} :
       LET c == t.child[n][d] IN c # NIL => t.parent[c] = n /\ ~(IsRed(t, n) /\ IsRed(t, c))
  /\ Blacks(t, t.root) # -1
=============================================================================
