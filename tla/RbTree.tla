------------------------------- MODULE RbTree -------------------------------
(***************************************************************************)
(* The red-black tree of common/rbtree.c, which holds the timers of a CPU. *)
(* The two mirrored halves of each fix-up loop are one action with a side. *)
(* A round of a loop is a step, so that the tree can be looked at between  *)
(* the rounds; callers hold the tree for a whole call.                     *)
(***************************************************************************)
EXTENDS Naturals, FiniteSets, FiniteSetsExt

\* The nodes are numbered in the order of cmp, which is total; 0 is NULL.
CONSTANT NumNodes
ASSUME NumNodesAssumption == NumNodes \in Nat

Nodes == 1 .. NumNodes
NULL == 0
Sides == {"l", "r"}
Other(s) == CHOOSE o \in Sides : o # s

\* rb is the memory of the nodes and of the root.  rbjob is the call in progress
\* and its local variables node and parent; members are the nodes inserted.
VARIABLES rb, rbjob, members
rbvars == <<rb, rbjob, members>>

NoJob == [op |-> "none", node |-> NULL, parent |-> NULL]
Job(op, node, parent) == [op |-> op, node |-> node, parent |-> parent]

RbInit ==
  /\ rb = [root |-> NULL, kid |-> [s \in Sides |-> [n \in Nodes |-> NULL]],
           par |-> [n \in Nodes |-> NULL], red |-> [n \in Nodes |-> FALSE]]
  /\ rbjob = NoJob /\ members = {}

-----------------------------------------------------------------------------
(* The helpers, on a tree t.                                                *)

SetKid(t, n, s, c) == [t EXCEPT !.kid[s][n] = c]
SetParent(t, n, p) == IF n = NULL THEN t ELSE [t EXCEPT !.par[n] = p]
SetParentColor(t, n, p, red) == IF n = NULL THEN t ELSE [t EXCEPT !.par[n] = p, !.red[n] = red]
IsRed(t, n) == n # NULL /\ t.red[n]

ChangeChild(t, old, new, parent) ==
  IF parent = NULL THEN [t EXCEPT !.root = new]
  ELSE SetKid(t, parent, IF t.kid["l"][parent] = old THEN "l" ELSE "r", new)

\* new takes the place and the colour of old, which becomes its child.
RotateSetParents(t, old, new, red) ==
  LET p == t.par[old]
  IN  ChangeChild(SetParentColor(SetParentColor(t, new, p, t.red[old]), old, new, red), old, new, p)

-----------------------------------------------------------------------------
(* Insertion.                                                               *)

\* The way down of _rb_insert: the node below which, and the side on which, the
\* new node goes.
Descend(t, node) ==
  LET go[p \in Nodes] ==
        LET s == IF node < p THEN "l" ELSE "r"
        IN  IF t.kid[s][p] = NULL THEN <<p, s>> ELSE go[t.kid[s][p]]
  IN  go[t.root]

\* _rb_insert up to the call of __rb_insert_fix.  The way down returns -1 for a
\* node equal to one of the tree, which the callers ASSERT not to happen.
RbInsert(node) ==
  /\ rbjob = NoJob /\ node \notin members
  /\ members' = members \cup {node}
  /\ LET fresh == SetParentColor(rb, node, NULL, TRUE)
         at == Descend(rb, node)
     IN  IF rb.root = NULL
         THEN rb' = fresh /\ rbjob' = Job("insert", node, NULL)
         ELSE /\ rb' = SetParent(SetKid(fresh, at[1], at[2], node), node, at[1])
              /\ rbjob' = Job("insert", node, at[1])

\* Mutant of InnerUp: the parent keeps its old parent and colour.
InnerUpHalf(t, node, parent, s) ==
  LET tmp == t.kid[s][node]
  IN  SetKid(SetParentColor(SetKid(t, parent, Other(s), tmp), tmp, parent, FALSE), node, s, parent)

\* Case 2: the node is the inner child, and is rotated above its parent.
InnerUp(t, node, parent, s) ==
  LET o == Other(s)
      tmp == t.kid[s][node]
  IN  SetParentColor(SetKid(SetParentColor(SetKid(t, parent, o, tmp), tmp, parent, FALSE),
                            node, s, parent), parent, node, TRUE)

\* Case 3: the parent, a child of gparent on side s, is rotated above it.
OuterUp(t, parent, gparent, s) ==
  LET o == Other(s)
      tmp == t.kid[o][parent]
  IN  RotateSetParents(SetKid(SetParentColor(SetKid(t, gparent, s, tmp), tmp, gparent, FALSE),
                              parent, o, gparent), gparent, parent, TRUE)

\* One round of __rb_insert_fix.
InsertFix ==
  LET node == rbjob.node
      parent == rbjob.parent
      gparent == rb.par[parent]
      s == IF parent # rb.kid["r"][gparent] THEN "l" ELSE "r"
      uncle == rb.kid[Other(s)][gparent]
      inner == node = rb.kid[Other(s)][parent]
  IN  /\ rbjob.op = "insert" /\ UNCHANGED members
      /\ \/ /\ parent = NULL
            /\ rb' = [SetParentColor(rb, node, NULL, FALSE) EXCEPT !.root = node] /\ rbjob' = NoJob
         \/ /\ parent # NULL /\ ~IsRed(rb, parent)
            /\ rbjob' = NoJob /\ UNCHANGED rb
         \/ /\ IsRed(rb, parent) /\ IsRed(rb, uncle)
            /\ rb' = SetParentColor(SetParentColor(SetParentColor(rb, uncle, gparent, FALSE),
                        parent, gparent, FALSE), gparent, rb.par[gparent], TRUE)
            /\ rbjob' = Job("insert", gparent, rb.par[gparent])
         \/ /\ IsRed(rb, parent) /\ ~IsRed(rb, uncle)
            /\ rb' = IF inner THEN OuterUp(InnerUp(rb, node, parent, s), node, gparent, s)
                     ELSE OuterUp(rb, parent, gparent, s)
            /\ rbjob' = NoJob
-----------------------------------------------------------------------------
(* Deletion.                                                                *)

\* The leftmost node below p, which has a left child, and that node's parent: the
\* loop that looks for the successor.
Leftmost(t, p) ==
  LET walk[q \in Nodes] ==
        LET n == t.kid["l"][q] IN IF t.kid["l"][n] = NULL THEN <<n, q>> ELSE walk[n]
  IN  walk[p]

\* __rb_erase of a node with at most one child: the tree and rebalance.
EraseSimple(t, node) ==
  LET child == IF t.kid["l"][node] = NULL THEN t.kid["r"][node] ELSE t.kid["l"][node]
      parent == t.par[node]
  IN  <<SetParentColor(ChangeChild(t, node, child, parent), child, parent, t.red[node]),
        IF child = NULL /\ ~t.red[node] THEN parent ELSE NULL>>

\* __rb_erase of a node with two children: its successor takes its place, its
\* parent and its colour.
EraseInner(t, node) ==
  LET child == t.kid["r"][node]
      near == t.kid["l"][child] = NULL
      succ == IF near THEN child ELSE Leftmost(t, child)[1]
      parent == IF near THEN child ELSE Leftmost(t, child)[2]
      child2 == t.kid["r"][succ]
      lifted == IF near THEN t
                ELSE SetParent(SetKid(SetKid(t, parent, "l", child2), succ, "r", child), child, succ)
      left == t.kid["l"][node]
      placed == ChangeChild(SetParent(SetKid(lifted, succ, "l", left), left, succ),
                            node, succ, t.par[node])
      coloured == SetParentColor(placed, succ, t.par[node], t.red[node])
  IN  <<SetParentColor(coloured, child2, parent, FALSE),
        IF child2 = NULL /\ ~t.red[succ] THEN parent ELSE NULL>>

\* The fields of a node outside of the tree are not read before _rb_insert sets
\* them: the model clears them.
Cleared(t, node) == SetParentColor(SetKid(SetKid(t, node, "l", NULL), node, "r", NULL), node, NULL, FALSE)

\* _rb_erase up to the call of __rb_erase_fix.
RbErase(node) ==
  LET both == rb.kid["l"][node] # NULL /\ rb.kid["r"][node] # NULL
      done == IF both THEN EraseInner(rb, node) ELSE EraseSimple(rb, node)
  IN  /\ rbjob = NoJob /\ node \in members
      /\ members' = members \ {node}
      /\ rb' = Cleared(done[1], node)
      /\ rbjob' = IF done[2] = NULL THEN NoJob ELSE Job("erase", NULL, done[2])

\* Case 1: a red sibling is rotated above the parent.
SiblingUp(t, parent, sibling, s) ==
  LET tmp1 == t.kid[s][sibling]
  IN  RotateSetParents(SetKid(SetParentColor(SetKid(t, parent, Other(s), tmp1), tmp1, parent, FALSE),
                              sibling, s, parent), parent, sibling, TRUE)

\* Case 3: the inner child of the sibling, which is red, is rotated above it.
\* The links to parents follow in case 4.
NephewUp(t, parent, sibling, s) ==
  LET o == Other(s)
      tmp2 == t.kid[s][sibling]
      tmp1 == t.kid[o][tmp2]
  IN  SetKid(SetKid(SetParentColor(SetKid(t, sibling, s, tmp1), tmp1, sibling, FALSE),
                    tmp2, o, sibling), parent, o, tmp2)

\* Case 4: the sibling is rotated above the parent; outer is its outer child.
FinalUp(t, parent, sibling, outer, s) ==
  LET tmp2 == t.kid[s][sibling]
      hung == SetKid(SetParent(SetKid(t, parent, Other(s), tmp2), tmp2, parent), sibling, s, parent)
  IN  RotateSetParents(SetParentColor(hung, outer, sibling, FALSE), parent, sibling, FALSE)

\* One round of __rb_erase_fix: the subtree of node, on side s of the parent, is
\* one black node short.
EraseFix ==
  LET node == rbjob.node
      parent == rbjob.parent
      s == IF node # rb.kid["r"][parent] THEN "l" ELSE "r"
      o == Other(s)
      first == rb.kid[o][parent]
      t == IF rb.red[first] THEN SiblingUp(rb, parent, first, s) ELSE rb
      sibling == t.kid[o][parent]
      outer == t.kid[o][sibling]
      inner == t.kid[s][sibling]
      pale == SetParentColor(t, sibling, parent, TRUE)
  IN  /\ rbjob.op = "erase" /\ UNCHANGED members
      /\ \/ /\ ~IsRed(t, outer) /\ ~IsRed(t, inner) /\ t.red[parent]
            /\ rb' = [pale EXCEPT !.red[parent] = FALSE] /\ rbjob' = NoJob
         \/ /\ ~IsRed(t, outer) /\ ~IsRed(t, inner) /\ ~t.red[parent]
            /\ rb' = pale
            /\ rbjob' = IF t.par[parent] = NULL THEN NoJob ELSE Job("erase", parent, t.par[parent])
         \/ /\ ~IsRed(t, outer) /\ IsRed(t, inner)
            /\ rb' = FinalUp(NephewUp(t, parent, sibling, s), parent, inner, sibling, s)
            /\ rbjob' = NoJob
         \/ /\ IsRed(t, outer)
            /\ rb' = FinalUp(t, parent, sibling, outer, s) /\ rbjob' = NoJob

RbNext == InsertFix \/ EraseFix \/ \E n \in Nodes : RbInsert(n) \/ RbErase(n)
RbSpec == RbInit /\ [][RbNext]_rbvars

-----------------------------------------------------------------------------
\* _rb_first, and _rb_lookup of a node.
RbFirst(t) ==
  LET go[p \in Nodes] == IF t.kid["l"][p] = NULL THEN p ELSE go[t.kid["l"][p]]
  IN  IF t.root = NULL THEN NULL ELSE go[t.root]
RbLookup(t, n) ==
  LET go[p \in Nodes \cup {NULL}] ==
        IF p \in {NULL, n} THEN p ELSE go[t.kid[IF n < p THEN "l" ELSE "r"][p]]
  IN  go[t.root]

\* The nodes below and including n.
Below(t, n) ==
  LET sub[p \in Nodes \cup {NULL}] ==
        IF p = NULL THEN {} ELSE {p} \cup sub[t.kid["l"][p]] \cup sub[t.kid["r"][p]]
  IN  sub[n]

\* Black nodes on the way from n down the left.
BlackHeight(t, n) ==
  LET bh[p \in Nodes \cup {NULL}] ==
        IF p = NULL THEN 1 ELSE bh[t.kid["l"][p]] + IF t.red[p] THEN 0 ELSE 1
  IN  bh[n]

\* Between two calls, after any history of insertions and deletions, the tree holds
\* exactly the inserted nodes, in order, with links up that match the links down;
\* it is balanced (no red node has a red child and all ways down meet the same
\* number of black nodes), and _rb_first and _rb_lookup find what they should:
\* the timer that is due first is never missed (cpu.c:41).
RbTreeSound ==
  rbjob = NoJob =>
    /\ Below(rb, rb.root) = members
    /\ rb.root # NULL => rb.par[rb.root] = NULL /\ ~rb.red[rb.root]
    /\ \A n \in members :
        /\ \A s \in Sides : rb.kid[s][n] # NULL =>
             rb.par[rb.kid[s][n]] = n /\ ~(rb.red[n] /\ rb.red[rb.kid[s][n]])
        /\ \A m \in Below(rb, rb.kid["l"][n]) : m < n
        /\ \A m \in Below(rb, rb.kid["r"][n]) : n < m
        /\ BlackHeight(rb, rb.kid["l"][n]) = BlackHeight(rb, rb.kid["r"][n])
    /\ \A n \in Nodes : RbLookup(rb, n) = IF n \in members THEN n ELSE NULL
    /\ RbFirst(rb) = IF members = {} THEN NULL ELSE Min(members)
=============================================================================
