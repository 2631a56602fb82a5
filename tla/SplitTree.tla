----------------------------- MODULE SplitTree -----------------------------
(***************************************************************************)
(* The shape of a window's split tree (internal/layout), without its       *)
(* geometry.  A tree is a function from the pane of each leaf to the path  *)
(* of that leaf: the sequence of turns from the root, 0 for child A (left  *)
(* or top) and 1 for child B (right or bottom).  Orientation and Ratio are *)
(* left to the geometry; nothing below depends on them.                    *)
(***************************************************************************)
EXTENDS Integers, Sequences, FiniteSets, SequencesExt

Leaves(t) == DOMAIN t

NoTree == [p \in {} |-> <<>>]          \* the nil *Node of an empty window

NewLeaf(p) == [q \in {p} |-> <<>>]

(* a is reached before b by the depth-first, A-then-B walk. *)
Before(a, b) ==
  \E i \in DOMAIN a \cap DOMAIN b :
    /\ a[i] < b[i]
    /\ \A j \in 1..(i - 1) : a[j] = b[j]

Rank(t, p) == Cardinality({q \in Leaves(t) : Before(t[q], t[p])})

Panes(t) ==
  [k \in 1..Cardinality(Leaves(t)) |-> CHOOSE p \in Leaves(t) : Rank(t, p) = k - 1]

Neighbor(t, cur, delta) ==
  LET n == Cardinality(Leaves(t))
  IN  IF n = 0 THEN cur
      ELSE IF cur \notin Leaves(t) THEN Panes(t)[1]
      ELSE Panes(t)[((Rank(t, cur) + delta + n) % n) + 1]

Split(t, target, new) ==
  [p \in Leaves(t) \cup {new} |->
     IF p = new THEN Append(t[target], 1)
     ELSE IF p = target THEN Append(t[target], 0)
     ELSE t[p]]

(* The leaves of the subtree that hangs beside p under its parent. *)
Siblings(t, p) == {q \in Leaves(t) \ {p} : IsPrefix(Front(t[p]), t[q])}

(* Remove: the parent of p collapses and its sibling subtree moves up. *)
RemoveLeaf(t, p) ==
  [q \in Leaves(t) \ {p} |->
     IF q \in Siblings(t, p) THEN RemoveAt(t[q], Len(t[p])) ELSE t[q]]

(* The pane RemoveLeaf hands the focus to: the first leaf of the promoted subtree. *)
FocusAfter(t, p) ==
  CHOOSE q \in Siblings(t, p) : \A r \in Siblings(t, p) \ {q} : Before(t[q], t[r])

SwapPanes(t, a, b) == [t EXCEPT ![a] = t[b], ![b] = t[a]]

-----------------------------------------------------------------------------
(* Preset layouts.  The k-th of n leaves of a chain of nested splits. *)
Link(k, n) ==
  [j \in 1..(IF k = n THEN n - 1 ELSE k) |-> IF j < k THEN 1 ELSE 0]

(* even-horizontal, even-vertical, main-vertical and main-horizontal differ *)
(* in orientation and ratio only: all four hang the panes on one chain.     *)
Chained(ids) ==
  [p \in ToSet(ids) |-> Link(CHOOSE k \in DOMAIN ids : ids[k] = p, Len(ids))]

(* tiled: rows of `cols` panes, each row a chain, the rows stacked on a chain. *)
Tiled(ids) ==
  LET n    == Len(ids)
      cols == CHOOSE c \in 1..n : c * c >= n /\ \A d \in 1..(c - 1) : d * d < n
      rows == (n + cols - 1) \div cols
      PathOf(k) ==
        LET r      == (k - 1) \div cols
            length == IF r = rows - 1 THEN n - r * cols ELSE cols
        IN  Link(r + 1, rows) \o Link(k - r * cols, length)
  IN  [p \in ToSet(ids) |-> PathOf(CHOOSE k \in DOMAIN ids : ids[k] = p)]

Presets == {"chain", "tiled"}

Arrange(ids, preset) == IF preset = "tiled" THEN Tiled(ids) ELSE Chained(ids)
=============================================================================
