------------------------------- MODULE Window -------------------------------
(***************************************************************************)
(* The methods of a window (internal/server/window.go) as operators on the *)
(* window's record.  Each stands for the whole method, the applyLayout at  *)
(* its end included: of that call only the clearing of a stale zoom        *)
(* (zoomedPane) touches this state, the sizes it pushes do not.            *)
(***************************************************************************)
EXTENDS SplitTree

NoPane == 0                              \* "Zero is never a valid pane"

wrapWindow(p) ==
  [tree |-> NewLeaf(p), panes |-> {p}, active |-> p, zoom |-> NoPane]

(* zoomedPane: a zoom on a pane that is gone heals itself. *)
applyLayout(w) == IF w.zoom \in w.panes THEN w ELSE [w EXCEPT !.zoom = NoPane]

toggleZoom(w) ==
  applyLayout([w EXCEPT !.zoom =
    IF w.zoom = NoPane /\ Cardinality(w.panes) > 1 THEN w.active ELSE NoPane])

unzoom_forgotten(w) == w                 \* fault: the focus moves under the zoom
unzoom(w) == [w EXCEPT !.zoom = NoPane]

(* split once the pane's shell has started. *)
split(w, new) ==
  [tree |-> Split(w.tree, w.active, new), panes |-> w.panes \cup {new},
   active |-> new, zoom |-> NoPane]

(* split when newPane fails: layout.Split has already grafted the leaf. *)
splitUnspawned(w, new) == [w EXCEPT !.tree = Split(w.tree, w.active, new)]

focus(w, delta) == [w EXCEPT !.active = Neighbor(w.tree, w.active, delta)]

swapActive(w, delta) ==
  LET other == Neighbor(w.tree, w.active, delta)
  IN  IF other = w.active THEN w
      ELSE [unzoom(w) EXCEPT !.tree = SwapPanes(w.tree, w.active, other)]

(* The tree and the focus once p's leaf is gone (removePane and detachPane). *)
fold_steal(w, p) ==                      \* fault: any exit moves the focus
  [tree |-> RemoveLeaf(w.tree, p), panes |-> w.panes \ {p},
   active |-> FocusAfter(w.tree, p), zoom |-> w.zoom]
fold(w, p) ==
  [tree   |-> RemoveLeaf(w.tree, p),
   panes  |-> w.panes \ {p},
   active |-> IF w.active = p THEN FocusAfter(w.tree, p) ELSE w.active,
   zoom   |-> w.zoom]

(* closeAll, and the emptied window removePane leaves behind. *)
closeAll(w) ==
  [tree |-> NoTree, panes |-> {}, active |-> w.active, zoom |-> w.zoom]

removePane(w, p) ==
  IF p \notin w.panes THEN w
  ELSE IF w.panes = {p} THEN closeAll(w)
  ELSE applyLayout(fold(w, p))

detachPane_keepsLeaf(w, p) ==            \* fault: the tree still shows the pane
  [tree |-> w.tree, panes |-> w.panes \ {p}, active |-> w.active, zoom |-> NoPane]
detachPane(w, p) == unzoom(fold(w, p))

adoptPane(w, p) == split(w, p)

selectLayout(w, preset) ==
  [unzoom(w) EXCEPT !.tree = Arrange(Panes(w.tree), preset)]
=============================================================================
