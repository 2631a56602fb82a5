----------------------------- MODULE MCCopyMode -----------------------------
(* CopyMode with two panes, sizes that differ in both directions, and a    *)
(* ring of two lines.                                                      *)
EXTENDS CopyMode, TLC

MCSizes == {<<2, 2>>, <<1, 1>>}
MCSymmetry == Permutations(Panes)
=============================================================================
