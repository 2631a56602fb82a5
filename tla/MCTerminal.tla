----------------------------- MODULE MCTerminal -----------------------------
(* Small panes for TLC: two that differ in rows, one that differs in       *)
(* columns.                                                                *)
EXTENDS Terminal

MCSizes == {<<2, 2>>, <<2, 3>>, <<3, 2>>}
=============================================================================
