---------------------------- MODULE MCClientKeys ----------------------------
(* ClientKeys with a paste of one text: a prefix key, a command key, a line *)
(* break and more text, so long that its second piece would end inside the  *)
(* end marker.                                                              *)
EXTENDS ClientKeys

MCPastes == {<<"prefix", "d", "nl", "x", "x">>}
=============================================================================
