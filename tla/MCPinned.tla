------------------------------ MODULE MCPinned ------------------------------
(* The blocks of tools/gen, as its scenarios open them in one another: a    *)
(* transfer replaces the watchdog, establishes a link in a pinned block of  *)
(* its own and then runs in a second one, with threads inline.  Seven       *)
(* blocks are one transfer of two captures.                                 *)
EXTENDS Pinned

MCEncloses ==
  [top |-> {"pinned", "captured", "watchdog", "path_request"},
   pinned |-> {"captured", "inline_threads", "pad"}, inline_threads |-> {"captured"},
   watchdog |-> {"pinned"}, captured |-> {}, pad |-> {}, path_request |-> {}]
=============================================================================
