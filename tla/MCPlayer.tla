------------------------------ MODULE MCPlayer ------------------------------
(* Small discs for TLC. *)
EXTENDS Player
MCToc      == <<0, 2, 3, 5>>
MCOrders   == {<<3, 1>>}
MCPrograms == {<<3, 1>>, <<2, 1>>}
Base == {"play", "stop", "prev", "next", "index", "keypad", "shuffle",
         "repeat", "program", "list", "eject", "icon"}
MCOpSets ==
  {Base \cup {"ab", "segment", "warp", "error", "remove"},
   Base \cup {"ab", "segment", "sample", "error", "remove"},
   Base \cup {"search"},
   {"daemon", "play", "pause", "stop", "prev", "next", "index", "program",
    "shuffle", "repeat", "eject", "error", "remove"}}
=============================================================================
