------------------------- MODULE MCRequestShutdown -------------------------
(* Plain, chunked and handled buffers, one of which a script may not erase. *)
EXTENDS RequestShutdown

SomeKinds == {[chunk |-> 0, handler |-> FALSE, erase |-> FALSE],
              [chunk |-> 2, handler |-> FALSE, erase |-> TRUE],
              [chunk |-> 0, handler |-> TRUE, erase |-> TRUE]}
=============================================================================
