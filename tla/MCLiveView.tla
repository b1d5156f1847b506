---------------------------- MODULE MCLiveView ----------------------------
(* Two keys, one of which fits in a broadcast of the whole map, and two        *)
(* sockets for one place in the list of clients.                               *)
EXTENDS LiveView

CONSTANTS k1, k2

MCKeys == {k1, k2}
MCFits == {k1}

=============================================================================
