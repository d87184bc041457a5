------------------------------ MODULE MCHosts ------------------------------
(* A bounded instance of Hosts for TLC.                                    *)
EXTENDS Hosts

Scene(h, f, n, s, t) ==
    [host |-> h, file |-> f, players |-> n, seeks |-> s, toggles |-> t,
     volume |-> FALSE]

Loud(h, n) == [Scene(h, {}, n, <<>>, 0) EXCEPT !.volume = TRUE]

(* What multiplies is kept apart: seeks, toggles, a second player, volume. *)
MCScenes ==
    {Scene("plugin", {"audio"}, 1, <<3, 1>>, 0),
     Scene("plugin", {"audio"}, 1, <<Unset>>, 1),
     Scene("plugin", {"audio"}, 2, <<>>, 0),
     Scene("example", {"audio"}, 2, <<>>, 0),
     Scene("example", {"video"}, 2, <<>>, 0),
     Loud("plugin", 1), Loud("example", 1)}
=============================================================================
