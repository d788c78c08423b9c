------------------------- MODULE MCChannelManager -------------------------
(* Instances of ChannelManager for TLC.                                    *)
EXTENDS ChannelManager, TLC

CONSTANTS i1, i2, c1, c2, c3, b1, b2

\* Two connections in the pool of the first instance, one in the second's.
MCConnsOf == [i \in Instances |-> IF i = i1 THEN {c1, c2} ELSE {c3}]

\* No bots, or one of the two.
MCInitBots == {{}, {b1}}

\* Requests are interchangeable.
MCSymmetry == Permutations(Handlers)
=============================================================================
