----------------------------- MODULE MCMainLoop -----------------------------
(* MainLoop for TLC: two dynamic addresses, the NAME of main, a few frames   *)
(* and the lengths that cut one after its identifier, in its data, and not.  *)
EXTENDS MainLoop

MCName == <<17, 4, 9, 0, 12, 2, 0, 64>>

Frame(b1, b2, b3, b4, data) == <<b1, b2, b3, b4, 8, 0, 0, 0>> \o data

BrakeOn   == Frame(49, 241, 254, 140, <<255, 0, 1, 0, 196, 0, 0, 0>>)
OtherPage == Frame(49, 241, 254, 141, <<0, 0, 0, 0, 0, 0, 0, 0>>)
LeftRtr   == Frame(49, 204, 253, 204, <<0, 31, 0, 0, 0, 0, 0, 0>>)
Better    == Frame(127, 255, 238, 152, <<17, 4, 9, 0, 12, 1, 255, 255>>)
Worse     == Frame(127, 255, 238, 152, <<17, 4, 9, 0, 12, 2, 0, 64>>)
Asks      == Frame(49, 127, 234, 152, <<0, 238, 0, 0, 0, 0, 0, 0>>)

MCBusFrames   == {BrakeOn, OtherPage, LeftRtr, Better, Worse, Asks}
MCStackFrames == {Frame(0, 0, 0, 0, <<0, 0, 0, 0, 0, 0, 0, 0>>),
                  Frame(49, 241, 254, 140, <<0, 0, 0, 1, 255, 0, 0, 0>>)}
MCReadLengths == {11, 16}
=============================================================================
