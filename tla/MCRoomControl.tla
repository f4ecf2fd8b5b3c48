----------------------------- MODULE MCRoomControl -----------------------------
(* Small instances of the room's control and private mode.                 *)
EXTENDS RoomControl, TLC

Setting(p, l, i) == [private |-> p, locked |-> l, implicit |-> i]
Profile(a, h) == [admin |-> a, canHost |-> h]

\* Private mode on and off, everything else as the server starts by default.
PrivateSettings == {Setting(p, FALSE, TRUE) : p \in BOOLEAN}
EverySetting == [private : BOOLEAN, locked : BOOLEAN, implicit : BOOLEAN]

\* Members that may host or not, and an administrator.
EveryProfile ==
    {Profile(FALSE, TRUE), Profile(FALSE, FALSE), Profile(TRUE, TRUE)}
Member == {Profile(FALSE, TRUE)}

Symmetry == Permutations(Sessions) \cup Permutations(Requests)
=============================================================================
