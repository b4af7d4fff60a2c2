----------------------------- MODULE MCCallRoom -----------------------------
(* Model values and bounds for CallRoom. *)
EXTENDS CallRoom, TLC

CONSTANTS u1, u2, c1, c2, c3, t1, t2, r1, r2

MCUsers == {u1, u2}
OneRoom == {r1}
TwoRooms == {r1, r2}
RoomSymmetry == Permutations(TwoRooms)

\* Two connections of one user and one of another; the first sends a track.
MCConns == {c1, c2, c3}
MCUserOf == c1 :> u1 @@ c2 :> u1 @@ c3 :> u2
MCTracks == {t1}
MCOwnerOf == t1 :> c1

\* The same connections without media.
NoTracks == {}
NoOwners == [t \in NoTracks |-> c1]
=============================================================================
