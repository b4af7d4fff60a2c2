------------------------- MODULE MCMessageStream -------------------------
(* Model values and bounds for MessageStream. *)
EXTENDS MessageStream, TLC

CONSTANTS m1, m2, u1, s1, s2

MCMessages == {m1, m2}
MCSenders == {u1}
MCSavers == {s1, s2}
MCOneSaver == {s1}
MCSenderOf == [m \in MCMessages |-> u1]
MCRestMessages == {m1}
NoMessages == {}
MCKind == m1 :> "text" @@ m2 :> "media"
MCPoisonKind == m1 :> "text" @@ m2 :> "poison"

\* The savers are interchangeable.
SaverSymmetry == Permutations(MCSavers)
=============================================================================
