--------------------------- MODULE MCCallSession ---------------------------
(* Model values and bounds for CallSession. *)
EXTENDS CallSession, TLC

CONSTANTS u1, u2, c1, c2, w1, w2

TwoUsers   == {u1, u2}
TwoCalls   == {c1, c2}
OneCall    == {c1}
TwoWorkers == {w1, w2}

\* Bound: the last request belongs to a chat that has had one call.  The names
\* of the calls are interchangeable: c1 is created first.
CallsMade == {<<c, "made">> : c \in {x \in Calls : status[x] # "none"}}
               \cup {<<r, "making">> : r \in {x \in Workers : job[x].op = "create"}}

MCNext == /\ Next
          /\ requests' = MaxRequests => Cardinality(CallsMade') <= 1
          /\ status'[c1] = "none" => \A c \in Calls : status'[c] = "none"

MCSpec == Init /\ [][MCNext]_vars /\ Fairness
=============================================================================
