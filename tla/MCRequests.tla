----------------------------- MODULE MCRequests -----------------------------
(* Model values and bounds for the handlers of the Django application:     *)
(* Accounts, PushTokens, Media, Messages and DirectChat, and for what the  *)
(* middleware around them shares with the hub, Presence.  They share no    *)
(* row: each is explored with the others at rest, in one run.              *)
EXTENDS Accounts, PushTokens, Media, Messages, DirectChat, Presence, TLC

CONSTANTS w1, w2, e1, d1, t1, t2, x1, x2, y1, p1, r1, r2, s1

\* The threads of all components have the same names, the browsers of one are
\* the media of another, the savers of a third and the connections of a fourth, the
\* users of one the readers of another: fewer symmetries to try.
TwoThreads   == {w1, w2}
OneEmail     == {e1}
TwoUsers     == {r1, r2}
OneDevice    == {d1}
TwoServers   == {w1, w2}
MCAddresses  == {t1, t2, x1, x2}
MCKindOf     == [a \in MCAddresses |-> IF a \in {t1, t2} THEN "fcm" ELSE "browser"]
TwoMedia     == {x1, x2}
OneStory     == {y1}
OnePost      == {p1}
TwoReaders   == {r1, r2}
TwoSavers    == {x1, x2}
OneBot       == {d1}
TwoSockets   == {x1, x2}
TwoTrackers  == {w1, w2}

\* Bound: the codes that are mailed; a registration that meets another and a
\* reset need three.
MaxCodes == 3

MCInit == Init /\ PushInit /\ MediaInit /\ MessagesInit /\ DirectInit /\ PresenceInit

\* The component that takes the first step is the only one that moves
\* (only Media depends on the setting useS3, only DirectChat on the pair and the chat).
MCNext ==
  \/ /\ ~useS3 /\ jobs = 0 /\ calls = 0 /\ asked = 0 /\ Stored = {}
     /\ begun = 0 /\ pair = People /\ ~chat /\ updates = 0
     /\ Next /\ Len(codes') <= MaxCodes
     /\ UNCHANGED <<pushVars, mediaVars, messageVars, directVars, presenceVars>>
  \/ /\ ~useS3 /\ requests = 0 /\ calls = 0 /\ asked = 0 /\ Stored = {}
     /\ begun = 0 /\ pair = People /\ ~chat /\ updates = 0
     /\ PushNext
     /\ UNCHANGED <<vars, mediaVars, messageVars, directVars, presenceVars>>
  \/ /\ requests = 0 /\ jobs = 0 /\ asked = 0 /\ Stored = {}
     /\ begun = 0 /\ pair = People /\ ~chat /\ updates = 0
     /\ MediaNext
     /\ UNCHANGED <<vars, pushVars, messageVars, directVars, presenceVars>>
  \/ /\ ~useS3 /\ requests = 0 /\ jobs = 0 /\ calls = 0
     /\ begun = 0 /\ pair = People /\ ~chat /\ updates = 0
     /\ MessagesNext
     /\ UNCHANGED <<vars, pushVars, mediaVars, directVars, presenceVars>>
  \/ /\ ~useS3 /\ requests = 0 /\ jobs = 0 /\ calls = 0 /\ asked = 0 /\ Stored = {}
     /\ updates = 0
     /\ DirectNext
     /\ UNCHANGED <<vars, pushVars, mediaVars, messageVars, presenceVars>>
  \/ /\ ~useS3 /\ requests = 0 /\ jobs = 0 /\ calls = 0 /\ asked = 0 /\ Stored = {}
     /\ begun = 0 /\ pair = People /\ ~chat
     /\ PresenceNext
     /\ UNCHANGED <<vars, pushVars, mediaVars, messageVars, directVars>>

MCSpec == MCInit /\ [][MCNext]_<<vars, pushVars, mediaVars, messageVars, directVars,
                             presenceVars>>

Symmetry == Permutations(TwoThreads) \cup Permutations(TwoMedia)
              \cup Permutations(TwoReaders)
=============================================================================
