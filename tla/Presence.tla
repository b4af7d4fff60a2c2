------------------------------ MODULE Presence ------------------------------
(***************************************************************************)
(* The number of connections of one user in Redis: presence.Service of the *)
(* Go server (internal/presence) and the middleware of the Django          *)
(* application that tracks requests (apps/users/middleware.py).            *)
(*                                                                         *)
(* Register and Unregister of the hub count the connections under the lock *)
(* and write the count after they have released it; a write that fails is  *)
(* only logged.  A tracked request reads the key and writes back the count *)
(* it has read.  The key expires unless it is written again.  The reader   *)
(* of a connection and the goroutine of realtime.Subscriber unregister     *)
(* connections, also others than their own and also again.  Status, times  *)
(* and names in the key are left out.                                      *)
(***************************************************************************)
EXTENDS Integers, FiniteSets

CONSTANTS Connections,  \* ws.Client objects of the user, each with its reader
          Realtime,     \* the goroutine of realtime.Subscriber
          Trackers,     \* the threads of Django
          MaxUpdates    \* bound: calls of the hub, tracked requests and restarts

ASSUME PresenceAssumption == /\ IsFiniteSet(Connections)
                             /\ Realtime \notin Connections
                             /\ MaxUpdates \in Nat

VARIABLES connected,    \* Hub.users[user]
          served,       \* connections whose Register has returned
          announcing,   \* the count each goroutine has still to write
          held,         \* connection_count in Redis
          tracking,     \* the count each thread of Django has read
          updates,      \* how many of what MaxUpdates bounds there were
          recent        \* history: the counts that Redis may hold, see Change

presenceVars == <<connected, served, announcing, held, tracking, updates, recent>>

Goroutines == Connections \cup {Realtime}

\* No key in Redis; no count in hand.
Nothing == -1
Counts == 0..Cardinality(Connections)

\* Types of all variables.
PresenceTypeOK ==
  /\ connected \subseteq Connections /\ served \subseteq Connections
  /\ announcing \in [Goroutines -> Counts \cup {Nothing}]
  /\ held \in Counts \cup {Nothing}
  /\ tracking \in [Trackers -> Counts \cup {Nothing}]
  /\ updates \in 0..MaxUpdates
  /\ recent \subseteq Counts

PresenceInit ==
  /\ connected = {} /\ served = {}
  /\ announcing = [g \in Goroutines |-> Nothing]
  /\ held = Nothing
  /\ tracking = [d \in Trackers |-> Nothing]
  /\ updates = 0
  /\ recent = {}

HubAtRest == \A g \in Goroutines : announcing[g] = Nothing
AtRest == HubAtRest /\ \A d \in Trackers : tracking[d] = Nothing

Update == updates < MaxUpdates /\ updates' = updates + 1

-----------------------------------------------------------------------------
(* The hub.                                                                *)

\* Mutant of Change: the connections are counted before the change.
ChangeCountedBefore(g, S) ==
  /\ Update
  /\ connected' = S
  /\ announcing' = [announcing EXCEPT ![g] = Cardinality(connected)]
  /\ recent' = (IF AtRest THEN {} ELSE recent) \cup {Cardinality(S)}
  /\ UNCHANGED <<served, held, tracking>>

\* The critical section of g leaves the connections S, and g has their number to
\* write.  If nothing else is on its way to Redis, only this number may be held
\* from now on; otherwise it is one more.
Change(g, S) ==
  /\ Update
  /\ connected' = S
  /\ announcing' = [announcing EXCEPT ![g] = Cardinality(S)]
  /\ recent' = (IF AtRest THEN {} ELSE recent) \cup {Cardinality(S)}
  /\ UNCHANGED <<served, held, tracking>>

\* Hub.Register, called by the goroutine that will read from c
RegisterConnection(c) ==
  /\ c \notin connected \cup served
  /\ Change(c, connected \cup {c})

\* Goroutines that may call Unregister for c: its reader, and those that have
\* found its buffer full, which it can be once it is served.
Unregisters(g, c) ==
  /\ announcing[g] = Nothing
  /\ c \in served /\ g \in served \cup {Realtime}

\* Hub.Unregister
UnregisterConnection(g, c) ==
  /\ Unregisters(g, c)
  /\ Change(g, connected \ {c})

Returns(g) ==
  /\ announcing[g] # Nothing
  /\ announcing' = [announcing EXCEPT ![g] = Nothing]
  /\ served' = IF g \in Connections THEN served \cup {g} ELSE served
  /\ UNCHANGED <<connected, tracking, updates>>

\* SetOnline, or SetOffline for 0
WriteCount(g) ==
  /\ Returns(g)
  /\ held' = announcing[g]
  /\ UNCHANGED recent

\* What Redis holds goes on to be held.
Keeps == recent' = recent \cup ({held} \ {Nothing})

\* The write fails, and that is logged.
WriteFails(g) ==
  /\ Returns(g)
  /\ Keeps
  /\ UNCHANGED held

\* The Go server ends, and is started again: its clients connect anew.
HubRestarts ==
  /\ Update
  /\ connected' = {} /\ served' = {}
  /\ announcing' = [g \in Goroutines |-> Nothing]
  /\ Keeps
  /\ UNCHANGED <<held, tracking>>

-----------------------------------------------------------------------------
(* The middleware, and Redis.                                              *)

\* TrackUserActivityMiddleware reads the key: without one the count is 0.
ReadCount(d) ==
  /\ Update
  /\ tracking[d] = Nothing
  /\ tracking' = [tracking EXCEPT ![d] = IF held = Nothing THEN 0 ELSE held]
  /\ recent' = recent \cup {tracking'[d]}
  /\ UNCHANGED <<connected, served, announcing, held>>

\* It writes the key with what it has read, or fails, which it ignores.
WriteBack(d) ==
  /\ tracking[d] # Nothing
  /\ tracking' = [tracking EXCEPT ![d] = Nothing]
  /\ held' \in {held, tracking[d]}
  /\ UNCHANGED <<connected, served, announcing, updates, recent>>

\* The time to live passes without another write.
KeyExpires ==
  /\ held # Nothing
  /\ held' = Nothing
  /\ UNCHANGED <<connected, served, announcing, tracking, updates, recent>>

-----------------------------------------------------------------------------
PresenceNext ==
  \/ \E c \in Connections : RegisterConnection(c)
  \/ \E g \in Goroutines, c \in Connections : UnregisterConnection(g, c)
  \/ \E g \in Goroutines : WriteCount(g) \/ WriteFails(g)
  \/ HubRestarts
  \/ \E d \in Trackers : ReadCount(d) \/ WriteBack(d)
  \/ KeyExpires

PresenceSpec == PresenceInit /\ [][PresenceNext]_presenceVars

-----------------------------------------------------------------------------
(* Properties.                                                             *)

\* When the hub has nothing to write, Redis holds no count or a recent one: the
\* number of connections after the last change that began while nothing else was
\* on its way to Redis, or after one that has begun since.  An older count, or 0
\* without a key, stays or returns only through a write that has failed, a restart,
\* or a request that was tracked since.  In particular a change that nothing has
\* overlapped, that did not fail and that no tracked request followed leaves
\* exactly the number of connections, or nothing once the key has expired.
\* (hub.go:54-74 and 76-140, service.go:36-70, middleware.py:30-46)
PresenceIsRecent == HubAtRest => held \in recent \cup {Nothing}
=============================================================================
