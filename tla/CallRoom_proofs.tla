-------------------------- MODULE CallRoom_proofs --------------------------
(***************************************************************************)
(* Proofs about CallRoom for every set of users, connections, tracks and   *)
(* Room objects, and every MaxPeers.                                       *)
(***************************************************************************)
EXTENDS CallRoom, FiniteSetTheorems, TLAPS

-----------------------------------------------------------------------------
\* Only a connection whose peer has been entered by AddPeer is closed, sends
\* tracks or has a place in users, and only in its own room.
Active(c) == hpc[c] \notin {"open", "got"}

Seated ==
  /\ \A c \in Conns : close[c] # "no" => Active(c)
  /\ \A c \in Conns, k \in Closers : closer[c][k] # "idle" => Active(c)
  /\ \A t \in Tracks : track[t] # "none" => Active(OwnerOf[t])
  /\ \A r \in Rooms, u \in Users :
       users[r][u] # NoPeer =>
         /\ Active(users[r][u])
         /\ room[users[r][u]] = r
         /\ UserOf[users[r][u]] = u

LEMMA ActiveHasRoom ==
  ASSUME TypeOK, NEW c \in Conns, Active(c)
  PROVE  room[c] \in Rooms
BY DEF TypeOK, Active

-----------------------------------------------------------------------------
\* Types; in particular a handler past GetOrCreate has a Room object.
LEMMA StepKeepsTypes == TypeOK /\ Seated /\ [Next]_vars => TypeOK'
<1> SUFFICES ASSUME TypeOK, Seated, [Next]_vars
             PROVE  TypeOK'
  OBVIOUS
<1> USE ConstantsAssumption
<1>1. ASSUME NEW c \in Conns, GetOrCreate(c)
      PROVE  TypeOK'
  <2>1. PICK r \in Rooms :
          /\ made' = made \/ made' = made \cup {r}
          /\ current' = r
          /\ \/ /\ hpc' = [hpc EXCEPT ![c] = "got"]
                /\ room' = [room EXCEPT ![c] = r]
             \/ UNCHANGED <<hpc, room>>
    BY <1>1 DEF GetOrCreate
  <2>2. UNCHANGED <<up, peers, users, published, clock, todo, closer, close,
                    strip, track, offer, bound>>
    BY <1>1 DEF GetOrCreate, members, closing, media
  <2>3. /\ hpc' \in [Conns -> HandlerSteps]
        /\ room' \in [Conns -> Rooms \cup {NoRoom}]
        /\ \A x \in Conns : hpc'[x] # "open" => room'[x] \in Rooms
    <3>1. /\ hpc \in [Conns -> HandlerSteps] /\ "got" \in HandlerSteps
          /\ room \in [Conns -> Rooms \cup {NoRoom}]
          /\ \A x \in Conns : hpc[x] # "open" => room[x] \in Rooms
      BY DEF TypeOK, HandlerSteps
    <3>2. QED
      BY <2>1, <3>1
  <2>4. current' \in Rooms \cup {NoRoom} /\ made' \subseteq Rooms
    BY <2>1 DEF TypeOK
  <2>5. QED
    BY <2>2, <2>3, <2>4 DEF TypeOK
<1>2. ASSUME NEW c \in Conns, AddPeer(c)
      PROVE  TypeOK'
  <2> DEFINE r == room[c]
             old == users[r][UserOf[c]]
  <2>1. /\ r \in Rooms /\ UserOf[c] \in Users
        /\ old \in Conns \cup {NoPeer}
    BY <1>2 DEF AddPeer, TypeOK, ConstantsAssumption
  <2>2. CASE Cardinality(peers[r] \ {old}) >= MaxPeers
    <3>1. /\ peers' = [peers EXCEPT ![r] = peers[r] \ {old}]
          /\ hpc' = [hpc EXCEPT ![c] = "open"]
          /\ room' = [room EXCEPT ![c] = NoRoom]
          /\ UNCHANGED <<users, clock, todo, closer, up, current, made,
                         published, close, strip, track, offer, bound>>
      BY <1>2, <2>2 DEF AddPeer, manager, media
    <3>2. peers' \in [Rooms -> SUBSET Conns]
      BY <3>1, <2>1 DEF TypeOK
    <3>3. /\ hpc' \in [Conns -> HandlerSteps]
          /\ room' \in [Conns -> Rooms \cup {NoRoom}]
          /\ \A x \in Conns : hpc'[x] # "open" => room'[x] \in Rooms
      BY <3>1 DEF TypeOK, HandlerSteps
    <3>4. QED
      BY <3>1, <3>2, <3>3 DEF TypeOK
  <2>3. CASE ~(Cardinality(peers[r] \ {old}) >= MaxPeers)
    <3>1. /\ peers' = [peers EXCEPT ![r] = (peers[r] \ {old}) \cup {c}]
          /\ users' = [users EXCEPT ![r][UserOf[c]] = c]
          /\ clock' = [clock EXCEPT ![r] = "off"]
          /\ todo' = [todo EXCEPT ![c] = published[r]]
          /\ hpc' = [hpc EXCEPT ![c] = "add"]
          /\ closer' = IF old = NoPeer THEN closer
                       ELSE [closer EXCEPT ![old]["replace"] = "called"]
          /\ UNCHANGED <<room, up, current, made, published, close, strip,
                         track, offer, bound>>
      BY <1>2, <2>3 DEF AddPeer, manager, media
    <3>2. closer' \in [Conns -> [Closers -> CloserSteps]]
      BY <3>1, <2>1 DEF TypeOK, CloserSteps, Closers
    <3>3. users' \in [Rooms -> [Users -> Conns \cup {NoPeer}]]
      BY <3>1, <2>1 DEF TypeOK
    <3> HIDE DEF r, old
    <3>4. QED
      BY <2>1, <3>1, <3>2, <3>3, r = room[c] DEF TypeOK, HandlerSteps, r
  <2>4. QED
    BY <2>2, <2>3
<1>3. ASSUME NEW c \in Conns, AddExisting(c)
      PROVE  TypeOK'
  <2>1. /\ todo' \in [Conns -> SUBSET Tracks]
        /\ bound' \in [Conns -> SUBSET Tracks]
        /\ hpc' = hpc \/ hpc' = [hpc EXCEPT ![c] = "joined"]
        /\ hpc[c] = "add"
    <3>1. todo \in [Conns -> SUBSET Tracks] /\ bound \in [Conns -> SUBSET Tracks]
      BY DEF TypeOK
    <3>2. QED
      BY <1>3, <3>1 DEF AddExisting, Bind
  <2>2. UNCHANGED <<up, current, made, peers, users, published, clock, room,
                    closer, close, strip, track, offer>>
    BY <1>3 DEF AddExisting, manager, members, closing
  <2>3. /\ hpc' \in [Conns -> HandlerSteps]
        /\ \A x \in Conns : hpc'[x] # "open" => room[x] \in Rooms
    <3>1. /\ hpc \in [Conns -> HandlerSteps] /\ "joined" \in HandlerSteps
          /\ \A x \in Conns : hpc[x] # "open" => room[x] \in Rooms
      BY DEF TypeOK, HandlerSteps
    <3>2. QED
      BY <2>1, <3>1
  <2>4. QED
    BY <2>1, <2>2, <2>3 DEF TypeOK
<1>4. ASSUME NEW c \in Conns, Leave(c)
      PROVE  TypeOK'
  BY <1>4 DEF Leave, SelectDone, TypeOK, manager, members, media,
              HandlerSteps, CloserSteps, Closers
<1>5. ASSUME NEW c \in Conns, Cleanup(c)
      PROVE  TypeOK'
  BY <1>5 DEF Cleanup, TypeOK, members, closing, media, HandlerSteps
<1>6. ASSUME NEW c \in Conns, IceFails(c)
      PROVE  TypeOK'
  BY <1>6 DEF IceFails, SelectDone, TypeOK, manager, members, handlers, media,
              CloserSteps, Closers
<1>7. ASSUME NEW c \in Conns, CloseReplaced(c)
      PROVE  TypeOK'
  BY <1>7 DEF CloseReplaced, SelectDone, TypeOK, manager, members, handlers,
              media, CloserSteps, Closers
<1>8. ASSUME NEW c \in Conns, NEW k \in Closers, CloseDone(c, k)
      PROVE  TypeOK'
  <2>1. /\ closer' \in [Conns -> [Closers -> CloserSteps]]
        /\ close' \in [Conns -> CloseSteps]
        /\ up' \in BOOLEAN
    <3>1. CASE close[c] = "no"
      <4>1. /\ closer \in [Conns -> [Closers -> CloserSteps]]
            /\ close \in [Conns -> CloseSteps] /\ up \in BOOLEAN
            /\ "closing" \in CloserSteps /\ "remove" \in CloseSteps
        BY DEF TypeOK, CloserSteps, CloseSteps
      <4>2. /\ close' = [close EXCEPT ![c] = "remove"]
            /\ closer' = [closer EXCEPT ![c][k] = "closing"]
            /\ up' = up
        BY <1>8, <3>1 DEF CloseDone
      <4>3. closer' \in [Conns -> [Closers -> CloserSteps]]
        BY <4>1, <4>2
      <4>4. QED
        BY <4>1, <4>2, <4>3
    <3>2. CASE close[c] # "no"
      BY <1>8, <3>2 DEF CloseDone, TypeOK
    <3>3. QED
      BY <3>1, <3>2
  <2>2. QED
    BY <1>8, <2>1 DEF CloseDone, TypeOK, manager, members, handlers, media
<1>9. ASSUME NEW c \in Conns, RemovePeer(c)
      PROVE  TypeOK'
  BY <1>9 DEF RemovePeer, TypeOK, manager, handlers, media, CloseSteps
<1>10. ASSUME NEW c \in Conns, UnpublishPeerTracks(c)
       PROVE  TypeOK'
  <2>1. published' \in [Rooms -> SUBSET Tracks]
    BY <1>10 DEF UnpublishPeerTracks, TypeOK
  <2>2. strip' \in [Conns -> SUBSET Conns]
    <3>1. room[c] \in Rooms
      BY <1>10, ActiveHasRoom DEF UnpublishPeerTracks, Seated
    <3>2. QED
      BY <1>10, <3>1 DEF UnpublishPeerTracks, TypeOK
  <2>3. close' \in [Conns -> CloseSteps]
    BY <1>10 DEF UnpublishPeerTracks, TypeOK, CloseSteps
  <2>4. QED
    BY <1>10, <2>1, <2>2, <2>3
       DEF UnpublishPeerTracks, TypeOK, manager, members, handlers, media
<1>11. ASSUME NEW c \in Conns, StripTracks(c)
       PROVE  TypeOK'
  <2>1. /\ close' \in [Conns -> CloseSteps]
        /\ strip' \in [Conns -> SUBSET Conns]
        /\ bound' \in [Conns -> SUBSET Tracks]
    <3>1. /\ close \in [Conns -> CloseSteps] /\ "done" \in CloseSteps
          /\ strip \in [Conns -> SUBSET Conns] /\ bound \in [Conns -> SUBSET Tracks]
      BY DEF TypeOK, CloseSteps
    <3>2. QED
      BY <1>11, <3>1 DEF StripTracks, Unbind
  <2>2. closer' \in [Conns -> [Closers -> CloserSteps]]
    <3>1. CASE closer' = closer
      BY <3>1 DEF TypeOK
    <3>2. CASE closer' = [closer EXCEPT ![c] =
                 [k \in Closers |-> IF closer[c][k] = "closing" THEN "back"
                                                                ELSE closer[c][k]]]
      <4>1. [k \in Closers |-> IF closer[c][k] = "closing" THEN "back"
                                                           ELSE closer[c][k]]
              \in [Closers -> CloserSteps]
        BY DEF TypeOK, CloserSteps
      <4>2. QED
        BY <3>2, <4>1 DEF TypeOK
    <3>3. QED
      BY <1>11, <3>1, <3>2 DEF StripTracks
  <2>3. QED
    BY <1>11, <2>1, <2>2 DEF StripTracks, TypeOK, manager, members, handlers
<1>12. ASSUME NEW t \in Tracks, OnTrack(t)
       PROVE  TypeOK'
  BY <1>12 DEF OnTrack, TypeOK, manager, members, handlers, closing, TrackSteps
<1>13. ASSUME NEW t \in Tracks, RegisterTrack(t)
       PROVE  TypeOK'
  <2>1. room[OwnerOf[t]] \in Rooms
    BY <1>13, ActiveHasRoom, ConstantsAssumption DEF RegisterTrack, Seated
  <2>2. /\ published' \in [Rooms -> SUBSET Tracks]
        /\ offer' \in [Tracks -> SUBSET Conns]
        /\ track' \in [Tracks -> TrackSteps]
    BY <1>13, <2>1 DEF RegisterTrack, TypeOK, TrackSteps
  <2>3. clock' \in [Rooms -> {"off", "running", "expired"}]
    BY <1>13 DEF RegisterTrack, TypeOK
  <2>4. QED
    BY <1>13, <2>2, <2>3 DEF RegisterTrack, TypeOK, manager, members, handlers, closing
<1>14. ASSUME NEW t \in Tracks, OfferTrack(t)
       PROVE  TypeOK'
  BY <1>14 DEF OfferTrack, Bind, TypeOK, manager, members, handlers, closing
<1>15. ASSUME NEW t \in Tracks, UnpublishTrack(t)
       PROVE  TypeOK'
  <2>1. room[OwnerOf[t]] \in Rooms
    BY <1>15, ActiveHasRoom, ConstantsAssumption DEF UnpublishTrack, Seated
  <2>2. /\ published' \in [Rooms -> SUBSET Tracks]
        /\ offer' \in [Tracks -> SUBSET Conns]
        /\ track' \in [Tracks -> TrackSteps]
    BY <1>15, <2>1 DEF UnpublishTrack, TypeOK, TrackSteps
  <2>3. clock' \in [Rooms -> {"off", "running", "expired"}]
    BY <1>15 DEF UnpublishTrack, TypeOK
  <2>4. QED
    BY <1>15, <2>2, <2>3 DEF UnpublishTrack, TypeOK, manager, members, handlers, closing
<1>16. ASSUME NEW t \in Tracks, DropTrack(t)
       PROVE  TypeOK'
  BY <1>16 DEF DropTrack, Unbind, TypeOK, manager, members, handlers, closing
<1>17. ASSUME NEW r \in Rooms, Expire(r)
       PROVE  TypeOK'
  BY <1>17 DEF Expire, TypeOK, manager, members, handlers, closing, media
<1>18. CASE CleanupExpired
  BY <1>18 DEF CleanupExpired, TypeOK, members, handlers, closing, media
<1>19. CASE UNCHANGED vars
  BY <1>19 DEF vars, TypeOK, manager, members, handlers, closing, media
<1>20. QED
  BY <1>1, <1>2, <1>3, <1>4, <1>5, <1>6, <1>7, <1>8, <1>9, <1>10, <1>11,
     <1>12, <1>13, <1>14, <1>15, <1>16, <1>17, <1>18, <1>19
     DEF Next, Work, TrackWork

-----------------------------------------------------------------------------
\* A connection that is active stays so, in its room.
LEMMA ActiveStays ==
  ASSUME TypeOK, [Next]_vars
  PROVE  \A c \in Conns : Active(c) => Active(c)' /\ room'[c] = room[c]
<1>1. \/ UNCHANGED <<hpc, room>>
      \/ \E c \in Conns :
           \/ GetOrCreate(c) \/ AddPeer(c) \/ AddExisting(c)
           \/ Leave(c) \/ Cleanup(c)
  BY Zenon DEF Next, Work, TrackWork, IceFails, CloseReplaced, CloseDone,
    RemovePeer, UnpublishPeerTracks, StripTracks, OnTrack, RegisterTrack,
    OfferTrack, UnpublishTrack, DropTrack, Expire, CleanupExpired, vars,
    handlers
<1>2. CASE UNCHANGED <<hpc, room>>
  BY <1>2 DEF Active
<1>3. ASSUME NEW c \in Conns, GetOrCreate(c) \/ AddPeer(c)
      PROVE  \A x \in Conns : Active(x) => Active(x)' /\ room'[x] = room[x]
  BY <1>3 DEF Active, GetOrCreate, AddPeer, TypeOK
<1>4. ASSUME NEW c \in Conns, AddExisting(c) \/ Leave(c) \/ Cleanup(c)
      PROVE  \A x \in Conns : Active(x) => Active(x)' /\ room'[x] = room[x]
  BY <1>4 DEF Active, AddExisting, Leave, Cleanup, TypeOK
<1>5. QED
  BY <1>1, <1>2, <1>3, <1>4

\* Seated is inductive together with the types.
LEMMA StepKeepsSeated == TypeOK /\ Seated /\ [Next]_vars => Seated'
<1> SUFFICES ASSUME TypeOK, Seated, [Next]_vars
             PROVE  Seated'
  OBVIOUS
<1> USE ConstantsAssumption
<1>1. \A c \in Conns : Active(c) => Active(c)' /\ room'[c] = room[c]
  BY ActiveStays
<1>2. ASSUME UNCHANGED <<close, closer, track, users>>
      PROVE  Seated'
  BY <1>1, <1>2 DEF Seated, Active, TypeOK
<1>3. ASSUME NEW c \in Conns, AddPeer(c)
      PROVE  Seated'
  <2> DEFINE r == room[c]
             old == users[r][UserOf[c]]
  <2>1. r \in Rooms /\ UserOf[c] \in Users /\ ~Active(c)
    BY <1>3 DEF AddPeer, TypeOK, Active
  <2>2. CASE Cardinality(peers[r] \ {old}) >= MaxPeers
    BY <1>2, <1>3, <2>2 DEF AddPeer, media
  <2>3. CASE ~(Cardinality(peers[r] \ {old}) >= MaxPeers)
    <3>1. /\ users' = [users EXCEPT ![r][UserOf[c]] = c]
          /\ hpc' = [hpc EXCEPT ![c] = "add"]
          /\ closer' = IF old = NoPeer THEN closer
                       ELSE [closer EXCEPT ![old]["replace"] = "called"]
          /\ UNCHANGED <<room, close, track>>
      BY <1>3, <2>3 DEF AddPeer, media
    <3>2. Active(c)' /\ room'[c] = r
      BY <3>1 DEF Active, TypeOK
    <3>3. old # NoPeer => old \in Conns /\ Active(old)
      BY <2>1 DEF Seated, TypeOK
    <3>4. \A x \in Conns : closer'[x] # closer[x] => Active(x)
      BY <3>1, <3>3 DEF TypeOK
    <3>5. \A x \in Conns, k \in Closers : closer'[x][k] # "idle" => Active(x)'
      BY <3>4, <1>1 DEF Seated
    <3>6. \A q \in Rooms, u \in Users :
            users'[q][u] = IF q = r /\ u = UserOf[c] THEN c ELSE users[q][u]
      BY <3>1, <2>1 DEF TypeOK
    <3>7. \A q \in Rooms, u \in Users :
            users'[q][u] # NoPeer =>
              /\ Active(users[q][u])'
              /\ room'[users'[q][u]] = q
              /\ UserOf[users'[q][u]] = u
      <4> SUFFICES ASSUME NEW q \in Rooms, NEW u \in Users, users'[q][u] # NoPeer
                   PROVE  /\ Active(users[q][u])'
                          /\ room'[users'[q][u]] = q
                          /\ UserOf[users'[q][u]] = u
        OBVIOUS
      <4>1. CASE q = r /\ u = UserOf[c]
        <5>1. users'[q][u] = c
          BY <4>1, <3>6
        <5>2. QED
          BY <5>1, <4>1, <3>2 DEF Active
      <4>2. CASE ~(q = r /\ u = UserOf[c])
        <5>1. users'[q][u] = users[q][u] /\ users[q][u] \in Conns
          BY <4>2, <3>6 DEF TypeOK
        <5>2. /\ Active(users[q][u]) /\ room[users[q][u]] = q
              /\ UserOf[users[q][u]] = u
          BY <5>1 DEF Seated
        <5>3. QED
          BY <5>1, <5>2, <1>1 DEF Active
      <4>3. QED
        BY <4>1, <4>2
    <3>8. QED
      BY <3>1, <3>5, <3>7, <1>1, ConstantsAssumption DEF Seated
  <2>4. QED
    BY <2>2, <2>3
<1>4. ASSUME NEW c \in Conns, NEW k \in Closers, SelectDone(c, k), Active(c),
             UNCHANGED <<close, track, users>>
      PROVE  Seated'
  <2>1. \A x \in Conns : closer'[x] # closer[x] => Active(x)
    BY <1>4 DEF SelectDone, TypeOK
  <2>2. \A x \in Conns, l \in Closers : closer'[x][l] # "idle" => Active(x)'
    BY <2>1, <1>1 DEF Seated
  <2>3. QED
    BY <1>4, <2>2, <1>1 DEF Seated, TypeOK, ConstantsAssumption
<1>5. ASSUME NEW c \in Conns, Leave(c) \/ IceFails(c) \/ CloseReplaced(c)
      PROVE  Seated'
  <2>1. Active(c)
    BY <1>5 DEF Leave, IceFails, CloseReplaced, Active, Seated, Closers
  <2>2. PICK k \in Closers : SelectDone(c, k)
    BY <1>5 DEF Leave, IceFails, CloseReplaced, Closers
  <2>3. UNCHANGED <<close, track, users>>
    BY <1>5 DEF Leave, IceFails, CloseReplaced, members, media
  <2>4. QED
    BY <2>1, <2>2, <2>3, <1>4
<1>6. ASSUME NEW c \in Conns, Active(c), UNCHANGED <<track, users>>,
             \A x \in Conns \ {c} : close'[x] = close[x] /\ closer'[x] = closer[x]
      PROVE  Seated'
  <2>1. ASSUME NEW x \in Conns
        PROVE  /\ close'[x] # "no" => Active(x)'
               /\ \A k \in Closers : closer'[x][k] # "idle" => Active(x)'
    <3>1. CASE x = c
      BY <1>6, <1>1, <3>1
    <3>2. CASE x # c
      BY <1>6, <1>1, <3>2 DEF Seated
    <3>3. QED
      BY <3>1, <3>2
  <2>2. \A t \in Tracks : track'[t] # "none" => Active(OwnerOf[t])'
    BY <1>6, <1>1, ConstantsAssumption DEF Seated
  <2>3. \A r \in Rooms, u \in Users :
          users'[r][u] # NoPeer =>
            /\ Active(users[r][u])'
            /\ room'[users'[r][u]] = r
            /\ UserOf[users'[r][u]] = u
    <3> SUFFICES ASSUME NEW r \in Rooms, NEW u \in Users, users[r][u] # NoPeer
                 PROVE  /\ Active(users[r][u])'
                        /\ room'[users[r][u]] = r
                        /\ UserOf[users[r][u]] = u
      BY <1>6
    <3>1. users[r][u] \in Conns
      BY DEF TypeOK
    <3>2. QED
      BY <3>1, <1>1, <1>6 DEF Seated, Active
  <2>4. QED
    BY <2>1, <2>2, <2>3 DEF Seated
<1>7. ASSUME NEW c \in Conns, NEW k \in Closers, CloseDone(c, k)
      PROVE  Seated'
  <2>1. Active(c)
    BY <1>7 DEF CloseDone, Seated
  <2>2. \A x \in Conns \ {c} : close'[x] = close[x] /\ closer'[x] = closer[x]
    BY <1>7 DEF CloseDone, TypeOK
  <2>3. QED
    BY <1>6, <1>7, <2>1, <2>2 DEF CloseDone, members, media
<1>8. ASSUME NEW c \in Conns, UnpublishPeerTracks(c) \/ StripTracks(c)
      PROVE  Seated'
  <2>1. Active(c)
    BY <1>8 DEF UnpublishPeerTracks, StripTracks, Seated
  <2>2. \A x \in Conns \ {c} : close'[x] = close[x] /\ closer'[x] = closer[x]
    BY <1>8 DEF UnpublishPeerTracks, StripTracks, TypeOK
  <2>3. QED
    BY <1>6, <1>8, <2>1, <2>2 DEF UnpublishPeerTracks, StripTracks, members, media
<1>9. ASSUME NEW c \in Conns, RemovePeer(c)
      PROVE  Seated'
  <2>1. Active(c)
    BY <1>9 DEF RemovePeer, Seated
  <2>2. \A r \in Rooms, u \in Users :
          users'[r][u] = users[r][u] \/ users'[r][u] = NoPeer
    BY <1>9 DEF RemovePeer, TypeOK
  <2>3. \A x \in Conns : close'[x] # close[x] => x = c
    BY <1>9 DEF RemovePeer, TypeOK
  <2>4. UNCHANGED <<closer, track, hpc, room>>
    BY <1>9 DEF RemovePeer, handlers, media
  <2>5. \A x \in Conns : close'[x] # "no" => Active(x)
    BY <2>1, <2>3 DEF Seated
  <2>6. \A r \in Rooms, u \in Users :
          users'[r][u] # NoPeer =>
            /\ Active(users'[r][u])
            /\ room[users'[r][u]] = r
            /\ UserOf[users'[r][u]] = u
    BY <2>2 DEF Seated
  <2>7. QED
    BY <2>4, <2>5, <2>6 DEF Seated, Active
<1>10. ASSUME NEW t \in Tracks,
              OnTrack(t) \/ RegisterTrack(t) \/ UnpublishTrack(t)
       PROVE  Seated'
  <2>1. Active(OwnerOf[t])
    BY <1>10 DEF OnTrack, RegisterTrack, UnpublishTrack, Active, Seated
  <2>2. \A x \in Tracks : track'[x] # track[x] => x = t
    BY <1>10 DEF OnTrack, RegisterTrack, UnpublishTrack, TypeOK
  <2>3. UNCHANGED <<close, closer, users, hpc, room>>
    BY <1>10 DEF OnTrack, RegisterTrack, UnpublishTrack, members, handlers, closing
  <2>4. \A x \in Tracks : track'[x] # "none" => Active(OwnerOf[x])
    BY <2>1, <2>2 DEF Seated
  <2>5. QED
    BY <2>3, <2>4 DEF Seated, Active
<1>11. CASE \E c \in Conns : GetOrCreate(c) \/ AddExisting(c) \/ Cleanup(c)
  BY <1>11, <1>2 DEF GetOrCreate, AddExisting, Cleanup, members, closing, media
<1>12. CASE \/ \E t \in Tracks : OfferTrack(t) \/ DropTrack(t)
            \/ \E r \in Rooms : Expire(r)
            \/ CleanupExpired
            \/ UNCHANGED vars
  BY <1>12, <1>2 DEF OfferTrack, DropTrack, Expire, CleanupExpired, vars,
                     members, closing, media
<1>13. QED
  BY <1>3, <1>5, <1>7, <1>8, <1>9, <1>10, <1>11, <1>12 DEF Next, Work, TrackWork

\* Every reachable state is well typed (the whole of room.go and peer.go).
THEOREM TypeCorrect == Spec => []TypeOK
<1>1. Init => TypeOK /\ Seated
  BY ConstantsAssumption
     DEF Init, TypeOK, Seated, HandlerSteps, CloserSteps, CloseSteps, TrackSteps
<1>2. QED
  BY <1>1, StepKeepsTypes, StepKeepsSeated, PTL DEF Spec

-----------------------------------------------------------------------------
\* A peer of a room has been entered there and the user's entry names it.
Occupied ==
  /\ Seated
  /\ \A r \in Rooms : \A c \in peers[r] : Active(c) /\ room[c] = r

IInv == TypeOK /\ Occupied /\ OnePlacePerUser

\* A room whose user's entry names old loses exactly one peer when old goes.
LEMMA OthersCount ==
  ASSUME TypeOK, OnePlacePerUser, NEW r \in Rooms, NEW u \in Users
  PROVE  LET others == peers[r] \ {users[r][u]} IN
         /\ IsFiniteSet(others)
         /\ Cardinality(others) \in Nat
         /\ Cardinality(others) <= Cardinality(peers[r])
         /\ users[r][u] # NoPeer => Cardinality(others) < MaxPeers
<1> DEFINE others == peers[r] \ {users[r][u]}
<1>1. IsFiniteSet(peers[r])
  BY FS_Subset, ConstantsAssumption DEF TypeOK, ConstantsAssumption
<1>2. /\ IsFiniteSet(others)
      /\ Cardinality(peers[r]) \in Nat
      /\ Cardinality(others) = IF users[r][u] \in peers[r]
                               THEN Cardinality(peers[r]) - 1 ELSE Cardinality(peers[r])
  BY <1>1, FS_RemoveElement, FS_CardinalityType
<1>3. Cardinality(others) \in Nat
  BY <1>2, FS_CardinalityType
<1>4. /\ Cardinality(peers[r]) <= MaxPeers
      /\ users[r][u] # NoPeer => users[r][u] \in peers[r]
  BY DEF OnePlacePerUser
<1> HIDE DEF others
<1>5. QED
  BY <1>2, <1>3, <1>4, ConstantsAssumption DEF ConstantsAssumption, others

\* Only AddPeer and RemovePeer change who is in a room.
LEMMA MembersChange ==
  ASSUME [Next]_vars
  PROVE  \/ UNCHANGED members
         \/ \E c \in Conns : AddPeer(c) \/ RemovePeer(c)
BY Zenon DEF Next, Work, TrackWork, GetOrCreate, AddExisting, Leave, Cleanup,
  IceFails, CloseReplaced, CloseDone, UnpublishPeerTracks, StripTracks, OnTrack,
  RegisterTrack, OfferTrack, UnpublishTrack, DropTrack, Expire, CleanupExpired,
  vars

LEMMA StepKeepsPlaces ==
  IInv /\ [Next]_vars => Occupied' /\ OnePlacePerUser'
<1> SUFFICES ASSUME IInv, [Next]_vars
             PROVE  Occupied' /\ OnePlacePerUser'
  OBVIOUS
<1> USE ConstantsAssumption DEF IInv
<1>1. Seated'
  BY StepKeepsSeated DEF Occupied
<1>2. CASE UNCHANGED members
  <2>1. \A r \in Rooms : \A c \in peers[r] : Active(c)' /\ room'[c] = r
    BY ActiveStays DEF Occupied, TypeOK
  <2>2. QED
    BY <1>1, <1>2, <2>1 DEF Occupied, OnePlacePerUser, members, Active
<1>3. ASSUME NEW c \in Conns, AddPeer(c)
      PROVE  Occupied' /\ OnePlacePerUser'
  <2> DEFINE r == room[c]
             u == UserOf[c]
             others == peers[r] \ {users[r][u]}
  <2>1. /\ r \in Rooms /\ u \in Users /\ ~Active(c) /\ c # NoPeer
        /\ \A q \in Rooms : c \notin peers[q]
    BY <1>3 DEF AddPeer, TypeOK, Active, Occupied, ConstantsAssumption
  <2>2. /\ IsFiniteSet(others) /\ Cardinality(others) \in Nat
        /\ Cardinality(others) <= Cardinality(peers[r])
        /\ users[r][u] # NoPeer => Cardinality(others) < MaxPeers
    BY <2>1, OthersCount
  <2>3. CASE Cardinality(others) >= MaxPeers
    <3>1. users[r][u] = NoPeer
      BY <2>2, <2>3, ConstantsAssumption DEF ConstantsAssumption
    <3>2. others = peers[r]
      BY <3>1, <2>1 DEF TypeOK, ConstantsAssumption
    <3>3. peers' = [peers EXCEPT ![r] = others] /\ users' = users
      BY <1>3, <2>3 DEF AddPeer
    <3>4. peers' = peers
      BY <3>2, <3>3, <2>1 DEF TypeOK
    <3>5. QED
      BY <3>3, <3>4, <1>2 DEF members
  <2>4. CASE Cardinality(others) < MaxPeers
    <3>1. /\ peers' = [peers EXCEPT ![r] = others \cup {c}]
          /\ users' = [users EXCEPT ![r][u] = c]
      BY <1>3, <2>2, <2>4 DEF AddPeer, ConstantsAssumption
    <3>2. Active(c)' /\ room'[c] = r
      BY <1>3, <2>2, <2>4 DEF AddPeer, Active, TypeOK, ConstantsAssumption
    <3>3. /\ \A q \in Rooms :
               peers'[q] = IF q = r THEN others \cup {c} ELSE peers[q]
          /\ \A q \in Rooms, x \in Users :
               users'[q][x] = IF q = r /\ x = u THEN c ELSE users[q][x]
      BY <3>1, <2>1 DEF TypeOK
    <3>4. \A q \in Rooms : Cardinality(peers'[q]) <= MaxPeers
      <4>1. c \notin others
        BY <2>1
      <4>2. Cardinality(others \cup {c}) = Cardinality(others) + 1
        BY <4>1, <2>2, FS_AddElement
      <4>3. Cardinality(others) + 1 <= MaxPeers
        BY <2>2, <2>4, ConstantsAssumption DEF ConstantsAssumption
      <4>4. Cardinality(others \cup {c}) <= MaxPeers
        BY <4>2, <4>3
      <4>5. QED
        BY <3>3, <4>4 DEF OnePlacePerUser
    <3> HIDE DEF r, u
    <3>5. \A q \in Rooms : \A x \in peers'[q] :
            /\ users'[q][UserOf[x]] = x
            /\ Active(x)' /\ room'[x] = q
      <4> SUFFICES ASSUME NEW q \in Rooms, NEW x \in peers'[q]
                   PROVE  /\ users'[q][UserOf[x]] = x
                          /\ Active(x)' /\ room'[x] = q
        OBVIOUS
      <4>1. CASE x = c /\ q = r
        BY <4>1, <3>2, <3>3, <2>1, u = UserOf[c] DEF u
      <4>2. CASE x # c \/ q # r
        <5>1. x \in peers[q] /\ x \in Conns /\ UserOf[x] \in Users
          BY <4>2, <3>3, <2>1 DEF TypeOK, ConstantsAssumption
        <5>2. users[q][UserOf[x]] = x
          BY <5>1 DEF OnePlacePerUser
        <5>3. ~(q = r /\ UserOf[x] = u)
          BY <5>2, <4>2, <3>3
        <5>4. users'[q][UserOf[x]] = x
          BY <5>1, <5>2, <5>3, <3>3
        <5>5. Active(x)' /\ room'[x] = q
          BY <5>1, ActiveStays DEF Occupied
        <5>6. QED
          BY <5>4, <5>5
      <4>3. QED
        BY <4>1, <4>2
    <3>6. \A q \in Rooms, x \in Users : users'[q][x] # NoPeer =>
            users'[q][x] \in peers'[q] /\ UserOf[users'[q][x]] = x
      <4> SUFFICES ASSUME NEW q \in Rooms, NEW x \in Users, users'[q][x] # NoPeer
                   PROVE  users'[q][x] \in peers'[q] /\ UserOf[users'[q][x]] = x
        OBVIOUS
      <4>1. CASE q = r /\ x = u
        BY <4>1, <3>3 DEF u
      <4>2. CASE ~(q = r /\ x = u)
        <5>1. /\ users'[q][x] = users[q][x]
              /\ users[q][x] \in peers[q] /\ UserOf[users[q][x]] = x
          BY <4>2, <3>3 DEF OnePlacePerUser
        <5>2. q = r => users[q][x] # users[r][u]
          BY <5>1, <4>2, <2>1 DEF OnePlacePerUser
        <5>3. QED
          BY <5>1, <5>2, <3>3
      <4>3. QED
        BY <4>1, <4>2
    <3>7. QED
      BY <1>1, <3>4, <3>5, <3>6 DEF Occupied, OnePlacePerUser, Active
  <2>5. QED
    BY <2>2, <2>3, <2>4, ConstantsAssumption DEF ConstantsAssumption
<1>4. ASSUME NEW c \in Conns, RemovePeer(c)
      PROVE  Occupied' /\ OnePlacePerUser'
  <2> DEFINE r == room[c]
             u == UserOf[c]
  <2>1. r \in Rooms /\ u \in Users /\ c # NoPeer
    BY <1>4, ActiveHasRoom DEF RemovePeer, Occupied, Seated, ConstantsAssumption
  <2>2. /\ \A q \in Rooms : peers'[q] = IF q = r THEN peers[q] \ {c} ELSE peers[q]
        /\ \A q \in Rooms, x \in Users :
             users'[q][x] = IF q = r /\ x = u /\ c \in peers[r] /\ users[r][u] = c
                            THEN NoPeer ELSE users[q][x]
    BY <1>4, <2>1 DEF RemovePeer, TypeOK
  <2>3. \A q \in Rooms : Cardinality(peers'[q]) <= MaxPeers
    <3>1. IsFiniteSet(peers[r]) /\ Cardinality(peers[r]) <= MaxPeers
      BY <2>1, FS_Subset, ConstantsAssumption
         DEF TypeOK, OnePlacePerUser, ConstantsAssumption
    <3>2. /\ Cardinality(peers[r]) \in Nat
          /\ Cardinality(peers[r] \ {c}) = IF c \in peers[r]
               THEN Cardinality(peers[r]) - 1 ELSE Cardinality(peers[r])
      BY <3>1, FS_RemoveElement, FS_CardinalityType
    <3>3. Cardinality(peers[r] \ {c}) <= MaxPeers
      BY <3>1, <3>2, ConstantsAssumption DEF ConstantsAssumption
    <3>4. QED
      BY <2>2, <3>3 DEF OnePlacePerUser
  <2> HIDE DEF r, u
  <2>4. \A q \in Rooms : \A x \in peers'[q] :
          /\ users'[q][UserOf[x]] = x
          /\ Active(x)' /\ room'[x] = q
    <3> SUFFICES ASSUME NEW q \in Rooms, NEW x \in peers'[q]
                 PROVE  /\ users'[q][UserOf[x]] = x
                        /\ Active(x)' /\ room'[x] = q
      OBVIOUS
    <3>1. /\ x \in peers[q] /\ x \in Conns /\ UserOf[x] \in Users
          /\ q = r => x # c
      <4>1. x \in peers[q] /\ (q = r => x # c)
        BY <2>2
      <4>2. peers[q] \subseteq Conns
        BY DEF TypeOK
      <4>3. QED
        BY <4>1, <4>2, ConstantsAssumption DEF ConstantsAssumption
    <3>2. users[q][UserOf[x]] = x
      BY <3>1 DEF OnePlacePerUser
    <3>3. users'[q][UserOf[x]] = x
      BY <3>1, <3>2, <2>2
    <3>4. Active(x)' /\ room'[x] = q
      BY <3>1, ActiveStays DEF Occupied
    <3>5. QED
      BY <3>3, <3>4
  <2>5. \A q \in Rooms, x \in Users : users'[q][x] # NoPeer =>
          users'[q][x] \in peers'[q] /\ UserOf[users'[q][x]] = x
    <3> SUFFICES ASSUME NEW q \in Rooms, NEW x \in Users, users'[q][x] # NoPeer
                 PROVE  users'[q][x] \in peers'[q] /\ UserOf[users'[q][x]] = x
      OBVIOUS
    <3>1. /\ users'[q][x] = users[q][x]
          /\ users[q][x] \in peers[q] /\ UserOf[users[q][x]] = x
      BY <2>2 DEF OnePlacePerUser
    <3>2. q = r => users[q][x] # c
      BY <3>1, <2>2 DEF u
    <3>3. QED
      BY <3>1, <3>2, <2>2
  <2>6. QED
    BY <1>1, <2>3, <2>4, <2>5 DEF Occupied, OnePlacePerUser, Active
<1>5. QED
  BY <1>2, <1>3, <1>4, MembersChange

\* The inductive invariant behind the two theorems below.
THEOREM Inductive == Spec => []IInv
<1>1. Init => Seated
  BY ConstantsAssumption DEF Init, Seated
<1>2. Init => Occupied /\ OnePlacePerUser
  BY <1>1, FS_EmptySet, ConstantsAssumption
     DEF Init, Occupied, OnePlacePerUser, ConstantsAssumption
<1>3. IInv /\ [Next]_vars => IInv'
  BY StepKeepsPlaces, StepKeepsTypes DEF IInv, Occupied
<1>4. QED
  BY <1>2, <1>3, TypeCorrect, PTL DEF Spec, IInv

\* Room.AddPeer and Room.RemovePeer keep at most MaxPeers peers and one peer
\* per user, the one users names, in whatever order closes and joins come.
THEOREM PlacesAreUnique == Spec => []OnePlacePerUser
<1>1. IInv => OnePlacePerUser
  BY DEF IInv
<1>2. QED
  BY <1>1, Inductive, PTL

\* Room.AddPeer never answers "room is full" to a user that has a place.
THEOREM RejoinIsNeverRefused == Spec => RejoinNeverRefused
<1>1. IInv /\ [Next]_vars =>
        \A c \in Conns : (hpc[c] = "got" /\ hpc'[c] = "open") =>
                           users[room[c]][UserOf[c]] = NoPeer
  <2> SUFFICES ASSUME IInv, [Next]_vars, NEW c \in Conns,
                      hpc[c] = "got", hpc'[c] = "open"
               PROVE  users[room[c]][UserOf[c]] = NoPeer
    OBVIOUS
  <2>1. AddPeer(c)
    <3>1. TypeOK
      BY DEF IInv
    <3>2. hpc' # hpc
      OBVIOUS
    <3>3. PICK x \in Conns : \/ GetOrCreate(x) \/ AddPeer(x) \/ AddExisting(x)
                             \/ Leave(x) \/ Cleanup(x)
      BY <3>2, Zenon DEF Next, Work, TrackWork, IceFails, CloseReplaced, CloseDone,
        RemovePeer, UnpublishPeerTracks, StripTracks, OnTrack, RegisterTrack,
        OfferTrack, UnpublishTrack, DropTrack, Expire, CleanupExpired, vars,
        handlers
    <3>4. ~(GetOrCreate(x) \/ AddExisting(x) \/ Leave(x) \/ Cleanup(x))
      <4>1. hpc \in [Conns -> HandlerSteps]
        BY <3>1 DEF TypeOK
      <4>2. GetOrCreate(x) => hpc' = hpc \/ hpc' = [hpc EXCEPT ![x] = "got"]
        BY DEF GetOrCreate
      <4>3. AddExisting(x) => hpc' = hpc \/ hpc' = [hpc EXCEPT ![x] = "joined"]
        BY DEF AddExisting
      <4>4. Leave(x) \/ Cleanup(x) =>
              hpc' = [hpc EXCEPT ![x] = "leaving"] \/ hpc' = [hpc EXCEPT ![x] = "gone"]
        BY DEF Leave, Cleanup
      <4>5. QED
        BY <4>1, <4>2, <4>3, <4>4
    <3>5. AddPeer(x) /\ x = c
      BY <3>1, <3>3, <3>4 DEF AddPeer, TypeOK
    <3>6. QED
      BY <3>5
  <2> DEFINE others == peers[room[c]] \ {users[room[c]][UserOf[c]]}
  <2>2. Cardinality(others) >= MaxPeers
    BY <2>1 DEF AddPeer, IInv, TypeOK
  <2>3. room[c] \in Rooms /\ UserOf[c] \in Users
    BY ConstantsAssumption DEF IInv, TypeOK, ConstantsAssumption
  <2>4. /\ Cardinality(others) \in Nat
        /\ users[room[c]][UserOf[c]] # NoPeer => Cardinality(others) < MaxPeers
    BY <2>3, OthersCount DEF IInv
  <2> HIDE DEF others
  <2>5. QED
    BY <2>2, <2>4, ConstantsAssumption DEF ConstantsAssumption
<1>2. QED
  BY <1>1, Inductive, PTL DEF RejoinNeverRefused, Spec

-----------------------------------------------------------------------------
(* Tracks and the clocks of empty rooms *)

\* A published track is in the room of its owner.
PublishedHere ==
  \A r \in Rooms : \A t \in published[r] : Active(OwnerOf[t]) /\ room[OwnerOf[t]] = r

\* A peer that is no longer in its room is being closed or has been replaced.
Departed ==
  \A c \in Conns : Active(c) /\ c \notin peers[room[c]] =>
                     close[c] # "no" \/ closer[c]["replace"] # "idle"

RoomInv == Departed /\ PublishedHere /\ NoMissingTrack

LEMMA OwnerIsActive ==
  ASSUME TypeOK, Seated, NEW t \in Tracks, track[t] # "none"
  PROVE  OwnerOf[t] \in Conns /\ Active(OwnerOf[t]) /\ room[OwnerOf[t]] \in Rooms
BY ActiveHasRoom, ConstantsAssumption DEF Seated, ConstantsAssumption

LEMMA StepKeepsPublished ==
  ASSUME TypeOK, Seated, PublishedHere, [Next]_vars
  PROVE  PublishedHere'
<1>1. \A c \in Conns : Active(c) => Active(c)' /\ room'[c] = room[c]
  BY ActiveStays
<1>2. \/ UNCHANGED published
      \/ \E t \in Tracks : RegisterTrack(t) \/ UnpublishTrack(t)
      \/ \E c \in Conns : UnpublishPeerTracks(c)
  BY Zenon DEF Next, Work, TrackWork, GetOrCreate, AddPeer, AddExisting, Leave, Cleanup,
    IceFails, CloseReplaced, CloseDone, RemovePeer, StripTracks, OnTrack, OfferTrack,
    DropTrack, Expire, CleanupExpired, vars
<1>3. \A r \in Rooms : published[r] \subseteq Tracks
  BY DEF TypeOK
<1>4. \A t \in Tracks : OwnerOf[t] \in Conns
  BY ConstantsAssumption DEF ConstantsAssumption
<1>5. ASSUME \A r \in Rooms : published'[r] \subseteq published[r]
      PROVE  PublishedHere'
  <2>1. ASSUME NEW r \in Rooms, NEW t \in published'[r]
        PROVE  Active(OwnerOf[t])' /\ room'[OwnerOf[t]] = r
    <3>1. t \in published[r] /\ OwnerOf[t] \in Conns
      BY <1>3, <1>4, <1>5, <2>1
    <3>2. QED
      BY <1>1, <3>1 DEF PublishedHere
  <2>2. QED
    BY <2>1 DEF PublishedHere, Active
<1>6. ASSUME NEW t \in Tracks, RegisterTrack(t)
      PROVE  PublishedHere'
  <2> DEFINE r == room[OwnerOf[t]]
  <2>1. r \in Rooms /\ OwnerOf[t] \in Conns /\ Active(OwnerOf[t])
    BY <1>6, OwnerIsActive DEF RegisterTrack
  <2>2. \A q \in Rooms : published'[q] = IF q = r THEN published[q] \cup {t} ELSE published[q]
    BY <1>6, <2>1 DEF RegisterTrack, TypeOK
  <2>3. ASSUME NEW q \in Rooms, NEW x \in published'[q]
        PROVE  Active(OwnerOf[x])' /\ room'[OwnerOf[x]] = q
    <3>1. CASE x \in published[q]
      BY <1>1, <1>3, <1>4, <3>1 DEF PublishedHere
    <3>2. CASE x = t /\ q = r
      BY <1>1, <2>1, <3>2
    <3>3. QED
      BY <2>2, <3>1, <3>2
  <2>4. QED
    BY <2>3 DEF PublishedHere, Active
<1>7. ASSUME NEW t \in Tracks, UnpublishTrack(t)
      PROVE  \A r \in Rooms : published'[r] \subseteq published[r]
  BY <1>7 DEF UnpublishTrack, TypeOK
<1>8. ASSUME NEW c \in Conns, UnpublishPeerTracks(c)
      PROVE  \A r \in Rooms : published'[r] \subseteq published[r]
  BY <1>8 DEF UnpublishPeerTracks, TypeOK
<1>9. QED
  BY <1>2, <1>5, <1>6, <1>7, <1>8

LEMMA CloseGrows ==
  ASSUME TypeOK, [Next]_vars
  PROVE  \A c \in Conns : /\ close[c] # "no" => close'[c] # "no"
                          /\ closer[c]["replace"] # "idle" => closer'[c]["replace"] # "idle"
<1> "replace" \in Closers
  BY DEF Closers
<1>1. \/ UNCHANGED <<close, closer>>
      \/ \E c \in Conns : \/ AddPeer(c) \/ Leave(c) \/ IceFails(c) \/ CloseReplaced(c)
                          \/ RemovePeer(c) \/ UnpublishPeerTracks(c) \/ StripTracks(c)
                          \/ \E k \in Closers : CloseDone(c, k)
  BY Zenon DEF Next, Work, TrackWork, GetOrCreate, AddExisting, Cleanup, OnTrack, RegisterTrack,
    OfferTrack, UnpublishTrack, DropTrack, Expire, CleanupExpired, vars, closing
<1> DEFINE Grows(x) == /\ close[x] # "no" => close'[x] # "no"
                       /\ closer[x]["replace"] # "idle" => closer'[x]["replace"] # "idle"
<1>2. ASSUME NEW c \in Conns, AddPeer(c), NEW x \in Conns
      PROVE  Grows(x)
  <2>1. \/ closer' = closer
        \/ closer' = [closer EXCEPT ![users[room[c]][UserOf[c]]]["replace"] = "called"]
    BY <1>2 DEF AddPeer
  <2>2. closer[x]["replace"] # "idle" => closer'[x]["replace"] # "idle"
    <3>1. closer \in [Conns -> [Closers -> CloserSteps]]
      BY DEF TypeOK
    <3> DEFINE old == users[room[c]][UserOf[c]]
    <3>2. closer' = closer \/ closer' = [closer EXCEPT ![old]["replace"] = "called"]
      BY <2>1
    <3> HIDE DEF old
    <3>3. QED
      BY <3>1, <3>2
  <2>3. close' = close
    BY <1>2 DEF AddPeer
  <2>4. QED
    BY <2>2, <2>3
<1>3. ASSUME NEW c \in Conns, Leave(c) \/ IceFails(c) \/ CloseReplaced(c), NEW x \in Conns
      PROVE  Grows(x)
  <2>1. close' = close
    BY <1>3 DEF Leave, IceFails, CloseReplaced
  <2>2. PICK k \in Closers : closer' = [closer EXCEPT ![c][k] = IF close[c] = "no" THEN "selected" ELSE "back"]
    BY <1>3 DEF Leave, IceFails, CloseReplaced, SelectDone, Closers
  <2>3. QED
    BY <2>1, <2>2 DEF TypeOK
<1>4. ASSUME NEW c \in Conns, RemovePeer(c) \/ UnpublishPeerTracks(c), NEW x \in Conns
      PROVE  Grows(x)
  <2>1. closer' = closer /\ \E s \in {"unpublish", "strip"} : close' = [close EXCEPT ![c] = s]
    BY <1>4 DEF RemovePeer, UnpublishPeerTracks
  <2>2. QED
    BY <2>1 DEF TypeOK
<1>5. ASSUME NEW c \in Conns, StripTracks(c), NEW x \in Conns
      PROVE  Grows(x)
  <2>1. \/ UNCHANGED <<close, closer>>
        \/ /\ close' = [close EXCEPT ![c] = "done"]
           /\ closer' = [closer EXCEPT ![c] =
                [k \in Closers |-> IF closer[c][k] = "closing" THEN "back" ELSE closer[c][k]]]
    BY <1>5 DEF StripTracks
  <2>2. close \in [Conns -> CloseSteps] /\ closer \in [Conns -> [Closers -> CloserSteps]]
    BY DEF TypeOK
  <2>3. close[x] # "no" => close'[x] # "no"
    BY <2>1, <2>2
  <2>4. closer[x]["replace"] # "idle" => closer'[x]["replace"] # "idle"
    <3>1. CASE closer' = closer
      BY <3>1
    <3>2. CASE closer' # closer
      <4>1. closer'[x]["replace"] = IF x = c /\ closer[x]["replace"] = "closing" THEN "back"
                                    ELSE closer[x]["replace"]
        BY <2>1, <2>2, <3>2
      <4>2. QED
        BY <4>1
    <3>3. QED
      BY <3>1, <3>2
  <2>5. QED
    BY <2>3, <2>4
<1>6. ASSUME NEW c \in Conns, NEW k \in Closers, CloseDone(c, k), NEW x \in Conns
      PROVE  Grows(x)
  <2>1. \/ UNCHANGED <<close, closer>>
        \/ /\ close' = [close EXCEPT ![c] = "remove"]
           /\ closer' = [closer EXCEPT ![c][k] = "closing"]
    BY <1>6 DEF CloseDone
  <2>2. close \in [Conns -> CloseSteps] /\ closer \in [Conns -> [Closers -> CloserSteps]]
    BY DEF TypeOK
  <2>3. close[x] # "no" => close'[x] # "no"
    BY <2>1, <2>2
  <2>4. closer[x]["replace"] # "idle" => closer'[x]["replace"] # "idle"
    BY <2>1, <2>2
  <2>5. QED
    BY <2>3, <2>4
<1>7. QED
  BY <1>1, <1>2, <1>3, <1>4, <1>5, <1>6

\* AddPeer enters the connection and takes out the peer it replaces, or, when
\* the room is full, changes nothing in it.
LEMMA AddEffect ==
  ASSUME IInv, NEW c \in Conns, AddPeer(c)
  PROVE  LET r == room[c]
             old == users[r][UserOf[c]]
         IN /\ r \in Rooms /\ ~Active(c)
            /\ \/ /\ UNCHANGED <<peers, clock, closer, todo>>
                  /\ hpc'[c] = "open"
               \/ /\ \A q \in Rooms : peers'[q] = IF q = r THEN (peers[r] \ {old}) \cup {c} ELSE peers[q]
                  /\ clock' = [clock EXCEPT ![r] = "off"]
                  /\ old # NoPeer => old \in Conns /\ closer'[old]["replace"] # "idle"
                  /\ todo' = [todo EXCEPT ![c] = published[r]]
                  /\ room' = room /\ hpc'[c] = "add"
            /\ \A x \in Conns : x # c => hpc'[x] = hpc[x] /\ room'[x] = room[x]
            /\ UNCHANGED <<published, close, track, offer, bound, made>>
<1> USE ConstantsAssumption DEF IInv
<1> DEFINE r == room[c]
           old == users[r][UserOf[c]]
           others == peers[r] \ {old}
<1>1. /\ r \in Rooms /\ UserOf[c] \in Users /\ ~Active(c)
      /\ old \in Conns \cup {NoPeer}
  BY DEF AddPeer, TypeOK, Active, ConstantsAssumption
<1>2. /\ Cardinality(others) \in Nat
      /\ users[r][UserOf[c]] # NoPeer => Cardinality(others) < MaxPeers
  BY <1>1, OthersCount
<1>3. /\ UNCHANGED <<published, close, track, offer, bound, made>>
      /\ \A x \in Conns : x # c => hpc'[x] = hpc[x] /\ room'[x] = room[x]
  BY DEF AddPeer, manager, media, TypeOK
<1>4. CASE Cardinality(others) >= MaxPeers
  <2>1. old = NoPeer
    BY <1>2, <1>4 DEF ConstantsAssumption
  <2>2. others = peers[r]
    BY <1>1, <2>1 DEF TypeOK, ConstantsAssumption
  <2>3. /\ peers' = [peers EXCEPT ![r] = others]
        /\ hpc' = [hpc EXCEPT ![c] = "open"] /\ UNCHANGED <<clock, closer, todo>>
    BY <1>4 DEF AddPeer
  <2>4. peers' = peers /\ hpc'[c] = "open"
    BY <1>1, <2>2, <2>3 DEF TypeOK
  <2>5. QED
    BY <1>1, <1>3, <2>3, <2>4
<1>5. CASE ~(Cardinality(others) >= MaxPeers)
  <2>1. /\ peers' = [peers EXCEPT ![r] = others \cup {c}]
        /\ clock' = [clock EXCEPT ![r] = "off"]
        /\ closer' = IF old = NoPeer THEN closer ELSE [closer EXCEPT ![old]["replace"] = "called"]
        /\ todo' = [todo EXCEPT ![c] = published[r]]
        /\ room' = room /\ hpc'[c] = "add"
    BY <1>5 DEF AddPeer, TypeOK
  <2>2. old # NoPeer => old \in Conns /\ closer'[old]["replace"] # "idle"
    BY <1>1, <2>1 DEF TypeOK, Closers
  <2>3. \A q \in Rooms : peers'[q] = IF q = r THEN others \cup {c} ELSE peers[q]
    BY <1>1, <2>1 DEF TypeOK
  <2>4. QED
    BY <1>1, <1>3, <2>1, <2>2, <2>3
<1>6. QED
  BY <1>4, <1>5

LEMMA StepKeepsDeparted ==
  ASSUME IInv, Departed, [Next]_vars
  PROVE  Departed'
<1> USE DEF IInv
<1>1. \A c \in Conns : Active(c) => Active(c)' /\ room'[c] = room[c]
  BY ActiveStays
<1>2. \A c \in Conns : /\ close[c] # "no" => close'[c] # "no"
                       /\ closer[c]["replace"] # "idle" => closer'[c]["replace"] # "idle"
  BY CloseGrows
<1>3. \A c \in Conns : Active(c) => room[c] \in Rooms
  BY ActiveHasRoom
<1>4. ASSUME NEW c \in Conns, AddPeer(c)
      PROVE  Departed'
  <2> DEFINE r == room[c]
             old == users[r][UserOf[c]]
  <2>1. /\ r \in Rooms /\ ~Active(c)
        /\ \/ UNCHANGED peers /\ hpc'[c] = "open"
           \/ /\ \A q \in Rooms : peers'[q] = IF q = r THEN (peers[r] \ {old}) \cup {c} ELSE peers[q]
              /\ old # NoPeer => old \in Conns /\ closer'[old]["replace"] # "idle"
              /\ room'[c] = r /\ c \in Conns
        /\ \A x \in Conns : x # c => hpc'[x] = hpc[x] /\ room'[x] = room[x]
    BY <1>4, AddEffect
  <2> HIDE DEF old, r
  <2>2. ASSUME NEW x \in Conns, Active(x)', x \notin peers'[room'[x]]
        PROVE  close'[x] # "no" \/ closer'[x]["replace"] # "idle"
    <3>1. x # c
      BY <2>1, <2>2 DEF Active
    <3>2. Active(x) /\ room'[x] = room[x] /\ room[x] \in Rooms
      BY <1>3, <2>1, <2>2, <3>1 DEF Active
    <3>3. CASE x \in peers[room[x]]
      <4>1. x = old
        BY <2>1, <2>2, <3>2, <3>3
      <4>2. old # NoPeer
        BY <4>1, ConstantsAssumption DEF ConstantsAssumption
      <4>3. QED
        BY <2>1, <2>2, <3>2, <3>3, <4>1, <4>2
    <3>4. CASE x \notin peers[room[x]]
      BY <1>2, <3>2, <3>4 DEF Departed
    <3>5. QED
      BY <3>3, <3>4
  <2>3. QED
    BY <2>2 DEF Departed
<1>5. ASSUME NEW c \in Conns, RemovePeer(c)
      PROVE  Departed'
  <2>1. hpc' = hpc /\ room' = room /\ close'[c] # "no" /\ c \in Conns
    BY <1>5 DEF RemovePeer, handlers, TypeOK
  <2>2. \A r \in Rooms, x \in Conns : x # c => (x \in peers[r] => x \in peers'[r])
    BY <1>5 DEF RemovePeer, TypeOK
  <2>3. QED
    BY <1>2, <1>3, <2>1, <2>2 DEF Departed, Active
<1>6. ASSUME peers' = peers
      PROVE  Departed'
  <2>1. ASSUME NEW x \in Conns, Active(x)', x \notin peers'[room'[x]]
        PROVE  close'[x] # "no" \/ closer'[x]["replace"] # "idle"
    <3>1. CASE Active(x)
      BY <1>1, <1>2, <1>6, <2>1, <3>1 DEF Departed
    <3>2. CASE ~Active(x)
      <4>1. PICK c \in Conns : AddPeer(c)
        <5>1. hpc' # hpc
          BY <2>1, <3>2 DEF Active
        <5>2. PICK c \in Conns : GetOrCreate(c) \/ AddPeer(c) \/ AddExisting(c) \/ Leave(c) \/ Cleanup(c)
          BY <5>1, Zenon DEF Next, Work, TrackWork, IceFails, CloseReplaced, CloseDone,
            RemovePeer, UnpublishPeerTracks, StripTracks, OnTrack, RegisterTrack,
            OfferTrack, UnpublishTrack, DropTrack, Expire, CleanupExpired, vars, handlers
        <5>3. ~(GetOrCreate(c) \/ AddExisting(c) \/ Leave(c) \/ Cleanup(c))
          <6>1. hpc \in [Conns -> HandlerSteps]
            BY DEF TypeOK
          <6>2. GetOrCreate(c) => hpc[c] = "open" /\ (hpc' = hpc \/ hpc' = [hpc EXCEPT ![c] = "got"])
            BY DEF GetOrCreate
          <6>3. AddExisting(c) => hpc[c] = "add" /\ (hpc' = hpc \/ hpc' = [hpc EXCEPT ![c] = "joined"])
            BY DEF AddExisting
          <6>4. Leave(c) \/ Cleanup(c) => hpc[c] \in {"joined", "leaving"} /\
                  (hpc' = [hpc EXCEPT ![c] = "leaving"] \/ hpc' = [hpc EXCEPT ![c] = "gone"])
            BY DEF Leave, Cleanup
          <6>5. QED
            BY <2>1, <3>2, <5>1, <6>1, <6>2, <6>3, <6>4 DEF Active
        <5>4. QED
          BY <5>2, <5>3
      <4>2. QED
        BY <1>4, <2>1, <4>1 DEF Departed
    <3>3. QED
      BY <3>1, <3>2
  <2>2. QED
    BY <2>1 DEF Departed
<1>7. QED
  BY <1>4, <1>5, <1>6, MembersChange DEF members

\* A track that its reader has begun or ended is never taken back, nor is the
\* end of a Close.
LEMMA TracksAdvance ==
  ASSUME TypeOK, [Next]_vars
  PROVE  /\ \A t \in Tracks :
              /\ track[t] = "dropping" => track'[t] = "dropping"
              /\ track[t] \in {"offering", "dropping"} => track'[t] \in {"offering", "dropping"}
         /\ \A c \in Conns : close[c] = "done" => close'[c] = "done"
<1>1. \A t \in Tracks :
        /\ track[t] = "dropping" => track'[t] = "dropping"
        /\ track[t] \in {"offering", "dropping"} => track'[t] \in {"offering", "dropping"}
  <2>1. \/ UNCHANGED track
        \/ \E t \in Tracks : OnTrack(t) \/ RegisterTrack(t) \/ UnpublishTrack(t)
    BY Zenon DEF Next, Work, TrackWork, GetOrCreate, AddPeer, AddExisting, Leave, Cleanup,
      IceFails, CloseReplaced, CloseDone, RemovePeer, UnpublishPeerTracks, StripTracks,
      OfferTrack, DropTrack, Expire, CleanupExpired, vars, media
  <2>2. track \in [Tracks -> TrackSteps]
    BY DEF TypeOK
  <2>3. ASSUME NEW t \in Tracks, OnTrack(t) \/ RegisterTrack(t) \/ UnpublishTrack(t)
        PROVE  \/ track[t] \in {"none", "arrived"} /\ \E s : track' = [track EXCEPT ![t] = s]
               \/ track' = [track EXCEPT ![t] = "dropping"]
    BY <2>3 DEF OnTrack, RegisterTrack, UnpublishTrack
  <2>4. QED
    BY <2>1, <2>2, <2>3
<1>2. \A c \in Conns : close[c] = "done" => close'[c] = "done"
  <2>1. \/ UNCHANGED close
        \/ \E c \in Conns : \/ RemovePeer(c) \/ UnpublishPeerTracks(c) \/ StripTracks(c)
                            \/ \E k \in Closers : CloseDone(c, k)
    BY Zenon DEF Next, Work, TrackWork, GetOrCreate, AddPeer, AddExisting, Leave, Cleanup,
      IceFails, CloseReplaced, OnTrack, RegisterTrack, OfferTrack, UnpublishTrack, DropTrack,
      Expire, CleanupExpired, vars, closing
  <2>2. close \in [Conns -> CloseSteps]
    BY DEF TypeOK
  <2>3. ASSUME NEW c \in Conns,
               \/ RemovePeer(c) \/ UnpublishPeerTracks(c) \/ StripTracks(c)
               \/ \E k \in Closers : CloseDone(c, k)
        PROVE  close' = close \/ (close[c] # "done" /\ \E s : close' = [close EXCEPT ![c] = s])
    BY <2>3 DEF RemovePeer, UnpublishPeerTracks, StripTracks, CloseDone
  <2>4. QED
    BY <2>1, <2>2, <2>3
<1>3. QED
  BY <1>1, <1>2

-----------------------------------------------------------------------------
LEMMA StepStopsNoClock ==
  ASSUME IInv, Departed, [Next]_vars, NEW r \in Rooms,
         peers'[r] = {}, clock'[r] = "off", ~(peers[r] = {} /\ clock[r] = "off")
  PROVE  /\ peers[r] = {}
         /\ \E t \in Tracks : /\ room[OwnerOf[t]] = r
                             /\ track[t] = "arrived" /\ track'[t] = "offering"
                             /\ \/ close[OwnerOf[t]] # "no"
                                \/ closer[OwnerOf[t]]["replace"] # "idle"
<1> USE DEF IInv
<1>1. ASSUME NEW c \in Conns, AddPeer(c)
      PROVE  FALSE
  <2>1. \/ UNCHANGED <<clock, peers>>
        \/ UNCHANGED clock /\ \A q \in Rooms : peers[q] # {} => peers'[q] # {}
        \/ /\ c \in peers'[room[c]]
           /\ clock' = [clock EXCEPT ![room[c]] = "off"]
           /\ \A q \in Rooms : q # room[c] => peers'[q] = peers[q]
    BY <1>1, AddEffect
  <2>2. QED
    BY <2>1 DEF TypeOK
<1>2. ASSUME NEW c \in Conns, RemovePeer(c)
      PROVE  FALSE
  BY <1>2 DEF RemovePeer, TypeOK
<1>3. ASSUME NEW q \in Rooms, Expire(q)
      PROVE  FALSE
  BY <1>3 DEF Expire, TypeOK, members
<1>4. ASSUME NEW t \in Tracks, RegisterTrack(t)
      PROVE  /\ peers[r] = {} /\ room[OwnerOf[t]] = r
             /\ track[t] = "arrived" /\ track'[t] = "offering"
             /\ close[OwnerOf[t]] # "no" \/ closer[OwnerOf[t]]["replace"] # "idle"
  <2> DEFINE c == OwnerOf[t]
  <2>1. c \in Conns /\ Active(c) /\ room[c] \in Rooms
    BY <1>4, OwnerIsActive DEF RegisterTrack, Occupied
  <2>2. UNCHANGED peers /\ track[t] = "arrived" /\ track'[t] = "offering"
    BY <1>4 DEF RegisterTrack, members, TypeOK
  <2>3. room[c] = r
    BY <1>4, <2>1, <2>2 DEF RegisterTrack, TypeOK
  <2>4. close[c] # "no" \/ closer[c]["replace"] # "idle"
    BY <2>1, <2>2, <2>3 DEF Departed
  <2>5. QED
    BY <2>2, <2>3, <2>4
<1>5. ASSUME UNCHANGED <<peers, clock>>
      PROVE  FALSE
  BY <1>5
<1>6. \/ UNCHANGED <<peers, clock>>
      \/ \E c \in Conns : AddPeer(c) \/ RemovePeer(c)
      \/ \E t \in Tracks : RegisterTrack(t)
      \/ \E q \in Rooms : Expire(q)
  BY Zenon DEF Next, Work, TrackWork, GetOrCreate, AddExisting, Leave, Cleanup,
    IceFails, CloseReplaced, CloseDone, UnpublishPeerTracks, StripTracks, OnTrack,
    OfferTrack, UnpublishTrack, DropTrack, CleanupExpired, members, vars
<1>7. QED
  BY <1>1, <1>2, <1>3, <1>4, <1>5, <1>6

-----------------------------------------------------------------------------
\* q is to be sent t, whose publisher is not closing and has no track that ended.
Wanted(q, t) ==
  /\ q # OwnerOf[t] /\ PcOpen(q) /\ close[OwnerOf[t]] = "no"
  /\ \A x \in TracksOf(OwnerOf[t]) : track[x] # "dropping"

\* q is sent t, or a goroutine still has it to add.
Has(q, t) == t \in bound[q] \/ t \in todo[q] \/ q \in offer[t]

LEMMA WantedShrinks ==
  ASSUME TypeOK, [Next]_vars, NEW q \in Conns, NEW t \in Tracks, Wanted(q, t)'
  PROVE  Wanted(q, t)
<1>1. OwnerOf[t] \in Conns /\ TracksOf(OwnerOf[t]) \subseteq Tracks
  BY ConstantsAssumption DEF ConstantsAssumption, TracksOf
<1>2. close[OwnerOf[t]] = "no"
  BY <1>1, CloseGrows DEF Wanted
<1>3. PcOpen(q) /\ \A x \in TracksOf(OwnerOf[t]) : track[x] # "dropping"
  BY <1>1, TracksAdvance DEF Wanted, PcOpen
<1>4. QED
  BY <1>2, <1>3 DEF Wanted

LEMMA WantedIsKept ==
  ASSUME IInv, PublishedHere, [Next]_vars,
         NEW r \in Rooms, NEW q \in peers[r], NEW t \in published[r], Wanted(q, t)', Has(q, t)
  PROVE  Has(q, t)'
<1> USE DEF IInv
<1>1. /\ q \in Conns /\ t \in Tracks /\ OwnerOf[t] \in Conns
      /\ t \in TracksOf(OwnerOf[t])
  BY ConstantsAssumption DEF TypeOK, ConstantsAssumption, TracksOf
<1>2. Active(q) /\ room[q] = r /\ Active(OwnerOf[t]) /\ room[OwnerOf[t]] = r
  BY DEF Occupied, PublishedHere
<1>3. Wanted(q, t)
  BY <1>1, WantedShrinks
<1>4. /\ bound \in [Conns -> SUBSET Tracks] /\ todo \in [Conns -> SUBSET Tracks]
      /\ offer \in [Tracks -> SUBSET Conns] /\ track \in [Tracks -> TrackSteps]
  BY DEF TypeOK
<1>5. ASSUME UNCHANGED <<bound, todo, offer>>
      PROVE  Has(q, t)'
  BY <1>5 DEF Has
<1>6. ASSUME NEW c \in Conns, AddPeer(c)
      PROVE  Has(q, t)'
  <2>1. UNCHANGED <<bound, offer>> /\ (todo' = todo \/ \E s : todo' = [todo EXCEPT ![c] = s])
    BY <1>6, AddEffect
  <2>2. q # c
    BY <1>2, <1>6, AddEffect
  <2>3. QED
    BY <1>1, <1>4, <2>1, <2>2 DEF Has
<1>7. ASSUME NEW c \in Conns, AddExisting(c)
      PROVE  Has(q, t)'
  <2>1. offer' = offer
    BY <1>7 DEF AddExisting
  <2>2. \/ UNCHANGED <<bound, todo>>
        \/ \E x \in todo[c] : /\ bound' = IF PcOpen(c) THEN [bound EXCEPT ![c] = bound[c] \cup {x}] ELSE bound
                              /\ todo' = [todo EXCEPT ![c] = todo[c] \ {x}]
    BY <1>7 DEF AddExisting, Bind
  <2>3. QED
    BY <1>1, <1>3, <1>4, <2>1, <2>2 DEF Has, Wanted
<1>8. ASSUME NEW c \in Conns, StripTracks(c)
      PROVE  Has(q, t)'
  <2>1. OwnerOf[t] # c
    BY <1>3, <1>8 DEF Wanted, StripTracks
  <2>2. t \notin TracksOf(c)
    BY <2>1 DEF TracksOf
  <2>3. /\ UNCHANGED <<todo, offer>>
        /\ bound' = bound \/ \E x : bound' = [bound EXCEPT ![x] = bound[x] \ TracksOf(c)]
    BY <1>8 DEF StripTracks, Unbind, handlers
  <2>4. QED
    BY <1>1, <1>4, <2>2, <2>3 DEF Has
<1>9. ASSUME NEW x \in Tracks, RegisterTrack(x)
      PROVE  Has(q, t)'
  <2>1. UNCHANGED <<bound, todo>>
        /\ offer' = [offer EXCEPT ![x] = peers[room[OwnerOf[x]]] \ {OwnerOf[x]}]
    BY <1>9 DEF RegisterTrack, handlers
  <2>2. x = t => q \in offer'[t]
    BY <1>1, <1>2, <1>3, <1>4, <2>1 DEF Wanted
  <2>3. QED
    BY <1>1, <1>4, <2>1, <2>2 DEF Has
<1>10. ASSUME NEW x \in Tracks, OfferTrack(x)
       PROVE  Has(q, t)'
  <2>1. PICK p \in offer[x] :
          /\ bound' = IF PcOpen(p) THEN [bound EXCEPT ![p] = bound[p] \cup {x}] ELSE bound
          /\ offer' = [offer EXCEPT ![x] = offer[x] \ {p}]
          /\ todo' = todo
    BY <1>10 DEF OfferTrack, Bind, handlers
  <2>2. QED
    BY <1>1, <1>3, <1>4, <2>1 DEF Has, Wanted
<1>11. ASSUME NEW x \in Tracks, UnpublishTrack(x)
       PROVE  Has(q, t)'
  <2>1. UNCHANGED <<bound, todo>> /\ \E s : offer' = [offer EXCEPT ![x] = s]
    BY <1>11 DEF UnpublishTrack, handlers
  <2>2. track'[x] = "dropping"
    BY <1>4, <1>11 DEF UnpublishTrack
  <2>3. x # t
    BY <1>1, <2>2 DEF Wanted
  <2>4. QED
    BY <1>1, <1>4, <2>1, <2>3 DEF Has
<1>12. ASSUME NEW x \in Tracks, DropTrack(x)
       PROVE  Has(q, t)'
  <2>1. PICK p \in offer[x] :
          /\ bound' = [bound EXCEPT ![p] = bound[p] \ TracksOf(OwnerOf[x])]
          /\ offer' = [offer EXCEPT ![x] = offer[x] \ {p}]
          /\ todo' = todo /\ track[x] = "dropping"
    BY <1>12 DEF DropTrack, Unbind, handlers
  <2>2. OwnerOf[x] # OwnerOf[t]
    BY <1>3, <2>1 DEF Wanted, TracksOf
  <2>3. t \notin TracksOf(OwnerOf[x]) /\ x # t
    BY <2>2 DEF TracksOf
  <2>4. QED
    BY <1>1, <1>4, <2>1, <2>3 DEF Has
<1>13. \/ UNCHANGED <<bound, todo, offer>>
       \/ \E c \in Conns : AddPeer(c) \/ AddExisting(c) \/ StripTracks(c)
       \/ \E x \in Tracks : RegisterTrack(x) \/ OfferTrack(x) \/ UnpublishTrack(x) \/ DropTrack(x)
  BY Zenon DEF Next, Work, TrackWork, GetOrCreate, Leave, Cleanup, IceFails, CloseReplaced,
    CloseDone, RemovePeer, UnpublishPeerTracks, OnTrack, Expire, CleanupExpired, vars,
    handlers, media
<1>14. QED
  BY <1>5, <1>6, <1>7, <1>8, <1>9, <1>10, <1>11, <1>12, <1>13

\* Who enters a room takes a snapshot of its tracks, and a new track is offered
\* to all who are in the room.
LEMMA NewIsServed ==
  ASSUME IInv, PublishedHere, [Next]_vars, NEW r \in Rooms, NEW q \in peers'[r],
         NEW t \in published'[r], ~(q \in peers[r] /\ t \in published[r]), q # OwnerOf[t]
  PROVE  Has(q, t)'
<1> USE DEF IInv
<1>1. CASE q \notin peers[r]
  <2>1. ~UNCHANGED members
    BY <1>1 DEF members
  <2>2. PICK c \in Conns : AddPeer(c) \/ RemovePeer(c)
    BY <2>1, MembersChange
  <2>3. ~RemovePeer(c)
    <3>1. RemovePeer(c) => peers' = [peers EXCEPT ![room[c]] = peers[room[c]] \ {c}]
      BY DEF RemovePeer
    <3>2. peers \in [Rooms -> SUBSET Conns] /\ q \in peers'[r]
      BY DEF TypeOK
    <3>3. QED
      BY <1>1, <3>1, <3>2
  <2>4. /\ published' = published
        /\ \/ UNCHANGED peers
           \/ /\ todo' = [todo EXCEPT ![c] = published[room[c]]]
              /\ \A p \in Rooms : \A x \in peers'[p] : x \in peers[p] \/ (p = room[c] /\ x = c)
    <3> DEFINE old == users[room[c]][UserOf[c]]
    <3>1. /\ published' = published
          /\ \/ UNCHANGED peers
             \/ /\ todo' = [todo EXCEPT ![c] = published[room[c]]]
                /\ \A p \in Rooms :
                     peers'[p] = IF p = room[c] THEN (peers[room[c]] \ {old}) \cup {c} ELSE peers[p]
      BY <2>2, <2>3, AddEffect
    <3> HIDE DEF old
    <3>2. QED
      BY <3>1
  <2>5. c = q /\ room[c] = r /\ todo' = [todo EXCEPT ![c] = published[r]]
    BY <1>1, <2>4
  <2>6. QED
    BY <2>4, <2>5 DEF Has, TypeOK
<1>2. CASE q \in peers[r] /\ t \notin published[r]
  <2>1. ~UNCHANGED published
    BY <1>2
  <2>2. \/ \E x \in Tracks : RegisterTrack(x) \/ UnpublishTrack(x)
        \/ \E c \in Conns : UnpublishPeerTracks(c)
    BY <2>1, Zenon DEF Next, Work, TrackWork, GetOrCreate, AddPeer, AddExisting, Leave, Cleanup,
      IceFails, CloseReplaced, CloseDone, RemovePeer, StripTracks, OnTrack, OfferTrack,
      DropTrack, Expire, CleanupExpired, vars
  <2>3. ASSUME NEW x \in Tracks, UnpublishTrack(x)
        PROVE  FALSE
    BY <1>2, <2>3 DEF UnpublishTrack, TypeOK
  <2>4. ASSUME NEW c \in Conns, UnpublishPeerTracks(c)
        PROVE  FALSE
    BY <1>2, <2>4 DEF UnpublishPeerTracks, TypeOK
  <2>5. PICK x \in Tracks : RegisterTrack(x)
    BY <2>2, <2>3, <2>4
  <2>6. x = t /\ room[OwnerOf[t]] = r
    BY <1>2, <2>5 DEF RegisterTrack, TypeOK
  <2>7. q \in offer'[t]
    BY <1>2, <2>5, <2>6 DEF RegisterTrack, TypeOK
  <2>8. QED
    BY <2>7 DEF Has
<1>3. QED
  BY <1>1, <1>2

LEMMA StepKeepsServed ==
  ASSUME IInv, PublishedHere, NoMissingTrack, [Next]_vars
  PROVE  NoMissingTrack'
<1> USE DEF IInv
<1>1. ASSUME NEW r \in Rooms, NEW q \in peers'[r], NEW t \in published'[r], Wanted(q, t)'
      PROVE  Has(q, t)'
  <2>1. CASE q \in peers[r] /\ t \in published[r]
    <3>1. q \in Conns /\ t \in Tracks
      BY <2>1 DEF TypeOK
    <3>2. Wanted(q, t)
      BY <1>1, <3>1, WantedShrinks
    <3>3. Has(q, t)
      BY <2>1, <3>2 DEF NoMissingTrack, Wanted, Has
    <3>4. QED
      BY <1>1, <2>1, <3>3, WantedIsKept
  <2>2. CASE ~(q \in peers[r] /\ t \in published[r])
    <3>1. q # OwnerOf[t]
      BY <1>1 DEF Wanted
    <3>2. QED
      BY <2>2, <3>1, NewIsServed
  <2>3. QED
    BY <2>1, <2>2
<1>2. QED
  BY <1>1 DEF NoMissingTrack, Wanted, Has, PcOpen

\* The inductive invariant of the tracks and the clocks.
THEOREM RoomInductive == Spec => []RoomInv
<1>1. Init => RoomInv
  BY ConstantsAssumption DEF Init, RoomInv, Departed, PublishedHere, NoMissingTrack,
    Active, ConstantsAssumption
<1>2. IInv /\ RoomInv /\ [Next]_vars => RoomInv'
  BY StepKeepsDeparted, StepKeepsPublished, StepKeepsServed
     DEF IInv, Occupied, RoomInv
<1>3. QED
  BY <1>1, <1>2, Inductive, PTL DEF Spec

\* A peer of a room is sent every track published there, or a goroutine still
\* has it to add: the snapshot of AddPeer and the receivers of
\* RegisterPublishedTrack miss none between them.
THEOREM TracksReachPeers == Spec => []NoMissingTrack
<1>1. RoomInv => NoMissingTrack
  BY DEF RoomInv
<1>2. QED
  BY <1>1, RoomInductive, PTL

\* A room the last peer has left has its clock set, and only a track that a
\* departed peer registers in the empty room stops it again.
THEOREM EmptyRoomsAreTimed == Spec => OnlyLateTrackStopsClock
<1>1. IInv /\ RoomInv /\ [Next]_vars =>
        [\A r \in Rooms :
           (peers'[r] = {} /\ clock'[r] = "off" /\ ~(peers[r] = {} /\ clock[r] = "off")) =>
             /\ peers[r] = {}
             /\ \E t \in Tracks : /\ room[OwnerOf[t]] = r
                                 /\ track[t] = "arrived" /\ track'[t] = "offering"
                                 /\ \/ close[OwnerOf[t]] # "no"
                                    \/ closer[OwnerOf[t]]["replace"] # "idle"]_vars
  BY StepStopsNoClock DEF RoomInv
<1>2. QED
  BY <1>1, Inductive, RoomInductive, PTL DEF Spec, OnlyLateTrackStopsClock
=============================================================================
