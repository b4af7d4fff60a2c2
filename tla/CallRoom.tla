------------------------------ MODULE CallRoom ------------------------------
(***************************************************************************)
(* Call rooms of the SFU in the Go server (internal/calls).                *)
(*                                                                         *)
(* The room manager maps a room key to a Room object.  A signalling        *)
(* connection that sends join_call gets the object, adds a Peer to it and  *)
(* receives the tracks the room already has; a user that joins again       *)
(* replaces their previous peer.  A peer is closed by its own handler, by  *)
(* the goroutine that replaces it and by the ICE callback, in any order.   *)
(* Every critical section of Room.mu is one step here, and so is every     *)
(* change of one receiver's tracks, so the steps of all goroutines         *)
(* interleave as in the program.                                           *)
(*                                                                         *)
(* One room key is modelled: rooms of different keys share nothing but the *)
(* manager's map.  A connection has at most one peer (h.peer is never      *)
(* reset), so a peer is named by its connection.  The check that a room is *)
(* empty and the delete of its key, both under the manager's lock, are one *)
(* step: an AddPeer between them does not read the map.                    *)
(***************************************************************************)
EXTENDS Integers, FiniteSets

CONSTANTS
  Users,
  Conns,      \* signalling connections, and the peers they create
  UserOf,     \* UserOf[c]: the user whose token opened c
  Tracks,     \* media tracks, audio or video, that the clients send
  OwnerOf,    \* OwnerOf[t]: the peer that sends t
  MaxPeers,   \* GO_CALL_MAX_PEERS_PER_ROOM
  Rooms,      \* bound: Room objects created under the key
  MaxIceFailures,  \* bound: ICE failures
  NoPeer, NoRoom

ASSUME ConstantsAssumption ==
  /\ IsFiniteSet(Conns)
  /\ UserOf \in [Conns -> Users]
  /\ OwnerOf \in [Tracks -> Conns]
  /\ MaxPeers \in Nat \ {0}
  /\ MaxIceFailures \in Nat
  /\ NoPeer \notin Conns
  /\ NoRoom \notin Rooms

VARIABLES
  up,         \* the process runs: no goroutine has panicked
  current,    \* RoomManager.rooms[key]
  made,       \* Room objects created so far
  peers,      \* Room.peers
  users,      \* Room.users
  published,  \* Room.publishedTracks, the tracks of all publishers
  clock,      \* Room.lastEmptyAt: zero, set, or set a TTL ago
  hpc,        \* what the handler of each connection does next
  room,       \* the Room object the connection works on
  todo,       \* tracks of AddPeer's snapshot that are still to be added
  closer,     \* progress of the goroutines that call Peer.Close
  close,      \* progress of the one that closed the done channel
  strip,      \* receivers it still has to take the peer's tracks from
  track,      \* OnTrack callback and reader goroutine of each track
  offer,      \* receivers that goroutine still has to visit
  bound       \* Peer.remoteSenders: the tracks each peer is sent

manager  == <<current, made>>
members  == <<peers, users>>
handlers == <<hpc, room, todo>>
closing  == <<closer, close, strip>>
media    == <<track, offer, bound>>
vars == <<up, manager, members, published, clock, handlers, closing, media>>

Closers == {"handler", "replace", "ice"}

HandlerSteps == {"open", "got", "add", "joined", "leaving", "gone"}
CloserSteps  == {"idle", "called", "selected", "closing", "back"}
CloseSteps   == {"no", "remove", "unpublish", "strip", "done"}
TrackSteps   == {"none", "arrived", "offering", "dropping"}

TracksOf(c) == {t \in Tracks : OwnerOf[t] = c}

\* The PeerConnection of c still takes tracks.
PcOpen(c) == close[c] # "done"

\* A track is sent to q: Peer.AddTrack, an error when q's connection is closed.
\* Peer.AddTrack returns at once for a track that is bound already.
Bind(q, t) == bound' = IF PcOpen(q) THEN [bound EXCEPT ![q] = @ \cup {t}] ELSE bound

\* Peer.RemovePublisherTracks: every track of the publisher.
Unbind(q, c) == bound' = [bound EXCEPT ![q] = @ \ TracksOf(c)]

\* The select of Peer.Close: the done channel is closed, or the default branch.
SelectDone(c, k) ==
  closer' = [closer EXCEPT ![c][k] = IF close[c] = "no" THEN "selected" ELSE "back"]

-----------------------------------------------------------------------------
Init ==
  /\ up = TRUE
  /\ current = NoRoom
  /\ made = {}
  /\ peers = [r \in Rooms |-> {}]
  /\ users = [r \in Rooms |-> [u \in Users |-> NoPeer]]
  /\ published = [r \in Rooms |-> {}]
  /\ clock = [r \in Rooms |-> "running"]
  /\ hpc = [c \in Conns |-> "open"]
  /\ room = [c \in Conns |-> NoRoom]
  /\ todo = [c \in Conns |-> {}]
  /\ closer = [c \in Conns |-> [k \in Closers |-> "idle"]]
  /\ close = [c \in Conns |-> "no"]
  /\ strip = [c \in Conns |-> {}]
  /\ track = [t \in Tracks |-> "none"]
  /\ offer = [t \in Tracks |-> {}]
  /\ bound = [c \in Conns |-> {}]

-----------------------------------------------------------------------------
(* The handler goroutine of a connection.                                  *)

\* join_call up to NewPeer: GetOrCreate, after the access check passed.  When
\* NewPeer fails the connection stays open and the room stays behind.
GetOrCreate(c) ==
  /\ hpc[c] = "open"
  /\ \E r \in Rooms :
       /\ IF current # NoRoom THEN r = current /\ UNCHANGED made
                              ELSE r \notin made /\ made' = made \cup {r}
       /\ current' = r
       /\ \/ /\ hpc' = [hpc EXCEPT ![c] = "got"]
             /\ room' = [room EXCEPT ![c] = r]
          \/ UNCHANGED <<hpc, room>>
  /\ UNCHANGED <<up, members, published, clock, todo, closing, media>>

\* Mutant of AddPeer: the room is found to be full with the previous peer in it.
AddPeerCountsOld(c) ==
  /\ hpc[c] = "got"
  /\ LET r   == room[c]
         old == users[r][UserOf[c]]
         others == peers[r] \ {old}
     IN IF Cardinality(peers[r]) >= MaxPeers
        THEN /\ peers' = [peers EXCEPT ![r] = others]
             /\ hpc' = [hpc EXCEPT ![c] = "open"]
             /\ room' = [room EXCEPT ![c] = NoRoom]
             /\ UNCHANGED <<users, clock, todo, closer>>
        ELSE /\ peers' = [peers EXCEPT ![r] = others \cup {c}]
             /\ users' = [users EXCEPT ![r][UserOf[c]] = c]
             /\ clock' = [clock EXCEPT ![r] = "off"]
             /\ todo' = [todo EXCEPT ![c] = published[r]]
             /\ hpc' = [hpc EXCEPT ![c] = "add"]
             /\ closer' = IF old = NoPeer THEN closer
                          ELSE [closer EXCEPT ![old]["replace"] = "called"]
             /\ UNCHANGED room
  /\ UNCHANGED <<up, manager, published, close, strip, media>>

\* Room.AddPeer's critical section: the user's previous peer gives up its
\* place before the room is found to be full or the new peer is entered.  A
\* refused connection may send join_call again.
AddPeer(c) ==
  /\ hpc[c] = "got"
  /\ LET r   == room[c]
         old == users[r][UserOf[c]]
         others == peers[r] \ {old}
     IN IF Cardinality(others) >= MaxPeers
        THEN /\ peers' = [peers EXCEPT ![r] = others]
             /\ hpc' = [hpc EXCEPT ![c] = "open"]
             /\ room' = [room EXCEPT ![c] = NoRoom]
             /\ UNCHANGED <<users, clock, todo, closer>>
        ELSE /\ peers' = [peers EXCEPT ![r] = others \cup {c}]
             /\ users' = [users EXCEPT ![r][UserOf[c]] = c]
             /\ clock' = [clock EXCEPT ![r] = "off"]
             /\ todo' = [todo EXCEPT ![c] = published[r]]
             /\ hpc' = [hpc EXCEPT ![c] = "add"]
             /\ closer' = IF old = NoPeer THEN closer
                          ELSE [closer EXCEPT ![old]["replace"] = "called"]
             /\ UNCHANGED room
  /\ UNCHANGED <<up, manager, published, close, strip, media>>

\* The loop over existingTracks; then h.peer is set and the handler reads on.
AddExisting(c) ==
  /\ hpc[c] = "add"
  /\ \/ \E t \in todo[c] : /\ Bind(c, t)
                           /\ todo' = [todo EXCEPT ![c] = @ \ {t}]
        /\ UNCHANGED hpc
     \/ /\ todo[c] = {}
        /\ hpc' = [hpc EXCEPT ![c] = "joined"]
        /\ UNCHANGED <<todo, bound>>
  /\ UNCHANGED <<up, manager, members, published, clock, room, closing,
                 track, offer>>

\* Mutant of Leave: the deferred function does not close the peer.
LeaveWithoutClose(c) ==
  /\ hpc[c] = "joined"
  /\ hpc' = [hpc EXCEPT ![c] = "leaving"]
  /\ closer' = [closer EXCEPT ![c]["handler"] = "back"]
  /\ UNCHANGED <<up, manager, members, published, clock, room, todo, close,
                 strip, media>>

\* leave_call, or the read from the websocket fails: the deferred function
\* calls Close.  A connection that ends without a peer changes no room.
Leave(c) ==
  /\ hpc[c] = "joined"
  /\ hpc' = [hpc EXCEPT ![c] = "leaving"]
  /\ SelectDone(c, "handler")
  /\ UNCHANGED <<up, manager, members, published, clock, room, todo, close,
                 strip, media>>

\* RoomManager.Cleanup(h.room.ID): whatever room now has the key.
Cleanup(c) ==
  /\ hpc[c] = "leaving"
  /\ closer[c]["handler"] = "back"
  /\ current' = IF current # NoRoom /\ peers[current] = {} THEN NoRoom ELSE current
  /\ hpc' = [hpc EXCEPT ![c] = "gone"]
  /\ UNCHANGED <<up, made, members, published, clock, room, todo, closing, media>>

-----------------------------------------------------------------------------
(* Peer.Close, from up to three goroutines.                                *)

\* ICE failed or was closed by the other side, once the peers have negotiated.
IceFails(c) ==
  /\ hpc[c] \in {"joined", "leaving"}
  /\ PcOpen(c)
  /\ closer[c]["ice"] = "idle"
  /\ Cardinality({x \in Conns : closer[x]["ice"] # "idle"}) < MaxIceFailures
  /\ SelectDone(c, "ice")
  /\ UNCHANGED <<up, manager, members, published, clock, handlers, close,
                 strip, media>>

\* Mutant of CloseReplaced: a peer that is no longer in the room is not closed.
CloseReplacedIfMember(c) ==
  /\ closer[c]["replace"] = "called"
  /\ IF c \in peers[room[c]]
     THEN SelectDone(c, "replace")
     ELSE closer' = [closer EXCEPT ![c]["replace"] = "back"]
  /\ UNCHANGED <<up, manager, members, published, clock, handlers, close,
                 strip, media>>

\* The goroutine that AddPeer started runs.
CloseReplaced(c) ==
  /\ closer[c]["replace"] = "called"
  /\ SelectDone(c, "replace")
  /\ UNCHANGED <<up, manager, members, published, clock, handlers, close,
                 strip, media>>

\* close(p.done), which panics when another goroutine was between as well; a
\* panic of any goroutine ends the process, and every room with it.
CloseDone(c, k) ==
  /\ closer[c][k] = "selected"
  /\ IF close[c] = "no"
     THEN /\ close' = [close EXCEPT ![c] = "remove"]
          /\ closer' = [closer EXCEPT ![c][k] = "closing"]
          /\ UNCHANGED up
     ELSE up' = FALSE /\ UNCHANGED <<close, closer>>
  /\ UNCHANGED <<manager, members, published, clock, handlers, strip, media>>

\* Mutant of RemovePeer: the user's entry goes whichever peer it names.
RemovePeerOfUser(c) ==
  /\ close[c] = "remove"
  /\ LET r == room[c]
         u == UserOf[c]
     IN /\ peers' = [peers EXCEPT ![r] = @ \ {c}]
        /\ users' = [users EXCEPT ![r][u] = NoPeer]
        /\ clock' = IF peers[r] \ {c} = {} THEN [clock EXCEPT ![r] = "running"]
                                           ELSE clock
  /\ close' = [close EXCEPT ![c] = "unpublish"]
  /\ UNCHANGED <<up, manager, published, handlers, closer, strip, media>>

\* Mutant of RemovePeer: emptiness is read before the peer is deleted.
RemovePeerLateCheck(c) ==
  /\ close[c] = "remove"
  /\ LET r == room[c]
         u == UserOf[c]
     IN /\ peers' = [peers EXCEPT ![r] = @ \ {c}]
        /\ users' = IF c \in peers[r] /\ users[r][u] = c
                    THEN [users EXCEPT ![r][u] = NoPeer] ELSE users
        /\ clock' = IF peers[r] = {} THEN [clock EXCEPT ![r] = "running"]
                                  ELSE clock
  /\ close' = [close EXCEPT ![c] = "unpublish"]
  /\ UNCHANGED <<up, manager, published, handlers, closer, strip, media>>

\* Room.RemovePeer.  A peer that was replaced is no longer in the room, and
\* the user's entry belongs to the peer that replaced it.
RemovePeer(c) ==
  /\ close[c] = "remove"
  /\ LET r == room[c]
         u == UserOf[c]
     IN /\ peers' = [peers EXCEPT ![r] = @ \ {c}]
        /\ users' = IF c \in peers[r] /\ users[r][u] = c
                    THEN [users EXCEPT ![r][u] = NoPeer] ELSE users
        /\ clock' = IF peers[r] \ {c} = {} THEN [clock EXCEPT ![r] = "running"]
                                           ELSE clock
  /\ close' = [close EXCEPT ![c] = "unpublish"]
  /\ UNCHANGED <<up, manager, published, handlers, closer, strip, media>>

\* Room.UnpublishPeerTracks, critical section
UnpublishPeerTracks(c) ==
  /\ close[c] = "unpublish"
  /\ LET r == room[c]
         own == published[r] \cap TracksOf(c)
     IN /\ published' = [published EXCEPT ![r] = @ \ own]
        /\ strip' = [strip EXCEPT ![c] = IF own = {} THEN {} ELSE peers[r] \ {c}]
  /\ close' = [close EXCEPT ![c] = "strip"]
  /\ UNCHANGED <<up, manager, members, clock, handlers, closer, media>>

\* its loop over the receivers; then pc.Close and ws.Close
StripTracks(c) ==
  /\ close[c] = "strip"
  /\ \/ /\ \E q \in strip[c] : /\ Unbind(q, c)
                               /\ strip' = [strip EXCEPT ![c] = @ \ {q}]
        /\ UNCHANGED <<close, closer>>
     \/ /\ strip[c] = {}
        /\ close' = [close EXCEPT ![c] = "done"]
        /\ closer' = [closer EXCEPT ![c] =
             [k \in Closers |-> IF @[k] = "closing" THEN "back" ELSE @[k]]]
        /\ UNCHANGED <<bound, strip>>
  /\ UNCHANGED <<up, manager, members, published, clock, handlers, track, offer>>

-----------------------------------------------------------------------------
(* The tracks a peer publishes.                                            *)

\* The client's track arrives: OnTrack up to RegisterPublishedTrack.
OnTrack(t) ==
  /\ track[t] = "none"
  /\ hpc[OwnerOf[t]] \in {"joined", "leaving"}
  /\ PcOpen(OwnerOf[t])
  /\ track' = [track EXCEPT ![t] = "arrived"]
  /\ UNCHANGED <<up, manager, members, published, clock, handlers, closing,
                 offer, bound>>

\* Mutant of RegisterTrack: peers that are still being added are passed over.
RegisterTrackForJoined(t) ==
  /\ track[t] = "arrived"
  /\ LET r == room[OwnerOf[t]]
     IN /\ published' = [published EXCEPT ![r] = @ \cup {t}]
        /\ offer' = [offer EXCEPT ![t] =
             {q \in peers[r] \ {OwnerOf[t]} : hpc[q] = "joined"}]
        /\ clock' = [clock EXCEPT ![r] = "off"]
  /\ track' = [track EXCEPT ![t] = "offering"]
  /\ UNCHANGED <<up, manager, members, handlers, closing, bound>>

\* RegisterPublishedTrack, critical section
RegisterTrack(t) ==
  /\ track[t] = "arrived"
  /\ LET r == room[OwnerOf[t]]
     IN /\ published' = [published EXCEPT ![r] = @ \cup {t}]
        /\ offer' = [offer EXCEPT ![t] = peers[r] \ {OwnerOf[t]}]
        /\ clock' = [clock EXCEPT ![r] = "off"]
  /\ track' = [track EXCEPT ![t] = "offering"]
  /\ UNCHANGED <<up, manager, members, handlers, closing, bound>>

\* its loop over the receivers; the reader goroutine starts when it is done
OfferTrack(t) ==
  /\ track[t] = "offering"
  /\ \E q \in offer[t] : /\ Bind(q, t)
                         /\ offer' = [offer EXCEPT ![t] = @ \ {q}]
  /\ UNCHANGED <<up, manager, members, published, clock, handlers, closing, track>>

\* The reader fails to read or to write: UnpublishTrack, critical section.
UnpublishTrack(t) ==
  /\ track[t] = "offering" /\ offer[t] = {}
  /\ LET r == room[OwnerOf[t]]
     IN /\ published' = [published EXCEPT ![r] = @ \ {t}]
        /\ offer' = [offer EXCEPT ![t] = peers[r] \ {OwnerOf[t]}]
  /\ track' = [track EXCEPT ![t] = "dropping"]
  /\ UNCHANGED <<up, manager, members, clock, handlers, closing, bound>>

\* its loop over the receivers
DropTrack(t) ==
  /\ track[t] = "dropping"
  /\ \E q \in offer[t] : /\ Unbind(q, OwnerOf[t])
                         /\ offer' = [offer EXCEPT ![t] = @ \ {q}]
  /\ UNCHANGED <<up, manager, members, published, clock, handlers, closing, track>>

-----------------------------------------------------------------------------
(* The cleanup loop.                                                       *)

\* emptyRoomTTL passes since lastEmptyAt.
Expire(r) ==
  /\ r \in made
  /\ clock[r] = "running"
  /\ clock' = [clock EXCEPT ![r] = "expired"]
  /\ UNCHANGED <<up, manager, members, published, handlers, closing, media>>

CleanupExpired ==
  /\ current # NoRoom
  /\ peers[current] = {} /\ clock[current] = "expired"
  /\ current' = NoRoom
  /\ UNCHANGED <<up, made, members, published, clock, handlers, closing, media>>

-----------------------------------------------------------------------------
Work(c) ==
  \/ AddPeer(c) \/ AddExisting(c) \/ Cleanup(c)
  \/ CloseReplaced(c) \/ RemovePeer(c) \/ UnpublishPeerTracks(c) \/ StripTracks(c)

TrackWork(t) == RegisterTrack(t) \/ OfferTrack(t) \/ DropTrack(t)

Next ==
  /\ up
  /\ \/ \E c \in Conns : GetOrCreate(c) \/ Leave(c) \/ IceFails(c) \/ Work(c)
     \/ \E c \in Conns, k \in Closers : CloseDone(c, k)
     \/ \E t \in Tracks : OnTrack(t) \/ TrackWork(t) \/ UnpublishTrack(t)
     \/ \E r \in Rooms : Expire(r)
     \/ CleanupExpired

\* The Go scheduler runs every goroutine, the ticker ticks and time passes.  A
\* connection ends only because its websocket was closed, and a track only
\* because its peer connection was.
Fairness ==
  /\ \A c \in Conns : WF_vars(up /\ Work(c))
  /\ \A c \in Conns : WF_vars(up /\ close[c] = "done" /\ Leave(c))
  /\ \A c \in Conns, k \in Closers : WF_vars(up /\ CloseDone(c, k))
  /\ \A t \in Tracks : WF_vars(up /\ TrackWork(t))
  /\ \A t \in Tracks : WF_vars(up /\ close[OwnerOf[t]] = "done" /\ UnpublishTrack(t))
  /\ \A r \in Rooms : WF_vars(up /\ Expire(r))
  /\ WF_vars(up /\ CleanupExpired)

Spec == Init /\ [][Next]_vars /\ Fairness

-----------------------------------------------------------------------------
TypeOK ==
  /\ up \in BOOLEAN
  /\ current \in Rooms \cup {NoRoom}
  /\ made \subseteq Rooms
  /\ peers \in [Rooms -> SUBSET Conns]
  /\ users \in [Rooms -> [Users -> Conns \cup {NoPeer}]]
  /\ published \in [Rooms -> SUBSET Tracks]
  /\ clock \in [Rooms -> {"off", "running", "expired"}]
  /\ hpc \in [Conns -> HandlerSteps]
  /\ room \in [Conns -> Rooms \cup {NoRoom}]
  /\ \A c \in Conns : hpc[c] # "open" => room[c] \in Rooms
  /\ todo \in [Conns -> SUBSET Tracks]
  /\ closer \in [Conns -> [Closers -> CloserSteps]]
  /\ close \in [Conns -> CloseSteps]
  /\ strip \in [Conns -> SUBSET Conns]
  /\ track \in [Tracks -> TrackSteps]
  /\ offer \in [Tracks -> SUBSET Conns]
  /\ bound \in [Conns -> SUBSET Tracks]

\* A user occupies one place of a room, the one users names, and the room has
\* no more than MaxPeers, however a late Close of a replaced peer interleaves
\* with the joins and leaves of the peer that replaced it.
OnePlacePerUser ==
  \A r \in Rooms :
    /\ Cardinality(peers[r]) <= MaxPeers
    /\ \A c \in peers[r] : users[r][UserOf[c]] = c
    /\ \A u \in Users : users[r][u] # NoPeer =>
         users[r][u] \in peers[r] /\ UserOf[users[r][u]] = u

\* A peer of a room is not missing a track of another one: it is sent every
\* published track or some goroutine still has it to add.  This is for a
\* publisher that is not closing and none of whose tracks has ended.
NoMissingTrack ==
  \A r \in Rooms : \A q \in peers[r], t \in published[r] :
    LET c == OwnerOf[t] IN
    (q # c /\ PcOpen(q) /\ close[c] = "no" /\ \A x \in TracksOf(c) : track[x] # "dropping")
      => t \in bound[q] \/ t \in todo[q] \/ q \in offer[t]

\* A room that becomes empty has its clock set, and nothing stops the clock of
\* an empty room but a track registered in it after its last peer was removed:
\* OnTrack of a peer that lost its place or is being closed.
OnlyLateTrackStopsClock ==
  [][\A r \in Rooms :
       (peers'[r] = {} /\ clock'[r] = "off" /\ ~(peers[r] = {} /\ clock[r] = "off")) =>
         /\ peers[r] = {}
         /\ \E t \in Tracks : /\ room[OwnerOf[t]] = r
                             /\ track[t] = "arrived" /\ track'[t] = "offering"
                             /\ \/ close[OwnerOf[t]] # "no"
                                \/ closer[OwnerOf[t]]["replace"] # "idle"]_vars

\* A user that is in the room is never told that it is full.
RejoinNeverRefused ==
  [][\A c \in Conns :
       (hpc[c] = "got" /\ hpc'[c] = "open") =>
         users[room[c]][UserOf[c]] = NoPeer]_vars

\* A connection that has ended leaves no peer behind in any room.
GhostsLeave ==
  \A c \in Conns :
    hpc[c] = "gone" ~> (~up \/ \A r \in Rooms : c \notin peers[r])

\* A peer that lost its place to a newer connection is closed, and so is its
\* own connection.
ReplacedIsClosed ==
  \A c \in Conns :
    closer[c]["replace"] = "called" ~> (~up \/ (close[c] = "done" /\ hpc[c] = "gone"))

=============================================================================
