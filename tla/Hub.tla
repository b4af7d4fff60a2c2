-------------------------------- MODULE Hub --------------------------------
(***************************************************************************)
(* The websocket hub of the Go server (internal/ws, internal/realtime).    *)
(*                                                                         *)
(* Every client has a goroutine that reads requests and handles them one   *)
(* by one (ReadPump) and one that writes its send buffer to the socket     *)
(* (WritePump).  One more goroutine, the subscriber, broadcasts what the   *)
(* backend publishes in the realtime channel.  All of them call the hub.   *)
(* A critical section of Hub.mu is one step here; the sends of a broadcast *)
(* go one by one to clients that were copied under the lock, and interleave *)
(* with everything else.  What Register and Unregister write to Redis after *)
(* the lock is released is modelled in Presence.                           *)
(*                                                                         *)
(* One chat and one call signalling room are modelled: others are further  *)
(* keys of the same maps.  Access checks and the rate limiter may answer   *)
(* either way at any time; a refusal is an error reply.                    *)
(***************************************************************************)
EXTENDS Integers, FiniteSets, Sequences

CONSTANTS
  Clients,
  Subscriber,   \* the goroutine of realtime.Subscriber
  Buffer,       \* GO_WS_WRITE_BUFFER
  MaxEvents,    \* bound: events in the realtime channel
  MaxRequests,  \* bound: requests of all clients
  NoCast, NoReply

ASSUME ConstantsAssumption ==
  /\ IsFiniteSet(Clients)
  /\ Subscriber \notin Clients
  /\ Buffer \in Nat \ {0}
  /\ MaxEvents \in Nat /\ MaxRequests \in Nat

VARIABLES
  up,          \* the process runs: the subscriber has not panicked
  registered,  \* Hub.users, the clients of all users
  chat,        \* Hub.chats[chat]
  room,        \* Hub.callRooms[room]
  subscribed,  \* clients with the chat in Client.subscriptions
  joined,      \* clients with the room in Client.callRooms
  closed,      \* clients whose Send and closed channels are closed
  conn,        \* clients whose socket is open
  queue,       \* Client.Send
  pc,          \* what each goroutine does next
  reply,       \* the answer of the request in hand
  cast,        \* the broadcast in hand
  todo,        \* its clients that are still to be sent the message
  stale,       \* its clients whose buffer was full
  published,   \* events the subscriber has taken from the channel
  requests,    \* requests read so far
  due,         \* history: events broadcast while the client was subscribed that
               \* have not been written to its socket
  known        \* history: peers the client has been told of on its socket

maps     == <<registered, chat, room>>
local    == <<subscribed, joined>>
link     == <<closed, conn>>
jobs     == <<reply, cast, todo, stale>>
bounds   == <<published, requests>>
vars == <<up, maps, local, link, queue, pc, jobs, bounds, due, known>>

Threads == Clients \cup {Subscriber}

-----------------------------------------------------------------------------
(* Messages.  Only what the properties tell apart has a content.           *)

Note          == [note |-> TRUE]
Event(t, n)   == [event |-> n, by |-> t]    \* the n-th message for the chat, of t
Existing(S)   == [existing |-> S]
NewPeer(c)    == [newPeer |-> c]
PeerLeft(c)   == [peerLeft |-> c]

\* Events of the channel and messages of the clients are numbered together.
Events == [event : 1..(MaxEvents + MaxRequests), by : Threads]

Messages ==
  [note : {TRUE}] \cup Events \cup [existing : SUBSET Clients]
  \cup [newPeer : Clients] \cup [peerLeft : Clients]

Casts == [to : {"chat", "room"}, msg : Messages]

ASSUME NullAssumption ==
  NoReply \notin Messages /\ NoCast \notin Casts

IsEvent(m) == "event" \in DOMAIN m

\* What a client knows of the room after it has read m.
Learn(S, m) ==
  CASE "existing" \in DOMAIN m -> S \cup m.existing
    [] "newPeer"  \in DOMAIN m -> S \cup {m.newPeer}
    [] "peerLeft" \in DOMAIN m -> S \ {m.peerLeft}
    [] OTHER -> S

-----------------------------------------------------------------------------
Steps == {"new", "hello", "idle", "reply", "cast", "send", "unregister", "close", "done"}

\* Types of all variables, and the send buffers within their capacity.
TypeOK ==
  /\ up \in BOOLEAN
  /\ registered \subseteq Clients /\ chat \subseteq Clients /\ room \subseteq Clients
  /\ subscribed \subseteq Clients /\ joined \subseteq Clients
  /\ closed \subseteq Clients /\ conn \subseteq Clients
  /\ queue \in [Clients -> Seq(Messages)]
  /\ \A c \in Clients : Len(queue[c]) <= Buffer
  /\ pc \in [Threads -> Steps]
  /\ reply \in [Clients -> Messages \cup {NoReply}]
  /\ cast \in [Threads -> Casts \cup {NoCast}]
  /\ todo \in [Threads -> SUBSET Clients]
  /\ stale \in [Threads -> SUBSET Clients]
  /\ published \in 0..MaxEvents
  /\ requests \in 0..MaxRequests
  /\ due \in [Clients -> SUBSET Events]
  /\ known \in [Clients -> SUBSET Clients]

Init ==
  /\ up = TRUE
  /\ registered = {} /\ chat = {} /\ room = {}
  /\ subscribed = {} /\ joined = {}
  /\ closed = {} /\ conn = {}
  /\ queue = [c \in Clients |-> <<>>]
  /\ pc = [t \in Threads |-> IF t = Subscriber THEN "idle" ELSE "new"]
  /\ reply = [c \in Clients |-> NoReply]
  /\ cast = [t \in Threads |-> NoCast]
  /\ todo = [t \in Threads |-> {}]
  /\ stale = [t \in Threads |-> {}]
  /\ published = 0 /\ requests = 0
  /\ due = [c \in Clients |-> {}]
  /\ known = [c \in Clients |-> {}]

-----------------------------------------------------------------------------
(* Registration.                                                           *)

\* serveWS accepts the socket and registers the client.
Register(c) ==
  /\ pc[c] = "new"
  /\ registered' = registered \cup {c}
  /\ conn' = conn \cup {c}
  /\ pc' = [pc EXCEPT ![c] = "hello"]
  /\ UNCHANGED <<up, chat, room, local, closed, queue, jobs, bounds, due, known>>

\* The "connected" message; the pumps start.
Hello(c) ==
  /\ pc[c] = "hello"
  /\ Len(queue[c]) < Buffer
  /\ queue' = [queue EXCEPT ![c] = Append(@, Note)]
  /\ pc' = [pc EXCEPT ![c] = "idle"]
  /\ UNCHANGED <<up, maps, local, link, jobs, bounds, due, known>>

\* Nothing reads what is left in the send buffer of a closed client but its
\* writer, which may still write it; the model drops it.
Discard(c) ==
  /\ queue' = [queue EXCEPT ![c] = <<>>]
  /\ due' = [due EXCEPT ![c] = {}]
  /\ known' = [known EXCEPT ![c] = {}]

\* Mutant of Unregister: the call rooms of the client are forgotten.
UnregisterKeepsRooms(t, c, then) ==
  /\ registered' = registered \ {c}
  /\ chat' = IF c \in subscribed THEN chat \ {c} ELSE chat
  /\ UNCHANGED room
  /\ closed' = closed \cup {c}
  /\ Discard(c)
  /\ pc' = [pc EXCEPT ![t] = then]

\* Hub.Unregister, called by t for c, for the first time or again; t goes on at
\* step then.
Unregister(t, c, then) ==
  /\ registered' = registered \ {c}
  /\ chat' = IF c \in subscribed THEN chat \ {c} ELSE chat
  /\ room' = IF c \in joined THEN room \ {c} ELSE room
  /\ closed' = closed \cup {c}
  /\ Discard(c)
  /\ pc' = [pc EXCEPT ![t] = then]

\* The message t still has to buffer for c, or has found no room for.
PendingOf(t, c) ==
  IF c \in todo[t] \cup stale[t] /\ IsEvent(cast[t].msg) THEN {cast[t].msg} ELSE {}

-----------------------------------------------------------------------------
(* The reader of a client.                                                 *)

\* A request is read from the socket and handled up to its answer or, if it has
\* none, its broadcast.
Handle(c, answer, broadcast) ==
  /\ pc[c] = "idle" /\ c \in conn
  /\ requests < MaxRequests
  /\ requests' = requests + 1
  /\ reply' = [reply EXCEPT ![c] = answer]
  /\ cast' = [cast EXCEPT ![c] = broadcast]
  /\ pc' = [pc EXCEPT ![c] = IF answer # NoReply THEN "reply" ELSE "cast"]
  /\ UNCHANGED <<up, registered, link, queue, todo, stale, published, due, known>>

NextNumber == published + requests + 1

ToChat(m) == [to |-> "chat", msg |-> m]
ToRoom(m) == [to |-> "room", msg |-> m]

\* ping, whoami, an accepted receipt; every request that is refused.
Answer(c) ==
  /\ Handle(c, Note, NoCast)
  /\ UNCHANGED <<chat, room, local>>

\* subscribe_chat, after the access check: Hub.Subscribe
Subscribe(c) ==
  /\ chat' = chat \cup {c}
  /\ subscribed' = subscribed \cup {c}
  /\ Handle(c, Note, NoCast)
  /\ UNCHANGED <<room, joined>>

\* unsubscribe_chat: Hub.Unsubscribe
Unsubscribe(c) ==
  /\ chat' = chat \ {c}
  /\ subscribed' = subscribed \ {c}
  /\ Handle(c, Note, NoCast)
  /\ UNCHANGED <<room, joined>>

\* chat_message: queued for the saver, answered and broadcast
ChatMessage(c) ==
  /\ c \in subscribed
  /\ Handle(c, Note, ToChat(Event(c, NextNumber)))
  /\ UNCHANGED <<chat, room, local>>

\* typing_start and typing_stop, user_online and user_offline
Typing(c) ==
  /\ c \in subscribed
  /\ Handle(c, NoReply, ToChat(Note))
  /\ UNCHANGED <<chat, room, local>>

\* call_invite, call_accept, call_decline, call_end, call_missed: a member of the
\* chat need not be subscribed
CallEvent(c) ==
  /\ Handle(c, NoReply, ToChat(Note))
  /\ UNCHANGED <<chat, room, local>>

\* join_call: Hub.JoinCallRoom, then the answer and the news for the others
JoinCall(c) ==
  /\ room' = room \cup {c}
  /\ joined' = joined \cup {c}
  /\ Handle(c, Existing(room \ {c}), ToRoom(NewPeer(c)))
  /\ UNCHANGED <<chat, subscribed>>

\* leave_call: Hub.LeaveCallRoom
LeaveCall(c) ==
  /\ room' = room \ {c}
  /\ joined' = joined \ {c}
  /\ Handle(c, NoReply, ToRoom(PeerLeft(c)))
  /\ UNCHANGED <<chat, subscribed>>

\* call_offer, call_answer, call_ice
Signal(c) ==
  /\ c \in joined
  /\ Handle(c, NoReply, ToRoom(Note))
  /\ UNCHANGED <<chat, room, local>>

\* A panic in the reader: net/http recovers it after the deferred calls.  The
\* clients it has not come to, and those it has not yet unregistered as stale,
\* are never sent the message of its broadcast: it is no longer due to them.
ReaderPanics(c) ==
  /\ pc' = [pc EXCEPT ![c] = "unregister"]
  /\ cast' = [cast EXCEPT ![c] = NoCast]
  /\ todo' = [todo EXCEPT ![c] = {}]
  /\ stale' = [stale EXCEPT ![c] = {}]
  /\ due' = [d \in Clients |-> due[d] \ PendingOf(c, d)]

AfterReply(c) == IF cast[c] = NoCast THEN "idle" ELSE "cast"

\* sendJSON: the answer goes to the client's own buffer; a full one ends it.
SendReply(c) ==
  /\ pc[c] = "reply"
  /\ reply' = [reply EXCEPT ![c] = NoReply]
  /\ \/ /\ c \in closed
        /\ ReaderPanics(c)
        /\ UNCHANGED <<maps, closed, queue, known>>
     \/ /\ c \notin closed /\ Len(queue[c]) < Buffer
        /\ queue' = [queue EXCEPT ![c] = Append(@, reply[c])]
        /\ pc' = [pc EXCEPT ![c] = AfterReply(c)]
        /\ UNCHANGED <<maps, closed, cast, todo, stale, due, known>>
     \/ /\ c \notin closed /\ Len(queue[c]) >= Buffer
        /\ Unregister(c, c, AfterReply(c))
        /\ UNCHANGED <<cast, todo, stale>>
  /\ UNCHANGED <<up, local, conn, bounds>>

\* ReadMessage fails on a closed socket; the deferred Unregister runs, then
\* the socket is closed.
ReadFails(c) ==
  /\ pc[c] = "idle" /\ c \notin conn
  /\ pc' = [pc EXCEPT ![c] = "unregister"]
  /\ UNCHANGED <<up, maps, local, link, queue, jobs, bounds,
                 due, known>>

EndReader(c) ==
  /\ pc[c] = "unregister"
  /\ Unregister(c, c, "close")
  /\ UNCHANGED <<up, local, conn, jobs, bounds>>

CloseConn(c) ==
  /\ pc[c] = "close"
  /\ conn' = conn \ {c}
  /\ pc' = [pc EXCEPT ![c] = "done"]
  /\ UNCHANGED <<up, maps, local, closed, queue, jobs, bounds,
                 due, known>>

-----------------------------------------------------------------------------
(* Broadcasts, of readers and of the subscriber.                           *)

\* The subscriber takes the next event of the realtime channel.
TakeEvent ==
  /\ pc[Subscriber] = "idle"
  /\ published < MaxEvents
  /\ published' = published + 1
  /\ cast' = [cast EXCEPT ![Subscriber] = ToChat(Event(Subscriber, NextNumber))]
  /\ pc' = [pc EXCEPT ![Subscriber] = "cast"]
  /\ UNCHANGED <<up, maps, local, link, queue, reply, todo, stale, requests, due, known>>

\* Mutant of Targets: in a room only those who have opened the chat are told.
TargetsSubscribed(t) ==
  IF cast[t].to = "chat" THEN chat ELSE (room \cap chat) \ {t}

\* The clients of the broadcast: all of the chat, or the others in the room.
Targets(t) == IF cast[t].to = "chat" THEN chat ELSE room \ {t}

\* The clients are copied under the lock.  An event is due to every open client
\* that has subscribed.
StartCast(t) ==
  /\ pc[t] = "cast"
  /\ todo' = [todo EXCEPT ![t] = Targets(t)]
  /\ due' = IF IsEvent(cast[t].msg)
            THEN [c \in Clients |->
                    IF c \in (subscribed \cap conn) \ closed
                    THEN due[c] \cup {cast[t].msg} ELSE due[c]]
            ELSE due
  /\ pc' = [pc EXCEPT ![t] = "send"]
  /\ UNCHANGED <<up, maps, local, link, queue, reply, cast, stale, bounds, known>>

\* Mutant of Offer: a client whose buffer is full is passed over.
OfferOrSkip(t, c) ==
  \/ /\ Len(queue[c]) < Buffer
     /\ queue' = [queue EXCEPT ![c] = Append(@, cast[t].msg)]
     /\ UNCHANGED stale
  \/ /\ Len(queue[c]) >= Buffer
     /\ UNCHANGED <<queue, stale>>

\* The select of the loop: the message is buffered, or the client is stale.
Offer(t, c) ==
  \/ /\ Len(queue[c]) < Buffer
     /\ queue' = [queue EXCEPT ![c] = Append(@, cast[t].msg)]
     /\ UNCHANGED stale
  \/ /\ Len(queue[c]) >= Buffer
     /\ stale' = [stale EXCEPT ![t] = @ \cup {c}]
     /\ UNCHANGED queue

SendToNext(t) ==
  /\ pc[t] = "send"
  /\ \E c \in todo[t] \ closed :
       /\ Offer(t, c)
       /\ todo' = [todo EXCEPT ![t] = @ \ {c}]
  /\ UNCHANGED <<up, maps, local, link, pc, reply, cast, bounds,
                 due, known>>

\* A client that was copied has been unregistered: a send on a closed channel
\* panics, in spite of the default case.
SendPanics(t) ==
  /\ pc[t] = "send"
  /\ todo[t] \cap closed # {}
  /\ \/ t \in Clients /\ ReaderPanics(t) /\ UNCHANGED up
     \/ t = Subscriber /\ up' = FALSE /\ UNCHANGED <<pc, cast, todo, stale, due>>
  /\ UNCHANGED <<maps, local, link, queue, reply, bounds, known>>

\* Stale clients are unregistered, one by one.
DropStale(t) ==
  /\ pc[t] = "send" /\ todo[t] = {}
  /\ \E c \in stale[t] :
       /\ stale' = [stale EXCEPT ![t] = @ \ {c}]
       /\ Unregister(t, c, "send")
  /\ UNCHANGED <<up, local, conn, reply, cast, todo, bounds>>

EndCast(t) ==
  /\ pc[t] = "send" /\ todo[t] = {} /\ stale[t] = {}
  /\ cast' = [cast EXCEPT ![t] = NoCast]
  /\ pc' = [pc EXCEPT ![t] = "idle"]
  /\ UNCHANGED <<up, maps, local, link, queue, reply, todo, stale, bounds, due, known>>

-----------------------------------------------------------------------------
(* The writer of a client, and the network.                                *)

\* WritePump writes the next message.
WriteNext(c) ==
  /\ c \in conn /\ pc[c] # "hello" /\ queue[c] # <<>>
  /\ queue' = [queue EXCEPT ![c] = Tail(@)]
  /\ due' = IF IsEvent(Head(queue[c]))
            THEN [due EXCEPT ![c] = @ \ {Head(queue[c])}] ELSE due
  /\ known' = [known EXCEPT ![c] = Learn(@, Head(queue[c]))]
  /\ UNCHANGED <<up, maps, local, link, pc, jobs, bounds>>

\* WritePump sees that the client is closed, and closes the socket.
WriterEnds(c) ==
  /\ c \in conn /\ c \in closed
  /\ conn' = conn \ {c}
  /\ UNCHANGED <<up, maps, local, closed, queue, pc, jobs, bounds,
                 due, known>>

\* The peer goes away, a deadline passes, or a write fails.
Disconnect(c) ==
  /\ c \in conn
  /\ conn' = conn \ {c}
  /\ due' = [due EXCEPT ![c] = {}]
  /\ known' = [known EXCEPT ![c] = {}]
  /\ UNCHANGED <<up, maps, local, closed, queue, pc, jobs, bounds>>

-----------------------------------------------------------------------------
Receive(c) ==
  \/ Answer(c) \/ Subscribe(c) \/ Unsubscribe(c)
  \/ ChatMessage(c) \/ Typing(c) \/ CallEvent(c)
  \/ JoinCall(c) \/ LeaveCall(c) \/ Signal(c)

Read(c) ==
  \/ Hello(c) \/ SendReply(c)
  \/ ReadFails(c) \/ EndReader(c) \/ CloseConn(c)

Broadcast(t) ==
  \/ StartCast(t) \/ SendToNext(t) \/ SendPanics(t) \/ DropStale(t) \/ EndCast(t)

Next ==
  /\ up
  /\ \/ \E c \in Clients :
          \/ Register(c) \/ Receive(c) \/ Read(c)
          \/ WriteNext(c) \/ WriterEnds(c) \/ Disconnect(c)
     \/ TakeEvent
     \/ \E t \in Threads : Broadcast(t)

Spec == Init /\ [][Next]_vars

-----------------------------------------------------------------------------
(* Properties.                                                             *)

\* A client that is connected has been written, or will be, exactly the events
\* and chat messages that were broadcast while it was subscribed, those of one
\* sender in their order; a client that is too slow is closed and misses none in
\* silence.  Only a reader that panics in its broadcast leaves a gap: the clients
\* it has not come to, or has found too slow and not yet unregistered, stay open
\* without this message.
\* (Hub.BroadcastToChat, hub.go:214-248; WritePump)
NoGap ==
  \A c \in conn \ closed :
    LET q == queue[c]
        buffered == {i \in DOMAIN q : IsEvent(q[i])}
        pending == UNION {PendingOf(t, c) : t \in Threads}
    IN /\ due[c] = {q[i] : i \in buffered} \cup pending
       /\ \A i \in buffered :
            /\ \A j \in buffered : i < j /\ q[i].by = q[j].by => q[i].event < q[j].event
            /\ \A m \in pending : q[i].by = m.by => q[i].event < m.event

\* The hub forgets a client when its reader ends, also one that was unregistered
\* by somebody else before and has subscribed or joined again since.
\* (ReadPump's deferred Unregister against Subscribe and JoinCallRoom)
GoneIsForgotten ==
  \A c \in Clients : pc[c] = "done" => c \notin registered \cup chat \cup room

\* c has been told of d, or will read of it, and of no departure of d after it.
Told(c, d) ==
  \E i \in 0..Len(queue[c]) :
    /\ d \in IF i = 0 THEN known[c] ELSE Learn({}, queue[c][i])
    /\ \A j \in (i + 1)..Len(queue[c]) : queue[c][j] # PeerLeft(d)

\* Two connected clients of a call room know of each other once their readers
\* have handled join_call: from the list of peers or from the news.
\* (JoinCallRoom, BroadcastToCallRoom, client.go join_call and leave_call)
PeersMeet ==
  \A c, d \in room \cap (conn \ closed) :
    c # d /\ pc[c] = "idle" /\ pc[d] = "idle" => Told(c, d)
=============================================================================
