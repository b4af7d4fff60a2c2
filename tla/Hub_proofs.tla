---------------------------- MODULE Hub_proofs ----------------------------
(***************************************************************************)
(* Proofs about Hub for every set of clients, every size of the send       *)
(* buffers and any number of events and requests, and about Presence for   *)
(* every set of connections and any number of updates.                     *)
(***************************************************************************)
EXTENDS Hub, Presence, FiniteSetTheorems, TLAPS

-----------------------------------------------------------------------------
\* What a goroutine needs for its step is in hand.
InHand ==
  /\ \A t \in Threads : pc[t] \in {"cast", "send"} => cast[t] # NoCast
  /\ \A c \in Clients : pc[c] = "reply" => reply[c] # NoReply

\* The hub's maps and the client's own agree, and a reader that has run the
\* deferred Unregister has left both for good.
Ended ==
  /\ chat \subseteq subscribed
  /\ room \subseteq joined
  /\ \A c \in Clients :
       pc[c] \in {"close", "done"} => c \notin registered \cup chat \cup room

-----------------------------------------------------------------------------
LEMMA NoteIsMessage ==
  /\ Note \in Messages
  /\ \A S \in SUBSET Clients : Existing(S) \in Messages
  /\ \A c \in Clients : NewPeer(c) \in Messages /\ PeerLeft(c) \in Messages
  /\ Events \subseteq Messages
  /\ \A m \in Messages : IsEvent(m) => m \in Events
  /\ \A m \in Messages : ToChat(m) \in Casts /\ ToRoom(m) \in Casts
<1>1. /\ Note \in Messages
      /\ \A S \in SUBSET Clients : Existing(S) \in Messages
      /\ \A c \in Clients : NewPeer(c) \in Messages /\ PeerLeft(c) \in Messages
      /\ Events \subseteq Messages
  BY DEF Messages, Note, Existing, NewPeer, PeerLeft
<1>2. ASSUME NEW m \in Messages, IsEvent(m)
      PROVE  m \in Events
  <2>1. CASE m \in [note : {TRUE}]
    BY <1>2, <2>1 DEF IsEvent
  <2>2. CASE m \in Events
    BY <2>2
  <2>3. CASE m \in [existing : SUBSET Clients]
    BY <1>2, <2>3 DEF IsEvent
  <2>4. CASE m \in [newPeer : Clients]
    BY <1>2, <2>4 DEF IsEvent
  <2>5. CASE m \in [peerLeft : Clients]
    BY <1>2, <2>5 DEF IsEvent
  <2>6. QED
    BY <2>1, <2>2, <2>3, <2>4, <2>5 DEF Messages
<1>3. \A m \in Messages : ToChat(m) \in Casts /\ ToRoom(m) \in Casts
  BY DEF ToChat, ToRoom, Casts
<1>4. QED
  BY <1>1, <1>2, <1>3

LEMMA NextIsCast ==
  ASSUME TypeOK, NEW t \in Threads, published < MaxEvents \/ requests < MaxRequests
  PROVE  /\ Event(t, NextNumber) \in Events /\ Event(t, NextNumber) \in Messages
         /\ ToChat(Event(t, NextNumber)) \in Casts
<1>1. NextNumber \in 1..(MaxEvents + MaxRequests)
  BY ConstantsAssumption DEF TypeOK, ConstantsAssumption, NextNumber
<1>2. Event(t, NextNumber) \in Events
  BY <1>1 DEF Event, Events
<1>3. QED
  BY <1>2, NoteIsMessage

LEMMA LearnsClients ==
  ASSUME NEW S \in SUBSET Clients, NEW m \in Messages
  PROVE  Learn(S, m) \in SUBSET Clients
BY DEF Messages, Events, Learn

LEMMA UnregisterTypes ==
  ASSUME TypeOK, NEW t \in Threads, NEW c \in Clients, NEW then \in Steps,
         Unregister(t, c, then)
  PROVE  /\ registered' \subseteq Clients /\ chat' \subseteq Clients
         /\ room' \subseteq Clients /\ closed' \subseteq Clients
         /\ queue' \in [Clients -> Seq(Messages)]
         /\ \A x \in Clients : Len(queue'[x]) <= Buffer
         /\ due' \in [Clients -> SUBSET Events]
         /\ known' \in [Clients -> SUBSET Clients]
         /\ pc' \in [Threads -> Steps]
<1>1. /\ registered' \subseteq Clients /\ chat' \subseteq Clients
      /\ room' \subseteq Clients /\ closed' \subseteq Clients
  BY DEF TypeOK, Unregister
<1>2. pc' \in [Threads -> Steps]
  BY DEF TypeOK, Unregister
<1>3. /\ queue' = [queue EXCEPT ![c] = <<>>]
      /\ due' = [due EXCEPT ![c] = {}]
      /\ known' = [known EXCEPT ![c] = {}]
  BY DEF Unregister, Discard
<1>4. /\ queue' \in [Clients -> Seq(Messages)]
      /\ \A x \in Clients : Len(queue'[x]) <= Buffer
  <2>1. /\ queue \in [Clients -> Seq(Messages)]
        /\ \A x \in Clients : Len(queue[x]) <= Buffer
        /\ Buffer \in Nat
    BY ConstantsAssumption DEF TypeOK, ConstantsAssumption
  <2>2. <<>> \in Seq(Messages) /\ Len(<<>>) = 0
    OBVIOUS
  <2>3. QED
    BY <1>3, <2>1, <2>2
<1>5. /\ due' \in [Clients -> SUBSET Events]
      /\ known' \in [Clients -> SUBSET Clients]
  BY <1>3 DEF TypeOK
<1>6. QED
  BY <1>1, <1>2, <1>4, <1>5

LEMMA HandleTypes ==
  ASSUME TypeOK, NEW c \in Clients, NEW a \in Messages \cup {NoReply},
         NEW b \in Casts \cup {NoCast}, Handle(c, a, b)
  PROVE  /\ requests' \in 0..MaxRequests
         /\ reply' \in [Clients -> Messages \cup {NoReply}]
         /\ cast' \in [Threads -> Casts \cup {NoCast}]
         /\ pc' \in [Threads -> Steps]
         /\ UNCHANGED <<up, registered, closed, conn, queue, todo, stale,
                        published, due, known>>
<1>1. requests' \in 0..MaxRequests
  BY ConstantsAssumption DEF TypeOK, ConstantsAssumption, Handle
<1>2. /\ reply' \in [Clients -> Messages \cup {NoReply}]
      /\ cast' \in [Threads -> Casts \cup {NoCast}]
  BY DEF TypeOK, Handle, Threads
<1>3. pc' \in [Threads -> Steps]
  BY DEF TypeOK, Handle, Steps
<1>4. QED
  BY <1>1, <1>2, <1>3 DEF Handle, link

LEMMA AppendKeepsCapacity ==
  ASSUME TypeOK, NEW c \in Clients, NEW m \in Messages, Len(queue[c]) < Buffer,
         queue' = [queue EXCEPT ![c] = Append(queue[c], m)]
  PROVE  /\ queue' \in [Clients -> Seq(Messages)]
         /\ \A x \in Clients : Len(queue'[x]) <= Buffer
<1>1. /\ queue \in [Clients -> Seq(Messages)]
      /\ \A x \in Clients : Len(queue[x]) <= Buffer
      /\ Buffer \in Nat
  BY ConstantsAssumption DEF TypeOK, ConstantsAssumption
<1>2. /\ Append(queue[c], m) \in Seq(Messages)
      /\ Len(Append(queue[c], m)) <= Buffer
  BY <1>1
<1>3. QED
  BY <1>1, <1>2

LEMMA PanicTypes ==
  ASSUME TypeOK, NEW c \in Clients, ReaderPanics(c)
  PROVE  /\ pc' \in [Threads -> Steps]
         /\ cast' \in [Threads -> Casts \cup {NoCast}]
         /\ todo' \in [Threads -> SUBSET Clients]
         /\ stale' \in [Threads -> SUBSET Clients]
         /\ due' \in [Clients -> SUBSET Events]
BY DEF TypeOK, ReaderPanics, Steps

-----------------------------------------------------------------------------
\* Types.
LEMMA StepKeepsTypes == TypeOK /\ InHand /\ [Next]_vars => TypeOK'
<1> SUFFICES ASSUME TypeOK, InHand, [Next]_vars
             PROVE  TypeOK'
  OBVIOUS
<1> USE ConstantsAssumption, NullAssumption
<1>1. ASSUME NEW c \in Clients, Register(c)
      PROVE  TypeOK'
  <2>1. /\ registered' \in SUBSET Clients /\ conn' \subseteq Clients
        /\ pc' \in [Threads -> Steps]
    BY <1>1 DEF Register, TypeOK, Steps, Threads
  <2>2. QED
    BY <1>1, <2>1 DEF Register, TypeOK, local, jobs, bounds
<1>2. ASSUME NEW c \in Clients, Hello(c)
      PROVE  TypeOK'
  <2>1. /\ queue' = [queue EXCEPT ![c] = Append(queue[c], Note)]
        /\ Len(queue[c]) < Buffer
        /\ pc' = [pc EXCEPT ![c] = "idle"]
        /\ UNCHANGED <<up, registered, chat, room, subscribed, joined, closed, conn,
                       reply, cast, todo, stale,
                       published, requests, due, known>>
    BY <1>2 DEF Hello, maps, local, link, jobs, bounds
  <2>2. pc' \in [Threads -> Steps]
    BY <2>1 DEF TypeOK, Steps
  <2>3. /\ queue' \in [Clients -> Seq(Messages)]
        /\ \A x \in Clients : Len(queue'[x]) <= Buffer
    BY <2>1, NoteIsMessage, AppendKeepsCapacity
  <2>4. QED
    BY <2>1, <2>2, <2>3 DEF TypeOK
<1>3. ASSUME NEW c \in Clients, Receive(c)
      PROVE  TypeOK'
  <2>1. PICK a \in Messages \cup {NoReply}, b \in Casts \cup {NoCast} : Handle(c, a, b)
    <3>1. /\ Existing(room \ {c}) \in Messages
          /\ NewPeer(c) \in Messages /\ PeerLeft(c) \in Messages /\ Note \in Messages
      BY NoteIsMessage DEF TypeOK
    <3>2. /\ ToChat(Note) \in Casts /\ ToRoom(Note) \in Casts
          /\ ToRoom(NewPeer(c)) \in Casts /\ ToRoom(PeerLeft(c)) \in Casts
      BY <3>1, NoteIsMessage
    <3>3. requests < MaxRequests => ToChat(Event(c, NextNumber)) \in Casts
      BY NextIsCast DEF Threads
    <3>4. QED
      BY <1>3, <3>1, <3>2, <3>3 DEF Handle, Receive, Answer, Subscribe, Unsubscribe, ChatMessage,
           Typing, CallEvent, JoinCall, LeaveCall, Signal
  <2>2. /\ chat' \subseteq Clients /\ room' \subseteq Clients
        /\ subscribed' \subseteq Clients /\ joined' \subseteq Clients
    BY <1>3 DEF TypeOK, Receive, Answer, Subscribe, Unsubscribe, ChatMessage,
         Typing, CallEvent, JoinCall, LeaveCall, Signal, local
  <2>3. /\ requests' \in 0..MaxRequests
        /\ reply' \in [Clients -> Messages \cup {NoReply}]
        /\ cast' \in [Threads -> Casts \cup {NoCast}]
        /\ pc' \in [Threads -> Steps]
        /\ UNCHANGED <<up, registered, closed, conn, queue, todo, stale,
                       published, due, known>>
    BY <2>1, HandleTypes
  <2>4. QED
    BY <2>2, <2>3 DEF TypeOK
<1>4. ASSUME NEW c \in Clients, SendReply(c)
      PROVE  TypeOK'
  <2>1. /\ reply' \in [Clients -> Messages \cup {NoReply}]
        /\ reply[c] \in Messages
        /\ AfterReply(c) \in Steps
        /\ c \in Threads
    BY <1>4 DEF SendReply, TypeOK, InHand, AfterReply, Steps, Threads
  <2>2. UNCHANGED <<up, subscribed, joined, conn, published, requests>>
    BY <1>4 DEF SendReply, local, bounds
  <2>3. CASE ReaderPanics(c) /\ UNCHANGED <<maps, closed, queue, known>>
    <3>1. /\ pc' \in [Threads -> Steps]
          /\ cast' \in [Threads -> Casts \cup {NoCast}]
          /\ todo' \in [Threads -> SUBSET Clients]
          /\ stale' \in [Threads -> SUBSET Clients]
          /\ due' \in [Clients -> SUBSET Events]
      BY <2>3, PanicTypes
    <3>2. QED
      BY <2>1, <2>2, <2>3, <3>1 DEF TypeOK, maps
  <2>4. CASE /\ Len(queue[c]) < Buffer
             /\ queue' = [queue EXCEPT ![c] = Append(@, reply[c])]
             /\ pc' = [pc EXCEPT ![c] = AfterReply(c)]
             /\ UNCHANGED <<maps, closed, cast, todo, stale, due, known>>
    <3>1. /\ queue' \in [Clients -> Seq(Messages)]
          /\ \A x \in Clients : Len(queue'[x]) <= Buffer
      BY <2>1, <2>4, AppendKeepsCapacity
    <3>2. pc' \in [Threads -> Steps]
      BY <2>1, <2>4 DEF TypeOK
    <3>3. QED
      BY <2>1, <2>2, <2>4, <3>1, <3>2 DEF TypeOK, maps
  <2>5. CASE Unregister(c, c, AfterReply(c)) /\ UNCHANGED <<cast, todo, stale>>
    BY <2>1, <2>2, <2>5, UnregisterTypes DEF TypeOK
  <2>6. QED
    BY <1>4, <2>3, <2>4, <2>5 DEF SendReply
<1>5. ASSUME NEW c \in Clients, ReadFails(c)
      PROVE  TypeOK'
  BY <1>5 DEF ReadFails, TypeOK, Steps, maps, local, link, jobs, bounds
<1>6. ASSUME NEW c \in Clients, EndReader(c)
      PROVE  TypeOK'
  <2>1. /\ Unregister(c, c, "close") /\ "close" \in Steps /\ c \in Threads
        /\ UNCHANGED <<up, subscribed, joined, conn, reply, cast, todo, stale,
                       published, requests>>
    BY <1>6 DEF EndReader, Steps, Threads, local, jobs, bounds
  <2>2. QED
    BY <2>1, UnregisterTypes DEF TypeOK
<1>7. ASSUME NEW c \in Clients, CloseConn(c)
      PROVE  TypeOK'
  BY <1>7 DEF CloseConn, TypeOK, Steps, maps, local, link, jobs, bounds
<1>8. ASSUME NEW c \in Clients, WriteNext(c)
      PROVE  TypeOK'
  <2>1. /\ queue[c] # <<>>
        /\ queue' = [queue EXCEPT ![c] = Tail(queue[c])]
        /\ due' = due \/ due' = [due EXCEPT ![c] = due[c] \ {Head(queue[c])}]
        /\ known' = [known EXCEPT ![c] = Learn(known[c], Head(queue[c]))]
        /\ UNCHANGED <<up, registered, chat, room, subscribed, joined, closed, conn, pc,
                       reply, cast, todo, stale, published,
                       requests>>
    BY <1>8 DEF WriteNext, maps, local, link, jobs, bounds
  <2>2. /\ queue[c] \in Seq(Messages) /\ Len(queue[c]) <= Buffer
        /\ queue \in [Clients -> Seq(Messages)]
        /\ \A x \in Clients : Len(queue[x]) <= Buffer
        /\ known \in [Clients -> SUBSET Clients]
        /\ due \in [Clients -> SUBSET Events]
        /\ Buffer \in Nat
    BY DEF TypeOK, ConstantsAssumption
  <2>3. /\ Head(queue[c]) \in Messages
        /\ Tail(queue[c]) \in Seq(Messages) /\ Len(Tail(queue[c])) <= Buffer
    BY <2>1, <2>2
  <2>4. /\ queue' \in [Clients -> Seq(Messages)]
        /\ \A x \in Clients : Len(queue'[x]) <= Buffer
    BY <2>1, <2>2, <2>3
  <2>5. known' \in [Clients -> SUBSET Clients]
    BY <2>1, <2>2, <2>3, LearnsClients
  <2>6. due' \in [Clients -> SUBSET Events]
    <3>1. ASSUME NEW e, due' = [due EXCEPT ![c] = due[c] \ {e}]
          PROVE  due' \in [Clients -> SUBSET Events]
      BY <2>2, <3>1
    <3>2. QED
      BY <2>1, <2>2, <3>1
  <2>7. QED
    BY <2>1, <2>4, <2>5, <2>6 DEF TypeOK
<1>9. ASSUME NEW c \in Clients, WriterEnds(c) \/ Disconnect(c)
      PROVE  TypeOK'
  BY <1>9 DEF WriterEnds, Disconnect, TypeOK, maps, local, jobs, bounds
<1>10. ASSUME TakeEvent
       PROVE  TypeOK'
  <2>1. /\ published' = published + 1 /\ published' \in 1..MaxEvents
        /\ cast' = [cast EXCEPT ![Subscriber] = ToChat(Event(Subscriber, NextNumber))]
        /\ pc' = [pc EXCEPT ![Subscriber] = "cast"]
        /\ UNCHANGED <<up, registered, chat, room, subscribed, joined, closed, conn,
                       queue, reply, todo, stale,
                       requests, due, known>>
    BY <1>10 DEF TakeEvent, TypeOK, ConstantsAssumption, maps, local, link
  <2>2. ToChat(Event(Subscriber, NextNumber)) \in Casts
    BY <1>10, NextIsCast DEF TakeEvent, Threads
  <2>3. /\ pc' \in [Threads -> Steps]
        /\ cast' \in [Threads -> Casts \cup {NoCast}]
    BY <2>1, <2>2 DEF TypeOK, Steps
  <2>4. QED
    BY <2>1, <2>3 DEF TypeOK, ConstantsAssumption
<1>11. ASSUME NEW t \in Threads, StartCast(t)
       PROVE  TypeOK'
  <2>1. cast[t] \in Casts /\ cast[t].msg \in Messages
    BY <1>11 DEF StartCast, TypeOK, InHand, Casts
  <2>2. IsEvent(cast[t].msg) => cast[t].msg \in Events
    BY <2>1, NoteIsMessage
  <2>3. due' \in [Clients -> SUBSET Events]
    <3>1. due \in [Clients -> SUBSET Events]
      BY DEF TypeOK
    <3>2. CASE IsEvent(cast[t].msg)
      <4>1. due' = [c \in Clients |->
                      IF c \in (subscribed \cap conn) \ closed
                      THEN due[c] \cup {cast[t].msg} ELSE due[c]]
        BY <1>11, <3>2 DEF StartCast
      <4>2. \A c \in Clients : /\ due[c] \cup {cast[t].msg} \in SUBSET Events
                               /\ due[c] \in SUBSET Events
        BY <2>2, <3>1, <3>2
      <4>3. QED
        BY <4>1, <4>2
    <3>3. CASE ~IsEvent(cast[t].msg)
      BY <1>11, <3>1, <3>3 DEF StartCast
    <3>4. QED
      BY <3>2, <3>3
  <2>4. todo' \in [Threads -> SUBSET Clients]
    BY <1>11 DEF StartCast, Targets, TypeOK
  <2>5. pc' \in [Threads -> Steps]
    BY <1>11 DEF StartCast, TypeOK, Steps
  <2>6. QED
    BY <1>11, <2>3, <2>4, <2>5
       DEF StartCast, TypeOK, maps, local, link, bounds
<1>12. ASSUME NEW t \in Threads, SendToNext(t)
       PROVE  TypeOK'
  <2>1. PICK c \in Clients : /\ Offer(t, c)
                             /\ todo' = [todo EXCEPT ![t] = @ \ {c}]
    BY <1>12 DEF SendToNext, TypeOK
  <2>2. cast[t] \in Casts /\ cast[t].msg \in Messages
    BY <1>12 DEF SendToNext, TypeOK, InHand, Casts
  <2>3. /\ queue' \in [Clients -> Seq(Messages)]
        /\ \A x \in Clients : Len(queue'[x]) <= Buffer
        /\ stale' \in [Threads -> SUBSET Clients]
    <3>1. CASE /\ Len(queue[c]) < Buffer /\ UNCHANGED stale
               /\ queue' = [queue EXCEPT ![c] = Append(@, cast[t].msg)]
      BY <2>2, <3>1, AppendKeepsCapacity DEF TypeOK
    <3>2. CASE UNCHANGED queue /\ stale' = [stale EXCEPT ![t] = @ \cup {c}]
      BY <3>2 DEF TypeOK
    <3>3. QED
      BY <2>1, <3>1, <3>2 DEF Offer
  <2>4. todo' \in [Threads -> SUBSET Clients]
    BY <2>1 DEF TypeOK
  <2>5. QED
    BY <1>12, <2>3, <2>4
       DEF SendToNext, TypeOK, maps, local, link, bounds
<1>13. ASSUME NEW t \in Threads, SendPanics(t)
       PROVE  TypeOK'
  <2>1. UNCHANGED <<registered, chat, room, subscribed, joined, closed, conn, queue,
                    reply, published, requests, known>>
    BY <1>13 DEF SendPanics, maps, local, link, bounds
  <2>2. CASE t \in Clients /\ ReaderPanics(t) /\ UNCHANGED up
    BY <2>1, <2>2, PanicTypes DEF TypeOK
  <2>3. CASE up' = FALSE /\ UNCHANGED <<pc, cast, todo, stale, due>>
    BY <2>1, <2>3 DEF TypeOK
  <2>4. QED
    BY <1>13, <2>2, <2>3 DEF SendPanics
<1>14. ASSUME NEW t \in Threads, DropStale(t)
       PROVE  TypeOK'
  <2>1. PICK c \in Clients : /\ stale' = [stale EXCEPT ![t] = @ \ {c}]
                             /\ Unregister(t, c, "send")
    BY <1>14 DEF DropStale, TypeOK
  <2>2. UNCHANGED <<up, subscribed, joined, conn, reply, cast, todo,
                    published, requests>>
    BY <1>14 DEF DropStale, local, bounds
  <2>3. stale' \in [Threads -> SUBSET Clients] /\ "send" \in Steps
    BY <2>1 DEF TypeOK, Steps
  <2>4. QED
    BY <2>1, <2>2, <2>3, UnregisterTypes DEF TypeOK
<1>15. ASSUME NEW t \in Threads, EndCast(t)
       PROVE  TypeOK'
  BY <1>15 DEF EndCast, TypeOK, Steps, maps, local, link, bounds
<1>16. CASE UNCHANGED vars
  BY <1>16 DEF TypeOK, vars, maps, local, link, jobs, bounds
<1>17. QED
  BY <1>1, <1>2, <1>3, <1>4, <1>5, <1>6, <1>7, <1>8, <1>9, <1>10, <1>11, <1>12, <1>13,
     <1>14, <1>15, <1>16 DEF Next, Read, Broadcast

-----------------------------------------------------------------------------
\* A step of t leaves the work of the others alone.
Own(t) ==
  /\ \A s \in Threads \ {t} : pc'[s] = pc[s] /\ cast'[s] = cast[s]
  /\ \A c \in Clients \ {t} : reply'[c] = reply[c]

LEMMA InHandLocally ==
  ASSUME InHand, NEW t \in Threads, Own(t),
         pc'[t] \in {"cast", "send"} => cast'[t] # NoCast,
         t \in Clients /\ pc'[t] = "reply" => reply'[t] # NoReply
  PROVE  InHand'
<1>1. \A s \in Threads : pc'[s] \in {"cast", "send"} => cast'[s] # NoCast
  BY DEF InHand, Own
<1>2. \A c \in Clients : pc'[c] = "reply" => reply'[c] # NoReply
  BY DEF InHand, Own, Threads
<1>3. QED
  BY <1>1, <1>2 DEF InHand

LEMMA StepKeepsInHand == TypeOK /\ InHand /\ [Next]_vars => InHand'
<1> SUFFICES ASSUME TypeOK, InHand, [Next]_vars
             PROVE  InHand'
  OBVIOUS
<1>0. /\ pc \in [Threads -> Steps]
      /\ cast \in [Threads -> Casts \cup {NoCast}]
      /\ reply \in [Clients -> Messages \cup {NoReply}]
      /\ Clients \subseteq Threads /\ Subscriber \in Threads
  BY DEF TypeOK, Threads
<1>1. ASSUME NEW c \in Clients,
             Register(c) \/ Hello(c) \/ ReadFails(c) \/ EndReader(c) \/ CloseConn(c)
      PROVE  InHand'
  <2>1. /\ UNCHANGED <<cast, reply>>
        /\ \E s \in {"hello", "idle", "unregister", "close", "done"} : pc' = [pc EXCEPT ![c] = s]
    BY <1>1 DEF Register, Hello, ReadFails, EndReader, Unregister, CloseConn, jobs
  <2>2. Own(c) /\ pc'[c] \notin {"cast", "send", "reply"}
    BY <1>0, <2>1 DEF Own
  <2>3. QED
    BY <1>0, <2>2, InHandLocally
<1>2. ASSUME NEW c \in Clients, Receive(c)
      PROVE  InHand'
  <2>1. PICK a, b : Handle(c, a, b) /\ (a # NoReply \/ b # NoCast)
    <3>1. /\ Note # NoReply /\ Existing(room \ {c}) # NoReply
          /\ ToChat(Note) # NoCast /\ ToRoom(Note) # NoCast
          /\ ToRoom(PeerLeft(c)) # NoCast
      BY NoteIsMessage, NullAssumption DEF TypeOK
    <3>2. QED
      BY <1>2, <3>1 DEF Receive, Answer, Subscribe, Unsubscribe, ChatMessage,
           Typing, CallEvent, JoinCall, LeaveCall, Signal
  <2>2. /\ Own(c) /\ reply'[c] = a /\ cast'[c] = b
        /\ pc'[c] = IF a # NoReply THEN "reply" ELSE "cast"
    BY <1>0, <2>1 DEF Handle, Own
  <2>3. QED
    BY <1>0, <2>1, <2>2, InHandLocally
<1>3. ASSUME NEW c \in Clients, SendReply(c)
      PROVE  InHand'
  <2>1. /\ reply' = [reply EXCEPT ![c] = NoReply]
        /\ AfterReply(c) \in {"idle", "cast"}
        /\ AfterReply(c) = "cast" => cast[c] # NoCast
    BY <1>3 DEF SendReply, AfterReply
  <2>2. \A x \in Clients \ {c} : reply'[x] = reply[x]
    BY <1>0, <2>1
  <2>3. CASE /\ pc' = [pc EXCEPT ![c] = "unregister"]
             /\ cast' = [cast EXCEPT ![c] = NoCast]
    BY <1>0, <2>2, <2>3, InHandLocally DEF Own
  <2>4. CASE pc' = [pc EXCEPT ![c] = AfterReply(c)] /\ UNCHANGED cast
    <3>1. Own(c) /\ pc'[c] = AfterReply(c) /\ cast'[c] = cast[c]
      BY <1>0, <2>2, <2>4 DEF Own
    <3>2. QED
      BY <1>0, <2>1, <3>1, InHandLocally
  <2>5. QED
    BY <1>3, <2>3, <2>4 DEF SendReply, ReaderPanics, Unregister
<1>4. ASSUME NEW c \in Clients, WriteNext(c) \/ WriterEnds(c) \/ Disconnect(c)
      PROVE  InHand'
  BY <1>4 DEF WriteNext, WriterEnds, Disconnect, jobs, InHand
<1>5. ASSUME TakeEvent
      PROVE  InHand'
  <2>1. /\ cast'[Subscriber] = ToChat(Event(Subscriber, NextNumber))
        /\ Own(Subscriber) /\ pc'[Subscriber] = "cast"
    BY <1>0, <1>5 DEF TakeEvent, Own
  <2>2. ToChat(Event(Subscriber, NextNumber)) # NoCast
    BY <1>0, <1>5, NextIsCast, NullAssumption DEF TakeEvent
  <2>3. QED
    BY <1>0, <2>1, <2>2, InHandLocally, ConstantsAssumption DEF ConstantsAssumption
<1>6. ASSUME NEW t \in Threads, StartCast(t)
      PROVE  InHand'
  <2>1. Own(t) /\ pc'[t] = "send" /\ cast'[t] = cast[t] /\ pc[t] = "cast"
    BY <1>0, <1>6 DEF StartCast, Own
  <2>2. QED
    BY <2>1, InHandLocally DEF InHand
<1>7. ASSUME NEW t \in Threads, SendToNext(t)
      PROVE  InHand'
  BY <1>7 DEF SendToNext, InHand
<1>8. ASSUME NEW t \in Threads, SendPanics(t)
      PROVE  InHand'
  <2>1. CASE t \in Clients /\ ReaderPanics(t)
    <3>1. Own(t) /\ pc'[t] = "unregister"
      BY <1>0, <1>8, <2>1 DEF SendPanics, ReaderPanics, Own
    <3>2. QED
      BY <3>1, InHandLocally
  <2>2. CASE UNCHANGED <<pc, cast>>
    BY <1>8, <2>2 DEF SendPanics, InHand
  <2>3. QED
    BY <1>8, <2>1, <2>2 DEF SendPanics
<1>9. ASSUME NEW t \in Threads, DropStale(t) \/ EndCast(t)
      PROVE  InHand'
  <2>1. CASE DropStale(t)
    <3>1. /\ Own(t) /\ pc'[t] = "send" /\ cast'[t] = cast[t] /\ pc[t] = "send"
      BY <1>0, <2>1 DEF DropStale, Unregister, Own
    <3>2. QED
      BY <3>1, InHandLocally DEF InHand
  <2>2. CASE EndCast(t)
    <3>1. Own(t) /\ pc'[t] = "idle"
      BY <1>0, <2>2 DEF EndCast, Own
    <3>2. QED
      BY <3>1, InHandLocally
  <2>3. QED
    BY <1>9, <2>1, <2>2
<1>10. CASE UNCHANGED vars
  BY <1>10 DEF vars, jobs, InHand
<1>11. QED
  BY <1>1, <1>2, <1>3, <1>4, <1>5, <1>6, <1>7, <1>8, <1>9, <1>10 DEF Next, Read, Broadcast

-----------------------------------------------------------------------------
\* The steps of the others leave a reader and its end alone.
LEMMA UnregisterForgets ==
  ASSUME Ended, NEW t, NEW c, NEW then, Unregister(t, c, then)
  PROVE  /\ c \notin registered' \cup chat' \cup room'
         /\ registered' \subseteq registered /\ chat' \subseteq chat /\ room' \subseteq room
BY DEF Ended, Unregister

LEMMA UnregisterKeepsEnded ==
  ASSUME TypeOK, Ended, NEW t \in Threads, NEW c \in Clients,
         NEW then \in Steps, Unregister(t, c, then),
         t = c \/ then \notin {"close", "done"}, UNCHANGED local
  PROVE  Ended'
<1>1. /\ c \notin registered' \cup chat' \cup room'
      /\ registered' \subseteq registered /\ chat' \subseteq chat /\ room' \subseteq room
  BY UnregisterForgets
<1>2. \A s \in Threads : pc'[s] = IF s = t THEN then ELSE pc[s]
  BY DEF Unregister, TypeOK
<1>3. QED
  BY <1>1, <1>2 DEF Ended, local, Threads

\* A step that changes no map, and no pc to the end of a reader.
LEMMA OthersKeepEnded ==
  ASSUME Ended, UNCHANGED <<maps, local>>,
         \A c \in Clients : pc'[c] \in {"close", "done"}
                               => pc[c] \in {"close", "done"}
  PROVE  Ended'
BY DEF Ended, maps, local

LEMMA StepKeepsEnded == TypeOK /\ InHand /\ Ended /\ [Next]_vars => Ended'
<1> SUFFICES ASSUME TypeOK, InHand, Ended, [Next]_vars
             PROVE  Ended'
  OBVIOUS
<1>0. /\ pc \in [Threads -> Steps]
      /\ Clients \subseteq Threads
  BY DEF TypeOK, Threads
<1>1. ASSUME NEW c \in Clients, Register(c)
      PROVE  Ended'
  BY <1>0, <1>1 DEF Register, Ended, local
<1>2. ASSUME NEW c \in Clients, Hello(c) \/ ReadFails(c) \/ CloseConn(c)
      PROVE  Ended'
  BY <1>0, <1>2 DEF Hello, ReadFails, CloseConn, Ended, maps, local
<1>3. ASSUME NEW c \in Clients, Receive(c)
      PROVE  Ended'
  <2>1. PICK a, b : Handle(c, a, b)
    BY <1>3 DEF Receive, Answer, Subscribe, Unsubscribe, ChatMessage,
         Typing, CallEvent, JoinCall, LeaveCall, Signal
  <2>2. /\ pc' = [pc EXCEPT ![c] = IF a # NoReply THEN "reply" ELSE "cast"]
        /\ UNCHANGED <<registered>>
    BY <2>1 DEF Handle
  <2>3. /\ pc'[c] \notin {"close", "done"}
        /\ \A x \in Clients \ {c} : pc'[x] = pc[x]
    BY <1>0, <2>2
  <2>4. /\ chat' \subseteq subscribed' /\ room' \subseteq joined'
        /\ chat' \subseteq chat \cup {c} /\ room' \subseteq room \cup {c}
    BY <1>3 DEF Ended, Receive, Answer, Subscribe, Unsubscribe, ChatMessage,
         Typing, CallEvent, JoinCall, LeaveCall, Signal, local
  <2>5. QED
    BY <2>2, <2>3, <2>4 DEF Ended
<1>4. ASSUME NEW c \in Clients, SendReply(c)
      PROVE  Ended'
  <2>1. AfterReply(c) \in {"idle", "cast"} /\ UNCHANGED local
    BY <1>4 DEF SendReply, AfterReply
  <2>2. CASE /\ pc' = [pc EXCEPT ![c] = "unregister"] \/ pc' = [pc EXCEPT ![c] = AfterReply(c)]
             /\ UNCHANGED <<maps>>
    <3>1. \A x \in Clients : pc'[x] \in {"close", "done"}
                                => pc[x] \in {"close", "done"}
      BY <1>0, <2>1, <2>2
    <3>2. QED
      BY <2>1, <2>2, <3>1, OthersKeepEnded
  <2>3. CASE Unregister(c, c, AfterReply(c))
    BY <1>0, <2>1, <2>3, UnregisterKeepsEnded DEF Steps
  <2>4. QED
    BY <1>4, <2>2, <2>3 DEF SendReply, ReaderPanics
<1>5. ASSUME NEW c \in Clients, EndReader(c)
      PROVE  Ended'
  BY <1>0, <1>5, UnregisterKeepsEnded DEF EndReader, Steps
<1>6. ASSUME NEW c \in Clients, WriteNext(c) \/ WriterEnds(c) \/ Disconnect(c)
      PROVE  Ended'
  BY <1>6 DEF WriteNext, WriterEnds, Disconnect, Ended, maps, local
<1>7. ASSUME TakeEvent
      PROVE  Ended'
  BY <1>0, <1>7, ConstantsAssumption
     DEF TakeEvent, Ended, maps, local, ConstantsAssumption
<1>8. ASSUME NEW t \in Threads, StartCast(t) \/ EndCast(t)
      PROVE  Ended'
  <2>1. /\ pc' = [pc EXCEPT ![t] = "send"] \/ pc' = [pc EXCEPT ![t] = "idle"]
        /\ UNCHANGED <<maps, local>>
    BY <1>8 DEF StartCast, EndCast
  <2>2. \A x \in Clients : pc'[x] \in {"close", "done"}
                              => pc[x] \in {"close", "done"}
    BY <1>0, <2>1
  <2>3. QED
    BY <2>1, <2>2, OthersKeepEnded
<1>9. ASSUME NEW t \in Threads, SendToNext(t)
      PROVE  Ended'
  BY <1>9 DEF SendToNext, Ended, maps, local
<1>10. ASSUME NEW t \in Threads, SendPanics(t)
       PROVE  Ended'
  <2>1. /\ pc' = [pc EXCEPT ![t] = "unregister"] \/ pc' = pc
        /\ UNCHANGED <<maps, local>>
    BY <1>10 DEF SendPanics, ReaderPanics
  <2>2. \A x \in Clients : pc'[x] \in {"close", "done"}
                              => pc[x] \in {"close", "done"}
    BY <1>0, <2>1
  <2>3. QED
    BY <2>1, <2>2, OthersKeepEnded
<1>11. ASSUME NEW t \in Threads, DropStale(t)
       PROVE  Ended'
  <2>1. PICK c \in Clients : Unregister(t, c, "send")
    BY <1>11 DEF DropStale, TypeOK
  <2>2. QED
    BY <1>11, <2>1, UnregisterKeepsEnded DEF DropStale, Steps
<1>12. CASE UNCHANGED vars
  BY <1>12 DEF vars, maps, local, Ended
<1>13. QED
  BY <1>1, <1>2, <1>3, <1>4, <1>5, <1>6, <1>7, <1>8, <1>9, <1>10, <1>11, <1>12
     DEF Next, Read, Broadcast

-----------------------------------------------------------------------------
-----------------------------------------------------------------------------
(* What the events and the peers of a client rest on. *)

\* A client without a connection has had nothing to do with the hub.
Untouched(c) ==
  /\ c \notin chat \cup room \cup subscribed \cup joined \cup conn \cup closed
  /\ queue[c] = <<>> /\ due[c] = {}
  /\ \A t \in Threads : c \notin todo[t] \cup stale[t]

Fresh == \A c \in Clients : pc[c] = "new" => Untouched(c)

\* Only a broadcast that is being sent has clients left, and no client twice.
Sending ==
  \A t \in Threads :
    /\ pc[t] # "send" => todo[t] = {} /\ stale[t] = {}
    /\ todo[t] \cap stale[t] = {}

\* What a goroutine broadcasts is numbered no higher than the last number that
\* was given, and its own; only a client that has left a room says so, of itself.
Casting ==
  /\ \A t \in Threads : cast[t] # NoCast /\ IsEvent(cast[t].msg) =>
       /\ cast[t].to = "chat"
       /\ cast[t].msg.by = t /\ cast[t].msg.event < NextNumber
  /\ cast[Subscriber] # NoCast => IsEvent(cast[Subscriber].msg)
  /\ \A c \in Clients : cast[c] # NoCast =>
       \A d \in Clients : cast[c].msg = PeerLeft(d) => d = c /\ c \notin room
  /\ \A c \in Clients : reply[c] # NoReply =>
       ~IsEvent(reply[c]) /\ \A d \in Clients : reply[c] # PeerLeft(d)

\* A subscription ends in the hub's map when the client is closed, not before.
Subscribing == subscribed \ closed \subseteq chat

\* Only what has been broadcast is due: t has an event to broadcast with a higher
\* number than those of t that are due.
Announces(t) == pc[t] \in {"reply", "cast"} /\ cast[t] # NoCast /\ IsEvent(cast[t].msg)

Dues ==
  \A c \in Clients : \A m \in due[c] :
    /\ m.event < NextNumber
    /\ Announces(m.by) => m.event < cast[m.by].msg.event

Present(d) == d \in room /\ pc[d] \notin {"unregister", "close", "done"}

\* The answer that c will send itself names d.
Expects(c, d) == pc[c] = "reply" /\ d \in Learn({}, reply[c])

\* d will tell c that it is there, or close it.
Tells(d, c) ==
  /\ cast[d] = ToRoom(NewPeer(d))
  /\ \/ pc[d] \in {"reply", "cast"}
     \/ pc[d] = "send" /\ c \in todo[d] \cup stale[d]

Meets(c, d) ==
  c # d /\ c \in (room \cap conn) \ closed /\ Present(d)
    => Told(c, d) \/ Expects(c, d) \/ Tells(d, c)

Meeting == \A c, d \in Clients : Meets(c, d)

\* t goes on at step s, the others stay where they are.
Goes(t, s) == \A x \in Threads : pc'[x] = IF x = t THEN s ELSE pc[x]
Stays == \A x \in Threads : pc'[x] = pc[x]

\* The steps, by what they change of this part of the state.
Enters(c) ==
  /\ pc[c] = "new" /\ Goes(c, "hello")
  /\ conn' = conn \cup {c}
  /\ UNCHANGED <<chat, room, subscribed, joined, closed, queue, reply, cast, todo, stale,
                 bounds, due, known>>

Moves(t) ==
  /\ \/ pc[t] = "idle" /\ Goes(t, "unregister") /\ UNCHANGED <<conn, cast>>
     \/ pc[t] = "close" /\ Goes(t, "done") /\ conn' = conn \ {t} /\ UNCHANGED cast
     \/ /\ pc[t] = "send" /\ Goes(t, "idle")
        /\ todo[t] = {} /\ stale[t] = {} /\ cast' = [cast EXCEPT ![t] = NoCast]
        /\ UNCHANGED conn
  /\ UNCHANGED <<chat, room, subscribed, joined, closed, queue, reply, todo, stale, bounds,
                 due, known>>

\* m is put into the buffer of c.
Buffers(c, m) == Len(queue[c]) < Buffer /\ queue' = [queue EXCEPT ![c] = Append(queue[c], m)]

Greets(c) ==
  /\ pc[c] = "hello" /\ Goes(c, "idle") /\ Buffers(c, Note)
  /\ UNCHANGED <<chat, room, subscribed, joined, closed, conn, reply, cast, todo, stale,
                 bounds, due, known>>

Asks(c, a, b) ==
  /\ pc[c] = "idle" /\ c \in conn
  /\ requests' = requests + 1 /\ published' = published
  /\ Goes(c, IF a # NoReply THEN "reply" ELSE "cast")
  /\ reply' = [reply EXCEPT ![c] = a] /\ cast' = [cast EXCEPT ![c] = b]
  /\ \/ /\ a \in {NoReply, Note}
        /\ b \in {NoCast, ToChat(Note), ToRoom(Note), ToChat(Event(c, NextNumber))}
        /\ UNCHANGED <<room, joined>>
        /\ \/ UNCHANGED <<chat, subscribed>>
           \/ chat' = chat \cup {c} /\ subscribed' = subscribed \cup {c}
           \/ chat' = chat \ {c} /\ subscribed' = subscribed \ {c}
     \/ /\ a = Existing(room \ {c}) /\ b = ToRoom(NewPeer(c))
        /\ room' = room \cup {c} /\ joined' = joined \cup {c} /\ UNCHANGED <<chat, subscribed>>
     \/ /\ a = NoReply /\ b = ToRoom(PeerLeft(c))
        /\ room' = room \ {c} /\ joined' = joined \ {c} /\ UNCHANGED <<chat, subscribed>>
  /\ UNCHANGED <<closed, conn, queue, todo, stale, due, known>>

Answers(c) ==
  /\ pc[c] = "reply" /\ Goes(c, AfterReply(c)) /\ Buffers(c, reply[c])
  /\ reply' = [reply EXCEPT ![c] = NoReply]
  /\ UNCHANGED <<chat, room, subscribed, joined, closed, conn, cast, todo, stale, bounds,
                 due, known>>

Fails(c) ==
  /\ \/ pc[c] = "send"
     \/ pc[c] = "reply" /\ c \in closed
  /\ Goes(c, "unregister")
  /\ cast' = [cast EXCEPT ![c] = NoCast]
  /\ todo' = [todo EXCEPT ![c] = {}] /\ stale' = [stale EXCEPT ![c] = {}]
  /\ due' = [d \in Clients |-> due[d] \ PendingOf(c, d)]
  /\ \/ reply' = reply
     \/ reply' = [reply EXCEPT ![c] = NoReply]
  /\ UNCHANGED <<chat, room, subscribed, joined, closed, conn, queue, bounds, known>>

Closes(t, c) ==
  /\ \/ /\ t = c /\ pc[c] = "reply" /\ Goes(c, AfterReply(c))
        /\ reply' = [reply EXCEPT ![c] = NoReply] /\ UNCHANGED stale
     \/ t = c /\ pc[c] = "unregister" /\ Goes(c, "close") /\ UNCHANGED <<reply, stale>>
     \/ /\ pc[t] = "send" /\ Goes(t, "send") /\ todo[t] = {} /\ c \in stale[t]
        /\ stale' = [stale EXCEPT ![t] = stale[t] \ {c}] /\ UNCHANGED reply
  /\ chat' = IF c \in subscribed THEN chat \ {c} ELSE chat
  /\ room' = IF c \in joined THEN room \ {c} ELSE room
  /\ closed' = closed \cup {c}
  /\ queue' = [queue EXCEPT ![c] = <<>>]
  /\ due' = [due EXCEPT ![c] = {}] /\ known' = [known EXCEPT ![c] = {}]
  /\ UNCHANGED <<subscribed, joined, conn, cast, todo, bounds>>

Publishes ==
  /\ pc[Subscriber] = "idle" /\ Goes(Subscriber, "cast")
  /\ published' = published + 1 /\ requests' = requests
  /\ cast' = [cast EXCEPT ![Subscriber] = ToChat(Event(Subscriber, NextNumber))]
  /\ UNCHANGED <<chat, room, subscribed, joined, closed, conn, queue, reply, todo, stale, due,
                 known>>

Copies(t) ==
  /\ pc[t] = "cast" /\ Goes(t, "send") /\ cast[t] # NoCast
  /\ todo' = [todo EXCEPT ![t] = Targets(t)]
  /\ due' = IF IsEvent(cast[t].msg)
            THEN [c \in Clients |->
                    IF c \in (subscribed \cap conn) \ closed
                    THEN due[c] \cup {cast[t].msg} ELSE due[c]]
            ELSE due
  /\ UNCHANGED <<chat, room, subscribed, joined, closed, conn, queue, reply, cast, stale,
                 bounds, known>>

Sends(t, c) ==
  /\ pc[t] = "send" /\ Stays /\ cast[t] # NoCast
  /\ c \in todo[t] /\ c \notin closed
  /\ todo' = [todo EXCEPT ![t] = todo[t] \ {c}]
  /\ \/ Buffers(c, cast[t].msg) /\ UNCHANGED stale
     \/ stale' = [stale EXCEPT ![t] = stale[t] \cup {c}] /\ UNCHANGED queue
  /\ UNCHANGED <<chat, room, subscribed, joined, closed, conn, reply, cast, bounds, due,
                 known>>

WritesNext(c) ==
  /\ Stays /\ c \in conn /\ queue[c] # <<>>
  /\ queue' = [queue EXCEPT ![c] = Tail(queue[c])]
  /\ due' = IF IsEvent(Head(queue[c])) THEN [due EXCEPT ![c] = due[c] \ {Head(queue[c])}]
            ELSE due
  /\ known' = [known EXCEPT ![c] = Learn(known[c], Head(queue[c]))]
  /\ UNCHANGED <<chat, room, subscribed, joined, closed, conn, reply, cast, todo, stale,
                 bounds>>

Breaks(c) ==
  /\ Stays /\ c \in conn /\ conn' = conn \ {c}
  /\ \/ UNCHANGED <<due, known>>
     \/ due' = [due EXCEPT ![c] = {}] /\ known' = [known EXCEPT ![c] = {}]
  /\ UNCHANGED <<chat, room, subscribed, joined, closed, queue, reply, cast, todo, stale,
                 bounds>>

Rests ==
  /\ Stays
  /\ UNCHANGED <<chat, room, subscribed, joined, closed, conn, queue, reply, cast, todo, stale,
                 bounds, due, known>>

Effect ==
  \/ Rests \/ Publishes
  \/ \E c \in Clients : \/ Enters(c) \/ Greets(c) \/ Answers(c) \/ Fails(c)
                        \/ WritesNext(c) \/ Breaks(c)
                        \/ \E a, b : Asks(c, a, b)
  \/ \E t \in Threads : \/ Moves(t) \/ Copies(t)
                        \/ \E c \in Clients : Closes(t, c) \/ Sends(t, c)

LEMMA GoesOn ==
  ASSUME TypeOK, NEW t \in Threads, NEW s \in Steps,
         pc' = [pc EXCEPT ![t] = s]
  PROVE  Goes(t, s)
BY DEF TypeOK, Goes

LEMMA StepEffect ==
  ASSUME TypeOK, InHand, [Next]_vars
  PROVE  Effect
<1>0. Clients \subseteq Threads /\ Subscriber \in Threads
  BY DEF Threads
<1>1. ASSUME NEW c \in Clients, Register(c)
      PROVE  Enters(c)
  <2>1. Goes(c, "hello") /\ pc[c] = "new"
    BY <1>0, <1>1, GoesOn DEF Register, Steps
  <2>2. QED
    BY <1>1, <2>1 DEF Register, Enters, local, jobs, bounds
<1>2. ASSUME NEW c \in Clients, Hello(c)
      PROVE  Greets(c)
  <2>1. Goes(c, "idle") /\ pc[c] = "hello"
    BY <1>0, <1>2, GoesOn DEF Hello, Steps
  <2>2. QED
    BY <1>2, <2>1 DEF Hello, Greets, Buffers, maps, local, link, jobs, bounds
<1>3. ASSUME NEW c \in Clients, Receive(c)
      PROVE  \E a, b : Asks(c, a, b)
  <2>1. ASSUME NEW a, NEW b, Handle(c, a, b)
        PROVE  /\ pc[c] = "idle" /\ c \in conn
               /\ Goes(c, IF a # NoReply THEN "reply" ELSE "cast")
               /\ reply' = [reply EXCEPT ![c] = a] /\ cast' = [cast EXCEPT ![c] = b]
               /\ requests' = requests + 1
               /\ UNCHANGED <<closed, conn, queue, todo, stale, published, due, known>>
    BY <1>0, <2>1, GoesOn DEF Handle, Steps, link
  <2>2. CASE Answer(c) \/ ChatMessage(c) \/ Typing(c) \/ CallEvent(c) \/ Signal(c)
    BY <2>1, <2>2 DEF Answer, ChatMessage, Typing, CallEvent, Signal, Asks, local
  <2>3. CASE Subscribe(c) \/ Unsubscribe(c)
    BY <2>1, <2>3 DEF Subscribe, Unsubscribe, Asks
  <2>4. CASE JoinCall(c) \/ LeaveCall(c)
    BY <2>1, <2>4 DEF JoinCall, LeaveCall, Asks
  <2>5. QED
    BY <1>3, <2>2, <2>3, <2>4 DEF Receive
<1>4. ASSUME NEW t \in Threads, NEW c \in Clients, NEW s \in Steps, Unregister(t, c, s)
      PROVE  /\ Goes(t, s)
             /\ chat' = IF c \in subscribed THEN chat \ {c} ELSE chat
             /\ room' = IF c \in joined THEN room \ {c} ELSE room
             /\ closed' = closed \cup {c}
             /\ queue' = [queue EXCEPT ![c] = <<>>]
             /\ due' = [due EXCEPT ![c] = {}] /\ known' = [known EXCEPT ![c] = {}]
  BY <1>4, GoesOn DEF Unregister, Discard
<1>5. ASSUME NEW c \in Clients, SendReply(c)
      PROVE  Fails(c) \/ Answers(c) \/ Closes(c, c)
  <2>1. /\ pc[c] = "reply" /\ AfterReply(c) \in Steps
        /\ reply' = [reply EXCEPT ![c] = NoReply]
        /\ UNCHANGED <<subscribed, joined, conn, bounds>>
    BY <1>5 DEF SendReply, AfterReply, Steps, local, bounds
  <2>2. CASE c \in closed /\ ReaderPanics(c) /\ UNCHANGED <<maps, closed, queue, known>>
    <3>1. Goes(c, "unregister")
      BY <1>0, <2>2, GoesOn DEF ReaderPanics, Steps
    <3>2. QED
      BY <2>1, <2>2, <3>1 DEF ReaderPanics, Fails, maps
  <2>3. CASE /\ Len(queue[c]) < Buffer
             /\ queue' = [queue EXCEPT ![c] = Append(@, reply[c])]
             /\ pc' = [pc EXCEPT ![c] = AfterReply(c)]
             /\ UNCHANGED <<maps, closed, cast, todo, stale, due, known>>
    <3>1. Goes(c, AfterReply(c))
      BY <1>0, <2>1, <2>3, GoesOn
    <3>2. QED
      BY <2>1, <2>3, <3>1 DEF Answers, Buffers, maps
  <2>4. CASE Unregister(c, c, AfterReply(c)) /\ UNCHANGED <<cast, todo, stale>>
    BY <1>0, <1>4, <2>1, <2>4 DEF Closes
  <2>5. QED
    BY <1>5, <2>2, <2>3, <2>4 DEF SendReply
<1>6. ASSUME NEW c \in Clients, EndReader(c)
      PROVE  Closes(c, c)
  <2>1. Unregister(c, c, "close") /\ "close" \in Steps /\ pc[c] = "unregister"
        /\ UNCHANGED <<subscribed, joined, conn, reply, cast, todo, stale, bounds>>
    BY <1>6 DEF EndReader, Steps, local, jobs, bounds
  <2>2. QED
    BY <1>0, <1>4, <2>1 DEF Closes
<1>7. ASSUME NEW c \in Clients, ReadFails(c) \/ CloseConn(c)
      PROVE  Moves(c)
  <2>1. CASE ReadFails(c)
    <3>1. Goes(c, "unregister") /\ pc[c] = "idle"
      BY <1>0, <2>1, GoesOn DEF ReadFails, Steps
    <3>2. QED
      BY <2>1, <3>1 DEF ReadFails, Moves, maps, local, link, jobs, bounds
  <2>2. CASE CloseConn(c)
    <3>1. Goes(c, "done") /\ pc[c] = "close"
      BY <1>0, <2>2, GoesOn DEF CloseConn, Steps
    <3>2. QED
      BY <2>2, <3>1 DEF CloseConn, Moves, maps, local, jobs, bounds
  <2>3. QED
    BY <1>7, <2>1, <2>2
<1>8. ASSUME NEW c \in Clients, WriteNext(c)
      PROVE  WritesNext(c)
  <2>1. Stays
    BY <1>8 DEF WriteNext, Stays
  <2>2. QED
    BY <1>8, <2>1 DEF WriteNext, WritesNext, maps, local, link, jobs, bounds
<1>9. ASSUME NEW c \in Clients, WriterEnds(c) \/ Disconnect(c)
      PROVE  Breaks(c)
  <2>1. Stays
    BY <1>9 DEF WriterEnds, Disconnect, Stays
  <2>2. QED
    BY <1>9, <2>1 DEF WriterEnds, Disconnect, Breaks, maps, local, jobs, bounds
<1>10. ASSUME TakeEvent
       PROVE  Publishes
  <2>1. Goes(Subscriber, "cast") /\ pc[Subscriber] = "idle"
    BY <1>0, <1>10, GoesOn DEF TakeEvent, Steps
  <2>2. QED
    BY <1>10, <2>1 DEF TakeEvent, Publishes, maps, local, link
<1>11. ASSUME NEW t \in Threads, StartCast(t)
       PROVE  Copies(t)
  <2>1. Goes(t, "send") /\ pc[t] = "cast" /\ cast[t] # NoCast
    BY <1>11, GoesOn DEF StartCast, Steps, InHand
  <2>2. QED
    BY <1>11, <2>1 DEF StartCast, Copies, maps, local, link, bounds
<1>12. ASSUME NEW t \in Threads, SendToNext(t)
       PROVE  \E c \in Clients : Sends(t, c)
  <2>1. PICK c \in Clients : c \in todo[t] \ closed /\ Offer(t, c) /\ todo' = [todo EXCEPT ![t] = @ \ {c}]
    BY <1>12 DEF SendToNext, TypeOK
  <2>2. Stays /\ pc[t] = "send" /\ cast[t] # NoCast
    BY <1>12 DEF SendToNext, Stays, InHand
  <2>3. QED
    BY <1>12, <2>1, <2>2 DEF SendToNext, Offer, Sends, Buffers, maps, local, link, bounds
<1>13. ASSUME NEW t \in Threads, SendPanics(t)
       PROVE  Rests \/ (t \in Clients /\ Fails(t))
  <2>1. CASE t \in Clients /\ ReaderPanics(t)
    <3>1. Goes(t, "unregister") /\ pc[t] = "send"
      BY <1>13, <2>1, GoesOn DEF SendPanics, ReaderPanics, Steps
    <3>2. QED
      BY <1>13, <2>1, <3>1 DEF SendPanics, ReaderPanics, Fails, maps, local, link, bounds
  <2>2. CASE UNCHANGED <<pc, cast, todo, stale, due>>
    <3>1. Stays
      BY <1>13, <2>2 DEF SendPanics, Stays
    <3>2. QED
      BY <1>13, <2>2, <3>1 DEF SendPanics, Rests, maps, local, link, bounds
  <2>3. QED
    BY <1>13, <2>1, <2>2 DEF SendPanics
<1>14. ASSUME NEW t \in Threads, DropStale(t)
       PROVE  \E c \in Clients : Closes(t, c)
  <2>1. PICK c \in Clients : c \in stale[t] /\ Unregister(t, c, "send")
                             /\ stale' = [stale EXCEPT ![t] = @ \ {c}]
    BY <1>14 DEF DropStale, TypeOK
  <2>2. "send" \in Steps /\ pc[t] = "send" /\ todo[t] = {}
        /\ UNCHANGED <<subscribed, joined, conn, reply, cast, todo, bounds>>
    BY <1>14 DEF DropStale, Steps, local, bounds
  <2>3. QED
    BY <1>4, <2>1, <2>2 DEF Closes
<1>15. ASSUME NEW t \in Threads, EndCast(t)
       PROVE  Moves(t)
  <2>1. Goes(t, "idle") /\ pc[t] = "send"
    BY <1>15, GoesOn DEF EndCast, Steps
  <2>2. QED
    BY <1>15, <2>1 DEF EndCast, Moves, maps, local, link, bounds
<1>16. CASE UNCHANGED vars
  <2>1. Stays
    BY <1>16 DEF vars, Stays
  <2>2. Rests
    BY <1>16, <2>1 DEF vars, Rests, maps, local, link, jobs, bounds
  <2>3. QED
    BY <2>2 DEF Effect
<1>17. QED
  BY <1>0, <1>1, <1>2, <1>3, <1>5, <1>6, <1>7, <1>8, <1>9, <1>10, <1>11, <1>12, <1>13, <1>14,
     <1>15, <1>16 DEF Next, Read, Broadcast, Effect

-----------------------------------------------------------------------------
(* Messages, and who is new.                                               *)

LEMMA MessagesDiffer ==
  /\ ~IsEvent(Note) /\ \A S : ~IsEvent(Existing(S))
  /\ \A c : ~IsEvent(NewPeer(c)) /\ ~IsEvent(PeerLeft(c))
  /\ \A t, n : IsEvent(Event(t, n)) /\ Event(t, n).event = n /\ Event(t, n).by = t
  /\ \A m, d : IsEvent(m) => m # PeerLeft(d)
  /\ \A d : Note # PeerLeft(d)
  /\ \A d, S : Existing(S) # PeerLeft(d)
  /\ \A c, d : NewPeer(c) # PeerLeft(d)
  /\ \A c, d : PeerLeft(c) = PeerLeft(d) => c = d
<1>1. /\ \A t, n : /\ DOMAIN Event(t, n) = {"event", "by"}
                    /\ Event(t, n).event = n /\ Event(t, n).by = t
      /\ DOMAIN Note = {"note"}
      /\ \A S : DOMAIN Existing(S) = {"existing"}
      /\ \A c : DOMAIN NewPeer(c) = {"newPeer"}
      /\ \A c : DOMAIN PeerLeft(c) = {"peerLeft"} /\ PeerLeft(c).peerLeft = c
  BY DEF Note, Event, Existing, NewPeer, PeerLeft
<1>2. /\ ~IsEvent(Note) /\ \A S : ~IsEvent(Existing(S))
      /\ \A c : ~IsEvent(NewPeer(c)) /\ ~IsEvent(PeerLeft(c))
      /\ \A t, n : IsEvent(Event(t, n))
  BY <1>1 DEF IsEvent
<1>3. \A d : "peerLeft" \in DOMAIN PeerLeft(d)
  BY <1>1
<1>4. /\ "peerLeft" \notin DOMAIN Note
      /\ \A S : "peerLeft" \notin DOMAIN Existing(S)
      /\ \A c : "peerLeft" \notin DOMAIN NewPeer(c)
  BY <1>1
<1>5. /\ \A d : Note # PeerLeft(d)
      /\ \A d, S : Existing(S) # PeerLeft(d)
      /\ \A c, d : NewPeer(c) # PeerLeft(d)
      /\ \A m, d : IsEvent(m) => m # PeerLeft(d)
  BY <1>2, <1>3, <1>4, Zenon
<1>6. ASSUME NEW c, NEW d, PeerLeft(c) = PeerLeft(d)
      PROVE  c = d
  BY <1>1, <1>6, PeerLeft(c).peerLeft = PeerLeft(d).peerLeft
<1>7. QED
  BY <1>1, <1>2, <1>5, <1>6

LEMMA WhatIsLearnt ==
  /\ \A S, T : Learn(S, Existing(T)) = S \cup T
  /\ \A S, d : Learn(S, NewPeer(d)) = S \cup {d}
  /\ \A m \in Messages, d \in Clients : \A S :
       d \in Learn(S, m) <=> d \in Learn({}, m) \/ (d \in S /\ m # PeerLeft(d))
<1>1. \A S, T : Learn(S, Existing(T)) = S \cup T
  BY DEF Learn, Existing
<1>2. \A S, d : Learn(S, NewPeer(d)) = S \cup {d}
  BY DEF Learn, NewPeer
<1>3. ASSUME NEW m \in Messages, NEW d \in Clients, NEW S
      PROVE  d \in Learn(S, m) <=> d \in Learn({}, m) \/ (d \in S /\ m # PeerLeft(d))
  <2>1. CASE m \in [note : {TRUE}]
    BY <2>1 DEF Learn, PeerLeft
  <2>2. CASE m \in Events
    BY <2>2 DEF Events, Learn, PeerLeft
  <2>3. CASE m \in [existing : SUBSET Clients]
    BY <2>3 DEF Learn, PeerLeft
  <2>4. CASE m \in [newPeer : Clients]
    BY <2>4 DEF Learn, PeerLeft
  <2>5. CASE m \in [peerLeft : Clients]
    <3>1. m.peerLeft \in Clients /\ m = PeerLeft(m.peerLeft)
      BY <2>5 DEF PeerLeft
    <3>2. Learn(S, m) = S \ {m.peerLeft} /\ Learn({}, m) = {}
      BY <2>5 DEF Learn
    <3>3. QED
      BY <3>1, <3>2, MessagesDiffer
  <2>6. QED
    BY <2>1, <2>2, <2>3, <2>4, <2>5 DEF Messages
<1>4. QED
  BY <1>1, <1>2, <1>3

LEMMA NobodyBecomesNew ==
  ASSUME TypeOK, Effect, NEW t \in Threads, pc'[t] = "new"
  PROVE  pc[t] = "new"
<1>1. ASSUME NEW x \in Threads, NEW s, s # "new", Goes(x, s)
      PROVE  pc[t] = "new"
  BY <1>1 DEF Goes
<1>2. \A c : AfterReply(c) # "new"
  BY DEF AfterReply
<1>3. Clients \subseteq Threads /\ Subscriber \in Threads
  BY DEF Threads
<1>4. ASSUME Stays
      PROVE  pc[t] = "new"
  BY <1>4 DEF Stays
<1>5. ASSUME NEW c \in Clients,
             \/ Enters(c) \/ Greets(c) \/ Answers(c) \/ Fails(c) \/ WritesNext(c) \/ Breaks(c)
             \/ \E a, b : Asks(c, a, b)
      PROVE  pc[t] = "new"
  BY <1>1, <1>2, <1>3, <1>4, <1>5
  DEF Enters, Greets, Answers, Fails, WritesNext, Breaks, Asks
<1>6. ASSUME NEW x \in Threads,
             \/ Moves(x) \/ Copies(x)
             \/ \E c \in Clients : Closes(x, c) \/ Sends(x, c)
      PROVE  pc[t] = "new"
  BY <1>1, <1>2, <1>3, <1>4, <1>6 DEF Moves, Copies, Closes, Sends
<1>7. QED
  BY <1>1, <1>3, <1>4, <1>5, <1>6 DEF Effect, Rests, Publishes

\* Whoever is new and not the client of the step stays untouched.
LEMMA StepKeepsFresh == TypeOK /\ Fresh /\ Effect => Fresh'
<1> SUFFICES ASSUME TypeOK, Fresh, Effect,
                    NEW x \in Clients, pc'[x] = "new"
             PROVE  Untouched(x)'
  BY DEF Fresh
<1>1. Clients \subseteq Threads /\ Subscriber \in Threads
  BY DEF Threads
<1>2. pc[x] = "new" /\ Untouched(x)
  BY <1>1, NobodyBecomesNew DEF Fresh
<1>3. x \in Threads /\ x # Subscriber
  BY <1>1, ConstantsAssumption DEF ConstantsAssumption
<1>4. CASE Rests \/ Publishes
  BY <1>2, <1>4 DEF Rests, Publishes, Untouched
<1>5. ASSUME NEW c \in Clients, Enters(c)
      PROVE  Untouched(x)'
  <2>1. c # x
    BY <1>3, <1>5 DEF Enters, Goes
  <2>2. QED
    BY <1>2, <1>5, <2>1 DEF Enters, Untouched
<1>6. ASSUME NEW c \in Clients, Greets(c) \/ Answers(c)
      PROVE  Untouched(x)'
  <2>1. c # x
    BY <1>2, <1>6 DEF Greets, Answers
  <2>2. queue'[x] = queue[x]
    BY <1>6, <2>1 DEF Greets, Answers, Buffers, TypeOK
  <2>3. QED
    BY <1>2, <1>6, <2>2 DEF Greets, Answers, Untouched
<1>7. ASSUME NEW c \in Clients, NEW a, NEW b, Asks(c, a, b)
      PROVE  Untouched(x)'
  <2>1. c # x
    BY <1>2, <1>7 DEF Asks
  <2>2. x \notin chat' \cup room' \cup subscribed' \cup joined'
    BY <1>2, <1>7, <2>1 DEF Asks, Untouched
  <2>3. QED
    BY <1>2, <1>7, <2>2 DEF Asks, Untouched
<1>8. ASSUME NEW c \in Clients, Fails(c)
      PROVE  Untouched(x)'
  <2>1. \A t \in Threads : todo'[t] \subseteq todo[t] /\ stale'[t] \subseteq stale[t]
    BY <1>8 DEF Fails, TypeOK
  <2>2. QED
    BY <1>2, <1>8, <2>1 DEF Fails, Untouched
<1>9. ASSUME NEW c \in Clients, WritesNext(c) \/ Breaks(c)
      PROVE  Untouched(x)'
  <2>1. c # x
    BY <1>2, <1>9 DEF WritesNext, Breaks, Untouched
  <2>2. queue'[x] = queue[x] /\ due'[x] = due[x]
    BY <1>9, <2>1 DEF WritesNext, Breaks, TypeOK
  <2>3. QED
    BY <1>2, <1>9, <2>1, <2>2 DEF WritesNext, Breaks, Untouched
<1>10. ASSUME NEW t \in Threads, Moves(t)
       PROVE  Untouched(x)'
  BY <1>2, <1>10 DEF Moves, Untouched
<1>11. ASSUME NEW t \in Threads, Copies(t)
       PROVE  Untouched(x)'
  <2>1. x \notin Targets(t) /\ x \notin subscribed
    BY <1>2 DEF Targets, Untouched
  <2>2. due'[x] = due[x]
    BY <1>11, <2>1 DEF Copies, TypeOK
  <2>3. \A u \in Threads : x \notin todo'[u]
    BY <1>2, <1>11, <2>1 DEF Copies, TypeOK, Untouched
  <2>4. QED
    BY <1>2, <1>11, <2>2, <2>3 DEF Copies, Untouched
<1>12. ASSUME NEW t \in Threads, NEW c \in Clients, Closes(t, c)
       PROVE  Untouched(x)'
  <2>1. c # x
    BY <1>2, <1>12 DEF Closes, Untouched
  <2>2. queue'[x] = queue[x] /\ due'[x] = due[x]
    BY <1>12, <2>1 DEF Closes, TypeOK
  <2>3. \A u \in Threads : stale'[u] \subseteq stale[u]
    BY <1>12 DEF Closes, TypeOK
  <2>4. QED
    BY <1>2, <1>12, <2>1, <2>2, <2>3 DEF Closes, Untouched
<1>13. ASSUME NEW t \in Threads, NEW c \in Clients, Sends(t, c)
       PROVE  Untouched(x)'
  <2>1. c # x
    BY <1>2, <1>13 DEF Sends, Untouched
  <2>2. queue'[x] = queue[x]
    BY <1>13, <2>1 DEF Sends, Buffers, TypeOK
  <2>3. \A u \in Threads : x \notin todo'[u] \cup stale'[u]
    BY <1>2, <1>13, <2>1 DEF Sends, TypeOK, Untouched
  <2>4. QED
    BY <1>2, <1>13, <2>2, <2>3 DEF Sends, Untouched
<1>14. QED
  BY <1>4, <1>5, <1>6, <1>7, <1>8, <1>9, <1>10, <1>11, <1>12, <1>13 DEF Effect

-----------------------------------------------------------------------------
(* Broadcasts and answers.                                                 *)

LEMMA StepKeepsSending == TypeOK /\ InHand /\ Sending /\ Effect => Sending'
<1> SUFFICES ASSUME TypeOK, InHand, Sending, Effect, NEW u \in Threads
             PROVE  /\ pc'[u] # "send" => todo'[u] = {} /\ stale'[u] = {}
                    /\ todo'[u] \cap stale'[u] = {}
  BY DEF Sending
<1> DEFINE Right == /\ pc'[u] # "send" => todo'[u] = {} /\ stale'[u] = {}
                    /\ todo'[u] \cap stale'[u] = {}
<1>1. Clients \subseteq Threads /\ Subscriber \in Threads
  BY DEF Threads
<1>2. /\ pc[u] # "send" => todo[u] = {} /\ stale[u] = {}
      /\ todo[u] \cap stale[u] = {}
  BY DEF Sending
<1>3. CASE Rests
  BY <1>2, <1>3 DEF Rests, Stays
<1>4. CASE Publishes
  BY <1>1, <1>2, <1>4 DEF Publishes, Goes
<1>5. ASSUME NEW c \in Clients, Enters(c) \/ Greets(c) \/ Answers(c) \/ \E a, b : Asks(c, a, b)
      PROVE  Right
  BY <1>1, <1>2, <1>5 DEF Enters, Greets, Answers, Asks, Goes
<1>6. ASSUME NEW c \in Clients, Fails(c)
      PROVE  Right
  <2>1. IF u = c THEN todo'[u] = {} /\ stale'[u] = {}
        ELSE todo'[u] = todo[u] /\ stale'[u] = stale[u] /\ pc'[u] = pc[u]
    BY <1>1, <1>6 DEF Fails, Goes, TypeOK
  <2>2. QED
    BY <1>2, <2>1
<1>7. ASSUME NEW c \in Clients, WritesNext(c) \/ Breaks(c)
      PROVE  Right
  BY <1>2, <1>7 DEF WritesNext, Breaks, Stays
<1>8. ASSUME NEW t \in Threads, Moves(t)
      PROVE  Right
  BY <1>2, <1>8 DEF Moves, Goes
<1>9. ASSUME NEW t \in Threads, Copies(t)
      PROVE  Right
  <2>1. /\ stale' = stale /\ todo'[u] = IF u = t THEN Targets(t) ELSE todo[u]
        /\ pc'[u] = IF u = t THEN "send" ELSE pc[u]
        /\ pc[t] # "send"
    BY <1>9 DEF Copies, Goes, TypeOK
  <2>2. QED
    BY <1>2, <2>1
<1>10. ASSUME NEW t \in Threads, NEW c \in Clients, Closes(t, c)
       PROVE  Right
  <2>1. /\ todo' = todo /\ stale'[u] \subseteq stale[u]
        /\ pc[u] = "send" => pc'[u] = "send"
    BY <1>10 DEF Closes, Goes, TypeOK
  <2>2. QED
    BY <1>2, <2>1
<1>11. ASSUME NEW t \in Threads, NEW c \in Clients, Sends(t, c)
       PROVE  Right
  <2>1. /\ pc'[u] = pc[u] /\ pc[t] = "send"
        /\ IF u = t THEN /\ todo'[u] = todo[u] \ {c}
                         /\ stale'[u] = stale[u] \/ stale'[u] = stale[u] \cup {c}
           ELSE todo'[u] = todo[u] /\ stale'[u] = stale[u]
    BY <1>11 DEF Sends, Stays, TypeOK
  <2>2. QED
    BY <1>2, <2>1
<1>12. QED
  BY <1>3, <1>4, <1>5, <1>6, <1>7, <1>8, <1>9, <1>10, <1>11 DEF Effect

\* What is in the hands of a goroutine is right.
EventRight(t) ==
  cast[t] # NoCast /\ IsEvent(cast[t].msg) =>
    cast[t].to = "chat" /\ cast[t].msg.by = t /\ cast[t].msg.event < NextNumber
CastRight(c) ==
  cast[c] # NoCast =>
    \A d \in Clients : cast[c].msg = PeerLeft(d) => d = c /\ c \notin room
ReplyRight(c) ==
  reply[c] # NoReply => ~IsEvent(reply[c]) /\ \A d \in Clients : reply[c] # PeerLeft(d)

LEMMA EventInHand ==
  ASSUME TypeOK, NEW t \in Threads, cast[t] # NoCast, IsEvent(cast[t].msg)
  PROVE  /\ cast[t] \in Casts /\ cast[t].msg \in Events
         /\ cast[t].msg.event \in Nat /\ cast[t].msg.by \in Threads
<1>1. cast[t] \in Casts /\ cast[t].msg \in Messages
  BY DEF TypeOK, Casts
<1>2. cast[t].msg \in Events
  BY <1>1, NoteIsMessage
<1>3. QED
  BY <1>1, <1>2, ConstantsAssumption DEF Events, ConstantsAssumption

LEMMA NextIsNatural ==
  ASSUME TypeOK
  PROVE  published \in Nat /\ requests \in Nat /\ NextNumber \in Nat
BY ConstantsAssumption DEF TypeOK, NextNumber, ConstantsAssumption

LEMMA StepKeepsCasting == TypeOK /\ Casting /\ Effect => Casting'
<1> DEFINE Right == /\ \A t \in Threads : EventRight(t)'
                    /\ (cast[Subscriber] # NoCast => IsEvent(cast[Subscriber].msg))'
                    /\ \A c \in Clients : CastRight(c)' /\ ReplyRight(c)'
<1> SUFFICES ASSUME TypeOK, Casting, Effect
             PROVE  Right
  BY DEF Casting, EventRight, CastRight, ReplyRight
<1>1. Clients \subseteq Threads /\ Subscriber \in Threads /\ Subscriber \notin Clients
  BY ConstantsAssumption DEF Threads, ConstantsAssumption
<1>2. /\ \A t \in Threads : EventRight(t)
      /\ cast[Subscriber] # NoCast => IsEvent(cast[Subscriber].msg)
      /\ \A c \in Clients : CastRight(c) /\ ReplyRight(c)
  BY DEF Casting, EventRight, CastRight, ReplyRight
<1>3. ASSUME UNCHANGED <<room, reply, cast, bounds>>
      PROVE  Right
  BY <1>2, <1>3 DEF EventRight, CastRight, ReplyRight, bounds, NextNumber
<1>4. ASSUME NEW t \in Threads, cast' = cast \/ cast' = [cast EXCEPT ![t] = NoCast],
             NEW y \in Clients, reply' = reply \/ reply' = [reply EXCEPT ![y] = NoReply],
             room' \subseteq room, UNCHANGED bounds
      PROVE  Right
  <2>1. \A x \in Threads : cast'[x] = cast[x] \/ cast'[x] = NoCast
    BY <1>4 DEF TypeOK
  <2>2. \A c \in Clients : reply'[c] = reply[c] \/ reply'[c] = NoReply
    BY <1>4 DEF TypeOK
  <2>3. QED
    BY <1>1, <1>2, <1>4, <2>1, <2>2 DEF EventRight, CastRight, ReplyRight, bounds, NextNumber
\* A number has been given.
<1>5. ASSUME NEW t \in Threads, cast'[t] = cast[t], NextNumber' = NextNumber + 1
      PROVE  EventRight(t)'
  <2>1. cast[t] # NoCast /\ IsEvent(cast[t].msg) => cast[t].msg.event \in Nat
    BY EventInHand
  <2>2. QED
    BY <1>2, <1>5, <2>1, NextIsNatural DEF EventRight
<1>6. CASE Publishes
  <2>1. /\ cast'[Subscriber] = ToChat(Event(Subscriber, NextNumber))
        /\ reply' = reply /\ room' = room
        /\ \A t \in Threads \ {Subscriber} : cast'[t] = cast[t]
        /\ NextNumber' = NextNumber + 1
    BY <1>1, <1>6, NextIsNatural DEF Publishes, TypeOK, NextNumber
  <2>2. /\ EventRight(Subscriber)' /\ IsEvent(cast'[Subscriber].msg)
    BY <2>1, MessagesDiffer, NextIsNatural DEF EventRight, ToChat
  <2>3. QED
    BY <1>1, <1>2, <1>5, <2>1, <2>2 DEF CastRight, ReplyRight
<1>7. ASSUME NEW c \in Clients, NEW a, NEW b, Asks(c, a, b)
      PROVE  Right
  <2>1. /\ cast'[c] = b /\ reply'[c] = a /\ NextNumber' = NextNumber + 1
        /\ \A t \in Threads \ {c} : cast'[t] = cast[t]
        /\ \A d \in Clients \ {c} :
             /\ reply'[d] = reply[d]
             /\ d \in room' <=> d \in room
    BY <1>1, <1>7, NextIsNatural DEF Asks, TypeOK, NextNumber
  <2>2. ReplyRight(c)'
    <3>1. a = NoReply \/ a = Note \/ a = Existing(room \ {c})
      BY <1>7 DEF Asks
    <3>2. QED
      BY <2>1, <3>1, MessagesDiffer DEF ReplyRight
  <2>3. CastRight(c)' /\ EventRight(c)'
    <3>1. \/ b = NoCast \/ b = ToChat(Note) \/ b = ToRoom(Note) \/ b = ToRoom(NewPeer(c))
          \/ b = ToRoom(PeerLeft(c)) /\ c \notin room'
          \/ b = ToChat(Event(c, NextNumber))
      BY <1>7 DEF Asks
    <3>2. \A m : ToChat(m).msg = m /\ ToRoom(m).msg = m /\ ToChat(m).to = "chat"
      BY DEF ToChat, ToRoom
    <3>3. CASE b = ToChat(Event(c, NextNumber))
      BY <2>1, <3>2, <3>3, MessagesDiffer, NextIsNatural DEF CastRight, EventRight
    <3>4. CASE b # ToChat(Event(c, NextNumber))
      BY <2>1, <3>1, <3>2, <3>4, MessagesDiffer DEF CastRight, EventRight
    <3>5. QED
      BY <3>3, <3>4
  <2>4. \A d \in Clients \ {c} : CastRight(d)' /\ ReplyRight(d)'
    BY <1>1, <1>2, <2>1 DEF CastRight, ReplyRight
  <2>5. \A t \in Threads \ {c} : EventRight(t)'
    BY <1>5, <2>1
  <2>6. QED
    BY <1>1, <1>2, <2>1, <2>2, <2>3, <2>4, <2>5
<1>8. ASSUME NEW c \in Clients, Enters(c) \/ Greets(c) \/ WritesNext(c) \/ Breaks(c)
      PROVE  Right
  BY <1>3, <1>8 DEF Enters, Greets, WritesNext, Breaks
<1>9. ASSUME NEW c \in Clients, Answers(c) \/ Fails(c)
      PROVE  Right
  BY <1>1, <1>4, <1>9 DEF Answers, Fails
<1>10. ASSUME NEW t \in Threads, Copies(t) \/ \E c \in Clients : Sends(t, c)
      PROVE  Right
  BY <1>3, <1>10 DEF Copies, Sends
<1>11. ASSUME NEW t \in Threads, NEW c \in Clients, Closes(t, c)
       PROVE  Right
  <2>1. /\ room' \subseteq room /\ cast' = cast /\ UNCHANGED bounds
        /\ reply' = reply \/ reply' = [reply EXCEPT ![c] = NoReply]
    BY <1>11 DEF Closes
  <2>2. QED
    BY <1>4, <2>1, <1>11
<1>12. ASSUME NEW t \in Threads, Moves(t)
       PROVE  Right
  <2>1. /\ room' = room /\ reply' = reply /\ UNCHANGED bounds
        /\ cast' = cast \/ cast' = [cast EXCEPT ![t] = NoCast]
    BY <1>12 DEF Moves
  <2>2. \A x \in Threads : cast'[x] = cast[x] \/ cast'[x] = NoCast
    BY <2>1 DEF TypeOK
  <2>3. QED
    BY <1>1, <1>2, <2>1, <2>2 DEF EventRight, CastRight, ReplyRight, bounds, NextNumber
<1>13. CASE Rests
  BY <1>3, <1>13 DEF Rests
<1>14. QED
  BY <1>6, <1>7, <1>8, <1>9, <1>10, <1>11, <1>12, <1>13 DEF Effect

-----------------------------------------------------------------------------
(* Events.                                                                 *)

LEMMA StepKeepsSubscribing ==
  TypeOK /\ Subscribing /\ Effect => Subscribing'
<1> SUFFICES ASSUME TypeOK, Subscribing, Effect, NEW x \in subscribed' \ closed'
             PROVE  x \in chat'
  BY DEF Subscribing
<1>1. CASE Rests \/ Publishes
  BY <1>1 DEF Rests, Publishes, Subscribing
<1>2. ASSUME NEW c \in Clients,
             \/ Enters(c) \/ Greets(c) \/ Answers(c) \/ Fails(c) \/ WritesNext(c) \/ Breaks(c)
      PROVE  x \in chat'
  BY <1>2 DEF Enters, Greets, Answers, Fails, WritesNext, Breaks, Subscribing
<1>3. ASSUME NEW c \in Clients, NEW a, NEW b, Asks(c, a, b)
      PROVE  x \in chat'
  BY <1>3 DEF Asks, Subscribing
<1>4. ASSUME NEW t \in Threads, Moves(t) \/ Copies(t) \/ \E c \in Clients : Sends(t, c)
      PROVE  x \in chat'
  BY <1>4 DEF Moves, Copies, Sends, Subscribing
<1>5. ASSUME NEW t \in Threads, NEW c \in Clients, Closes(t, c)
      PROVE  x \in chat'
  BY <1>5 DEF Closes, Subscribing
<1>6. QED
  BY <1>1, <1>2, <1>3, <1>4, <1>5 DEF Effect

LEMMA ConnectedAreClients ==
  ASSUME TypeOK, Effect
  PROVE  conn' \subseteq Clients
<1>1. ASSUME NEW c \in Clients,
             \/ Enters(c) \/ Greets(c) \/ Answers(c) \/ Fails(c) \/ WritesNext(c) \/ Breaks(c)
             \/ \E a, b : Asks(c, a, b)
      PROVE  conn' \subseteq Clients
  BY <1>1 DEF Enters, Greets, Answers, Fails, WritesNext, Breaks, Asks, TypeOK
<1>2. ASSUME NEW t \in Threads,
             Moves(t) \/ Copies(t) \/ \E c \in Clients : Closes(t, c) \/ Sends(t, c)
      PROVE  conn' \subseteq Clients
  BY <1>2 DEF Moves, Copies, Closes, Sends, TypeOK
<1>3. QED
  BY <1>1, <1>2 DEF Effect, Rests, Publishes, TypeOK

LEMMA StepKeepsDues ==
  TypeOK /\ InHand /\ Sending /\ Casting /\ Dues /\ Effect => Dues'
<1> SUFFICES ASSUME TypeOK, InHand, Sending, Casting, Dues, Effect,
                    NEW x \in Clients, NEW m \in due'[x]
             PROVE  /\ m.event < NextNumber'
                    /\ Announces(m.by)' => m.event < cast'[m.by].msg.event
  BY DEF Dues
<1> DEFINE Right == /\ m.event < NextNumber'
                    /\ Announces(m.by)' => m.event < cast'[m.by].msg.event
<1>1. Clients \subseteq Threads /\ Subscriber \in Threads /\ Subscriber \notin Clients
  BY ConstantsAssumption DEF Threads, ConstantsAssumption
<1>2. NextNumber \in Nat
  BY NextIsNatural
<1>3. ASSUME m \in due[x]
      PROVE  /\ m \in Events /\ m.event \in Nat /\ m.by \in Threads
             /\ m.event < NextNumber
             /\ Announces(m.by) => m.event < cast[m.by].msg.event
  <2>1. m \in Events
    BY <1>3 DEF TypeOK
  <2>2. QED
    BY <1>3, <2>1, ConstantsAssumption DEF Events, Dues, ConstantsAssumption
\* Nobody has anything else to broadcast than before.
<1>4. ASSUME m \in due[x], UNCHANGED bounds, Announces(m.by)' => Announces(m.by),
             Announces(m.by)' => cast'[m.by] = cast[m.by]
      PROVE  Right
  BY <1>3, <1>4 DEF bounds, NextNumber
<1>5. CASE Rests
  BY <1>3, <1>4, <1>5 DEF Rests, Stays, Announces
\* t has been given a number.
<1>6. ASSUME m \in due[x], NEW t \in Threads, NextNumber' = NextNumber + 1,
             \A s \in Threads \ {t} : pc'[s] = pc[s] /\ cast'[s] = cast[s],
             Announces(t)' => cast'[t].msg.event = NextNumber
      PROVE  Right
  <2>1. m.event < NextNumber'
    BY <1>2, <1>3, <1>6
  <2>2. CASE m.by = t
    BY <1>3, <1>6, <2>1, <2>2
  <2>3. CASE m.by # t
    <3>1. Announces(m.by)' <=> Announces(m.by)
      BY <1>3, <1>6, <2>3 DEF Announces
    <3>2. QED
      BY <1>3, <1>6, <2>1, <2>3, <3>1
  <2>4. QED
    BY <2>2, <2>3
<1>7. CASE Publishes
  <2>1. /\ m \in due[x] /\ NextNumber' = NextNumber + 1
        /\ \A s \in Threads \ {Subscriber} : pc'[s] = pc[s] /\ cast'[s] = cast[s]
        /\ cast'[Subscriber] = ToChat(Event(Subscriber, NextNumber))
    BY <1>1, <1>7, NextIsNatural DEF Publishes, Goes, TypeOK, NextNumber
  <2>2. cast'[Subscriber].msg.event = NextNumber
    BY <2>1, MessagesDiffer DEF ToChat
  <2>3. QED
    BY <1>1, <1>6, <2>1, <2>2
<1>8. ASSUME NEW c \in Clients, NEW a, NEW b, Asks(c, a, b)
      PROVE  Right
  <2>1. /\ m \in due[x] /\ NextNumber' = NextNumber + 1
        /\ \A s \in Threads \ {c} : pc'[s] = pc[s] /\ cast'[s] = cast[s]
        /\ cast'[c] = b
    BY <1>1, <1>8, NextIsNatural DEF Asks, Goes, TypeOK, NextNumber
  <2>2. Announces(c)' => cast'[c].msg.event = NextNumber
    <3>1. \/ b = NoCast \/ b = ToChat(Note) \/ b = ToRoom(Note) \/ b = ToRoom(NewPeer(c))
          \/ b = ToRoom(PeerLeft(c)) \/ b = ToChat(Event(c, NextNumber))
      BY <1>8 DEF Asks
    <3>2. \A k : ToChat(k).msg = k /\ ToRoom(k).msg = k
      BY DEF ToChat, ToRoom
    <3>3. QED
      BY <2>1, <3>1, <3>2, MessagesDiffer DEF Announces
  <2>3. QED
    BY <1>1, <1>6, <2>1, <2>2
<1>9. ASSUME NEW c \in Clients, Enters(c) \/ Greets(c) \/ Answers(c)
      PROVE  Right
  <2>1. m \in due[x] /\ UNCHANGED <<bounds, cast>>
    BY <1>9 DEF Enters, Greets, Answers
  <2>2. \A t \in Threads : pc'[t] = pc[t] \/ pc'[t] \in {"hello", "idle"}
                           \/ (pc[t] = "reply" /\ pc'[t] = "cast")
    BY <1>1, <1>9 DEF Enters, Greets, Answers, Goes, AfterReply
  <2>3. QED
    BY <1>3, <1>4, <2>1, <2>2 DEF Announces
<1>10. ASSUME NEW c \in Clients, Fails(c)
       PROVE  Right
  <2>1. m \in due[x] /\ UNCHANGED bounds
    BY <1>10 DEF Fails
  <2>2. \A t \in Threads : (cast'[t] = cast[t] /\ pc'[t] = pc[t]) \/ pc'[t] = "unregister"
    BY <1>1, <1>10 DEF Fails, Goes, TypeOK
  <2>3. QED
    BY <1>3, <1>4, <2>1, <2>2 DEF Announces
<1>11. ASSUME NEW c \in Clients, WritesNext(c) \/ Breaks(c)
       PROVE  Right
  <2>1. m \in due[x] /\ UNCHANGED <<bounds, cast>> /\ Stays
    BY <1>11 DEF WritesNext, Breaks, TypeOK
  <2>2. QED
    BY <1>3, <1>4, <2>1 DEF Announces, Stays
<1>12. ASSUME NEW t \in Threads, Moves(t)
       PROVE  Right
  <2>1. m \in due[x] /\ UNCHANGED bounds
    BY <1>12 DEF Moves
  <2>2. \A s \in Threads : (cast'[s] = cast[s] /\ pc'[s] = pc[s])
                           \/ pc'[s] \in {"unregister", "done", "idle"}
    BY <1>12 DEF Moves, Goes, TypeOK
  <2>3. QED
    BY <1>3, <1>4, <2>1, <2>2 DEF Announces
<1>13. ASSUME NEW t \in Threads, Copies(t)
       PROVE  Right
  <2>1. /\ UNCHANGED <<bounds, cast>> /\ pc'[t] = "send"
        /\ \A s \in Threads : pc'[s] = pc[s] \/ pc'[s] = "send"
    BY <1>13 DEF Copies, Goes
  <2>2. CASE m \in due[x]
    BY <1>3, <1>4, <2>1, <2>2 DEF Announces
  <2>3. CASE m \notin due[x]
    <3>1. IsEvent(cast[t].msg) /\ m = cast[t].msg /\ cast[t] # NoCast
      BY <1>13, <2>3 DEF Copies, TypeOK
    <3>2. m.by = t /\ m.event < NextNumber
      BY <3>1 DEF Casting
    <3>3. QED
      BY <2>1, <3>2 DEF Announces, bounds, NextNumber
  <2>4. QED
    BY <2>2, <2>3
<1>14. ASSUME NEW t \in Threads, NEW c \in Clients, Closes(t, c)
       PROVE  Right
  <2>1. m \in due[x] /\ UNCHANGED <<bounds, cast>>
    BY <1>14 DEF Closes, TypeOK
  <2>2. \A s \in Threads : pc'[s] = pc[s] \/ pc'[s] \in {"idle", "close", "send"}
                           \/ (pc[s] = "reply" /\ pc'[s] = "cast")
    BY <1>14 DEF Closes, Goes, AfterReply
  <2>3. QED
    BY <1>3, <1>4, <2>1, <2>2 DEF Announces
<1>15. ASSUME NEW t \in Threads, NEW c \in Clients, Sends(t, c)
       PROVE  Right
  BY <1>3, <1>4, <1>15 DEF Sends, Stays, Announces
<1>16. QED
  BY <1>5, <1>7, <1>8, <1>9, <1>10, <1>11, <1>12, <1>13, <1>14, <1>15 DEF Effect

-----------------------------------------------------------------------------
(* What is due to one client, and what its buffer holds.                   *)

Pending(c) == UNION {PendingOf(t, c) : t \in Threads}

\* The buffer q holds the events D but P, those of one sender in their order and
\* before the one in P.
Holds(q, D, P) ==
  LET buffered == {i \in DOMAIN q : IsEvent(q[i])}
  IN /\ D = {q[i] : i \in buffered} \cup P
     /\ \A i \in buffered :
          /\ \A j \in buffered : i < j /\ q[i].by = q[j].by => q[i].event < q[j].event
          /\ \A m \in P : q[i].by = m.by => q[i].event < m.event

LEMMA NoGapHolds ==
  NoGap <=> \A c \in conn \ closed : Holds(queue[c], due[c], Pending(c))
BY DEF NoGap, Holds, Pending

LEMMA NoteKeepsHeld ==
  ASSUME NEW q \in Seq(Messages), NEW m \in Messages, ~IsEvent(m),
         NEW D, NEW P, Holds(q, D, P)
  PROVE  Holds(Append(q, m), D, P)
<1> DEFINE r == Append(q, m)
           Old == {i \in DOMAIN q : IsEvent(q[i])}
           New == {i \in DOMAIN r : IsEvent(r[i])}
<1>1. /\ DOMAIN r = 1..(Len(q) + 1) /\ DOMAIN q = 1..Len(q) /\ Len(q) \in Nat
      /\ \A i \in 1..Len(q) : r[i] = q[i]
      /\ r[Len(q) + 1] = m
  OBVIOUS
<1>2. New = Old
  BY <1>1
<1>3. \A i \in Old : r[i] = q[i]
  BY <1>1
<1>4. /\ D = {q[i] : i \in Old} \cup P
      /\ \A i \in Old :
           /\ \A j \in Old : i < j /\ q[i].by = q[j].by => q[i].event < q[j].event
           /\ \A e \in P : q[i].by = e.by => q[i].event < e.event
  BY DEF Holds
<1>5. {q[i] : i \in Old} = {r[i] : i \in New}
  BY <1>2, <1>3
<1>6. D = {r[i] : i \in New} \cup P
  BY <1>4, <1>5
<1>7. \A i \in New :
        /\ \A j \in New : i < j /\ r[i].by = r[j].by => r[i].event < r[j].event
        /\ \A e \in P : r[i].by = e.by => r[i].event < e.event
  BY <1>2, <1>3, <1>4
<1>8. QED
  BY <1>6, <1>7 DEF Holds

LEMMA EventIsHeld ==
  ASSUME NEW q \in Seq(Messages), NEW m \in Messages, IsEvent(m),
         NEW D, NEW P, m \in P, Holds(q, D, P), \A e \in P : e.by = m.by => e = m
  PROVE  Holds(Append(q, m), D, P \ {m})
<1> DEFINE r == Append(q, m)
           Old == {i \in DOMAIN q : IsEvent(q[i])}
           New == {i \in DOMAIN r : IsEvent(r[i])}
<1>1. /\ DOMAIN r = 1..(Len(q) + 1) /\ DOMAIN q = 1..Len(q) /\ Len(q) \in Nat
      /\ \A i \in 1..Len(q) : r[i] = q[i]
      /\ r[Len(q) + 1] = m
  OBVIOUS
<1>2. New = Old \cup {Len(q) + 1}
  BY <1>1
<1>3. /\ D = {q[i] : i \in Old} \cup P
      /\ \A i \in Old :
           /\ \A j \in Old : i < j /\ q[i].by = q[j].by => q[i].event < q[j].event
           /\ \A e \in P : q[i].by = e.by => q[i].event < e.event
  BY DEF Holds
<1>4. \A i \in Old : r[i] = q[i] /\ i < Len(q) + 1 /\ i \in Nat
  BY <1>1
<1>5. {r[i] : i \in New} = {q[i] : i \in Old} \cup {m}
  BY <1>1, <1>2, <1>4
<1>6. D = {r[i] : i \in New} \cup (P \ {m})
  BY <1>3, <1>5
<1>7. ASSUME NEW i \in New, NEW j \in New, i < j, r[i].by = r[j].by
      PROVE  r[i].event < r[j].event
  <2>1. i \in Old
    BY <1>1, <1>2, <1>4, <1>7
  <2>2. CASE j \in Old
    BY <1>3, <1>4, <1>7, <2>1, <2>2
  <2>3. CASE j = Len(q) + 1
    BY <1>1, <1>3, <1>4, <1>7, <2>1, <2>3
  <2>4. QED
    BY <1>2, <2>2, <2>3
<1>8. ASSUME NEW i \in New, NEW e \in P \ {m}, r[i].by = e.by
      PROVE  r[i].event < e.event
  <2>1. i \in Old
    BY <1>1, <1>2, <1>8
  <2>2. QED
    BY <1>3, <1>4, <1>8, <2>1
<1>9. QED
  BY <1>6, <1>7, <1>8 DEF Holds

LEMMA HeadIsWritten ==
  ASSUME NEW q \in Seq(Messages), q # <<>>, NEW D, NEW P \in SUBSET Events, Holds(q, D, P)
  PROVE  Holds(Tail(q), IF IsEvent(Head(q)) THEN D \ {Head(q)} ELSE D, P)
<1> DEFINE r == Tail(q)
           Old == {i \in DOMAIN q : IsEvent(q[i])}
           New == {i \in DOMAIN r : IsEvent(r[i])}
           E == IF IsEvent(Head(q)) THEN D \ {Head(q)} ELSE D
<1>1. /\ DOMAIN q = 1..Len(q) /\ Len(q) \in Nat \ {0} /\ Head(q) = q[1]
      /\ DOMAIN r = 1..(Len(q) - 1)
      /\ \A i \in 1..(Len(q) - 1) : r[i] = q[i + 1]
      /\ \A i \in 1..Len(q) : q[i] \in Messages
  OBVIOUS
<1>2. \A i \in New : i + 1 \in Old /\ r[i] = q[i + 1] /\ i \in Nat /\ 1 < i + 1
  BY <1>1
<1>3. \A i \in Old : i # 1 => i - 1 \in New /\ r[i - 1] = q[i]
  <2>1. ASSUME NEW i \in Old, i # 1
        PROVE  i - 1 \in New /\ r[i - 1] = q[i]
    <3>1. i \in 2..Len(q) /\ IsEvent(q[i])
      BY <1>1, <2>1
    <3>2. i - 1 \in 1..(Len(q) - 1) /\ (i - 1) + 1 = i
      BY <1>1, <3>1
    <3>3. QED
      BY <1>1, <3>1, <3>2
  <2>2. QED
    BY <2>1
<1>4. /\ D = {q[i] : i \in Old} \cup P
      /\ \A i \in Old :
           /\ \A j \in Old : i < j /\ q[i].by = q[j].by => q[i].event < q[j].event
           /\ \A e \in P : q[i].by = e.by => q[i].event < e.event
  BY DEF Holds
<1>5. \A i \in Old : q[i] \in Events /\ q[i].event \in Int
  BY <1>1, NoteIsMessage DEF Events
\* The head is none of the others.
<1>6. IsEvent(Head(q)) => 1 \in Old /\ (\A i \in New : r[i] # q[1]) /\ q[1] \notin P
  <2>1. ASSUME IsEvent(Head(q))
        PROVE  1 \in Old
    BY <1>1, <2>1
  <2>2. ASSUME 1 \in Old, NEW i \in New, r[i] = q[1]
        PROVE  FALSE
    <3>1. q[1].event < q[i + 1].event /\ q[i + 1] = q[1]
      BY <1>2, <1>4, <2>2
    <3>2. QED
      BY <1>5, <2>2, <3>1
  <2>3. ASSUME 1 \in Old, q[1] \in P
        PROVE  FALSE
    <3>1. q[1].event < q[1].event
      BY <1>4, <2>3
    <3>2. QED
      BY <1>5, <2>3, <3>1
  <2>4. QED
    BY <2>1, <2>2, <2>3
<1>7. E = {r[i] : i \in New} \cup P
  <2>1. ASSUME NEW e \in E, e \notin P
        PROVE  e \in {r[i] : i \in New}
    <3>1. PICK i \in Old : e = q[i]
      BY <1>4, <2>1
    <3>2. i # 1
      BY <1>1, <2>1, <3>1
    <3>3. QED
      BY <1>3, <3>1, <3>2
  <2>2. ASSUME NEW i \in New
        PROVE  r[i] \in E
    <3>1. r[i] \in D
      BY <1>2, <1>4
    <3>2. QED
      BY <1>1, <1>6, <3>1
  <2>3. ASSUME NEW n \in P
        PROVE  n \in E
    BY <1>1, <1>4, <1>6
  <2>4. QED
    BY <2>1, <2>2, <2>3
<1>8. ASSUME NEW i \in New
      PROVE  /\ \A j \in New : i < j /\ r[i].by = r[j].by => r[i].event < r[j].event
             /\ \A e \in P : r[i].by = e.by => r[i].event < e.event
  <2>1. ASSUME NEW j \in New, i < j, r[i].by = r[j].by
        PROVE  r[i].event < r[j].event
    <3>1. i + 1 \in Old /\ j + 1 \in Old /\ i + 1 < j + 1
      BY <1>2, <2>1
    <3>2. QED
      BY <1>2, <1>4, <2>1, <3>1
  <2>2. QED
    BY <1>2, <1>4, <2>1
<1>9. QED
  BY <1>7, <1>8 DEF Holds

\* An event that is broadcast, and one whose broadcast is given up.
LEMMA OneMoreIsDue ==
  ASSUME NEW q \in Seq(Messages), NEW m \in Events, NEW D, NEW P, Holds(q, D, P),
         \A e \in D : e.by = m.by => e.event < m.event
  PROVE  Holds(q, D \cup {m}, P \cup {m})
BY DEF Holds

LEMMA OneLessIsDue ==
  ASSUME NEW q \in Seq(Messages), NEW m \in Events, NEW D, NEW P, m \in P, Holds(q, D, P)
  PROVE  Holds(q, D \ {m}, P \ {m})
<1> DEFINE Old == {i \in DOMAIN q : IsEvent(q[i])}
<1>1. /\ D = {q[i] : i \in Old} \cup P
      /\ \A i \in Old :
           /\ \A j \in Old : i < j /\ q[i].by = q[j].by => q[i].event < q[j].event
           /\ \A e \in P : q[i].by = e.by => q[i].event < e.event
  BY DEF Holds
<1>2. \A i \in Old : q[i] # m
  <2>1. m.event \in Int
    BY ConstantsAssumption DEF Events, ConstantsAssumption
  <2>2. \A i \in Old : q[i].by = m.by => q[i].event < m.event
    BY <1>1
  <2>3. QED
    BY <2>1, <2>2
<1>3. D \ {m} = {q[i] : i \in Old} \cup (P \ {m})
  BY <1>1, <1>2
<1>4. QED
  BY <1>1, <1>3 DEF Holds

LEMMA WhatIsPending ==
  ASSUME TypeOK, InHand, Sending, Casting, NEW t \in Threads, NEW c, NEW m \in PendingOf(t, c)
  PROVE  /\ m = cast[t].msg /\ m \in Events /\ m \in Messages /\ IsEvent(m) /\ m.by = t
         /\ pc[t] = "send" /\ c \in todo[t] \cup stale[t]
<1>1. m = cast[t].msg /\ IsEvent(m) /\ c \in todo[t] \cup stale[t]
  BY DEF PendingOf
<1>2. pc[t] = "send"
  BY <1>1 DEF Sending
<1>3. cast[t] # NoCast
  BY <1>2 DEF InHand
<1>4. QED
  BY <1>1, <1>2, <1>3, EventInHand, NoteIsMessage DEF Casting

\* What changes of the events that are pending for x.
LEMMA SamePending ==
  ASSUME NEW x, \A t \in Threads : PendingOf(t, x)' = PendingOf(t, x)
  PROVE  Pending(x)' = Pending(x)
BY DEF Pending

LEMMA OnePending ==
  ASSUME TypeOK, InHand, Sending, Casting, NEW x, NEW t \in Threads,
         \A s \in Threads \ {t} : PendingOf(s, x)' = PendingOf(s, x)
  PROVE  Pending(x)' = (Pending(x) \ PendingOf(t, x)) \cup PendingOf(t, x)'
<1>1. ASSUME NEW s \in Threads \ {t}, NEW m \in PendingOf(s, x)
      PROVE  m \notin PendingOf(t, x)
  <2>1. m.by = s
    BY WhatIsPending
  <2>2. m \in PendingOf(t, x) => m.by = t
    BY WhatIsPending
  <2>3. QED
    BY <2>1, <2>2
<1>2. ASSUME NEW m \in Pending(x)'
      PROVE  m \in (Pending(x) \ PendingOf(t, x)) \cup PendingOf(t, x)'
  <2>1. PICK s \in Threads : m \in PendingOf(s, x)'
    BY <1>2 DEF Pending
  <2>2. CASE s = t
    BY <2>1, <2>2
  <2>3. CASE s # t
    BY <1>1, <2>1, <2>3 DEF Pending
  <2>4. QED
    BY <2>2, <2>3
<1>3. ASSUME NEW m \in (Pending(x) \ PendingOf(t, x)) \cup PendingOf(t, x)'
      PROVE  m \in Pending(x)'
  <2>1. CASE m \in PendingOf(t, x)'
    BY <2>1 DEF Pending
  <2>2. CASE m \in Pending(x) \ PendingOf(t, x)
    <3>1. PICK s \in Threads : m \in PendingOf(s, x)
      BY <2>2 DEF Pending
    <3>2. s # t
      BY <2>2, <3>1
    <3>3. QED
      BY <3>1, <3>2 DEF Pending
  <2>3. QED
    BY <1>3, <2>1, <2>2
<1>4. QED
  BY <1>2, <1>3

LEMMA StepKeepsNoGap ==
  /\ TypeOK /\ InHand /\ Ended /\ Fresh /\ Sending /\ Casting /\ Subscribing /\ Dues
  /\ NoGap /\ Effect
  => NoGap'
<1> SUFFICES ASSUME TypeOK, InHand, Ended, Fresh, Sending, Casting, Subscribing, Dues,
                    NoGap, Effect
             PROVE  NoGap'
  OBVIOUS
<1> SUFFICES ASSUME NEW x \in Clients, x \in conn' \ closed'
             PROVE  Holds(queue[x], due[x], Pending(x))'
  <2>1. conn' \subseteq Clients
    BY ConnectedAreClients
  <2>2. NoGap' <=> (\A c \in conn \ closed : Holds(queue[c], due[c], Pending(c)))'
    BY NoGapHolds, PTL
  <2>3. QED
    BY <2>1, <2>2
<1> DEFINE Right == Holds(queue[x], due[x], Pending(x))'
<1>1. Clients \subseteq Threads /\ Subscriber \in Threads /\ Subscriber \notin Clients
  BY ConstantsAssumption DEF Threads, ConstantsAssumption
<1>2. queue[x] \in Seq(Messages) /\ due[x] \in SUBSET Events /\ Pending(x) \in SUBSET Events
  <2>1. Pending(x) \in SUBSET Events
    BY WhatIsPending DEF Pending
  <2>2. QED
    BY <2>1 DEF TypeOK
<1>3. x \in conn \ closed => Holds(queue[x], due[x], Pending(x))
  BY NoGapHolds
\* The buffer of x, what is due to it and what is pending stay the same.
<1>4. ASSUME x \in conn \ closed, queue'[x] = queue[x], due'[x] = due[x],
             Pending(x)' = Pending(x)
      PROVE  Right
  BY <1>3, <1>4 DEF Holds
\* A broadcast is as far as it was, unless nobody is left to be sent it.
<1>5. ASSUME \A t \in Threads :
               \/ /\ cast'[t] = cast[t]
                  /\ x \in todo'[t] \cup stale'[t] <=> x \in todo[t] \cup stale[t]
               \/ x \notin todo[t] \cup stale[t] /\ x \notin todo'[t] \cup stale'[t]
      PROVE  Pending(x)' = Pending(x)
  <2>1. \A t \in Threads : PendingOf(t, x)' = PendingOf(t, x)
    BY <1>5 DEF PendingOf
  <2>2. QED
    BY <2>1, SamePending
<1>6. ASSUME UNCHANGED <<cast, todo, stale>>
      PROVE  Pending(x)' = Pending(x)
  BY <1>5, <1>6
\* A message that is no event is put into its buffer.
<1>7. ASSUME x \in conn \ closed, NEW m \in Messages, ~IsEvent(m),
             queue'[x] = Append(queue[x], m), due'[x] = due[x], Pending(x)' = Pending(x)
      PROVE  Right
  <2>1. Holds(Append(queue[x], m), due[x], Pending(x))
    BY <1>2, <1>3, <1>7, NoteKeepsHeld
  <2>2. QED
    BY <1>7, <2>1 DEF Holds
<1>8. CASE Rests
  BY <1>4, <1>6, <1>8 DEF Rests
<1>9. CASE Publishes
  <2>1. todo[Subscriber] = {} /\ stale[Subscriber] = {}
    BY <1>1, <1>9 DEF Publishes, Sending
  <2>2. \A t \in Threads \ {Subscriber} : cast'[t] = cast[t]
    BY <1>9 DEF Publishes, TypeOK
  <2>3. Pending(x)' = Pending(x)
    BY <1>1, <1>5, <1>9, <2>1, <2>2 DEF Publishes
  <2>4. QED
    BY <1>4, <1>9, <2>3 DEF Publishes
<1>10. ASSUME NEW c \in Clients, Enters(c)
       PROVE  Right
  <2>1. Pending(x)' = Pending(x)
    BY <1>6, <1>10 DEF Enters
  <2>2. CASE x # c
    BY <1>4, <1>10, <2>1, <2>2 DEF Enters
  <2>3. CASE x = c
    <3>1. Untouched(x)
      BY <1>10, <2>3 DEF Enters, Fresh
    <3>2. \A t \in Threads : PendingOf(t, x) = {}
      BY <3>1 DEF Untouched, PendingOf
    <3>3. queue'[x] = <<>> /\ due'[x] = {} /\ Pending(x)' = {}
      BY <1>10, <2>1, <3>1, <3>2 DEF Enters, Untouched, Pending
    <3>4. QED
      BY <3>3 DEF Holds
  <2>4. QED
    BY <2>2, <2>3
<1>11. ASSUME NEW c \in Clients, Greets(c) \/ Answers(c)
       PROVE  Right
  <2>1. Pending(x)' = Pending(x)
    BY <1>6, <1>11 DEF Greets, Answers
  <2>2. x \in conn \ closed /\ due'[x] = due[x]
    BY <1>11 DEF Greets, Answers
  <2>3. CASE x # c
    <3>1. queue'[x] = queue[x]
      BY <1>11, <2>3 DEF Greets, Answers, Buffers, TypeOK
    <3>2. QED
      BY <1>4, <2>1, <2>2, <3>1
  <2>4. CASE x = c
    <3>1. PICK m \in Messages : ~IsEvent(m) /\ queue'[x] = Append(queue[x], m)
      <4>1. CASE Greets(c)
        BY <2>4, <4>1, NoteIsMessage, MessagesDiffer DEF Greets, Buffers, TypeOK
      <4>2. CASE Answers(c)
        <5>1. reply[c] \in Messages /\ ~IsEvent(reply[c])
          BY <4>2 DEF Answers, InHand, TypeOK, Casting
        <5>2. QED
          BY <2>4, <4>2, <5>1 DEF Answers, Buffers, TypeOK
      <4>3. QED
        BY <1>11, <4>1, <4>2
    <3>2. QED
      BY <1>7, <2>1, <2>2, <3>1
  <2>5. QED
    BY <2>3, <2>4
<1>12. ASSUME NEW c \in Clients, NEW a, NEW b, Asks(c, a, b)
       PROVE  Right
  <2>1. todo[c] = {} /\ stale[c] = {}
    BY <1>1, <1>12 DEF Asks, Sending
  <2>2. \A t \in Threads \ {c} : cast'[t] = cast[t]
    BY <1>12 DEF Asks, TypeOK
  <2>3. Pending(x)' = Pending(x)
    BY <1>1, <1>5, <1>12, <2>1, <2>2 DEF Asks
  <2>4. QED
    BY <1>4, <1>12, <2>3 DEF Asks
<1>13. ASSUME NEW c \in Clients, Fails(c)
       PROVE  Right
  <2>1. /\ x \in conn \ closed /\ queue'[x] = queue[x]
        /\ due'[x] = due[x] \ PendingOf(c, x)
    BY <1>13 DEF Fails
  <2>2. /\ \A t \in Threads \ {c} : PendingOf(t, x)' = PendingOf(t, x)
        /\ PendingOf(c, x)' = {}
    <3>1. /\ \A t \in Threads \ {c} : /\ cast'[t] = cast[t] /\ todo'[t] = todo[t]
                                      /\ stale'[t] = stale[t]
          /\ todo'[c] = {} /\ stale'[c] = {}
      BY <1>1, <1>13 DEF Fails, TypeOK
    <3>2. QED
      BY <3>1 DEF PendingOf
  <2>3. Pending(x)' = Pending(x) \ PendingOf(c, x)
    BY <1>1, <2>2, OnePending
  <2>4. CASE PendingOf(c, x) = {}
    BY <1>4, <2>1, <2>3, <2>4
  <2>5. CASE PendingOf(c, x) # {}
    <3>1. PICK m : m \in PendingOf(c, x)
      BY <2>5
    <3>2. PendingOf(c, x) = {m} /\ m \in Events
      BY <1>1, <3>1, WhatIsPending
    <3>3. m \in Pending(x)
      BY <1>1, <3>1 DEF Pending
    <3>4. Holds(queue[x], due[x] \ {m}, Pending(x) \ {m})
      BY <1>2, <1>3, <2>1, <3>2, <3>3, OneLessIsDue
    <3>5. QED
      BY <2>1, <2>3, <3>2, <3>4 DEF Holds
  <2>6. QED
    BY <2>4, <2>5
<1>14. ASSUME NEW c \in Clients, WritesNext(c)
       PROVE  Right
  <2>1. Pending(x)' = Pending(x)
    BY <1>6, <1>14 DEF WritesNext
  <2>2. CASE x # c
    <3>1. queue'[x] = queue[x] /\ due'[x] = due[x]
      BY <1>14, <2>2 DEF WritesNext, TypeOK
    <3>2. QED
      BY <1>4, <1>14, <2>1, <3>1 DEF WritesNext
  <2>3. CASE x = c
    <3>1. /\ queue[x] # <<>> /\ queue'[x] = Tail(queue[x]) /\ x \in conn \ closed
          /\ due'[x] = IF IsEvent(Head(queue[x])) THEN due[x] \ {Head(queue[x])} ELSE due[x]
      BY <1>14, <2>3 DEF WritesNext, TypeOK
    <3>2. Holds(Tail(queue[x]), IF IsEvent(Head(queue[x])) THEN due[x] \ {Head(queue[x])}
                                ELSE due[x], Pending(x))
      BY <1>2, <1>3, <3>1, HeadIsWritten
    <3>3. Holds(queue'[x], due'[x], Pending(x))
      BY <3>1, <3>2
    <3>4. QED
      BY <2>1, <3>3 DEF Holds
  <2>4. QED
    BY <2>2, <2>3
<1>15. ASSUME NEW c \in Clients, Breaks(c)
       PROVE  Right
  <2>1. Pending(x)' = Pending(x)
    BY <1>6, <1>15 DEF Breaks
  <2>2. x # c
    BY <1>15 DEF Breaks
  <2>3. due'[x] = due[x]
    BY <1>15, <2>2 DEF Breaks, TypeOK
  <2>4. QED
    BY <1>4, <1>15, <2>1, <2>3 DEF Breaks
<1>16. ASSUME NEW t \in Threads, Moves(t)
       PROVE  Right
  <2>1. \A s \in Threads : cast'[s] = cast[s] \/ (s = t /\ todo[t] = {} /\ stale[t] = {})
    BY <1>16 DEF Moves, TypeOK
  <2>2. Pending(x)' = Pending(x)
    BY <1>5, <1>16, <2>1 DEF Moves
  <2>3. queue'[x] = queue[x] /\ due'[x] = due[x] /\ x \in conn \ closed
    BY <1>16 DEF Moves
  <2>4. QED
    BY <1>4, <2>2, <2>3
<1>17. ASSUME NEW t \in Threads, Copies(t)
       PROVE  Right
  <2>1. /\ x \in conn \ closed /\ queue'[x] = queue[x] /\ cast' = cast /\ stale' = stale
        /\ todo[t] = {} /\ stale[t] = {} /\ cast[t] # NoCast
        /\ \A s \in Threads : todo'[s] = IF s = t THEN Targets(t) ELSE todo[s]
    BY <1>17 DEF Copies, Sending, TypeOK
  <2>2. PendingOf(t, x) = {} /\ \A s \in Threads \ {t} : PendingOf(s, x)' = PendingOf(s, x)
    BY <2>1 DEF PendingOf
  <2>3. Pending(x)' = Pending(x) \cup PendingOf(t, x)'
    BY <2>2, OnePending
  <2>4. CASE IsEvent(cast[t].msg)
    <3>1. cast[t].to = "chat" /\ cast[t].msg.by = t /\ cast[t].msg \in Events
      BY <2>1, <2>4, EventInHand DEF Casting
    <3>2. PendingOf(t, x)' = IF x \in chat THEN {cast[t].msg} ELSE {}
      BY <2>1, <2>4, <3>1 DEF PendingOf, Targets
    <3>3. due'[x] = IF x \in subscribed THEN due[x] \cup {cast[t].msg} ELSE due[x]
      BY <1>17, <2>1, <2>4 DEF Copies
    <3>4. x \in subscribed <=> x \in chat
      BY <2>1 DEF Subscribing, Ended
    <3>5. \A e \in due[x] : e.by = cast[t].msg.by => e.event < cast[t].msg.event
      BY <1>17, <2>1, <2>4, <3>1 DEF Dues, Copies, Announces
    <3>6. Holds(queue[x], due[x] \cup {cast[t].msg}, Pending(x) \cup {cast[t].msg})
      BY <1>2, <1>3, <2>1, <3>1, <3>5, OneMoreIsDue
    <3>7. Holds(queue[x], due'[x], Pending(x)')
      BY <1>3, <2>1, <2>3, <3>2, <3>3, <3>4, <3>6
    <3>8. QED
      BY <2>1, <3>7 DEF Holds
  <2>5. CASE ~IsEvent(cast[t].msg)
    <3>1. due'[x] = due[x] /\ PendingOf(t, x)' = {}
      BY <1>17, <2>1, <2>5 DEF Copies, PendingOf
    <3>2. QED
      BY <1>4, <2>1, <2>3, <3>1
  <2>6. QED
    BY <2>4, <2>5
<1>18. ASSUME NEW t \in Threads, NEW c \in Clients, Closes(t, c)
       PROVE  Right
  <2>1. x # c /\ x \in conn \ closed
    BY <1>18 DEF Closes
  <2>2. queue'[x] = queue[x] /\ due'[x] = due[x]
    BY <1>18, <2>1 DEF Closes, TypeOK
  <2>3. todo' = todo /\ cast' = cast /\ \A s \in Threads : x \in stale'[s] <=> x \in stale[s]
    BY <1>18, <2>1 DEF Closes, TypeOK
  <2>4. Pending(x)' = Pending(x)
    BY <1>5, <2>3
  <2>5. QED
    BY <1>4, <2>1, <2>2, <2>4
<1>19. ASSUME NEW t \in Threads, NEW c \in Clients, Sends(t, c)
       PROVE  Right
  <2>1. x \in conn \ closed /\ due'[x] = due[x] /\ cast' = cast
    BY <1>19 DEF Sends
  <2>2. \A s \in Threads \ {t} : todo'[s] = todo[s] /\ stale'[s] = stale[s]
    BY <1>19 DEF Sends, TypeOK
  <2>3. CASE x # c
    <3>1. queue'[x] = queue[x]
      BY <1>19, <2>3 DEF Sends, Buffers, TypeOK
    <3>2. x \in todo'[t] \cup stale'[t] <=> x \in todo[t] \cup stale[t]
      BY <1>19, <2>3 DEF Sends, TypeOK
    <3>3. Pending(x)' = Pending(x)
      BY <1>5, <2>1, <2>2, <3>2
    <3>4. QED
      BY <1>4, <2>1, <3>1, <3>3
  <2>4. CASE x = c /\ queue' = queue /\ stale' = [stale EXCEPT ![t] = stale[t] \cup {c}]
    <3>1. x \in todo[t] /\ x \in stale'[t]
      BY <1>19, <2>4 DEF Sends, TypeOK
    <3>2. Pending(x)' = Pending(x)
      BY <1>5, <2>1, <2>2, <3>1
    <3>3. QED
      BY <1>4, <2>1, <2>4, <3>2
  <2>5. CASE x = c /\ Buffers(c, cast[t].msg) /\ UNCHANGED stale
    <3>1. /\ x \in todo[t] /\ x \notin stale[t] /\ todo'[t] = todo[t] \ {x}
          /\ queue'[x] = Append(queue[x], cast[t].msg)
          /\ cast[t] # NoCast
      BY <1>19, <2>5 DEF Sends, Sending, Buffers, TypeOK
    <3>2. cast[t].msg \in Messages
      BY <3>1 DEF TypeOK, Casts
    <3>3. PendingOf(t, x)' = {} /\ \A s \in Threads \ {t} : PendingOf(s, x)' = PendingOf(s, x)
      BY <2>1, <2>2, <2>5, <3>1 DEF PendingOf
    <3>4. Pending(x)' = Pending(x) \ PendingOf(t, x)
      BY <3>3, OnePending
    <3>5. CASE IsEvent(cast[t].msg)
      <4>1. PendingOf(t, x) = {cast[t].msg} /\ cast[t].msg \in Pending(x)
        BY <3>1, <3>5 DEF PendingOf, Pending
      <4>2. \A e \in Pending(x) : e.by = cast[t].msg.by => e = cast[t].msg
        <5>1. ASSUME NEW e \in Pending(x), e.by = cast[t].msg.by
              PROVE  e = cast[t].msg
          <6>1. PICK s \in Threads : e \in PendingOf(s, x)
            BY DEF Pending
          <6>2. e.by = s /\ cast[t].msg.by = t /\ e = cast[s].msg
            BY <4>1, <6>1, WhatIsPending
          <6>3. QED
            BY <5>1, <6>2
        <5>2. QED
          BY <5>1
      <4>3. Holds(Append(queue[x], cast[t].msg), due[x], Pending(x) \ {cast[t].msg})
        BY <1>2, <1>3, <2>1, <3>2, <3>5, <4>1, <4>2, EventIsHeld
      <4>4. QED
        BY <2>1, <3>1, <3>4, <4>1, <4>3 DEF Holds
    <3>6. CASE ~IsEvent(cast[t].msg)
      <4>1. PendingOf(t, x) = {}
        BY <3>6 DEF PendingOf
      <4>2. QED
        BY <1>7, <2>1, <3>1, <3>2, <3>4, <3>6, <4>1
    <3>7. QED
      BY <3>5, <3>6
  <2>6. QED
    BY <1>19, <2>3, <2>4, <2>5 DEF Sends
<1>20. QED
  BY <1>8, <1>9, <1>10, <1>11, <1>12, <1>13, <1>14, <1>15, <1>16, <1>17, <1>18, <1>19 DEF Effect

-----------------------------------------------------------------------------
(* What a client has been told.                                            *)

\* The reader of q, who knows S, will have been told of d.
Tell(q, S, d) ==
  \E i \in 0..Len(q) :
    /\ d \in IF i = 0 THEN S ELSE Learn({}, q[i])
    /\ \A j \in (i + 1)..Len(q) : q[j] # PeerLeft(d)

LEMMA ToldTells == \A c, d \in Clients : Told(c, d) <=> Tell(queue[c], known[c], d)
BY DEF Told, Tell

LEMMA AppendTells ==
  ASSUME NEW q \in Seq(Messages), NEW m \in Messages, NEW S, NEW d,
         (Tell(q, S, d) /\ m # PeerLeft(d)) \/ d \in Learn({}, m)
  PROVE  Tell(Append(q, m), S, d)
<1> DEFINE r == Append(q, m)
<1>1. /\ Len(q) \in Nat /\ Len(r) = Len(q) + 1 /\ r[Len(q) + 1] = m
      /\ \A i \in 1..Len(q) : r[i] = q[i]
  OBVIOUS
<1>2. CASE Tell(q, S, d) /\ m # PeerLeft(d)
  <2>1. PICK i \in 0..Len(q) : /\ d \in IF i = 0 THEN S ELSE Learn({}, q[i])
                               /\ \A j \in (i + 1)..Len(q) : q[j] # PeerLeft(d)
    BY <1>2 DEF Tell
  <2>2. i \in 0..Len(r) /\ d \in IF i = 0 THEN S ELSE Learn({}, r[i])
    BY <1>1, <2>1
  <2>3. ASSUME NEW j \in (i + 1)..Len(r)
        PROVE  r[j] # PeerLeft(d)
    <3>1. CASE j = Len(q) + 1
      BY <1>1, <1>2, <3>1
    <3>2. CASE j # Len(q) + 1
      <4>1. j \in (i + 1)..Len(q) /\ j \in 1..Len(q)
        BY <1>1, <3>2
      <4>2. QED
        BY <1>1, <2>1, <4>1
    <3>3. QED
      BY <3>1, <3>2
  <2>4. QED
    BY <2>2, <2>3 DEF Tell
<1>3. CASE d \in Learn({}, m)
  <2>1. Len(r) \in 0..Len(r) /\ Len(r) # 0 /\ d \in Learn({}, r[Len(r)])
    BY <1>1, <1>3
  <2>2. (Len(r) + 1)..Len(r) = {}
    BY <1>1
  <2>3. QED
    BY <2>1, <2>2 DEF Tell
<1>4. QED
  BY <1>2, <1>3

LEMMA WrittenTells ==
  ASSUME NEW q \in Seq(Messages), q # <<>>, NEW S, NEW d \in Clients, Tell(q, S, d)
  PROVE  Tell(Tail(q), Learn(S, Head(q)), d)
<1> DEFINE r == Tail(q)
           T == Learn(S, Head(q))
<1>1. /\ Len(q) \in Nat \ {0} /\ Len(r) = Len(q) - 1 /\ Head(q) = q[1]
      /\ \A i \in 1..Len(r) : r[i] = q[i + 1]
      /\ Head(q) \in Messages
  OBVIOUS
<1>2. PICK i \in 0..Len(q) : /\ d \in IF i = 0 THEN S ELSE Learn({}, q[i])
                             /\ \A j \in (i + 1)..Len(q) : q[j] # PeerLeft(d)
  BY DEF Tell
<1>3. \A j \in 1..Len(r) : j >= i => r[j] # PeerLeft(d)
  <2>1. ASSUME NEW j \in 1..Len(r), j >= i
        PROVE  r[j] # PeerLeft(d)
    <3>1. j + 1 \in (i + 1)..Len(q) /\ r[j] = q[j + 1]
      BY <1>1, <2>1
    <3>2. QED
      BY <1>2, <3>1
  <2>2. QED
    BY <2>1
<1>4. CASE i \in {0, 1}
  <2>1. d \in T
    <3>1. CASE i = 0
      <4>1. d \in S /\ Head(q) # PeerLeft(d)
        BY <1>1, <1>2, <3>1
      <4>2. QED
        BY <1>1, <4>1, WhatIsLearnt
    <3>2. CASE i = 1
      <4>1. d \in Learn({}, Head(q))
        BY <1>1, <1>2, <3>2
      <4>2. QED
        BY <1>1, <4>1, WhatIsLearnt
    <3>3. QED
      BY <1>4, <3>1, <3>2
  <2>2. 0 \in 0..Len(r) /\ \A j \in (0 + 1)..Len(r) : r[j] # PeerLeft(d)
    BY <1>1, <1>3, <1>4
  <2>3. QED
    BY <2>1, <2>2 DEF Tell
<1>5. CASE i \notin {0, 1}
  <2>1. i - 1 \in 1..Len(r) /\ r[i - 1] = q[i]
    <3>1. i \in 2..Len(q) /\ i - 1 \in 1..Len(r) /\ (i - 1) + 1 = i
      BY <1>1, <1>5
    <3>2. QED
      BY <1>1, <3>1
  <2>2. i - 1 \in 0..Len(r) /\ i - 1 # 0 /\ d \in Learn({}, r[i - 1])
    BY <1>1, <1>2, <1>5, <2>1
  <2>3. \A j \in ((i - 1) + 1)..Len(r) : r[j] # PeerLeft(d)
    BY <1>1, <1>3, <2>1
  <2>4. QED
    BY <2>2, <2>3 DEF Tell
<1>6. QED
  BY <1>4, <1>5

\* The peer d, if it is present, is one that c has been told of, or will be.
LEMMA StepKeepsMeeting ==
  TypeOK /\ InHand /\ Ended /\ Fresh /\ Sending /\ Casting /\ Meeting /\ Effect => Meeting'
<1> SUFFICES ASSUME TypeOK, InHand, Ended, Fresh, Sending, Casting, Meeting, Effect,
                    NEW c \in Clients, NEW d \in Clients, c # d,
                    c \in (room' \cap conn') \ closed', Present(d)'
             PROVE  Told(c, d)' \/ Expects(c, d)' \/ Tells(d, c)'
  BY DEF Meeting, Meets
<1> DEFINE Right == Told(c, d)' \/ Expects(c, d)' \/ Tells(d, c)'
<1>1. c \in Threads /\ d \in Threads
  BY DEF Threads
<1>2. c \in (room \cap conn) \ closed /\ Present(d)
        => Told(c, d) \/ Expects(c, d) \/ Tells(d, c)
  BY DEF Meeting, Meets
<1>3. /\ Told(c, d) <=> Tell(queue[c], known[c], d)
      /\ Told(c, d)' <=> Tell(queue'[c], known'[c], d)
  BY DEF Told, Tell
<1>4. queue[c] \in Seq(Messages)
  BY DEF TypeOK
\* Nothing changes for the two.
<1>5. ASSUME c \in (room \cap conn) \ closed, d \in room,
             pc'[c] = pc[c], pc'[d] = pc[d],
             queue'[c] = queue[c], known'[c] = known[c], reply'[c] = reply[c],
             cast'[d] = cast[d], todo'[d] = todo[d], c \in stale[d] => c \in stale'[d]
      PROVE  Right
  <2>1. Present(d)
    BY <1>5 DEF Present
  <2>2. CASE Told(c, d)
    BY <1>3, <1>5, <2>2
  <2>3. CASE Expects(c, d)
    BY <1>5, <2>3 DEF Expects
  <2>4. CASE Tells(d, c)
    BY <1>5, <2>4 DEF Tells
  <2>5. QED
    BY <1>2, <1>5, <2>1, <2>2, <2>3, <2>4
\* c stays where it is, and its buffer or what it knows changes or does not.
<1>6. ASSUME NEW x \in Clients, NEW m \in Messages, x = c => m # PeerLeft(d) /\ Buffers(x, m),
             Told(c, d), known' = known, x # c => queue'[c] = queue[c]
      PROVE  Told(c, d)'
  <2>1. CASE x # c
    BY <1>3, <1>6, <2>1
  <2>2. CASE x = c
    <3>1. queue'[c] = Append(queue[c], m) /\ known'[c] = known[c]
      BY <1>6, <2>2 DEF Buffers, TypeOK
    <3>2. QED
      BY <1>3, <1>4, <1>6, <2>2, <3>1, AppendTells
  <2>3. QED
    BY <2>1, <2>2
<1>7. CASE Rests
  BY <1>1, <1>5, <1>7 DEF Rests, Stays, Present
<1>8. CASE Publishes
  <2>1. c # Subscriber /\ d # Subscriber
    BY ConstantsAssumption DEF ConstantsAssumption
  <2>2. /\ pc'[c] = pc[c] /\ pc'[d] = pc[d]
        /\ cast'[d] = cast[d]
    BY <1>1, <1>8, <2>1 DEF Publishes, Goes, TypeOK
  <2>3. QED
    BY <1>5, <1>8, <2>2 DEF Publishes, Present
<1>9. ASSUME NEW x \in Clients, Enters(x)
      PROVE  Right
  <2>1. x # c /\ x # d
    BY <1>9 DEF Enters, Fresh, Untouched, Present
  <2>2. pc'[c] = pc[c] /\ pc'[d] = pc[d]
    BY <1>1, <1>9, <2>1 DEF Enters, Goes
  <2>3. QED
    BY <1>5, <1>9, <2>1, <2>2 DEF Enters, Present
<1>10. ASSUME NEW x \in Clients, Greets(x)
       PROVE  Right
  <2>1. Present(d) /\ c \in (room \cap conn) \ closed /\ known' = known
    <3>1. pc[d] \notin {"unregister", "close", "done"}
      BY <1>1, <1>10 DEF Greets, Goes, Present
    <3>2. QED
      BY <1>10, <3>1 DEF Greets, Present
  <2>2. CASE Told(c, d)
    <3>1. Note \in Messages /\ Note # PeerLeft(d)
      BY NoteIsMessage, MessagesDiffer
    <3>2. x # c => queue'[c] = queue[c]
      BY <1>10 DEF Greets, Buffers, TypeOK
    <3>3. QED
      BY <1>6, <1>10, <2>1, <2>2, <3>1, <3>2 DEF Greets
  <2>3. CASE Expects(c, d)
    BY <1>1, <1>10, <2>3 DEF Expects, Greets, Goes
  <2>4. CASE Tells(d, c)
    BY <1>1, <1>10, <2>4 DEF Tells, Greets, Goes
  <2>5. QED
    BY <1>2, <2>1, <2>2, <2>3, <2>4
<1>11. ASSUME NEW x \in Clients, NEW a, NEW b, Asks(x, a, b)
       PROVE  Right
  <2>1. CASE c \in room /\ d \in room
    <3>1. pc[d] \notin {"unregister", "close", "done"}
      BY <1>1, <1>11 DEF Asks, Goes, Present
    <3>2. Told(c, d) \/ Expects(c, d) \/ Tells(d, c)
      BY <1>2, <1>11, <2>1, <3>1 DEF Asks, Present
    <3>3. CASE Told(c, d)
      BY <1>3, <1>11, <3>3 DEF Asks
    <3>4. CASE Expects(c, d)
      <4>1. x # c
        BY <1>11, <3>4 DEF Expects, Asks
      <4>2. QED
        BY <1>1, <1>11, <3>4, <4>1 DEF Expects, Asks, Goes, TypeOK
    <3>5. CASE Tells(d, c)
      <4>1. x # d
        BY <1>11, <3>5 DEF Tells, Asks
      <4>2. QED
        BY <1>1, <1>11, <3>5, <4>1 DEF Tells, Asks, Goes, TypeOK
    <3>6. QED
      BY <3>2, <3>3, <3>4, <3>5
  <2>2. CASE ~(c \in room /\ d \in room)
    <3>1. /\ a = Existing(room \ {x}) /\ b = ToRoom(NewPeer(x)) /\ room' = room \cup {x}
      BY <1>11, <2>2 DEF Asks, Present
    <3>2. a # NoReply
      <4>1. a \in Messages
        BY <3>1, NoteIsMessage DEF TypeOK
      <4>2. QED
        BY <4>1, NullAssumption DEF NullAssumption
    <3>3. pc'[x] = "reply" /\ reply'[x] = a /\ cast'[x] = b
      BY <1>1, <1>11, <3>2 DEF Asks, Goes, TypeOK, Threads
    <3>4. CASE x = c
      <4>1. d \in Learn({}, a)
        BY <2>2, <3>1, <3>4, WhatIsLearnt DEF Present
      <4>2. QED
        BY <3>3, <3>4, <4>1 DEF Expects
    <3>5. CASE x = d
      BY <3>1, <3>3, <3>5 DEF Tells
    <3>6. QED
      BY <2>2, <3>1, <3>4, <3>5 DEF Present
  <2>3. QED
    BY <2>1, <2>2
<1>12. ASSUME NEW x \in Clients, Answers(x)
       PROVE  Right
  <2>1. /\ pc[x] = "reply" /\ pc[x] = "reply"
        /\ reply[x] \in Messages /\ reply[x] # PeerLeft(d)
    <3>1. pc[x] = "reply" /\ pc[x] = "reply"
      BY <1>12 DEF Answers, InHand, Threads
    <3>2. QED
      BY <3>1 DEF InHand, TypeOK, Casting
  <2>2. Present(d) /\ c \in (room \cap conn) \ closed /\ known' = known
    <3>1. pc[d] \notin {"unregister", "close", "done"}
      BY <1>1, <1>12, <2>1 DEF Answers, Goes, Present
    <3>2. QED
      BY <1>12, <3>1 DEF Answers, Present
  <2>3. CASE Told(c, d)
    <3>1. x # c => queue'[c] = queue[c]
      BY <1>12 DEF Answers, Buffers, TypeOK
    <3>2. QED
      BY <1>6, <1>12, <2>1, <2>2, <2>3, <3>1 DEF Answers
  <2>4. CASE Expects(c, d)
    <3>1. CASE x = c
      <4>1. queue'[c] = Append(queue[c], reply[c]) /\ d \in Learn({}, reply[c])
        BY <1>12, <2>4, <3>1 DEF Answers, Buffers, Expects, TypeOK
      <4>2. QED
        BY <1>3, <1>4, <2>1, <3>1, <4>1, AppendTells
    <3>2. CASE x # c
      BY <1>1, <1>12, <2>4, <3>2 DEF Expects, Answers, Goes, TypeOK
    <3>3. QED
      BY <3>1, <3>2
  <2>5. CASE Tells(d, c)
    <3>1. CASE x = d
      <4>1. cast[d] # NoCast
        BY <2>5, NoteIsMessage, NullAssumption DEF Tells, NullAssumption
      <4>2. pc'[d] = "cast"
        BY <1>1, <1>12, <3>1, <4>1 DEF Answers, Goes, AfterReply
      <4>3. QED
        BY <1>12, <2>5, <4>2 DEF Tells, Answers
    <3>2. CASE x # d
      BY <1>1, <1>12, <2>5, <3>2 DEF Tells, Answers, Goes
    <3>3. QED
      BY <3>1, <3>2
  <2>6. QED
    BY <1>2, <2>2, <2>3, <2>4, <2>5
<1>13. ASSUME NEW x \in Clients, Fails(x)
       PROVE  Right
  <2>1. x # d
    BY <1>1, <1>13 DEF Fails, Goes, Present
  <2>2. Present(d) /\ c \in (room \cap conn) \ closed /\ queue' = queue /\ known' = known
    <3>1. pc'[d] = pc[d]
      BY <1>1, <1>13, <2>1 DEF Fails, Goes
    <3>2. QED
      BY <1>13, <3>1 DEF Fails, Present
  <2>3. CASE Told(c, d)
    BY <1>3, <2>2, <2>3
  <2>4. CASE Expects(c, d)
    <3>1. x # c
      BY <1>13, <2>2, <2>4 DEF Expects, Fails
    <3>2. reply'[c] = reply[c] /\ pc'[c] = pc[c]
      BY <1>1, <1>13, <3>1 DEF Fails, Goes, TypeOK
    <3>3. QED
      BY <2>4, <3>2 DEF Expects
  <2>5. CASE Tells(d, c)
    <3>1. /\ cast'[d] = cast[d] /\ todo'[d] = todo[d] /\ stale'[d] = stale[d]
          /\ pc'[d] = pc[d]
      BY <1>1, <1>13, <2>1 DEF Fails, Goes, TypeOK
    <3>2. QED
      BY <2>5, <3>1 DEF Tells
  <2>6. QED
    BY <1>2, <2>2, <2>3, <2>4, <2>5
<1>14. ASSUME NEW x \in Clients, WritesNext(x)
       PROVE  Right
  <2>1. /\ pc'[c] = pc[c] /\ pc'[d] = pc[d]
        /\ c \in (room \cap conn) \ closed /\ Present(d)
    BY <1>1, <1>14 DEF WritesNext, Stays, Present
  <2>2. CASE Told(c, d)
    <3>1. CASE x = c
      <4>1. /\ queue[c] # <<>> /\ queue'[c] = Tail(queue[c])
            /\ known'[c] = Learn(known[c], Head(queue[c]))
        BY <1>14, <3>1 DEF WritesNext, TypeOK
      <4>2. QED
        BY <1>3, <1>4, <2>2, <4>1, WrittenTells
    <3>2. CASE x # c
      <4>1. queue'[c] = queue[c] /\ known'[c] = known[c]
        BY <1>14, <3>2 DEF WritesNext, TypeOK
      <4>2. QED
        BY <1>3, <2>2, <4>1
    <3>3. QED
      BY <3>1, <3>2
  <2>3. CASE Expects(c, d)
    BY <1>14, <2>1, <2>3 DEF Expects, WritesNext
  <2>4. CASE Tells(d, c)
    BY <1>14, <2>1, <2>4 DEF Tells, WritesNext
  <2>5. QED
    BY <1>2, <2>1, <2>2, <2>3, <2>4
<1>15. ASSUME NEW x \in Clients, Breaks(x)
       PROVE  Right
  <2>1. x # c
    BY <1>15 DEF Breaks
  <2>2. known'[c] = known[c]
    BY <1>15, <2>1 DEF Breaks, TypeOK
  <2>3. QED
    BY <1>1, <1>5, <1>15, <2>2 DEF Breaks, Stays, Present
<1>16. ASSUME NEW t \in Threads, Moves(t)
       PROVE  Right
  <2>1. /\ c \in (room \cap conn) \ closed
        /\ t = c => pc[c] # "reply"
        /\ queue' = queue /\ known' = known /\ reply' = reply /\ todo' = todo
        /\ stale' = stale
    BY <1>16 DEF Moves
  <2>2. Present(d)
    BY <1>1, <1>16 DEF Moves, Goes, Present
  <2>3. CASE Told(c, d)
    BY <1>3, <2>1, <2>3
  <2>4. CASE Expects(c, d)
    <3>1. pc'[c] = pc[c]
      BY <1>1, <1>16, <2>1, <2>4 DEF Moves, Goes, Expects
    <3>2. QED
      BY <2>1, <2>4, <3>1 DEF Expects
  <2>5. CASE Tells(d, c)
    <3>1. t # d
      BY <1>1, <1>16, <2>5 DEF Moves, Tells
    <3>2. pc'[d] = pc[d] /\ cast'[d] = cast[d]
      BY <1>1, <1>16, <3>1 DEF Moves, Goes, TypeOK
    <3>3. QED
      BY <2>1, <2>5, <3>2 DEF Tells
  <2>6. QED
    BY <1>2, <2>1, <2>2, <2>3, <2>4, <2>5
<1>17. ASSUME NEW t \in Threads, Copies(t)
       PROVE  Right
  <2>1. /\ c \in (room \cap conn) \ closed /\ queue' = queue /\ known' = known
        /\ reply' = reply /\ cast' = cast /\ stale' = stale /\ room' = room
    BY <1>17 DEF Copies
  <2>2. Present(d)
    BY <1>1, <1>17 DEF Copies, Goes, Present
  <2>3. CASE Told(c, d)
    BY <1>3, <2>1, <2>3
  <2>4. CASE Expects(c, d)
    <3>1. pc'[c] = pc[c]
      BY <1>1, <1>17, <2>4 DEF Copies, Goes, Expects
    <3>2. QED
      BY <2>1, <2>4, <3>1 DEF Expects
  <2>5. CASE Tells(d, c)
    <3>1. CASE t = d
      <4>1. cast[d].to = "room"
        BY <2>5 DEF Tells, ToRoom
      <4>2. c \in todo'[d] /\ pc'[d] = "send"
        BY <1>1, <1>17, <2>1, <3>1, <4>1 DEF Copies, Goes, Targets, TypeOK
      <4>3. QED
        BY <2>1, <2>5, <4>2 DEF Tells
    <3>2. CASE t # d
      <4>1. pc'[d] = pc[d] /\ todo'[d] = todo[d]
        BY <1>1, <1>17, <3>2 DEF Copies, Goes, TypeOK
      <4>2. QED
        BY <2>1, <2>5, <4>1 DEF Tells
    <3>3. QED
      BY <3>1, <3>2
  <2>6. QED
    BY <1>2, <2>1, <2>2, <2>3, <2>4, <2>5
<1>18. ASSUME NEW t \in Threads, NEW x \in Clients, Closes(t, x)
       PROVE  Right
  <2>1. x # c
    BY <1>18 DEF Closes
  <2>2. x # d
    BY <1>18 DEF Closes, Present, Ended
  <2>3. /\ pc'[c] = pc[c] /\ pc'[d] = pc[d]
        /\ reply'[c] = reply[c]
    BY <1>1, <1>18, <2>1, <2>2 DEF Closes, Goes, TypeOK
  <2>4. /\ queue'[c] = queue[c] /\ known'[c] = known[c]
        /\ cast'[d] = cast[d] /\ todo'[d] = todo[d] /\ (c \in stale[d] => c \in stale'[d])
    BY <1>1, <1>18, <2>1 DEF Closes, TypeOK
  <2>5. c \in (room \cap conn) \ closed /\ d \in room
    BY <1>18, <2>1, <2>2 DEF Closes, Present
  <2>6. QED
    BY <1>5, <2>3, <2>4, <2>5
<1>19. ASSUME NEW t \in Threads, NEW x \in Clients, Sends(t, x)
       PROVE  Right
  <2>1. /\ pc'[c] = pc[c] /\ pc'[d] = pc[d]
        /\ c \in (room \cap conn) \ closed /\ Present(d)
        /\ known' = known /\ reply' = reply /\ cast' = cast
    BY <1>1, <1>19 DEF Sends, Stays, Present
  <2>2. cast[t].msg \in Messages /\ cast[t].msg # PeerLeft(d)
    <3>1. cast[t].msg \in Messages
      BY <1>19 DEF Sends, TypeOK, Casts
    <3>2. CASE t = Subscriber
      BY <1>19, <3>1, <3>2, MessagesDiffer DEF Sends, Casting, ToChat
    <3>3. CASE t \in Clients
      BY <1>19, <2>1, <3>1, <3>3 DEF Sends, Casting, Present
    <3>4. QED
      BY <3>1, <3>2, <3>3 DEF Threads
  <2>3. /\ x # c => queue'[c] = queue[c]
        /\ \/ Buffers(x, cast[t].msg)
           \/ queue' = queue /\ stale' = [stale EXCEPT ![t] = stale[t] \cup {x}]
    BY <1>19 DEF Sends, Buffers, TypeOK
  <2>4. CASE Told(c, d)
    <3>1. CASE Buffers(x, cast[t].msg)
      BY <1>6, <2>1, <2>2, <2>3, <2>4, <3>1
    <3>2. CASE queue' = queue
      BY <1>3, <2>1, <2>4, <3>2
    <3>3. QED
      BY <2>3, <3>1, <3>2
  <2>5. CASE Expects(c, d)
    BY <2>1, <2>5 DEF Expects
  <2>6. CASE Tells(d, c)
    <3>1. CASE t = d /\ x = c
      <4>1. CASE Buffers(x, cast[t].msg)
        <5>1. queue'[c] = Append(queue[c], cast[d].msg) /\ cast[d].msg = NewPeer(d)
          BY <2>6, <3>1, <4>1 DEF Buffers, TypeOK, Tells, ToRoom
        <5>2. d \in Learn({}, cast[d].msg)
          BY <5>1, WhatIsLearnt
        <5>3. QED
          BY <1>3, <1>4, <2>2, <3>1, <5>1, <5>2, AppendTells
      <4>2. CASE stale' = [stale EXCEPT ![t] = stale[t] \cup {x}]
        <5>1. c \in stale'[d] /\ pc'[d] = "send"
          BY <1>1, <1>19, <2>1, <3>1, <4>2 DEF Sends, TypeOK
        <5>2. QED
          BY <2>1, <2>6, <5>1 DEF Tells
      <4>3. QED
        BY <2>3, <4>1, <4>2
    <3>2. CASE t # d \/ x # c
      <4>1. /\ c \in todo[d] => c \in todo'[d]
            /\ c \in stale[d] => c \in stale'[d]
        BY <1>1, <1>19, <3>2 DEF Sends, TypeOK
      <4>2. QED
        BY <2>1, <2>6, <4>1 DEF Tells
    <3>3. QED
      BY <3>1, <3>2
  <2>7. QED
    BY <1>2, <2>1, <2>4, <2>5, <2>6
<1>20. QED
  BY <1>7, <1>8, <1>9, <1>10, <1>11, <1>12, <1>13, <1>14, <1>15, <1>16, <1>17, <1>18, <1>19
  DEF Effect


-----------------------------------------------------------------------------
IInv ==
  /\ TypeOK /\ InHand /\ Ended
  /\ Fresh /\ Sending /\ Casting /\ Subscribing /\ Dues /\ NoGap
  /\ Meeting

LEMMA InitHolds == Init => IInv
<1> SUFFICES ASSUME Init
             PROVE  IInv
  OBVIOUS
<1> USE ConstantsAssumption DEF ConstantsAssumption
<1>1. TypeOK
  <2>1. <<>> \in Seq(Messages) /\ Len(<<>>) <= Buffer
    OBVIOUS
  <2>2. QED
    BY <2>1 DEF Init, TypeOK, Steps
<1>2. InHand /\ Ended
  BY DEF Init, InHand, Ended, Threads
<1>3. Fresh /\ Sending /\ Casting /\ Subscribing
  BY DEF Init, Fresh, Untouched, Sending, Casting, Subscribing, Threads
<1>4. Dues /\ NoGap /\ Meeting
  BY DEF Init, Dues, NoGap, PendingOf, Meeting, Meets
<1>5. QED
  BY <1>1, <1>2, <1>3, <1>4 DEF IInv

\* The strengthened invariant holds in every reachable state.
THEOREM Inductive == Spec => []IInv
<1>1. IInv /\ [Next]_vars => IInv'
  <2> SUFFICES ASSUME IInv, [Next]_vars
               PROVE  IInv'
    OBVIOUS
  <2>1. /\ TypeOK /\ InHand /\ Ended
        /\ Fresh /\ Sending /\ Casting /\ Subscribing /\ Dues /\ NoGap /\ Meeting
    BY DEF IInv
  <2>2. Effect
    BY <2>1, StepEffect
  <2>3. TypeOK' /\ InHand' /\ Ended'
    BY <2>1, StepKeepsTypes, StepKeepsInHand, StepKeepsEnded
  <2>4. Fresh' /\ Sending' /\ Casting' /\ Subscribing' /\ Dues'
    BY <2>1, <2>2, StepKeepsFresh, StepKeepsSending, StepKeepsCasting, StepKeepsSubscribing,
       StepKeepsDues
  <2>5. NoGap' /\ Meeting'
    BY <2>1, <2>2, StepKeepsNoGap, StepKeepsMeeting
  <2>6. QED
    BY <2>3, <2>4, <2>5 DEF IInv
<1>2. QED
  BY InitHolds, <1>1, PTL DEF Spec

\* Types are correct, and no send buffer is ever filled beyond its capacity.
THEOREM TypeCorrect == Spec => []TypeOK
<1>1. IInv => TypeOK
  BY DEF IInv
<1>2. QED
  BY Inductive, <1>1, PTL

\* When a reader has ended, the hub has forgotten its client, whoever else has
\* unregistered it before and whatever the reader has asked for since.
THEOREM GoneClientsAreForgotten == Spec => []GoneIsForgotten
<1>1. IInv => GoneIsForgotten
  BY DEF IInv, Ended, GoneIsForgotten
<1>2. QED
  BY Inductive, <1>1, PTL

\* However readers, writers, the subscriber and the broadcasts interleave, a
\* connected client is written every event and every chat message broadcast while
\* it was subscribed, those of one sender in order, or is closed; a reader that
\* panics in its broadcast takes back that message alone.
THEOREM EventsArrive == Spec => []NoGap
<1>1. IInv => NoGap
  BY DEF IInv
<1>2. QED
  BY Inductive, <1>1, PTL

\* Two clients in a call room whose readers are idle know of each other, or will
\* read of it, whatever others join, leave or are closed for being too slow.
THEOREM PeersKnowEachOther == Spec => []PeersMeet
<1>1. ASSUME IInv, NEW c \in room \cap (conn \ closed), NEW d \in room \cap (conn \ closed),
             c # d, pc[c] = "idle", pc[d] = "idle"
      PROVE  Told(c, d)
  <2>1. c \in Clients /\ d \in Clients /\ pc[c] = "idle" /\ pc[d] = "idle"
    BY <1>1 DEF IInv, TypeOK
  <2>2. Told(c, d) \/ Expects(c, d) \/ Tells(d, c)
    BY <1>1, <2>1 DEF IInv, Meeting, Meets, Present
  <2>3. QED
    BY <2>1, <2>2 DEF Expects, Tells
<1>2. IInv => PeersMeet
  BY <1>1 DEF PeersMeet
<1>3. QED
  BY Inductive, <1>2, PTL

-----------------------------------------------------------------------------
(* Presence.                                                               *)

\* What is on its way to Redis is recent, and so is what the key holds unless the
\* hub has still to write.
PresenceIInv ==
  /\ PresenceTypeOK
  /\ \A g \in Goroutines : announcing[g] \in recent \cup {Nothing}
  /\ \A d \in Trackers : tracking[d] \in recent \cup {Nothing}
  /\ PresenceIsRecent

LEMMA CountsOfSubsets ==
  ASSUME NEW S \in SUBSET Connections
  PROVE  Cardinality(S) \in Counts
<1>1. IsFiniteSet(S) /\ Cardinality(S) <= Cardinality(Connections)
  BY PresenceAssumption, FS_Subset DEF PresenceAssumption
<1>2. Cardinality(S) \in Nat /\ Cardinality(Connections) \in Nat
  BY <1>1, PresenceAssumption, FS_CardinalityType DEF PresenceAssumption
<1>3. QED
  BY <1>1, <1>2 DEF Counts

LEMMA UpdateTypes ==
  ASSUME PresenceTypeOK, Update
  PROVE  updates' \in 0..MaxUpdates
BY PresenceAssumption DEF PresenceAssumption, PresenceTypeOK, Update

\* A call of the hub: if nothing is on its way, its number is the only one.
LEMMA ChangeKeepsRecent ==
  ASSUME PresenceIInv, NEW g \in Goroutines, NEW S \in SUBSET Connections, Change(g, S)
  PROVE  PresenceIInv'
<1>1. Cardinality(S) \in Counts /\ Cardinality(S) # Nothing
  BY CountsOfSubsets DEF Counts, Nothing
<1>2. updates' \in 0..MaxUpdates
  BY UpdateTypes DEF Change, PresenceIInv
<1>3. PresenceTypeOK'
  BY <1>1, <1>2 DEF Change, PresenceIInv, PresenceTypeOK
<1>4. announcing'[g] = Cardinality(S) /\ \A h \in Goroutines \ {g} : announcing'[h] = announcing[h]
  BY DEF Change, PresenceIInv, PresenceTypeOK
<1>5. ~HubAtRest'
  BY <1>1, <1>4 DEF HubAtRest
<1>6. /\ \A h \in Goroutines : announcing'[h] \in recent' \cup {Nothing}
      /\ \A d \in Trackers : tracking'[d] \in recent' \cup {Nothing}
  BY <1>4 DEF Change, PresenceIInv, AtRest, HubAtRest
<1>7. QED
  BY <1>3, <1>5, <1>6 DEF PresenceIInv, PresenceIsRecent

LEMMA PresenceStep == PresenceIInv /\ [PresenceNext]_presenceVars => PresenceIInv'
<1> SUFFICES ASSUME PresenceIInv, [PresenceNext]_presenceVars
             PROVE  PresenceIInv'
  OBVIOUS
<1>0. PresenceTypeOK
  BY DEF PresenceIInv
<1>1. ASSUME NEW c \in Connections, RegisterConnection(c)
      PROVE  PresenceIInv'
  BY <1>0, <1>1, ChangeKeepsRecent DEF RegisterConnection, PresenceTypeOK, Goroutines
<1>2. ASSUME NEW g \in Goroutines, NEW c \in Connections, UnregisterConnection(g, c)
      PROVE  PresenceIInv'
  BY <1>0, <1>2, ChangeKeepsRecent DEF UnregisterConnection, PresenceTypeOK
<1>3. ASSUME NEW g \in Goroutines, WriteCount(g) \/ WriteFails(g)
      PROVE  PresenceIInv'
  <2>1. /\ announcing[g] \in recent
        /\ \A h \in Goroutines : announcing'[h] \in {announcing[h], Nothing}
        /\ recent \subseteq recent' /\ recent' \subseteq Counts
        /\ held' \in recent' \cup {Nothing}
    BY <1>0, <1>3 DEF WriteCount, WriteFails, Returns, Keeps, PresenceIInv, PresenceTypeOK
  <2>2. PresenceTypeOK'
    BY <1>0, <1>3, <2>1
       DEF WriteCount, WriteFails, Returns, PresenceTypeOK
  <2>3. tracking' = tracking
    BY <1>3 DEF WriteCount, WriteFails, Returns
  <2>4. QED
    BY <2>1, <2>2, <2>3 DEF PresenceIInv, PresenceIsRecent
<1>4. CASE HubRestarts
  <2>1. updates' \in 0..MaxUpdates
    BY <1>0, <1>4, UpdateTypes DEF HubRestarts
  <2>2. PresenceTypeOK'
    BY <1>0, <1>4, <2>1 DEF HubRestarts, Keeps, PresenceTypeOK
  <2>3. QED
    BY <1>0, <1>4, <2>2 DEF HubRestarts, Keeps, PresenceIInv, PresenceIsRecent, PresenceTypeOK
<1>5. ASSUME NEW d \in Trackers, ReadCount(d)
      PROVE  PresenceIInv'
  <2>1. updates' \in 0..MaxUpdates
    BY <1>0, <1>5, UpdateTypes DEF ReadCount
  <2>2. tracking'[d] \in Counts
    <3>1. 0 \in Counts
      BY CountsOfSubsets, FS_EmptySet
    <3>2. QED
      BY <1>0, <1>5, <3>1 DEF ReadCount, PresenceTypeOK
  <2>3. PresenceTypeOK'
    BY <1>0, <1>5, <2>1, <2>2 DEF ReadCount, PresenceTypeOK
  <2>4. \A e \in Trackers : tracking'[e] \in recent' \cup {Nothing}
    BY <1>0, <1>5 DEF ReadCount, PresenceIInv, PresenceTypeOK
  <2>5. QED
    BY <1>5, <2>3, <2>4 DEF ReadCount, PresenceIInv, PresenceIsRecent, HubAtRest
<1>6. ASSUME NEW d \in Trackers, WriteBack(d)
      PROVE  PresenceIInv'
  <2>1. /\ tracking[d] \in recent
        /\ \A e \in Trackers : tracking'[e] \in {tracking[e], Nothing}
        /\ held' \in {held, tracking[d]}
    BY <1>0, <1>6 DEF WriteBack, PresenceIInv, PresenceTypeOK
  <2>2. PresenceTypeOK'
    BY <1>0, <1>6 DEF WriteBack, PresenceTypeOK
  <2>3. QED
    BY <1>6, <2>1, <2>2 DEF WriteBack, PresenceIInv, PresenceIsRecent, HubAtRest
<1>7. CASE KeyExpires
  BY <1>7 DEF KeyExpires, PresenceIInv, PresenceTypeOK, PresenceIsRecent, HubAtRest
<1>8. CASE UNCHANGED presenceVars
  BY <1>8 DEF presenceVars, PresenceIInv, PresenceTypeOK, PresenceIsRecent, HubAtRest
<1>9. QED
  BY <1>1, <1>2, <1>3, <1>4, <1>5, <1>6, <1>7, <1>8 DEF PresenceNext

\* Whatever calls of the hub, tracked requests, failed writes, restarts and expiry
\* overlap, the key never holds a count older than PresenceIsRecent allows.
THEOREM PresenceStaysRecent == PresenceSpec => []PresenceIsRecent
<1>1. PresenceInit => PresenceIInv
  BY PresenceAssumption DEF PresenceAssumption, PresenceInit, PresenceIInv, PresenceTypeOK, PresenceIsRecent
<1>2. PresenceIInv => PresenceIsRecent
  BY DEF PresenceIInv
<1>3. QED
  BY <1>1, <1>2, PresenceStep, PTL DEF PresenceSpec
=============================================================================
