----------------------- MODULE ChatAndMessages_proofs -----------------------
(***************************************************************************)
(* Proofs about Messages for every finite set of messages and any readers, *)
(* handlers and savers, and about DirectChat for every finite set of users *)
(* and bots and any threads.  The two share no row; they stand in one      *)
(* module as what is in a chat and who may write to it.                    *)
(***************************************************************************)
EXTENDS Messages, DirectChat, FiniteSetTheorems, TLAPS

-----------------------------------------------------------------------------
\* A message that is not stored has left no trace.
Begun ==
  /\ \A p \in Posts : message[p].at = 0 =>
       /\ ~message[p].deleted
       /\ \A r \in Readers : receipt[p][r] = {}
       /\ \A h \in Handlers : ~Serves(h, "post", "parts", p) /\ ~Serves(h, "post", "receipts", p)
       /\ \A h \in Handlers : ~Serves(h, "edit", "save", p) /\ ~Serves(h, "delete", "save", p)
       /\ \A x \in Entries : x[1] = p => entry[x] = "unsent"
  /\ \A s \in Savers, x \in Entries : saver[s].entry = {x} => entry[x] # "unsent"

\* What a saver read is still there, and what it did is recorded.
SaversRight ==
  \A s \in Savers, x \in Entries : saver[s].entry = {x} =>
    /\ saver[s].pc \in {"save", "commit"} => saver[s].seen \subseteq receipt[x[1]][x[2]]
    /\ saver[s].pc = "ack" => Recorded(x) \/ x \in dead

\* An edit read a message that was not deleted.
EditsRight == \A h \in Handlers : request[h].op = "edit" => ~request[h].seen.deleted

\* What is read is delivered.
Delivered == \A p \in Posts, r \in Readers :
               "read" \in receipt[p][r] => "delivered" \in receipt[p][r]

\* The request that creates a message owes its receipts, until all are there.
Complete(p) == p \in parts /\ \A r \in owed[p] : receipt[p][r] # {}
Underway(p) == \E h \in Handlers :
                 \/ Serves(h, "post", "parts", p)
                 \/ /\ Serves(h, "post", "receipts", p)
                    /\ p \in parts /\ owed[p] \subseteq request[h].plan
Owing == /\ \A p \in Posts : owed[p] \subseteq member
         /\ \A p \in Stored : p \in lame \/ Underway(p) \/ Complete(p)

IInv == /\ MessagesTypeOK /\ Begun /\ SaversRight /\ EditsRight /\ Delivered /\ Owing
        /\ NoLostStatus

-----------------------------------------------------------------------------
(* Types *)

LEMMA EntryParts ==
  ASSUME NEW x \in Entries
  PROVE  x[1] \in Posts /\ x[2] \in Readers /\ x[3] \in Events /\ x = <<x[1], x[2], x[3]>>
BY DEF Entries

LEMMA Positions == NextPosition \in Nat /\ NextPosition # 0
<1>1. IsFiniteSet(Stored)
  BY PostsAssumption, FS_Subset DEF Stored, PostsAssumption
<1>2. Cardinality(Stored) \in Nat
  BY <1>1, FS_CardinalityType
<1>3. QED
  BY <1>2 DEF NextPosition

LEMMA AtTypes ==
  ASSUME MessagesTypeOK
  PROVE  \A p \in Posts : message[p].at = 0 \/ message[p].at > 0
BY DEF MessagesTypeOK, Message

LEMMA StepKeepsTypes ==
  ASSUME MessagesTypeOK, [MessagesNext]_messageVars
  PROVE  MessagesTypeOK'
<1> USE DEF MessagesTypeOK
<1>1. Unasked \in Request /\ Waiting \in Saver /\ NotStored \in Message
  BY DEF Unasked, Waiting, NotStored, Request, Saver, Message, Texts
<1>2. ASSUME NEW h \in Handlers, NEW op \in {"post", "edit", "delete"},
             NEW pc \in {"insert", "save"}, NEW p \in Posts, Ask(h, op, pc, p)
      PROVE  request' \in [Handlers -> Request] /\ asked' \in Nat
  <2>1. [op |-> op, pc |-> pc, post |-> {p}, seen |-> message[p], plan |-> {}] \in Request
    BY DEF Request
  <2>2. QED
    BY <1>2, <2>1 DEF Ask, Once
<1>3. ASSUME NEW h \in Handlers, NEW p \in Posts, HandlerStep(h, p)
      PROVE  MessagesTypeOK'
  <2>1. CASE BeginPost(h, p)
    BY <1>2, <2>1 DEF BeginPost, Ask, statusVars
  <2>2. CASE BeginEdit(h, p)
    BY <1>2, <2>2 DEF BeginEdit, Ask, statusVars
  <2>3. CASE BeginDeleteMessage(h, p)
    BY <1>2, <2>3 DEF BeginDeleteMessage, Ask, statusVars
  <2>4. CASE InsertMessage(h, p)
    <3>1. [at |-> NextPosition, text |-> "first", deleted |-> FALSE] \in Message
      BY Positions DEF Message, Texts
    <3>2. [request[h] EXCEPT !.pc = "parts"] \in Request
      BY DEF Request
    <3>3. request' \in [Handlers -> Request] /\ message' \in [Posts -> Message]
      BY <1>1, <2>4, <3>1, <3>2 DEF InsertMessage, Answer
    <3>4. owed' \in [Posts -> SUBSET Readers]
      BY <2>4 DEF InsertMessage
    <3>5. QED
      BY <2>4, <3>3, <3>4 DEF InsertMessage, statusVars
  <2>5. CASE InsertParts(h, p)
    <3>1. [request[h] EXCEPT !.pc = "receipts", !.plan = member] \in Request
      BY DEF Request
    <3>2. QED
      BY <2>5, <3>1 DEF InsertParts, statusVars
  <2>6. CASE InsertReceipts(h, p)
    <3>1. request[h].plan \subseteq Readers
      BY DEF Request
    <3>2. \A r \in Readers : receipt[p][r] \cup {"row"} \in SUBSET Columns
      BY DEF Columns
    <3>3. [r \in Readers |-> IF r \in request[h].plan THEN receipt[p][r] \cup {"row"}
                             ELSE receipt[p][r]] \in [Readers -> SUBSET Columns]
      BY <3>2
    <3>4. QED
      BY <1>1, <2>6, <3>3 DEF InsertReceipts, Answer, statusVars
  <2>7. CASE SaveEdit(h, p)
    <3>1. [message[p] EXCEPT !.text = "new"] \in Message
      BY DEF Message, Texts
    <3>2. QED
      BY <1>1, <2>7, <3>1 DEF SaveEdit, Answer, statusVars
  <2>8. CASE SaveDeleteMessage(h, p)
    <3>1. [message[p] EXCEPT !.deleted = TRUE, !.text = ""] \in Message
      BY DEF Message, Texts
    <3>2. QED
      BY <1>1, <2>8, <3>1 DEF SaveDeleteMessage, Answer, statusVars
  <2>9. QED
    BY <1>3, <2>1, <2>2, <2>3, <2>4, <2>5, <2>6, <2>7, <2>8 DEF HandlerStep
<1>4. ASSUME NEW h \in Handlers, HandlerDies(h)
      PROVE  MessagesTypeOK'
  <2>1. request[h].post \subseteq Posts
    BY DEF Request
  <2>2. QED
    BY <1>1, <1>4, <2>1 DEF HandlerDies, Answer, statusVars
<1>5. ASSUME NEW p \in Posts, SaveFromStream(p)
      PROVE  MessagesTypeOK'
  <2>1. [at |-> NextPosition, text |-> "first", deleted |-> FALSE] \in Message
    BY Positions DEF Message, Texts
  <2>2. [r \in Readers |-> IF r \in member THEN {"row"} ELSE {}] \in [Readers -> SUBSET Columns]
    BY DEF Columns
  <2>3. QED
    BY <1>5, <2>1, <2>2 DEF SaveFromStream, statusVars
<1>6. ASSUME NEW P, NEW r \in Readers, NEW columns \in SUBSET Columns, Fill(P, r, columns)
      PROVE  receipt' \in [Posts -> [Readers -> SUBSET Columns]]
  <2>1. \A p \in Posts : [receipt[p] EXCEPT ![r] = receipt[p][r] \cup columns]
                           \in [Readers -> SUBSET Columns]
    OBVIOUS
  <2>2. QED
    BY <1>6, <2>1 DEF Fill
<1>7. ASSUME NEW r \in Readers,
             MarkDelivered(r) \/ Move(r) \/ \E p \in Posts : MarkRead(r, p)
      PROVE  MessagesTypeOK'
  <2>1. {"delivered"} \in SUBSET Columns /\ {"delivered", "read"} \in SUBSET Columns
    BY DEF Columns
  <2>2. CASE MarkDelivered(r) \/ \E p \in Posts : MarkRead(r, p)
    <3>1. receipt' \in [Posts -> [Readers -> SUBSET Columns]]
      BY <1>6, <2>1, <2>2 DEF MarkDelivered, MarkRead
    <3>2. QED
      BY <2>2, <3>1 DEF MarkDelivered, MarkRead, restVars, statusVars
  <2>3. CASE Move(r)
    BY <2>3 DEF Move, Once, statusVars
  <2>4. QED
    BY <1>7, <2>2, <2>3
<1>8. ASSUME NEW x \in Entries, PublishStatus(x)
      PROVE  MessagesTypeOK'
  BY <1>8 DEF PublishStatus, Once
<1>9. ASSUME NEW s \in Savers, NEW k \in Saver, saver' = [saver EXCEPT ![s] = k]
      PROVE  saver' \in [Savers -> Saver]
  BY <1>9
<1>10. ASSUME NEW s \in Savers, NEW pc \in {"save", "commit", "ack"}, NEW columns \in SUBSET Columns
       PROVE  /\ [saver[s] EXCEPT !.pc = pc] \in Saver
              /\ [saver[s] EXCEPT !.seen = columns, !.pc = pc] \in Saver
  BY DEF Saver
<1>11. ASSUME NEW s \in Savers, NEW x \in Entries, SaverStep(s, x)
       PROVE  MessagesTypeOK'
  <2>1. CASE TakeEntry(s, x)
    <3>1. [entry |-> {x}, seen |-> {}, pc |-> IF x[2] \in member THEN "receipt" ELSE "dead"]
            \in Saver
      BY DEF Saver
    <3>2. QED
      BY <1>9, <2>1, <3>1 DEF TakeEntry, restVars
  <2>2. CASE MoveToDlq(s, x)
    BY <1>9, <1>10, <2>2 DEF MoveToDlq, restVars, Columns
  <2>3. CASE ReadReceipt(s, x)
    <3>1. receipt[x[1]][x[2]] \in SUBSET Columns
      BY EntryParts
    <3>2. QED
      BY <1>9, <1>10, <2>3, <3>1 DEF ReadReceipt, restVars
  <2>4. CASE Announce(s, x)
    BY <1>9, <1>10, <2>4 DEF Announce, restVars, Columns
  <2>5. CASE CommitStatus(s, x)
    <3>1. \A c \in SUBSET Columns : c \cup {"row"} \cup Fills(x[3]) \in SUBSET Columns
      BY DEF Columns, Fills
    <3>2. receipt' \in [Posts -> [Readers -> SUBSET Columns]]
      BY <2>5, <3>1, EntryParts DEF CommitStatus
    <3>3. saver' \in [Savers -> Saver]
      BY <1>9, <1>10, <2>5 DEF CommitStatus, Columns
    <3>4. QED
      BY <2>5, <3>2, <3>3 DEF CommitStatus, restVars
  <2>6. CASE Acknowledge(s, x)
    BY <1>1, <2>6 DEF Acknowledge, restVars
  <2>7. QED
    BY <1>11, <2>1, <2>2, <2>3, <2>4, <2>5, <2>6 DEF SaverStep
<1>12. ASSUME NEW s \in Savers, SaverDies(s)
       PROVE  MessagesTypeOK'
  BY <1>1, <1>12 DEF SaverDies, restVars
<1>13. CASE UNCHANGED messageVars
  BY <1>13 DEF messageVars, restVars, statusVars
<1>14. QED
  BY <1>3, <1>4, <1>5, <1>7, <1>8, <1>11, <1>12, <1>13 DEF MessagesNext

-----------------------------------------------------------------------------
(* What a step leaves of receipts, messages and entries *)

Grows(p, r) == /\ receipt[p][r] \subseteq receipt'[p][r]
               /\ "read" \in receipt'[p][r] => "delivered" \in receipt'[p][r]

\* Receipts are only filled.
LEMMA ReceiptsGrow ==
  ASSUME MessagesTypeOK, Begun, Delivered, [MessagesNext]_messageVars
  PROVE  \A p \in Posts, r \in Readers : Grows(p, r)
<1> SUFFICES ASSUME NEW q \in Posts, NEW r \in Readers
             PROVE  Grows(q, r)
  OBVIOUS
<1> USE DEF MessagesTypeOK
<1>1. ASSUME UNCHANGED receipt
      PROVE  Grows(q, r)
  BY <1>1 DEF Grows, Delivered
<1>2. ASSUME NEW columns, receipt'[q][r] = receipt[q][r] \cup columns,
             "read" \in columns => "delivered" \in columns
      PROVE  Grows(q, r)
  BY <1>2 DEF Grows, Delivered
<1>3. ASSUME NEW h \in Handlers, NEW p \in Posts, InsertReceipts(h, p)
      PROVE  Grows(q, r)
  <2>1. receipt'[q][r] = receipt[q][r] \/ receipt'[q][r] = receipt[q][r] \cup {"row"}
    BY <1>3 DEF InsertReceipts
  <2>2. QED
    BY <1>2, <2>1 DEF Grows, Delivered
<1>4. ASSUME NEW p \in Posts, SaveFromStream(p)
      PROVE  Grows(q, r)
  <2>1. receipt'[q][r] \in {receipt[q][r], {"row"}, {}} /\ (q # p => receipt'[q][r] = receipt[q][r])
    BY <1>4 DEF SaveFromStream
  <2>2. q = p => receipt[q][r] = {}
    BY <1>4 DEF SaveFromStream, Begun
  <2>3. QED
    BY <2>1, <2>2 DEF Grows, Delivered
<1>5. ASSUME NEW P, NEW u \in Readers, NEW columns, Fill(P, u, columns),
             "read" \in columns => "delivered" \in columns
      PROVE  Grows(q, r)
  <2>1. receipt'[q][r] = receipt[q][r] \/ receipt'[q][r] = receipt[q][r] \cup columns
    BY <1>5 DEF Fill
  <2>2. QED
    BY <1>2, <1>5, <2>1 DEF Grows, Delivered
<1>6. ASSUME NEW s \in Savers, NEW x \in Entries, CommitStatus(s, x)
      PROVE  Grows(q, r)
  <2>1. \/ receipt'[q][r] = receipt[q][r]
        \/ receipt'[q][r] = receipt[q][r] \cup ({"row"} \cup Fills(x[3]))
    BY <1>6, EntryParts DEF CommitStatus
  <2>2. QED
    BY <1>2, <2>1 DEF Fills, Grows, Delivered
<1>7. ASSUME NEW u \in Readers, MarkDelivered(u) \/ \E p \in Posts : MarkRead(u, p)
      PROVE  Grows(q, r)
  <2>1. CASE MarkDelivered(u)
    BY <1>5, <2>1 DEF MarkDelivered
  <2>2. CASE \E p \in Posts : MarkRead(u, p)
    BY <1>5, <2>2 DEF MarkRead
  <2>3. QED
    BY <1>7, <2>1, <2>2
<1>8. ASSUME NEW h \in Handlers, NEW p \in Posts, HandlerStep(h, p)
      PROVE  Grows(q, r)
  BY <1>1, <1>3, <1>8
     DEF HandlerStep, BeginPost, InsertMessage, InsertParts, BeginEdit, SaveEdit,
         BeginDeleteMessage, SaveDeleteMessage
<1>9. ASSUME NEW s \in Savers, NEW x \in Entries, SaverStep(s, x)
      PROVE  Grows(q, r)
  BY <1>1, <1>6, <1>9
     DEF SaverStep, TakeEntry, MoveToDlq, ReadReceipt, Announce, Acknowledge
<1>10. CASE \/ \E h \in Handlers : HandlerDies(h)
            \/ \E s \in Savers : SaverDies(s)
            \/ \E x \in Entries : PublishStatus(x)
            \/ \E u \in Readers : Move(u)
            \/ UNCHANGED messageVars
  BY <1>1, <1>10 DEF HandlerDies, SaverDies, PublishStatus, Move, messageVars
<1>11. QED
  BY <1>4, <1>7, <1>8, <1>9, <1>10 DEF MessagesNext

\* A message that is stored stays stored where it is; a deleted one stays
\* deleted, and only an edit that read it before gives it a text.
LEMMA MessagesStay ==
  ASSUME MessagesTypeOK, Begun, EditsRight, [MessagesNext]_messageVars, NEW q \in Posts
  PROVE  /\ message[q].at > 0 => message'[q].at = message[q].at
         /\ message[q].at = 0 /\ message'[q].at = 0 => message'[q] = message[q]
         /\ message[q].deleted =>
              /\ message'[q].deleted
              /\ \/ message'[q].text \in {message[q].text, ""}
                 \/ \E h \in Handlers : /\ Serves(h, "edit", "save", q)
                                        /\ ~request[h].seen.deleted
                                        /\ request'[h] = Unasked
<1> DEFINE Stays ==
      /\ message[q].at > 0 => message'[q].at = message[q].at
      /\ message[q].at = 0 /\ message'[q].at = 0 => message'[q] = message[q]
      /\ message[q].deleted =>
           /\ message'[q].deleted
           /\ \/ message'[q].text \in {message[q].text, ""}
              \/ \E h \in Handlers : /\ Serves(h, "edit", "save", q)
                                     /\ ~request[h].seen.deleted
                                     /\ request'[h] = Unasked
<1> USE DEF MessagesTypeOK
<1>1. message[q] \in Message
  OBVIOUS
<1>2. ASSUME message'[q] = message[q]
      PROVE  Stays
  BY <1>2
<1>3. ASSUME NEW p \in Posts, message[p].at = 0,
             message' = [message EXCEPT ![p] = [at |-> NextPosition, text |-> "first",
                                                deleted |-> FALSE]]
      PROVE  Stays
  <2>1. CASE p = q
    <3>1. ~message[q].deleted /\ message'[q].at # 0
      BY <1>3, <2>1, Positions DEF Begun
    <3>2. QED
      BY <1>3, <2>1, <3>1
  <2>2. CASE p # q
    BY <1>2, <1>3, <2>2
  <2>3. QED
    BY <2>1, <2>2
<1>4. ASSUME NEW h \in Handlers, NEW p \in Posts, InsertMessage(h, p)
      PROVE  Stays
  <2>1. CASE message[p].at > 0
    BY <1>2, <1>4, <2>1 DEF InsertMessage
  <2>2. CASE message[p].at = 0
    <3>1. message' = [message EXCEPT ![p] = [at |-> NextPosition, text |-> "first",
                                             deleted |-> FALSE]]
      BY <1>4, <2>2 DEF InsertMessage
    <3>2. QED
      BY <1>3, <2>2, <3>1
  <2>3. QED
    BY <2>1, <2>2, AtTypes
<1>5. ASSUME NEW p \in Posts, SaveFromStream(p)
      PROVE  Stays
  BY <1>3, <1>5 DEF SaveFromStream
<1>6. ASSUME NEW h \in Handlers, NEW p \in Posts, SaveEdit(h, p)
      PROVE  Stays
  <2>1. CASE q = p /\ message'[q] # message[q]
    <3>1. message'[q] = [message[q] EXCEPT !.text = "new"]
      BY <1>6, <2>1 DEF SaveEdit
    <3>2. message'[q].at = message[q].at /\ message'[q].deleted = message[q].deleted
      BY <1>1, <3>1 DEF Message
    <3>3. Serves(h, "edit", "save", q) /\ request'[h] = Unasked
      BY <1>6, <2>1 DEF SaveEdit, Answer
    <3>4. ~request[h].seen.deleted
      BY <3>3 DEF EditsRight, Serves
    <3>5. message[q].at # 0
      BY <3>3 DEF Begun
    <3>6. QED
      BY <3>2, <3>3, <3>4, <3>5
  <2>2. CASE message'[q] = message[q]
    BY <1>2, <2>2
  <2>3. QED
    BY <1>6, <2>1, <2>2 DEF SaveEdit
<1>7. ASSUME NEW h \in Handlers, NEW p \in Posts, SaveDeleteMessage(h, p)
      PROVE  Stays
  <2>1. CASE q = p /\ message'[q] # message[q]
    <3>1. message'[q] = [message[q] EXCEPT !.deleted = TRUE, !.text = ""]
      BY <1>7, <2>1 DEF SaveDeleteMessage
    <3>2. message'[q].at = message[q].at /\ message'[q].deleted /\ message'[q].text = ""
      BY <1>1, <3>1 DEF Message
    <3>3. message[q].at # 0
      BY <1>7, <2>1 DEF SaveDeleteMessage, Begun
    <3>4. QED
      BY <3>2, <3>3
  <2>2. CASE message'[q] = message[q]
    BY <1>2, <2>2
  <2>3. QED
    BY <1>7, <2>1, <2>2 DEF SaveDeleteMessage
<1>8. ASSUME NEW h \in Handlers, NEW p \in Posts, HandlerStep(h, p)
      PROVE  Stays
  <2>1. CASE BeginPost(h, p) \/ BeginEdit(h, p) \/ BeginDeleteMessage(h, p)
    BY <1>2, <2>1 DEF BeginPost, BeginEdit, BeginDeleteMessage, Ask
  <2>2. CASE InsertParts(h, p) \/ InsertReceipts(h, p)
    BY <1>2, <2>2 DEF InsertParts, InsertReceipts
  <2>3. QED
    BY <1>4, <1>6, <1>7, <1>8, <2>1, <2>2 DEF HandlerStep
<1>9. CASE \/ \E h \in Handlers : HandlerDies(h)
           \/ \E s \in Savers : SaverDies(s) \/ \E x \in Entries : SaverStep(s, x)
           \/ \E x \in Entries : PublishStatus(x)
           \/ \E u \in Readers : MarkDelivered(u) \/ Move(u) \/ \E p \in Posts : MarkRead(u, p)
           \/ UNCHANGED messageVars
  BY <1>2, <1>9 DEF HandlerDies, SaverDies, SaverStep, TakeEntry, MoveToDlq, ReadReceipt,
                    Announce, CommitStatus, Acknowledge, PublishStatus, MarkDelivered, Move,
                    MarkRead, restVars, messageVars
<1>10. QED
  BY <1>5, <1>8, <1>9 DEF MessagesNext

-----------------------------------------------------------------------------
(* The inductive invariant *)

LEMMA StepKeepsBegun ==
  ASSUME MessagesTypeOK, Begun, EditsRight, [MessagesNext]_messageVars
  PROVE  Begun'
<1> USE DEF MessagesTypeOK
<1> DEFINE Served(p) == \E h \in Handlers : \/ Serves(h, "post", "parts", p)
                                            \/ Serves(h, "post", "receipts", p)
                                            \/ Serves(h, "edit", "save", p)
                                            \/ Serves(h, "delete", "save", p)
<1>1. \A p \in Posts : message'[p].at = 0 => message[p].at = 0 /\ message'[p] = message[p]
  <2>1. ASSUME NEW p \in Posts, message'[p].at = 0
        PROVE  message[p].at = 0 /\ message'[p] = message[p]
    <3>1. message[p].at = 0 \/ message[p].at > 0
      BY AtTypes
    <3>2. message[p].at > 0 => message'[p].at = message[p].at
      BY MessagesStay
    <3>3. message[p].at = 0
      BY <2>1, <3>1, <3>2
    <3>4. QED
      BY <2>1, <3>3, MessagesStay
  <2>2. QED
    BY <2>1
<1>2. \A p \in Posts : message[p].at = 0 =>
        /\ ~message[p].deleted /\ ~Served(p)
        /\ \A r \in Readers : receipt[p][r] = {}
        /\ \A x \in Entries : x[1] = p => entry[x] = "unsent"
  BY DEF Begun
<1>3. ASSUME NEW q \in Posts, message'[q].at = 0
      PROVE  ~Served(q)'
  <2>1. message[q].at = 0 /\ ~Served(q)
    BY <1>1, <1>2, <1>3
  <2> HIDE DEF Served
  <2>2. ASSUME NEW h \in Handlers, NEW k, request' = [request EXCEPT ![h] = k],
               ~(k.post = {q} /\ k.pc \in {"parts", "receipts", "save"})
        PROVE  ~Served(q)'
    BY <2>1, <2>2 DEF Served, Serves
  <2>3. ASSUME NEW h \in Handlers, Answer(h)
        PROVE  ~Served(q)'
    BY <2>2, <2>3 DEF Answer, Unasked
  <2>4. ASSUME NEW h \in Handlers, NEW p \in Posts, NEW op, NEW pc, Ask(h, op, pc, p),
               p = q => pc = "insert"
        PROVE  ~Served(q)'
    BY <2>2, <2>4 DEF Ask
  <2>5. ASSUME NEW h \in Handlers, NEW p \in Posts, HandlerStep(h, p)
        PROVE  ~Served(q)'
    <3>1. request[h] \in Request
      OBVIOUS
    <3>2. CASE BeginPost(h, p) \/ BeginEdit(h, p) \/ BeginDeleteMessage(h, p)
      BY <2>1, <2>4, <3>2 DEF BeginPost, BeginEdit, Editable, BeginDeleteMessage, Stored
    <3>3. CASE InsertMessage(h, p)
      <4>1. CASE message[p].at > 0
        BY <2>3, <3>3, <4>1 DEF InsertMessage
      <4>2. CASE message[p].at = 0
        <5>1. /\ message'[p].at = NextPosition
              /\ request' = [request EXCEPT ![h].pc = "parts"]
          BY <3>3, <4>2 DEF InsertMessage
        <5>2. p # q
          BY <1>3, <5>1, Positions
        <5>3. [request[h] EXCEPT !.pc = "parts"].post = {p}
          BY <3>1, <3>3 DEF InsertMessage, Serves, Request
        <5>4. QED
          BY <2>2, <5>1, <5>2, <5>3
      <4>3. QED
        BY <4>1, <4>2, AtTypes
    <3>4. CASE InsertParts(h, p)
      <4>1. p # q /\ request[h].post = {p}
        BY <2>1, <3>4 DEF InsertParts, Serves, Served
      <4> DEFINE k == [request[h] EXCEPT !.pc = "receipts", !.plan = member]
      <4>2. k.post = {p}
        BY <3>1, <4>1 DEF Request
      <4>3. request' = [request EXCEPT ![h] = k]
        BY <3>4 DEF InsertParts
      <4> HIDE DEF k
      <4>4. QED
        BY <2>2, <4>1, <4>2, <4>3
    <3>5. CASE InsertReceipts(h, p) \/ SaveEdit(h, p) \/ SaveDeleteMessage(h, p)
      BY <2>3, <3>5 DEF InsertReceipts, SaveEdit, SaveDeleteMessage
    <3>6. QED
      BY <2>5, <3>2, <3>3, <3>4, <3>5 DEF HandlerStep
  <2>6. CASE UNCHANGED request
    BY <2>1, <2>6 DEF Served, Serves
  <2>7. CASE \E h \in Handlers : HandlerDies(h)
    BY <2>3, <2>7 DEF HandlerDies
  <2>8. QED
    BY <2>5, <2>6, <2>7
       DEF MessagesNext, SaverDies, SaverStep, TakeEntry, MoveToDlq, ReadReceipt, Announce,
           CommitStatus, Acknowledge, PublishStatus, MarkDelivered, Move, MarkRead,
           SaveFromStream, restVars, messageVars
<1>4. ASSUME NEW q \in Posts, message'[q].at = 0, NEW r \in Readers
      PROVE  receipt'[q][r] = {}
  <2>1. message[q].at = 0 /\ ~Served(q) /\ receipt[q][r] = {}
    BY <1>1, <1>2, <1>4
  <2>2. CASE UNCHANGED receipt
    BY <2>1, <2>2
  <2>3. ASSUME NEW h \in Handlers, NEW p \in Posts, InsertReceipts(h, p)
        PROVE  receipt'[q][r] = {}
    <3>1. p # q
      BY <2>1, <2>3 DEF InsertReceipts
    <3>2. QED
      BY <2>1, <2>3, <3>1 DEF InsertReceipts
  <2>4. ASSUME NEW p \in Posts, SaveFromStream(p)
        PROVE  receipt'[q][r] = {}
    <3>1. message'[p].at = NextPosition
      BY <2>4 DEF SaveFromStream
    <3>2. p # q
      BY <1>4, <3>1, Positions
    <3>3. QED
      BY <2>1, <2>4, <3>2 DEF SaveFromStream
  <2>5. ASSUME NEW P, NEW u \in Readers, NEW columns, Fill(P, u, columns)
        PROVE  receipt'[q][r] = {}
    BY <2>1, <2>5 DEF Fill
  <2>6. ASSUME NEW s \in Savers, NEW x \in Entries, CommitStatus(s, x)
        PROVE  receipt'[q][r] = {}
    <3>1. x[1] # q
      BY <1>2, <2>1, <2>6 DEF CommitStatus, Works, Begun
    <3>2. QED
      BY <2>1, <2>6, <3>1, EntryParts DEF CommitStatus
  <2>7. ASSUME NEW h \in Handlers, NEW p \in Posts, HandlerStep(h, p)
        PROVE  receipt'[q][r] = {}
    BY <2>2, <2>3, <2>7
       DEF HandlerStep, BeginPost, InsertMessage, InsertParts, BeginEdit, SaveEdit,
           BeginDeleteMessage, SaveDeleteMessage
  <2>8. ASSUME NEW s \in Savers, NEW x \in Entries, SaverStep(s, x)
        PROVE  receipt'[q][r] = {}
    BY <2>2, <2>6, <2>8 DEF SaverStep, TakeEntry, MoveToDlq, ReadReceipt, Announce, Acknowledge
  <2>9. ASSUME NEW u \in Readers, MarkDelivered(u) \/ \E p \in Posts : MarkRead(u, p)
        PROVE  receipt'[q][r] = {}
    BY <2>5, <2>9 DEF MarkDelivered, MarkRead
  <2>10. QED
    BY <2>2, <2>4, <2>7, <2>8, <2>9
       DEF MessagesNext, HandlerDies, SaverDies, PublishStatus, Move, messageVars
<1>5. ASSUME NEW x \in Entries
      PROVE  /\ entry[x] # "unsent" => entry'[x] # "unsent"
             /\ entry'[x] # "unsent" => entry[x] # "unsent" \/ message[x[1]].at # 0
  <2>1. CASE UNCHANGED entry
    BY <2>1
  <2>2. ASSUME NEW y \in Entries, PublishStatus(y)
        PROVE  /\ entry[x] # "unsent" => entry'[x] # "unsent"
               /\ entry'[x] # "unsent" => entry[x] # "unsent" \/ message[x[1]].at # 0
    BY <2>2 DEF PublishStatus, Stored
  <2>3. ASSUME NEW s \in Savers, NEW y \in Entries, Acknowledge(s, y)
        PROVE  /\ entry[x] # "unsent" => entry'[x] # "unsent"
               /\ entry'[x] # "unsent" => entry[x] # "unsent" \/ message[x[1]].at # 0
    <3>1. entry[y] # "unsent"
      BY <2>3 DEF Acknowledge, Works, Begun
    <3>2. QED
      BY <2>3, <3>1 DEF Acknowledge
  <2>4. \A h \in Handlers, p \in Posts : HandlerStep(h, p) => UNCHANGED entry
    BY DEF HandlerStep, BeginPost, InsertMessage, InsertParts, InsertReceipts, BeginEdit, Editable,
           SaveEdit, BeginDeleteMessage, SaveDeleteMessage, statusVars
  <2>5. \A s \in Savers, y \in Entries :
          SaverStep(s, y) => Acknowledge(s, y) \/ UNCHANGED entry
    BY DEF SaverStep, TakeEntry, MoveToDlq, ReadReceipt, Announce, CommitStatus
  <2>6. QED
    BY <2>1, <2>2, <2>3, <2>4, <2>5
       DEF MessagesNext, HandlerDies, SaverDies, MarkDelivered, Move, MarkRead, SaveFromStream,
           statusVars, messageVars
<1>6. ASSUME NEW s \in Savers, NEW x \in Entries, saver'[s].entry = {x}
      PROVE  saver[s].entry = {x} \/ entry[x] = "queued"
  <2>1. CASE UNCHANGED saver
    BY <1>6, <2>1
  <2>2. ASSUME NEW t \in Savers, SaverDies(t)
        PROVE  saver[s].entry = {x}
    BY <1>6, <2>2 DEF SaverDies, Waiting
  <2>3. ASSUME NEW t \in Savers, NEW y \in Entries, SaverStep(t, y)
        PROVE  saver[s].entry = {x} \/ entry[x] = "queued"
    <3>1. saver[t] \in Saver
      OBVIOUS
    <3>2. CASE TakeEntry(t, y)
      BY <1>6, <3>2 DEF TakeEntry
    <3>3. CASE Acknowledge(t, y)
      BY <1>6, <3>3 DEF Acknowledge, Waiting
    <3>4. CASE MoveToDlq(t, y) \/ ReadReceipt(t, y) \/ Announce(t, y) \/ CommitStatus(t, y)
      <4>1. saver'[t].entry = saver[t].entry
        BY <3>1, <3>4 DEF MoveToDlq, ReadReceipt, Announce, CommitStatus, Saver
      <4>2. s # t => saver'[s] = saver[s]
        BY <3>4 DEF MoveToDlq, ReadReceipt, Announce, CommitStatus
      <4>3. QED
        BY <1>6, <4>1, <4>2
    <3>5. QED
      BY <2>3, <3>2, <3>3, <3>4 DEF SaverStep
  <2>4. QED
    BY <2>1, <2>2, <2>3
       DEF MessagesNext, HandlerStep, BeginPost, InsertMessage, InsertParts, InsertReceipts,
           BeginEdit, SaveEdit, BeginDeleteMessage, SaveDeleteMessage, HandlerDies,
           PublishStatus, MarkDelivered, Move, MarkRead, SaveFromStream, statusVars, messageVars
<1>7. \A p \in Posts : message'[p].at = 0 => \A x \in Entries : x[1] = p => entry'[x] = "unsent"
  BY <1>1, <1>2, <1>5
<1>8. \A s \in Savers, x \in Entries : saver'[s].entry = {x} => entry'[x] # "unsent"
  BY <1>5, <1>6 DEF Begun
<1>9. QED
  BY <1>1, <1>2, <1>3, <1>4, <1>7, <1>8 DEF Begun, Serves

LEMMA StepKeepsEditsRight ==
  ASSUME MessagesTypeOK, EditsRight, [MessagesNext]_messageVars
  PROVE  EditsRight'
<1> USE DEF MessagesTypeOK
<1>1. ASSUME NEW h \in Handlers, NEW k, request' = [request EXCEPT ![h] = k],
             k.op = "edit" => ~k.seen.deleted
      PROVE  EditsRight'
  BY <1>1 DEF EditsRight
<1>2. ASSUME NEW h \in Handlers, Answer(h)
      PROVE  EditsRight'
  BY <1>1, <1>2 DEF Answer, Unasked
<1>3. ASSUME NEW h \in Handlers, NEW op, NEW pc, NEW p, Ask(h, op, pc, p),
             op = "edit" => ~message[p].deleted
      PROVE  EditsRight'
  BY <1>1, <1>3 DEF Ask
<1>4. ASSUME NEW h \in Handlers, NEW p \in Posts, InsertMessage(h, p) \/ InsertParts(h, p)
      PROVE  EditsRight'
  <2>1. request[h] \in Request /\ request[h].op = "post"
    BY <1>4 DEF InsertMessage, InsertParts, Serves
  <2>2. CASE Answer(h)
    BY <1>2, <2>2
  <2>3. CASE request' = [request EXCEPT ![h].pc = "parts"]
    BY <2>1, <2>3 DEF EditsRight, Request
  <2>4. CASE request' = [request EXCEPT ![h].pc = "receipts", ![h].plan = member]
    BY <2>1, <2>4 DEF EditsRight, Request
  <2>5. QED
    BY <1>4, <2>2, <2>3, <2>4 DEF InsertMessage, InsertParts
<1>5. ASSUME NEW h \in Handlers, NEW p \in Posts, HandlerStep(h, p)
      PROVE  EditsRight'
  BY <1>2, <1>3, <1>4, <1>5
     DEF HandlerStep, BeginPost, InsertReceipts, BeginEdit, Editable, SaveEdit,
         BeginDeleteMessage, SaveDeleteMessage
<1>6. CASE UNCHANGED request
  BY <1>6 DEF EditsRight
<1>7. CASE \E h \in Handlers : HandlerDies(h)
  BY <1>2, <1>7 DEF HandlerDies
<1>8. QED
  BY <1>5, <1>6, <1>7
     DEF MessagesNext, SaverDies, SaverStep, TakeEntry, MoveToDlq, ReadReceipt, Announce,
         CommitStatus, Acknowledge, PublishStatus, MarkDelivered, Move, MarkRead,
         SaveFromStream, restVars, messageVars

\* What is recorded or dead stays so.
LEMMA RecordsStay ==
  ASSUME MessagesTypeOK, Begun, Delivered, [MessagesNext]_messageVars
  PROVE  /\ dead \subseteq dead'
         /\ \A x \in Entries : /\ receipt[x[1]][x[2]] \subseteq receipt'[x[1]][x[2]]
                               /\ Recorded(x) => Recorded(x)'
<1>1. dead \subseteq dead'
  <2>1. \A h \in Handlers, p \in Posts : HandlerStep(h, p) => UNCHANGED dead
    BY DEF HandlerStep, BeginPost, InsertMessage, InsertParts, InsertReceipts, BeginEdit, Editable,
           SaveEdit, BeginDeleteMessage, SaveDeleteMessage, statusVars
  <2>2. \A s \in Savers, x \in Entries : SaverStep(s, x) => dead \subseteq dead'
    BY DEF SaverStep, TakeEntry, MoveToDlq, ReadReceipt, Announce, CommitStatus, Acknowledge
  <2>3. QED
    BY <2>1, <2>2
       DEF MessagesNext, HandlerDies, SaverDies, PublishStatus, MarkDelivered, Move, MarkRead,
           SaveFromStream, statusVars, messageVars
<1>2. \A x \in Entries : receipt[x[1]][x[2]] \subseteq receipt'[x[1]][x[2]]
  BY ReceiptsGrow, EntryParts DEF Grows
<1>3. QED
  BY <1>1, <1>2 DEF Recorded, Fills

LEMMA StepKeepsSaversRight ==
  ASSUME MessagesTypeOK, Begun, Delivered, SaversRight, [MessagesNext]_messageVars
  PROVE  SaversRight'
<1> USE DEF MessagesTypeOK
<1> DEFINE Right(k, x) ==
      k.entry = {x} =>
        /\ k.pc \in {"save", "commit"} => k.seen \subseteq receipt'[x[1]][x[2]]
        /\ k.pc = "ack" => Recorded(x)' \/ x \in dead'
<1>1. ASSUME NEW s \in Savers, NEW x \in Entries
      PROVE  Right(saver[s], x)
  BY RecordsStay DEF SaversRight
<1>2. ASSUME \A s \in Savers, x \in Entries : Right(saver'[s], x)
      PROVE  SaversRight'
  BY <1>2 DEF SaversRight, Recorded
<1>3. ASSUME NEW t \in Savers, NEW k, saver' = [saver EXCEPT ![t] = k],
             \A x \in Entries : Right(k, x)
      PROVE  SaversRight'
  <2> HIDE DEF Right
  <2>1. ASSUME NEW s \in Savers, NEW x \in Entries
        PROVE  Right(saver'[s], x)
    BY <1>1, <1>3
  <2>2. QED
    BY <1>2, <2>1
<1>4. ASSUME NEW t \in Savers, saver' = [saver EXCEPT ![t] = Waiting]
      PROVE  SaversRight'
  <2>1. \A x \in Entries : Right(Waiting, x)
    BY DEF Waiting
  <2>2. QED
    BY <1>3, <1>4, <2>1
<1>5. ASSUME NEW t \in Savers, NEW y \in Entries, SaverStep(t, y)
      PROVE  SaversRight'
  <2>1. saver[t] \in Saver
    OBVIOUS
  <2>2. CASE TakeEntry(t, y)
    <3> DEFINE k == [entry |-> {y}, seen |-> {},
                     pc |-> IF y[2] \in member THEN "receipt" ELSE "dead"]
    <3>1. \A x \in Entries : Right(k, x)
      OBVIOUS
    <3>2. saver' = [saver EXCEPT ![t] = k]
      BY <2>2 DEF TakeEntry
    <3> HIDE DEF k, Right
    <3>3. QED
      BY <1>3, <3>1, <3>2
  <2>3. CASE MoveToDlq(t, y)
    <3> DEFINE k == [saver[t] EXCEPT !.pc = "ack"]
    <3>1. k.entry = {y} /\ k.pc = "ack" /\ y \in dead'
      BY <2>1, <2>3 DEF MoveToDlq, Works, Saver
    <3>2. saver' = [saver EXCEPT ![t] = k]
      BY <2>3 DEF MoveToDlq
    <3> HIDE DEF k
    <3>3. \A x \in Entries : Right(k, x)
      BY <3>1
    <3> HIDE DEF Right
    <3>4. QED
      BY <1>3, <3>2, <3>3
  <2>4. CASE ReadReceipt(t, y)
    <3> DEFINE k == [saver[t] EXCEPT !.seen = receipt[y[1]][y[2]], !.pc = "save"]
    <3>1. k.entry = {y} /\ k.pc = "save" /\ k.seen = receipt[y[1]][y[2]]
      BY <2>1, <2>4 DEF ReadReceipt, Works, Saver
    <3>2. saver' = [saver EXCEPT ![t] = k] /\ receipt' = receipt
      BY <2>4 DEF ReadReceipt
    <3> HIDE DEF k
    <3>3. \A x \in Entries : Right(k, x)
      BY <3>1, <3>2
    <3> HIDE DEF Right
    <3>4. QED
      BY <1>3, <3>2, <3>3
  <2>5. CASE Announce(t, y)
    <3> DEFINE k == [saver[t] EXCEPT !.pc = "commit"]
    <3>1. k.entry = {y} /\ k.pc = "commit" /\ k.seen = saver[t].seen
      BY <2>1, <2>5 DEF Announce, Works, Saver
    <3>2. saver' = [saver EXCEPT ![t] = k] /\ receipt' = receipt
      BY <2>5 DEF Announce
    <3>3. saver[t].seen \subseteq receipt[y[1]][y[2]]
      BY <2>5 DEF Announce, Works, SaversRight
    <3> HIDE DEF k
    <3>4. \A x \in Entries : Right(k, x)
      BY <3>1, <3>2, <3>3
    <3> HIDE DEF Right
    <3>5. QED
      BY <1>3, <3>2, <3>4
  <2>6. CASE CommitStatus(t, y)
    <3> DEFINE k == [saver[t] EXCEPT !.pc = "ack"]
    <3>1. k.entry = {y} /\ k.pc = "ack"
      BY <2>1, <2>6 DEF CommitStatus, Works, Saver
    <3>2. saver' = [saver EXCEPT ![t] = k]
      BY <2>6 DEF CommitStatus
    <3>3. saver[t].seen \subseteq receipt[y[1]][y[2]]
      BY <2>6 DEF CommitStatus, Works, SaversRight
    <3>4. receipt'[y[1]][y[2]] = IF Writes(t, y[3])
                                 THEN receipt[y[1]][y[2]] \cup {"row"} \cup Fills(y[3])
                                 ELSE receipt[y[1]][y[2]]
      BY <2>6, EntryParts DEF CommitStatus
    <3>5. Fills(y[3]) \subseteq receipt'[y[1]][y[2]]
      <4>1. CASE Writes(t, y[3])
        BY <3>4, <4>1
      <4>2. CASE ~Writes(t, y[3])
        <5>1. y[3] # "read" /\ "delivered" \in saver[t].seen
          BY <4>2 DEF Writes
        <5>2. QED
          BY <3>3, <3>4, <4>2, <5>1 DEF Fills
      <4>3. QED
        BY <4>1, <4>2
    <3>6. Recorded(y)'
      BY <3>5 DEF Recorded
    <3> HIDE DEF k
    <3>7. \A x \in Entries : Right(k, x)
      BY <3>1, <3>6
    <3> HIDE DEF Right
    <3>8. QED
      BY <1>3, <3>2, <3>7
  <2>7. CASE Acknowledge(t, y)
    BY <1>4, <2>7 DEF Acknowledge
  <2>8. QED
    BY <1>5, <2>2, <2>3, <2>4, <2>5, <2>6, <2>7 DEF SaverStep
<1>6. CASE UNCHANGED saver
  BY <1>1, <1>2, <1>6
<1>7. CASE \E s \in Savers : SaverDies(s)
  BY <1>4, <1>7 DEF SaverDies
<1>8. QED
  BY <1>5, <1>6, <1>7
     DEF MessagesNext, HandlerStep, BeginPost, InsertMessage, InsertParts, InsertReceipts,
         BeginEdit, SaveEdit, BeginDeleteMessage, SaveDeleteMessage, HandlerDies,
         PublishStatus, MarkDelivered, Move, MarkRead, SaveFromStream, statusVars, messageVars

LEMMA StepKeepsStatus ==
  ASSUME MessagesTypeOK, Begun, Delivered, SaversRight, NoLostStatus,
         [MessagesNext]_messageVars
  PROVE  NoLostStatus'
<1> USE DEF MessagesTypeOK
<1>1. SUFFICES ASSUME NEW x \in Entries, entry'[x] = "settled" \/ x \in told'
               PROVE  Recorded(x)' \/ x \in dead' \/ entry'[x] = "queued"
  BY DEF NoLostStatus, Recorded
<1>2. entry[x] = "settled" \/ x \in told => Recorded(x)' \/ x \in dead' \/ entry[x] = "queued"
  BY RecordsStay DEF NoLostStatus
<1>3. CASE UNCHANGED <<entry, told>>
  BY <1>1, <1>2, <1>3
<1>4. ASSUME NEW y \in Entries, PublishStatus(y)
      PROVE  Recorded(x)' \/ x \in dead' \/ entry'[x] = "queued"
  BY <1>1, <1>2, <1>4 DEF PublishStatus
<1>5. ASSUME NEW s \in Savers, NEW y \in Entries, Announce(s, y)
      PROVE  Recorded(x)' \/ x \in dead' \/ entry'[x] = "queued"
  <2>1. entry' = entry /\ told' = told \cup {y}
    BY <1>5 DEF Announce
  <2>2. entry[y] \in {"queued", "settled"}
    BY <1>5 DEF Announce, Works, Begun
  <2>3. QED
    BY <1>1, <1>2, <2>1, <2>2
<1>6. ASSUME NEW s \in Savers, NEW y \in Entries, Acknowledge(s, y)
      PROVE  Recorded(x)' \/ x \in dead' \/ entry'[x] = "queued"
  <2>1. Recorded(y)' \/ y \in dead'
    BY <1>6, RecordsStay DEF Acknowledge, Works, SaversRight
  <2>2. told' = told /\ (x # y => entry'[x] = entry[x])
    BY <1>6 DEF Acknowledge
  <2>3. QED
    BY <1>1, <1>2, <2>1, <2>2
<1>7. QED
  BY <1>3, <1>4, <1>5, <1>6
     DEF MessagesNext, HandlerStep, BeginPost, InsertMessage, InsertParts, InsertReceipts,
         BeginEdit, SaveEdit, BeginDeleteMessage, SaveDeleteMessage, HandlerDies, SaverDies,
         SaverStep, TakeEntry, MoveToDlq, ReadReceipt, CommitStatus, MarkDelivered, Move,
         MarkRead, SaveFromStream, statusVars, messageVars

LEMMA StepKeepsOwing ==
  ASSUME MessagesTypeOK, Begun, Delivered, EditsRight, Owing, [MessagesNext]_messageVars
  PROVE  Owing'
<1> USE DEF MessagesTypeOK
<1>1. /\ parts \subseteq parts' /\ lame \subseteq lame'
      /\ \A p \in Posts, r \in Readers : receipt[p][r] \subseteq receipt'[p][r]
  <2>1. parts \subseteq parts' /\ lame \subseteq lame'
    <3>1. ASSUME NEW h \in Handlers, NEW p \in Posts, HandlerStep(h, p)
          PROVE  parts \subseteq parts' /\ lame' = lame
      BY <3>1 DEF HandlerStep, BeginPost, InsertMessage, InsertParts, InsertReceipts,
                  BeginEdit, SaveEdit, BeginDeleteMessage, SaveDeleteMessage, Ask
    <3>2. ASSUME NEW h \in Handlers, HandlerDies(h)
          PROVE  parts' = parts /\ lame \subseteq lame'
      BY <3>2 DEF HandlerDies
    <3>3. ASSUME NEW s \in Savers, NEW x \in Entries, SaverStep(s, x)
          PROVE  UNCHANGED <<parts, lame>>
      BY <3>3 DEF SaverStep, TakeEntry, MoveToDlq, ReadReceipt, Announce, CommitStatus,
                  Acknowledge, restVars
    <3>4. QED
      BY <3>1, <3>2, <3>3
         DEF MessagesNext, SaverDies, PublishStatus, MarkDelivered, Move, MarkRead,
             SaveFromStream, restVars, messageVars
  <2>2. QED
    BY <2>1, ReceiptsGrow DEF Grows
\* The duties that the step leaves as they are, or takes away.
<1>2. ASSUME NEW p \in Posts, owed'[p] \subseteq owed[p], Complete(p)
      PROVE  Complete(p)'
  BY <1>1, <1>2 DEF Complete
<1>3. ASSUME NEW p \in Posts, p \in Stored, NEW h \in Handlers, request'[h] = request[h],
             \/ Serves(h, "post", "parts", p)
             \/ /\ Serves(h, "post", "receipts", p)
                /\ p \in parts /\ owed[p] \subseteq request[h].plan,
             owed'[p] \subseteq owed[p]
      PROVE  Underway(p)'
  BY <1>1, <1>3 DEF Underway, Serves
<1>4. ASSUME Stored' = Stored, UNCHANGED <<request, owed, member>>
      PROVE  Owing'
  <2>1. ASSUME NEW p \in Stored
        PROVE  p \in lame' \/ Underway(p)' \/ Complete(p)'
    <3>1. p \in Posts
      BY DEF Stored
    <3>2. CASE Underway(p)
      BY <1>1, <1>4, <3>2 DEF Underway, Serves
    <3>3. CASE Complete(p)
      BY <1>2, <1>4, <3>1, <3>3
    <3>4. QED
      BY <1>1, <3>2, <3>3 DEF Owing
  <2>2. QED
    BY <1>4, <2>1 DEF Owing
<1>5. ASSUME NEW h \in Handlers, NEW k, request' = [request EXCEPT ![h] = k],
             \A p \in Posts : owed'[p] \subseteq owed[p] /\ owed'[p] \subseteq member',
             Stored' = Stored,
             \A p \in Stored :
               \/ Serves(h, "post", "parts", p)
               \/ Serves(h, "post", "receipts", p) /\ p \in parts /\ owed[p] \subseteq request[h].plan
               => p \in lame' \/ Underway(p)' \/ Complete(p)'
      PROVE  Owing'
  <2>1. ASSUME NEW p \in Stored
        PROVE  p \in lame' \/ Underway(p)' \/ Complete(p)'
    <3>1. p \in Posts
      BY DEF Stored
    <3>2. CASE Underway(p)
      <4>1. PICK g \in Handlers :
              \/ Serves(g, "post", "parts", p)
              \/ Serves(g, "post", "receipts", p) /\ p \in parts /\ owed[p] \subseteq request[g].plan
        BY <3>2 DEF Underway
      <4>2. CASE g = h
        BY <1>5, <4>1, <4>2
      <4>3. CASE g # h
        <5>1. request'[g] = request[g]
          BY <1>5, <4>3
        <5>2. QED
          BY <1>3, <1>5, <3>1, <4>1, <5>1
      <4>4. QED
        BY <4>2, <4>3
    <3>3. CASE Complete(p)
      BY <1>2, <1>5, <3>1, <3>3
    <3>4. QED
      BY <1>1, <3>2, <3>3 DEF Owing
  <2>2. QED
    BY <1>5, <2>1 DEF Owing
<1>6. Stored \subseteq Stored'
  <2>1. ASSUME NEW p \in Stored
        PROVE  message'[p].at > 0
    BY MessagesStay DEF Stored
  <2>2. QED
    BY <2>1 DEF Stored
<1>7. ASSUME UNCHANGED message
      PROVE  Stored' = Stored
  BY <1>7 DEF Stored
<1>8. \A p \in Posts : owed[p] \subseteq member
  BY DEF Owing
<1>9. ASSUME NEW p \in Posts, message[p].at = 0,
             message' = [message EXCEPT ![p] = [at |-> NextPosition, text |-> "first",
                                                deleted |-> FALSE]]
      PROVE  Stored' = Stored \cup {p} /\ p \notin Stored
  <2>1. \A q \in Posts : q # p => message'[q] = message[q]
    BY <1>9
  <2>2. message'[p].at > 0
    BY <1>9, Positions
  <2>3. Stored' = Stored \cup {p}
    BY <2>1, <2>2 DEF Stored
  <2>4. p \notin Stored
    BY <1>9 DEF Stored
  <2>5. QED
    BY <2>3, <2>4
<1>10. ASSUME NEW h \in Handlers, NEW p \in Posts, InsertMessage(h, p)
       PROVE  Owing'
  <2>0. request[h] \in Request /\ Serves(h, "post", "insert", p)
    BY <1>10 DEF InsertMessage
  <2>1. CASE message[p].at > 0
    <3>1. Answer(h) /\ UNCHANGED <<message, owed, member>>
      BY <1>10, <2>1 DEF InsertMessage
    <3>2. \A q \in Stored : ~Serves(h, "post", "parts", q) /\ ~Serves(h, "post", "receipts", q)
      BY <2>0 DEF Serves
    <3>3. QED
      BY <1>5, <1>7, <1>8, <3>1, <3>2 DEF Answer
  <2>2. CASE message[p].at = 0
    <3>1. /\ message' = [message EXCEPT ![p] = [at |-> NextPosition, text |-> "first",
                                                deleted |-> FALSE]]
          /\ owed' = [owed EXCEPT ![p] = member]
          /\ request' = [request EXCEPT ![h].pc = "parts"]
          /\ member' = member
      BY <1>10, <2>2 DEF InsertMessage
    <3>2. Stored' = Stored \cup {p} /\ p \notin Stored
      BY <1>9, <2>2, <3>1
    <3>3. Serves(h, "post", "parts", p)'
      BY <2>0, <3>1 DEF Serves, Request
    <3>4. ASSUME NEW q \in Stored
          PROVE  q \in lame' \/ Underway(q)' \/ Complete(q)'
      <4>1. q \in Posts /\ q # p /\ owed'[q] = owed[q]
        BY <3>1, <3>2 DEF Stored
      <4>2. ASSUME Underway(q)
            PROVE  Underway(q)'
        <5>1. PICK g \in Handlers :
                \/ Serves(g, "post", "parts", q)
                \/ Serves(g, "post", "receipts", q) /\ q \in parts /\ owed[q] \subseteq request[g].plan
          BY <4>2 DEF Underway
        <5>2. g # h
          BY <2>0, <5>1 DEF Serves
        <5>3. request'[g] = request[g]
          BY <3>1, <5>2
        <5>4. QED
          BY <1>3, <4>1, <5>1, <5>3
      <4>3. Complete(q) => Complete(q)'
        BY <1>2, <4>1
      <4>4. QED
        BY <1>1, <4>2, <4>3 DEF Owing
    <3>5. \A q \in Posts : owed'[q] \subseteq member'
      BY <1>8, <3>1
    <3>6. \A q \in Stored' : q \in lame' \/ Underway(q)' \/ Complete(q)'
      BY <3>2, <3>3, <3>4 DEF Underway
    <3>7. QED
      BY <3>5, <3>6 DEF Owing
  <2>3. QED
    BY <2>1, <2>2, AtTypes
<1>11. ASSUME NEW p \in Posts, SaveFromStream(p)
       PROVE  Owing'
  <2>1. /\ message' = [message EXCEPT ![p] = [at |-> NextPosition, text |-> "first",
                                              deleted |-> FALSE]]
        /\ message[p].at = 0
        /\ owed' = [owed EXCEPT ![p] = member]
        /\ parts' = parts \cup {p}
        /\ receipt' = [receipt EXCEPT ![p] = [r \in Readers |->
                         IF r \in member THEN {"row"} ELSE {}]]
        /\ member' = member /\ request' = request
    BY <1>11 DEF SaveFromStream
  <2>2. Stored' = Stored \cup {p} /\ p \notin Stored
    BY <1>9, <2>1
  <2>3. Complete(p)'
    BY <2>1 DEF Complete
  <2>4. ASSUME NEW q \in Stored
        PROVE  q \in lame' \/ Underway(q)' \/ Complete(q)'
    <3>1. q \in Posts /\ q # p /\ owed'[q] = owed[q]
      BY <2>1, <2>2 DEF Stored
    <3>2. Underway(q) => Underway(q)'
      BY <1>3, <2>1, <3>1 DEF Underway
    <3>3. Complete(q) => Complete(q)'
      BY <1>2, <3>1
    <3>4. QED
      BY <1>1, <3>2, <3>3 DEF Owing
  <2>5. \A q \in Posts : owed'[q] \subseteq member'
    BY <1>8, <2>1
  <2>6. \A q \in Stored' : q \in lame' \/ Underway(q)' \/ Complete(q)'
    BY <2>2, <2>3, <2>4
  <2>7. QED
    BY <2>5, <2>6 DEF Owing
<1>12. ASSUME NEW h \in Handlers, NEW p \in Posts, InsertParts(h, p)
       PROVE  Owing'
  <2> DEFINE k == [request[h] EXCEPT !.pc = "receipts", !.plan = member]
  <2>1. request[h] \in Request /\ request[h].op = "post" /\ request[h].post = {p}
    BY <1>12 DEF InsertParts, Serves
  <2>2. k.op = "post" /\ k.pc = "receipts" /\ k.post = {p} /\ k.plan = member
    BY <2>1 DEF Request
  <2>3. request' = [request EXCEPT ![h] = k] /\ UNCHANGED <<message, owed, member>>
    BY <1>12 DEF InsertParts
  <2>4. p \in parts'
    BY <1>12 DEF InsertParts
  <2> HIDE DEF k
  <2>5. request'[h] = k
    BY <2>3
  <2>6. Underway(p)'
    BY <1>8, <2>2, <2>3, <2>4, <2>5 DEF Underway, Serves
  <2>7. \A q \in Stored : Serves(h, "post", "parts", q) \/ Serves(h, "post", "receipts", q) => q = p
    BY <2>1 DEF Serves
  <2>8. QED
    BY <1>5, <1>7, <1>8, <2>3, <2>6, <2>7
<1>13. ASSUME NEW h \in Handlers, NEW p \in Posts, InsertReceipts(h, p)
       PROVE  Owing'
  <2>1. /\ Answer(h) /\ UNCHANGED <<message, owed, member, parts>>
        /\ receipt' = [receipt EXCEPT ![p] = [r \in Readers |->
                         IF r \in request[h].plan THEN receipt[p][r] \cup {"row"}
                         ELSE receipt[p][r]]]
    BY <1>13 DEF InsertReceipts
  <2>2. ASSUME NEW q \in Stored, Serves(h, "post", "receipts", q), q \in parts,
               owed[q] \subseteq request[h].plan
        PROVE  Complete(q)'
    <3>1. q = p
      BY <1>13, <2>2 DEF InsertReceipts, Serves
    <3>2. owed[p] \subseteq Readers
      OBVIOUS
    <3>3. \A r \in owed[p] : receipt'[p][r] # {}
      BY <2>1, <2>2, <3>1, <3>2
    <3>4. QED
      BY <2>1, <2>2, <3>1, <3>3 DEF Complete
  <2>3. \A q \in Stored : ~Serves(h, "post", "parts", q)
    BY <1>13 DEF InsertReceipts, Serves
  <2>4. QED
    BY <1>5, <1>7, <1>8, <2>1, <2>2, <2>3 DEF Answer
<1>14. ASSUME NEW h \in Handlers, HandlerDies(h)
       PROVE  Owing'
  <2>1. Answer(h) /\ UNCHANGED <<message, owed, member>>
    BY <1>14 DEF HandlerDies
  <2>2. \A q \in Stored : Serves(h, "post", "parts", q) \/ Serves(h, "post", "receipts", q)
                            => q \in lame'
    BY <1>14 DEF HandlerDies, Serves
  <2>3. QED
    BY <1>5, <1>7, <1>8, <2>1, <2>2 DEF Answer
<1>15. ASSUME NEW h \in Handlers, NEW op, NEW pc, NEW p, Ask(h, op, pc, p), UNCHANGED member
       PROVE  Owing'
  <2>1. \A q \in Stored : ~Serves(h, "post", "parts", q) /\ ~Serves(h, "post", "receipts", q)
    BY <1>15 DEF Ask, Serves, Unasked
  <2>2. QED
    BY <1>5, <1>7, <1>8, <1>15, <2>1 DEF Ask
<1>16. ASSUME NEW h \in Handlers, NEW p \in Posts, SaveEdit(h, p) \/ SaveDeleteMessage(h, p)
       PROVE  Owing'
  <2>1. \A q \in Posts : message'[q].at = message[q].at
    <3>1. \A q \in Posts : \A m \in {message[q], [message[q] EXCEPT !.text = "new"],
                                     [message[q] EXCEPT !.deleted = TRUE, !.text = ""]} :
                             m.at = message[q].at
      BY DEF Message
    <3>2. \A q \in Posts :
            message'[q] \in {message[q], [message[q] EXCEPT !.text = "new"],
                             [message[q] EXCEPT !.deleted = TRUE, !.text = ""]}
      BY <1>16 DEF SaveEdit, SaveDeleteMessage
    <3>3. QED
      BY <3>1, <3>2
  <2>2. Stored' = Stored
    BY <2>1 DEF Stored
  <2>3. \A q \in Stored : ~Serves(h, "post", "parts", q) /\ ~Serves(h, "post", "receipts", q)
    BY <1>16 DEF SaveEdit, SaveDeleteMessage, Serves
  <2>4. Answer(h) /\ UNCHANGED <<owed, member>>
    BY <1>16 DEF SaveEdit, SaveDeleteMessage
  <2>5. QED
    BY <1>5, <1>8, <2>2, <2>3, <2>4 DEF Answer
<1>17. ASSUME NEW r \in Readers, Move(r)
       PROVE  Owing'
  <2>1. \A p \in Posts : owed'[p] = owed[p] \ {r}
    BY <1>17 DEF Move
  <2>2. \A p \in Posts : owed'[p] \subseteq member'
    BY <1>8, <1>17, <2>1 DEF Move
  <2>3. UNCHANGED <<message, request>>
    BY <1>17 DEF Move
  <2>4. ASSUME NEW p \in Stored
        PROVE  p \in lame' \/ Underway(p)' \/ Complete(p)'
    <3>1. p \in Posts /\ owed'[p] \subseteq owed[p]
      BY <2>1 DEF Stored
    <3>2. Underway(p) => Underway(p)'
      BY <1>3, <2>3, <3>1 DEF Underway
    <3>3. Complete(p) => Complete(p)'
      BY <1>2, <3>1
    <3>4. QED
      BY <1>1, <3>2, <3>3 DEF Owing
  <2>5. QED
    BY <1>7, <2>2, <2>3, <2>4 DEF Owing
<1>18. ASSUME NEW h \in Handlers, NEW p \in Posts, HandlerStep(h, p)
       PROVE  Owing'
  BY <1>10, <1>12, <1>13, <1>15, <1>16, <1>18
     DEF HandlerStep, BeginPost, BeginEdit, BeginDeleteMessage
<1>19. CASE \/ \E s \in Savers : SaverDies(s) \/ \E x \in Entries : SaverStep(s, x)
            \/ \E x \in Entries : PublishStatus(x)
            \/ \E r \in Readers : MarkDelivered(r) \/ \E p \in Posts : MarkRead(r, p)
            \/ UNCHANGED messageVars
  <2>1. UNCHANGED <<message, request, owed, member>>
    BY <1>19 DEF SaverDies, SaverStep, TakeEntry, MoveToDlq, ReadReceipt, Announce,
                 CommitStatus, Acknowledge, PublishStatus, MarkDelivered, MarkRead,
                 restVars, messageVars
  <2>2. QED
    BY <1>4, <1>7, <2>1
<1>20. QED
  BY <1>11, <1>14, <1>17, <1>18, <1>19 DEF MessagesNext

LEMMA InitHolds == MessagesInit => IInv
<1> SUFFICES ASSUME MessagesInit PROVE IInv
  OBVIOUS
<1> USE DEF MessagesInit
<1>1. Unasked \in Request /\ Waiting \in Saver /\ NotStored \in Message
  BY DEF Unasked, Waiting, NotStored, Request, Saver, Message, Texts
<1>2. MessagesTypeOK
  BY <1>1 DEF MessagesTypeOK
<1>3. Begun
  BY DEF Begun, NotStored, Serves, Unasked, Waiting
<1>4. SaversRight /\ EditsRight
  BY DEF SaversRight, EditsRight, Waiting, Unasked
<1>5. Delivered /\ NoLostStatus
  BY DEF Delivered, NoLostStatus
<1>6. Owing
  <2>1. Stored = {}
    <3>1. \A p \in Posts : message[p].at = 0
      BY DEF NotStored
    <3> HIDE DEF MessagesInit
    <3>2. \A p \in Posts : ~(message[p].at > 0)
      BY <3>1
    <3>3. QED
      BY <3>2 DEF Stored
  <2>2. QED
    BY <2>1 DEF Owing
<1>7. QED
  BY <1>2, <1>3, <1>4, <1>5, <1>6 DEF IInv

\* The invariant is inductive, also when requests and savers die at any step
\* and an entry of the stream is handled by two savers at once.
THEOREM Inductive == MessagesSpec => []IInv
<1>1. IInv /\ [MessagesNext]_messageVars => IInv'
  <2> SUFFICES ASSUME IInv, [MessagesNext]_messageVars PROVE IInv'
    OBVIOUS
  <2>1. Delivered'
    BY ReceiptsGrow DEF IInv, Delivered, Grows
  <2>2. QED
    BY <2>1, StepKeepsTypes, StepKeepsBegun, StepKeepsEditsRight, StepKeepsSaversRight,
       StepKeepsStatus, StepKeepsOwing DEF IInv
<1>2. QED
  BY <1>1, InitHolds, PTL DEF MessagesSpec

\* Messages, receipts, requests and stream entries keep their shape.
THEOREM TypeCorrect == MessagesSpec => []MessagesTypeOK
<1>1. IInv => MessagesTypeOK
  BY DEF IInv
<1>2. QED
  BY <1>1, Inductive, PTL

\* No status event is lost: when its entry is settled, or the clients were
\* told of it, the receipt records it, or the dead letters do, or it is
\* pending and will be handled again.
THEOREM NoStatusIsLost == MessagesSpec => []NoLostStatus
<1>1. IInv => NoLostStatus
  BY DEF IInv
<1>2. QED
  BY <1>1, Inductive, PTL

\* The attachments and the receipts of a message are complete once the request
\* that creates it is over, unless it died, whatever status events and the
\* saver of the message stream did meanwhile.
THEOREM ReceiptsAreComplete == MessagesSpec => []ReceiptsComplete
<1>1. IInv => ReceiptsComplete
  <2> SUFFICES ASSUME IInv, NEW p \in Stored, p \notin lame, ~Creating(p)
               PROVE  p \in parts /\ \A r \in owed[p] : receipt[p][r] # {}
    BY DEF ReceiptsComplete
  <2>1. ~Underway(p)
    BY DEF Underway, Serves, Creating
  <2>2. Complete(p)
    BY <2>1 DEF IInv, Owing
  <2>3. QED
    BY <2>2 DEF Complete
<1>2. QED
  BY <1>1, Inductive, PTL

\* Columns of a receipt are only ever filled, and what is read is delivered.
THEOREM ReadIsNeverUnread == MessagesSpec => ReadStaysRead
<1>1. IInv /\ [MessagesNext]_messageVars =>
        [\A p \in Posts, r \in Readers :
           /\ receipt[p][r] \subseteq receipt'[p][r]
           /\ "read" \in receipt'[p][r] => "delivered" \in receipt'[p][r]]_messageVars
  BY ReceiptsGrow DEF IInv, Grows
<1>2. QED
  BY <1>1, Inductive, PTL DEF MessagesSpec, ReadStaysRead

\* A deleted message stays deleted, and only an edit that read it before the
\* deletion gives it a text again.
THEOREM DeletedIsKept == MessagesSpec => DeletedStaysEmpty
<1>1. ASSUME IInv, [MessagesNext]_messageVars, NEW p \in Posts, message[p].deleted
      PROVE  /\ message'[p].deleted
             /\ message'[p].text \in {message[p].text, ""}
                  \/ \E h \in Handlers : /\ Serves(h, "edit", "save", p)
                                         /\ ~request[h].seen.deleted
                                         /\ request'[h] = Unasked
  BY <1>1, MessagesStay DEF IInv
<1>2. IInv /\ [MessagesNext]_messageVars =>
        [\A p \in Posts : message[p].deleted =>
           /\ message'[p].deleted
           /\ message'[p].text \in {message[p].text, ""}
                \/ \E h \in Handlers : /\ Serves(h, "edit", "save", p)
                                       /\ ~request[h].seen.deleted
                                       /\ request'[h] = Unasked]_messageVars
  BY <1>1
<1>3. QED
  BY <1>2, Inductive, PTL DEF MessagesSpec, DeletedStaysEmpty

-----------------------------------------------------------------------------
(* DirectChat: the requests about the chat, its bots and their messages. *)

\* The steps of the requests of each kind.
StepRight(r) ==
  /\ r.op = "open" => r.pc \in {"lookup", "insert", "rows", "tally", "commit"}
  /\ r.op = "reply" => r.pc \in {"lookup", "insert", "rows", "tally", "commit", "validate", "store"}
  /\ r.op \in {"add", "remove"} => r.pc \in {"access", "member", "count", "save"}
  /\ r.op = "delete" => r.pc = "memberships"
  /\ r.op = "send" => r.pc \in {"check", "validate", "store"}

\* Who a request is about, and the scope of an addition.
RequestRight(r) == /\ StepRight(r)
                   /\ r.op \in BotOps => r.who \in Bots
                   /\ r.op \in Openings => r.who \in People
                   /\ r.op = "add" => r.scope \in Scopes
RequestsRight == \A t \in Threads : RequestRight(work[t])

\* An addition knows the removals and the deletions beside it.
CrossingsSeen ==
  \A t, q \in Threads :
    work[t].op = "add" /\ work[q].op \in {"remove", "delete"} /\ Who(t) = Who(q)
      => <<Who(q), work[q].op>> \in crossed

\* A request knows all others that are under way.
MeetingsSeen ==
  \A t, q \in Threads :
    t # q /\ work[t].op # "none" /\ work[q].op \in Openings \cup {"add", "remove", "delete"}
      => <<work[q].op, Who(q)>> \in work[t].met

\* Between its two statements a removal finds the access turned off, an addition
\* finds it turned on, and before them no trace of a deletion.
Between(t) ==
  /\ AtStep(t, {"remove"}, "member") /\ <<Who(t), "remove">> \notin crossed => ~Admits(Who(t))
  /\ (/\ AtStep(t, {"add"}, "member") /\ <<Who(t), "remove">> \notin crossed
      /\ <<Who(t), "add">> \notin lost)
       => Admits(Who(t)) \/ Who(t) \in deleted \/ Some(Who(t), {"add"}, "access")
  /\ AtStep(t, {"add"}, "access") /\ <<Who(t), "delete">> \notin crossed => Who(t) \notin deleted
BetweenRows == \A t \in Threads : Between(t)

\* BotRowsAgree says this of every bot.
Agree(b) ==
  /\ Admits(b) /\ <<b, "remove">> \notin crossed /\ <<b, "add">> \notin lost
       => b \in inChat \/ Some(b, {"add"}, "member")
  /\ (/\ b \in inChat \ (pair \cup deleted)
      /\ <<b, "remove">> \notin crossed /\ {<<b, "add">>, <<b, "remove">>} \cap lost = {})
       => Admits(b) \/ Some(b, {"remove"}, "member") \/ Some(b, {"add"}, "access")
  /\ b \in deleted /\ <<b, "delete">> \notin crossed => ~Admits(b)
RowsAgree == \A b \in Bots : Agree(b)

\* No change of the members is under way beside t, nor was one.
Undisturbed(t) == \A m \in work[t].met : m[1] \notin Changes

\* A count that nothing disturbs is right when it is saved.
CountRight(t) ==
  /\ AtStep(t, {"add", "remove"}, "save") => work[t].n = Cardinality(inChat)
  /\ Opens(t, {"commit"}) => work[t].n = Cardinality(inChat \cup pair)
CountsRight == \A t \in Threads : Undisturbed(t) => CountRight(t)

\* Nothing revoked what the bot of t relies on, nor granted it.
Unrevoked(t) == \A o \in {"remove", "delete", "set", "rotate", "add"} :
                  <<o, Who(t)>> \notin work[t].met

\* What a message of a bot, and of a reply, relies on.
SpeakerRight(t) ==
  /\ work[t].op = "send" /\ Unrevoked(t) =>
       /\ bot[Who(t)] = [on |-> TRUE, token |-> work[t].n]
       /\ work[t].pc \in {"validate", "store"} => admitted[Who(t)] = "send"
       /\ work[t].pc = "store" => Who(t) \in inChat
  /\ AtStep(t, {"reply"}, "store") => Who(t) \in inChat
SpeakersRight == \A t \in Threads : SpeakerRight(t)

DirectInv == /\ DirectTypeOK /\ RequestsRight
             /\ CrossingsSeen /\ MeetingsSeen /\ BetweenRows /\ RowsAgree
             /\ CountsRight /\ SpeakersRight

-----------------------------------------------------------------------------
(* What a step does to the requests *)

\* The request of q goes on as it is, though it may meet another.
Keeps(q) == /\ work'[q].op = work[q].op /\ work'[q].pc = work[q].pc
            /\ work'[q].who = work[q].who /\ work'[q].scope = work[q].scope
            /\ work'[q].n = work[q].n /\ work[q].met \subseteq work'[q].met

\* The request of q goes on, at whatever step.
GoesOn(q) == /\ work'[q].op = work[q].op /\ work'[q].who = work[q].who
             /\ work'[q].scope = work[q].scope /\ work[q].met \subseteq work'[q].met

LEMMA RecordTypes ==
  ASSUME DirectTypeOK, NEW t \in Threads
  PROVE  /\ work[t] = NoWork <=> work[t].op = "none"
         /\ work[t] # NoWork => work[t] \in Work
         /\ work[t] = NoWork => /\ work[t].pc = "idle" /\ work[t].met = {}
<1>1. work[t] \in Work \cup {NoWork}
  BY DEF DirectTypeOK
<1>2. NoWork.op = "none" /\ NoWork.pc = "idle" /\ NoWork.met = {}
  BY DEF NoWork
<1>3. work[t] \in Work => work[t].op # "none"
  BY DEF Work, Openings, BotOps
<1>4. QED
  BY <1>1, <1>2, <1>3

\* Every request under way meets the one m that begins.
LEMMA MeetingFrame ==
  ASSUME DirectTypeOK, NEW m, NEW W, W = Meeting(m)
  PROVE  /\ W \in [Threads -> Work \cup {NoWork}]
         /\ \A q \in Threads :
              /\ W[q] = NoWork <=> work[q] = NoWork
              /\ W[q].op = work[q].op /\ W[q].pc = work[q].pc /\ W[q].who = work[q].who
              /\ W[q].scope = work[q].scope /\ W[q].n = work[q].n
              /\ work[q].met \subseteq W[q].met
              /\ work[q] # NoWork /\ m \in Disturbances => m \in W[q].met
<1>1. ASSUME NEW q \in Threads, work[q] = NoWork
      PROVE  W[q] = NoWork
  BY <1>1 DEF Meeting, Working
<1>2. ASSUME NEW q \in Threads, work[q] # NoWork
      PROVE  /\ W[q] \in Work
             /\ W[q].op = work[q].op /\ W[q].pc = work[q].pc /\ W[q].who = work[q].who
             /\ W[q].scope = work[q].scope /\ W[q].n = work[q].n
             /\ W[q].met = work[q].met \cup ({m} \cap Disturbances)
  <2>1. work[q] \in Work
    BY <1>2 DEF DirectTypeOK
  <2>2. W[q] = [work[q] EXCEPT !.met = @ \cup ({m} \cap Disturbances)]
    BY <1>2 DEF Meeting, Working
  <2>3. QED
    BY <2>1, <2>2 DEF Work
<1>3. NoWork \notin Work
  BY DEF NoWork, Work, Openings, BotOps
<1>4. W \in [Threads -> Work \cup {NoWork}]
  <2>1. DOMAIN W = Threads /\ W = [t \in Threads |-> W[t]]
    BY DEF Meeting
  <2>2. QED
    BY <1>1, <1>2, <2>1
<1>5. QED
  BY <1>1, <1>2, <1>3, <1>4

\* The request of t has begun; it and each other one have met.
HasBegun(t, o, w, s, n, p) ==
  /\ work[t] = NoWork
  /\ work' \in [Threads -> Work \cup {NoWork}]
  /\ work'[t].op = o /\ work'[t].pc = p /\ work'[t].who = w
  /\ work'[t].scope = s /\ work'[t].n = n
  /\ \A q \in Threads \ {t} :
       /\ Keeps(q)
       /\ work'[q] = NoWork <=> work[q] = NoWork
       /\ work[q] # NoWork /\ <<o, w>> \in Disturbances => <<o, w>> \in work'[q].met
       /\ work[q] # NoWork /\ <<work[q].op, Who(q)>> \in Disturbances
            => <<work[q].op, Who(q)>> \in work'[t].met
       /\ Who(q) = w /\ o = "add" /\ work[q].op \in {"remove", "delete"}
            => <<w, work[q].op>> \in crossed'
       /\ Who(q) = w /\ work[q].op = "add" /\ o \in {"remove", "delete"}
            => <<w, o>> \in crossed'
  /\ crossed \subseteq crossed'
  /\ \A x : x \in crossed' \ crossed => x \in Everyone \X {"remove", "delete"}
  /\ begun' \in Nat

LEMMA BeginFrame ==
  ASSUME DirectTypeOK, NEW t \in Threads, NEW o \in Openings \cup BotOps, NEW w \in Everyone,
         NEW s \in {"none"} \cup Scopes, NEW n \in Nat,
         NEW p \in {"lookup", "access", "memberships", "check"}, BeginWork(t, o, w, s, n, p)
  PROVE  HasBegun(t, o, w, s, n, p)
<1> DEFINE W == Meeting(<<o, w>>)
           R == [op |-> o, pc |-> p, who |-> w, scope |-> s, n |-> n,
                 met |-> {<<work[q].op, work[q].who>> : q \in Working} \cap Disturbances]
<1>1. /\ W \in [Threads -> Work \cup {NoWork}]
      /\ \A q \in Threads :
              /\ W[q] = NoWork <=> work[q] = NoWork
              /\ W[q].op = work[q].op /\ W[q].pc = work[q].pc /\ W[q].who = work[q].who
              /\ W[q].scope = work[q].scope /\ W[q].n = work[q].n
              /\ work[q].met \subseteq W[q].met
              /\ work[q] # NoWork /\ <<o, w>> \in Disturbances => <<o, w>> \in W[q].met
  BY MeetingFrame
<1>2. R \in Work
  BY DEF Work
<1> HIDE DEF W
<1>3. work' = [W EXCEPT ![t] = R]
  BY DEF BeginWork, W
<1>4. /\ work' \in [Threads -> Work \cup {NoWork}]
      /\ work'[t] = R
      /\ \A q \in Threads \ {t} : work'[q] = W[q]
  BY <1>1, <1>2, <1>3
<1>5. ASSUME NEW q \in Threads \ {t}
      PROVE  /\ Keeps(q)
             /\ work'[q] = NoWork <=> work[q] = NoWork
             /\ work[q] # NoWork /\ <<o, w>> \in Disturbances => <<o, w>> \in work'[q].met
  BY <1>1, <1>4 DEF Keeps
<1>6. ASSUME NEW q \in Threads \ {t}, work[q] # NoWork, <<work[q].op, Who(q)>> \in Disturbances
      PROVE  <<work[q].op, Who(q)>> \in work'[t].met
  BY <1>4, <1>6 DEF Working, Who
<1>7. ASSUME NEW q \in Threads \ {t}, Who(q) = w, NEW y \in {"remove", "delete"},
             {o, work[q].op} = {"add", y}
      PROVE  <<w, y>> \in crossed'
  <2>1. work[q] # NoWork
    BY <1>7, RecordTypes
  <2>2. QED
    BY <1>7, <2>1 DEF BeginWork, Working, Who
<1>8. crossed \subseteq crossed' /\ \A x : x \in crossed' \ crossed => x \in Everyone \X {"remove", "delete"}
  BY DEF BeginWork
<1>9. ASSUME NEW q \in Threads \ {t}, Who(q) = w
      PROVE  /\ o = "add" /\ work[q].op \in {"remove", "delete"} => <<w, work[q].op>> \in crossed'
             /\ work[q].op = "add" /\ o \in {"remove", "delete"} => <<w, o>> \in crossed'
  BY <1>7, <1>9
<1>10. work[t] = NoWork /\ begun' \in Nat
  BY DEF BeginWork, DirectTypeOK
<1>11. QED
  BY <1>4, <1>5, <1>6, <1>8, <1>9, <1>10 DEF HasBegun

\* A request takes its next step, and may keep a number.
LEMMA AdvanceFrame ==
  ASSUME DirectTypeOK, NEW t \in Threads, work[t] # NoWork,
         NEW p \in {"insert", "rows", "tally", "commit", "member", "count", "save", "validate",
                    "store"},
         Advance(t, p)
  PROVE  /\ work' \in [Threads -> Work \cup {NoWork}]
         /\ GoesOn(t) /\ work'[t].pc = p /\ work'[t].n = work[t].n
         /\ \A q \in Threads \ {t} : Keeps(q) /\ work'[q] = work[q]
<1>1. work[t] \in Work
  BY RecordTypes
<1>2. /\ work' = [work EXCEPT ![t] = [work[t] EXCEPT !.pc = p]]
      /\ [work[t] EXCEPT !.pc = p] \in Work
  BY <1>1 DEF Advance, DirectTypeOK, Work
<1>3. work' \in [Threads -> Work \cup {NoWork}]
  BY <1>2 DEF DirectTypeOK
<1>4. /\ work'[t] = [work[t] EXCEPT !.pc = p]
      /\ \A q \in Threads \ {t} : work'[q] = work[q]
  BY <1>2 DEF DirectTypeOK
<1>5. GoesOn(t) /\ work'[t].pc = p /\ work'[t].n = work[t].n
  BY <1>1, <1>4 DEF Work, GoesOn
<1>6. QED
  BY <1>3, <1>4, <1>5 DEF Keeps

LEMMA AdvanceWithFrame ==
  ASSUME DirectTypeOK, NEW t \in Threads, work[t] # NoWork, NEW p \in {"commit", "save"},
         NEW k \in Nat, AdvanceWith(t, p, k)
  PROVE  /\ work' \in [Threads -> Work \cup {NoWork}]
         /\ GoesOn(t) /\ work'[t].pc = p /\ work'[t].n = k
         /\ \A q \in Threads \ {t} : Keeps(q) /\ work'[q] = work[q]
<1>1. work[t] \in Work
  BY RecordTypes
<1>2. /\ work' = [work EXCEPT ![t] = [work[t] EXCEPT !.pc = p, !.n = k]]
      /\ [work[t] EXCEPT !.pc = p, !.n = k] \in Work
  BY <1>1 DEF AdvanceWith, DirectTypeOK, Work
<1>3. work' \in [Threads -> Work \cup {NoWork}]
  BY <1>2 DEF DirectTypeOK
<1>4. /\ work'[t] = [work[t] EXCEPT !.pc = p, !.n = k]
      /\ \A q \in Threads \ {t} : work'[q] = work[q]
  BY <1>2 DEF DirectTypeOK
<1>5. GoesOn(t) /\ work'[t].pc = p /\ work'[t].n = k
  BY <1>1, <1>4 DEF Work, GoesOn
<1>6. QED
  BY <1>3, <1>4, <1>5 DEF Keeps

LEMMA DoneFrame ==
  ASSUME DirectTypeOK, NEW t \in Threads, Done(t)
  PROVE  /\ work' \in [Threads -> Work \cup {NoWork}]
         /\ work'[t] = NoWork
         /\ \A q \in Threads \ {t} : Keeps(q) /\ work'[q] = work[q]
<1>1. work'[t] = NoWork /\ \A q \in Threads \ {t} : work'[q] = work[q]
  BY DEF Done, DirectTypeOK
<1>2. work' \in [Threads -> Work \cup {NoWork}]
  BY DEF Done, DirectTypeOK
<1>3. QED
  BY <1>1, <1>2 DEF Keeps

-----------------------------------------------------------------------------
(* Types *)

LEMMA ChatCardinality ==
  ASSUME DirectTypeOK, NEW S \in SUBSET Everyone
  PROVE  Cardinality(S) \in Nat
<1>1. IsFiniteSet(Everyone)
  BY DirectAssumption, FS_Union DEF Everyone
<1>2. QED
  BY <1>1, FS_Subset, FS_CardinalityType

\* The requests are right when those that go on are, and the one of t.
LEMMA RequestsStay ==
  ASSUME RequestsRight, NEW t \in Threads, \A q \in Threads \ {t} : Keeps(q),
         RequestRight(work'[t])
  PROVE  RequestsRight'
BY DEF RequestsRight, RequestRight, StepRight, Keeps

LEMMA NoWorkRight == RequestRight(NoWork)
BY DEF RequestRight, StepRight, NoWork, BotOps, Openings

\* How requests begin, and the steps that may follow.
LEMMA RightBeginnings ==
  /\ \A u \in People, o \in Openings :
       RequestRight([op |-> o, pc |-> "lookup", who |-> u, scope |-> "none"])
  /\ \A b \in Bots :
       /\ \A s \in Scopes : RequestRight([op |-> "add", pc |-> "access", who |-> b, scope |-> s])
       /\ RequestRight([op |-> "remove", pc |-> "access", who |-> b, scope |-> "none"])
       /\ RequestRight([op |-> "delete", pc |-> "memberships", who |-> b, scope |-> "none"])
       /\ RequestRight([op |-> "send", pc |-> "check", who |-> b, scope |-> "none"])
BY DEF RequestRight, StepRight, Openings, BotOps

LEMMA RightSteps ==
  /\ \A o \in Openings, p \in {"insert", "rows", "tally", "commit"} :
       StepRight([op |-> o, pc |-> p])
  /\ \A o \in {"reply", "send"}, p \in {"validate", "store"} : StepRight([op |-> o, pc |-> p])
  /\ \A o \in {"add", "remove"}, p \in {"member", "count", "save"} :
       StepRight([op |-> o, pc |-> p])
BY DEF StepRight, Openings

LEMMA DirectTypeInit ==
  ASSUME DirectInit
  PROVE  DirectTypeOK /\ RequestsRight
<1>1. pair \subseteq Everyone /\ inChat \subseteq Everyone /\ chat \in BOOLEAN
  BY DEF DirectInit
<1>2. IsFiniteSet(inChat)
  BY <1>1, DirectAssumption, FS_Union, FS_Subset DEF Everyone
<1>3. count \in Nat
  BY <1>2, FS_CardinalityType DEF DirectInit
<1>4. DirectTypeOK
  BY <1>1, <1>3 DEF DirectInit, DirectTypeOK, NewBot
<1>5. RequestsRight
  BY NoWorkRight DEF DirectInit, RequestsRight
<1>6. QED
  BY <1>4, <1>5

\* A request that begins.
LEMMA BeginTypes ==
  ASSUME DirectTypeOK, RequestsRight, NEW t \in Threads,
         NEW o \in Openings \cup BotOps, NEW w \in Everyone,
         NEW s \in {"none"} \cup Scopes, NEW n \in Nat,
         NEW p \in {"lookup", "access", "memberships", "check"}, BeginWork(t, o, w, s, n, p),
         RequestRight([op |-> o, pc |-> p, who |-> w, scope |-> s])
  PROVE  /\ RequestsRight'
         /\ work' \in [Threads -> Work \cup {NoWork}]
         /\ crossed' \subseteq Everyone \X {"remove", "delete"}
         /\ begun' \in Nat
<1>1. /\ work' \in [Threads -> Work \cup {NoWork}]
      /\ work'[t].op = o /\ work'[t].pc = p /\ work'[t].who = w /\ work'[t].scope = s
      /\ \A q \in Threads \ {t} : Keeps(q)
      /\ \A x : x \in crossed' \ crossed => x \in Everyone \X {"remove", "delete"}
      /\ begun' \in Nat
  <2>1. HasBegun(t, o, w, s, n, p)
    BY BeginFrame
  <2>2. QED
    BY <2>1 DEF HasBegun
<1>2. RequestRight(work'[t])
  BY <1>1 DEF RequestRight, StepRight
<1>3. RequestsRight'
  BY <1>1, <1>2, RequestsStay
<1>4. QED
  BY <1>1, <1>3 DEF DirectTypeOK

\* A request that takes its next step.
LEMMA AdvanceTypes ==
  ASSUME DirectTypeOK, RequestsRight, NEW t \in Threads, work[t] # NoWork,
         NEW p \in {"insert", "rows", "tally", "commit", "member", "count", "save", "validate",
                    "store"},
         Advance(t, p), StepRight([op |-> work[t].op, pc |-> p])
  PROVE  /\ work' \in [Threads -> Work \cup {NoWork}]
         /\ RequestsRight'
<1>1. /\ work' \in [Threads -> Work \cup {NoWork}]
      /\ GoesOn(t) /\ work'[t].pc = p
      /\ \A q \in Threads \ {t} : Keeps(q)
  BY AdvanceFrame
<1>2. RequestRight(work[t])
  BY DEF RequestsRight
<1>3. RequestRight(work'[t])
  BY <1>1, <1>2 DEF RequestRight, StepRight, GoesOn
<1>4. QED
  BY <1>1, <1>3, RequestsStay

LEMMA AdvanceWithTypes ==
  ASSUME DirectTypeOK, RequestsRight, NEW t \in Threads, work[t] # NoWork,
         NEW p \in {"commit", "save"}, NEW k \in Nat, AdvanceWith(t, p, k),
         StepRight([op |-> work[t].op, pc |-> p])
  PROVE  /\ work' \in [Threads -> Work \cup {NoWork}]
         /\ RequestsRight'
<1>1. /\ work' \in [Threads -> Work \cup {NoWork}]
      /\ GoesOn(t) /\ work'[t].pc = p
      /\ \A q \in Threads \ {t} : Keeps(q)
  BY AdvanceWithFrame
<1>2. RequestRight(work[t])
  BY DEF RequestsRight
<1>3. RequestRight(work'[t])
  BY <1>1, <1>2 DEF RequestRight, StepRight, GoesOn
<1>4. QED
  BY <1>1, <1>3, RequestsStay

LEMMA DoneTypes ==
  ASSUME DirectTypeOK, RequestsRight, NEW t \in Threads, Done(t)
  PROVE  /\ work' \in [Threads -> Work \cup {NoWork}]
         /\ RequestsRight'
BY DoneFrame, NoWorkRight, RequestsStay

LEMMA OneStatementTypes ==
  ASSUME DirectTypeOK, RequestsRight, NEW o, NEW w, OneStatement(o, w)
  PROVE  /\ work' \in [Threads -> Work \cup {NoWork}]
         /\ \A q \in Threads :
              /\ Keeps(q)
              /\ work'[q] = NoWork <=> work[q] = NoWork
              /\ work[q] # NoWork /\ <<o, w>> \in Disturbances => <<o, w>> \in work'[q].met
         /\ RequestsRight' /\ begun' \in Nat
<1>1. /\ work' \in [Threads -> Work \cup {NoWork}]
      /\ \A q \in Threads :
              /\ Keeps(q)
              /\ work'[q] = NoWork <=> work[q] = NoWork
              /\ work[q] # NoWork /\ <<o, w>> \in Disturbances => <<o, w>> \in work'[q].met
  BY MeetingFrame DEF OneStatement, Keeps
<1>2. RequestsRight'
  BY <1>1 DEF RequestsRight, RequestRight, StepRight, Keeps
<1>3. begun' \in Nat
  BY DEF OneStatement, DirectTypeOK
<1>4. QED
  BY <1>1, <1>2, <1>3

LEMMA DirectTypeNext ==
  ASSUME DirectTypeOK, RequestsRight, [DirectNext]_directVars
  PROVE  DirectTypeOK' /\ RequestsRight'
<1> DEFINE Typed == work' \in [Threads -> Work \cup {NoWork}] /\ RequestsRight'
<1>1. ASSUME NEW t \in Threads, NEW u \in People, BeginOpen(t, u) \/ BeginReply(t, u)
      PROVE  DirectTypeOK' /\ RequestsRight'
  <2>1. u \in Everyone /\ (BeginWork(t, "open", u, "none", 0, "lookup")
                           \/ BeginWork(t, "reply", u, "none", 0, "lookup"))
    BY <1>1 DEF BeginOpen, BeginReply, Everyone
  <2>2. /\ RequestsRight' /\ work' \in [Threads -> Work \cup {NoWork}]
        /\ crossed' \subseteq Everyone \X {"remove", "delete"} /\ begun' \in Nat
    BY <2>1, BeginTypes, RightBeginnings DEF Openings, BotOps
  <2>3. UNCHANGED <<rows, deleted, lost>>
    BY <1>1 DEF BeginOpen, BeginReply
  <2>4. QED
    BY <2>2, <2>3 DEF DirectTypeOK, rows
<1>2. ASSUME NEW t \in Threads, Lookup(t) \/ InsertChat(t) \/ WriteMembers(t)
      PROVE  DirectTypeOK' /\ RequestsRight'
  <2>1. work[t] # NoWork /\ work[t].op \in Openings
    BY <1>2, RecordTypes DEF Lookup, InsertChat, WriteMembers, Opens
  <2>2. Advance(t, "rows") \/ Advance(t, "insert") \/ Advance(t, "tally") \/ Done(t)
    BY <1>2 DEF Lookup, InsertChat, WriteMembers
  <2>3. \A p \in {"insert", "rows", "tally"} : StepRight([op |-> work[t].op, pc |-> p])
    BY <2>1, RightSteps
  <2>4. Typed
    BY <2>1, <2>2, <2>3, AdvanceTypes, DoneTypes
  <2>5. UNCHANGED <<rows, begun, history>>
    BY <1>2 DEF Lookup, InsertChat, WriteMembers
  <2>6. QED
    BY <2>4, <2>5 DEF DirectTypeOK, rows, history
<1>3. ASSUME NEW t \in Threads, Tally(t)
      PROVE  DirectTypeOK' /\ RequestsRight'
  <2>1. work[t] # NoWork /\ work[t].op \in Openings
    BY <1>3, RecordTypes DEF Tally, Opens
  <2>2. Cardinality(inChat \cup pair) \in Nat
    BY ChatCardinality DEF DirectTypeOK
  <2>3. StepRight([op |-> work[t].op, pc |-> "commit"])
    BY <2>1, RightSteps
  <2>4. Typed
    BY <1>3, <2>1, <2>2, <2>3, AdvanceWithTypes DEF Tally
  <2>5. QED
    BY <1>3, <2>4 DEF DirectTypeOK, rows, history, Tally
<1>4. ASSUME NEW t \in Threads, CommitChat(t)
      PROVE  DirectTypeOK' /\ RequestsRight'
  <2>1. work[t] # NoWork /\ work[t].op \in Openings
    BY <1>4, RecordTypes DEF CommitChat, Opens
  <2>2. (work[t].op = "reply" /\ Advance(t, "validate")) \/ Done(t)
    BY <1>4 DEF CommitChat
  <2>3. Typed
    BY <2>1, <2>2, AdvanceTypes, DoneTypes, RightSteps
  <2>4. work[t].n \in Nat
    BY <2>1, RecordTypes DEF Work
  <2>5. QED
    BY <1>4, <2>3, <2>4 DEF DirectTypeOK, history, CommitChat
<1>5. ASSUME NEW t \in Threads, NEW b \in Bots, NEW s \in Scopes, BeginAdd(t, b, s)
      PROVE  DirectTypeOK' /\ RequestsRight'
  <2>1. b \in Everyone /\ BeginWork(t, "add", b, s, 0, "access")
    BY <1>5 DEF BeginAdd, Everyone
  <2>2. /\ RequestsRight' /\ work' \in [Threads -> Work \cup {NoWork}]
        /\ crossed' \subseteq Everyone \X {"remove", "delete"} /\ begun' \in Nat
    BY <2>1, BeginTypes, RightBeginnings DEF BotOps
  <2>3. QED
    BY <1>5, <2>2 DEF DirectTypeOK, rows, BeginAdd
<1>6. ASSUME NEW t \in Threads, NEW b \in Bots,
             BeginRemove(t, b) \/ DeleteBot(t, b) \/ BeginBotSend(t, b)
      PROVE  DirectTypeOK' /\ RequestsRight'
  <2>1. b \in Everyone /\ bot[b].token \in Nat
    BY DEF Everyone, DirectTypeOK
  <2>2. \/ BeginWork(t, "remove", b, "none", 0, "access")
        \/ BeginWork(t, "delete", b, "none", 0, "memberships")
        \/ BeginWork(t, "send", b, "none", bot[b].token, "check")
    BY <1>6 DEF BeginRemove, DeleteBot, BeginBotSend
  <2>3. /\ RequestsRight' /\ work' \in [Threads -> Work \cup {NoWork}]
        /\ crossed' \subseteq Everyone \X {"remove", "delete"} /\ begun' \in Nat
    BY <2>1, <2>2, BeginTypes, RightBeginnings DEF BotOps
  <2>4. bot' \in [Bots -> [on : BOOLEAN, token : Nat]]
    BY <1>6 DEF BeginRemove, DeleteBot, BeginBotSend, rows, DirectTypeOK
  <2>5. UNCHANGED <<pair, chat, inChat, count, admitted, deleted, lost>>
    BY <1>6 DEF BeginRemove, DeleteBot, BeginBotSend, rows
  <2>6. QED
    BY <2>3, <2>4, <2>5 DEF DirectTypeOK
<1>7. ASSUME NEW t \in Threads,
             AddAccess(t) \/ AddMember(t) \/ RemoveAccess(t) \/ RemoveMember(t)
      PROVE  DirectTypeOK' /\ RequestsRight'
  <2>1. work[t] # NoWork /\ work[t].op \in {"add", "remove"}
    BY <1>7, RecordTypes DEF AddAccess, AddMember, RemoveAccess, RemoveMember, AtStep
  <2>2. RequestRight(work[t])
    BY DEF RequestsRight
  <2>3. Who(t) \in Bots /\ (work[t].op = "add" => work[t].scope \in Scopes)
    BY <2>1, <2>2 DEF RequestRight, Who, BotOps
  <2>4. Advance(t, "member") \/ Advance(t, "count")
    BY <1>7 DEF AddAccess, AddMember, RemoveAccess, RemoveMember
  <2>5. Typed
    BY <2>1, <2>4, AdvanceTypes, RightSteps
  <2>6. inChat' \subseteq Everyone /\ admitted' \in [Bots -> {"none", "off"} \cup Scopes]
    BY <1>7, <2>3 DEF AddAccess, AddMember, RemoveAccess, RemoveMember, AtStep, Everyone, DirectTypeOK
  <2>7. UNCHANGED <<pair, chat, count, bot, begun, history>>
    BY <1>7 DEF AddAccess, AddMember, RemoveAccess, RemoveMember
  <2>8. QED
    BY <2>5, <2>6, <2>7 DEF DirectTypeOK, history
<1>8. ASSUME NEW t \in Threads, CountMembers(t)
      PROVE  DirectTypeOK' /\ RequestsRight'
  <2>1. work[t] # NoWork /\ work[t].op \in {"add", "remove"}
    BY <1>8, RecordTypes DEF CountMembers, AtStep
  <2>2. Cardinality(inChat) \in Nat
    BY ChatCardinality DEF DirectTypeOK
  <2>3. Typed
    BY <1>8, <2>1, <2>2, AdvanceWithTypes, RightSteps DEF CountMembers
  <2>4. QED
    BY <1>8, <2>3 DEF DirectTypeOK, rows, history, CountMembers
<1>9. ASSUME NEW t \in Threads, SaveCount(t) \/ DeleteAccess(t) \/ StoreMessage(t) \/ WorkerDies(t)
      PROVE  DirectTypeOK' /\ RequestsRight'
  <2>1. work[t] # NoWork
    BY <1>9, RecordTypes DEF SaveCount, DeleteAccess, StoreMessage, WorkerDies, AtStep
  <2>2. RequestRight(work[t]) /\ work[t].n \in Nat
    BY <2>1, RecordTypes DEF RequestsRight, Work
  <2>3. work[t].op \in {"add", "remove", "delete"} => Who(t) \in Bots
    BY <2>2 DEF RequestRight, Who, BotOps
  <2>4. Done(t)
    BY <1>9 DEF SaveCount, DeleteAccess, StoreMessage, WorkerDies
  <2>5. Typed
    BY <2>4, DoneTypes
  <2>6. /\ count' \in Nat /\ admitted' \in [Bots -> {"none", "off"} \cup Scopes]
        /\ deleted' \subseteq Bots /\ lost' \subseteq Bots \X {"add", "remove"}
    BY <1>9, <2>2, <2>3 DEF SaveCount, DeleteAccess, StoreMessage, WorkerDies, rows, history,
                            AtStep, DirectTypeOK
  <2>7. UNCHANGED <<pair, chat, inChat, bot, begun, crossed>>
    BY <1>9 DEF SaveCount, DeleteAccess, StoreMessage, WorkerDies, rows, history
  <2>8. QED
    BY <2>5, <2>6, <2>7 DEF DirectTypeOK
<1>10. ASSUME NEW t \in Threads, CheckBot(t) \/ ValidateSender(t)
       PROVE  DirectTypeOK' /\ RequestsRight'
  <2>1. work[t] # NoWork
    BY <1>10, RecordTypes DEF CheckBot, ValidateSender, AtStep
  <2>2. RequestRight(work[t]) /\ work[t] \in Work
    BY <2>1, RecordTypes DEF RequestsRight
  <2>3. work[t].op \in {"send", "reply"} /\ (CheckBot(t) => work[t].op = "send")
    BY <1>10, <2>2 DEF CheckBot, ValidateSender, AtStep, RequestRight, StepRight, Work, BotOps, Openings
  <2>4. (Advance(t, "validate") /\ work[t].op = "send") \/ Advance(t, "store") \/ Done(t)
    BY <1>10, <2>3 DEF CheckBot, ValidateSender
  <2>5. Typed
    BY <2>1, <2>3, <2>4, AdvanceTypes, DoneTypes, RightSteps
  <2>6. QED
    BY <1>10, <2>5 DEF CheckBot, ValidateSender, rows, history, DirectTypeOK
<1>11. ASSUME NEW b \in Bots, RotateToken(b) \/ \E on \in BOOLEAN : SetActive(b, on)
       PROVE  DirectTypeOK' /\ RequestsRight'
  <2>1. OneStatement("set", b) \/ OneStatement("rotate", b)
    BY <1>11 DEF RotateToken, SetActive
  <2>2. Typed /\ begun' \in Nat
    BY <2>1, OneStatementTypes
  <2>3. bot' \in [Bots -> [on : BOOLEAN, token : Nat]]
    BY <1>11 DEF RotateToken, SetActive, DirectTypeOK
  <2>4. UNCHANGED <<pair, chat, inChat, count, admitted, history>>
    BY <1>11 DEF RotateToken, SetActive, OneStatement
  <2>5. QED
    BY <2>2, <2>3, <2>4 DEF DirectTypeOK, history
<1>12. ASSUME UNCHANGED directVars
       PROVE  DirectTypeOK' /\ RequestsRight'
  BY <1>12 DEF directVars, DirectTypeOK, RequestsRight
<1>13. QED
  BY <1>1, <1>2, <1>3, <1>4, <1>5, <1>6, <1>7, <1>8, <1>9, <1>10, <1>11, <1>12
     DEF DirectNext, DirectStep

-----------------------------------------------------------------------------
(* Requests that meet *)

\* No request begins.
Calm == /\ crossed' = crossed
        /\ \A q \in Threads : work'[q] = NoWork \/ GoesOn(q)

LEMMA CalmOrBegins ==
  ASSUME DirectTypeOK, RequestsRight, DirectNext
  PROVE  \/ Calm
         \/ \E t \in Threads, o \in Openings \cup BotOps, w \in Everyone :
              \E s, n, p : HasBegun(t, o, w, s, n, p)
<1> DEFINE Begins == \E t \in Threads, o \in Openings \cup BotOps, w \in Everyone :
                       \E s, n, p : HasBegun(t, o, w, s, n, p)
<1>1. ASSUME NEW t \in Threads, Done(t), crossed' = crossed
      PROVE  Calm
  BY <1>1, DoneFrame DEF Calm, GoesOn, Keeps
<1>2. ASSUME NEW t \in Threads, work[t] # NoWork, crossed' = crossed,
             NEW p \in {"insert", "rows", "tally", "commit", "member", "count", "save",
                        "validate", "store"}, Advance(t, p)
      PROVE  Calm
  BY <1>2, AdvanceFrame DEF Calm, GoesOn, Keeps
<1>3. ASSUME NEW t \in Threads, work[t] # NoWork, crossed' = crossed,
             NEW p \in {"commit", "save"}, NEW k \in Nat, AdvanceWith(t, p, k)
      PROVE  Calm
  BY <1>3, AdvanceWithFrame DEF Calm, GoesOn, Keeps
<1>4. ASSUME NEW t \in Threads, NEW o \in Openings \cup BotOps, NEW w \in Everyone,
             NEW s \in {"none"} \cup Scopes, NEW n \in Nat,
             NEW p \in {"lookup", "access", "memberships", "check"}, BeginWork(t, o, w, s, n, p)
      PROVE  Begins
  BY <1>4, BeginFrame
<1>5. \A t \in Threads, u \in People : BeginOpen(t, u) \/ BeginReply(t, u) => Begins
  BY <1>4 DEF BeginOpen, BeginReply, Everyone, Openings
<1>6. \A t \in Threads, b \in Bots :
        (\E s \in Scopes : BeginAdd(t, b, s)) \/ BeginRemove(t, b) \/ DeleteBot(t, b) => Begins
  BY <1>4 DEF BeginAdd, BeginRemove, DeleteBot, Everyone, BotOps
<1>7. ASSUME NEW t \in Threads, NEW b \in Bots, BeginBotSend(t, b)
      PROVE  Begins
  <2>1. bot[b].token \in Nat
    BY DEF DirectTypeOK
  <2>2. QED
    BY <1>4, <1>7, <2>1 DEF BeginBotSend, Everyone, BotOps
<1>8. ASSUME NEW t \in Threads,
             Lookup(t) \/ InsertChat(t) \/ WriteMembers(t) \/ CommitChat(t) \/ AddAccess(t)
               \/ AddMember(t) \/ RemoveAccess(t) \/ RemoveMember(t) \/ CheckBot(t)
               \/ ValidateSender(t)
      PROVE  Calm
  <2>1. work[t] # NoWork
    BY <1>8, RecordTypes DEF Lookup, InsertChat, WriteMembers, CommitChat, AddAccess, AddMember,
                             RemoveAccess, RemoveMember, CheckBot, ValidateSender, AtStep, Opens,
                             Openings
  <2>2. /\ crossed' = crossed
        /\ Done(t) \/ \E p \in {"insert", "rows", "tally", "member", "count", "validate", "store"} :
                        Advance(t, p)
    BY <1>8 DEF Lookup, InsertChat, WriteMembers, CommitChat, AddAccess, AddMember, RemoveAccess,
                RemoveMember, CheckBot, ValidateSender, history
  <2>3. QED
    BY <1>1, <1>2, <2>1, <2>2
<1>9. ASSUME NEW t \in Threads, Tally(t) \/ CountMembers(t)
      PROVE  Calm
  <2>1. work[t] # NoWork /\ crossed' = crossed
    BY <1>9, RecordTypes DEF Tally, CountMembers, AtStep, Opens, Openings, history
  <2>2. Cardinality(inChat) \in Nat /\ Cardinality(inChat \cup pair) \in Nat
    BY ChatCardinality DEF DirectTypeOK
  <2>3. QED
    BY <1>3, <1>9, <2>1, <2>2 DEF Tally, CountMembers
<1>10. ASSUME NEW t \in Threads, SaveCount(t) \/ DeleteAccess(t) \/ StoreMessage(t) \/ WorkerDies(t)
       PROVE  Calm
  BY <1>1, <1>10 DEF SaveCount, DeleteAccess, StoreMessage, WorkerDies, history
<1>11. ASSUME NEW b \in Bots, RotateToken(b) \/ \E on \in BOOLEAN : SetActive(b, on)
       PROVE  Calm
  <2>1. crossed' = crossed /\ (OneStatement("set", b) \/ OneStatement("rotate", b))
    BY <1>11 DEF RotateToken, SetActive, OneStatement, history
  <2>2. QED
    BY <2>1, OneStatementTypes DEF Calm, GoesOn, Keeps
<1>12. QED
  BY <1>5, <1>6, <1>7, <1>8, <1>9, <1>10, <1>11 DEF DirectNext, DirectStep

LEMMA MeetingsNext ==
  ASSUME DirectTypeOK, RequestsRight, CrossingsSeen, MeetingsSeen, [DirectNext]_directVars
  PROVE  CrossingsSeen' /\ MeetingsSeen'
<1>1. CASE Calm
  <2>1. CrossingsSeen'
    BY <1>1 DEF CrossingsSeen, Calm, GoesOn, Who, NoWork
  <2>2. MeetingsSeen'
    <3> SUFFICES ASSUME NEW t \in Threads, NEW q \in Threads, t # q, work'[t].op # "none",
                        work'[q].op \in Openings \cup {"add", "remove", "delete"}
                 PROVE  <<work'[q].op, work'[q].who>> \in work'[t].met
      BY DEF MeetingsSeen, Who
    <3>1. GoesOn(t) /\ GoesOn(q)
      BY <1>1 DEF Calm, NoWork, Openings
    <3>2. QED
      BY <3>1 DEF MeetingsSeen, GoesOn, Who
  <2>3. QED
    BY <2>1, <2>2
<1>2. ASSUME NEW r \in Threads, NEW o \in Openings \cup BotOps, NEW w \in Everyone,
             NEW s, NEW n, NEW p, HasBegun(r, o, w, s, n, p)
      PROVE  CrossingsSeen' /\ MeetingsSeen'
  <2>1. work'[r].op = o /\ work'[r].who = w /\ \A q \in Threads \ {r} : Keeps(q)
    BY <1>2 DEF HasBegun
  <2>2. CrossingsSeen'
    <3> SUFFICES ASSUME NEW t \in Threads, NEW q \in Threads, work'[t].op = "add",
                        work'[q].op \in {"remove", "delete"}, work'[t].who = work'[q].who
                 PROVE  <<work'[q].who, work'[q].op>> \in crossed'
      BY DEF CrossingsSeen, Who
    <3>1. CASE t # r /\ q # r
      <4>1. Keeps(t) /\ Keeps(q) /\ crossed \subseteq crossed'
        BY <1>2, <2>1, <3>1 DEF HasBegun
      <4>2. QED
        BY <4>1 DEF CrossingsSeen, Keeps, Who
    <3>2. CASE t = r
      <4>1. q # r /\ Keeps(q)
        BY <2>1, <3>2
      <4>2. Who(q) = w /\ o = "add" /\ work[q].op \in {"remove", "delete"}
        BY <2>1, <3>2, <4>1 DEF Keeps, Who
      <4>3. <<w, work[q].op>> \in crossed'
        BY <1>2, <4>1, <4>2 DEF HasBegun
      <4>4. QED
        BY <4>1, <4>2, <4>3 DEF Keeps, Who
    <3>3. CASE q = r
      <4>1. t # r /\ Keeps(t)
        BY <2>1, <3>3
      <4>2. Who(t) = w /\ work[t].op = "add" /\ o \in {"remove", "delete"}
        BY <2>1, <3>3, <4>1 DEF Keeps, Who
      <4>3. <<w, o>> \in crossed'
        BY <1>2, <4>1, <4>2 DEF HasBegun
      <4>4. QED
        BY <2>1, <3>3, <4>3
    <3>4. QED
      BY <3>1, <3>2, <3>3
  <2>3. MeetingsSeen'
    <3> SUFFICES ASSUME NEW t \in Threads, NEW q \in Threads, t # q, work'[t].op # "none",
                        work'[q].op \in Openings \cup {"add", "remove", "delete"}
                 PROVE  <<work'[q].op, work'[q].who>> \in work'[t].met
      BY DEF MeetingsSeen, Who
    <3>1. CASE t # r /\ q # r
      <4>1. Keeps(t) /\ Keeps(q)
        BY <2>1, <3>1
      <4>2. QED
        BY <4>1 DEF MeetingsSeen, Keeps, Who
    <3>2. CASE t = r
      <4>1. Keeps(q)
        BY <2>1, <3>2
      <4>2. work[q].op \in Openings \cup {"add", "remove", "delete"}
        BY <4>1 DEF Keeps
      <4>3. work[q] # NoWork
        BY <4>2 DEF NoWork, Openings
      <4>4. <<work[q].op, Who(q)>> \in Disturbances
        BY <4>2, <4>3, RecordTypes DEF Disturbances, Changes, Who, Work
      <4>5. <<work[q].op, Who(q)>> \in work'[r].met
        BY <1>2, <3>2, <4>3, <4>4 DEF HasBegun
      <4>6. QED
        BY <3>2, <4>1, <4>5 DEF Keeps, Who
    <3>3. CASE q = r
      <4>1. Keeps(t)
        BY <2>1, <3>3
      <4>2. work[t] # NoWork
        BY <4>1 DEF Keeps, NoWork
      <4>3. <<o, w>> \in Disturbances
        BY <2>1, <3>3 DEF Disturbances, Changes
      <4>4. <<o, w>> \in work'[t].met
        BY <1>2, <3>3, <4>2, <4>3 DEF HasBegun
      <4>5. QED
        BY <2>1, <3>3, <4>4
    <3>4. QED
      BY <3>1, <3>2, <3>3
  <2>4. QED
    BY <2>2, <2>3
<1>3. CASE UNCHANGED directVars
  BY <1>3 DEF directVars, CrossingsSeen, MeetingsSeen, Who
<1>4. QED
  BY <1>1, <1>2, <1>3, CalmOrBegins

-----------------------------------------------------------------------------
(* The two rows of a bot *)

\* The request r is not where the rows of a bot may differ.
Away(r) == /\ r.op = "add" => r.pc \notin {"access", "member"}
           /\ r.op = "remove" => r.pc # "member"

\* No row of a bot changes, but that the users of the chat become members, and
\* no request comes or goes where the rows may differ.
Quiet == /\ UNCHANGED <<pair, admitted, deleted, lost>>
         /\ inChat \subseteq inChat' /\ inChat' \subseteq inChat \cup pair
         /\ crossed \subseteq crossed'
         /\ \A q \in Threads : Keeps(q) \/ (Away(work[q]) /\ Away(work'[q]))

LEMMA QuietRows ==
  ASSUME BetweenRows, RowsAgree, Quiet
  PROVE  BetweenRows' /\ RowsAgree'
<1>1. \A b : /\ Some(b, {"add"}, "access")' = Some(b, {"add"}, "access")
             /\ Some(b, {"add"}, "member")' = Some(b, {"add"}, "member")
             /\ Some(b, {"remove"}, "member")' = Some(b, {"remove"}, "member")
  BY DEF Quiet, Some, AtStep, Who, Keeps, Away
<1>2. ASSUME NEW t \in Threads
      PROVE  Between(t)'
  <2>1. CASE Keeps(t)
    BY <1>1, <2>1 DEF BetweenRows, Between, Quiet, Keeps, AtStep, Who, Admits
  <2>2. CASE Away(work'[t])
    BY <2>2 DEF Between, Away, AtStep
  <2>3. QED
    BY <2>1, <2>2 DEF Quiet
<1>3. ASSUME NEW b \in Bots
      PROVE  Agree(b)'
  BY <1>1 DEF RowsAgree, Agree, Quiet, Admits
<1>4. QED
  BY <1>2, <1>3 DEF BetweenRows, RowsAgree

\* A request of another thread stays where it is.
LEMMA OthersStay ==
  ASSUME NEW t \in Threads, \A q \in Threads \ {t} : Keeps(q), NEW b, NEW O, NEW p, Some(b, O, p)
  PROVE  Some(b, O, p)' \/ (AtStep(t, O, p) /\ Who(t) = b)
BY DEF Some, AtStep, Who, Keeps

RowsInv == /\ DirectTypeOK /\ RequestsRight
           /\ CrossingsSeen /\ BetweenRows /\ RowsAgree

\* What is said of the other bots does not change with the rows of b, when only
\* the thread t moves, which serves a request about b or none.
LEMMA OtherBots ==
  ASSUME RowsInv, NEW t \in Threads, \A q \in Threads \ {t} : Keeps(q), NEW b,
         Who(t) \in {b, NoOne},
         UNCHANGED pair, crossed \subseteq crossed', lost \subseteq lost',
         \A c \in Bots \ {b} : /\ admitted'[c] = admitted[c]
                               /\ c \in inChat' <=> c \in inChat
                               /\ c \in deleted' <=> c \in deleted
  PROVE  /\ \A c \in Bots \ {b} : Agree(c)'
         /\ \A q \in Threads \ {t} : Who(q) # b => Between(q)'
<1>1. ASSUME NEW c \in Bots \ {b}, NEW O, NEW p, Some(c, O, p)
      PROVE  Some(c, O, p)'
  <2>1. Who(t) # c
    BY DirectAssumption
  <2>2. QED
    BY <1>1, <2>1, OthersStay
<1>2. ASSUME NEW c \in Bots \ {b}
      PROVE  Agree(c)'
  BY <1>1, <1>2 DEF RowsInv, RowsAgree, Agree, Admits
<1>3. ASSUME NEW q \in Threads \ {t}, Who(q) # b
      PROVE  Between(q)'
  <2>1. Keeps(q) /\ RequestRight(work[q]) /\ Between(q)
    BY DEF RowsInv, RequestsRight, BetweenRows
  <2>2. work[q].op \in {"add", "remove"} => Who(q) \in Bots
    BY <2>1 DEF RequestRight, BotOps, Who
  <2>3. /\ work[q].op = "add" /\ Some(Who(q), {"add"}, "access")
        => Some(Who(q), {"add"}, "access")'
    BY <1>1, <1>3, <2>1, <2>2 DEF Keeps, Who
  <2>4. QED
    BY <1>3, <2>1, <2>2, <2>3 DEF Between, AtStep, Who, Admits, Keeps
<1>4. QED
  BY <1>2, <1>3

LEMMA AddAccessRows ==
  ASSUME RowsInv, NEW t \in Threads, AddAccess(t)
  PROVE  BetweenRows' /\ RowsAgree'
<1>0. PICK b : Who(t) = b
  OBVIOUS
<1>1. work[t].op = "add" /\ work[t].pc = "access" /\ work[t] # NoWork
  BY RecordTypes DEF AddAccess, AtStep, RowsInv
<1>2. b \in Bots /\ work[t].scope \in Scopes
  BY <1>0, <1>1 DEF RowsInv, RequestsRight, RequestRight, BotOps, Who
<1>3. /\ work'[t].op = "add" /\ work'[t].pc = "member" /\ work'[t].who = b
      /\ \A q \in Threads \ {t} : Keeps(q)
  BY <1>0, <1>1, AdvanceFrame DEF AddAccess, GoesOn, Who, RowsInv
<1>4. admitted'[b] \in Scopes /\ \A c \in Bots \ {b} : admitted'[c] = admitted[c]
  BY <1>0, <1>2 DEF AddAccess, RowsInv, DirectTypeOK
<1>5. UNCHANGED <<pair, inChat, deleted, crossed, lost>>
  BY DEF AddAccess, history
<1>6. /\ \A c \in Bots \ {b} : Agree(c)'
      /\ \A q \in Threads \ {t} : Who(q) # b => Between(q)'
  BY <1>0, <1>3, <1>4, <1>5, OtherBots
<1>7. ASSUME NEW q \in Threads, Who(q) = b
      PROVE  Between(q)'
  <2>1. CASE q = t
    BY <1>3, <1>4, <2>1 DEF Between, AtStep, Who, Admits
  <2>2. CASE q # t
    <3>1. AtStep(q, {"remove"}, "member") => <<b, "remove">> \in crossed
      BY <1>0, <1>1, <1>7 DEF RowsInv, CrossingsSeen, AtStep
    <3>2. Keeps(q) /\ Between(q)
      BY <1>3, <2>2 DEF RowsInv, BetweenRows
    <3>3. QED
      BY <1>4, <1>5, <1>7, <3>1, <3>2 DEF AtStep, Who, Admits, Keeps, Between
  <2>3. QED
    BY <2>1, <2>2
<1>8. Agree(b)'
  <2>1. Some(b, {"add"}, "member")'
    BY <1>3 DEF Some, AtStep, Who
  <2>2. b \in deleted => <<b, "delete">> \in crossed
    BY <1>0, <1>1 DEF RowsInv, BetweenRows, Between, AtStep
  <2>3. QED
    BY <1>4, <1>5, <2>1, <2>2 DEF Admits, Agree
<1>9. QED
  BY <1>0, <1>6, <1>7, <1>8 DEF BetweenRows, RowsAgree

LEMMA AddMemberRows ==
  ASSUME RowsInv, NEW t \in Threads, AddMember(t)
  PROVE  BetweenRows' /\ RowsAgree'
<1>0. PICK b : Who(t) = b
  OBVIOUS
<1>1. work[t].op = "add" /\ work[t].pc = "member" /\ work[t] # NoWork
  BY RecordTypes DEF AddMember, AtStep, RowsInv
<1>2. b \in Bots
  BY <1>0, <1>1 DEF RowsInv, RequestsRight, RequestRight, BotOps, Who
<1>3. /\ work'[t].op = "add" /\ work'[t].pc = "count"
      /\ work'[t].who = b /\ \A q \in Threads \ {t} : Keeps(q)
  BY <1>0, <1>1, AdvanceFrame DEF AddMember, GoesOn, Who, RowsInv
<1>4. b \in inChat' /\ \A c \in Bots \ {b} : c \in inChat' <=> c \in inChat
  BY <1>0 DEF AddMember
<1>5. UNCHANGED <<pair, admitted, deleted, crossed, lost>>
  BY DEF AddMember, history
<1>6. /\ \A c \in Bots \ {b} : Agree(c)'
      /\ \A q \in Threads \ {t} : Who(q) # b => Between(q)'
  BY <1>0, <1>3, <1>4, <1>5, OtherBots
<1>7. ASSUME NEW q \in Threads, Who(q) = b
      PROVE  Between(q)'
  <2>1. CASE q = t
    BY <1>3, <2>1 DEF Between, AtStep, Who
  <2>2. CASE q # t
    <3>1. Some(b, {"add"}, "access") => Some(b, {"add"}, "access")'
      BY <1>1, <1>3, OthersStay DEF AtStep
    <3>2. Keeps(q) /\ Between(q)
      BY <1>3, <2>2 DEF RowsInv, BetweenRows
    <3>3. QED
      BY <1>4, <1>5, <1>7, <3>1, <3>2 DEF AtStep, Who, Admits, Keeps, Between
  <2>3. QED
    BY <2>1, <2>2
<1>8. Agree(b)'
  <2>1. \/ <<b, "remove">> \in crossed \/ <<b, "add">> \in lost
        \/ Admits(b) \/ b \in deleted \/ Some(b, {"add"}, "access")
    BY <1>0, <1>1 DEF RowsInv, BetweenRows, Between, AtStep
  <2>2. Some(b, {"add"}, "access") => Some(b, {"add"}, "access")'
    BY <1>1, <1>3, OthersStay DEF AtStep
  <2>3. Agree(b)
    BY <1>2 DEF RowsInv, RowsAgree
  <2>4. QED
    BY <1>4, <1>5, <2>1, <2>2, <2>3 DEF Admits, Agree
<1>9. QED
  BY <1>0, <1>6, <1>7, <1>8 DEF BetweenRows, RowsAgree

LEMMA RemoveAccessRows ==
  ASSUME RowsInv, NEW t \in Threads, RemoveAccess(t)
  PROVE  BetweenRows' /\ RowsAgree'
<1>0. PICK b : Who(t) = b
  OBVIOUS
<1>1. work[t].op = "remove" /\ work[t].pc = "access" /\ work[t] # NoWork
  BY RecordTypes DEF RemoveAccess, AtStep, RowsInv
<1>2. b \in Bots
  BY <1>0, <1>1 DEF RowsInv, RequestsRight, RequestRight, BotOps, Who
<1>3. /\ work'[t].op = "remove" /\ work'[t].pc = "member"
      /\ work'[t].who = b /\ \A q \in Threads \ {t} : Keeps(q)
  BY <1>0, <1>1, AdvanceFrame DEF RemoveAccess, GoesOn, Who, RowsInv
<1>4. admitted'[b] \notin Scopes /\ \A c \in Bots \ {b} : admitted'[c] = admitted[c]
  BY <1>0, <1>2 DEF RemoveAccess, RowsInv, DirectTypeOK, Scopes
<1>5. UNCHANGED <<pair, inChat, deleted, crossed, lost>>
  BY DEF RemoveAccess, history
<1>6. /\ \A c \in Bots \ {b} : Agree(c)'
      /\ \A q \in Threads \ {t} : Who(q) # b => Between(q)'
  BY <1>0, <1>3, <1>4, <1>5, OtherBots
<1>7. ASSUME NEW q \in Threads, Who(q) = b
      PROVE  Between(q)'
  <2>1. CASE q = t
    BY <1>3, <1>4, <2>1 DEF Between, AtStep, Who, Admits
  <2>2. CASE q # t
    <3>1. AtStep(q, {"add"}, "member") => <<b, "remove">> \in crossed
      BY <1>0, <1>1, <1>7 DEF RowsInv, CrossingsSeen, AtStep
    <3>2. Keeps(q) /\ Between(q)
      BY <1>3, <2>2 DEF RowsInv, BetweenRows
    <3>3. QED
      BY <1>4, <1>5, <1>7, <3>1, <3>2 DEF AtStep, Who, Admits, Keeps, Between
  <2>3. QED
    BY <2>1, <2>2
<1>8. Agree(b)'
  <2>1. Some(b, {"remove"}, "member")'
    BY <1>3 DEF Some, AtStep, Who
  <2>2. QED
    BY <1>4, <2>1 DEF Admits, Agree
<1>9. QED
  BY <1>0, <1>6, <1>7, <1>8 DEF BetweenRows, RowsAgree

LEMMA RemoveMemberRows ==
  ASSUME RowsInv, NEW t \in Threads, RemoveMember(t)
  PROVE  BetweenRows' /\ RowsAgree'
<1>0. PICK b : Who(t) = b
  OBVIOUS
<1>1. work[t].op = "remove" /\ work[t].pc = "member" /\ work[t] # NoWork
  BY RecordTypes DEF RemoveMember, AtStep, RowsInv
<1>2. b \in Bots
  BY <1>0, <1>1 DEF RowsInv, RequestsRight, RequestRight, BotOps, Who
<1>3. /\ work'[t].op = "remove" /\ work'[t].pc = "count"
      /\ work'[t].who = b /\ \A q \in Threads \ {t} : Keeps(q)
  BY <1>0, <1>1, AdvanceFrame DEF RemoveMember, GoesOn, Who, RowsInv
<1>4. b \notin inChat' /\ \A c \in Bots \ {b} : c \in inChat' <=> c \in inChat
  BY <1>0 DEF RemoveMember
<1>5. UNCHANGED <<pair, admitted, deleted, crossed, lost>>
  BY DEF RemoveMember, history
<1>6. /\ \A c \in Bots \ {b} : Agree(c)'
      /\ \A q \in Threads \ {t} : Who(q) # b => Between(q)'
  BY <1>0, <1>3, <1>4, <1>5, OtherBots
<1>7. ASSUME NEW q \in Threads, Who(q) = b
      PROVE  Between(q)'
  <2>1. CASE q = t
    BY <1>3, <2>1 DEF Between, AtStep, Who
  <2>2. CASE q # t
    <3>1. Some(b, {"add"}, "access") => Some(b, {"add"}, "access")'
      BY <1>1, <1>3, OthersStay DEF AtStep
    <3>2. Keeps(q) /\ Between(q)
      BY <1>3, <2>2 DEF RowsInv, BetweenRows
    <3>3. QED
      BY <1>4, <1>5, <1>7, <3>1, <3>2 DEF AtStep, Who, Admits, Keeps, Between
  <2>3. QED
    BY <2>1, <2>2
<1>8. Agree(b)'
  <2>1. <<b, "remove">> \in crossed \/ ~Admits(b)
    BY <1>0, <1>1 DEF RowsInv, BetweenRows, Between, AtStep
  <2>2. Agree(b)
    BY <1>2 DEF RowsInv, RowsAgree
  <2>3. QED
    BY <1>4, <1>5, <2>1, <2>2 DEF Admits, Agree
<1>9. QED
  BY <1>0, <1>6, <1>7, <1>8 DEF BetweenRows, RowsAgree

LEMMA DeleteAccessRows ==
  ASSUME RowsInv, NEW t \in Threads, DeleteAccess(t)
  PROVE  BetweenRows' /\ RowsAgree'
<1>0. PICK b : Who(t) = b
  OBVIOUS
<1>1. work[t].op = "delete" /\ work[t].pc = "memberships" /\ work[t] # NoWork
  BY RecordTypes DEF DeleteAccess, AtStep, RowsInv
<1>2. b \in Bots
  BY <1>0, <1>1 DEF RowsInv, RequestsRight, RequestRight, BotOps, Who
<1>3. work'[t] = NoWork /\ \A q \in Threads \ {t} : Keeps(q)
  BY DoneFrame DEF DeleteAccess, RowsInv
<1>4. /\ admitted'[b] \notin Scopes /\ b \in deleted'
      /\ \A c \in Bots \ {b} : /\ admitted'[c] = admitted[c]
                               /\ c \in deleted' <=> c \in deleted
  BY <1>0, <1>2 DEF DeleteAccess, RowsInv, DirectTypeOK, Scopes, Admits
<1>5. UNCHANGED <<pair, inChat, crossed, lost>>
  BY DEF DeleteAccess
<1>6. /\ \A c \in Bots \ {b} : Agree(c)'
      /\ \A q \in Threads \ {t} : Who(q) # b => Between(q)'
  BY <1>0, <1>3, <1>4, <1>5, OtherBots
<1>7. ASSUME NEW q \in Threads, Who(q) = b
      PROVE  Between(q)'
  <2>1. CASE q = t
    BY <1>3, <2>1 DEF Between, AtStep, NoWork
  <2>2. CASE q # t
    <3>1. AtStep(q, {"add"}, "access") => <<b, "delete">> \in crossed
      BY <1>0, <1>1, <1>7 DEF RowsInv, CrossingsSeen, AtStep
    <3>2. Keeps(q) /\ Between(q)
      BY <1>3, <2>2 DEF RowsInv, BetweenRows
    <3>3. QED
      BY <1>4, <1>5, <1>7, <3>1, <3>2 DEF AtStep, Who, Admits, Keeps, Between
  <2>3. QED
    BY <2>1, <2>2
<1>8. Agree(b)'
  BY <1>4 DEF Admits, Agree
<1>9. QED
  BY <1>0, <1>6, <1>7, <1>8 DEF BetweenRows, RowsAgree

LEMMA WorkerDiesRows ==
  ASSUME RowsInv, NEW t \in Threads, WorkerDies(t)
  PROVE  BetweenRows' /\ RowsAgree'
<1>0. PICK b : Who(t) = b
  OBVIOUS
<1>3. work'[t] = NoWork /\ \A q \in Threads \ {t} : Keeps(q)
  BY DoneFrame DEF WorkerDies, RowsInv
<1>4. /\ lost \subseteq lost'
      /\ work[t].op \in {"add", "remove"} => <<b, work[t].op>> \in lost'
  BY <1>0 DEF WorkerDies
<1>5. UNCHANGED <<pair, inChat, admitted, deleted, crossed>>
  BY DEF WorkerDies, rows
<1>6. /\ \A c \in Bots \ {b} : Agree(c)'
      /\ \A q \in Threads \ {t} : Who(q) # b => Between(q)'
  BY <1>0, <1>3, <1>4, <1>5, OtherBots
<1>7. ASSUME NEW O, NEW p, Some(b, O, p)
      PROVE  Some(b, O, p)' \/ work[t].op \in O
  BY <1>3, <1>7, OthersStay DEF AtStep
<1>8. ASSUME NEW q \in Threads, Who(q) = b
      PROVE  Between(q)'
  <2>1. CASE q = t
    BY <1>3, <2>1 DEF Between, AtStep, NoWork
  <2>2. CASE q # t
    <3>1. Keeps(q) /\ Between(q)
      BY <1>3, <2>2 DEF RowsInv, BetweenRows
    <3>2. Some(b, {"add"}, "access") => Some(b, {"add"}, "access")' \/ <<b, "add">> \in lost'
      BY <1>4, <1>7
    <3>3. QED
      BY <1>4, <1>5, <1>8, <3>1, <3>2 DEF AtStep, Who, Admits, Keeps, Between
  <2>3. QED
    BY <2>1, <2>2
<1>9. ASSUME b \in Bots
      PROVE  Agree(b)'
  <2>1. Agree(b)
    BY <1>9 DEF RowsInv, RowsAgree
  <2>2. /\ \A p : Some(b, {"add"}, p) => Some(b, {"add"}, p)' \/ <<b, "add">> \in lost'
        /\ Some(b, {"remove"}, "member") => Some(b, {"remove"}, "member")' \/ <<b, "remove">> \in lost'
    BY <1>4, <1>7
  <2>3. QED
    BY <1>4, <1>5, <2>1, <2>2 DEF Admits, Agree
<1>10. QED
  BY <1>0, <1>6, <1>8, <1>9 DEF BetweenRows, RowsAgree

LEMMA BeginAddRows ==
  ASSUME RowsInv, NEW t \in Threads, NEW b \in Bots, NEW s \in Scopes, BeginAdd(t, b, s)
  PROVE  BetweenRows' /\ RowsAgree'
<1>1. HasBegun(t, "add", b, s, 0, "access")
  <2>1. b \in Everyone /\ BeginWork(t, "add", b, s, 0, "access")
    BY DEF BeginAdd, Everyone
  <2>2. QED
    BY <2>1, BeginFrame DEF RowsInv, BotOps
<1>2. work[t].op = "none" /\ Who(t) = NoOne
  BY <1>1 DEF HasBegun, NoWork, Who
<1>3. /\ work'[t].op = "add" /\ work'[t].pc = "access" /\ work'[t].who = b
      /\ \A q \in Threads \ {t} : Keeps(q)
      /\ crossed \subseteq crossed'
  BY <1>1 DEF HasBegun
<1>4. b \notin deleted' /\ \A c \in Bots \ {b} : c \in deleted' <=> c \in deleted
  BY DEF BeginAdd
<1>5. UNCHANGED <<pair, inChat, admitted, lost>>
  BY DEF BeginAdd, rows
<1>6. /\ \A c \in Bots \ {b} : Agree(c)'
      /\ \A q \in Threads \ {t} : Who(q) # b => Between(q)'
  BY <1>2, <1>3, <1>4, <1>5, OtherBots
<1>7. Some(b, {"add"}, "access")'
  BY <1>3 DEF Some, AtStep, Who
<1>8. ASSUME NEW q \in Threads, Who(q) = b
      PROVE  Between(q)'
  <2>1. q # t
    BY <1>2, <1>8, DirectAssumption
  <2>2. Keeps(q) /\ Between(q)
    BY <1>3, <2>1 DEF RowsInv, BetweenRows
  <2>3. QED
    BY <1>3, <1>4, <1>5, <1>7, <1>8, <2>2 DEF AtStep, Who, Admits, Keeps, Between
<1>9. Between(t)'
  BY <1>3, <1>4 DEF Between, AtStep, Who
<1>10. Agree(b)'
  <2>1. Some(b, {"add"}, "member") => Some(b, {"add"}, "member")'
    BY <1>2, <1>3, OthersStay DEF AtStep
  <2>2. Agree(b)
    BY DEF RowsInv, RowsAgree
  <2>3. QED
    BY <1>3, <1>4, <1>5, <1>7, <2>1, <2>2 DEF Admits, Agree
<1>11. QED
  BY <1>6, <1>8, <1>9, <1>10 DEF BetweenRows, RowsAgree

\* Where no request about the rows of a bot is, in the terms of the requests.
LEMMA QuietStep ==
  ASSUME RowsInv, NEW t \in Threads, \A q \in Threads \ {t} : Keeps(q),
         Away(work[t]), Away(work'[t]),
         UNCHANGED <<pair, admitted, deleted, lost>>,
         inChat \subseteq inChat', inChat' \subseteq inChat \cup pair, crossed \subseteq crossed'
  PROVE  BetweenRows' /\ RowsAgree'
<1>1. Quiet
  BY DEF Quiet
<1>2. QED
  BY <1>1, QuietRows DEF RowsInv

LEMMA AwayFrom ==
  ASSUME NEW r
  PROVE  /\ r.op \in Openings \cup {"none", "delete", "send"} => Away(r)
         /\ r.pc \in {"count", "save"} => Away(r)
         /\ r.op = "remove" /\ r.pc = "access" => Away(r)
         /\ r = NoWork => Away(r)
BY DEF Away, Openings, NoWork

LEMMA RowsNext ==
  ASSUME RowsInv, [DirectNext]_directVars
  PROVE  BetweenRows' /\ RowsAgree'
<1> DEFINE Good == BetweenRows' /\ RowsAgree'
<1>1. ASSUME NEW t \in Threads, NEW o \in Openings \cup {"remove", "delete", "send"},
             NEW w \in Everyone, NEW n \in Nat,
             NEW p \in {"lookup", "access", "memberships", "check"},
             BeginWork(t, o, w, "none", n, p), o = "remove" => p = "access",
             UNCHANGED <<pair, inChat, admitted, deleted, lost>>
      PROVE  Good
  <2>1. o \in Openings \cup BotOps /\ "none" \in {"none"} \cup Scopes
    BY DEF BotOps
  <2>2. HasBegun(t, o, w, "none", n, p)
    BY <1>1, <2>1, BeginFrame DEF RowsInv
  <2>3. work[t] = NoWork /\ work'[t].op = o /\ work'[t].pc = p
    BY <2>2 DEF HasBegun
  <2>4. Away(work[t]) /\ Away(work'[t])
    BY <1>1, <2>3, AwayFrom
  <2>5. crossed \subseteq crossed' /\ \A q \in Threads \ {t} : Keeps(q)
    BY <2>2 DEF HasBegun
  <2>6. QED
    BY <1>1, <2>4, <2>5, QuietStep
<1>2. ASSUME NEW t \in Threads, NEW u \in People, BeginOpen(t, u) \/ BeginReply(t, u)
      PROVE  Good
  BY <1>1, <1>2 DEF BeginOpen, BeginReply, rows, Everyone, Openings
<1>3. ASSUME NEW t \in Threads, NEW b \in Bots,
             BeginRemove(t, b) \/ DeleteBot(t, b) \/ BeginBotSend(t, b)
      PROVE  Good
  <2>1. b \in Everyone /\ bot[b].token \in Nat
    BY DEF Everyone, RowsInv, DirectTypeOK
  <2>2. UNCHANGED <<pair, inChat, admitted, deleted, lost>>
    BY <1>3 DEF BeginRemove, DeleteBot, BeginBotSend, rows
  <2>3. \/ BeginWork(t, "remove", b, "none", 0, "access")
        \/ BeginWork(t, "delete", b, "none", 0, "memberships")
        \/ BeginWork(t, "send", b, "none", bot[b].token, "check")
    BY <1>3 DEF BeginRemove, DeleteBot, BeginBotSend
  <2>4. QED
    BY <1>1, <2>1, <2>2, <2>3
<1>4. ASSUME NEW t \in Threads, Lookup(t) \/ InsertChat(t) \/ WriteMembers(t) \/ CommitChat(t)
      PROVE  Good
  <2>1. work[t].op \in Openings /\ work[t] # NoWork
    BY <1>4, RecordTypes DEF Lookup, InsertChat, WriteMembers, CommitChat, Opens, Openings, RowsInv
  <2>2. Done(t) \/ \E p \in {"insert", "rows", "tally", "validate"} : Advance(t, p)
    BY <1>4 DEF Lookup, InsertChat, WriteMembers, CommitChat
  <2>3. /\ work'[t] = NoWork \/ work'[t].op = work[t].op
        /\ \A q \in Threads \ {t} : Keeps(q)
    BY <2>1, <2>2, AdvanceFrame, DoneFrame DEF RowsInv, GoesOn
  <2>4. /\ UNCHANGED <<pair, admitted, deleted, lost, crossed>>
        /\ inChat \subseteq inChat' /\ inChat' \subseteq inChat \cup pair
    BY <1>4 DEF Lookup, InsertChat, WriteMembers, CommitChat, rows, history
  <2>5. Away(work[t]) /\ Away(work'[t])
    BY <2>1, <2>3, AwayFrom
  <2>6. QED
    BY <2>3, <2>4, <2>5, QuietStep
<1>5. ASSUME NEW t \in Threads, Tally(t) \/ CountMembers(t)
      PROVE  Good
  <2>1. work[t] # NoWork /\ (work[t].op \in Openings \/ work[t].pc = "count")
    BY <1>5, RecordTypes DEF Tally, CountMembers, AtStep, Opens, Openings, RowsInv
  <2>2. \E p \in {"commit", "save"}, k \in Nat :
          AdvanceWith(t, p, k) /\ (work[t].op \in Openings \/ p = "save")
    BY <1>5, <2>1, ChatCardinality DEF Tally, CountMembers, Opens, RowsInv, DirectTypeOK
  <2>3. /\ work'[t].op = work[t].op /\ (work[t].op \in Openings \/ work'[t].pc = "save")
        /\ \A q \in Threads \ {t} : Keeps(q)
    BY <2>1, <2>2, AdvanceWithFrame DEF RowsInv, GoesOn
  <2>4. UNCHANGED <<pair, inChat, admitted, deleted, lost, crossed>>
    BY <1>5 DEF Tally, CountMembers, rows, history
  <2>5. Away(work[t]) /\ Away(work'[t])
    BY <2>1, <2>3, AwayFrom
  <2>6. QED
    BY <2>3, <2>4, <2>5, QuietStep
<1>6. ASSUME NEW t \in Threads, SaveCount(t) \/ StoreMessage(t) \/ CheckBot(t) \/ ValidateSender(t)
      PROVE  Good
  <2>1. work[t] # NoWork /\ RequestRight(work[t])
    BY <1>6, RecordTypes DEF SaveCount, StoreMessage, CheckBot, ValidateSender, AtStep, RowsInv,
                             RequestsRight
  <2>2. work[t] \in Work
    BY <2>1, RecordTypes DEF RowsInv
  <2>3. work[t].op \in Openings \cup {"delete", "send"} \/ work[t].pc = "save"
    BY <1>6, <2>1, <2>2 DEF SaveCount, StoreMessage, CheckBot, ValidateSender, AtStep, RequestRight,
                            StepRight, Work, Openings, BotOps
  <2>4. Done(t) \/ (work[t].pc # "save" /\ \E p \in {"validate", "store"} : Advance(t, p))
    BY <1>6 DEF SaveCount, StoreMessage, CheckBot, ValidateSender, AtStep
  <2>5. /\ work'[t] = NoWork \/ (work[t].pc # "save" /\ work'[t].op = work[t].op)
        /\ \A q \in Threads \ {t} : Keeps(q)
    BY <2>1, <2>4, AdvanceFrame, DoneFrame DEF RowsInv, GoesOn
  <2>6. UNCHANGED <<pair, inChat, admitted, deleted, lost, crossed>>
    BY <1>6 DEF SaveCount, StoreMessage, CheckBot, ValidateSender, rows, history
  <2>7. Away(work[t]) /\ Away(work'[t])
    BY <2>3, <2>5, AwayFrom
  <2>8. QED
    BY <2>5, <2>6, <2>7, QuietStep
<1>7. ASSUME NEW b \in Bots, RotateToken(b) \/ \E on \in BOOLEAN : SetActive(b, on)
      PROVE  Good
  <2>1. UNCHANGED <<pair, inChat, admitted, deleted, lost, crossed>>
    BY <1>7 DEF RotateToken, SetActive, OneStatement, history
  <2>2. \A q \in Threads : Keeps(q)
    BY <1>7, OneStatementTypes DEF RotateToken, SetActive, RowsInv
  <2>3. QED
    BY <2>1, <2>2, QuietRows DEF Quiet, RowsInv
<1>8. CASE UNCHANGED directVars
  <2>1. Quiet
    BY <1>8 DEF directVars, Quiet, Keeps
  <2>2. QED
    BY <2>1, QuietRows DEF RowsInv
<1>9. QED
  BY <1>2, <1>3, <1>4, <1>5, <1>6, <1>7, <1>8, AddAccessRows, AddMemberRows, RemoveAccessRows,
     RemoveMemberRows, DeleteAccessRows, WorkerDiesRows, BeginAddRows
     DEF DirectNext, DirectStep

-----------------------------------------------------------------------------
(* Counts of members *)

WorkInv == DirectTypeOK /\ RequestsRight /\ MeetingsSeen

\* Only a request that changes members does so.
LEMMA MembersChange ==
  ASSUME DirectTypeOK, [DirectNext]_directVars
  PROVE  /\ pair' = pair
         /\ \/ inChat' = inChat
            \/ \E q \in Threads : work[q].op \in Changes /\ ~Keeps(q)
<1>1. ASSUME NEW q \in Threads, CommitChat(q) \/ AddMember(q) \/ RemoveMember(q)
      PROVE  pair' = pair /\ work[q].op \in Changes /\ ~Keeps(q)
  <2>1. work[q].op \in Changes /\ work[q] # NoWork /\ pair' = pair
    BY <1>1, RecordTypes DEF CommitChat, AddMember, RemoveMember, AtStep, Opens, Changes, Openings
  <2>2. Done(q) \/ \E p \in {"validate", "count"} : Advance(q, p) /\ work[q].pc # p
    BY <1>1 DEF CommitChat, AddMember, RemoveMember, AtStep, Opens
  <2>3. Done(q) => ~Keeps(q)
    BY <2>1, DoneFrame DEF Keeps, NoWork, Changes, Openings
  <2>4. ASSUME NEW p \in {"validate", "count"}, Advance(q, p), work[q].pc # p
        PROVE  ~Keeps(q)
    <3>1. work'[q].pc = p
      BY <2>1, <2>4, AdvanceFrame
    <3>2. QED
      BY <2>4, <3>1 DEF Keeps
  <2>5. QED
    BY <2>1, <2>2, <2>3, <2>4
<1>2. ASSUME NEW t \in Threads, DirectStep(t),
             ~(CommitChat(t) \/ AddMember(t) \/ RemoveMember(t))
      PROVE  pair' = pair /\ inChat' = inChat
  BY <1>2 DEF DirectStep, BeginOpen, BeginReply, Lookup, InsertChat, WriteMembers, Tally, BeginAdd,
              BeginRemove, DeleteBot, BeginBotSend, AddAccess, RemoveAccess, CountMembers, SaveCount,
              DeleteAccess, CheckBot, ValidateSender, StoreMessage, WorkerDies, rows
<1>3. ASSUME NEW b \in Bots, RotateToken(b) \/ \E on \in BOOLEAN : SetActive(b, on)
      PROVE  pair' = pair /\ inChat' = inChat
  BY <1>3 DEF RotateToken, SetActive
<1>4. CASE UNCHANGED directVars
  BY <1>4 DEF directVars
<1>5. QED
  BY <1>1, <1>2, <1>3, <1>4 DEF DirectNext

\* A request that did not stay where it was has counted now, or not yet.
LEMMA CountsMove ==
  ASSUME DirectTypeOK, [DirectNext]_directVars
  PROVE  \A t \in Threads : Keeps(t) \/ CountRight(t)'
<1> DEFINE Fine == \A t \in Threads : Keeps(t) \/ CountRight(t)'
<1>1. ASSUME NEW t \in Threads, Done(t)
      PROVE  Fine
  <2>1. work'[t] = NoWork /\ \A q \in Threads \ {t} : Keeps(q)
    BY <1>1, DoneFrame
  <2>2. CountRight(t)'
    BY <2>1 DEF CountRight, AtStep, Opens, NoWork
  <2>3. QED
    BY <2>1, <2>2
<1>2. ASSUME NEW t \in Threads, work[t] # NoWork,
             NEW p \in {"insert", "rows", "tally", "member", "count", "validate", "store"},
             Advance(t, p)
      PROVE  Fine
  <2>1. work'[t].pc = p /\ \A q \in Threads \ {t} : Keeps(q)
    BY <1>2, AdvanceFrame
  <2>2. CountRight(t)'
    BY <2>1 DEF CountRight, AtStep, Opens
  <2>3. QED
    BY <2>1, <2>2
<1>3. ASSUME NEW t \in Threads, NEW o \in Openings \cup BotOps, NEW w \in Everyone,
             NEW s \in {"none"} \cup Scopes, NEW n \in Nat,
             NEW p \in {"lookup", "access", "memberships", "check"}, BeginWork(t, o, w, s, n, p)
      PROVE  Fine
  <2>1. HasBegun(t, o, w, s, n, p)
    BY <1>3, BeginFrame
  <2>2. work'[t].pc = p /\ \A q \in Threads \ {t} : Keeps(q)
    BY <2>1 DEF HasBegun
  <2>3. CountRight(t)'
    BY <2>2 DEF CountRight, AtStep, Opens
  <2>4. QED
    BY <2>2, <2>3
<1>4. ASSUME NEW t \in Threads, Tally(t)
      PROVE  Fine
  <2>1. Cardinality(inChat \cup pair) \in Nat
    BY ChatCardinality DEF DirectTypeOK
  <2>2. work[t] # NoWork
    BY <1>4, RecordTypes DEF Tally, Opens, Openings
  <2>3. AdvanceWith(t, "commit", Cardinality(inChat \cup pair)) /\ UNCHANGED <<pair, inChat>>
    BY <1>4 DEF Tally, rows
  <2>4. /\ work'[t].pc = "commit" /\ work'[t].n = Cardinality(inChat \cup pair)
        /\ \A q \in Threads \ {t} : Keeps(q)
    BY <2>1, <2>2, <2>3, AdvanceWithFrame
  <2>5. CountRight(t)'
    BY <2>3, <2>4 DEF CountRight, AtStep
  <2>6. QED
    BY <2>4, <2>5
<1>5. ASSUME NEW t \in Threads, CountMembers(t)
      PROVE  Fine
  <2>1. Cardinality(inChat) \in Nat
    BY ChatCardinality DEF DirectTypeOK
  <2>2. work[t] # NoWork
    BY <1>5, RecordTypes DEF CountMembers, AtStep
  <2>3. AdvanceWith(t, "save", Cardinality(inChat)) /\ UNCHANGED <<pair, inChat>>
    BY <1>5 DEF CountMembers, rows
  <2>4. /\ work'[t].pc = "save" /\ work'[t].n = Cardinality(inChat)
        /\ \A q \in Threads \ {t} : Keeps(q)
    BY <2>1, <2>2, <2>3, AdvanceWithFrame
  <2>5. CountRight(t)'
    BY <2>3, <2>4 DEF CountRight, Opens
  <2>6. QED
    BY <2>4, <2>5
<1>6. ASSUME NEW t \in Threads,
             Lookup(t) \/ InsertChat(t) \/ WriteMembers(t) \/ CommitChat(t) \/ AddAccess(t)
               \/ AddMember(t) \/ RemoveAccess(t) \/ RemoveMember(t) \/ CheckBot(t)
               \/ ValidateSender(t) \/ SaveCount(t) \/ DeleteAccess(t) \/ StoreMessage(t)
               \/ WorkerDies(t)
      PROVE  Fine
  <2>1. work[t] # NoWork
    BY <1>6, RecordTypes DEF Lookup, InsertChat, WriteMembers, CommitChat, AddAccess, AddMember,
                             RemoveAccess, RemoveMember, CheckBot, ValidateSender, SaveCount,
                             DeleteAccess, StoreMessage, WorkerDies, AtStep, Opens, Openings
  <2>2. Done(t) \/ \E p \in {"insert", "rows", "tally", "member", "count", "validate", "store"} :
                     Advance(t, p)
    BY <1>6 DEF Lookup, InsertChat, WriteMembers, CommitChat, AddAccess, AddMember, RemoveAccess,
                RemoveMember, CheckBot, ValidateSender, SaveCount, DeleteAccess, StoreMessage,
                WorkerDies
  <2>3. QED
    BY <1>1, <1>2, <2>1, <2>2
<1>7. ASSUME NEW t \in Threads, NEW u \in People, BeginOpen(t, u) \/ BeginReply(t, u)
      PROVE  Fine
  BY <1>3, <1>7 DEF BeginOpen, BeginReply, Everyone, Openings
<1>8. ASSUME NEW t \in Threads, NEW b \in Bots,
             (\E s \in Scopes : BeginAdd(t, b, s)) \/ BeginRemove(t, b) \/ DeleteBot(t, b)
               \/ BeginBotSend(t, b)
      PROVE  Fine
  <2>1. b \in Everyone /\ bot[b].token \in Nat
    BY DEF Everyone, DirectTypeOK
  <2>2. \/ \E s \in Scopes : BeginWork(t, "add", b, s, 0, "access")
        \/ BeginWork(t, "remove", b, "none", 0, "access")
        \/ BeginWork(t, "delete", b, "none", 0, "memberships")
        \/ BeginWork(t, "send", b, "none", bot[b].token, "check")
    BY <1>8 DEF BeginAdd, BeginRemove, DeleteBot, BeginBotSend
  <2>3. QED
    BY <1>3, <2>1, <2>2 DEF BotOps
<1>9. ASSUME NEW b \in Bots, RotateToken(b) \/ \E on \in BOOLEAN : SetActive(b, on)
      PROVE  Fine
  BY <1>9, MeetingFrame DEF RotateToken, SetActive, OneStatement, Keeps
<1>10. CASE UNCHANGED directVars
  BY <1>10 DEF directVars, Keeps
<1>11. QED
  BY <1>4, <1>5, <1>6, <1>7, <1>8, <1>9, <1>10 DEF DirectNext, DirectStep

LEMMA CountsNext ==
  ASSUME WorkInv, CountsRight, [DirectNext]_directVars
  PROVE  CountsRight'
<1> SUFFICES ASSUME NEW t \in Threads, Undisturbed(t)'
             PROVE  CountRight(t)'
  BY DEF CountsRight
<1>1. CASE ~Keeps(t)
  BY <1>1, CountsMove DEF WorkInv
<1>2. CASE Keeps(t) /\ inChat' = inChat
  <2>1. Undisturbed(t)
    BY <1>2 DEF Undisturbed, Keeps
  <2>2. pair' = pair
    BY MembersChange DEF WorkInv
  <2>3. QED
    BY <1>2, <2>1, <2>2 DEF CountsRight, CountRight, Keeps, AtStep, Opens
<1>3. CASE Keeps(t) /\ inChat' # inChat
  <2>1. PICK q \in Threads : work[q].op \in Changes /\ ~Keeps(q)
    BY <1>3, MembersChange DEF WorkInv
  <2>2. CASE q # t /\ work[t].op # "none"
    <3>1. <<work[q].op, Who(q)>> \in work[t].met
      BY <2>1, <2>2 DEF WorkInv, MeetingsSeen, Changes
    <3>2. <<work[q].op, Who(q)>> \in work'[t].met
      BY <1>3, <3>1 DEF Keeps
    <3>3. QED
      BY <2>1, <3>2 DEF Undisturbed
  <2>3. CASE work[t].op = "none"
    BY <1>3, <2>3 DEF CountRight, AtStep, Opens, Openings, Keeps
  <2>4. CASE q = t
    BY <1>3, <2>1, <2>4
  <2>5. QED
    BY <2>2, <2>3, <2>4
<1>4. QED
  BY <1>1, <1>2, <1>3

-----------------------------------------------------------------------------
(* Who speaks *)

\* What a request does that never sends a message.
LEMMA NotASpeaker ==
  ASSUME NEW t \in Threads, work'[t].op \notin {"send", "reply"}
                            \/ (work'[t].op = "reply" /\ work'[t].pc # "store")
  PROVE  SpeakerRight(t)'
BY DEF SpeakerRight, AtStep

\* A request that did not stay where it was relies on what is so now.
LEMMA SpeakersMove ==
  ASSUME WorkInv, SpeakersRight, [DirectNext]_directVars
  PROVE  \A t \in Threads : Keeps(t) \/ SpeakerRight(t)'
<1> DEFINE Fine == \A t \in Threads : Keeps(t) \/ SpeakerRight(t)'
<1>1. ASSUME NEW t \in Threads, Done(t)
      PROVE  Fine
  <2>1. work'[t] = NoWork /\ \A q \in Threads \ {t} : Keeps(q)
    BY <1>1, DoneFrame DEF WorkInv
  <2>2. work'[t].op \notin {"send", "reply"}
    BY <2>1 DEF NoWork
  <2>3. QED
    BY <2>1, <2>2, NotASpeaker
<1>2. ASSUME NEW t \in Threads, NEW o \in Openings \cup {"add", "remove", "delete"},
             NEW w \in Everyone, NEW s \in {"none"} \cup Scopes,
             NEW p \in {"lookup", "access", "memberships"}, BeginWork(t, o, w, s, 0, p)
      PROVE  Fine
  <2>1. HasBegun(t, o, w, s, 0, p)
    BY <1>2, BeginFrame DEF WorkInv, BotOps
  <2>2. work'[t].op = o /\ work'[t].pc = p /\ \A q \in Threads \ {t} : Keeps(q)
    BY <2>1 DEF HasBegun
  <2>3. SpeakerRight(t)'
    BY <1>2, <2>2, NotASpeaker DEF Openings
  <2>4. QED
    BY <2>2, <2>3
<1>3. ASSUME NEW t \in Threads, NEW b \in Bots, BeginBotSend(t, b)
      PROVE  Fine
  <2>1. b \in Everyone /\ bot[b] \in [on : BOOLEAN, token : Nat]
    BY DEF Everyone, WorkInv, DirectTypeOK
  <2>2. HasBegun(t, "send", b, "none", bot[b].token, "check")
    BY <1>3, <2>1, BeginFrame DEF BeginBotSend, WorkInv, BotOps
  <2>3. /\ work'[t].op = "send" /\ work'[t].pc = "check" /\ work'[t].who = b
        /\ work'[t].n = bot[b].token
        /\ \A q \in Threads \ {t} : Keeps(q)
    BY <2>2 DEF HasBegun
  <2>4. bot' = bot /\ bot[b] = [on |-> TRUE, token |-> bot[b].token]
    BY <1>3, <2>1 DEF BeginBotSend, rows
  <2>5. SpeakerRight(t)'
    BY <2>3, <2>4 DEF SpeakerRight, AtStep, Who
  <2>6. QED
    BY <2>3, <2>5
<1>4. ASSUME NEW t \in Threads, work[t] # NoWork,
             NEW p \in {"insert", "rows", "tally", "member", "count", "validate"}, Advance(t, p),
             work[t].op # "send"
      PROVE  Fine
  <2>1. work'[t].op = work[t].op /\ work'[t].pc = p /\ \A q \in Threads \ {t} : Keeps(q)
    BY <1>4, AdvanceFrame DEF WorkInv, GoesOn
  <2>2. SpeakerRight(t)'
    BY <1>4, <2>1, NotASpeaker
  <2>3. QED
    BY <2>1, <2>2
<1>5. ASSUME NEW t \in Threads, Tally(t) \/ CountMembers(t)
      PROVE  Fine
  <2>1. work[t] # NoWork /\ work[t].op # "send"
    BY <1>5, RecordTypes DEF Tally, CountMembers, AtStep, Opens, Openings, WorkInv
  <2>2. \E p \in {"commit", "save"}, k \in Nat : AdvanceWith(t, p, k)
    BY <1>5, ChatCardinality DEF Tally, CountMembers, WorkInv, DirectTypeOK
  <2>3. /\ work'[t].op # "send" /\ work'[t].pc \in {"commit", "save"}
        /\ \A q \in Threads \ {t} : Keeps(q)
    BY <2>1, <2>2, AdvanceWithFrame DEF WorkInv, GoesOn
  <2>4. SpeakerRight(t)'
    BY <2>3 DEF SpeakerRight, AtStep
  <2>5. QED
    BY <2>3, <2>4
<1>6. ASSUME NEW t \in Threads,
             Lookup(t) \/ InsertChat(t) \/ WriteMembers(t) \/ CommitChat(t) \/ AddAccess(t)
               \/ AddMember(t) \/ RemoveAccess(t) \/ RemoveMember(t)
      PROVE  Fine
  <2>1. work[t] # NoWork /\ work[t].op # "send"
    BY <1>6, RecordTypes DEF Lookup, InsertChat, WriteMembers, CommitChat, AddAccess, AddMember,
                             RemoveAccess, RemoveMember, AtStep, Opens, Openings, WorkInv
  <2>2. Done(t) \/ \E p \in {"insert", "rows", "tally", "member", "count", "validate"} :
                     Advance(t, p)
    BY <1>6 DEF Lookup, InsertChat, WriteMembers, CommitChat, AddAccess, AddMember, RemoveAccess,
                RemoveMember
  <2>3. QED
    BY <1>1, <1>4, <2>1, <2>2
<1>7. ASSUME NEW t \in Threads, CheckBot(t) \/ ValidateSender(t)
      PROVE  Fine
  <2>1. work[t] # NoWork /\ RequestRight(work[t]) /\ work[t] \in Work
    BY <1>7, RecordTypes DEF CheckBot, ValidateSender, AtStep, WorkInv, RequestsRight
  <2>2. work[t].op \in {"send", "reply"} /\ (CheckBot(t) => work[t].op = "send")
    BY <1>7, <2>1 DEF CheckBot, ValidateSender, AtStep, RequestRight, StepRight, Work, BotOps,
                      Openings
  <2>3. UNCHANGED <<inChat, admitted, bot>>
    BY <1>7 DEF CheckBot, ValidateSender, rows
  <2>4. ASSUME NEW p \in {"validate", "store"}, Advance(t, p),
               p = "validate" => work[t].op = "send" /\ admitted[Who(t)] = "send",
               p = "store" => work[t].pc = "validate" /\ Who(t) \in inChat
        PROVE  Fine
    <3>1. /\ GoesOn(t) /\ work'[t].pc = p /\ work'[t].n = work[t].n
          /\ \A q \in Threads \ {t} : Keeps(q)
      BY <2>1, <2>4, AdvanceFrame DEF WorkInv
    <3>2. Unrevoked(t)' => Unrevoked(t)
      BY <3>1 DEF Unrevoked, GoesOn, Who
    <3>3. SpeakerRight(t)
      BY DEF SpeakersRight
    <3>4. SpeakerRight(t)'
      BY <2>3, <2>4, <3>1, <3>2, <3>3 DEF SpeakerRight, GoesOn, Who, AtStep
    <3>5. QED
      BY <3>1, <3>4
  <2>5. \/ Done(t)
        \/ Advance(t, "validate") /\ work[t].op = "send" /\ admitted[Who(t)] = "send"
        \/ Advance(t, "store") /\ work[t].pc = "validate" /\ Who(t) \in inChat
    BY <1>7, <2>2 DEF CheckBot, ValidateSender
  <2>6. QED
    BY <1>1, <2>4, <2>5
<1>8. ASSUME NEW t \in Threads, SaveCount(t) \/ DeleteAccess(t) \/ StoreMessage(t) \/ WorkerDies(t)
      PROVE  Fine
  BY <1>1, <1>8 DEF SaveCount, DeleteAccess, StoreMessage, WorkerDies
<1>9. ASSUME NEW t \in Threads, NEW u \in People, BeginOpen(t, u) \/ BeginReply(t, u)
      PROVE  Fine
  BY <1>2, <1>9 DEF BeginOpen, BeginReply, Everyone, Openings
<1>10. ASSUME NEW t \in Threads, NEW b \in Bots,
              (\E s \in Scopes : BeginAdd(t, b, s)) \/ BeginRemove(t, b) \/ DeleteBot(t, b)
       PROVE  Fine
  BY <1>2, <1>10 DEF BeginAdd, BeginRemove, DeleteBot, Everyone
<1>11. ASSUME NEW b \in Bots, RotateToken(b) \/ \E on \in BOOLEAN : SetActive(b, on)
       PROVE  Fine
  BY <1>11, MeetingFrame DEF RotateToken, SetActive, OneStatement, Keeps, WorkInv
<1>12. CASE UNCHANGED directVars
  BY <1>12 DEF directVars, Keeps
<1>13. QED
  BY <1>3, <1>5, <1>6, <1>7, <1>8, <1>9, <1>10, <1>11, <1>12 DEF DirectNext, DirectStep

\* Only a removal makes a member leave.
LEMMA PeopleStay ==
  ASSUME WorkInv, [DirectNext]_directVars, NEW u \in inChat,
         \A q \in Threads : ~(RemoveMember(q) /\ Who(q) = u)
  PROVE  u \in inChat'
<1>1. ASSUME NEW t \in Threads, DirectStep(t)
      PROVE  u \in inChat'
  BY <1>1 DEF DirectStep, BeginOpen, BeginReply, Lookup, InsertChat, WriteMembers, Tally, BeginAdd,
              BeginRemove, DeleteBot, BeginBotSend, AddAccess, RemoveAccess, CountMembers, SaveCount,
              DeleteAccess, CheckBot, ValidateSender, StoreMessage, WorkerDies, rows, CommitChat,
              AddMember, RemoveMember
<1>2. ASSUME NEW b \in Bots, RotateToken(b) \/ \E on \in BOOLEAN : SetActive(b, on)
      PROVE  u \in inChat'
  BY <1>2 DEF RotateToken, SetActive
<1>3. CASE UNCHANGED directVars
  BY <1>3 DEF directVars
<1>4. QED
  BY <1>1, <1>2, <1>3 DEF DirectNext

\* What the request of a bot relies on is revoked by one that it has met.
LEMMA RevocationsMeet ==
  ASSUME WorkInv, [DirectNext]_directVars, NEW t \in Threads, Keeps(t), work[t].op = "send",
         Unrevoked(t)', NEW b \in Bots, Who(t) = b
  PROVE  /\ bot'[b] = bot[b] /\ admitted'[b] = admitted[b]
         /\ b \in inChat => b \in inChat'
<1>1. \A o \in {"remove", "delete", "set", "rotate", "add"} : <<o, b>> \notin work'[t].met
  BY DEF Unrevoked, Keeps, Who
<1>2. ASSUME NEW q \in Threads, work[q].op \in {"add", "remove", "delete"}
      PROVE  Who(q) # b
  <2>1. <<work[q].op, Who(q)>> \in work[t].met
    BY <1>2 DEF WorkInv, MeetingsSeen
  <2>2. QED
    BY <1>1, <1>2, <2>1 DEF Keeps
<1>3. b \in inChat => b \in inChat'
  BY <1>2, PeopleStay DEF RemoveMember, AtStep
<1>4. ASSUME NEW q \in Threads, AddAccess(q) \/ RemoveAccess(q) \/ DeleteAccess(q)
      PROVE  bot'[b] = bot[b] /\ admitted'[b] = admitted[b]
  <2>1. work[q].op \in {"add", "remove", "delete"}
    BY <1>4 DEF AddAccess, RemoveAccess, DeleteAccess, AtStep
  <2>2. Who(q) # b
    BY <1>2, <2>1
  <2>3. QED
    BY <1>4, <2>2 DEF AddAccess, RemoveAccess, DeleteAccess, WorkInv, DirectTypeOK
<1>5. ASSUME NEW q \in Threads, NEW c \in Bots, DeleteBot(q, c)
      PROVE  bot'[b] = bot[b] /\ admitted'[b] = admitted[b]
  <2>1. c \in Everyone /\ BeginWork(q, "delete", c, "none", 0, "memberships")
    BY <1>5 DEF DeleteBot, Everyone
  <2>2. HasBegun(q, "delete", c, "none", 0, "memberships")
    BY <2>1, BeginFrame DEF WorkInv, BotOps
  <2>3. q # t /\ work[t] # NoWork
    BY <2>2 DEF HasBegun, NoWork
  <2>4. <<"delete", c>> \in Disturbances
    BY <2>1 DEF Disturbances
  <2>5. <<"delete", c>> \in work'[t].met
    BY <2>2, <2>3, <2>4 DEF HasBegun
  <2>6. c # b
    BY <1>1, <2>5
  <2>7. QED
    BY <1>5, <2>6 DEF DeleteBot, WorkInv, DirectTypeOK
<1>6. ASSUME NEW c \in Bots, RotateToken(c) \/ \E on \in BOOLEAN : SetActive(c, on)
      PROVE  bot'[b] = bot[b] /\ admitted'[b] = admitted[b]
  <2>1. work[t] # NoWork /\ <<"set", c>> \in Disturbances /\ <<"rotate", c>> \in Disturbances
    BY DEF NoWork, Disturbances, Everyone
  <2>2. OneStatement("set", c) \/ OneStatement("rotate", c)
    BY <1>6 DEF RotateToken, SetActive
  <2>3. <<"set", c>> \in work'[t].met \/ <<"rotate", c>> \in work'[t].met
    BY <2>1, <2>2, OneStatementTypes DEF WorkInv
  <2>4. c # b
    BY <1>1, <2>3
  <2>5. QED
    BY <1>6, <2>4 DEF RotateToken, SetActive, WorkInv, DirectTypeOK
<1>7. ASSUME NEW q \in Threads, DirectStep(q),
             ~(AddAccess(q) \/ RemoveAccess(q) \/ DeleteAccess(q)),
             \A c \in Bots : ~DeleteBot(q, c)
      PROVE  UNCHANGED <<bot, admitted>>
  BY <1>7 DEF DirectStep, BeginOpen, BeginReply, Lookup, InsertChat, WriteMembers, Tally, BeginAdd,
              BeginRemove, BeginBotSend, CountMembers, SaveCount, CheckBot, ValidateSender,
              StoreMessage, WorkerDies, rows, CommitChat, AddMember, RemoveMember
<1>8. CASE UNCHANGED directVars
  BY <1>3, <1>8 DEF directVars
<1>9. QED
  BY <1>3, <1>4, <1>5, <1>6, <1>7, <1>8 DEF DirectNext

LEMMA SpeakersNext ==
  ASSUME WorkInv, SpeakersRight, [DirectNext]_directVars
  PROVE  SpeakersRight'
<1> SUFFICES ASSUME NEW t \in Threads, Keeps(t)
             PROVE  SpeakerRight(t)'
  BY SpeakersMove DEF SpeakersRight
<1>1. SpeakerRight(t) /\ RequestRight(work[t])
  BY DEF SpeakersRight, WorkInv, RequestsRight
<1>2. work[t].op = "send" /\ Unrevoked(t)' =>
        /\ bot'[Who(t)] = [on |-> TRUE, token |-> work[t].n]
        /\ work[t].pc \in {"validate", "store"} => admitted'[Who(t)] = "send"
        /\ work[t].pc = "store" => Who(t) \in inChat'
  <2> SUFFICES ASSUME work[t].op = "send", Unrevoked(t)'
               PROVE  /\ bot'[Who(t)] = [on |-> TRUE, token |-> work[t].n]
                      /\ work[t].pc \in {"validate", "store"} => admitted'[Who(t)] = "send"
                      /\ work[t].pc = "store" => Who(t) \in inChat'
    OBVIOUS
  <2>1. Unrevoked(t)
    BY DEF Unrevoked, Keeps, Who
  <2>2. Who(t) \in Bots
    BY <1>1 DEF RequestRight, BotOps, Who
  <2>3. PICK b \in Bots : Who(t) = b
    BY <2>2
  <2>4. /\ bot'[b] = bot[b] /\ admitted'[b] = admitted[b]
        /\ b \in inChat => b \in inChat'
    BY <2>3, RevocationsMeet
  <2>5. QED
    BY <1>1, <2>1, <2>3, <2>4 DEF SpeakerRight
<1>3. AtStep(t, {"reply"}, "store") => Who(t) \in inChat'
  <2> SUFFICES ASSUME AtStep(t, {"reply"}, "store")
               PROVE  Who(t) \in inChat'
    OBVIOUS
  <2>1. Who(t) \in inChat /\ Who(t) \in People
    BY <1>1 DEF SpeakerRight, RequestRight, AtStep, Openings, Who
  <2>2. \A q \in Threads : RemoveMember(q) => Who(q) \in Bots
    BY DEF RemoveMember, AtStep, WorkInv, RequestsRight, RequestRight, BotOps, Who
  <2>3. PICK u \in inChat : Who(t) = u
    BY <2>1
  <2>4. u \in inChat'
    BY <2>1, <2>2, <2>3, PeopleStay, DirectAssumption
  <2>5. QED
    BY <2>3, <2>4
<1>4. QED
  BY <1>2, <1>3 DEF SpeakerRight, Keeps, AtStep, Who, Unrevoked

-----------------------------------------------------------------------------
(* Theorems *)

LEMMA DirectInvInit ==
  ASSUME DirectInit
  PROVE  DirectInv
<1>1. DirectTypeOK /\ RequestsRight
  BY DirectTypeInit
<1>2. \A t \in Threads : work[t] = NoWork
  BY DEF DirectInit
<1>3. CrossingsSeen /\ MeetingsSeen /\ BetweenRows /\ CountsRight /\ SpeakersRight
  BY <1>2 DEF CrossingsSeen, MeetingsSeen, BetweenRows, Between, CountsRight, CountRight,
              SpeakersRight, SpeakerRight, AtStep, Opens, Openings, NoWork
<1>4. RowsAgree
  <2>1. \A b \in Bots : ~Admits(b) /\ b \notin inChat \ pair /\ deleted = {}
    BY DEF DirectInit, Admits, Scopes
  <2>2. QED
    BY <2>1 DEF RowsAgree, Agree
<1>5. QED
  BY <1>1, <1>3, <1>4 DEF DirectInv

LEMMA DirectInvNext ==
  ASSUME DirectInv, [DirectNext]_directVars
  PROVE  DirectInv'
<1>1. WorkInv /\ RowsInv
  BY DEF DirectInv, WorkInv, RowsInv
<1>2. DirectTypeOK' /\ RequestsRight'
  BY <1>1, DirectTypeNext DEF WorkInv
<1>3. CrossingsSeen' /\ MeetingsSeen'
  BY <1>1, MeetingsNext DEF WorkInv, RowsInv
<1>4. BetweenRows' /\ RowsAgree'
  BY <1>1, RowsNext
<1>5. CountsRight' /\ SpeakersRight'
  BY <1>1, CountsNext, SpeakersNext DEF DirectInv
<1>6. QED
  BY <1>2, <1>3, <1>4, <1>5 DEF DirectInv

\* The inductive invariant of the direct chat and its bots.
THEOREM DirectInductive == DirectSpec => []DirectInv
<1>1. DirectInit => DirectInv
  BY DirectInvInit
<1>2. DirectInv /\ [DirectNext]_directVars => DirectInv'
  BY DirectInvNext
<1>3. QED
  BY <1>1, <1>2, PTL DEF DirectSpec

\* The rows have their types, and every count is a number, whatever statements
\* of openings and of requests about bots were interleaved.
THEOREM DirectTypeCorrect == DirectSpec => []DirectTypeOK
<1>1. DirectInv => DirectTypeOK
  BY DEF DirectInv
<1>2. QED
  BY <1>1, DirectInductive, PTL

\* The membership of a bot and the row of its service user agree, but for the
\* additions that met a removal or a deletion and the requests that died.
THEOREM BotRowsAgreeAlways == DirectSpec => []BotRowsAgree
<1>1. DirectInv => BotRowsAgree
  BY DEF DirectInv, RowsAgree, Agree, BotRowsAgree
<1>2. QED
  BY <1>1, DirectInductive, PTL

\* A request that met no other change of the members leaves the right count.
THEOREM CountRepaired == DirectSpec => DirectCountRepaired
<1>1. ASSUME DirectInv, NEW t \in Threads, SaveCount(t) \/ CommitChat(t),
             \A m \in work[t].met : m[1] \notin Changes
      PROVE  count' = Cardinality(inChat')
  <2>1. CountRight(t)
    BY <1>1 DEF DirectInv, CountsRight, Undisturbed
  <2>2. QED
    BY <1>1, <2>1 DEF CountRight, SaveCount, CommitChat
<1>2. DirectInv /\ [DirectNext]_directVars =>
        [\A t \in Threads :
           (SaveCount(t) \/ CommitChat(t)) /\ (\A m \in work[t].met : m[1] \notin Changes)
           => count' = Cardinality(inChat')]_directVars
  BY <1>1
<1>3. QED
  BY <1>2, DirectInductive, PTL DEF DirectSpec, DirectCountRepaired

\* A message is stored for a member only, and for a bot only with the access,
\* the scope and the token it has then, when nothing revoked them meanwhile.
THEOREM SpeakersAdmitted == DirectSpec => OnlyAdmittedSpeak
<1>1. ASSUME DirectInv, NEW t \in Threads, work[t].pc = "store",
             {"remove", "delete", "set", "rotate", "add"}
               \cap {m[1] : m \in {x \in work[t].met : x[2] = Who(t)}} = {}
      PROVE  /\ Who(t) \in inChat
             /\ Who(t) \in Bots => /\ bot[Who(t)] = [on |-> TRUE, token |-> work[t].n]
                                   /\ admitted[Who(t)] = "send"
  <2>1. work[t] # NoWork
    BY <1>1, RecordTypes DEF DirectInv
  <2>2. work[t] \in Work /\ RequestRight(work[t]) /\ SpeakerRight(t)
    BY <1>1, <2>1, RecordTypes DEF DirectInv, RequestsRight, SpeakersRight
  <2>3. work[t].op \in {"send", "reply"}
    BY <1>1, <2>2 DEF RequestRight, StepRight, Work, Openings, BotOps
  <2>4. Unrevoked(t)
    <3>1. ASSUME NEW o \in {"remove", "delete", "set", "rotate", "add"},
                 <<o, Who(t)>> \in work[t].met
          PROVE  FALSE
      <4>1. <<o, Who(t)>>[1] = o /\ <<o, Who(t)>>[2] = Who(t)
        OBVIOUS
      <4>2. o \in {m[1] : m \in {x \in work[t].met : x[2] = Who(t)}}
        BY <3>1, <4>1
      <4>3. QED
        BY <1>1, <4>2
    <3>2. QED
      BY <3>1 DEF Unrevoked
  <2>5. work[t].op = "reply" => Who(t) \in inChat /\ Who(t) \notin Bots
    BY <1>1, <2>2, DirectAssumption DEF SpeakerRight, RequestRight, AtStep, Openings, Who
  <2>6. work[t].op = "send" =>
          /\ Who(t) \in inChat /\ bot[Who(t)] = [on |-> TRUE, token |-> work[t].n]
          /\ admitted[Who(t)] = "send"
    BY <1>1, <2>2, <2>4 DEF SpeakerRight
  <2>7. QED
    BY <2>3, <2>5, <2>6
<1>2. DirectInv /\ [DirectNext]_directVars =>
        [\A t \in Threads :
           (/\ work[t].pc = "store" /\ work'[t] = NoWork
            /\ {"remove", "delete", "set", "rotate", "add"}
                 \cap {m[1] : m \in {x \in work[t].met : x[2] = Who(t)}} = {})
           => /\ Who(t) \in inChat
              /\ Who(t) \in Bots => /\ bot[Who(t)] = [on |-> TRUE, token |-> work[t].n]
                                    /\ admitted[Who(t)] = "send"]_directVars
  BY <1>1
<1>3. QED
  BY <1>2, DirectInductive, PTL DEF DirectSpec, OnlyAdmittedSpeak
=============================================================================
