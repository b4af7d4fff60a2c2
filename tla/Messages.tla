------------------------------ MODULE Messages ------------------------------
(***************************************************************************)
(* What happens to the messages of one chat once they are stored: their    *)
(* receipts, edits and deletions (apps/messaging/serializers.py,           *)
(* apps/chats/views.py) and the stream of delivered and read events        *)
(* (apps/messaging/status_stream_bridge.py).                               *)
(*                                                                         *)
(* A REST request is a sequence of statements, each committed by itself;   *)
(* a status saver handles an entry of the stream in a transaction, tells   *)
(* the clients inside it and acknowledges after it.  A request or a saver  *)
(* may die at any step; the entry of a saver stays pending and is claimed  *)
(* by a saver again, also while the first still works on it.               *)
(*                                                                         *)
(* Times are left out: a receipt is the set of its columns that are        *)
(* filled.  The cached last messages, metadata and what REST requests      *)
(* announce are left out as well, nothing here reads them.                 *)
(***************************************************************************)
EXTENDS Naturals, FiniteSets

CONSTANTS Posts,        \* the messages that clients send, by client_uuid
          Readers,      \* the users of the chat other than the sender
          Handlers,     \* the threads that serve REST requests
          Savers,       \* the processes that consume the status stream
          MaxAsked      \* bound: requests, status events, changes of membership

ASSUME PostsAssumption == IsFiniteSet(Posts)

VARIABLES message,      \* messages
          parts,        \* the messages whose attachments are stored
          receipt,      \* message_receipts: the columns filled, {} without a row
          member,       \* the readers that are active members
          request,      \* the request each handler serves
          asked,        \* how many of what MaxAsked bounds there were
          entry,        \* status entries: unsent, queued (pending too), settled
          saver,        \* the entry each saver works on
          dead,         \* entries in the dead letter stream
          told,         \* entries announced to the clients
          owed,         \* readers that were members since a message was stored
          lame          \* messages whose creating request died

restVars == <<message, parts, request, asked, owed, lame>>
statusVars == <<entry, saver, dead, told>>
messageVars == <<restVars, receipt, member, statusVars>>

Texts == {"", "first", "new"}
Message == [at : Nat, text : Texts, deleted : BOOLEAN]
NotStored == [at |-> 0, text |-> "", deleted |-> FALSE]

Columns == {"row", "delivered", "read"}
Events == {"delivered", "read"}
Entries == Posts \X Readers \X Events

Request == [op : {"none", "post", "edit", "delete"},
            pc : {"done", "insert", "parts", "receipts", "save"},
            post : SUBSET Posts, seen : Message, plan : SUBSET Readers]
Saver == [entry : SUBSET Entries, seen : SUBSET Columns,
          pc : {"done", "receipt", "dead", "save", "commit", "ack"}]

Unasked == [op |-> "none", pc |-> "done", post |-> {}, seen |-> NotStored, plan |-> {}]
Waiting == [entry |-> {}, pc |-> "done", seen |-> {}]

MessagesInit == /\ message = [p \in Posts |-> NotStored]
                /\ parts = {}
                /\ receipt = [p \in Posts |-> [r \in Readers |-> {}]]
                /\ member = Readers
                /\ request = [h \in Handlers |-> Unasked]
                /\ asked = 0
                /\ entry = [x \in Entries |-> "unsent"]
                /\ saver = [s \in Savers |-> Waiting]
                /\ dead = {}
                /\ told = {}
                /\ owed = [p \in Posts |-> {}]
                /\ lame = {}

-----------------------------------------------------------------------------

Stored == {p \in Posts : message[p].at > 0}
NextPosition == Cardinality(Stored) + 1

Once == asked < MaxAsked /\ asked' = asked + 1

Ask(h, op, pc, p) ==
  /\ request[h] = Unasked
  /\ Once
  /\ request' = [request EXCEPT ![h] = [op |-> op, pc |-> pc, post |-> {p},
                                        seen |-> message[p], plan |-> {}]]
  /\ UNCHANGED <<message, parts, owed, lame>>

Serves(h, op, pc, p) == /\ request[h].op = op /\ request[h].pc = pc
                        /\ request[h].post = {p}
Answer(h) == request' = [request EXCEPT ![h] = Unasked]

\* A status event fills these columns ...
Fills(event) == IF event = "read" THEN {"delivered", "read"} ELSE {"delivered"}

\* ... unless it finds the message delivered already.
Writes(s, event) == event = "read" \/ "delivered" \notin saver[s].seen

\* The transaction of a saver has inserted the row, or updated it, and other
\* writers of the row wait.
Inserting(s) == saver[s].seen = {} /\ saver[s].pc \in {"save", "commit"}
Held(p, r) == \E s \in Savers, v \in Events :
                /\ saver[s].entry = {<<p, r, v>>}
                /\ Inserting(s) \/ (saver[s].pc = "commit" /\ Writes(s, v))

Fill(P, r, columns) ==
  receipt' = [p \in Posts |-> IF p \in P /\ receipt[p][r] # {}
                              THEN [receipt[p] EXCEPT ![r] = @ \cup columns]
                              ELSE receipt[p]]

-----------------------------------------------------------------------------
(* Sending *)

\* MessageCreateSerializer: a message that is stored is answered with the
\* row; one that is not is inserted, with its signals, ...
BeginPost(h, p) ==
  /\ message[p].at = 0
  /\ Ask(h, "post", "insert", p)
  /\ UNCHANGED <<receipt, member, statusVars>>

\* ... unless another request was faster (client_uuid is unique) ...
InsertMessage(h, p) ==
  /\ Serves(h, "post", "insert", p)
  /\ IF message[p].at > 0 THEN Answer(h) /\ UNCHANGED <<message, owed>>
     ELSE /\ message' = [message EXCEPT ![p] = [at |-> NextPosition, text |-> "first",
                                                deleted |-> FALSE]]
          /\ owed' = [owed EXCEPT ![p] = member]
          /\ request' = [request EXCEPT ![h].pc = "parts"]
  /\ UNCHANGED <<parts, asked, lame, receipt, member, statusVars>>

\* ... then the attachments; and the recipients are read.
InsertParts(h, p) ==
  /\ Serves(h, "post", "parts", p)
  /\ parts' = parts \cup {p}
  /\ request' = [request EXCEPT ![h].pc = "receipts", ![h].plan = member]
  /\ UNCHANGED <<message, asked, owed, lame, receipt, member, statusVars>>

\* Mutant of InsertReceipts: without ignore_conflicts the statement fails.
InsertReceiptsAll(h, p) ==
  LET plan == request[h].plan
  IN  /\ Serves(h, "post", "receipts", p)
      /\ \A r \in plan : ~Held(p, r)
      /\ receipt' = IF \E r \in plan : receipt[p][r] # {} THEN receipt
                    ELSE [receipt EXCEPT ![p] = [r \in Readers |->
                            IF r \in plan THEN @[r] \cup {"row"} ELSE @[r]]]
      /\ Answer(h)
      /\ UNCHANGED <<message, parts, asked, owed, lame, member, statusVars>>

\* The receipts that a status event has not created before (ignore_conflicts).
InsertReceipts(h, p) ==
  LET plan == request[h].plan
  IN  /\ Serves(h, "post", "receipts", p)
      /\ \A r \in plan : ~Held(p, r)
      /\ receipt' = [receipt EXCEPT ![p] = [r \in Readers |->
                       IF r \in plan THEN @[r] \cup {"row"} ELSE @[r]]]
      /\ Answer(h)
      /\ UNCHANGED <<message, parts, asked, owed, lame, member, statusVars>>

\* The saver of the message stream does the same in one transaction.
SaveFromStream(p) ==
  /\ message[p].at = 0
  /\ message' = [message EXCEPT ![p] = [at |-> NextPosition, text |-> "first",
                                        deleted |-> FALSE]]
  /\ parts' = parts \cup {p}
  /\ receipt' = [receipt EXCEPT ![p] = [r \in Readers |->
                   IF r \in member THEN {"row"} ELSE {}]]
  /\ owed' = [owed EXCEPT ![p] = member]
  /\ UNCHANGED <<request, asked, lame, member, statusVars>>

-----------------------------------------------------------------------------
(* Edits and deletions by the sender *)

\* MessageUpdateSerializer.validate
Editable(p) == p \in Stored /\ ~message[p].deleted

BeginEdit(h, p) ==
  /\ Editable(p)
  /\ Ask(h, "edit", "save", p)
  /\ UNCHANGED <<receipt, member, statusVars>>

\* Mutant of SaveEdit: every column is saved.
SaveEditAll(h, p) ==
  /\ Serves(h, "edit", "save", p)
  /\ message' = IF request[h].seen.text = "new" THEN message
                ELSE [message EXCEPT ![p] = [request[h].seen EXCEPT !.text = "new"]]
  /\ Answer(h)
  /\ UNCHANGED <<parts, asked, owed, lame, receipt, member, statusVars>>

\* MessageUpdateSerializer.save: the columns that differ from what was read.
SaveEdit(h, p) ==
  /\ Serves(h, "edit", "save", p)
  /\ message' = IF request[h].seen.text = "new" THEN message
                ELSE [message EXCEPT ![p].text = "new"]
  /\ Answer(h)
  /\ UNCHANGED <<parts, asked, owed, lame, receipt, member, statusVars>>

BeginDeleteMessage(h, p) ==
  /\ p \in Stored
  /\ Ask(h, "delete", "save", p)
  /\ UNCHANGED <<receipt, member, statusVars>>

\* MessageDeleteSerializer.save, for everyone.
SaveDeleteMessage(h, p) ==
  /\ Serves(h, "delete", "save", p)
  /\ message' = IF request[h].seen.deleted THEN message
                ELSE [message EXCEPT ![p].deleted = TRUE, ![p].text = ""]
  /\ Answer(h)
  /\ UNCHANGED <<parts, asked, owed, lame, receipt, member, statusVars>>

HandlerDies(h) ==
  /\ request[h] # Unasked
  /\ lame' = IF request[h].op = "post" /\ request[h].pc # "insert"
             THEN lame \cup request[h].post ELSE lame
  /\ Answer(h)
  /\ UNCHANGED <<message, parts, asked, owed, receipt, member, statusVars>>

-----------------------------------------------------------------------------
(* Reading: one statement each, over the rows there are *)

\* ChatMessagesAPIView.get
MarkDelivered(r) ==
  /\ r \in member
  /\ \A p \in Posts : ~Held(p, r)
  /\ Fill(Posts, r, {"delivered"})
  /\ UNCHANGED <<restVars, member, statusVars>>

\* ChatMarkReadAPIView: the messages up to p.
MarkRead(r, p) ==
  /\ r \in member /\ p \in Stored
  /\ \A q \in Posts : ~Held(q, r)
  /\ Fill({q \in Stored : message[q].at <= message[p].at}, r, {"delivered", "read"})
  /\ UNCHANGED <<restVars, member, statusVars>>

Move(r) ==
  /\ Once
  /\ member' = IF r \in member THEN member \ {r} ELSE member \cup {r}
  /\ owed' = [p \in Posts |-> owed[p] \ {r}]
  /\ UNCHANGED <<message, parts, request, lame, receipt, statusVars>>

-----------------------------------------------------------------------------
(* The status stream *)

\* A client reports an event of a message it has seen; whether it still is a
\* member is asked of a cache.
PublishStatus(x) ==
  /\ x[1] \in Stored /\ entry[x] = "unsent"
  /\ Once
  /\ entry' = [entry EXCEPT ![x] = "queued"]
  /\ UNCHANGED <<message, parts, request, owed, lame, receipt, member, saver, dead, told>>

\* Mutant of TakeEntry: the entry is settled when it is read.
TakeEntryNoAck(s, x) ==
  /\ entry[x] = "queued" /\ saver[s] = Waiting
  /\ saver' = [saver EXCEPT ![s] = [entry |-> {x}, seen |-> {},
                 pc |-> IF x[2] \in member THEN "receipt" ELSE "dead"]]
  /\ entry' = [entry EXCEPT ![x] = "settled"]
  /\ UNCHANGED <<restVars, receipt, member, dead, told>>

\* A new entry, or one that is pending for a minute; the membership of the
\* user is read before the transaction.
TakeEntry(s, x) ==
  /\ entry[x] = "queued" /\ saver[s] = Waiting
  /\ saver' = [saver EXCEPT ![s] = [entry |-> {x}, seen |-> {},
                 pc |-> IF x[2] \in member THEN "receipt" ELSE "dead"]]
  /\ UNCHANGED <<restVars, receipt, member, entry, dead, told>>

Works(s, x, pc) == saver[s].entry = {x} /\ saver[s].pc = pc

MoveToDlq(s, x) ==
  /\ Works(s, x, "dead")
  /\ dead' = dead \cup {x}
  /\ saver' = [saver EXCEPT ![s].pc = "ack"]
  /\ UNCHANGED <<restVars, receipt, member, entry, told>>

\* get_or_create waits for another that inserts the same row.
ReadReceipt(s, x) ==
  /\ Works(s, x, "receipt")
  /\ \A t \in Savers, v \in Events :
       Inserting(t) => saver[t].entry # {<<x[1], x[2], v>>}
  /\ saver' = [saver EXCEPT ![s].seen = receipt[x[1]][x[2]], ![s].pc = "save"]
  /\ UNCHANGED <<restVars, receipt, member, entry, dead, told>>

\* The row is written, if there is something to write, and announced.
Announce(s, x) ==
  /\ Works(s, x, "save")
  /\ Inserting(s) \/ ~Writes(s, x[3]) \/ ~Held(x[1], x[2])
  /\ told' = told \cup {x}
  /\ saver' = [saver EXCEPT ![s].pc = "commit"]
  /\ UNCHANGED <<restVars, receipt, member, entry, dead>>

\* Mutant of CommitStatus: every column is saved.
CommitStatusAll(s, x) ==
  /\ Works(s, x, "commit")
  /\ receipt' = [receipt EXCEPT ![x[1]][x[2]] =
                   IF Writes(s, x[3]) THEN saver[s].seen \cup {"row"} \cup Fills(x[3])
                   ELSE @]
  /\ saver' = [saver EXCEPT ![s].pc = "ack"]
  /\ UNCHANGED <<restVars, member, entry, dead, told>>

CommitStatus(s, x) ==
  /\ Works(s, x, "commit")
  /\ receipt' = [receipt EXCEPT ![x[1]][x[2]] =
                   IF Writes(s, x[3]) THEN @ \cup {"row"} \cup Fills(x[3]) ELSE @]
  /\ saver' = [saver EXCEPT ![s].pc = "ack"]
  /\ UNCHANGED <<restVars, member, entry, dead, told>>

Acknowledge(s, x) ==
  /\ Works(s, x, "ack")
  /\ entry' = [entry EXCEPT ![x] = "settled"]
  /\ saver' = [saver EXCEPT ![s] = Waiting]
  /\ UNCHANGED <<restVars, receipt, member, dead, told>>

\* An exception or a crash; the transaction, if any, is rolled back.
SaverDies(s) ==
  /\ saver[s] # Waiting
  /\ saver' = [saver EXCEPT ![s] = Waiting]
  /\ UNCHANGED <<restVars, receipt, member, entry, dead, told>>

HandlerStep(h, p) ==
  \/ BeginPost(h, p)
  \/ InsertMessage(h, p)
  \/ InsertParts(h, p)
  \/ InsertReceipts(h, p)
  \/ BeginEdit(h, p)
  \/ SaveEdit(h, p)
  \/ BeginDeleteMessage(h, p)
  \/ SaveDeleteMessage(h, p)

SaverStep(s, x) ==
  \/ TakeEntry(s, x)
  \/ MoveToDlq(s, x)
  \/ ReadReceipt(s, x)
  \/ Announce(s, x)
  \/ CommitStatus(s, x)
  \/ Acknowledge(s, x)

MessagesNext ==
  \/ \E h \in Handlers : HandlerDies(h) \/ \E p \in Posts : HandlerStep(h, p)
  \/ \E s \in Savers : SaverDies(s) \/ \E x \in Entries : SaverStep(s, x)
  \/ \E x \in Entries : PublishStatus(x)
  \/ \E p \in Posts : SaveFromStream(p) \/ \E r \in Readers : MarkRead(r, p)
  \/ \E r \in Readers : MarkDelivered(r) \/ Move(r)

MessagesSpec == MessagesInit /\ [][MessagesNext]_messageVars

-----------------------------------------------------------------------------
(* Properties *)

MessagesTypeOK ==
  /\ message \in [Posts -> Message]
  /\ parts \subseteq Posts
  /\ receipt \in [Posts -> [Readers -> SUBSET Columns]]
  /\ member \subseteq Readers
  /\ request \in [Handlers -> Request]
  /\ asked \in Nat
  /\ entry \in [Entries -> {"unsent", "queued", "settled"}]
  /\ saver \in [Savers -> Saver]
  /\ dead \subseteq Entries
  /\ told \subseteq Entries
  /\ owed \in [Posts -> SUBSET Readers]
  /\ lame \subseteq Posts

Recorded(x) == Fills(x[3]) \subseteq receipt[x[1]][x[2]]

\* A status event that is settled, or that the clients were told, is recorded
\* in the receipt, in the dead letters, or still pending and will be handled
\* again: the announcement inside a transaction that is rolled back is
\* repeated.
NoLostStatus ==
  \A x \in Entries : entry[x] = "settled" \/ x \in told =>
                       Recorded(x) \/ x \in dead \/ entry[x] = "queued"

\* What a receipt records is never taken back, whatever a saver read before
\* another wrote: what was read stays read, and is delivered.
ReadStaysRead ==
  [][\A p \in Posts, r \in Readers :
       /\ receipt[p][r] \subseteq receipt'[p][r]
       /\ "read" \in receipt'[p][r] => "delivered" \in receipt'[p][r]]_messageVars

Creating(p) == \E h \in Handlers : request[h].op = "post" /\ request[h].post = {p}

\* A message whose creating request is over and did not die has its
\* attachments, and a receipt of everyone who has been a member since it was
\* stored, although status events create receipts at the same time.
ReceiptsComplete ==
  \A p \in Stored : p \notin lame /\ ~Creating(p) =>
                     p \in parts /\ \A r \in owed[p] : receipt[p][r] # {}

\* A deleted message stays deleted, and its text is only emptied again, by
\* another deletion, or comes back with an edit that read the message before
\* it was deleted.
DeletedStaysEmpty ==
  [][\A p \in Posts : message[p].deleted =>
       /\ message'[p].deleted
       /\ message'[p].text \in {message[p].text, ""}
            \/ \E h \in Handlers : /\ Serves(h, "edit", "save", p)
                                   /\ ~request[h].seen.deleted
                                   /\ request'[h] = Unasked]_messageVars
=============================================================================
