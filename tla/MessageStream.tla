-------------------------- MODULE MessageStream --------------------------
(***************************************************************************)
(* The asynchronous send path of a chat message.                           *)
(*                                                                         *)
(* The Go websocket server appends the message to a Redis stream and       *)
(* answers "message_accepted".  Saver processes read the stream as one     *)
(* consumer group, write the row, announce it on the realtime channel and  *)
(* acknowledge the entry.  An entry that is not acknowledged stays in the  *)
(* group's pending list; once it has been idle long enough any saver       *)
(* reclaims it, also from a saver that is merely slow.  The REST endpoint  *)
(* writes rows of the same table under the same client_uuid.               *)
(*                                                                         *)
(* Entry ids are the positions of the stream: XADD ids only ever grow.     *)
(* XACK and XAUTOCLAIM do not look at an entry's owner, so the pending     *)
(* list is a set of ids, and a restarted saver, whose consumer name is     *)
(* new, is the same process here.                                          *)
(***************************************************************************)
EXTENDS Integers, Sequences, FiniteSets

CONSTANTS
  Messages,     \* client messages; each stands for its client_uuid
  Senders,      \* users that send
  SenderOf,     \* SenderOf[m]: the user that sends m
  RestMessages, \* messages a client also sends over REST, under the same id
  Kind,         \* Kind[m]: how far the saver gets with m, see Kinds
  Savers,       \* saver processes
  Count,        \* REDIS_STREAM_READ_COUNT: entries per batch
  MaxEntries,   \* bound: entries ever appended to the stream
  MaxFaults     \* bound: crashes and failed calls

\* "text": can be stored.  "malformed": refused by _parse_payload or for its
\* reply target.  "media": its attachments may or may not be ready when they
\* are looked up.  "poison": storing it raises an error every time.
Kinds == {"text", "malformed", "media", "poison"}

ASSUME ConstantsAssumption ==
  /\ SenderOf \in [Messages -> Senders]
  /\ RestMessages \subseteq Messages
  /\ Kind \in [Messages -> Kinds]
  /\ Count \in Nat \ {0}
  /\ MaxEntries \in Nat
  /\ MaxFaults \in Nat

VARIABLES
  stream,     \* the Redis stream: stream[e] is the message of entry e
  cursor,     \* last entry delivered to the group
  pel,        \* delivered entries that are not acknowledged
  idle,       \* those of pel whose last delivery is claim_idle_ms ago
  dlq,        \* entries copied to the dead-letter stream
  rows,       \* the messages table in order of created_at
  announced,  \* messages published as message:new on the realtime channel
  permitted,  \* users for whom chat, account, membership allow sending
  running,    \* savers that are deployed
  pc,         \* what each saver does next
  batch,      \* entries each saver holds, the first of them in hand
  phase,      \* half of the loop: XAUTOCLAIM or XREADGROUP
  rest,       \* progress of a REST request that sends m
  faults      \* crashes and failed calls so far

vars == <<stream, cursor, pel, idle, dlq, rows, announced, permitted,
          running, pc, batch, phase, rest, faults>>

\* The steps of _handle_entry, in code order; "ack" and "ackdlq" are the XACK
\* of the try branch and of the PermanentStreamError branch.
Steps == {"check", "lookup", "insert", "publish", "ack", "dlq", "ackdlq"}

\* The n smallest of S: XAUTOCLAIM walks the pending list in id order.
Smallest(S, n) == {e \in S : Cardinality({x \in S : x < e}) < n}

\* Mutant of InHand: the newest entry of the batch is handled first.
InHandNewestFirst(s, e) == e \in batch[s] /\ \A x \in batch[s] : e >= x

\* The for loops over a batch hand its entries to _handle_entry in id order.
InHand(s, e) == e \in batch[s] /\ \A x \in batch[s] : e <= x

Stored(m) == \E i \in DOMAIN rows : rows[i].cid = m

-----------------------------------------------------------------------------
Init ==
  /\ stream = <<>>
  /\ cursor = 0
  /\ pel = {}
  /\ idle = {}
  /\ dlq = {}
  /\ rows = <<>>
  /\ announced = {}
  /\ permitted = Senders
  /\ running \in SUBSET Savers \ {{}}
  /\ pc = [s \in Savers |-> IF s \in running THEN "fetch" ELSE "off"]
  /\ batch = [s \in Savers |-> {}]
  /\ phase = [s \in Savers |-> "claim"]
  /\ rest = [m \in RestMessages |-> "none"]
  /\ faults = 0

-----------------------------------------------------------------------------
(* The websocket server and the users.                                     *)

\* The chat_message case up to XADD; the client may send m again when it saw
\* no answer.  The permission it asks is the Redis copy, which may be stale in
\* both directions, so it does not restrict what reaches the stream.
Enqueue(m) ==
  /\ Len(stream) < MaxEntries
  /\ stream' = Append(stream, m)
  /\ UNCHANGED <<cursor, pel, idle, dlq, rows, announced, permitted, running,
                 pc, batch, phase, rest, faults>>

\* A member is removed, banned from sending, readmitted, ...
ChangePermission(u) ==
  /\ permitted' = IF u \in permitted THEN permitted \ {u}
                                     ELSE permitted \cup {u}
  /\ UNCHANGED <<stream, cursor, pel, idle, dlq, rows, announced, running,
                 pc, batch, phase, rest, faults>>

\* claim_idle_ms pass since entry e was last delivered.
Age(e) ==
  /\ e \in pel \ idle
  /\ idle' = idle \cup {e}
  /\ UNCHANGED <<stream, cursor, pel, dlq, rows, announced, permitted,
                 running, pc, batch, phase, rest, faults>>

-----------------------------------------------------------------------------
(* One saver.                                                              *)

Goto(s, step) == pc' = [pc EXCEPT ![s] = step]

\* consume_forever alternates between XAUTOCLAIM and XREADGROUP.
EndPhase(s) ==
  /\ Goto(s, "fetch")
  /\ phase' = [phase EXCEPT ![s] = IF @ = "claim" THEN "read" ELSE "claim"]

\* A batch goes to s; an empty one ends the phase.
Take(s, entries) ==
  /\ batch' = [batch EXCEPT ![s] = entries]
  /\ IF entries = {} THEN EndPhase(s) ELSE Goto(s, "check") /\ UNCHANGED phase

\* The for loops around _handle_entry: the next entry, or the next phase.
NextEntry(s, e) ==
  /\ batch' = [batch EXCEPT ![s] = @ \ {e}]
  /\ IF batch[s] = {e} THEN EndPhase(s) ELSE Goto(s, "check") /\ UNCHANGED phase

\* Mutant of Claim: pending entries are never reclaimed.
ClaimNothing(s) ==
  /\ pc[s] = "fetch" /\ phase[s] = "claim"
  /\ Take(s, {})
  /\ UNCHANGED <<stream, cursor, pel, idle, dlq, rows, announced, permitted,
                 running, rest, faults>>

\* _claim_stale_pending: XAUTOCLAIM from 0-0, which resets the idle time.
Claim(s) ==
  /\ pc[s] = "fetch" /\ phase[s] = "claim"
  /\ LET taken == Smallest(idle, Count) IN
     /\ Take(s, taken)
     /\ idle' = idle \ taken
  /\ UNCHANGED <<stream, cursor, pel, dlq, rows, announced, permitted,
                 running, rest, faults>>

\* The last entry the next XREADGROUP delivers.
LastDelivered ==
  IF cursor + Count <= Len(stream) THEN cursor + Count ELSE Len(stream)

\* XREADGROUP ">": the entries after the group's cursor become pending.
Read(s) ==
  /\ pc[s] = "fetch" /\ phase[s] = "read"
  /\ LET new == (cursor + 1) .. LastDelivered IN
     /\ Take(s, new)
     /\ pel' = pel \cup new
     /\ cursor' = LastDelivered
  /\ UNCHANGED <<stream, idle, dlq, rows, announced, permitted, running,
                 rest, faults>>

\* _process_entry up to the reply target: parse, chat, sender, membership.
Check(s, e) ==
  /\ pc[s] = "check"
  /\ Goto(s, IF Kind[stream[e]] # "malformed" /\ SenderOf[stream[e]] \in permitted
             THEN "lookup" ELSE "dlq")
  /\ UNCHANGED <<stream, cursor, pel, idle, dlq, rows, announced, permitted,
                 running, batch, phase, rest, faults>>

\* Mutant of Lookup: a duplicate is acknowledged without its announcement.
LookupSilentDuplicate(s, e) ==
  /\ pc[s] = "lookup"
  /\ \/ Stored(stream[e]) /\ Goto(s, "ack")
     \/ ~Stored(stream[e]) /\ Goto(s, "insert")
     \/ ~Stored(stream[e]) /\ Kind[stream[e]] = "media" /\ Goto(s, "dlq")
  /\ UNCHANGED <<stream, cursor, pel, idle, dlq, rows, announced, permitted,
                 running, batch, phase, rest, faults>>

\* The query by client_uuid, then the attachments of a message not yet stored.
Lookup(s, e) ==
  /\ pc[s] = "lookup"
  /\ \/ Stored(stream[e]) /\ Goto(s, "publish")
     \/ ~Stored(stream[e]) /\ Goto(s, "insert")
     \/ ~Stored(stream[e]) /\ Kind[stream[e]] = "media" /\ Goto(s, "dlq")
  /\ UNCHANGED <<stream, cursor, pel, idle, dlq, rows, announced, permitted,
                 running, batch, phase, rest, faults>>

\* Mutant of Insert: no unique constraint on client_uuid.
InsertAlways(s, e) ==
  /\ pc[s] = "insert"
  /\ rows' = Append(rows, [cid |-> stream[e], by |-> e])
  /\ Goto(s, "publish")
  /\ UNCHANGED <<stream, cursor, pel, idle, dlq, announced, permitted,
                 running, batch, phase, rest, faults>>

\* transaction.atomic().  The unique constraint on client_uuid, or a row that
\* cannot be written, raises: logged, and the entry stays pending.
Insert(s, e) ==
  /\ pc[s] = "insert"
  /\ IF Stored(stream[e]) \/ Kind[stream[e]] = "poison"
     THEN NextEntry(s, e) /\ UNCHANGED rows
     ELSE /\ rows' = Append(rows, [cid |-> stream[e], by |-> e])
          /\ Goto(s, "publish")
          /\ UNCHANGED <<batch, phase>>
  /\ UNCHANGED <<stream, cursor, pel, idle, dlq, announced, permitted,
                 running, rest, faults>>

\* _emit_persisted_event, after the commit; also for a duplicate.
Publish(s, e) ==
  /\ pc[s] = "publish"
  /\ announced' = announced \cup {stream[e]}
  /\ Goto(s, "ack")
  /\ UNCHANGED <<stream, cursor, pel, idle, dlq, rows, permitted, running,
                 batch, phase, rest, faults>>

\* Mutant of MoveToDlq: a failed XADD is swallowed.
MoveToDlqBestEffort(s, e) ==
  /\ pc[s] = "dlq"
  /\ dlq' \in {dlq, dlq \cup {e}}
  /\ Goto(s, "ackdlq")
  /\ UNCHANGED <<stream, cursor, pel, idle, rows, announced, permitted,
                 running, batch, phase, rest, faults>>

\* _move_to_dlq
MoveToDlq(s, e) ==
  /\ pc[s] = "dlq"
  /\ dlq' = dlq \cup {e}
  /\ Goto(s, "ackdlq")
  /\ UNCHANGED <<stream, cursor, pel, idle, rows, announced, permitted,
                 running, batch, phase, rest, faults>>

Ack(s, e) ==
  /\ pc[s] \in {"ack", "ackdlq"}
  /\ pel' = pel \ {e}
  /\ idle' = idle \ {e}
  /\ NextEntry(s, e)
  /\ UNCHANGED <<stream, cursor, dlq, rows, announced, permitted, running,
                 rest, faults>>

\* _handle_entry, one call at a time
Handle(s, e) ==
  \/ Check(s, e) \/ Lookup(s, e) \/ Insert(s, e)
  \/ Publish(s, e) \/ MoveToDlq(s, e) \/ Ack(s, e)

SaverStep(s) ==
  \/ Claim(s) \/ Read(s)
  \/ \E e \in batch[s] : InHand(s, e) /\ Handle(s, e)

-----------------------------------------------------------------------------
(* Failures.                                                               *)

\* Mutant of Transient: XACK in a finally clause.
TransientAcks(s) ==
  /\ faults < MaxFaults
  /\ faults' = faults + 1
  /\ pc[s] \in {"check", "lookup", "insert", "publish", "ack"}
  /\ \E e \in batch[s] : /\ InHand(s, e)
                         /\ pel' = pel \ {e}
                         /\ idle' = idle \ {e}
                         /\ NextEntry(s, e)
  /\ UNCHANGED <<stream, cursor, dlq, rows, announced, permitted, running,
                 rest>>

\* A call fails inside the try of _handle_entry, or XAUTOCLAIM fails: logged,
\* and the loop goes on; the entry in hand stays pending.
Transient(s) ==
  /\ faults < MaxFaults
  /\ faults' = faults + 1
  /\ \/ pc[s] \in {"check", "lookup", "insert", "publish", "ack"}
        /\ \E e \in batch[s] : InHand(s, e) /\ NextEntry(s, e)
     \/ /\ pc[s] = "fetch" /\ phase[s] = "claim"
        /\ EndPhase(s) /\ UNCHANGED batch
  /\ UNCHANGED <<stream, cursor, pel, idle, dlq, rows, announced, permitted,
                 running, rest>>

\* The process dies: killed, or an error outside the try (XREADGROUP, or the
\* calls of the PermanentStreamError branch, which no handler encloses).
Crash(s) ==
  /\ faults < MaxFaults
  /\ faults' = faults + 1
  /\ pc[s] \in Steps \cup {"fetch"}
  /\ Goto(s, "down")
  /\ batch' = [batch EXCEPT ![s] = {}]
  /\ phase' = [phase EXCEPT ![s] = "claim"]
  /\ UNCHANGED <<stream, cursor, pel, idle, dlq, rows, announced, permitted,
                 running, rest>>

\* The container is restarted; ensure_group finds the group.
Restart(s) ==
  /\ pc[s] = "down"
  /\ Goto(s, "fetch")
  /\ UNCHANGED <<stream, cursor, pel, idle, dlq, rows, announced, permitted,
                 running, batch, phase, rest, faults>>

-----------------------------------------------------------------------------
(* The REST endpoint: ChatMessagesAPIView.post.                            *)

RestGoto(m, step) == rest' = [rest EXCEPT ![m] = step]

restUnchanged == <<stream, cursor, pel, idle, dlq, permitted, running, pc,
                   batch, phase, faults>>

\* validate: membership and contents
RestValidate(m) ==
  /\ rest[m] = "none"
  /\ SenderOf[m] \in permitted
  /\ Kind[m] # "malformed"
  /\ RestGoto(m, "lookup")
  /\ UNCHANGED <<rows, announced, restUnchanged>>

\* create: the query by client_uuid
RestLookup(m) ==
  /\ rest[m] = "lookup"
  /\ RestGoto(m, IF Stored(m) THEN "publish" ELSE "insert")
  /\ UNCHANGED <<rows, announced, restUnchanged>>

\* create: Message.objects.create; a unique violation is an error 500
RestInsert(m) ==
  /\ rest[m] = "insert"
  /\ IF Stored(m) \/ Kind[m] = "poison"
     THEN RestGoto(m, "none") /\ UNCHANGED rows
     ELSE /\ rows' = Append(rows, [cid |-> m, by |-> 0])
          /\ RestGoto(m, "publish")
  /\ UNCHANGED <<announced, restUnchanged>>

\* The events after save(); a worker that dies before them announces nothing.
RestPublish(m) ==
  /\ rest[m] = "publish"
  /\ \/ announced' = announced \cup {m}
     \/ UNCHANGED announced
  /\ RestGoto(m, "none")
  /\ UNCHANGED <<rows, restUnchanged>>

-----------------------------------------------------------------------------
Next ==
  \/ \E m \in Messages : Enqueue(m)
  \/ \E m \in RestMessages :
       RestValidate(m) \/ RestLookup(m) \/ RestInsert(m) \/ RestPublish(m)
  \/ \E u \in Senders : ChangePermission(u)
  \/ \E e \in pel : Age(e)
  \/ \E s \in Savers : SaverStep(s) \/ Transient(s) \/ Crash(s) \/ Restart(s)

\* The loop of consume_forever never stops by itself, Docker restarts the
\* container, and time passes.  Nothing is assumed of users, of REST clients
\* or of faults.
Fairness ==
  /\ \A s \in Savers : WF_vars(SaverStep(s)) /\ WF_vars(Restart(s))
  /\ \A e \in 1 .. MaxEntries : WF_vars(Age(e))

Spec == Init /\ [][Next]_vars /\ Fairness

-----------------------------------------------------------------------------
TypeOK ==
  /\ stream \in Seq(Messages)
  /\ cursor \in 0 .. Len(stream)
  /\ pel \subseteq 1 .. cursor
  /\ idle \subseteq pel
  /\ dlq \subseteq 1 .. cursor
  /\ rows \in Seq([cid : Messages, by : Nat])
  /\ announced \subseteq Messages
  /\ permitted \subseteq Senders
  /\ running \subseteq Savers
  /\ pc \in [Savers -> Steps \cup {"off", "down", "fetch"}]
  /\ batch \in [Savers -> SUBSET (1 .. cursor)]
  /\ phase \in [Savers -> {"claim", "read"}]
  /\ rest \in [RestMessages -> {"none", "lookup", "insert", "publish"}]
  /\ faults \in Nat

\* Entries the group has forgotten: delivered and no longer pending.
Settled == (1 .. cursor) \ pel

\* No accepted message is lost: an entry leaves the pending list only when its
\* message is a row or the entry is in the dead-letter stream, whatever crash,
\* failed call, reclaim or revoked membership came in between.
NoLostEntry == \A e \in Settled : Stored(stream[e]) \/ e \in dlq

\* One client_uuid never becomes two rows, although two savers and the REST
\* endpoint each look it up before they insert.
StoredOnce ==
  \A i, j \in DOMAIN rows : rows[i].cid = rows[j].cid => i = j

\* An acknowledged entry that was not refused has been announced: a publish
\* that fails after the commit is made up for by the redelivery.
SettledAnnounced == \A e \in Settled : e \in dlq \/ stream[e] \in announced

\* Deployed as one saver and undisturbed, the savers write the messages of
\* the stream in the order in which the users sent them.
InOrder ==
  (\E s \in Savers : running = {s}) /\ faults = 0 =>
    \A i, j \in DOMAIN rows :
      (i < j /\ rows[i].by # 0 /\ rows[j].by # 0) => rows[i].by < rows[j].by

\* Entries before e that fail on every attempt and so stay pending.
FailingBefore(e) == {x \in 1 .. (e - 1) : Kind[stream[x]] = "poison"}

\* An accepted entry that can be stored or refused is eventually settled, past
\* crashes, restarts and up to Count - 1 earlier entries that fail on every
\* attempt.  The bound is the code's: XAUTOCLAIM starts at 0-0 each time, so
\* Count such entries fill every claim and starve the entries behind them.
EventuallySettled ==
  \A e \in 1 .. MaxEntries :
    (/\ e <= Len(stream)
     /\ Kind[stream[e]] # "poison"
     /\ Cardinality(FailingBefore(e)) < Count) ~> e \in Settled

\* What the pipeline promises, with the rows of the table as the saved
\* messages and the forgotten entries as the settled ones.
Delivery == INSTANCE DurableDelivery WITH
  accepted <- stream,
  saved    <- {rows[i].cid : i \in DOMAIN rows},
  refused  <- dlq,
  settled  <- Settled

ImplementsDelivery == Delivery!Spec

=============================================================================
