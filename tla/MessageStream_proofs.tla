---------------------- MODULE MessageStream_proofs ----------------------
(***************************************************************************)
(* Proofs about MessageStream for every set of messages, senders and       *)
(* savers, every batch size and every number of entries and faults.        *)
(***************************************************************************)
EXTENDS MessageStream, TLAPS

-----------------------------------------------------------------------------
\* A row written for m keeps the table well typed (Message.objects.create in
\* the saver and in MessageCreateSerializer.create).
LEMMA AppendRow ==
  ASSUME rows \in Seq([cid : Messages, by : Nat]),
         NEW m \in Messages, NEW b \in Nat
  PROVE  Append(rows, [cid |-> m, by |-> b]) \in Seq([cid : Messages, by : Nat])
<1> DEFINE row == [cid |-> m, by |-> b]
<1>1. row \in [cid : Messages, by : Nat]
  OBVIOUS
<1> HIDE DEF row
<1>2. Append(rows, row) \in Seq([cid : Messages, by : Nat])
  BY <1>1
<1>3. QED
  BY <1>2 DEF row

\* XAUTOCLAIM claims only entries of the idle part of the pending list.
LEMMA SmallestIsSubset ==
  ASSUME NEW S, NEW n
  PROVE  Smallest(S, n) \subseteq S
BY Zenon DEF Smallest

\* Handing out a batch of delivered entries, and moving on from an entry, keep
\* the control state of a saver well typed (consume_forever).
LEMMA TakeTypes ==
  ASSUME TypeOK, NEW s \in Savers, NEW n \in Nat, NEW S \in SUBSET (1 .. n),
         cursor <= n, Take(s, S)
  PROVE  /\ pc' \in [Savers -> Steps \cup {"off", "down", "fetch"}]
         /\ batch' \in [Savers -> SUBSET (1 .. n)]
         /\ phase' \in [Savers -> {"claim", "read"}]
<1>1. batch' \in [Savers -> SUBSET (1 .. n)]
  <2>1. batch \in [Savers -> SUBSET (1 .. n)]
    BY DEF TypeOK
  <2>2. QED
    BY <2>1 DEF Take
<1>2. QED
  BY <1>1 DEF TypeOK, Take, EndPhase, Goto, Steps

LEMMA NextEntryTypes ==
  ASSUME TypeOK, NEW s \in Savers, NEW e, NextEntry(s, e)
  PROVE  /\ pc' \in [Savers -> Steps \cup {"off", "down", "fetch"}]
         /\ batch' \in [Savers -> SUBSET (1 .. cursor)]
         /\ phase' \in [Savers -> {"claim", "read"}]
BY DEF TypeOK, NextEntry, EndPhase, Goto, Steps

-----------------------------------------------------------------------------
\* Types.  An entry is in a batch or on a list of the group only after it has
\* been delivered, so never beyond the cursor (_claim_stale_pending and
\* consume_forever are the only places that hand out entries).
THEOREM TypeCorrect == Spec => []TypeOK
<1>1. Init => TypeOK
  BY ConstantsAssumption DEF Init, TypeOK
<1>2. TypeOK /\ [Next]_vars => TypeOK'
  <2> SUFFICES ASSUME TypeOK, [Next]_vars
               PROVE  TypeOK'
    OBVIOUS
  <2> USE ConstantsAssumption
  <2>1. ASSUME NEW m \in Messages, Enqueue(m)
        PROVE  TypeOK'
    BY <2>1 DEF Enqueue, TypeOK
  <2>2. ASSUME NEW m \in RestMessages, RestValidate(m) \/ RestLookup(m)
        PROVE  TypeOK'
    BY <2>2 DEF RestValidate, RestLookup, RestGoto, restUnchanged, TypeOK
  <2>3. ASSUME NEW m \in RestMessages, RestInsert(m)
        PROVE  TypeOK'
    <3>1. /\ rows \in Seq([cid : Messages, by : Nat])
          /\ m \in Messages
      BY DEF TypeOK, ConstantsAssumption
    <3>2. Append(rows, [cid |-> m, by |-> 0]) \in Seq([cid : Messages, by : Nat])
      BY <3>1, AppendRow
    <3>3. rows' \in Seq([cid : Messages, by : Nat])
      BY <2>3, <3>1, <3>2 DEF RestInsert
    <3>4. QED
      BY <2>3, <3>3 DEF RestInsert, RestGoto, restUnchanged, TypeOK
  <2>4. ASSUME NEW m \in RestMessages, RestPublish(m)
        PROVE  TypeOK'
    BY <2>4 DEF RestPublish, RestGoto, restUnchanged, TypeOK,
                ConstantsAssumption
  <2>5. ASSUME NEW u \in Senders, ChangePermission(u)
        PROVE  TypeOK'
    BY <2>5 DEF ChangePermission, TypeOK
  <2>6. ASSUME NEW e \in pel, Age(e)
        PROVE  TypeOK'
    BY <2>6 DEF Age, TypeOK
  <2>7. ASSUME NEW s \in Savers, Claim(s)
        PROVE  TypeOK'
    <3>1. Take(s, Smallest(idle, Count)) /\ idle' \subseteq idle
      BY <2>7 DEF Claim
    <3>2. Smallest(idle, Count) \in SUBSET (1 .. cursor) /\ cursor \in Nat
      <4>1. Smallest(idle, Count) \subseteq idle
        BY SmallestIsSubset
      <4>2. cursor \in Nat
        BY DEF TypeOK
      <4>3. QED
        BY <4>1, <4>2 DEF TypeOK
    <3>3. /\ pc' \in [Savers -> Steps \cup {"off", "down", "fetch"}]
          /\ batch' \in [Savers -> SUBSET (1 .. cursor)]
          /\ phase' \in [Savers -> {"claim", "read"}]
      BY <3>1, <3>2, TakeTypes
    <3>4. QED
      BY <2>7, <3>1, <3>3 DEF Claim, TypeOK
  <2>8. ASSUME NEW s \in Savers, Read(s)
        PROVE  TypeOK'
    <3>1. Take(s, (cursor + 1) .. LastDelivered) /\ cursor' = LastDelivered
      BY <2>8 DEF Read
    <3>2. /\ LastDelivered \in Nat
          /\ cursor <= LastDelivered /\ LastDelivered <= Len(stream)
          /\ cursor \in Nat
      BY DEF LastDelivered, TypeOK, ConstantsAssumption
    <3>3. (cursor + 1) .. LastDelivered \in SUBSET (1 .. LastDelivered)
      BY <3>2
    <3>4. /\ pc' \in [Savers -> Steps \cup {"off", "down", "fetch"}]
          /\ batch' \in [Savers -> SUBSET (1 .. cursor')]
          /\ phase' \in [Savers -> {"claim", "read"}]
      BY <3>1, <3>2, <3>3, TakeTypes
    <3>5. pel' \subseteq 1 .. cursor' /\ dlq \subseteq 1 .. cursor'
      BY <2>8, <3>1, <3>2 DEF Read, TypeOK
    <3>6. QED
      BY <2>8, <3>1, <3>2, <3>4, <3>5 DEF Read, TypeOK
  <2>9. ASSUME NEW s \in Savers, NEW e \in batch[s], Handle(s, e)
        PROVE  TypeOK'
    <3>1. e \in 1 .. cursor /\ stream[e] \in Messages /\ e \in Nat
      BY DEF TypeOK
    <3>2. CASE Check(s, e) \/ Lookup(s, e)
      BY <3>2 DEF Check, Lookup, Goto, Steps, TypeOK
    <3>3. CASE Insert(s, e)
      <4>1. rows' \in Seq([cid : Messages, by : Nat])
        BY <3>1, <3>3, AppendRow DEF Insert, TypeOK
      <4>2. /\ pc' \in [Savers -> Steps \cup {"off", "down", "fetch"}]
            /\ batch' \in [Savers -> SUBSET (1 .. cursor)]
            /\ phase' \in [Savers -> {"claim", "read"}]
        BY <3>3, NextEntryTypes DEF Insert, Goto, Steps, TypeOK
      <4>3. QED
        BY <3>3, <4>1, <4>2 DEF Insert, TypeOK
    <3>4. CASE Publish(s, e) \/ MoveToDlq(s, e)
      BY <3>1, <3>4 DEF Publish, MoveToDlq, Goto, Steps, TypeOK
    <3>5. CASE Ack(s, e)
      BY <3>5, NextEntryTypes DEF Ack, TypeOK
    <3>6. QED
      BY <2>9, <3>2, <3>3, <3>4, <3>5 DEF Handle
  <2>10. ASSUME NEW s \in Savers, Transient(s)
         PROVE  TypeOK'
    <3>1. /\ pc' \in [Savers -> Steps \cup {"off", "down", "fetch"}]
          /\ batch' \in [Savers -> SUBSET (1 .. cursor)]
          /\ phase' \in [Savers -> {"claim", "read"}]
      BY <2>10, NextEntryTypes DEF Transient, EndPhase, Goto, Steps, TypeOK
    <3>2. QED
      BY <2>10, <3>1 DEF Transient, TypeOK
  <2>11. ASSUME NEW s \in Savers, Crash(s) \/ Restart(s)
         PROVE  TypeOK'
    <3>1. CASE Crash(s)
      BY <3>1 DEF Crash, Goto, Steps, TypeOK
    <3>2. CASE Restart(s)
      BY <3>2 DEF Restart, Goto, Steps, TypeOK
    <3>3. QED
      BY <2>11, <3>1, <3>2
  <2>12. CASE UNCHANGED vars
    BY <2>12 DEF vars, TypeOK
  <2>13. QED
    BY <2>1, <2>2, <2>3, <2>4, <2>5, <2>6, <2>7, <2>8, <2>9, <2>10, <2>11,
       <2>12 DEF Next, SaverStep
<1>3. QED
  BY <1>1, <1>2, PTL DEF Spec
-----------------------------------------------------------------------------
\* The inductive invariant.  What a saver has done for the entry in hand is
\* known from the step it is at, and stays true whatever the others do: rows
\* and dead letters are never withdrawn.
Progress ==
  \A s \in Savers : \A e \in batch[s] : InHand(s, e) =>
    /\ pc[s] = "publish" => Stored(stream[e])
    /\ pc[s] = "ack" => Stored(stream[e]) /\ stream[e] \in announced
    /\ pc[s] = "ackdlq" => e \in dlq

\* The entry e will not become a row any more.
Spent(e) == Stored(stream[e]) \/ Kind[stream[e]] = "poison"

\* The saver s works alone and nothing has failed.
Undisturbed(s) == running = {s} /\ faults = 0

RowsInOrder ==
  /\ \A i \in DOMAIN rows : rows[i].by <= cursor
  /\ \A i, j \in DOMAIN rows :
       (i < j /\ rows[i].by # 0 /\ rows[j].by # 0) => rows[i].by < rows[j].by

\* Then the entries it reclaims make no rows, and those it has read are behind
\* every row.
Alone(s) ==
  /\ \A x \in Savers \ {s} : pc[x] = "off" /\ batch[x] = {}
  /\ pc[s] # "down" /\ (pc[s] = "fetch" => batch[s] = {})
  /\ \A e \in pel \ batch[s] : Spent(e)
  /\ \A e \in batch[s] : Spent(e) \/ \A i \in DOMAIN rows : rows[i].by < e
  /\ RowsInOrder

Order == \A s \in Savers : Undisturbed(s) => Alone(s)

IInv == TypeOK /\ Progress /\ NoLostEntry /\ StoredOnce /\ SettledAnnounced /\ Order

\* Nothing that was recorded is withdrawn, and the entries handed out so far
\* keep their contents.
Monotone ==
  /\ \A m \in Messages : Stored(m) => Stored(m)'
  /\ dlq \subseteq dlq'
  /\ announced \subseteq announced'
  /\ \A e \in 1 .. cursor : stream'[e] = stream[e]

LEMMA StoredGrows ==
  ASSUME rows \in Seq([cid : Messages, by : Nat]),
         NEW m \in Messages, NEW b \in Nat,
         rows' = Append(rows, [cid |-> m, by |-> b])
  PROVE  /\ \A k : Stored(k) => Stored(k)'
         /\ Stored(m)'
<1>1. /\ Len(rows') = Len(rows) + 1 /\ Len(rows) \in Nat
      /\ \A i \in 1 .. Len(rows) : rows'[i] = rows[i]
      /\ rows'[Len(rows) + 1] = [cid |-> m, by |-> b]
      /\ DOMAIN rows = 1 .. Len(rows) /\ DOMAIN rows' = 1 .. Len(rows')
  <2> DEFINE row == [cid |-> m, by |-> b]
  <2>1. row \in [cid : Messages, by : Nat] /\ rows' = Append(rows, row)
    OBVIOUS
  <2> HIDE DEF row
  <2>2. /\ Len(rows') = Len(rows) + 1 /\ Len(rows) \in Nat
        /\ \A i \in 1 .. Len(rows) : rows'[i] = rows[i]
        /\ rows'[Len(rows) + 1] = row
        /\ DOMAIN rows = 1 .. Len(rows) /\ DOMAIN rows' = 1 .. Len(rows')
    BY <2>1
  <2>3. QED
    BY <2>2 DEF row
<1>2. \A k : Stored(k) => Stored(k)'
  BY <1>1 DEF Stored
<1>3. Stored(m)'
  <2>1. Len(rows) + 1 \in DOMAIN rows' /\ rows'[Len(rows) + 1].cid = m
    BY <1>1
  <2>2. QED
    BY <2>1 DEF Stored
<1>4. QED
  BY <1>2, <1>3

LEMMA StepIsMonotone ==
  ASSUME TypeOK, [Next]_vars
  PROVE  Monotone
<1> USE DEF Monotone
<1>1. ASSUME NEW m \in Messages, Enqueue(m)
      PROVE  Monotone
  <2>1. \A e \in 1 .. cursor : stream'[e] = stream[e]
    BY <1>1 DEF Enqueue, TypeOK
  <2>2. QED
    BY <1>1, <2>1 DEF Enqueue, Stored
<1>2. ASSUME NEW m \in RestMessages, RestInsert(m)
      PROVE  Monotone
  <2>1. m \in Messages
    BY ConstantsAssumption DEF ConstantsAssumption
  <2>2. \A k : Stored(k) => Stored(k)'
    BY <1>2, <2>1, StoredGrows DEF RestInsert, TypeOK, Stored
  <2>3. QED
    BY <1>2, <2>2 DEF RestInsert, restUnchanged
<1>3. ASSUME NEW s \in Savers, NEW e \in batch[s], Insert(s, e)
      PROVE  Monotone
  <2>1. stream[e] \in Messages /\ e \in Nat
    BY DEF TypeOK
  <2>2. \A k : Stored(k) => Stored(k)'
    BY <1>3, <2>1, StoredGrows DEF Insert, TypeOK, Stored
  <2>3. QED
    BY <1>3, <2>2 DEF Insert
<1>4. CASE UNCHANGED <<stream, rows>> /\ dlq \subseteq dlq'
           /\ announced \subseteq announced'
  BY <1>4 DEF Stored
<1>5. ASSUME NEW s \in Savers, NEW e \in batch[s], Handle(s, e)
      PROVE  Insert(s, e) \/ (UNCHANGED <<stream, rows>> /\ dlq \subseteq dlq'
                              /\ announced \subseteq announced')
  BY <1>5 DEF Handle, Check, Lookup, Publish, MoveToDlq, Ack
<1>6. QED
  <2>1. CASE UNCHANGED vars
    BY <1>4, <2>1 DEF vars
  <2>2. CASE \E m \in RestMessages :
               RestValidate(m) \/ RestLookup(m) \/ RestPublish(m)
    BY <1>4, <2>2 DEF RestValidate, RestLookup, RestPublish, restUnchanged
  <2>3. CASE \E u \in Senders : ChangePermission(u)
    BY <1>4, <2>3 DEF ChangePermission
  <2>4. CASE \E e \in pel : Age(e)
    BY <1>4, <2>4 DEF Age
  <2>5. CASE \E s \in Savers : Claim(s) \/ Read(s) \/ Transient(s) \/ Crash(s)
                               \/ Restart(s)
    BY <1>4, <2>5 DEF Claim, Read, Transient, Crash, Restart
  <2>6. QED
    BY <1>1, <1>2, <1>3, <1>4, <1>5, <2>1, <2>2, <2>3, <2>4, <2>5
       DEF Next, SaverStep

-----------------------------------------------------------------------------
\* Progress.  A step of one saver says nothing about the others: what they
\* have done is still true because nothing is withdrawn.
LEMMA OthersProgress ==
  ASSUME TypeOK, Progress, Monotone, NEW s \in Savers,
         pc'[s] = pc[s], batch'[s] = batch[s]
  PROVE  \A e \in batch'[s] : InHand(s, e)' =>
           /\ pc'[s] = "publish" => Stored(stream[e])'
           /\ pc'[s] = "ack" => Stored(stream[e])' /\ stream'[e] \in announced'
           /\ pc'[s] = "ackdlq" => e \in dlq'
<1> SUFFICES ASSUME NEW e \in batch'[s], InHand(s, e)'
             PROVE  /\ pc'[s] = "publish" => Stored(stream[e])'
                    /\ pc'[s] = "ack" => Stored(stream[e])'
                                         /\ stream'[e] \in announced'
                    /\ pc'[s] = "ackdlq" => e \in dlq'
  OBVIOUS
<1>1. e \in batch[s] /\ InHand(s, e)
  BY DEF InHand
<1>2. e \in 1 .. cursor /\ stream[e] \in Messages /\ stream'[e] = stream[e]
  BY <1>1 DEF TypeOK, Monotone
<1>3. Stored(stream[e]) => Stored(stream[e])'
  <2>1. \A m \in Messages : Stored(m) => Stored(m)'
    BY DEF Monotone
  <2>2. Stored(stream[e])' <=> \E i \in DOMAIN rows' : rows'[i].cid = stream[e]
    BY <1>2 DEF Stored
  <2>3. QED
    BY <1>2, <2>1, <2>2 DEF Stored
<1>4. QED
  BY <1>1, <1>2, <1>3 DEF Progress, Monotone

\* A saver that is not at "publish", "ack" or "ackdlq" claims nothing.
LEMMA ProgressOfOne ==
  ASSUME TypeOK, TypeOK', Progress, Monotone, NEW s \in Savers,
         \A r \in Savers \ {s} : pc'[r] = pc[r] /\ batch'[r] = batch[r],
         pc'[s] \notin {"publish", "ack", "ackdlq"}
  PROVE  Progress'
BY OthersProgress DEF Progress

LEMMA ProgressKept ==
  ASSUME TypeOK, TypeOK', Progress, [Next]_vars
  PROVE  Progress'
<1>1. Monotone
  BY StepIsMonotone
<1>2. CASE UNCHANGED <<pc, batch>>
  BY <1>1, <1>2, OthersProgress DEF Progress
<1>3. ASSUME NEW s \in Savers, Claim(s) \/ Read(s)
      PROVE  Progress'
  <2>1. /\ \A r \in Savers \ {s} : pc'[r] = pc[r] /\ batch'[r] = batch[r]
        /\ pc'[s] \in {"fetch", "check"}
    BY <1>3 DEF Claim, Read, Take, EndPhase, Goto, TypeOK
  <2>2. QED
    BY <1>1, <2>1, ProgressOfOne
<1>4. ASSUME NEW s \in Savers, Transient(s) \/ Crash(s) \/ Restart(s)
      PROVE  Progress'
  <2>1. /\ \A r \in Savers \ {s} : pc'[r] = pc[r] /\ batch'[r] = batch[r]
        /\ pc'[s] \in {"fetch", "check", "down"}
    <3>1. CASE Transient(s)
      BY <3>1 DEF Transient, NextEntry, EndPhase, Goto, TypeOK
    <3>2. CASE Crash(s)
      BY <3>2 DEF Crash, Goto, TypeOK
    <3>3. CASE Restart(s)
      BY <3>3 DEF Restart, Goto, TypeOK
    <3>4. QED
      BY <1>4, <3>1, <3>2, <3>3
  <2>2. QED
    BY <1>1, <2>1, ProgressOfOne
<1>5. ASSUME NEW s \in Savers, NEW e \in batch[s], InHand(s, e), Handle(s, e)
      PROVE  Progress'
  <2>1. \A r \in Savers \ {s} : pc'[r] = pc[r] /\ batch'[r] = batch[r]
    BY <1>5 DEF Handle, Check, Lookup, Insert, Publish, MoveToDlq, Ack,
                NextEntry, EndPhase, Goto, TypeOK
  <2>2. CASE pc'[s] \notin {"publish", "ack", "ackdlq"}
    BY <1>1, <2>1, <2>2, ProgressOfOne
  <2>3. e \in 1 .. cursor /\ stream[e] \in Messages /\ e \in Nat
    BY DEF TypeOK
  <2>4. ASSUME pc'[s] \in {"publish", "ack", "ackdlq"}
        PROVE  /\ UNCHANGED <<batch, stream>>
               /\ pc'[s] = "publish" => Stored(stream[e])'
               /\ pc'[s] = "ack" => Stored(stream[e])'
                                    /\ stream'[e] \in announced'
               /\ pc'[s] = "ackdlq" => e \in dlq'
    <3>1. CASE Check(s, e) \/ Ack(s, e)
      BY <2>4, <3>1 DEF Check, Ack, NextEntry, EndPhase, Goto, TypeOK
    <3>2. CASE Lookup(s, e)
      BY <2>4, <3>2 DEF Lookup, Goto, TypeOK, Stored
    <3>3. CASE Insert(s, e)
      <4>1. CASE Stored(stream[e]) \/ Kind[stream[e]] = "poison"
        BY <2>4, <3>3, <4>1 DEF Insert, NextEntry, EndPhase, Goto, TypeOK
      <4>2. CASE ~(Stored(stream[e]) \/ Kind[stream[e]] = "poison")
        <5>1. rows' = Append(rows, [cid |-> stream[e], by |-> e])
          BY <3>3, <4>2 DEF Insert
        <5>2. \E i \in DOMAIN rows' : rows'[i].cid = stream[e]
          BY <2>3, <5>1, StoredGrows DEF Stored, TypeOK
        <5>3. QED
          BY <3>3, <4>2, <5>2 DEF Insert, Goto, TypeOK, Stored
      <4>3. QED
        BY <4>1, <4>2
    <3>4. CASE Publish(s, e)
      BY <1>5, <2>3, <3>4 DEF Publish, Progress, Goto, TypeOK, Stored
    <3>5. CASE MoveToDlq(s, e)
      BY <2>4, <3>5 DEF MoveToDlq, Goto, TypeOK
    <3>6. QED
      BY <1>5, <3>1, <3>2, <3>3, <3>4, <3>5 DEF Handle
  <2>5. CASE pc'[s] \in {"publish", "ack", "ackdlq"}
    <3>1. UNCHANGED <<batch, stream>>
      BY <2>4, <2>5
    <3>2. ASSUME NEW x \in batch'[s], InHand(s, x)'
          PROVE  x = e
      <4>1. x <= e /\ e <= x
        BY <1>5, <3>1, <3>2 DEF InHand
      <4>2. x \in Nat
        BY <3>1 DEF TypeOK
      <4>3. QED
        BY <2>3, <4>1, <4>2
    <3>3. \A x \in batch'[s] : InHand(s, x)' =>
            /\ pc'[s] = "publish" => Stored(stream[x])'
            /\ pc'[s] = "ack" => Stored(stream[x])' /\ stream'[x] \in announced'
            /\ pc'[s] = "ackdlq" => x \in dlq'
      BY <2>4, <2>5, <3>2
    <3>4. ASSUME NEW r \in Savers \ {s}
          PROVE  \A x \in batch'[r] : InHand(r, x)' =>
            /\ pc'[r] = "publish" => Stored(stream[x])'
            /\ pc'[r] = "ack" => Stored(stream[x])' /\ stream'[x] \in announced'
            /\ pc'[r] = "ackdlq" => x \in dlq'
      BY <1>1, <2>1, OthersProgress
    <3>5. QED
      BY <3>3, <3>4 DEF Progress
  <2>6. QED
    BY <2>2, <2>5
<1>6. QED
  <2>1. CASE UNCHANGED vars
    BY <1>2, <2>1 DEF vars
  <2>2. CASE \/ \E m \in Messages : Enqueue(m)
             \/ \E m \in RestMessages :
                  RestValidate(m) \/ RestLookup(m) \/ RestInsert(m)
                  \/ RestPublish(m)
             \/ \E u \in Senders : ChangePermission(u)
             \/ \E e \in pel : Age(e)
    BY <1>2, <2>2 DEF Enqueue, RestValidate, RestLookup, RestInsert,
                      RestPublish, restUnchanged, ChangePermission, Age
  <2>3. QED
    BY <1>3, <1>4, <1>5, <2>1, <2>2 DEF Next, SaverStep

-----------------------------------------------------------------------------
\* A step that acknowledges nothing cannot lose anything.
LEMMA NothingForgotten ==
  ASSUME IInv, Monotone, Settled' \subseteq Settled
  PROVE  NoLostEntry' /\ SettledAnnounced'
<1> SUFFICES ASSUME NEW e \in Settled'
             PROVE  /\ Stored(stream[e])' \/ e \in dlq'
                    /\ e \in dlq' \/ stream'[e] \in announced'
  BY DEF NoLostEntry, SettledAnnounced
<1>1. e \in Settled /\ e \in 1 .. cursor /\ stream[e] \in Messages
  <2>1. e \in Settled
    OBVIOUS
  <2>2. e \in 1 .. cursor
    BY <2>1 DEF Settled
  <2>3. QED
    BY <2>1, <2>2 DEF IInv, TypeOK
<1>2. stream'[e] = stream[e]
  BY <1>1 DEF Monotone
<1>3. Stored(stream[e]) => Stored(stream[e])'
  <2>1. Stored(stream[e])' <=> \E i \in DOMAIN rows' : rows'[i].cid = stream[e]
    BY <1>2 DEF Stored
  <2>2. QED
    BY <1>1, <2>1 DEF Monotone, Stored
<1>4. QED
  BY <1>1, <1>2, <1>3 DEF IInv, NoLostEntry, SettledAnnounced, Monotone

\* An acknowledgement is safe: at "ack" and "ackdlq" the outcome is recorded.
LEMMA AckIsSafe ==
  ASSUME IInv, NEW s \in Savers, NEW e \in batch[s], InHand(s, e), Ack(s, e)
  PROVE  NoLostEntry' /\ SettledAnnounced'
<1>1. /\ Stored(stream[e]) \/ e \in dlq
      /\ e \in dlq \/ stream[e] \in announced
  BY DEF IInv, Progress, Ack
<1>2. /\ Settled' \subseteq Settled \cup {e}
      /\ UNCHANGED <<stream, rows, dlq, announced>>
  BY DEF Ack, Settled
<1>3. QED
  BY <1>1, <1>2 DEF IInv, NoLostEntry, SettledAnnounced, Stored

LEMMA RecordKept ==
  ASSUME IInv, [Next]_vars
  PROVE  NoLostEntry' /\ SettledAnnounced'
<1>1. Monotone
  BY StepIsMonotone DEF IInv
<1>2. CASE Settled' \subseteq Settled
  BY <1>1, <1>2, NothingForgotten
<1>3. ASSUME NEW s \in Savers, NEW e \in batch[s], InHand(s, e), Ack(s, e)
      PROVE  NoLostEntry' /\ SettledAnnounced'
  BY <1>3, AckIsSafe
<1>4. ASSUME NEW s \in Savers, Read(s)
      PROVE  Settled' \subseteq Settled
  BY <1>4 DEF Read, Settled, IInv, TypeOK
<1>5. ASSUME NEW s \in Savers, NEW e \in batch[s], Handle(s, e)
      PROVE  Ack(s, e) \/ Settled' \subseteq Settled
  BY <1>5 DEF Handle, Check, Lookup, Insert, Publish, MoveToDlq, Settled
<1>6. CASE UNCHANGED <<cursor, pel>>
  BY <1>2, <1>6 DEF Settled
<1>7. QED
  <2>1. CASE UNCHANGED vars
    BY <1>6, <2>1 DEF vars
  <2>2. CASE \/ \E m \in Messages : Enqueue(m)
             \/ \E m \in RestMessages :
                  RestValidate(m) \/ RestLookup(m) \/ RestInsert(m)
                  \/ RestPublish(m)
             \/ \E u \in Senders : ChangePermission(u)
             \/ \E e \in pel : Age(e)
    BY <1>6, <2>2 DEF Enqueue, RestValidate, RestLookup, RestInsert,
                      RestPublish, restUnchanged, ChangePermission, Age
  <2>3. CASE \E s \in Savers : Claim(s) \/ Transient(s) \/ Crash(s) \/ Restart(s)
    BY <1>6, <2>3 DEF Claim, Transient, Crash, Restart
  <2>4. QED
    BY <1>2, <1>3, <1>4, <1>5, <2>1, <2>2, <2>3 DEF Next, SaverStep

\* One row is added at most, and only for a client_uuid that has none.
LEMMA RowStepKeepsUnique ==
  ASSUME rows \in Seq([cid : Messages, by : Nat]), StoredOnce,
         NEW m \in Messages, NEW b \in Nat, ~Stored(m),
         rows' = Append(rows, [cid |-> m, by |-> b])
  PROVE  StoredOnce'
<1> DEFINE row == [cid |-> m, by |-> b]
<1>1. row \in [cid : Messages, by : Nat] /\ row.cid = m
      /\ rows' = Append(rows, row)
  OBVIOUS
<1> HIDE DEF row
<1>2. /\ Len(rows) \in Nat
      /\ \A i \in 1 .. Len(rows) : rows'[i] = rows[i]
      /\ rows'[Len(rows) + 1] = row
      /\ DOMAIN rows = 1 .. Len(rows)
      /\ DOMAIN rows' = 1 .. (Len(rows) + 1)
  BY <1>1
<1>3. \A i \in 1 .. Len(rows) : rows[i].cid # m
  BY <1>2 DEF Stored
<1>4. ASSUME NEW i \in DOMAIN rows', NEW j \in DOMAIN rows',
             rows'[i].cid = rows'[j].cid
      PROVE  i = j
  <2>1. CASE i \in 1 .. Len(rows) /\ j \in 1 .. Len(rows)
    BY <1>2, <1>4, <2>1 DEF StoredOnce
  <2>2. CASE i = Len(rows) + 1 \/ j = Len(rows) + 1
    BY <1>1, <1>2, <1>3, <1>4, <2>2
  <2>3. QED
    BY <1>2, <2>1, <2>2
<1>5. QED
  BY <1>4 DEF StoredOnce

LEMMA UniqueKept ==
  ASSUME TypeOK, StoredOnce, [Next]_vars
  PROVE  StoredOnce'
<1>1. CASE UNCHANGED rows
  BY <1>1 DEF StoredOnce
<1>2. ASSUME NEW m \in RestMessages, RestInsert(m)
      PROVE  StoredOnce'
  <2>1. m \in Messages /\ 0 \in Nat
    BY ConstantsAssumption DEF ConstantsAssumption
  <2>2. rows \in Seq([cid : Messages, by : Nat])
    BY DEF TypeOK
  <2>3. UNCHANGED rows
        \/ (~Stored(m) /\ rows' = Append(rows, [cid |-> m, by |-> 0]))
    BY <1>2 DEF RestInsert
  <2>4. QED
    BY <1>1, <2>1, <2>2, <2>3, RowStepKeepsUnique
<1>3. ASSUME NEW s \in Savers, NEW e \in batch[s], Handle(s, e)
      PROVE  StoredOnce'
  <2>1. stream[e] \in Messages /\ e \in Nat
    BY DEF TypeOK
  <2>2. rows \in Seq([cid : Messages, by : Nat])
    BY DEF TypeOK
  <2>3. UNCHANGED rows \/ (~Stored(stream[e])
                /\ rows' = Append(rows, [cid |-> stream[e], by |-> e]))
    BY <1>3 DEF Handle, Check, Lookup, Insert, Publish, MoveToDlq, Ack
  <2>4. QED
    BY <1>1, <2>1, <2>2, <2>3, RowStepKeepsUnique
<1>4. QED
  <2>1. CASE UNCHANGED vars
    BY <1>1, <2>1 DEF vars
  <2>2. CASE \/ \E m \in Messages : Enqueue(m)
             \/ \E m \in RestMessages :
                  RestValidate(m) \/ RestLookup(m) \/ RestPublish(m)
             \/ \E u \in Senders : ChangePermission(u)
             \/ \E e \in pel : Age(e)
    BY <1>1, <2>2 DEF Enqueue, RestValidate, RestLookup, RestPublish,
                      restUnchanged, ChangePermission, Age
  <2>3. CASE \E s \in Savers : Claim(s) \/ Read(s) \/ Transient(s) \/ Crash(s)
                               \/ Restart(s)
    BY <1>1, <2>3 DEF Claim, Read, Transient, Crash, Restart
  <2>4. QED
    BY <1>2, <1>3, <2>1, <2>2, <2>3 DEF Next, SaverStep

-----------------------------------------------------------------------------
(* The order of the rows.                                                  *)

LEMMA WritersAreNumbers ==
  ASSUME rows \in Seq([cid : Messages, by : Nat])
  PROVE  \A i \in DOMAIN rows : rows[i].by \in Nat
<1> DEFINE R == [cid : Messages, by : Nat]
<1>1. rows \in Seq(R) /\ \A r \in R : r.by \in Nat
  OBVIOUS
<1> HIDE DEF R
<1>2. QED
  BY <1>1

LEMMA RowAdded ==
  ASSUME rows \in Seq([cid : Messages, by : Nat]),
         NEW m \in Messages, NEW b \in Nat,
         rows' = Append(rows, [cid |-> m, by |-> b])
  PROVE  /\ Len(rows) \in Nat /\ DOMAIN rows = 1 .. Len(rows)
         /\ DOMAIN rows' = 1 .. (Len(rows) + 1)
         /\ \A i \in DOMAIN rows : rows'[i] = rows[i] /\ rows[i].by \in Nat
         /\ rows'[Len(rows) + 1].by = b
<1> DEFINE row == [cid |-> m, by |-> b]
<1>1. row \in [cid : Messages, by : Nat] /\ row.by = b /\ rows' = Append(rows, row)
  OBVIOUS
<1> HIDE DEF row
<1>2. /\ Len(rows) \in Nat /\ DOMAIN rows = 1 .. Len(rows)
      /\ DOMAIN rows' = 1 .. (Len(rows) + 1)
      /\ \A i \in 1 .. Len(rows) : rows'[i] = rows[i]
      /\ rows'[Len(rows) + 1] = row
  BY <1>1
<1>3. QED
  BY <1>1, <1>2, WritersAreNumbers

LEMMA SpentStays ==
  ASSUME TypeOK, Monotone, NEW e \in 1 .. cursor, Spent(e)
  PROVE  Spent(e)'
<1>1. stream[e] \in Messages /\ stream'[e] = stream[e]
  BY DEF TypeOK, Monotone
<1>2. CASE Stored(stream[e])
  <2>1. \E i \in DOMAIN rows' : rows'[i].cid = stream[e]
    BY <1>1, <1>2 DEF Monotone, Stored
  <2>2. QED
    BY <1>1, <2>1 DEF Spent, Stored
<1>3. CASE Kind[stream[e]] = "poison"
  BY <1>1, <1>3 DEF Spent
<1>4. QED
  BY <1>2, <1>3 DEF Spent

\* Steps that write no row, and after which s holds no entry it did not hold.
LEMMA AloneStays ==
  ASSUME TypeOK, Monotone, NEW s \in Savers, Alone(s),
         rows' = rows, cursor' = cursor,
         \A x \in Savers \ {s} : pc'[x] = pc[x] /\ batch'[x] = batch[x],
         pc'[s] # "down", pc'[s] = "fetch" => batch'[s] = {},
         batch'[s] \subseteq batch[s],
         pel' \subseteq pel,
         \A e \in pel' \cap batch[s] : e \in batch'[s] \/ Spent(e)
  PROVE  Alone(s)'
<1>1. pel \subseteq 1 .. cursor /\ batch[s] \subseteq 1 .. cursor
  BY DEF TypeOK
<1>2. ASSUME NEW e \in pel' \ batch'[s]
      PROVE  Spent(e)'
  <2>1. Spent(e) /\ e \in 1 .. cursor
    BY <1>1 DEF Alone
  <2>2. QED
    BY <2>1, SpentStays
<1>3. ASSUME NEW e \in batch'[s]
      PROVE  Spent(e)' \/ \A i \in DOMAIN rows' : rows'[i].by < e
  <2>1. e \in 1 .. cursor /\ (Spent(e) \/ \A i \in DOMAIN rows : rows[i].by < e)
    BY <1>1 DEF Alone
  <2>2. QED
    BY <2>1, SpentStays
<1>4. RowsInOrder'
  BY DEF Alone, RowsInOrder
<1>5. QED
  BY <1>2, <1>3, <1>4 DEF Alone

LEMMA StepKeepsAlone ==
  ASSUME TypeOK, [Next]_vars, NEW s \in Savers, Undisturbed(s), Alone(s), faults' = 0
  PROVE  Alone(s)'
<1>1. Monotone
  BY StepIsMonotone
<1>2. \A x \in Savers \ {s} : pc[x] = "off" /\ batch[x] = {}
  BY DEF Alone
<1>3. faults = 0 /\ pel \subseteq 1 .. cursor /\ idle \subseteq pel /\ cursor \in Nat
  BY DEF Undisturbed, TypeOK
<1>4. CASE \/ UNCHANGED vars
           \/ \E m \in Messages : Enqueue(m)
           \/ \E m \in RestMessages : RestValidate(m) \/ RestLookup(m) \/ RestPublish(m)
           \/ \E u \in Senders : ChangePermission(u)
           \/ \E e \in pel : Age(e)
  <2>1. rows' = rows /\ cursor' = cursor /\ pc' = pc /\ batch' = batch /\ pel' = pel
    BY <1>4 DEF vars, Enqueue, RestValidate, RestLookup, RestPublish, restUnchanged,
                ChangePermission, Age
  <2>2. QED
    BY <1>1, <2>1, AloneStays DEF Alone
<1>5. ASSUME NEW m \in RestMessages, RestInsert(m)
      PROVE  Alone(s)'
  <2>1. UNCHANGED <<cursor, pc, batch, pel>>
    BY <1>5 DEF RestInsert, restUnchanged
  <2>2. CASE rows' = rows
    BY <1>1, <2>1, <2>2, AloneStays DEF Alone
  <2>3. CASE rows' = Append(rows, [cid |-> m, by |-> 0])
    <3>1. m \in Messages /\ 0 \in Nat /\ rows \in Seq([cid : Messages, by : Nat])
      BY ConstantsAssumption DEF ConstantsAssumption, TypeOK
    <3>2. /\ Len(rows) \in Nat /\ DOMAIN rows = 1 .. Len(rows)
          /\ DOMAIN rows' = 1 .. (Len(rows) + 1)
          /\ \A i \in DOMAIN rows : rows'[i] = rows[i] /\ rows[i].by \in Nat
          /\ rows'[Len(rows) + 1].by = 0
      BY <2>3, <3>1, RowAdded
    <3>3. RowsInOrder'
      <4>1. RowsInOrder
        BY DEF Alone
      <4>2. QED
        BY <1>3, <2>1, <3>2, <4>1 DEF RowsInOrder
    <3>4. \A e \in pel' \ batch'[s] : Spent(e)'
      BY <1>1, <1>3, <2>1, SpentStays DEF Alone
    <3>5. ASSUME NEW e \in batch'[s]
          PROVE  Spent(e)' \/ \A i \in DOMAIN rows' : rows'[i].by < e
      <4>1. e \in 1 .. cursor /\ (Spent(e) \/ \A i \in DOMAIN rows : rows[i].by < e)
        BY <2>1 DEF Alone, TypeOK
      <4>2. CASE Spent(e)
        BY <1>1, <4>1, <4>2, SpentStays
      <4>3. CASE \A i \in DOMAIN rows : rows[i].by < e
        BY <3>2, <4>1, <4>3
      <4>4. QED
        BY <4>1, <4>2, <4>3
    <3>6. QED
      BY <2>1, <3>3, <3>4, <3>5 DEF Alone
  <2>4. QED
    BY <1>5, <2>2, <2>3 DEF RestInsert
\* The others are off.
<1>6. ASSUME NEW x \in Savers, SaverStep(x) \/ Transient(x) \/ Crash(x) \/ Restart(x)
      PROVE  SaverStep(x) /\ x = s
  <2>1. ~Transient(x) /\ ~Crash(x)
    BY <1>3 DEF Transient, Crash
  <2>2. x = s
    <3>1. ASSUME x # s
          PROVE  FALSE
      <4>1. pc[x] = "off" /\ batch[x] = {}
        BY <1>2, <3>1
      <4>2. ~Claim(x) /\ ~Read(x) /\ ~Restart(x)
        BY <4>1 DEF Claim, Read, Restart
      <4>3. QED
        BY <1>6, <2>1, <4>1, <4>2 DEF SaverStep
    <3>2. QED
      BY <3>1
  <2>3. ~Restart(s)
    BY DEF Restart, Alone
  <2>4. QED
    BY <1>6, <2>1, <2>2, <2>3
<1>7. CASE Claim(s)
  <2>1. /\ pc[s] = "fetch" /\ Take(s, Smallest(idle, Count))
        /\ UNCHANGED <<stream, cursor, pel, rows>>
    BY <1>7 DEF Claim
  <2>2. batch[s] = {}
    BY <2>1 DEF Alone
  <2>3. /\ batch' = [batch EXCEPT ![s] = Smallest(idle, Count)]
        /\ pc' = [pc EXCEPT ![s] = IF Smallest(idle, Count) = {} THEN "fetch" ELSE "check"]
    BY <2>1 DEF Take, EndPhase, Goto
  <2>4. batch'[s] \subseteq idle /\ pc'[s] # "down" /\ (pc'[s] = "fetch" => batch'[s] = {})
    <3>1. batch'[s] = Smallest(idle, Count)
          /\ pc'[s] = IF Smallest(idle, Count) = {} THEN "fetch" ELSE "check"
      BY <2>3 DEF TypeOK
    <3>2. QED
      BY <3>1, SmallestIsSubset
  <2>5. \A e \in pel : Spent(e)'
    <3>1. \A e \in pel : Spent(e)
      BY <2>2 DEF Alone
    <3>2. QED
      BY <1>1, <1>3, <3>1, SpentStays
  <2>6. \A x \in Savers \ {s} : pc'[x] = pc[x] /\ batch'[x] = batch[x]
    BY <2>3 DEF TypeOK
  <2>7. RowsInOrder'
    BY <2>1 DEF Alone, RowsInOrder
  <2>8. QED
    BY <1>2, <1>3, <2>1, <2>4, <2>5, <2>6, <2>7 DEF Alone
<1>8. CASE Read(s)
  <2> DEFINE new == (cursor + 1) .. LastDelivered
  <2>1. /\ pc[s] = "fetch" /\ Take(s, new) /\ pel' = pel \cup new
        /\ cursor' = LastDelivered /\ UNCHANGED <<stream, rows>>
    BY <1>8 DEF Read
  <2>2. batch[s] = {}
    BY <2>1 DEF Alone
  <2>3. cursor' \in Nat /\ cursor <= cursor' /\ \A e \in new : e \in Nat /\ cursor < e
    BY <2>1, ConstantsAssumption DEF LastDelivered, TypeOK, ConstantsAssumption
  <2>4. /\ batch'[s] = new /\ pc'[s] # "down"
        /\ pc'[s] = "fetch" => new = {}
        /\ \A x \in Savers \ {s} : pc'[x] = pc[x] /\ batch'[x] = batch[x]
    BY <2>1 DEF Take, EndPhase, Goto, TypeOK
  <2> HIDE DEF new
  <2>5. \A i \in DOMAIN rows : rows[i].by <= cursor /\ rows[i].by \in Nat
    BY WritersAreNumbers DEF Alone, RowsInOrder, TypeOK
  <2>6. RowsInOrder'
    BY <1>3, <2>1, <2>3, <2>5 DEF Alone, RowsInOrder
  <2>7. \A e \in pel' \ batch'[s] : Spent(e)'
    <3>1. \A e \in pel : Spent(e)
      BY <2>2 DEF Alone
    <3>2. QED
      BY <1>1, <1>3, <2>1, <2>4, <3>1, SpentStays
  <2>8. \A e \in batch'[s] : \A i \in DOMAIN rows' : rows'[i].by < e
    BY <1>3, <2>1, <2>3, <2>4, <2>5
  <2>9. QED
    BY <1>2, <2>4, <2>6, <2>7, <2>8 DEF Alone
\* NextEntry, for an entry that is acknowledged or makes no row.
<1>9. ASSUME NEW e \in batch[s], NextEntry(s, e), rows' = rows, cursor' = cursor,
             pel' = pel \ {e} \/ (pel' = pel /\ Spent(e))
      PROVE  Alone(s)'
  <2>1. /\ batch' = [batch EXCEPT ![s] = batch[s] \ {e}]
        /\ pc' = [pc EXCEPT ![s] = IF batch[s] = {e} THEN "fetch" ELSE "check"]
    BY <1>9 DEF NextEntry, EndPhase, Goto
  <2>2. /\ batch'[s] = batch[s] \ {e}
        /\ pc'[s] = IF batch[s] = {e} THEN "fetch" ELSE "check"
        /\ \A x \in Savers \ {s} : pc'[x] = pc[x] /\ batch'[x] = batch[x]
    BY <2>1 DEF TypeOK
  <2>3. pc'[s] # "down" /\ (pc'[s] = "fetch" => batch'[s] = {})
    BY <2>2
  <2>4. \A f \in pel' \cap batch[s] : f \in batch'[s] \/ Spent(f)
    BY <1>9, <2>2
  <2>5. QED
    BY <1>1, <1>9, <2>2, <2>3, <2>4, AloneStays
<1>10. ASSUME NEW e \in batch[s], InHand(s, e), Insert(s, e)
       PROVE  Alone(s)'
  <2>1. e \in 1 .. cursor /\ stream[e] \in Messages /\ cursor \in Nat /\ e \in Nat
        /\ rows \in Seq([cid : Messages, by : Nat])
    BY DEF TypeOK
  <2>2. CASE Stored(stream[e]) \/ Kind[stream[e]] = "poison"
    BY <1>9, <1>10, <2>2 DEF Insert, Spent
  <2>3. CASE ~(Stored(stream[e]) \/ Kind[stream[e]] = "poison")
    <3>1. /\ rows' = Append(rows, [cid |-> stream[e], by |-> e])
          /\ pc' = [pc EXCEPT ![s] = "publish"]
          /\ UNCHANGED <<stream, cursor, pel, batch>>
      BY <1>10, <2>3 DEF Insert, Goto
    <3>2. /\ Len(rows) \in Nat /\ DOMAIN rows = 1 .. Len(rows)
          /\ DOMAIN rows' = 1 .. (Len(rows) + 1)
          /\ \A i \in DOMAIN rows : rows'[i] = rows[i] /\ rows[i].by \in Nat
          /\ rows'[Len(rows) + 1].by = e
      BY <2>1, <3>1, RowAdded
    <3>3. \A i \in DOMAIN rows : rows[i].by < e
      BY <2>3 DEF Alone, Spent
    <3>4. RowsInOrder'
      <4>1. RowsInOrder
        BY DEF Alone
      <4>2. QED
        BY <2>1, <3>1, <3>2, <3>3, <4>1 DEF RowsInOrder
    <3>5. \A f \in pel' \ batch'[s] : Spent(f)'
      BY <1>1, <1>3, <3>1, SpentStays DEF Alone
    <3>6. Stored(stream[e])' /\ stream'[e] = stream[e]
      <4>1. Len(rows) + 1 \in DOMAIN rows' /\ rows'[Len(rows) + 1].cid = stream[e]
        BY <2>1, <3>1, <3>2
      <4>2. QED
        BY <3>1, <4>1 DEF Stored
    <3>7. ASSUME NEW f \in batch'[s]
          PROVE  Spent(f)' \/ \A i \in DOMAIN rows' : rows'[i].by < f
      <4>1. /\ f \in 1 .. cursor /\ f \in batch[s] /\ e <= f
            /\ Spent(f) \/ \A i \in DOMAIN rows : rows[i].by < f
        BY <1>10, <3>1 DEF Alone, TypeOK, InHand
      <4>2. CASE f = e
        BY <3>6, <4>2 DEF Spent
      <4>3. CASE Spent(f)
        BY <1>1, <4>1, <4>3, SpentStays
      <4>4. CASE f # e /\ \A i \in DOMAIN rows : rows[i].by < f
        BY <2>1, <3>2, <4>1, <4>4
      <4>5. QED
        BY <4>1, <4>2, <4>3, <4>4
    <3>8. /\ pc'[s] = "publish"
          /\ \A x \in Savers \ {s} : pc'[x] = pc[x] /\ batch'[x] = batch[x]
      BY <3>1 DEF TypeOK
    <3>9. QED
      BY <1>2, <3>4, <3>5, <3>7, <3>8 DEF Alone
  <2>4. QED
    BY <2>2, <2>3
<1>11. ASSUME NEW e \in batch[s], InHand(s, e),
              Check(s, e) \/ Lookup(s, e) \/ Publish(s, e) \/ MoveToDlq(s, e)
       PROVE  Alone(s)'
  <2>1. /\ rows' = rows /\ cursor' = cursor /\ batch' = batch /\ pel' = pel
        /\ \E step \in Steps : pc' = [pc EXCEPT ![s] = step]
    BY <1>11 DEF Check, Lookup, Publish, MoveToDlq, Goto, Steps
  <2>2. /\ pc'[s] # "fetch" /\ pc'[s] # "down"
        /\ \A x \in Savers \ {s} : pc'[x] = pc[x]
    BY <2>1 DEF TypeOK, Steps
  <2>3. QED
    BY <1>1, <2>1, <2>2, AloneStays
<1>12. ASSUME NEW e \in batch[s], Ack(s, e)
       PROVE  Alone(s)'
  BY <1>9, <1>12 DEF Ack
<1>13. QED
  BY <1>4, <1>5, <1>6, <1>7, <1>8, <1>10, <1>11, <1>12 DEF Next, SaverStep, Handle

LEMMA OrderKept ==
  ASSUME TypeOK, Order, [Next]_vars
  PROVE  Order'
<1> SUFFICES ASSUME NEW s \in Savers, Undisturbed(s)'
             PROVE  Alone(s)'
  BY DEF Order
<1>1. Undisturbed(s)
  <2>1. running' = running
    BY DEF Next, vars, Enqueue, RestValidate, RestLookup, RestInsert, RestPublish,
           restUnchanged, ChangePermission, Age, SaverStep, Claim, Read, Handle, Check, Lookup,
           Insert, Publish, MoveToDlq, Ack, Transient, Crash, Restart
  <2>2. faults \in Nat /\ (faults' = faults \/ faults' = faults + 1)
    <3>1. CASE \E x \in Savers : Transient(x) \/ Crash(x)
      BY <3>1 DEF Transient, Crash, TypeOK
    <3>2. CASE ~\E x \in Savers : Transient(x) \/ Crash(x)
      BY <3>2 DEF Next, vars, Enqueue, RestValidate, RestLookup, RestInsert, RestPublish,
             restUnchanged, ChangePermission, Age, SaverStep, Claim, Read, Handle, Check,
             Lookup, Insert, Publish, MoveToDlq, Ack, Restart, TypeOK
    <3>3. QED
      BY <3>1, <3>2
  <2>3. QED
    BY <2>1, <2>2 DEF Undisturbed
<1>2. QED
  BY <1>1, StepKeepsAlone DEF Order, Undisturbed

-----------------------------------------------------------------------------
\* IInv is inductive.
THEOREM Inductive == Spec => []IInv
<1>1. Init => Progress /\ NoLostEntry /\ StoredOnce /\ SettledAnnounced
  BY DEF Init, Progress, NoLostEntry, StoredOnce, SettledAnnounced, Settled,
         InHand
<1>2. Init => Order
  BY DEF Init, Order, Undisturbed, Alone, RowsInOrder
<1>3. TypeOK' /\ IInv /\ [Next]_vars => IInv'
  BY ProgressKept, RecordKept, UniqueKept, OrderKept DEF IInv
<1>4. QED
  BY <1>1, <1>2, <1>3, TypeCorrect, PTL DEF Spec, IInv

\* No entry is acknowledged before its message is a row or the entry is in the
\* dead-letter stream (_handle_entry acknowledges last).
THEOREM NoEntryIsLost == Spec => []NoLostEntry
<1>1. IInv => NoLostEntry
  BY DEF IInv
<1>2. QED
  BY <1>1, Inductive, PTL

\* However the savers and the REST endpoint race, a client_uuid has one row.
THEOREM RowsAreUnique == Spec => []StoredOnce
<1>1. IInv => StoredOnce
  BY DEF IInv
<1>2. QED
  BY <1>1, Inductive, PTL

\* What is acknowledged and not refused has been announced after its commit.
THEOREM AnnouncedBeforeAck == Spec => []SettledAnnounced
<1>1. IInv => SettledAnnounced
  BY DEF IInv
<1>2. QED
  BY <1>1, Inductive, PTL

\* A single saver that nothing disturbs writes the rows in the order of the
\* stream: the entries it reclaims have a row already, or never get one.
THEOREM SentInOrder == Spec => []InOrder
<1>1. IInv => InOrder
  BY DEF IInv, InOrder, Order, Undisturbed, Alone, RowsInOrder
<1>2. QED
  BY <1>1, Inductive, PTL

-----------------------------------------------------------------------------
\* MessageStream implements DurableDelivery: each step is one of its steps, or
\* none.  The mapping reads the saved messages off the rows of the table.
SavedRows == {rows[i].cid : i \in DOMAIN rows}

LEMMA SavedIsStored == \A m : m \in SavedRows <=> Stored(m)
BY DEF SavedRows, Stored

LEMMA InitImplements == Init => Delivery!Init
BY DEF Init, Delivery!Init, Settled

\* Writing a row is Save.
LEMMA RowStepIsSave ==
  ASSUME rows \in Seq([cid : Messages, by : Nat]),
         NEW m \in Messages, NEW b \in Nat, ~Stored(m),
         rows' = Append(rows, [cid |-> m, by |-> b])
  PROVE  m \notin SavedRows /\ SavedRows' = SavedRows \cup {m}
<1> DEFINE row == [cid |-> m, by |-> b]
<1>1. row \in [cid : Messages, by : Nat] /\ row.cid = m
      /\ rows' = Append(rows, row)
  OBVIOUS
<1> HIDE DEF row
<1>2. /\ Len(rows) \in Nat
      /\ \A i \in 1 .. Len(rows) : rows'[i] = rows[i]
      /\ rows'[Len(rows) + 1] = row
      /\ DOMAIN rows = 1 .. Len(rows)
      /\ DOMAIN rows' = 1 .. (Len(rows) + 1)
  BY <1>1
<1>3. SavedRows' \subseteq SavedRows \cup {m}
  BY <1>1, <1>2 DEF SavedRows
<1>4. SavedRows \subseteq SavedRows'
  BY <1>2 DEF SavedRows
<1>5. m \in SavedRows'
  BY <1>1, <1>2 DEF SavedRows
<1>6. QED
  BY <1>3, <1>4, <1>5, SavedIsStored

\* A step that changes none of the mapped values is a stuttering step.
LEMMA StutterImplements ==
  ASSUME UNCHANGED <<stream, rows, dlq>>, Settled' = Settled
  PROVE  UNCHANGED Delivery!dvars
BY DEF Delivery!dvars

LEMMA ReadForgetsNothing ==
  ASSUME TypeOK, NEW s \in Savers, Read(s)
  PROVE  Settled' = Settled
<1>1. /\ cursor \in Nat /\ LastDelivered \in Nat /\ cursor <= LastDelivered
      /\ pel \subseteq 1 .. cursor
  BY ConstantsAssumption DEF ConstantsAssumption, TypeOK, LastDelivered
<1>2. /\ cursor' = LastDelivered
      /\ pel' = pel \cup ((cursor + 1) .. LastDelivered)
  BY DEF Read
<1>3. QED
  BY <1>1, <1>2 DEF Settled

LEMMA SaveImplements ==
  ASSUME rows \in Seq([cid : Messages, by : Nat]),
         NEW m \in Messages, NEW b \in Nat, ~Stored(m),
         rows' = Append(rows, [cid |-> m, by |-> b]),
         UNCHANGED <<stream, dlq, cursor, pel>>
  PROVE  Delivery!Next
<1>1. m \notin SavedRows /\ SavedRows' = SavedRows \cup {m}
  BY RowStepIsSave
<1>2. UNCHANGED <<stream, dlq, Settled>>
  BY DEF Settled
<1>3. Delivery!Save(m)
  BY <1>1, <1>2 DEF Delivery!Save, SavedRows
<1>4. QED
  BY <1>3 DEF Delivery!Next

LEMMA HandleImplements ==
  ASSUME IInv, NEW s \in Savers, NEW e \in batch[s], InHand(s, e), Handle(s, e)
  PROVE  Delivery!Next \/ UNCHANGED Delivery!dvars
<1>1. /\ e \in 1 .. cursor /\ e \in Nat /\ stream[e] \in Messages
      /\ e \in DOMAIN stream /\ rows \in Seq([cid : Messages, by : Nat])
  BY DEF IInv, TypeOK
<1>2. CASE UNCHANGED <<stream, rows, dlq, cursor, pel>>
  BY <1>2, StutterImplements DEF Settled
<1>3. CASE Check(s, e) \/ Lookup(s, e) \/ Publish(s, e)
  BY <1>2, <1>3 DEF Check, Lookup, Publish
<1>4. CASE Insert(s, e)
  <2>1. \/ UNCHANGED rows
        \/ /\ ~Stored(stream[e])
           /\ rows' = Append(rows, [cid |-> stream[e], by |-> e])
    BY <1>4 DEF Insert
  <2>2. UNCHANGED <<stream, dlq, cursor, pel>>
    BY <1>4 DEF Insert
  <2>3. QED
    BY <1>1, <1>2, <2>1, <2>2, SaveImplements
<1>5. CASE MoveToDlq(s, e)
  <2>1. Delivery!Refuse(e)
    BY <1>5 DEF MoveToDlq, Delivery!Refuse, Settled
  <2>2. QED
    BY <1>1, <2>1 DEF Delivery!Next
<1>6. CASE Ack(s, e)
  <2>1. Stored(stream[e]) \/ e \in dlq
    BY <1>6 DEF IInv, Progress, Ack
  <2>2. Delivery!Outcome(e)
    BY <2>1, SavedIsStored DEF Delivery!Outcome, SavedRows
  <2>3. Settled' = Settled \cup {e}
    BY <1>1, <1>6 DEF Ack, Settled
  <2>4. Delivery!Settle(e)
    BY <1>6, <2>2, <2>3 DEF Ack, Delivery!Settle
  <2>5. QED
    BY <1>1, <2>4 DEF Delivery!Next
<1>7. QED
  BY <1>3, <1>4, <1>5, <1>6 DEF Handle

\* The code path implements the promise: a message the server accepted is
\* forgotten only after it became a row or a dead letter.
THEOREM Implements == Spec => ImplementsDelivery
<1>1. IInv /\ [Next]_vars => [Delivery!Next]_(Delivery!dvars)
  <2> SUFFICES ASSUME IInv, [Next]_vars
               PROVE  Delivery!Next \/ UNCHANGED Delivery!dvars
    OBVIOUS
  <2>1. CASE UNCHANGED <<stream, rows, dlq, cursor, pel>>
    BY <2>1, StutterImplements DEF Settled
  <2>2. ASSUME NEW m \in Messages, Enqueue(m)
        PROVE  Delivery!Next
    <3>1. Delivery!Accept(m)
      BY <2>2 DEF Enqueue, Delivery!Accept, Settled
    <3>2. QED
      BY <3>1 DEF Delivery!Next
  <2>3. ASSUME NEW m \in RestMessages, RestInsert(m)
        PROVE  Delivery!Next \/ UNCHANGED Delivery!dvars
    <3>1. m \in Messages /\ 0 \in Nat /\ rows \in Seq([cid : Messages, by : Nat])
      BY ConstantsAssumption DEF ConstantsAssumption, IInv, TypeOK
    <3>2. \/ UNCHANGED rows
          \/ ~Stored(m) /\ rows' = Append(rows, [cid |-> m, by |-> 0])
      BY <2>3 DEF RestInsert
    <3>3. UNCHANGED <<stream, dlq, cursor, pel>>
      BY <2>3 DEF RestInsert, restUnchanged
    <3>4. QED
      BY <2>1, <3>1, <3>2, <3>3, SaveImplements
  <2>4. ASSUME NEW s \in Savers, Read(s)
        PROVE  UNCHANGED Delivery!dvars
    <3>1. Settled' = Settled
      BY <2>4, ReadForgetsNothing DEF IInv
    <3>2. UNCHANGED <<stream, rows, dlq>>
      BY <2>4 DEF Read
    <3>3. QED
      BY <3>1, <3>2, StutterImplements
  <2>5. ASSUME NEW s \in Savers, NEW e \in batch[s], InHand(s, e), Handle(s, e)
        PROVE  Delivery!Next \/ UNCHANGED Delivery!dvars
    BY <2>5, HandleImplements
  <2>6. QED
    <3>1. CASE UNCHANGED vars
      BY <2>1, <3>1 DEF vars
    <3>2. CASE \/ \E m \in RestMessages :
                    RestValidate(m) \/ RestLookup(m) \/ RestPublish(m)
               \/ \E u \in Senders : ChangePermission(u)
               \/ \E e \in pel : Age(e)
      BY <2>1, <3>2 DEF RestValidate, RestLookup, RestPublish, restUnchanged,
                        ChangePermission, Age
    <3>3. CASE \E s \in Savers : Claim(s) \/ Transient(s) \/ Crash(s)
                                 \/ Restart(s)
      BY <2>1, <3>3 DEF Claim, Transient, Crash, Restart
    <3>4. QED
      BY <2>2, <2>3, <2>4, <2>5, <3>1, <3>2, <3>3 DEF Next, SaverStep
<1>2. QED
  BY <1>1, InitImplements, Inductive, PTL DEF Spec, ImplementsDelivery, Delivery!Spec
=============================================================================
