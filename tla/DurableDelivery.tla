------------------------- MODULE DurableDelivery -------------------------
(***************************************************************************)
(* What the asynchronous send path promises: every message the websocket   *)
(* server answers with "message_accepted" is, before it is forgotten,      *)
(* either a row of the messages table or an entry of the dead-letter       *)
(* stream, and no client message becomes two rows.  MessageStream is the   *)
(* code; it implements this specification.                                 *)
(***************************************************************************)
EXTENDS Naturals, Sequences

CONSTANT Messages    \* client messages, each with its own client_uuid

VARIABLES
  accepted,   \* accepted[i]: the client message of the i-th accepted entry
  saved,      \* client messages that are rows of the database
  refused,    \* accepted entries copied to the dead-letter stream
  settled     \* accepted entries the pipeline has forgotten

dvars == <<accepted, saved, refused, settled>>

Outcome(e) == accepted[e] \in saved \/ e \in refused

Init ==
  /\ accepted = <<>>
  /\ saved = {}
  /\ refused = {}
  /\ settled = {}

\* A message is accepted, possibly again: the client retries with the same id.
Accept(m) ==
  /\ accepted' = Append(accepted, m)
  /\ UNCHANGED <<saved, refused, settled>>

\* A message becomes a row, once.
Save(m) ==
  /\ m \notin saved
  /\ saved' = saved \cup {m}
  /\ UNCHANGED <<accepted, refused, settled>>

Refuse(e) ==
  /\ refused' = refused \cup {e}
  /\ UNCHANGED <<accepted, saved, settled>>

\* An entry may be forgotten only when its outcome is on durable record.
Settle(e) ==
  /\ Outcome(e)
  /\ settled' = settled \cup {e}
  /\ UNCHANGED <<accepted, saved, refused>>

Next ==
  \/ \E m \in Messages : Accept(m) \/ Save(m)
  \/ \E e \in DOMAIN accepted : Refuse(e) \/ Settle(e)

Spec == Init /\ [][Next]_dvars

=============================================================================
