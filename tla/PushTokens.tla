----------------------------- MODULE PushTokens -----------------------------
(***************************************************************************)
(* Push addresses: the tables user_device_push_tokens and                  *)
(* user_browser_push_subscriptions (apps/users/push_serializers.py) and    *)
(* the tasks that send to them (apps/users/push_services.py).              *)
(*                                                                         *)
(* An address is the token of an application or the endpoint of a browser; *)
(* its row is kept for good and belongs to one user at a time.  A          *)
(* registration is a handful of statements without a transaction, a        *)
(* deletion (also the one of a logout) is one.  A task reads the rows it   *)
(* will send to once and deactivates an address the provider refuses.  A   *)
(* thread may die between two statements.                                  *)
(*                                                                         *)
(* Provider, platform and device_id are one value, the device; NoDevice is *)
(* the blank device_id.  Payloads, credentials and counters are left out.  *)
(***************************************************************************)
EXTENDS Naturals

CONSTANTS Users, Addresses, Devices,
          KindOf,       \* of an address: "fcm", "apns" or "browser"
          NoUser, NoDevice,
          Servers,      \* the threads that serve requests and run tasks
          MaxJobs       \* bound: requests and tasks started

Kinds == {"fcm", "apns", "browser"}

ASSUME PushAssumption == /\ KindOf \in [Addresses -> Kinds]
                         /\ NoDevice \notin Devices

VARIABLES push,         \* the row of each address
          task,         \* what each thread is doing
          jobs,         \* how many were started
          cut           \* the user, device and kind of registrations that died

pushVars == <<push, task, jobs, cut>>

NoRow == [user |-> NoUser, device |-> NoDevice, active |-> FALSE]
Rows == [user : Users \cup {NoUser}, device : Devices \cup {NoDevice}, active : BOOLEAN]

Resting == [op |-> "none", user |-> NoUser, device |-> NoDevice, address |-> {},
            met |-> FALSE]
Tasks == [op : {"save", "duplicates", "send"}, user : Users \cup {NoUser},
          device : Devices \cup {NoDevice}, address : SUBSET Addresses, met : BOOLEAN]

PushInit == /\ push = [a \in Addresses |-> NoRow]
            /\ task = [s \in Servers |-> Resting]
            /\ jobs = 0
            /\ cut = {}

PushTypeOK == /\ push \in [Addresses -> Rows]
              /\ task \in [Servers -> Tasks \cup {Resting}]
              /\ jobs \in Nat
              /\ cut \subseteq Users \X Devices \X Kinds

-----------------------------------------------------------------------------

\* The active addresses of one kind that a user has on a device.
OnDevice(u, d, k) == {a \in Addresses : /\ push[a].active /\ push[a].user = u
                                        /\ push[a].device = d /\ KindOf[a] = k}

Deactivate(A) ==
  push' = [a \in Addresses |-> IF a \in A THEN [push[a] EXCEPT !.active = FALSE]
                               ELSE push[a]]

Busy == {s \in Servers : task[s] # Resting}

\* The tasks under way have met one that starts.
Met == [s \in Servers |-> IF s \in Busy THEN [task[s] EXCEPT !.met = TRUE] ELSE Resting]

\* A request of one statement.
Instant == /\ jobs < MaxJobs
           /\ jobs' = jobs + 1
           /\ task' = Met
           /\ UNCHANGED cut

\* The thread s starts a task; met says whether another was under way.
StartTask(s, op, u, d, A) ==
  /\ task[s] = Resting
  /\ jobs < MaxJobs
  /\ jobs' = jobs + 1
  /\ task' = [Met EXCEPT ![s] = [op |-> op, user |-> u, device |-> d, address |-> A,
                                 met |-> Busy # {}]]
  /\ UNCHANGED cut

EndTask(s) == task' = [task EXCEPT ![s] = Resting]

The(A) == CHOOSE a \in A : TRUE
Mine(s) == The(task[s].address)

Activate(a, u, d) ==
  push' = [push EXCEPT ![a] = [user |-> u, device |-> d, active |-> TRUE]]

-----------------------------------------------------------------------------
(* Requests *)

\* PushTokenUpsertSerializer.save: first the other tokens of the device.
RegisterToken(s, u, a, d) ==
  /\ KindOf[a] # "browser"
  /\ StartTask(s, "save", u, d, {a})
  /\ IF d = NoDevice THEN UNCHANGED push
     ELSE Deactivate(OnDevice(u, d, KindOf[a]) \ {a})

\* The row is created or overwritten with every column.  A token that would
\* be the second active one of the device breaks a constraint and the
\* request fails.
SaveToken(s) ==
  LET t == task[s]
  IN  /\ t.op = "save"
      /\ UNCHANGED <<jobs, cut>>
      /\ IF t.device # NoDevice
            /\ OnDevice(t.user, t.device, KindOf[Mine(s)]) \ t.address # {}
         THEN EndTask(s) /\ UNCHANGED push
         ELSE /\ Activate(Mine(s), t.user, t.device)
              /\ IF t.device = NoDevice THEN EndTask(s)
                 ELSE task' = [task EXCEPT ![s].op = "duplicates"]

\* BrowserPushSubscriptionSerializer.save: update_or_create of the row.
RegisterBrowser(s, u, a, d) ==
  /\ KindOf[a] = "browser"
  /\ Activate(a, u, d)
  /\ IF d = NoDevice THEN Instant ELSE StartTask(s, "duplicates", u, d, {a})

Target(s) == <<task[s].user, task[s].device, KindOf[Mine(s)]>>

\* Mutant of Duplicates: the address that was saved is not excluded.
DuplicatesAndMine(s) == OnDevice(task[s].user, task[s].device, KindOf[Mine(s)])

\* The other active addresses that the user has on the device.
Duplicates(s) ==
  OnDevice(task[s].user, task[s].device, KindOf[Mine(s)]) \ task[s].address

\* Mutant of DeactivateDuplicates: tokens only, which a constraint makes unique.
DeactivateDuplicateTokens(s) ==
  /\ task[s].op = "duplicates"
  /\ Deactivate({a \in Duplicates(s) : KindOf[a] # "browser"})
  /\ EndTask(s)
  /\ cut' = cut \ {Target(s)}
  /\ UNCHANGED jobs

DeactivateDuplicates(s) ==
  /\ task[s].op = "duplicates"
  /\ Deactivate(Duplicates(s))
  /\ EndTask(s)
  /\ cut' = cut \ {Target(s)}
  /\ UNCHANGED jobs

\* One update, by address or by device, of rows of the user; a logout that
\* names a token or a device does the same.
Unregister(A) == Instant /\ A # {} /\ Deactivate(A)

DeleteToken(u) ==
  \/ \E a \in Addresses : /\ KindOf[a] # "browser"
                          /\ Unregister({x \in {a} : push[x].active /\ push[x].user = u})
  \/ \E d \in Devices : Unregister(OnDevice(u, d, "fcm")) \/ Unregister(OnDevice(u, d, "apns"))

DeleteBrowser(u) ==
  \/ \E a \in Addresses : /\ KindOf[a] = "browser"
                          /\ Unregister({x \in {a} : push[x].active /\ push[x].user = u})
  \/ \E d \in Devices : Unregister(OnDevice(u, d, "browser"))

-----------------------------------------------------------------------------
(* Tasks *)

\* send_push_to_user_ids: the active rows of the recipients, read once.
Addressed(R) == {a \in Addresses : push[a].active /\ push[a].user \in R}

\* A Celery task, or the thread that has committed, sends to the members of a
\* chat that have not muted it, but the sender: any users.
BeginSend(s, R) ==
  /\ Addressed(R) # {}
  /\ StartTask(s, "send", NoUser, NoDevice, Addressed(R))
  /\ UNCHANGED push

Sent(s, a) == IF task[s].address = {a} THEN EndTask(s)
              ELSE task' = [task EXCEPT ![s].address = @ \ {a}]

\* What a service answers: the address is gone, the request is malformed
\* (an invalid argument need not be the address), or nothing is written.
Answers == {"accepted", "gone", "malformed", "error"}

\* _deactivate_token and the update of a subscription: the row by its id,
\* whoever has it now.
Answered(a, answer, refusals) ==
  IF answer \in refusals THEN Deactivate({a}) ELSE UNCHANGED push

\* FCM and APNs refuse an address with either answer.
SendToken(s, a) ==
  /\ task[s].op = "send" /\ a \in task[s].address
  /\ KindOf[a] # "browser"
  /\ \E answer \in Answers : Answered(a, answer, {"gone", "malformed"})
  /\ Sent(s, a)
  /\ UNCHANGED <<jobs, cut>>

\* Browsers come after the tokens.
SendBrowser(s, a) ==
  /\ task[s].op = "send" /\ a \in task[s].address
  /\ \A b \in task[s].address : KindOf[b] = "browser"
  /\ \E answer \in Answers : Answered(a, answer, {"gone"})
  /\ Sent(s, a)
  /\ UNCHANGED <<jobs, cut>>

\* A thread dies, also between the statements of a registration.
TaskDies(s) ==
  /\ task[s] # Resting
  /\ cut' = IF task[s].op = "duplicates" THEN cut \cup {Target(s)} ELSE cut
  /\ EndTask(s)
  /\ UNCHANGED <<push, jobs>>

PushStep(s) ==
  \/ \E u \in Users, a \in Addresses, d \in Devices \cup {NoDevice} :
        RegisterToken(s, u, a, d) \/ RegisterBrowser(s, u, a, d)
  \/ SaveToken(s)
  \/ DeactivateDuplicates(s)
  \/ \E R \in SUBSET Users : BeginSend(s, R)
  \/ \E a \in Addresses : SendToken(s, a) \/ SendBrowser(s, a)
  \/ TaskDies(s)

PushNext == \/ \E s \in Servers : PushStep(s)
            \/ \E u \in Users : DeleteToken(u) \/ DeleteBrowser(u)

-----------------------------------------------------------------------------
(* Properties *)

Registering(u, d) == \E s \in Servers : /\ task[s].op \in {"save", "duplicates"}
                                        /\ task[s].user = u /\ task[s].device = d

\* Once its registrations are done, a device of a user has one active address
\* of a kind at most: it does not ring twice, however they overlapped.  What
\* a registration that died leaves is put right by the next.
OneAddressPerDevice ==
  \A u \in Users, d \in Devices, k \in Kinds :
    \/ Registering(u, d) \/ <<u, d, k>> \in cut
    \/ \A a, b \in OnDevice(u, d, k) : a = b

\* A registration that ends leaves its address the active one of the device.
\* Only one that met another task may not: two registrations of a device
\* deactivate each other's address, and a refusal of the address that was
\* read before it was registered again deactivates it.
RegistrationHolds ==
  [][\A s \in Servers, u \in Users, d \in Devices, k \in Kinds :
       /\ task[s].op = "duplicates" /\ task'[s] = Resting
       /\ <<u, d, k>> = Target(s) /\ <<u, d, k>> \notin cut'
       /\ ~task[s].met
       => OnDevice(u, d, k)' = task[s].address]_pushVars

PushSpec == PushInit /\ [][PushNext]_pushVars
=============================================================================
