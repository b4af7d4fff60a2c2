------------------------ MODULE MediaAndPush_proofs ------------------------
(***************************************************************************)
(* Proofs about PushTokens for every set of users, addresses, devices and  *)
(* threads, and about Media for every set of media, stories and threads.   *)
(* The two share no row; they stand in one module as their handlers do in  *)
(* the Django application.                                                 *)
(***************************************************************************)
EXTENDS PushTokens, Media, TLAPS

-----------------------------------------------------------------------------
(* PushTokens: registrations and the tasks that send. *)

\* What a registration under way is about.
TaskRight(t) ==
  /\ t.op \in {"save", "duplicates"} => t.user \in Users /\ \E a \in Addresses : t.address = {a}
  /\ t.op = "duplicates" => t.device \in Devices
TasksRight == \A s \in Servers : TaskRight(task[s])

Unique(u, d, k) == \A a, b \in OnDevice(u, d, k) : a = b

\* Duplicates that there are will be deactivated, unless who would do so died.
Guarded(u, d, k) == \/ <<u, d, k>> \in cut
                    \/ \E s \in Servers : /\ task[s].op = "duplicates"
                                          /\ Target(s) = <<u, d, k>>
UniqueOrGuarded == \A u \in Users, d \in Devices, k \in Kinds :
                     Unique(u, d, k) \/ Guarded(u, d, k)

\* A task that met no other is the only one, and has the address it saved.
Alone ==
  \A s \in Servers : task[s] # Resting /\ ~task[s].met =>
    /\ \A r \in Servers : r # s => task[r] = Resting
    /\ task[s].op = "duplicates" =>
         Mine(s) \in OnDevice(task[s].user, task[s].device, KindOf[Mine(s)])

PushInv == PushTypeOK /\ TasksRight /\ UniqueOrGuarded /\ Alone

-----------------------------------------------------------------------------

LEMMA TheOnly == ASSUME NEW a PROVE The({a}) = a
BY DEF The

\* What an update of rows does to the addresses of a device.
LEMMA DeactivateShrinks ==
  ASSUME PushTypeOK, NEW A, Deactivate(A), NEW u \in Users, NEW d \in Devices, NEW k \in Kinds
  PROVE  OnDevice(u, d, k)' = OnDevice(u, d, k) \ A
<1>1. \A a \in Addresses : push[a] \in Rows
  BY DEF PushTypeOK
<1>2. \A a \in Addresses : push'[a] = IF a \in A THEN [push[a] EXCEPT !.active = FALSE]
                                       ELSE push[a]
  BY DEF Deactivate
<1>3. \A a \in Addresses : a \in A => ~push'[a].active
  BY <1>1, <1>2 DEF Rows
<1>4. QED
  BY <1>2, <1>3 DEF OnDevice

LEMMA ActivateAdds ==
  ASSUME PushTypeOK, NEW a \in Addresses, NEW v \in Users, NEW e, Activate(a, v, e),
         NEW u \in Users, NEW d \in Devices, NEW k \in Kinds
  PROVE  OnDevice(u, d, k)' = IF u = v /\ d = e /\ k = KindOf[a]
                              THEN OnDevice(u, d, k) \cup {a} ELSE OnDevice(u, d, k) \ {a}
<1>1. \A b \in Addresses : push'[b] = IF b = a THEN [user |-> v, device |-> e, active |-> TRUE]
                                       ELSE push[b]
  BY DEF Activate, PushTypeOK
<1>2. QED
  BY <1>1 DEF OnDevice

-----------------------------------------------------------------------------
(* Types *)

LEMMA MetTypes ==
  ASSUME PushTypeOK
  PROVE  /\ Met \in [Servers -> Tasks \cup {Resting}]
         /\ \A s \in Servers :
              IF task[s] = Resting THEN Met[s] = Resting
              ELSE /\ task[s] \in Tasks /\ Met[s] \in Tasks /\ Met[s].met
                   /\ Met[s].op = task[s].op /\ Met[s].user = task[s].user
                   /\ Met[s].device = task[s].device /\ Met[s].address = task[s].address
<1>1. ASSUME NEW s \in Servers, task[s] # Resting
      PROVE  /\ task[s] \in Tasks /\ Met[s] \in Tasks /\ Met[s].met
             /\ Met[s].op = task[s].op /\ Met[s].user = task[s].user
             /\ Met[s].device = task[s].device /\ Met[s].address = task[s].address
  <2>1. task[s] \in Tasks
    BY <1>1 DEF PushTypeOK
  <2>2. Met[s] = [task[s] EXCEPT !.met = TRUE]
    BY <1>1 DEF Met, Busy
  <2>3. QED
    BY <2>1, <2>2 DEF Tasks
<1>2. ASSUME NEW s \in Servers, task[s] = Resting
      PROVE  Met[s] = Resting
  BY <1>2 DEF Met, Busy
<1>3. Met \in [Servers -> Tasks \cup {Resting}]
  BY <1>1, <1>2 DEF Met
<1>4. QED
  BY <1>1, <1>2, <1>3

LEMMA PushRowTypes ==
  ASSUME PushTypeOK
  PROVE  /\ \A A : Deactivate(A) => push' \in [Addresses -> Rows]
         /\ \A a, u, d : a \in Addresses /\ u \in Users /\ d \in Devices \cup {NoDevice}
                           /\ Activate(a, u, d) => push' \in [Addresses -> Rows]
<1>1. \A r \in Rows : [r EXCEPT !.active = FALSE] \in Rows
  BY DEF Rows
<1>2. ASSUME NEW A, Deactivate(A)
      PROVE  push' \in [Addresses -> Rows]
  BY <1>1, <1>2 DEF Deactivate, PushTypeOK
<1>3. ASSUME NEW a \in Addresses, NEW u \in Users, NEW d \in Devices \cup {NoDevice},
             Activate(a, u, d)
      PROVE  push' \in [Addresses -> Rows]
  <2>1. [user |-> u, device |-> d, active |-> TRUE] \in Rows
    BY DEF Rows
  <2>2. QED
    BY <1>3, <2>1 DEF Activate, PushTypeOK
<1>4. QED
  BY <1>2, <1>3

\* What a thread is doing is of the right kind, and only a registration that
\* dies leaves a trace.
LEMMA TargetTypes ==
  ASSUME PushTypeOK, TasksRight, NEW s \in Servers, task[s].op = "duplicates"
  PROVE  /\ Target(s) \in Users \X Devices \X Kinds
         /\ Mine(s) \in Addresses /\ task[s].address = {Mine(s)}
<1>1. task[s].user \in Users /\ task[s].device \in Devices
  BY DEF TasksRight, TaskRight
<1>2. PICK a \in Addresses : task[s].address = {a}
  BY DEF TasksRight, TaskRight
<1>3. Mine(s) = a
  BY <1>2, TheOnly DEF Mine
<1>4. KindOf[a] \in Kinds
  BY PushAssumption DEF PushAssumption
<1>5. QED
  BY <1>1, <1>2, <1>3, <1>4 DEF Target

\* How tasks change: one thread begins, goes on or ends, or all meet another.
LEMMA StepTypes ==
  ASSUME PushTypeOK, TasksRight, [PushNext]_pushVars
  PROVE  PushTypeOK' /\ TasksRight'
<1> USE DEF PushTypeOK
<1>0. Resting \in Tasks \cup {Resting} /\ TaskRight(Resting)
  BY DEF Resting, TaskRight
<1>1. ASSUME NEW s \in Servers, NEW t \in Tasks \cup {Resting}, TaskRight(t),
             task' = [task EXCEPT ![s] = t]
      PROVE  task' \in [Servers -> Tasks \cup {Resting}] /\ TasksRight'
  BY <1>1 DEF TasksRight
<1>2. \A s \in Servers : TaskRight(Met[s])
  <2>1. SUFFICES ASSUME NEW s \in Servers, task[s] # Resting
                 PROVE  TaskRight(Met[s])
    BY <1>0, MetTypes
  <2>2. QED
    BY <2>1, MetTypes DEF TasksRight, TaskRight
<1>3. ASSUME NEW s \in Servers, NEW op \in {"save", "duplicates", "send"},
             NEW u \in Users \cup {NoUser}, NEW d \in Devices \cup {NoDevice},
             NEW A \in SUBSET Addresses, StartTask(s, op, u, d, A),
             op \in {"save", "duplicates"} => u \in Users /\ \E a \in Addresses : A = {a},
             op = "duplicates" => d \in Devices
      PROVE  /\ task' \in [Servers -> Tasks \cup {Resting}] /\ TasksRight'
             /\ jobs' \in Nat /\ cut' = cut
  <2> DEFINE t == [op |-> op, user |-> u, device |-> d, address |-> A, met |-> Busy # {}]
  <2>1. t \in Tasks /\ TaskRight(t)
    BY <1>3 DEF Tasks, TaskRight
  <2>2. task' = [Met EXCEPT ![s] = t] /\ jobs' = jobs + 1 /\ cut' = cut
    BY <1>3 DEF StartTask
  <2> HIDE DEF t
  <2>3. QED
    BY <1>2, <2>1, <2>2, MetTypes DEF TasksRight
<1>4. ASSUME Instant
      PROVE  /\ task' \in [Servers -> Tasks \cup {Resting}] /\ TasksRight'
             /\ jobs' \in Nat /\ cut' = cut
  BY <1>2, <1>4, MetTypes DEF Instant, TasksRight
<1>5. ASSUME NEW s \in Servers, EndTask(s)
      PROVE  task' \in [Servers -> Tasks \cup {Resting}] /\ TasksRight'
  BY <1>0, <1>1, <1>5 DEF EndTask
<1>6. ASSUME NEW s \in Servers, NEW u \in Users, NEW a \in Addresses,
             NEW d \in Devices \cup {NoDevice}, RegisterToken(s, u, a, d)
      PROVE  PushTypeOK' /\ TasksRight'
  <2>1. push' \in [Addresses -> Rows]
    BY <1>6, PushRowTypes DEF RegisterToken
  <2>2. QED
    BY <1>3, <1>6, <2>1 DEF RegisterToken
<1>7. ASSUME NEW s \in Servers, NEW u \in Users, NEW a \in Addresses,
             NEW d \in Devices \cup {NoDevice}, RegisterBrowser(s, u, a, d)
      PROVE  PushTypeOK' /\ TasksRight'
  <2>1. push' \in [Addresses -> Rows]
    BY <1>7, PushRowTypes DEF RegisterBrowser
  <2>2. CASE d = NoDevice
    BY <1>4, <1>7, <2>1, <2>2 DEF RegisterBrowser
  <2>3. CASE d # NoDevice
    BY <1>3, <1>7, <2>1, <2>3 DEF RegisterBrowser
  <2>4. QED
    BY <2>2, <2>3
<1>8. ASSUME NEW s \in Servers, SaveToken(s)
      PROVE  PushTypeOK' /\ TasksRight'
  <2>1. task[s] \in Tasks /\ task[s].op = "save"
    BY <1>8 DEF SaveToken, Resting
  <2>2. task[s].user \in Users /\ task[s].device \in Devices \cup {NoDevice}
    BY <2>1 DEF TasksRight, TaskRight, Tasks
  <2>3. PICK a \in Addresses : task[s].address = {a}
    BY <2>1 DEF TasksRight, TaskRight
  <2>4. Mine(s) = a
    BY <2>3, TheOnly DEF Mine
  <2>5. push' \in [Addresses -> Rows]
    BY <1>8, <2>2, <2>4, PushRowTypes DEF SaveToken
  <2>6. CASE EndTask(s)
    BY <1>5, <1>8, <2>5, <2>6 DEF SaveToken
  <2>7. CASE ~EndTask(s)
    <3> DEFINE t == [task[s] EXCEPT !.op = "duplicates"]
    <3>1. /\ t \in Tasks /\ t.op = "duplicates" /\ t.user = task[s].user
          /\ t.device = task[s].device /\ t.address = task[s].address
      BY <2>1 DEF Tasks
    <3>2. task' = [task EXCEPT ![s] = t] /\ task[s].device # NoDevice
      BY <1>8, <2>7 DEF SaveToken
    <3> HIDE DEF t
    <3>3. TaskRight(t)
      BY <2>2, <2>3, <3>1, <3>2 DEF TaskRight
    <3>4. QED
      BY <1>1, <1>8, <2>5, <3>1, <3>2, <3>3 DEF SaveToken
  <2>8. QED
    BY <2>6, <2>7
<1>9. ASSUME NEW s \in Servers, DeactivateDuplicates(s)
      PROVE  PushTypeOK' /\ TasksRight'
  BY <1>5, <1>9, PushRowTypes DEF DeactivateDuplicates
<1>10. ASSUME NEW s \in Servers, NEW R \in SUBSET Users, BeginSend(s, R)
       PROVE  PushTypeOK' /\ TasksRight'
  <2> DEFINE A == {a \in Addresses : push[a].active /\ push[a].user \in R}
  <2>1. A \in SUBSET Addresses /\ StartTask(s, "send", NoUser, NoDevice, A) /\ push' = push
    BY <1>10 DEF BeginSend, Addressed
  <2> HIDE DEF A
  <2>2. QED
    BY <1>3, <2>1
<1>11. ASSUME NEW s \in Servers, NEW a \in Addresses, SendToken(s, a) \/ SendBrowser(s, a)
       PROVE  PushTypeOK' /\ TasksRight'
  <2>1. task[s] \in Tasks /\ task[s].op = "send"
    BY <1>11 DEF SendToken, SendBrowser, Resting
  <2>2. push' \in [Addresses -> Rows] /\ UNCHANGED <<jobs, cut>>
    BY <1>11, PushRowTypes DEF SendToken, SendBrowser, Answered
  <2> DEFINE t == [task[s] EXCEPT !.address = task[s].address \ {a}]
  <2>3. t \in Tasks /\ t.op = "send"
    BY <2>1 DEF Tasks
  <2>4. EndTask(s) \/ task' = [task EXCEPT ![s] = t]
    BY <1>11 DEF SendToken, SendBrowser, Sent
  <2> HIDE DEF t
  <2>5. TaskRight(t)
    BY <2>3 DEF TaskRight
  <2>6. QED
    BY <1>1, <1>5, <2>2, <2>3, <2>4, <2>5
<1>12. ASSUME NEW s \in Servers, TaskDies(s)
       PROVE  PushTypeOK' /\ TasksRight'
  <2>1. cut' \subseteq Users \X Devices \X Kinds
    BY <1>12, TargetTypes DEF TaskDies
  <2>2. QED
    BY <1>5, <1>12, <2>1 DEF TaskDies
<1>13. ASSUME NEW A, Unregister(A)
       PROVE  PushTypeOK' /\ TasksRight'
  BY <1>4, <1>13, PushRowTypes DEF Unregister
<1>14. CASE UNCHANGED pushVars
  BY <1>14 DEF pushVars, TasksRight
<1>15. QED
  BY <1>6, <1>7, <1>8, <1>9, <1>10, <1>11, <1>12, <1>13, <1>14
     DEF PushNext, PushStep, DeleteToken, DeleteBrowser

-----------------------------------------------------------------------------
(* One address per device *)

\* A registration under way stays so, or its death is on record.
LEMMA GuardsStay ==
  ASSUME NEW u, NEW d, NEW k, Guarded(u, d, k),
         <<u, d, k>> \in cut => <<u, d, k>> \in cut',
         \A s \in Servers : task[s].op = "duplicates" /\ Target(s) = <<u, d, k>> =>
            \/ task'[s].op = "duplicates" /\ Target(s)' = Target(s)
            \/ <<u, d, k>> \in cut'
  PROVE  Guarded(u, d, k)'
BY DEF Guarded

LEMMA MetTargets ==
  ASSUME PushTypeOK, NEW s \in Servers, task[s].op = "duplicates", task'[s] = Met[s]
  PROVE  task'[s].op = "duplicates" /\ Target(s)' = Target(s)
<1>1. task[s] # Resting
  BY DEF Resting
<1>2. QED
  BY <1>1, MetTypes DEF Target, Mine

LEMMA StepKeepsUnique ==
  ASSUME PushTypeOK, TasksRight, UniqueOrGuarded, [PushNext]_pushVars
  PROVE  UniqueOrGuarded'
<1> SUFFICES ASSUME NEW u \in Users, NEW d \in Devices, NEW k \in Kinds
             PROVE  Unique(u, d, k)' \/ Guarded(u, d, k)'
  BY DEF UniqueOrGuarded
<1> DEFINE Goal == Unique(u, d, k)' \/ Guarded(u, d, k)'
<1> USE DEF PushTypeOK
<1>0. Unique(u, d, k) \/ Guarded(u, d, k)
  BY DEF UniqueOrGuarded
<1>1. ASSUME OnDevice(u, d, k)' \subseteq OnDevice(u, d, k), Guarded(u, d, k) => Guarded(u, d, k)'
      PROVE  Goal
  BY <1>0, <1>1 DEF Unique
<1>2. ASSUME cut' = cut, NEW s \in Servers, task[s] = Resting,
             \A r \in Servers : r # s => task'[r] = Met[r], Guarded(u, d, k)
      PROVE  Guarded(u, d, k)'
  <2>1. task[s].op # "duplicates"
    BY <1>2 DEF Resting
  <2>2. QED
    BY <1>2, <2>1, GuardsStay, MetTargets
<1>3. ASSUME Instant, Guarded(u, d, k)
      PROVE  Guarded(u, d, k)'
  BY <1>3, GuardsStay, MetTargets DEF Instant
<1>4. ASSUME NEW s \in Servers, \A r \in Servers : r # s => task'[r] = task[r],
             task[s].op = "duplicates" /\ Target(s) = <<u, d, k>> => <<u, d, k>> \in cut',
             <<u, d, k>> \in cut => <<u, d, k>> \in cut', Guarded(u, d, k)
      PROVE  Guarded(u, d, k)'
  <2>1. \A r \in Servers : r # s => Target(r)' = Target(r)
    BY <1>4 DEF Target, Mine
  <2>2. QED
    BY <1>4, <2>1, GuardsStay
<1>5. ASSUME NEW s \in Servers, NEW op, NEW v, NEW e, NEW A, StartTask(s, op, v, e, A)
      PROVE  Guarded(u, d, k) => Guarded(u, d, k)'
  <2>1. \A r \in Servers : r # s => task'[r] = Met[r]
    BY <1>5, MetTypes DEF StartTask
  <2>2. QED
    BY <1>2, <1>5, <2>1 DEF StartTask
<1>6. ASSUME NEW s \in Servers, NEW v \in Users, NEW a \in Addresses,
             NEW e \in Devices \cup {NoDevice}, RegisterToken(s, v, a, e)
      PROVE  Goal
  <2>1. OnDevice(u, d, k)' \subseteq OnDevice(u, d, k)
    BY <1>6, DeactivateShrinks DEF RegisterToken, OnDevice
  <2>2. QED
    BY <1>1, <1>5, <1>6, <2>1 DEF RegisterToken
<1>7. ASSUME NEW s \in Servers, NEW v \in Users, NEW a \in Addresses,
             NEW e \in Devices \cup {NoDevice}, RegisterBrowser(s, v, a, e)
      PROVE  Goal
  <2>1. OnDevice(u, d, k)' = IF u = v /\ d = e /\ k = KindOf[a]
                             THEN OnDevice(u, d, k) \cup {a} ELSE OnDevice(u, d, k) \ {a}
    BY <1>7, ActivateAdds DEF RegisterBrowser
  <2>2. CASE e = NoDevice
    <3>1. OnDevice(u, d, k)' \subseteq OnDevice(u, d, k)
      BY <2>1, <2>2, PushAssumption DEF PushAssumption
    <3>2. Guarded(u, d, k) => Guarded(u, d, k)'
      BY <1>3, <1>7, <2>2 DEF RegisterBrowser
    <3>3. QED
      BY <1>1, <3>1, <3>2
  <2>3. CASE e # NoDevice
    <3>1. StartTask(s, "duplicates", v, e, {a})
      BY <1>7, <2>3 DEF RegisterBrowser
    <3>2. CASE u = v /\ d = e /\ k = KindOf[a]
      <4>1. task'[s].op = "duplicates" /\ task'[s].user = v /\ task'[s].device = e
             /\ task'[s].address = {a}
        BY <3>1, MetTypes DEF StartTask
      <4>2. Target(s)' = <<u, d, k>>
        BY <3>2, <4>1, TheOnly DEF Target, Mine
      <4>3. QED
        BY <4>1, <4>2 DEF Guarded
    <3>3. CASE ~(u = v /\ d = e /\ k = KindOf[a])
      BY <1>1, <1>5, <2>1, <3>1, <3>3
    <3>4. QED
      BY <3>2, <3>3
  <2>4. QED
    BY <2>2, <2>3
<1>8. ASSUME NEW s \in Servers, SaveToken(s)
      PROVE  Goal
  <2>1. task[s].op = "save" /\ task[s].user \in Users
    BY <1>8 DEF SaveToken, TasksRight, TaskRight
  <2>2. PICK a \in Addresses : task[s].address = {a}
    BY <2>1 DEF TasksRight, TaskRight
  <2>3. Mine(s) = a
    BY <2>2, TheOnly DEF Mine
  <2>4. Guarded(u, d, k) => Guarded(u, d, k)'
    BY <1>4, <1>8, <2>1 DEF SaveToken, EndTask
  <2>5. CASE UNCHANGED push
    BY <1>1, <2>4, <2>5 DEF OnDevice
  <2>6. CASE Activate(a, task[s].user, task[s].device)
    <3>1. OnDevice(u, d, k)' = IF u = task[s].user /\ d = task[s].device /\ k = KindOf[a]
                               THEN OnDevice(u, d, k) \cup {a} ELSE OnDevice(u, d, k) \ {a}
      BY <2>1, <2>6, ActivateAdds
    <3>2. CASE u = task[s].user /\ d = task[s].device /\ k = KindOf[a]
      <4>1. CASE OnDevice(u, d, k) \ {a} = {}
        BY <3>1, <3>2, <4>1 DEF Unique
      <4>2. CASE OnDevice(u, d, k) \ {a} # {}
        <5>1. d # NoDevice
          BY PushAssumption DEF PushAssumption
        <5>2. UNCHANGED push
          BY <1>8, <2>2, <2>3, <3>2, <4>2, <5>1 DEF SaveToken
        <5>3. QED
          BY <1>1, <2>4, <5>2 DEF OnDevice
      <4>3. QED
        BY <4>1, <4>2
    <3>3. CASE ~(u = task[s].user /\ d = task[s].device /\ k = KindOf[a])
      BY <1>1, <2>4, <3>1, <3>3
    <3>4. QED
      BY <3>2, <3>3
  <2>7. QED
    BY <1>8, <2>3, <2>5, <2>6 DEF SaveToken
<1>9. ASSUME NEW s \in Servers, DeactivateDuplicates(s)
      PROVE  Goal
  <2>1. /\ task[s].op = "duplicates" /\ Deactivate(Duplicates(s))
        /\ cut' = cut \ {Target(s)} /\ EndTask(s)
    BY <1>9 DEF DeactivateDuplicates
  <2>2. OnDevice(u, d, k)' = OnDevice(u, d, k) \ Duplicates(s)
    BY <2>1, DeactivateShrinks
  <2>3. CASE Target(s) = <<u, d, k>>
    <3>1. Duplicates(s) = OnDevice(u, d, k) \ task[s].address
      BY <2>3 DEF Duplicates, Target
    <3>2. task[s].address = {Mine(s)}
      BY <2>1, TargetTypes
    <3>3. QED
      BY <2>2, <3>1, <3>2 DEF Unique
  <2>4. CASE Target(s) # <<u, d, k>>
    <3>1. Guarded(u, d, k) => Guarded(u, d, k)'
      BY <1>4, <2>1, <2>4 DEF EndTask
    <3>2. QED
      BY <1>1, <2>2, <3>1
  <2>5. QED
    BY <2>3, <2>4
<1>10. ASSUME NEW s \in Servers, NEW R \in SUBSET Users, BeginSend(s, R)
       PROVE  Goal
  BY <1>1, <1>5, <1>10 DEF BeginSend, OnDevice
<1>11. ASSUME NEW s \in Servers, NEW a \in Addresses, SendToken(s, a) \/ SendBrowser(s, a)
       PROVE  Goal
  <2>1. task[s].op = "send" /\ cut' = cut
    BY <1>11 DEF SendToken, SendBrowser
  <2>2. \A r \in Servers : r # s => task'[r] = task[r]
    BY <1>11 DEF SendToken, SendBrowser, Sent, EndTask
  <2>3. OnDevice(u, d, k)' \subseteq OnDevice(u, d, k)
    <3>1. CASE UNCHANGED push
      BY <3>1 DEF OnDevice
    <3>2. CASE Deactivate({a})
      BY <3>2, DeactivateShrinks
    <3>3. QED
      BY <1>11, <3>1, <3>2 DEF SendToken, SendBrowser, Answered
  <2>4. Guarded(u, d, k) => Guarded(u, d, k)'
    BY <1>4, <2>1, <2>2
  <2>5. QED
    BY <1>1, <2>3, <2>4
<1>12. ASSUME NEW s \in Servers, TaskDies(s)
       PROVE  Goal
  <2>1. Guarded(u, d, k) => Guarded(u, d, k)'
    BY <1>4, <1>12 DEF TaskDies, EndTask
  <2>2. QED
    BY <1>1, <1>12, <2>1 DEF TaskDies, OnDevice
<1>13. ASSUME NEW A, Unregister(A)
       PROVE  Goal
  BY <1>1, <1>3, <1>13, DeactivateShrinks DEF Unregister
<1>14. CASE UNCHANGED pushVars
  BY <1>0, <1>14 DEF pushVars, Unique, OnDevice, Guarded, Target, Mine
<1>15. QED
  BY <1>6, <1>7, <1>8, <1>9, <1>10, <1>11, <1>12, <1>13, <1>14
     DEF PushNext, PushStep, DeleteToken, DeleteBrowser

-----------------------------------------------------------------------------
(* A registration that met no other task *)

Holds(s) == task[s].op = "duplicates" =>
              Mine(s) \in OnDevice(task[s].user, task[s].device, KindOf[Mine(s)])

LEMMA StepKeepsAlone ==
  ASSUME PushTypeOK, TasksRight, Alone, [PushNext]_pushVars
  PROVE  Alone'
<1> USE DEF PushTypeOK
\* A task that starts meets all others, and they meet it.
<1>1. ASSUME NEW s \in Servers, NEW op, NEW v, NEW e, NEW A, StartTask(s, op, v, e, A),
             op = "duplicates" => Holds(s)'
      PROVE  Alone'
  <2>1. \A r \in Servers : r # s => task'[r] = Met[r]
    BY <1>1, MetTypes DEF StartTask
  <2>2. \A r \in Servers : r # s /\ task'[r] # Resting => task'[r].met
    BY <2>1, MetTypes
  <2>3. task'[s].op = op /\ task'[s].met = (Busy # {})
    BY <1>1, MetTypes DEF StartTask
  <2>4. ~task'[s].met => \A r \in Servers : r # s => task'[r] = Resting
    BY <2>1, <2>3, MetTypes DEF Busy
  <2>5. QED
    BY <1>1, <2>2, <2>3, <2>4 DEF Alone, Holds
<1>2. ASSUME Instant
      PROVE  Alone'
  <2>1. \A r \in Servers : task'[r] = Resting \/ task'[r].met
    BY <1>2, MetTypes DEF Instant
  <2>2. QED
    BY <2>1 DEF Alone
\* A task that goes on is still alone if it was.
<1>3. ASSUME NEW s \in Servers, task[s] # Resting,
             \A r \in Servers : r # s => task'[r] = task[r],
             task'[s] # Resting => task'[s].met = task[s].met,
             task'[s] # Resting /\ ~task'[s].met => Holds(s)'
      PROVE  Alone'
  <2>1. ASSUME NEW r \in Servers, task'[r] # Resting, ~task'[r].met
        PROVE  r = s
    BY <1>3, <2>1 DEF Alone
  <2>2. ASSUME task'[s] # Resting, ~task'[s].met
        PROVE  \A r \in Servers : r # s => task'[r] = Resting
    BY <1>3, <2>2 DEF Alone
  <2>3. QED
    BY <1>3, <2>1, <2>2 DEF Alone, Holds
<1>4. ASSUME NEW s \in Servers, task[s] # Resting, EndTask(s)
      PROVE  Alone'
  BY <1>3, <1>4 DEF EndTask
<1>5. ASSUME NEW s \in Servers, NEW u \in Users, NEW a \in Addresses,
             NEW d \in Devices \cup {NoDevice}, RegisterBrowser(s, u, a, d)
      PROVE  Alone'
  <2>1. CASE d = NoDevice
    BY <1>2, <1>5, <2>1 DEF RegisterBrowser
  <2>2. CASE d # NoDevice
    <3>1. StartTask(s, "duplicates", u, d, {a}) /\ Activate(a, u, d)
      BY <1>5, <2>2 DEF RegisterBrowser
    <3>2. task'[s].user = u /\ task'[s].device = d /\ task'[s].address = {a}
      BY <3>1, MetTypes DEF StartTask
    <3>3. Mine(s)' = a
      BY <3>2, TheOnly DEF Mine
    <3>4. a \in OnDevice(u, d, KindOf[a])'
      BY <3>1 DEF Activate, OnDevice
    <3>5. Holds(s)'
      BY <3>2, <3>3, <3>4 DEF Holds, OnDevice
    <3>6. QED
      BY <1>1, <3>1, <3>5
  <2>3. QED
    BY <2>1, <2>2
<1>6. ASSUME NEW s \in Servers, SaveToken(s)
      PROVE  Alone'
  <2>1. task[s] \in Tasks /\ task[s] # Resting /\ task[s].op = "save"
    BY <1>6 DEF SaveToken, Resting
  <2>2. PICK a \in Addresses : task[s].address = {a}
    BY <2>1 DEF TasksRight, TaskRight
  <2>3. Mine(s) = a
    BY <2>2, TheOnly DEF Mine
  <2>4. CASE EndTask(s)
    BY <1>4, <2>1, <2>4
  <2>5. CASE ~EndTask(s)
    <3> DEFINE t == [task[s] EXCEPT !.op = "duplicates"]
    <3>1. /\ t.met = task[s].met /\ t.user = task[s].user
          /\ t.device = task[s].device /\ t.address = {a}
      BY <2>1, <2>2 DEF Tasks
    <3>2. task' = [task EXCEPT ![s] = t] /\ Activate(a, task[s].user, task[s].device)
      BY <1>6, <2>3, <2>5 DEF SaveToken
    <3> HIDE DEF t
    <3>3. task'[s] = t /\ Mine(s)' = a
      BY <3>1, <3>2, TheOnly DEF Mine
    <3>4. a \in OnDevice(task[s].user, task[s].device, KindOf[a])'
      <4>1. push'[a] = [user |-> task[s].user, device |-> task[s].device, active |-> TRUE]
        BY <3>2 DEF Activate
      <4>2. QED
        BY <3>1, <3>3, <4>1 DEF OnDevice
    <3>5. Holds(s)'
      BY <3>1, <3>3, <3>4 DEF Holds, OnDevice
    <3>6. QED
      BY <1>3, <2>1, <3>1, <3>2, <3>3, <3>5
  <2>6. QED
    BY <2>4, <2>5
<1>7. ASSUME NEW s \in Servers, NEW a \in Addresses, SendToken(s, a) \/ SendBrowser(s, a)
      PROVE  Alone'
  <2>1. task[s] \in Tasks /\ task[s] # Resting /\ task[s].op = "send"
    BY <1>7 DEF SendToken, SendBrowser, Resting
  <2>2. CASE EndTask(s)
    BY <1>4, <2>1, <2>2
  <2>3. CASE ~EndTask(s)
    <3> DEFINE t == [task[s] EXCEPT !.address = task[s].address \ {a}]
    <3>1. t.op = "send" /\ t.met = task[s].met
      BY <2>1 DEF Tasks
    <3>2. task' = [task EXCEPT ![s] = t]
      BY <1>7, <2>3 DEF SendToken, SendBrowser, Sent
    <3> HIDE DEF t
    <3>3. Holds(s)'
      BY <3>1, <3>2 DEF Holds
    <3>4. QED
      BY <1>3, <2>1, <3>1, <3>2, <3>3
  <2>4. QED
    BY <2>2, <2>3
<1>8. ASSUME NEW s \in Servers, DeactivateDuplicates(s) \/ TaskDies(s)
      PROVE  Alone'
  <2>1. task[s] # Resting /\ EndTask(s)
    BY <1>8 DEF DeactivateDuplicates, TaskDies, Resting
  <2>2. QED
    BY <1>4, <2>1
<1>9. ASSUME NEW s \in Servers, NEW u, NEW a, NEW d, RegisterToken(s, u, a, d)
      PROVE  Alone'
  BY <1>1, <1>9 DEF RegisterToken
<1>10. ASSUME NEW s \in Servers, NEW R, BeginSend(s, R)
       PROVE  Alone'
  BY <1>1, <1>10 DEF BeginSend
<1>11. ASSUME NEW A, Unregister(A)
       PROVE  Alone'
  BY <1>2, <1>11 DEF Unregister
<1>12. CASE UNCHANGED pushVars
  BY <1>12 DEF pushVars, Alone, Mine, OnDevice
<1>13. QED
  BY <1>5, <1>6, <1>7, <1>8, <1>9, <1>10, <1>11, <1>12
     DEF PushNext, PushStep, DeleteToken, DeleteBrowser

-----------------------------------------------------------------------------
(* The properties *)

LEMMA PushInitHolds == PushInit => PushInv
<1> SUFFICES ASSUME PushInit PROVE PushInv
  OBVIOUS
<1>1. PushTypeOK
  BY DEF PushInit, PushTypeOK, NoRow, Rows
<1>2. TasksRight
  BY DEF PushInit, TasksRight, TaskRight, Resting
<1>3. UniqueOrGuarded
  BY DEF PushInit, UniqueOrGuarded, Unique, OnDevice, NoRow
<1>4. Alone
  BY DEF PushInit, Alone
<1>5. QED
  BY <1>1, <1>2, <1>3, <1>4 DEF PushInv

\* The invariant is inductive: requests, tasks, answers of the services and
\* deaths of threads keep it.
THEOREM PushInductive == PushSpec => []PushInv
<1>1. PushInv /\ [PushNext]_pushVars => PushInv'
  BY StepTypes, StepKeepsUnique, StepKeepsAlone DEF PushInv
<1>2. QED
  BY <1>1, PushInitHolds, PTL DEF PushSpec

\* Once its registrations are done, a device of a user has one active address
\* of a kind, unless one died that no later one has put right.
THEOREM DevicesAreUnique == PushSpec => []OneAddressPerDevice
<1>1. PushInv => OneAddressPerDevice
  <2> SUFFICES ASSUME PushInv, NEW u \in Users, NEW d \in Devices, NEW k \in Kinds,
                      ~Registering(u, d), <<u, d, k>> \notin cut
               PROVE  Unique(u, d, k)
    BY DEF OneAddressPerDevice, Unique
  <2>1. ASSUME NEW s \in Servers, task[s].op = "duplicates", Target(s) = <<u, d, k>>
        PROVE  FALSE
    BY <2>1 DEF Registering, Target
  <2>2. QED
    BY <2>1 DEF PushInv, UniqueOrGuarded, Guarded
<1>2. QED
  BY <1>1, PushInductive, PTL

\* A registration that met no other task leaves its address the only active
\* one of the device.
THEOREM RegistrationsHold == PushSpec => RegistrationHolds
<1>1. ASSUME PushInv, [PushNext]_pushVars, NEW s \in Servers, NEW u \in Users, NEW d \in Devices,
             NEW k \in Kinds, task[s].op = "duplicates", task'[s] = Resting,
             <<u, d, k>> = Target(s), <<u, d, k>> \notin cut', ~task[s].met
      PROVE  OnDevice(u, d, k)' = task[s].address
  <2> USE <1>1 DEF PushInv, PushTypeOK
  <2>1. task[s] # Resting
    BY DEF Resting
  <2>2. \A r \in Servers : r # s => task[r] = Resting
    BY <2>1 DEF Alone
  <2>3. Met[s] # Resting
    BY <2>1, MetTypes DEF Resting
  <2>4. DeactivateDuplicates(s)
    <3>1. ~Instant
      BY <2>3 DEF Instant
    <3>2. \A r, op, v, e, A : ~(r \in Servers /\ StartTask(r, op, v, e, A))
      <4>1. ASSUME NEW r \in Servers, NEW op, NEW v, NEW e, NEW A, StartTask(r, op, v, e, A)
            PROVE  FALSE
        <5>1. r # s
          BY <2>1, <4>1 DEF StartTask
        <5>2. task'[s] = Met[s]
          BY <4>1, <5>1, MetTypes DEF StartTask
        <5>3. QED
          BY <2>3, <5>2
      <4>2. QED
        BY <4>1
    <3>3. ASSUME NEW r \in Servers, NEW a \in Addresses,
                 SaveToken(r) \/ SendToken(r, a) \/ SendBrowser(r, a)
          PROVE  FALSE
      <4>1. r # s /\ task[r] # Resting
        BY <3>3 DEF SaveToken, SendToken, SendBrowser, Resting
      <4>2. QED
        BY <2>2, <4>1
    <3>4. ASSUME NEW r \in Servers, TaskDies(r)
          PROVE  FALSE
      <4>1. r = s
        BY <2>2, <3>4 DEF TaskDies
      <4>2. QED
        BY <3>4, <4>1 DEF TaskDies
    <3>5. ASSUME NEW r \in Servers, DeactivateDuplicates(r)
          PROVE  r = s
      BY <2>2, <3>5 DEF DeactivateDuplicates, Resting
    <3>6. ASSUME NEW r \in Servers, NEW v, NEW a, NEW e, RegisterToken(r, v, a, e)
          PROVE  FALSE
      BY <3>2, <3>6 DEF RegisterToken
    <3>7. ASSUME NEW r \in Servers, NEW v, NEW a, NEW e, RegisterBrowser(r, v, a, e)
          PROVE  FALSE
      BY <3>1, <3>2, <3>7 DEF RegisterBrowser
    <3>8. ASSUME NEW r \in Servers, NEW R, BeginSend(r, R)
          PROVE  FALSE
      BY <3>2, <3>8 DEF BeginSend
    <3>9. ~UNCHANGED pushVars
      BY <2>1 DEF pushVars
    <3>10. Addresses # {}
      BY TargetTypes
    <3>11. ASSUME NEW r \in Servers, SaveToken(r)
           PROVE  FALSE
      BY <3>3, <3>10, <3>11
    <3>12. QED
      BY <3>1, <3>3, <3>4, <3>5, <3>6, <3>7, <3>8, <3>9, <3>11
         DEF PushNext, PushStep, DeleteToken, DeleteBrowser, Unregister
  <2>5. OnDevice(u, d, k)' = OnDevice(u, d, k) \ Duplicates(s)
    BY <2>4, DeactivateShrinks DEF DeactivateDuplicates
  <2>6. u = task[s].user /\ d = task[s].device /\ k = KindOf[Mine(s)]
    BY DEF Target
  <2>7. Duplicates(s) = OnDevice(u, d, k) \ task[s].address
    BY <2>6 DEF Duplicates
  <2>8. task[s].address = {Mine(s)} /\ Mine(s) \in OnDevice(u, d, k)
    BY <2>1, <2>6, TargetTypes DEF Alone
  <2>9. QED
    BY <2>5, <2>7, <2>8
<1>2. PushInv /\ [PushNext]_pushVars =>
        [\A s \in Servers, u \in Users, d \in Devices, k \in Kinds :
           /\ task[s].op = "duplicates" /\ task'[s] = Resting
           /\ <<u, d, k>> = Target(s) /\ <<u, d, k>> \notin cut'
           /\ ~task[s].met
           => OnDevice(u, d, k)' = task[s].address]_pushVars
  BY <1>1
<1>3. QED
  BY <1>2, PushInductive, PTL DEF PushSpec, RegistrationHolds

-----------------------------------------------------------------------------
(* Media, and the stories that hold it. *)

\* Which requests reach which step, and where the files are kept.
Flow(j) ==
  /\ j.op \in MediaKinds => j.pc \in {"picture", "row", "thumbnail", "store", "save"}
  /\ j.op \in MediaKinds /\ j.pc = "picture" => j.op = "image"
  /\ j.op \in MediaKinds /\ j.pc \in {"thumbnail", "store", "save"} => j.op = "video"
  /\ j.op = "complete" => j.pc \in {"head", "uploaded", "failed"}
  /\ j.op = "delete" => j.pc \in {"files", "thumbs", "row"}
  /\ j.op \in Uses => j.pc = "save"
  /\ j.op \in MediaKinds => ~useS3
  /\ j.op = "complete" => useS3
FlowRight == /\ \A u \in Uploaders : Flow(call[u])
             /\ urls # {} => useS3

Upload(u) == call[u].op \in MediaKinds /\ call[u].pc \in {"picture", "row"}

\* A deletion that has deleted the file.
Erasing(u) == call[u].op = "delete" /\ call[u].pc # "files"

Using(u) == call[u].op \in Uses

\* Media that is being uploaded has no row yet, and the upload is its only
\* request.
NewIsAlone(m) ==
  /\ media[m].status = "none" =>
       /\ ~media[m].key /\ ~media[m].thumb
       /\ ~InUse(m)
       /\ \A u \in On(m) : Upload(u) /\ On(m) = {u}
  /\ \A u \in On(m) : Upload(u) => media[m].status = "none"

\* Uploaded media has a key, and its object is there.
Keyed(m) == Served(m) /\ Spared(m, {"revived"}) => media[m].key

Stored(m) ==
  /\ \A u \in On(m) : Upload(u) \/ At(u, "complete", "uploaded") => File(m) \in objects
  /\ Served(m) /\ (useS3 \/ (Spared(m, {"halfDeleted"}) /\ \A u \in On(m) : ~Erasing(u)))
       => File(m) \in objects

\* Nobody deletes what is used or about to be used.
Kept(m) ==
  Spared(m, {"used", "revived", "halfDeleted"}) /\ (InUse(m) \/ \E u \in On(m) : Using(u))
    => ~Deleting(m) /\ media[m].key /\ File(m) \in objects

\* On the disk every file has its row, except while it is being uploaded; a
\* deletion has read the name of all that it has not deleted.
Named(m) ==
  ~useS3 /\ Spared(m, {"filmed", "unsaved"}) =>
    /\ File(m) \in objects => media[m].key \/ \E u \in On(m) : Upload(u)
    /\ Thumb(m) \in objects =>
         media[m].thumb \/ \E u \in On(m) : At(u, "image", "row") \/ At(u, "video", "save")
    /\ \A u \in On(m) : call[u].op = "delete" =>
         /\ \A v \in On(m) : call[v].op # "video"
         /\ File(m) \in objects => call[u].pc = "files" /\ call[u].seen.key
         /\ Thumb(m) \in objects => call[u].pc \in {"files", "thumbs"} /\ call[u].seen.thumb

Good(m) == NewIsAlone(m) /\ Keyed(m) /\ Stored(m) /\ Kept(m) /\ Named(m)

MediaInv == MediaTypeOK /\ FlowRight /\ \A m \in Media : Good(m)

-----------------------------------------------------------------------------
(* Files, and how requests change *)

LEMMA FileNames ==
  ASSUME NEW m \in Media, NEW n \in Media
  PROVE  /\ File(m) # Thumb(n)
         /\ File(m) = File(n) <=> m = n
         /\ Thumb(m) = Thumb(n) <=> m = n
         /\ {File(m), Thumb(m)} \subseteq Media \X {"file", "thumb"}
BY DEF File, Thumb

LEMMA FilesOfRow ==
  ASSUME NEW m \in Media, NEW r
  PROVE  /\ File(m) \in FilesOf(m, r) <=> r.key
         /\ Thumb(m) \in FilesOf(m, r) <=> r.thumb
         /\ FilesOf(m, r) \subseteq {File(m), Thumb(m)}
BY FileNames DEF FilesOf

\* A thread that is free serves no media, one that is not serves one.
LEMMA CallTypes ==
  ASSUME MediaTypeOK, NEW u \in Uploaders
  PROVE  /\ call[u] = Free \/ call[u] \in Call
         /\ Free \notin Call /\ Free.op = "none" /\ Free.media \notin Media
         /\ call[u] \in Call => call[u].media \in Media /\ u \in On(call[u].media)
         /\ call[u].op # "none" => call[u] \in Call
         /\ \A m \in Media : u \in On(m) => call[u] \in Call /\ call[u].media = m
<1>1. call[u] = Free \/ call[u] \in Call
  BY DEF MediaTypeOK
<1>2. Free.media \notin Media /\ Free.op = "none"
  BY MediaAssumption DEF Free
<1>3. Free \notin Call
  BY <1>2 DEF Call
<1>4. call[u] \in Call => call[u].media \in Media
  BY DEF Call
<1>5. QED
  BY <1>1, <1>2, <1>3, <1>4 DEF On

LEMMA BeginTypes ==
  ASSUME MediaTypeOK, NEW u \in Uploaders, NEW m \in Media,
         NEW op \in MediaKinds \cup Uses \cup {"complete", "delete"},
         NEW pc \in {"picture", "row", "save", "head", "files"}, Begin(u, op, pc, m)
  PROVE  /\ call' \in [Uploaders -> Call \cup {Free}]
         /\ call'[u] = [op |-> op, pc |-> pc, media |-> m, seen |-> media[m]]
         /\ \A v \in Uploaders : v # u => call'[v] = call[v]
         /\ calls' \in Nat /\ mishaps' \subseteq Media \X Mishaps
<1>1. [op |-> op, pc |-> pc, media |-> m, seen |-> media[m]] \in Call
  BY DEF Call, MediaTypeOK
<1>2. /\ call[u] = Free
      /\ call' = [call EXCEPT ![u] = [op |-> op, pc |-> pc, media |-> m, seen |-> media[m]]]
      /\ calls' = calls + 1
      /\ mishaps' = mishaps \cup (IF Meets(op, m, Uses) THEN {<<m, "used">>} ELSE {})
                            \cup (IF Meets(op, m, {"video"}) THEN {<<m, "filmed">>} ELSE {})
  BY DEF Begin
<1>3. /\ call' \in [Uploaders -> Call \cup {Free}]
      /\ call'[u] = [op |-> op, pc |-> pc, media |-> m, seen |-> media[m]]
      /\ \A v \in Uploaders : v # u => call'[v] = call[v]
  BY <1>1, <1>2 DEF MediaTypeOK
<1>4. {<<m, "used">>, <<m, "filmed">>} \subseteq Media \X Mishaps
  BY DEF Mishaps
<1>5. calls' \in Nat /\ mishaps' \subseteq Media \X Mishaps
  BY <1>2, <1>4 DEF MediaTypeOK
<1>6. QED
  BY <1>3, <1>5

LEMMA BeginEffect ==
  ASSUME MediaTypeOK, NEW u \in Uploaders, NEW m \in Media,
         NEW op \in MediaKinds \cup Uses \cup {"complete", "delete"},
         NEW pc \in {"picture", "row", "save", "head", "files"}, Begin(u, op, pc, m)
  PROVE  /\ call'[u].op = op /\ call'[u].pc = pc /\ call'[u].seen = media[m]
         /\ \A v \in Uploaders : v # u => call'[v] = call[v]
         /\ \A n \in Media : On(n)' = IF n = m THEN On(n) \cup {u} ELSE On(n)
         /\ \A n \in Media : u \notin On(n)
         /\ mishaps \subseteq mishaps'
         /\ \A n \in Media : n # m => \A x : <<n, x>> \in mishaps' <=> <<n, x>> \in mishaps
         /\ <<m, "used">> \notin mishaps' => ~Meets(op, m, Uses)
         /\ <<m, "filmed">> \notin mishaps' => ~Meets(op, m, {"video"})
<1>1. /\ call'[u] = [op |-> op, pc |-> pc, media |-> m, seen |-> media[m]]
      /\ \A v \in Uploaders : v # u => call'[v] = call[v]
  BY BeginTypes
<1>2. /\ call'[u].op = op /\ call'[u].pc = pc
      /\ call'[u].media = m /\ call'[u].seen = media[m]
  BY <1>1
<1>3. \A n \in Media : call[u].media # n
  BY CallTypes DEF Begin
<1>4. \A n \in Media : On(n)' = IF n = m THEN On(n) \cup {u} ELSE On(n)
  BY <1>1, <1>2, <1>3 DEF On
<1>5. \A n \in Media : u \notin On(n)
  BY <1>3 DEF On
<1>6. mishaps' = mishaps \cup (IF Meets(op, m, Uses) THEN {<<m, "used">>} ELSE {})
                         \cup (IF Meets(op, m, {"video"}) THEN {<<m, "filmed">>} ELSE {})
  BY DEF Begin
<1>7. QED
  BY <1>1, <1>2, <1>4, <1>5, <1>6

LEMMA ProceedEffect ==
  ASSUME MediaTypeOK, NEW u \in Uploaders, NEW pc, Proceed(u, pc), call[u] # Free,
         pc \in {"row", "thumbnail", "store", "save", "uploaded", "failed", "thumbs"}
  PROVE  /\ call' \in [Uploaders -> Call \cup {Free}]
         /\ call'[u] \in Call
         /\ call'[u].op = call[u].op /\ call'[u].pc = pc
         /\ call'[u].media = call[u].media /\ call'[u].seen = call[u].seen
         /\ \A v \in Uploaders : v # u => call'[v] = call[v]
         /\ \A n \in Media : On(n)' = On(n)
<1>1. call[u] \in Call
  BY CallTypes
<1>2. call'[u] = [call[u] EXCEPT !.pc = pc] /\ \A v \in Uploaders : v # u => call'[v] = call[v]
  BY DEF Proceed, MediaTypeOK
<1>3. /\ call'[u] \in Call
      /\ call'[u].op = call[u].op /\ call'[u].pc = pc
      /\ call'[u].media = call[u].media /\ call'[u].seen = call[u].seen
  BY <1>1, <1>2 DEF Call
<1>4. call' \in [Uploaders -> Call \cup {Free}]
  BY <1>2, <1>3 DEF MediaTypeOK, Proceed
<1>5. \A n \in Media : On(n)' = On(n)
  <2>1. \A v \in Uploaders : call'[v].media = call[v].media
    BY <1>2, <1>3
  <2>2. QED
    BY <2>1 DEF On
<1>6. QED
  BY <1>2, <1>3, <1>4, <1>5

LEMMA FinishEffect ==
  ASSUME MediaTypeOK, NEW u \in Uploaders, Finish(u)
  PROVE  /\ call' \in [Uploaders -> Call \cup {Free}]
         /\ call'[u] = Free
         /\ \A v \in Uploaders : v # u => call'[v] = call[v]
         /\ \A n \in Media : On(n)' = On(n) \ {u}
<1>1. call'[u] = Free /\ \A v \in Uploaders : v # u => call'[v] = call[v]
  BY DEF Finish, MediaTypeOK
<1>2. call' \in [Uploaders -> Call \cup {Free}]
  BY DEF Finish, MediaTypeOK
<1>3. \A n \in Media : call'[u].media # n
  BY <1>1, MediaAssumption DEF Free, MediaAssumption
<1>4. QED
  BY <1>1, <1>2, <1>3 DEF On

\* What a request that fails adds to the mishaps.
LEMMA FailsEffect ==
  ASSUME MediaTypeOK, NEW u \in Uploaders, NEW m \in Media, call[u].media = m, Fails(u)
  PROVE  /\ mishaps \subseteq mishaps' /\ mishaps' \subseteq Media \X Mishaps
         /\ \A n \in Media : n # m => \A x : <<n, x>> \in mishaps' <=> <<n, x>> \in mishaps
         /\ call[u].op \in MediaKinds /\ call[u].pc \in {"picture", "row", "save"} =>
              <<m, "unsaved">> \in mishaps'
         /\ call[u].op = "delete" /\ call[u].pc # "files" /\ ~useS3 =>
              <<m, "halfDeleted">> \in mishaps'
<1> DEFINE new == {y \in {"unsaved", "halfDeleted"} :
                     \/ y = "unsaved" /\ call[u].op \in MediaKinds
                                      /\ call[u].pc \in {"picture", "row", "save"}
                     \/ y = "halfDeleted" /\ call[u].op = "delete" /\ call[u].pc # "files" /\ ~useS3}
<1>1. mishaps' = mishaps \cup {<<m, x>> : x \in new}
  BY DEF Fails
<1>2. new \subseteq Mishaps
  BY DEF Mishaps
<1>3. \A n, x : <<n, x>> \in {<<m, y>> : y \in new} <=> n = m /\ x \in new
  OBVIOUS
<1>4. mishaps' \subseteq Media \X Mishaps
  BY <1>1, <1>2 DEF MediaTypeOK
<1>5. /\ call[u].op \in MediaKinds /\ call[u].pc \in {"picture", "row", "save"} =>
           "unsaved" \in new
      /\ call[u].op = "delete" /\ call[u].pc # "files" /\ ~useS3 => "halfDeleted" \in new
  OBVIOUS
<1> HIDE DEF new
<1>6. QED
  BY <1>1, <1>3, <1>4, <1>5

-----------------------------------------------------------------------------
(* Types *)

LEMMA MediaRowTypes ==
  ASSUME MediaTypeOK, NEW m \in Media
  PROVE  /\ media[m] \in MediaRow
         /\ \A s \in Status, k \in BOOLEAN, t \in BOOLEAN :
              [status |-> s, key |-> k, thumb |-> t] \in MediaRow
         /\ \A s \in Status : [media[m] EXCEPT !.status = s] \in MediaRow
         /\ [media[m] EXCEPT !.thumb = TRUE] \in MediaRow
         /\ \A r \in MediaRow : [media EXCEPT ![m] = r] \in [Media -> MediaRow]
BY DEF MediaTypeOK, MediaRow

LEMMA StoryTypes ==
  ASSUME MediaTypeOK, NEW s \in Stories
  PROVE  /\ story[s] \in Story
         /\ [story[s] EXCEPT !.active = FALSE] \in Story
         /\ [story[s] EXCEPT !.expired = TRUE] \in Story
         /\ \A m \in Media : [media |-> m, active |-> TRUE, expired |-> FALSE] \in Story
         /\ \A r \in Story : [story EXCEPT ![s] = r] \in [Stories -> Story]
BY DEF MediaTypeOK, Story

LEMMA BegunTypes ==
  ASSUME MediaTypeOK, FlowRight, NEW u \in Uploaders, NEW m \in Media,
         NEW op \in Uses \cup {"complete", "delete"},
         NEW pc \in {"save", "head", "files"}, Begin(u, op, pc, m),
         UNCHANGED <<useS3, media, objects, urls, attached, story>>,
         \/ op = "complete" /\ pc = "head" /\ useS3
         \/ op = "delete" /\ pc = "files"
         \/ op \in Uses /\ pc = "save"
  PROVE  MediaTypeOK' /\ FlowRight'
<1>1. call' \in [Uploaders -> Call \cup {Free}]
  BY BeginTypes
<1>2. \A v \in Uploaders : v # u => call'[v] = call[v]
  BY BeginTypes
<1>3. calls' \in Nat /\ mishaps' \subseteq Media \X Mishaps
  BY BeginTypes
<1>4. call'[u].op = op /\ call'[u].pc = pc
  BY DEF Begin, MediaTypeOK
<1>5. QED
  BY <1>1, <1>2, <1>3, <1>4 DEF MediaTypeOK, FlowRight, Flow, MediaKinds, Uses

\* The steps of a thread, and the others.
LEMMA MediaStepTypes ==
  ASSUME MediaTypeOK, FlowRight, [MediaNext]_mediaVars
  PROVE  MediaTypeOK' /\ FlowRight'
<1> USE DEF FlowRight
<1>1. ASSUME NEW u \in Uploaders, NEW m \in Media, NEW k \in MediaKinds, BeginLocalUpload(u, m, k)
      PROVE  MediaTypeOK' /\ FlowRight'
  <2> DEFINE pc == IF k = "image" THEN "picture" ELSE "row"
  <2>1. Begin(u, k, pc, m) /\ ~useS3 /\ UNCHANGED <<useS3, media, urls, attached, story>>
    BY <1>1 DEF BeginLocalUpload
  <2>2. /\ call' \in [Uploaders -> Call \cup {Free}]
        /\ \A v \in Uploaders : v # u => call'[v] = call[v]
        /\ calls' \in Nat /\ mishaps' \subseteq Media \X Mishaps
        /\ call'[u].op = k /\ call'[u].pc = pc
    BY <2>1, BeginTypes, BeginEffect
  <2>3. objects' \subseteq Media \X {"file", "thumb"}
    BY <1>1, FileNames DEF BeginLocalUpload, MediaTypeOK
  <2>4. QED
    BY <2>1, <2>2, <2>3 DEF MediaTypeOK, Flow, MediaKinds, Uses
<1>2. ASSUME NEW u \in Uploaders, NEW m \in Media,
             NEW op \in Uses \cup {"complete", "delete"},
             NEW pc \in {"save", "head", "files"}, Begin(u, op, pc, m),
             UNCHANGED <<useS3, media, objects, urls, attached, story>>,
             \/ op = "complete" /\ pc = "head" /\ useS3
             \/ op = "delete" /\ pc = "files"
             \/ op \in Uses /\ pc = "save"
      PROVE  MediaTypeOK' /\ FlowRight'
  BY <1>2, BegunTypes
<1>3. ASSUME NEW u \in Uploaders, Finish(u), MediaTypeOK
      PROVE  /\ call' \in [Uploaders -> Call \cup {Free}]
             /\ useS3' = useS3 /\ urls' = urls => FlowRight'
  <2>1. Flow(Free)
    BY DEF Flow, Free, MediaKinds, Uses
  <2>2. QED
    BY <1>3, <2>1, FinishEffect DEF Flow
<1>4. ASSUME NEW u \in Uploaders, NEW pc, Proceed(u, pc), call[u] # Free,
             \/ call[u].op = "image" /\ pc = "row"
             \/ call[u].op = "video" /\ pc \in {"thumbnail", "store", "save"}
             \/ call[u].op = "complete" /\ pc \in {"uploaded", "failed"}
             \/ call[u].op = "delete" /\ pc \in {"thumbs", "row"}
      PROVE  /\ call' \in [Uploaders -> Call \cup {Free}]
             /\ useS3' = useS3 /\ urls' = urls => FlowRight'
  <2>1. /\ call' \in [Uploaders -> Call \cup {Free}]
        /\ call'[u].op = call[u].op /\ call'[u].pc = pc
        /\ \A v \in Uploaders : v # u => call'[v] = call[v]
    BY <1>4, ProceedEffect
  <2>2. Flow(call[u])
    OBVIOUS
  <2>3. Flow(call'[u])
    BY <1>4, <2>1, <2>2 DEF Flow, MediaKinds, Uses
  <2>4. useS3' = useS3 => \A v \in Uploaders : Flow(call[v])'
    BY <2>1, <2>3 DEF Flow
  <2>5. QED
    BY <2>1, <2>4
<1>5. ASSUME NEW u \in Uploaders, call[u].op # "none"
      PROVE  call[u] # Free /\ call[u].media \in Media
  BY <1>5, CallTypes
<1>6. "none" \notin MediaKinds /\ "video" \in MediaKinds
  BY DEF MediaKinds
<1>7. ASSUME NEW u \in Uploaders, CreateUploaded(u)
      PROVE  MediaTypeOK' /\ FlowRight'
  <2>1. call[u].media \in Media /\ call[u] # Free
    BY <1>5, <1>6, <1>7 DEF CreateUploaded
  <2>2. media' \in [Media -> MediaRow]
    BY <1>7, <2>1, MediaRowTypes DEF CreateUploaded, Status
  <2>3. call' \in [Uploaders -> Call \cup {Free}] /\ FlowRight'
    BY <1>3, <1>4, <1>7, <2>1 DEF CreateUploaded
  <2>4. QED
    BY <1>7, <2>2, <2>3 DEF CreateUploaded, MediaTypeOK
<1>8. ASSUME NEW u \in Uploaders, StorePicture(u) \/ StoreThumbnail(u)
      PROVE  MediaTypeOK' /\ FlowRight'
  <2>1. call[u].media \in Media /\ call[u] # Free
    BY <1>5, <1>8 DEF StorePicture, StoreThumbnail, At
  <2>2. objects' \subseteq Media \X {"file", "thumb"}
    BY <1>8, <2>1, FileNames DEF StorePicture, StoreThumbnail, MediaTypeOK
  <2>3. call' \in [Uploaders -> Call \cup {Free}] /\ FlowRight'
    BY <1>4, <1>8, <2>1 DEF StorePicture, StoreThumbnail, At
  <2>4. QED
    BY <1>8, <2>2, <2>3 DEF StorePicture, StoreThumbnail, MediaTypeOK
<1>9. ASSUME NEW u \in Uploaders, ReadVideo(u)
      PROVE  MediaTypeOK' /\ FlowRight'
  <2>1. call' \in [Uploaders -> Call \cup {Free}] /\ FlowRight'
    BY <1>3, <1>4, <1>5, <1>9 DEF ReadVideo, At
  <2>2. QED
    BY <1>9, <2>1 DEF ReadVideo, MediaTypeOK
<1>10. ASSUME NEW u \in Uploaders, SaveThumbnail(u)
      PROVE  MediaTypeOK' /\ FlowRight'
  <2>1. call[u].media \in Media
    BY <1>5, <1>10 DEF SaveThumbnail, At
  <2>2. media' \in [Media -> MediaRow]
    BY <1>10, <2>1, MediaRowTypes DEF SaveThumbnail
  <2>3. call' \in [Uploaders -> Call \cup {Free}] /\ FlowRight'
    BY <1>3, <1>10 DEF SaveThumbnail
  <2>4. QED
    BY <1>10, <2>2, <2>3 DEF SaveThumbnail, MediaTypeOK
<1>11. ASSUME NEW u \in Uploaders, HeadObject(u)
      PROVE  MediaTypeOK' /\ FlowRight'
  <2>1. call' \in [Uploaders -> Call \cup {Free}] /\ FlowRight'
    BY <1>4, <1>5, <1>11 DEF HeadObject, At
  <2>2. QED
    BY <1>11, <2>1 DEF HeadObject, MediaTypeOK
<1>12. ASSUME NEW u \in Uploaders, SaveComplete(u)
      PROVE  MediaTypeOK' /\ FlowRight'
  <2>1. call[u].media \in Media /\ call[u].pc \in Status
    BY <1>5, <1>12 DEF SaveComplete, Status
  <2>2. media' \in [Media -> MediaRow]
    BY <1>12, <2>1, MediaRowTypes DEF SaveComplete
  <2>3. mishaps' \subseteq Media \X Mishaps
    BY <1>12, <2>1 DEF SaveComplete, MediaTypeOK, Mishaps
  <2>4. call' \in [Uploaders -> Call \cup {Free}] /\ FlowRight'
    BY <1>3, <1>12 DEF SaveComplete
  <2>5. QED
    BY <1>12, <2>2, <2>3, <2>4 DEF SaveComplete, MediaTypeOK
<1>13. ASSUME NEW u \in Uploaders, DeleteFile(u) \/ DeleteThumbnail(u)
      PROVE  MediaTypeOK' /\ FlowRight'
  <2>1. call' \in [Uploaders -> Call \cup {Free}] /\ FlowRight'
    BY <1>4, <1>5, <1>13 DEF DeleteFile, DeleteThumbnail, At
  <2>2. QED
    BY <1>13, <2>1 DEF DeleteFile, DeleteThumbnail, MediaTypeOK
<1>14. ASSUME NEW u \in Uploaders, SaveDeleted(u)
      PROVE  MediaTypeOK' /\ FlowRight'
  <2>1. call[u].media \in Media
    BY <1>5, <1>14 DEF SaveDeleted, At
  <2>2. media' \in [Media -> MediaRow]
    BY <1>14, <2>1, MediaRowTypes DEF SaveDeleted, Status
  <2>3. call' \in [Uploaders -> Call \cup {Free}] /\ FlowRight'
    BY <1>3, <1>14 DEF SaveDeleted
  <2>4. QED
    BY <1>14, <2>2, <2>3 DEF SaveDeleted, MediaTypeOK
<1>15. ASSUME NEW u \in Uploaders, Attach(u)
      PROVE  MediaTypeOK' /\ FlowRight'
  <2>1. call[u].media \in Media
    BY <1>5, <1>15 DEF Attach, At
  <2>2. call' \in [Uploaders -> Call \cup {Free}] /\ FlowRight'
    BY <1>3, <1>15 DEF Attach
  <2>3. QED
    BY <1>15, <2>1, <2>2 DEF Attach, MediaTypeOK
<1>16. ASSUME NEW u \in Uploaders, NEW s \in Stories, CreateStory(u, s)
      PROVE  MediaTypeOK' /\ FlowRight'
  <2>1. call[u].media \in Media
    BY <1>5, <1>16 DEF CreateStory, At
  <2>2. story' \in [Stories -> Story]
    BY <1>16, <2>1, StoryTypes DEF CreateStory
  <2>3. call' \in [Uploaders -> Call \cup {Free}] /\ FlowRight'
    BY <1>3, <1>16 DEF CreateStory
  <2>4. QED
    BY <1>16, <2>2, <2>3 DEF CreateStory, MediaTypeOK
<1>17. ASSUME NEW u \in Uploaders, Fails(u)
      PROVE  MediaTypeOK' /\ FlowRight'
  <2>1. call[u].media \in Media
    BY <1>17, CallTypes DEF Fails
  <2>2. call' \in [Uploaders -> Call \cup {Free}] /\ FlowRight'
    BY <1>3, <1>17 DEF Fails
  <2>3. mishaps' \subseteq Media \X Mishaps
    BY <1>17, <2>1, FailsEffect
  <2>4. QED
    BY <1>17, <2>2, <2>3 DEF Fails, MediaTypeOK
<1>18. ASSUME NEW m \in Media, Presign(m) \/ PutObject(m) \/ UrlExpires(m)
      PROVE  MediaTypeOK' /\ FlowRight'
  <2>1. CASE Presign(m)
    <3>1. media' \in [Media -> MediaRow]
      BY <2>1, MediaRowTypes DEF Presign, Status
    <3>2. QED
      BY <2>1, <3>1 DEF Presign, MediaTypeOK, Flow
  <2>2. CASE PutObject(m)
    BY <2>2, FileNames DEF PutObject, MediaTypeOK, Flow
  <2>3. CASE UrlExpires(m)
    BY <2>3 DEF UrlExpires, MediaTypeOK, Flow
  <2>4. QED
    BY <1>18, <2>1, <2>2, <2>3
<1>19. ASSUME NEW s \in Stories, DeleteStory(s) \/ StoryExpires(s)
      PROVE  MediaTypeOK' /\ FlowRight'
  <2>1. story' \in [Stories -> Story]
    BY <1>19, StoryTypes DEF DeleteStory, StoryExpires
  <2>2. QED
    BY <1>19, <2>1 DEF DeleteStory, StoryExpires, MediaTypeOK, Flow
<1>20. ASSUME DeleteExpiredStories
      PROVE  MediaTypeOK' /\ FlowRight'
  <2>1. story' \in [Stories -> Story]
    BY <1>20, StoryTypes DEF DeleteExpiredStories
  <2>2. QED
    BY <1>20, <2>1 DEF DeleteExpiredStories, MediaTypeOK, Flow
<1>21. ASSUME UNCHANGED mediaVars
      PROVE  MediaTypeOK' /\ FlowRight'
  BY <1>21 DEF mediaVars, MediaTypeOK, Flow
<1>22. ASSUME NEW u \in Uploaders, MediaStep(u)
      PROVE  MediaTypeOK' /\ FlowRight'
  <2>1. ASSUME NEW m \in Media, BeginCompleteUpload(u, m)
        PROVE  MediaTypeOK' /\ FlowRight'
    BY <1>2, <2>1 DEF BeginCompleteUpload
  <2>2. ASSUME NEW m \in Media, BeginDelete(u, m)
        PROVE  MediaTypeOK' /\ FlowRight'
    BY <1>2, <2>2 DEF BeginDelete
  <2>3. ASSUME NEW m \in Media, NEW op \in Uses, BeginUseMedia(u, op, m)
        PROVE  MediaTypeOK' /\ FlowRight'
    BY <1>2, <2>3 DEF BeginUseMedia
  <2>4. QED
    BY <1>1, <1>7, <1>8, <1>9, <1>10, <1>11, <1>12, <1>13, <1>14, <1>15, <1>16, <1>17, <1>22,
       <2>1, <2>2, <2>3 DEF MediaStep
<1>23. QED
  BY <1>18, <1>19, <1>20, <1>21, <1>22 DEF MediaNext

-----------------------------------------------------------------------------
(* What a step does to one medium *)

\* A thread that does nothing is where it was.
LEMMA SameCall ==
  ASSUME NEW v \in Uploaders, call'[v] = call[v]
  PROVE  /\ Upload(v)' = Upload(v) /\ Erasing(v)' = Erasing(v) /\ Using(v)' = Using(v)
         /\ At(v, "complete", "uploaded")' = At(v, "complete", "uploaded")
         /\ At(v, "image", "row")' = At(v, "image", "row")
         /\ At(v, "video", "save")' = At(v, "video", "save")
BY DEF Upload, Erasing, Using, At

LEMMA StillSpared ==
  ASSUME mishaps \subseteq mishaps', NEW m, NEW list, Spared(m, list)'
  PROVE  Spared(m, list)
BY DEF Spared

\* A step that does not concern m leaves it as it is.
LEMMA Elsewhere ==
  ASSUME NEW m \in Media, Good(m),
         media'[m] = media[m], useS3' = useS3, On(m)' = On(m),
         \A v \in On(m) : call'[v] = call[v],
         File(m) \in objects' <=> File(m) \in objects,
         Thumb(m) \in objects' <=> Thumb(m) \in objects,
         InUse(m)' => InUse(m),
         \A x : <<m, x>> \in mishaps' <=> <<m, x>> \in mishaps
  PROVE  Good(m)'
<1>1. \A v \in On(m) : /\ Upload(v)' = Upload(v) /\ Erasing(v)' = Erasing(v)
                       /\ Using(v)' = Using(v)
                       /\ At(v, "complete", "uploaded")' = At(v, "complete", "uploaded")
                       /\ At(v, "image", "row")' = At(v, "image", "row")
                       /\ At(v, "video", "save")' = At(v, "video", "save")
  BY SameCall DEF On
<1>2. \A list : Spared(m, list)' = Spared(m, list)
  BY DEF Spared
<1>3. Deleting(m)' = Deleting(m) /\ Served(m)' = Served(m)
  BY DEF Deleting, Served
<1>4. NewIsAlone(m)'
  BY <1>1 DEF NewIsAlone, Good
<1>5. Keyed(m)'
  BY <1>2, <1>3 DEF Keyed, Good
<1>6. Stored(m)'
  BY <1>1, <1>2, <1>3 DEF Stored, Good
<1>7. Kept(m)'
  BY <1>1, <1>2, <1>3 DEF Kept, Good
<1>8. Named(m)'
  BY <1>1, <1>2 DEF Named, Good
<1>9. QED
  BY <1>4, <1>5, <1>6, <1>7, <1>8 DEF Good

\* A step of a thread concerns the medium it serves.
LEMMA Others ==
  ASSUME MediaInv, NEW u \in Uploaders, NEW m \in Media, NEW n \in Media, n # m,
         useS3' = useS3, media'[n] = media[n],
         On(n)' = On(n), u \notin On(n), \A v \in Uploaders : v # u => call'[v] = call[v],
         File(n) \in objects' <=> File(n) \in objects,
         Thumb(n) \in objects' <=> Thumb(n) \in objects,
         InUse(n)' => InUse(n),
         \A x : <<n, x>> \in mishaps' <=> <<n, x>> \in mishaps
  PROVE  Good(n)'
<1>1. \A v \in On(n) : call'[v] = call[v]
  BY DEF On
<1>2. QED
  BY <1>1, Elsewhere DEF MediaInv

LEMMA UseStays ==
  ASSUME attached' = attached, story' = story
  PROVE  \A m \in Media : InUse(m)' = InUse(m)
BY DEF InUse

LEMMA LocalUploadIsGood ==
  ASSUME MediaInv, NEW u \in Uploaders, NEW m \in Media, NEW k \in MediaKinds,
         BeginLocalUpload(u, m, k), NEW n \in Media
  PROVE  Good(n)'
<1> DEFINE pc == IF k = "image" THEN "picture" ELSE "row"
<1>1. /\ Begin(u, k, pc, m) /\ ~useS3 /\ media[m].status = "none" /\ On(m) = {}
      /\ UNCHANGED <<useS3, media, urls, attached, story>>
      /\ objects' = objects \cup {File(m)}
  BY DEF BeginLocalUpload
<1>2. /\ call'[u].op = k /\ call'[u].pc = pc
      /\ \A v \in Uploaders : v # u => call'[v] = call[v]
      /\ \A x \in Media : On(x)' = IF x = m THEN On(x) \cup {u} ELSE On(x)
      /\ u \notin On(n)
      /\ mishaps \subseteq mishaps'
      /\ n # m => \A x : <<n, x>> \in mishaps' <=> <<n, x>> \in mishaps
  BY <1>1, BeginEffect DEF MediaInv
<1>3. InUse(n)' = InUse(n)
  BY <1>1, UseStays
<1>4. CASE n # m
  <2>1. File(n) \in objects' <=> File(n) \in objects
    BY <1>1, <1>4, FileNames
  <2>2. Thumb(n) \in objects' <=> Thumb(n) \in objects
    BY <1>1, <1>4, FileNames
  <2>3. QED
    BY <1>1, <1>2, <1>3, <1>4, <2>1, <2>2, Others
<1>5. CASE n = m
  <2>1. On(m)' = {u} /\ Upload(u)' /\ Good(m)
    BY <1>1, <1>2 DEF Upload, MediaInv
  <2>2. k \notin Uses /\ k # "delete" /\ k # "complete"
    BY DEF MediaKinds, Uses
  <2>3. NewIsAlone(m)'
    BY <1>1, <1>3, <1>5, <2>1 DEF NewIsAlone, Good
  <2>4. Keyed(m)' /\ Stored(m)'
    BY <1>1, <2>1 DEF Keyed, Stored, Served
  <2>5. Kept(m)'
    BY <1>1, <1>2, <1>3, <1>5, <2>1, <2>2 DEF Kept, Using, Good, NewIsAlone
  <2>6. Named(m)'
    <3>1. Named(m)
      BY <2>1 DEF Good
    <3>2. Thumb(m) \in objects' <=> Thumb(m) \in objects
      BY <1>1, FileNames
    <3>3. Spared(m, {"filmed", "unsaved"})' => Spared(m, {"filmed", "unsaved"})
      BY <1>2, StillSpared
    <3>4. QED
      BY <1>1, <1>2, <2>1, <2>2, <3>1, <3>2, <3>3 DEF Named
  <2>7. QED
    BY <1>5, <2>3, <2>4, <2>5, <2>6 DEF Good
<1>6. QED
  BY <1>4, <1>5

\* A request that begins, other than an upload to the disk.  A deletion and a
\* use that begin while the other is in progress are a mishap, and so are
\* a deletion and the upload of a video.
LEMMA BegunIsGood ==
  ASSUME MediaInv, NEW u \in Uploaders, NEW m \in Media,
         NEW op \in Uses \cup {"complete", "delete"},
         NEW pc \in {"save", "head", "files"}, Begin(u, op, pc, m),
         UNCHANGED <<useS3, media, objects, urls, attached, story>>,
         \/ op = "complete" /\ pc = "head" /\ useS3 /\ media[m].key
         \/ op = "delete" /\ pc = "files" /\ media[m].status # "none" /\ ~InUse(m)
         \/ op \in Uses /\ pc = "save" /\ media[m].status = "uploaded",
         NEW n \in Media
  PROVE  Good(n)'
<1>1. /\ call'[u].op = op /\ call'[u].pc = pc /\ call'[u].seen = media[m]
      /\ \A v \in Uploaders : v # u => call'[v] = call[v]
      /\ \A x \in Media : On(x)' = IF x = m THEN On(x) \cup {u} ELSE On(x)
      /\ u \notin On(m) /\ u \notin On(n)
      /\ mishaps \subseteq mishaps'
      /\ n # m => \A x : <<n, x>> \in mishaps' <=> <<n, x>> \in mishaps
      /\ <<m, "used">> \notin mishaps' => ~Meets(op, m, Uses)
      /\ <<m, "filmed">> \notin mishaps' => ~Meets(op, m, {"video"})
  BY BeginEffect DEF MediaInv
<1>2. InUse(n)' = InUse(n)
  BY UseStays
<1>3. CASE n # m
  BY <1>1, <1>2, <1>3, Others
<1>4. CASE n = m
  <2>1. /\ On(m)' = On(m) \cup {u} /\ Good(m)
        /\ ~Upload(u)' /\ ~Erasing(u)' /\ ~At(u, "complete", "uploaded")'
    BY <1>1 DEF Upload, Erasing, At, MediaInv, MediaKinds, Uses
  <2>2. \A v \in On(m) :
          /\ v \in Uploaders /\ call'[v] = call[v]
          /\ Upload(v)' = Upload(v) /\ Erasing(v)' = Erasing(v) /\ Using(v)' = Using(v)
          /\ At(v, "complete", "uploaded")' = At(v, "complete", "uploaded")
          /\ At(v, "image", "row")' = At(v, "image", "row")
          /\ At(v, "video", "save")' = At(v, "video", "save")
    BY <1>1, SameCall DEF On
  <2>3. media[m].status # "none"
    BY <2>1 DEF NewIsAlone, Good
  <2>4. \A v \in On(m) : ~Upload(v)
    BY <2>1, <2>3 DEF NewIsAlone, Good
  <2>5. NewIsAlone(m)'
    BY <1>2, <1>4, <2>1, <2>2, <2>3, <2>4 DEF NewIsAlone
  <2>6. Keyed(m)'
    BY <1>1, <2>1, StillSpared DEF Keyed, Good, Served
  <2>7. Stored(m)'
    <3>1. Stored(m)
      BY <2>1 DEF Good
    <3>2. Spared(m, {"halfDeleted"})' => Spared(m, {"halfDeleted"})
      BY <1>1, StillSpared
    <3>3. \A v \in On(m)' : Upload(v)' \/ At(v, "complete", "uploaded")' =>
                              File(m) \in objects'
      BY <2>1, <2>2, <3>1 DEF Stored
    <3>4. QED
      BY <2>1, <2>2, <3>1, <3>2, <3>3 DEF Stored, Served
  <2>8. Kept(m)'
    <3>1. SUFFICES ASSUME Spared(m, {"used", "revived", "halfDeleted"})',
                          InUse(m)' \/ \E v \in On(m)' : Using(v)'
                   PROVE  ~Deleting(m)' /\ media[m].key /\ File(m) \in objects
      BY DEF Kept
    <3>2. /\ Spared(m, {"used", "revived", "halfDeleted"})
          /\ Spared(m, {"revived"}) /\ Spared(m, {"halfDeleted"})
          /\ ~Meets(op, m, Uses)
      BY <1>1, <3>1, StillSpared DEF Spared
    <3>3. CASE op = "delete"
      <4>1. ~Using(u)'
        BY <1>1, <3>3 DEF Using, Uses
      <4>2. \E v \in On(m) : Using(v)
        BY <1>2, <1>4, <2>1, <2>2, <3>1, <3>3, <4>1 DEF Uses
      <4>3. QED
        BY <3>2, <3>3, <4>2 DEF Meets, Using
    <3>4. CASE op = "complete"
      <4>1. ~Using(u)'
        BY <1>1, <3>4 DEF Using, Uses
      <4>2. InUse(m) \/ \E v \in On(m) : Using(v)
        BY <1>2, <1>4, <2>1, <2>2, <3>1, <4>1
      <4>3. ~Deleting(m) /\ media[m].key /\ File(m) \in objects
        BY <2>1, <3>2, <4>2 DEF Good, Kept
      <4>4. QED
        BY <1>1, <2>1, <2>2, <3>4, <4>3 DEF Deleting
    <3>5. CASE op \in Uses
      <4>1. \A v \in On(m) : call[v].op # "delete"
        BY <3>2, <3>5 DEF Meets
      <4>2. ~Deleting(m)'
        BY <1>1, <2>1, <2>2, <3>5, <4>1 DEF Deleting, Uses
      <4>3. media[m].status = "uploaded"
        BY <3>5 DEF Uses
      <4>4. media[m].key
        BY <2>1, <3>2, <4>3 DEF Good, Keyed, Served
      <4>5. File(m) \in objects
        BY <2>1, <3>2, <4>1, <4>3 DEF Good, Stored, Served, Erasing
      <4>6. QED
        BY <4>2, <4>4, <4>5
    <3>6. QED
      BY <3>3, <3>4, <3>5
  <2>9. Named(m)'
    <3>1. SUFFICES ASSUME ~useS3, Spared(m, {"filmed", "unsaved"})'
                   PROVE  Named(m)'
      BY DEF Named
    <3>2. Spared(m, {"filmed", "unsaved"}) /\ ~Meets(op, m, {"video"})
      BY <1>1, <3>1, StillSpared DEF Spared
    <3>3. /\ File(m) \in objects => media[m].key
          /\ Thumb(m) \in objects =>
               media[m].thumb \/ \E v \in On(m) : At(v, "image", "row") \/ At(v, "video", "save")
          /\ \A v \in On(m) : call[v].op = "delete" =>
               /\ \A w \in On(m) : call[w].op # "video"
               /\ File(m) \in objects => call[v].pc = "files" /\ call[v].seen.key
               /\ Thumb(m) \in objects => call[v].pc \in {"files", "thumbs"} /\ call[v].seen.thumb
      BY <2>1, <2>4, <3>1, <3>2 DEF Good, Named
    <3>4. Thumb(m) \in objects' =>
            media'[m].thumb \/ \E v \in On(m)' : At(v, "image", "row")' \/ At(v, "video", "save")'
      BY <2>1, <2>2, <3>3
    <3>5. op # "video"
      BY DEF Uses
    <3>6. ASSUME op = "delete"
          PROVE  /\ \A w \in On(m) : call[w].op # "video"
                 /\ Thumb(m) \in objects => media[m].thumb
      <4>1. \A w \in On(m) : call[w].op # "video"
        BY <3>2, <3>6 DEF Meets
      <4>2. \A v \in On(m) : ~At(v, "image", "row")
        BY <2>4 DEF Upload, At, MediaKinds
      <4>3. QED
        BY <3>3, <4>1, <4>2 DEF At
    <3>7. ASSUME NEW v \in On(m)', call'[v].op = "delete"
          PROVE  /\ \A w \in On(m)' : call'[w].op # "video"
                 /\ File(m) \in objects' => call'[v].pc = "files" /\ call'[v].seen.key
                 /\ Thumb(m) \in objects' =>
                      call'[v].pc \in {"files", "thumbs"} /\ call'[v].seen.thumb
      <4>1. CASE v = u
        <5>1. op = "delete" /\ pc = "files"
          BY <1>1, <3>7, <4>1 DEF Uses
        <5>2. QED
          BY <1>1, <2>1, <2>2, <3>3, <3>5, <3>6, <4>1, <5>1
      <4>2. CASE v # u
        BY <1>1, <2>1, <2>2, <3>3, <3>5, <3>7, <4>2
      <4>3. QED
        BY <4>1, <4>2
    <3>8. QED
      BY <3>1, <3>3, <3>4, <3>7 DEF Named
  <2>10. QED
    BY <1>4, <2>5, <2>6, <2>7, <2>8, <2>9 DEF Good
<1>5. QED
  BY <1>3, <1>4

-----------------------------------------------------------------------------
(* What the steps of a request do to its medium *)

\* A request that ends: what remains of the others.
LEMMA Ended ==
  ASSUME MediaInv, NEW u \in Uploaders, NEW m \in Media, call[u].media = m,
         call[u].op # "none", Finish(u)
  PROVE  /\ u \in On(m) /\ On(m) \subseteq Uploaders
         /\ \A v \in Uploaders : v # u => call'[v] = call[v]
         /\ On(m)' = On(m) \ {u}
         /\ \A x \in Media : x # m => On(x)' = On(x) /\ u \notin On(x)
<1>1. u \in On(m) /\ On(m) \subseteq Uploaders
  BY DEF On
<1>2. /\ \A v \in Uploaders : v # u => call'[v] = call[v]
      /\ \A x \in Media : On(x)' = On(x) \ {u}
  BY FinishEffect DEF MediaInv
<1>3. \A x \in Media : x # m => u \notin On(x)
  BY DEF On
<1>4. QED
  BY <1>1, <1>2, <1>3

LEMMA WentOn ==
  ASSUME MediaInv, NEW u \in Uploaders, NEW m \in Media, call[u].media = m, call[u].op # "none",
         NEW pc \in {"row", "thumbnail", "store", "save", "uploaded", "failed", "thumbs"},
         Proceed(u, pc)
  PROVE  /\ u \in On(m) /\ On(m) \subseteq Uploaders
         /\ call'[u].op = call[u].op /\ call'[u].pc = pc /\ call'[u].seen = call[u].seen
         /\ \A v \in Uploaders : v # u => call'[v] = call[v]
         /\ \A x \in Media : On(x)' = On(x)
         /\ \A x \in Media : x # m => u \notin On(x)
<1>1. u \in On(m) /\ call[u] # Free /\ On(m) \subseteq Uploaders
  BY CallTypes DEF MediaInv, On
<1>2. /\ call'[u].op = call[u].op /\ call'[u].pc = pc /\ call'[u].seen = call[u].seen
      /\ \A v \in Uploaders : v # u => call'[v] = call[v]
      /\ \A x \in Media : On(x)' = On(x)
  BY <1>1, ProceedEffect DEF MediaInv
<1>3. QED
  BY <1>1, <1>2 DEF On

\* The other requests for m are where they were, and if one of m's requests is
\* no upload to the disk, none is.
LEMMA Beside ==
  ASSUME MediaInv, NEW u \in Uploaders, NEW m \in Media, u \in On(m),
         \A v \in Uploaders : v # u => call'[v] = call[v], On(m)' \subseteq On(m)
  PROVE  /\ \A v \in On(m)' : v # u =>
              /\ v \in On(m) /\ call'[v] = call[v]
              /\ Upload(v)' = Upload(v) /\ Erasing(v)' = Erasing(v) /\ Using(v)' = Using(v)
              /\ At(v, "complete", "uploaded")' = At(v, "complete", "uploaded")
              /\ At(v, "image", "row")' = At(v, "image", "row")
              /\ At(v, "video", "save")' = At(v, "video", "save")
         /\ ~Upload(u) => /\ media[m].status # "none"
                          /\ \A v \in On(m) : ~Upload(v)
<1>1. \A v \in On(m)' : v \in On(m) /\ v \in Uploaders
  BY DEF On
<1>2. NewIsAlone(m)
  BY DEF MediaInv, Good
<1>3. ~Upload(u) => media[m].status # "none"
  BY <1>2 DEF NewIsAlone
<1>4. ~Upload(u) => \A v \in On(m) : ~Upload(v)
  BY <1>2, <1>3 DEF NewIsAlone
<1>5. QED
  BY <1>1, <1>3, <1>4, SameCall

LEMMA PictureIsGood ==
  ASSUME MediaInv, NEW u \in Uploaders, NEW m \in Media, call[u].media = m,
         StorePicture(u), NEW n \in Media
  PROVE  Good(n)'
<1>1. /\ call[u].op = "image" /\ call[u].op # "none" /\ call[u].pc = "picture" /\ Upload(u)
      /\ objects' = objects \cup {Thumb(m)} /\ Proceed(u, "row")
      /\ UNCHANGED <<useS3, media, urls, attached, story, calls, mishaps>>
  BY DEF StorePicture, At, Upload, MediaKinds
<1>2. /\ u \in On(m)
      /\ call'[u].op = "image" /\ call'[u].pc = "row"
      /\ \A v \in Uploaders : v # u => call'[v] = call[v]
      /\ \A x \in Media : On(x)' = On(x)
      /\ \A x \in Media : x # m => u \notin On(x)
  BY <1>1, WentOn
<1>3. InUse(n)' = InUse(n)
  BY <1>1, UseStays
<1>4. /\ File(n) \in objects' <=> File(n) \in objects
      /\ n # m => (Thumb(n) \in objects' <=> Thumb(n) \in objects)
  BY <1>1, FileNames
<1>5. CASE n # m
  BY <1>1, <1>2, <1>3, <1>4, <1>5, Others
<1>6. CASE n = m
  <2>1. Good(m) /\ media[m].status = "none" /\ On(m) = {u} /\ On(m)' = {u}
    BY <1>1, <1>2 DEF MediaInv, Good, NewIsAlone
  <2>2. Upload(u)' /\ At(u, "image", "row")'
    BY <1>2 DEF Upload, At, MediaKinds
  <2>3. NewIsAlone(m)'
    BY <1>1, <1>3, <1>6, <2>1, <2>2 DEF NewIsAlone, Good
  <2>4. Keyed(m)'
    BY <1>1, <2>1 DEF Keyed, Served
  <2>5. Stored(m)'
    BY <1>1, <1>2, <1>4, <1>6, <2>1 DEF Stored, Served, Good
  <2>6. Kept(m)'
    BY <1>2, <1>3, <1>6, <2>1 DEF Kept, Using, Uses, Good, NewIsAlone
  <2>7. Named(m)'
    BY <1>2, <2>1, <2>2 DEF Named
  <2>8. QED
    BY <1>6, <2>3, <2>4, <2>5, <2>6, <2>7 DEF Good
<1>7. QED
  BY <1>5, <1>6

LEMMA CreatedIsGood ==
  ASSUME MediaInv, NEW u \in Uploaders, NEW m \in Media, call[u].media = m,
         CreateUploaded(u), NEW n \in Media
  PROVE  Good(n)'
<1>1. /\ call[u].op \in MediaKinds /\ call[u].pc = "row" /\ call[u].op # "none" /\ Upload(u)
      /\ media' = [media EXCEPT ![m] = [status |-> "uploaded", key |-> TRUE,
                                        thumb |-> call[u].op = "image"]]
      /\ IF call[u].op = "video" THEN Proceed(u, "thumbnail") ELSE Finish(u)
      /\ UNCHANGED <<useS3, objects, urls, attached, story, calls, mishaps>>
  BY DEF CreateUploaded, Upload, MediaKinds
<1>2. u \in On(m)
  BY DEF On
<1>3. /\ \A v \in Uploaders : v # u => call'[v] = call[v]
      /\ \A x \in Media : x # m => On(x)' = On(x) /\ u \notin On(x)
      /\ On(m)' \subseteq On(m)
      /\ u \in On(m)' => call'[u].op = "video" /\ call'[u].pc = "thumbnail"
  BY <1>1, <1>2, Ended, WentOn
<1>4. InUse(n)' = InUse(n)
  BY <1>1, UseStays
<1>5. /\ media'[m].status = "uploaded" /\ media'[m].key
      /\ call[u].op = "image" => media'[m].thumb
      /\ \A x \in Media : x # m => media'[x] = media[x]
  BY <1>1, <1>2 DEF MediaInv, MediaTypeOK
<1>6. CASE n # m
  BY <1>1, <1>2, <1>3, <1>4, <1>5, <1>6, Others
<1>7. CASE n = m
  <2>1. Good(m) /\ media[m].status = "none" /\ On(m) = {u} /\ ~media[m].thumb
    BY <1>1, <1>2 DEF MediaInv, Good, NewIsAlone
  <2>2. \A v \in On(m)' : /\ v = u /\ call'[v].op = "video" /\ call'[v].pc = "thumbnail"
                          /\ ~Upload(v)' /\ ~Using(v)' /\ ~At(v, "complete", "uploaded")'
    BY <1>3, <2>1 DEF Upload, Using, Uses, At
  <2>3. NewIsAlone(m)'
    BY <1>5, <2>2 DEF NewIsAlone
  <2>4. File(m) \in objects'
    BY <1>1, <1>2, <2>1 DEF Good, Stored
  <2>5. Keyed(m)' /\ Stored(m)'
    BY <1>5, <2>4 DEF Keyed, Stored
  <2>6. Kept(m)'
    BY <1>4, <1>7, <2>1, <2>2 DEF Kept, Good, NewIsAlone
  <2>7. Named(m)'
    <3>1. ~useS3 /\ Spared(m, {"filmed", "unsaved"}) /\ Thumb(m) \in objects => At(u, "image", "row")
      BY <1>1, <2>1 DEF Good, Named, At
    <3>2. Spared(m, {"filmed", "unsaved"})' = Spared(m, {"filmed", "unsaved"})
      BY <1>1 DEF Spared
    <3>3. QED
      BY <1>1, <1>5, <2>2, <3>1, <3>2 DEF Named, At
  <2>8. QED
    BY <1>7, <2>3, <2>5, <2>6, <2>7 DEF Good
<1>8. QED
  BY <1>6, <1>7

LEMMA VideoIsGood ==
  ASSUME MediaInv, NEW u \in Uploaders, NEW m \in Media, call[u].media = m,
         ReadVideo(u) \/ StoreThumbnail(u) \/ SaveThumbnail(u), NEW n \in Media
  PROVE  Good(n)'
<1>1. /\ call[u].op = "video" /\ call[u].op # "none" /\ ~Upload(u) /\ ~Erasing(u) /\ ~Using(u)
      /\ UNCHANGED <<useS3, urls, attached, story, calls, mishaps>>
  BY DEF ReadVideo, StoreThumbnail, SaveThumbnail, At, Upload, Erasing, Using, Uses
<1>2. Finish(u) \/ Proceed(u, "store") \/ Proceed(u, "save")
  BY DEF ReadVideo, StoreThumbnail, SaveThumbnail
<1>3. /\ u \in On(m)
      /\ \A v \in Uploaders : v # u => call'[v] = call[v]
      /\ \A x \in Media : x # m => On(x)' = On(x) /\ u \notin On(x)
      /\ On(m)' \subseteq On(m) /\ On(m) \subseteq On(m)' \cup {u}
      /\ u \in On(m)' => call'[u].op = "video" /\ call'[u].pc \in {"store", "save"}
  BY <1>1, <1>2, Ended, WentOn
<1>4. InUse(n)' = InUse(n)
  BY <1>1, UseStays
<1>5. /\ \A x \in Media : x # m => media'[x] = media[x]
      /\ media'[m].status = media[m].status /\ media'[m].key = media[m].key
      /\ \/ media'[m].thumb = media[m].thumb /\ objects' = objects /\ call[u].pc = "thumbnail"
         \/ media'[m].thumb = media[m].thumb /\ objects' = objects \cup {Thumb(m)}
              /\ Proceed(u, "save")
         \/ media'[m].thumb = TRUE /\ objects' = objects
  <2>1. media[m] \in MediaRow
    BY <1>3, MediaRowTypes DEF MediaInv
  <2>2. QED
    BY <1>3, <2>1 DEF ReadVideo, StoreThumbnail, SaveThumbnail, At, MediaInv, MediaTypeOK, MediaRow
<1>6. /\ File(n) \in objects' <=> File(n) \in objects
      /\ n # m => (Thumb(n) \in objects' <=> Thumb(n) \in objects)
  BY <1>3, <1>5, FileNames
<1>7. CASE n # m
  BY <1>1, <1>3, <1>4, <1>5, <1>6, <1>7, Others
<1>8. CASE n = m
  <2>1. Good(m) /\ media[m].status # "none" /\ \A v \in On(m) : ~Upload(v)
    BY <1>1, <1>3, Beside DEF MediaInv
  <2>2. \A v \in On(m)' : v # u =>
          /\ v \in On(m) /\ call'[v] = call[v]
          /\ Upload(v)' = Upload(v) /\ Erasing(v)' = Erasing(v) /\ Using(v)' = Using(v)
          /\ At(v, "complete", "uploaded")' = At(v, "complete", "uploaded")
          /\ At(v, "image", "row")' = At(v, "image", "row")
          /\ At(v, "video", "save")' = At(v, "video", "save")
    BY <1>3, Beside
  <2>3. u \in On(m)' => /\ ~Upload(u)' /\ ~Erasing(u)' /\ ~Using(u)'
                        /\ ~At(u, "complete", "uploaded")'
    BY <1>3 DEF Upload, Erasing, Using, Uses, At
  <2>4. \A list : Spared(m, list)' = Spared(m, list)
    BY <1>1 DEF Spared
  <2>5. Served(m)' = Served(m) /\ (Deleting(m)' => Deleting(m))
    BY <1>3, <1>5, <2>2 DEF Served, Deleting
  <2>6. NewIsAlone(m)'
    BY <1>3, <1>5, <2>1, <2>2, <2>3 DEF NewIsAlone
  <2>7. Keyed(m)'
    BY <1>5, <2>1, <2>4, <2>5 DEF Keyed, Good
  <2>8. Stored(m)'
    <3>1. Stored(m)
      BY <2>1 DEF Good
    <3>2. (\A v \in On(m)' : ~Erasing(v)') => \A v \in On(m) : ~Erasing(v)
      BY <1>1, <1>3, <2>2
    <3>3. \A v \in On(m)' : Upload(v)' \/ At(v, "complete", "uploaded")' => File(m) \in objects'
      BY <1>6, <1>8, <2>2, <2>3, <3>1 DEF Stored
    <3>4. QED
      BY <1>1, <1>6, <1>8, <2>4, <2>5, <3>1, <3>2, <3>3 DEF Stored
  <2>9. Kept(m)'
    <3>1. (\E v \in On(m)' : Using(v)') => \E v \in On(m) : Using(v)
      BY <2>2, <2>3
    <3>2. QED
      BY <1>4, <1>5, <1>6, <1>8, <2>1, <2>4, <2>5, <3>1 DEF Kept, Good
  <2>10. Named(m)'
    <3>1. SUFFICES ASSUME ~useS3, Spared(m, {"filmed", "unsaved"})
                   PROVE  Named(m)'
      BY <1>1, <2>4 DEF Named
    <3>2. /\ File(m) \in objects => media[m].key
          /\ Thumb(m) \in objects =>
               media[m].thumb \/ \E v \in On(m) : At(v, "image", "row") \/ At(v, "video", "save")
          /\ \A v \in On(m) : call[v].op # "delete"
      BY <1>1, <1>3, <2>1, <3>1 DEF Good, Named
    <3>3. \A v \in On(m)' : call'[v].op # "delete"
      BY <1>3, <2>2, <3>2
    <3>4. Thumb(m) \in objects' =>
            media'[m].thumb \/ \E v \in On(m)' : At(v, "image", "row")' \/ At(v, "video", "save")'
      <4>1. CASE media'[m].thumb = media[m].thumb /\ objects' = objects /\ call[u].pc = "thumbnail"
        <5>1. ~At(u, "image", "row") /\ ~At(u, "video", "save")
          BY <4>1 DEF At
        <5>2. QED
          BY <1>3, <2>2, <3>2, <4>1, <5>1
      <4>2. CASE Proceed(u, "save")
        <5>1. u \in On(m)' /\ At(u, "video", "save")'
          BY <1>1, <1>3, <4>2, WentOn DEF At
        <5>2. QED
          BY <5>1
      <4>3. QED
        BY <1>5, <4>1, <4>2
    <3>5. QED
      BY <1>5, <1>6, <1>8, <3>2, <3>3, <3>4 DEF Named
  <2>11. QED
    BY <1>8, <2>6, <2>7, <2>8, <2>9, <2>10 DEF Good
<1>9. QED
  BY <1>7, <1>8

LEMMA CompleteIsGood ==
  ASSUME MediaInv, NEW u \in Uploaders, NEW m \in Media, call[u].media = m,
         HeadObject(u) \/ SaveComplete(u), NEW n \in Media
  PROVE  Good(n)'
<1>1. /\ call[u].op = "complete" /\ call[u].op # "none" /\ ~Upload(u) /\ ~Using(u) /\ useS3
      /\ UNCHANGED <<useS3, objects, urls, attached, story, calls>>
  BY DEF HeadObject, SaveComplete, At, Upload, Using, Uses, MediaKinds, MediaInv, FlowRight, Flow
<1>2. \/ /\ Finish(u) /\ call[u].pc \in {"uploaded", "failed"}
         /\ media' = [media EXCEPT ![m].status = call[u].pc]
         /\ mishaps' = IF call[u].pc = "uploaded" /\ ~media[m].key
                       THEN mishaps \cup {<<m, "revived">>} ELSE mishaps
      \/ Proceed(u, "uploaded") /\ File(m) \in objects /\ media' = media /\ mishaps' = mishaps
      \/ Proceed(u, "failed") /\ media' = media /\ mishaps' = mishaps
  BY DEF HeadObject, SaveComplete
<1>3. /\ u \in On(m)
      /\ \A v \in Uploaders : v # u => call'[v] = call[v]
      /\ \A x \in Media : x # m => On(x)' = On(x) /\ u \notin On(x)
      /\ On(m)' \subseteq On(m)
      /\ u \in On(m)' => /\ call'[u].op = "complete"
                         /\ call'[u].pc = "uploaded" => File(m) \in objects
  <2>1. CASE Finish(u)
    BY <1>1, <2>1, Ended
  <2>2. CASE Proceed(u, "uploaded") /\ File(m) \in objects
    BY <1>1, <2>2, WentOn
  <2>3. CASE Proceed(u, "failed")
    BY <1>1, <2>3, WentOn
  <2>4. QED
    BY <1>2, <2>1, <2>2, <2>3
<1>4. InUse(n)' = InUse(n)
  BY <1>1, UseStays
<1>5. /\ \A x \in Media : x # m => media'[x] = media[x]
      /\ media'[m].key = media[m].key /\ media'[m].thumb = media[m].thumb
      /\ \/ media'[m].status = media[m].status
         \/ /\ call[u].pc \in {"uploaded", "failed"}
            /\ media'[m].status = call[u].pc
            /\ call[u].pc = "uploaded" /\ ~media[m].key => <<m, "revived">> \in mishaps'
      /\ mishaps \subseteq mishaps'
      /\ n # m => \A x : <<n, x>> \in mishaps' <=> <<n, x>> \in mishaps
  <2>1. media[m] \in MediaRow
    BY MediaRowTypes DEF MediaInv
  <2>2. QED
    BY <1>2, <2>1 DEF MediaInv, MediaTypeOK, MediaRow
<1>6. CASE n # m
  BY <1>1, <1>3, <1>4, <1>5, <1>6, Others
<1>7. CASE n = m
  <2>1. Good(m) /\ media[m].status # "none" /\ \A v \in On(m) : ~Upload(v)
    BY <1>1, <1>3, Beside DEF MediaInv
  <2>2. \A v \in On(m)' : v # u =>
          /\ v \in On(m) /\ call'[v] = call[v]
          /\ Upload(v)' = Upload(v) /\ Erasing(v)' = Erasing(v) /\ Using(v)' = Using(v)
          /\ At(v, "complete", "uploaded")' = At(v, "complete", "uploaded")
    BY <1>3, Beside
  <2>3. u \in On(m)' => /\ ~Upload(u)' /\ ~Using(u)'
                        /\ At(u, "complete", "uploaded")' => File(m) \in objects
    BY <1>3 DEF Upload, Using, Uses, MediaKinds, At
  <2>4. \A list : Spared(m, list)' => Spared(m, list)
    BY <1>5, StillSpared
  <2>5. NewIsAlone(m)'
    BY <1>3, <1>5, <2>1, <2>2, <2>3 DEF NewIsAlone
  <2>6. Keyed(m)'
    BY <1>5, <2>1, <2>4 DEF Keyed, Good, Served, Spared
  <2>7. Stored(m)'
    <3>1. Stored(m)
      BY <2>1 DEF Good
    <3>2. Served(m)' => File(m) \in objects
      BY <1>1, <1>3, <1>5, <3>1 DEF Stored, Served, At
    <3>3. \A v \in On(m)' : Upload(v)' \/ At(v, "complete", "uploaded")' => File(m) \in objects'
      BY <1>1, <2>2, <2>3, <3>1 DEF Stored
    <3>4. QED
      BY <1>1, <3>2, <3>3 DEF Stored
  <2>8. Kept(m)'
    <3>1. (\E v \in On(m)' : Using(v)') => \E v \in On(m) : Using(v)
      BY <2>2, <2>3
    <3>2. Deleting(m)' => Deleting(m)
      BY <1>3, <2>2 DEF Deleting
    <3>3. QED
      BY <1>1, <1>4, <1>5, <1>7, <2>1, <2>4, <3>1, <3>2 DEF Kept, Good
  <2>9. Named(m)'
    BY <1>1 DEF Named
  <2>10. QED
    BY <1>7, <2>5, <2>6, <2>7, <2>8, <2>9 DEF Good
<1>8. QED
  BY <1>6, <1>7

\* A deletion takes away the files that the row it read names.
LEMMA ErasedIsGood ==
  ASSUME MediaInv, NEW u \in Uploaders, NEW m \in Media, call[u].media = m,
         DeleteFile(u) \/ DeleteThumbnail(u), NEW n \in Media
  PROVE  Good(n)'
<1>1. /\ call[u].op = "delete" /\ call[u].op # "none" /\ ~Upload(u) /\ ~Using(u)
      /\ UNCHANGED <<useS3, media, urls, attached, story, calls, mishaps>>
  BY DEF DeleteFile, DeleteThumbnail, At, Upload, Using, Uses, MediaKinds
<1>2. \/ /\ call[u].pc = "files" /\ Proceed(u, "thumbs")
         /\ objects' = IF useS3 THEN objects
                       ELSE objects \ ({File(m)} \cap FilesOf(m, call[u].seen))
      \/ /\ call[u].pc = "thumbs" /\ Proceed(u, "row")
         /\ objects' = IF useS3 THEN objects
                       ELSE objects \ ({Thumb(m)} \cap FilesOf(m, call[u].seen))
  BY DEF DeleteFile, DeleteThumbnail, At
<1>3. /\ u \in On(m)
      /\ call'[u].op = "delete" /\ call'[u].pc \in {"thumbs", "row"}
      /\ call'[u].seen = call[u].seen
      /\ \A v \in Uploaders : v # u => call'[v] = call[v]
      /\ \A x \in Media : On(x)' = On(x)
      /\ \A x \in Media : x # m => u \notin On(x)
  BY <1>1, <1>2, WentOn
<1>4. InUse(n)' = InUse(n)
  BY <1>1, UseStays
<1>5. CASE n # m
  <2>1. /\ File(n) \in objects' <=> File(n) \in objects
        /\ Thumb(n) \in objects' <=> Thumb(n) \in objects
    BY <1>2, <1>5, FileNames
  <2>2. QED
    BY <1>1, <1>3, <1>4, <1>5, <2>1, Others
<1>6. CASE n = m
  <2>1. Good(m) /\ media[m].status # "none" /\ \A v \in On(m) : ~Upload(v)
    BY <1>1, <1>3, Beside DEF MediaInv
  <2>2. \A v \in On(m)' : v # u =>
          /\ v \in On(m) /\ call'[v] = call[v]
          /\ Upload(v)' = Upload(v) /\ Erasing(v)' = Erasing(v) /\ Using(v)' = Using(v)
          /\ At(v, "complete", "uploaded")' = At(v, "complete", "uploaded")
          /\ At(v, "image", "row")' = At(v, "image", "row")
          /\ At(v, "video", "save")' = At(v, "video", "save")
    BY <1>3, Beside
  <2>3. /\ ~Upload(u)' /\ Erasing(u)' /\ ~Using(u)' /\ ~At(u, "complete", "uploaded")'
        /\ ~At(u, "image", "row") /\ ~At(u, "video", "save")
    BY <1>1, <1>3 DEF Upload, Erasing, Using, Uses, MediaKinds, At
  <2>4. \A list : Spared(m, list)' = Spared(m, list)
    BY <1>1 DEF Spared
  <2>5. NewIsAlone(m)'
    BY <1>1, <1>3, <2>1, <2>2, <2>3 DEF NewIsAlone
  <2>6. Keyed(m)'
    BY <1>1, <2>1, <2>4 DEF Keyed, Good, Served
  <2>7. Stored(m)'
    <3>1. Stored(m)
      BY <2>1 DEF Good
    <3>2. CASE useS3
      BY <1>1, <1>2, <1>3, <2>2, <2>3, <3>1, <3>2 DEF Stored, Served
    <3>3. CASE ~useS3
      <4>1. \A v \in On(m)' : ~Upload(v)' /\ ~At(v, "complete", "uploaded")'
        <5>1. \A v \in On(m) : call[v].op # "complete"
          BY <3>3 DEF On, MediaInv, FlowRight, Flow
        <5>2. QED
          BY <2>1, <2>2, <2>3, <5>1 DEF At
      <4>2. u \in On(m)' /\ Erasing(u)'
        BY <1>3, <2>3
      <4>3. QED
        BY <1>1, <3>3, <4>1, <4>2 DEF Stored
    <3>4. QED
      BY <3>2, <3>3
  <2>8. Kept(m)'
    <3>1. (\E v \in On(m)' : Using(v)') => \E v \in On(m) : Using(v)
      BY <2>2, <2>3
    <3>2. Deleting(m)
      BY <1>1, <1>3 DEF Deleting
    <3>3. QED
      BY <1>4, <1>6, <2>1, <2>4, <3>1, <3>2 DEF Kept, Good
  <2>9. Named(m)'
    <3>1. SUFFICES ASSUME ~useS3, Spared(m, {"filmed", "unsaved"})
                   PROVE  Named(m)'
      BY <1>1, <2>4 DEF Named
    <3>2. /\ Thumb(m) \in objects =>
               media[m].thumb \/ \E v \in On(m) : At(v, "image", "row") \/ At(v, "video", "save")
          /\ \A v \in On(m) : call[v].op = "delete" =>
               /\ \A w \in On(m) : call[w].op # "video"
               /\ File(m) \in objects => call[v].pc = "files" /\ call[v].seen.key
               /\ Thumb(m) \in objects => call[v].pc \in {"files", "thumbs"} /\ call[v].seen.thumb
      BY <2>1, <3>1 DEF Good, Named
    <3>3. /\ File(m) # Thumb(m)
          /\ File(m) \in FilesOf(m, call[u].seen) <=> call[u].seen.key
          /\ Thumb(m) \in FilesOf(m, call[u].seen) <=> call[u].seen.thumb
      BY FileNames, FilesOfRow
    <3>4. File(m) \notin objects'
      BY <1>1, <1>2, <1>3, <3>1, <3>2, <3>3
    <3>5. Thumb(m) \in objects' => Thumb(m) \in objects /\ call[u].pc = "files"
      BY <1>1, <1>2, <1>3, <3>1, <3>2, <3>3
    <3>6. call[u].pc = "files" => call'[u].pc = "thumbs"
      BY <1>1, <1>2, WentOn
    <3>7. Thumb(m) \in objects' =>
            media'[m].thumb \/ \E v \in On(m)' : At(v, "image", "row")' \/ At(v, "video", "save")'
      BY <1>1, <1>3, <2>2, <2>3, <3>2, <3>5
    <3>8. ASSUME NEW v \in On(m)', call'[v].op = "delete"
          PROVE  /\ \A w \in On(m)' : call'[w].op # "video"
                 /\ Thumb(m) \in objects' =>
                      call'[v].pc \in {"files", "thumbs"} /\ call'[v].seen.thumb
      <4>1. \A w \in On(m)' : call'[w].op # "video"
        BY <1>1, <1>3, <2>2, <3>2
      <4>2. CASE v = u
        BY <1>1, <1>3, <3>2, <3>5, <3>6, <4>1, <4>2
      <4>3. CASE v # u
        BY <2>2, <3>2, <3>5, <3>8, <4>1, <4>3
      <4>4. QED
        BY <4>2, <4>3
    <3>9. QED
      BY <3>4, <3>7, <3>8 DEF Named
  <2>10. QED
    BY <1>6, <2>5, <2>6, <2>7, <2>8, <2>9 DEF Good
<1>7. QED
  BY <1>5, <1>6

LEMMA DeletedIsGood ==
  ASSUME MediaInv, NEW u \in Uploaders, NEW m \in Media, call[u].media = m,
         SaveDeleted(u), NEW n \in Media
  PROVE  Good(n)'
<1>1. /\ call[u].op = "delete" /\ call[u].op # "none" /\ call[u].pc = "row" /\ ~Upload(u)
      /\ UNCHANGED <<useS3, objects, urls, attached, story, calls, mishaps>>
      /\ Finish(u)
  BY DEF SaveDeleted, At, Upload, MediaKinds
<1>2. /\ u \in On(m)
      /\ \A v \in Uploaders : v # u => call'[v] = call[v]
      /\ On(m)' = On(m) \ {u}
      /\ \A x \in Media : x # m => On(x)' = On(x) /\ u \notin On(x)
  BY <1>1, Ended
<1>3. InUse(n)' = InUse(n)
  BY <1>1, UseStays
<1>4. /\ media'[m].status = "failed" /\ ~media'[m].key /\ ~media'[m].thumb
      /\ \A x \in Media : x # m => media'[x] = media[x]
  BY DEF MediaInv, MediaTypeOK, SaveDeleted
<1>5. CASE n # m
  BY <1>1, <1>2, <1>3, <1>4, <1>5, Others
<1>6. CASE n = m
  <2>1. Good(m) /\ \A v \in On(m) : ~Upload(v)
    BY <1>1, <1>2, Beside DEF MediaInv
  <2>2. \A v \in On(m)' :
          /\ v \in On(m) /\ call'[v] = call[v]
          /\ Upload(v)' = Upload(v) /\ Using(v)' = Using(v)
          /\ At(v, "complete", "uploaded")' = At(v, "complete", "uploaded")
    BY <1>2, Beside
  <2>3. \A list : Spared(m, list)' = Spared(m, list)
    BY <1>1 DEF Spared
  <2>4. NewIsAlone(m)'
    BY <1>4, <2>1, <2>2 DEF NewIsAlone
  <2>5. Keyed(m)'
    BY <1>4 DEF Keyed, Served
  <2>6. Stored(m)'
    BY <1>1, <1>4, <2>1, <2>2 DEF Stored, Served, Good
  <2>7. Kept(m)'
    <3>1. (\E v \in On(m)' : Using(v)') => \E v \in On(m) : Using(v)
      BY <2>2
    <3>2. Deleting(m)
      BY <1>1, <1>2 DEF Deleting
    <3>3. QED
      BY <1>3, <1>6, <2>1, <2>3, <3>1, <3>2 DEF Kept, Good
  <2>8. Named(m)'
    <3>1. ~useS3 /\ Spared(m, {"filmed", "unsaved"}) =>
            /\ File(m) \notin objects /\ Thumb(m) \notin objects
            /\ \A w \in On(m) : call[w].op # "video"
      BY <1>1, <1>2, <2>1 DEF Good, Named
    <3>2. QED
      BY <1>1, <2>2, <2>3, <3>1 DEF Named
  <2>9. QED
    BY <1>6, <2>4, <2>5, <2>6, <2>7, <2>8 DEF Good
<1>7. QED
  BY <1>5, <1>6

\* What is attached or shown is kept from then on.
LEMMA UsedIsGood ==
  ASSUME MediaInv, NEW u \in Uploaders, NEW m \in Media, call[u].media = m,
         Attach(u) \/ \E s \in Stories : CreateStory(u, s), NEW n \in Media
  PROVE  Good(n)'
<1>1. /\ call[u].op \in Uses /\ call[u].op # "none"
      /\ ~Upload(u) /\ ~Erasing(u) /\ Using(u)
      /\ ~At(u, "image", "row") /\ ~At(u, "video", "save")
      /\ UNCHANGED <<useS3, media, objects, urls, calls, mishaps>>
      /\ Finish(u)
  BY DEF Attach, CreateStory, At, Upload, Erasing, Using, MediaKinds, Uses
<1>2. /\ u \in On(m)
      /\ \A v \in Uploaders : v # u => call'[v] = call[v]
      /\ On(m)' = On(m) \ {u}
      /\ \A x \in Media : x # m => On(x)' = On(x) /\ u \notin On(x)
  BY <1>1, Ended
<1>3. n # m => (InUse(n)' => InUse(n))
  <2>1. CASE Attach(u)
    BY <2>1 DEF Attach, InUse
  <2>2. ASSUME NEW s \in Stories, CreateStory(u, s)
        PROVE  n # m => (InUse(n)' => InUse(n))
    <3>1. /\ attached' = attached
          /\ story'[s].media = m
          /\ \A x \in Stories : x # s => story'[x] = story[x]
      BY <2>2 DEF CreateStory, MediaInv, MediaTypeOK
    <3>2. QED
      BY <3>1 DEF InUse
  <2>3. QED
    BY <2>1, <2>2
<1>4. CASE n # m
  BY <1>1, <1>2, <1>3, <1>4, Others
<1>5. CASE n = m
  <2>1. Good(m) /\ media[m].status # "none" /\ \A v \in On(m) : ~Upload(v)
    BY <1>1, <1>2, Beside DEF MediaInv
  <2>2. /\ \A v \in On(m)' :
             /\ v \in On(m) /\ call'[v] = call[v]
             /\ Upload(v)' = Upload(v) /\ Erasing(v)' = Erasing(v) /\ Using(v)' = Using(v)
             /\ At(v, "complete", "uploaded")' = At(v, "complete", "uploaded")
             /\ At(v, "image", "row")' = At(v, "image", "row")
             /\ At(v, "video", "save")' = At(v, "video", "save")
        /\ \A v \in On(m) : v # u => v \in On(m)'
    BY <1>2, Beside
  <2>3. \A list : Spared(m, list)' = Spared(m, list)
    BY <1>1 DEF Spared
  <2>4. NewIsAlone(m)'
    BY <1>1, <2>1, <2>2 DEF NewIsAlone
  <2>5. Keyed(m)'
    BY <1>1, <2>1, <2>3 DEF Keyed, Served, Good
  <2>6. Stored(m)'
    <3>1. (\A v \in On(m)' : ~Erasing(v)') => \A v \in On(m) : ~Erasing(v)
      BY <1>1, <2>2
    <3>2. QED
      BY <1>1, <2>1, <2>2, <2>3, <3>1 DEF Stored, Served, Good
  <2>7. Kept(m)'
    <3>1. Spared(m, {"used", "revived", "halfDeleted"}) =>
            ~Deleting(m) /\ media[m].key /\ File(m) \in objects
      BY <1>1, <1>2, <2>1 DEF Kept, Good
    <3>2. Deleting(m)' => Deleting(m)
      BY <2>2 DEF Deleting
    <3>3. QED
      BY <1>1, <2>3, <3>1, <3>2 DEF Kept
  <2>8. Named(m)'
    <3>1. SUFFICES ASSUME ~useS3, Spared(m, {"filmed", "unsaved"})
                   PROVE  Named(m)'
      BY <1>1, <2>3 DEF Named
    <3>2. Named(m) /\ \A v \in On(m) : ~Upload(v)
      BY <2>1 DEF Good
    <3>3. /\ File(m) \in objects' => media'[m].key
          /\ Thumb(m) \in objects' => media'[m].thumb
               \/ \E v \in On(m)' : At(v, "image", "row")' \/ At(v, "video", "save")'
      BY <1>1, <2>2, <3>1, <3>2 DEF Named
    <3>4. QED
      BY <1>1, <2>2, <3>1, <3>2, <3>3 DEF Named
  <2>9. QED
    BY <1>5, <2>4, <2>5, <2>6, <2>7, <2>8 DEF Good
<1>6. QED
  BY <1>4, <1>5

\* A request that fails: an upload that had stored what no row names, and
\* a deletion that had deleted the file, are mishaps, and the others are as if
\* they had not begun.
LEMMA FailureIsGood ==
  ASSUME MediaInv, NEW u \in Uploaders, NEW m \in Media, call[u].media = m,
         Fails(u), NEW n \in Media
  PROVE  Good(n)'
<1>1. /\ Finish(u)
      /\ UNCHANGED <<useS3, media, objects, urls, attached, story, calls>>
  BY DEF Fails
<1>2. call[u].op # "none"
  <2>1. call[u] \in Call
    BY CallTypes DEF Fails, MediaInv
  <2>2. QED
    BY <2>1 DEF Call, MediaKinds, Uses
<1>3. /\ u \in On(m)
      /\ \A v \in Uploaders : v # u => call'[v] = call[v]
      /\ On(m)' = On(m) \ {u}
      /\ \A x \in Media : x # m => On(x)' = On(x) /\ u \notin On(x)
  BY <1>1, <1>2, Ended
<1>4. InUse(n)' = InUse(n)
  BY <1>1, UseStays
<1>5. /\ mishaps \subseteq mishaps'
      /\ n # m => \A x : <<n, x>> \in mishaps' <=> <<n, x>> \in mishaps
      /\ call[u].op \in MediaKinds /\ call[u].pc \in {"picture", "row", "save"} =>
           <<m, "unsaved">> \in mishaps'
      /\ call[u].op = "delete" /\ call[u].pc # "files" /\ ~useS3 =>
           <<m, "halfDeleted">> \in mishaps'
  BY FailsEffect DEF MediaInv
<1>6. CASE n # m
  BY <1>1, <1>3, <1>4, <1>5, <1>6, Others
<1>7. CASE n = m
  <2>1. Good(m)
    BY DEF MediaInv
  <2>2. /\ \A v \in On(m)' :
             /\ v \in On(m) /\ call'[v] = call[v]
             /\ Upload(v)' = Upload(v) /\ Erasing(v)' = Erasing(v) /\ Using(v)' = Using(v)
             /\ At(v, "complete", "uploaded")' = At(v, "complete", "uploaded")
             /\ At(v, "image", "row")' = At(v, "image", "row")
             /\ At(v, "video", "save")' = At(v, "video", "save")
        /\ \A v \in On(m) : v # u => v \in On(m)'
    BY <1>3, Beside
  <2>3. \A list : Spared(m, list)' => Spared(m, list)
    BY <1>5, StillSpared
  <2>4. NewIsAlone(m)'
    BY <1>1, <1>3, <1>4, <1>7, <2>1, <2>2 DEF NewIsAlone, Good
  <2>5. Keyed(m)'
    BY <1>1, <2>1, <2>3 DEF Keyed, Served, Good
  <2>6. Stored(m)'
    <3>1. ~useS3 /\ Spared(m, {"halfDeleted"})' => ~Erasing(u)
      BY <1>5 DEF Spared, Erasing
    <3>2. ~useS3 /\ Spared(m, {"halfDeleted"})' /\ (\A v \in On(m)' : ~Erasing(v)') =>
            \A v \in On(m) : ~Erasing(v)
      BY <2>2, <3>1
    <3>3. QED
      BY <1>1, <2>1, <2>2, <2>3, <3>2 DEF Stored, Served, Good
  <2>7. Kept(m)'
    <3>1. (\E v \in On(m)' : Using(v)') => \E v \in On(m) : Using(v)
      BY <2>2
    <3>2. Deleting(m)' => Deleting(m)
      BY <2>2 DEF Deleting
    <3>3. QED
      BY <1>1, <1>4, <1>7, <2>1, <2>3, <3>1, <3>2 DEF Kept, Good
  <2>8. Named(m)'
    <3>1. SUFFICES ASSUME ~useS3, Spared(m, {"filmed", "unsaved"})'
                   PROVE  Named(m)'
      BY <1>1 DEF Named
    <3>2. Spared(m, {"filmed", "unsaved"}) /\ <<m, "unsaved">> \notin mishaps'
      BY <2>3, <3>1 DEF Spared
    <3>3. ~Upload(u) /\ ~At(u, "image", "row") /\ ~At(u, "video", "save")
      BY <1>5, <3>2 DEF Upload, At, MediaKinds
    <3>4. Named(m)
      BY <2>1 DEF Good
    <3>5. /\ File(m) \in objects' => media'[m].key \/ \E v \in On(m)' : Upload(v)'
          /\ Thumb(m) \in objects' => media'[m].thumb
               \/ \E v \in On(m)' : At(v, "image", "row")' \/ At(v, "video", "save")'
      BY <1>1, <2>2, <3>1, <3>2, <3>3, <3>4 DEF Named
    <3>6. QED
      BY <1>1, <2>2, <3>1, <3>2, <3>4, <3>5 DEF Named
  <2>9. QED
    BY <1>7, <2>4, <2>5, <2>6, <2>7, <2>8 DEF Good
<1>8. QED
  BY <1>6, <1>7

\* A URL belongs to media whose row is there; nothing is uploaded to the disk
\* in a deployment with a bucket.
LEMMA UrlIsGood ==
  ASSUME MediaInv, NEW m \in Media, Presign(m) \/ PutObject(m) \/ UrlExpires(m), NEW n \in Media
  PROVE  Good(n)'
<1>1. /\ UNCHANGED <<useS3, attached, story, call, mishaps>>
      /\ On(n)' = On(n)
  BY DEF Presign, PutObject, UrlExpires, On
<1>2. InUse(n)' = InUse(n)
  BY <1>1, UseStays
<1>3. useS3 \/ UrlExpires(m)
  BY DEF Presign, PutObject, MediaInv, FlowRight
<1>4. CASE n # m \/ UrlExpires(m)
  <2>1. /\ File(n) \in objects' <=> File(n) \in objects
        /\ Thumb(n) \in objects' <=> Thumb(n) \in objects
    BY <1>4, FileNames DEF Presign, PutObject, UrlExpires
  <2>2. media'[n] = media[n]
    BY <1>4 DEF Presign, PutObject, UrlExpires, MediaInv, MediaTypeOK
  <2>3. QED
    BY <1>1, <1>2, <2>1, <2>2, Elsewhere DEF MediaInv
<1>5. CASE n = m /\ useS3
  <2>1. Good(m)
    BY DEF MediaInv
  <2>2. \A v \in On(m) : ~Upload(v)
    BY <1>5 DEF Upload, MediaInv, FlowRight, Flow, On
  <2>3. Named(m)'
    BY <1>1, <1>5 DEF Named
  <2>4. CASE Presign(m)
    <3>1. On(m) = {} /\ ~InUse(m)
      BY <2>1, <2>2, <2>4 DEF Good, NewIsAlone, Presign
    <3>2. media'[m].status = "pending" /\ On(m)' = {} /\ ~InUse(m)'
      BY <1>1, <1>2, <1>5, <2>4, <3>1 DEF Presign, MediaInv, MediaTypeOK
    <3>3. NewIsAlone(m)' /\ Keyed(m)' /\ Stored(m)' /\ Kept(m)'
      BY <3>2 DEF NewIsAlone, Keyed, Stored, Kept, Served
    <3>4. QED
      BY <1>5, <2>3, <3>3 DEF Good
  <2>5. CASE PutObject(m)
    <3>1. media' = media /\ File(m) \in objects'
      BY <2>5 DEF PutObject
    <3>2. /\ \A v \in On(m) : Upload(v)' = Upload(v) /\ Using(v)' = Using(v)
          /\ \A list : Spared(m, list)' = Spared(m, list)
          /\ Served(m)' = Served(m) /\ Deleting(m)' = Deleting(m)
      BY <1>1, <1>5, <3>1 DEF Upload, Using, Spared, Served, Deleting
    <3>3. NewIsAlone(m)'
      BY <1>1, <1>2, <1>5, <2>1, <3>1, <3>2 DEF NewIsAlone, Good
    <3>4. Keyed(m)' /\ Stored(m)'
      BY <2>1, <3>1, <3>2 DEF Keyed, Stored, Good
    <3>5. Kept(m)'
      BY <1>1, <1>2, <1>5, <2>1, <3>1, <3>2 DEF Kept, Good
    <3>6. QED
      BY <1>5, <2>3, <3>3, <3>4, <3>5 DEF Good
  <2>6. QED
    BY <1>4, <1>5, <2>4, <2>5
<1>6. QED
  BY <1>3, <1>4, <1>5

\* A story that ends uses its media no more.
LEMMA StoryEndIsGood ==
  ASSUME MediaInv, NEW n \in Media,
         \/ \E s \in Stories : DeleteStory(s) \/ StoryExpires(s)
         \/ DeleteExpiredStories
         \/ UNCHANGED mediaVars
  PROVE  Good(n)'
<1>1. /\ UNCHANGED <<useS3, media, objects, attached, call, mishaps>>
      /\ On(n)' = On(n)
  BY DEF DeleteStory, StoryExpires, DeleteExpiredStories, mediaVars, On
<1>2. \A s \in Stories : story'[s].media = story[s].media /\ (story'[s].active => story[s].active)
  <2>1. \A s \in Stories : story[s] \in Story
    BY DEF MediaInv, MediaTypeOK
  <2>2. ASSUME NEW s \in Stories, DeleteStory(s) \/ StoryExpires(s), NEW x \in Stories
        PROVE  story'[x].media = story[x].media /\ (story'[x].active => story[x].active)
    BY <2>1, <2>2 DEF DeleteStory, StoryExpires, MediaInv, MediaTypeOK, Story
  <2>3. ASSUME DeleteExpiredStories, NEW x \in Stories
        PROVE  story'[x].media = story[x].media /\ (story'[x].active => story[x].active)
    BY <2>1, <2>3 DEF DeleteExpiredStories, Story
  <2>4. QED
    BY <2>2, <2>3 DEF mediaVars
<1>3. InUse(n)' => InUse(n)
  BY <1>1, <1>2 DEF InUse
<1>4. QED
  BY <1>1, <1>3, Elsewhere DEF MediaInv

-----------------------------------------------------------------------------
(* The invariant *)

LEMMA MediaInitHolds == MediaInit => MediaInv
<1> SUFFICES ASSUME MediaInit PROVE MediaInv
  OBVIOUS
<1>1. MediaTypeOK
  BY DEF MediaInit, MediaTypeOK, MediaRow, NoRowYet, Status, Story, NoStory
<1>2. \A u \in Uploaders : call[u] = Free
  BY DEF MediaInit
<1>3. FlowRight
  BY <1>2 DEF FlowRight, Flow, Free, MediaInit, MediaKinds, Uses
<1>4. ASSUME NEW m \in Media
      PROVE  Good(m)
  <2>1. On(m) = {}
    BY <1>2, MediaAssumption DEF On, Free, MediaAssumption
  <2>2. ~InUse(m)
    BY DEF MediaInit, InUse, NoStory
  <2>3. media[m].status = "none" /\ ~media[m].key /\ ~media[m].thumb
    BY DEF MediaInit, NoRowYet
  <2>4. NewIsAlone(m)
    BY <2>1, <2>2, <2>3 DEF NewIsAlone
  <2>5. Keyed(m) /\ Stored(m) /\ Kept(m)
    BY <2>1, <2>2, <2>3 DEF Keyed, Stored, Kept, Served
  <2>6. Named(m)
    BY <2>1 DEF Named, MediaInit
  <2>7. QED
    BY <2>4, <2>5, <2>6 DEF Good
<1>5. QED
  BY <1>1, <1>3, <1>4 DEF MediaInv

LEMMA MediaStepHolds == MediaInv /\ [MediaNext]_mediaVars => MediaInv'
<1> SUFFICES ASSUME MediaInv, [MediaNext]_mediaVars PROVE MediaInv'
  OBVIOUS
<1>1. MediaTypeOK' /\ FlowRight'
  BY MediaStepTypes DEF MediaInv
<1>2. ASSUME NEW n \in Media, NEW u \in Uploaders, MediaStep(u)
      PROVE  Good(n)'
  <2>1. ASSUME call[u].op # "none"
        PROVE  call[u].media \in Media
    BY <2>1, CallTypes DEF MediaInv
  <2>2. "none" \notin MediaKinds
    BY DEF MediaKinds
  <2>3. ASSUME NEW m \in Media, BeginCompleteUpload(u, m)
        PROVE  Good(n)'
    BY <2>3, BegunIsGood DEF BeginCompleteUpload
  <2>4. ASSUME NEW m \in Media, BeginDelete(u, m)
        PROVE  Good(n)'
    BY <2>4, BegunIsGood DEF BeginDelete
  <2>5. ASSUME NEW m \in Media, NEW op \in Uses, BeginUseMedia(u, op, m)
        PROVE  Good(n)'
    BY <2>5, BegunIsGood DEF BeginUseMedia
  <2>6. ASSUME CreateUploaded(u)
        PROVE  Good(n)'
    <3>1. call[u].media \in Media
      BY <2>1, <2>2, <2>6 DEF CreateUploaded
    <3>2. QED
      BY <2>6, <3>1, CreatedIsGood
  <2>7. ASSUME StorePicture(u) \/ ReadVideo(u) \/ StoreThumbnail(u) \/ SaveThumbnail(u)
        PROVE  Good(n)'
    <3>1. call[u].media \in Media
      BY <2>1, <2>7 DEF StorePicture, ReadVideo, StoreThumbnail, SaveThumbnail, At
    <3>2. QED
      BY <2>7, <3>1, PictureIsGood, VideoIsGood
  <2>8. ASSUME HeadObject(u) \/ SaveComplete(u)
        PROVE  Good(n)'
    <3>1. call[u].media \in Media
      BY <2>1, <2>8 DEF HeadObject, SaveComplete, At
    <3>2. QED
      BY <2>8, <3>1, CompleteIsGood
  <2>9. ASSUME DeleteFile(u) \/ DeleteThumbnail(u) \/ SaveDeleted(u)
        PROVE  Good(n)'
    <3>1. call[u].media \in Media
      BY <2>1, <2>9 DEF DeleteFile, DeleteThumbnail, SaveDeleted, At
    <3>2. QED
      BY <2>9, <3>1, ErasedIsGood, DeletedIsGood
  <2>10. ASSUME Attach(u) \/ \E s \in Stories : CreateStory(u, s)
         PROVE  Good(n)'
    <3>1. call[u].media \in Media
      BY <2>1, <2>10 DEF Attach, CreateStory, At
    <3>2. QED
      BY <2>10, <3>1, UsedIsGood
  <2>11. ASSUME Fails(u)
         PROVE  Good(n)'
    <3>1. call[u].media \in Media
      BY <2>11, CallTypes DEF Fails, MediaInv
    <3>2. QED
      BY <2>11, <3>1, FailureIsGood
  <2>12. QED
    BY <1>2, <2>3, <2>4, <2>5, <2>6, <2>7, <2>8, <2>9, <2>10, <2>11, LocalUploadIsGood
       DEF MediaStep
<1>3. ASSUME NEW n \in Media, NEW m \in Media, Presign(m) \/ PutObject(m) \/ UrlExpires(m)
      PROVE  Good(n)'
  BY <1>3, UrlIsGood
<1>4. \A n \in Media : Good(n)'
  BY <1>2, <1>3, StoryEndIsGood DEF MediaNext
<1>5. QED
  BY <1>1, <1>4 DEF MediaInv

\* The tables, the files and the requests keep their types, and every medium
\* its invariant, in every behaviour.
THEOREM MediaInductive == MediaSpec => []MediaInv
BY MediaInitHolds, MediaStepHolds, PTL DEF MediaSpec

\* Every row, file and request keeps its type.
THEOREM MediaTypeCorrect == MediaSpec => []MediaTypeOK
<1>1. MediaInv => MediaTypeOK
  BY DEF MediaInv
<1>2. QED
  BY <1>1, MediaInductive, PTL

\* What a message or an active story shows has its key and its object, unless
\* a deletion was in progress together with the request that used it or failed
\* half-way, or a completion overtook a deletion.
THEOREM InUseKept == MediaSpec => []InUseIsKept
<1>1. MediaInv => InUseIsKept
  BY DEF MediaInv, Good, Kept, InUseIsKept
<1>2. QED
  BY <1>1, MediaInductive, PTL

\* Uploaded media that nobody deletes can be downloaded, whatever met in which
\* order, unless a completion overtook a deletion or a deletion failed half-way.
THEOREM UploadedIsThere == MediaSpec => []UploadedHasObject
<1>1. ASSUME MediaInv, NEW m \in Media, Served(m), ~Deleting(m),
             Spared(m, {"revived", "halfDeleted"})
      PROVE  media[m].key /\ File(m) \in objects
  <2>1. Spared(m, {"revived"}) /\ Spared(m, {"halfDeleted"})
    BY <1>1 DEF Spared
  <2>2. \A u \in On(m) : ~Erasing(u)
    BY <1>1 DEF Deleting, Erasing
  <2>3. QED
    BY <1>1, <2>1, <2>2 DEF MediaInv, Good, Keyed, Stored
<1>2. MediaInv => UploadedHasObject
  BY <1>1 DEF UploadedHasObject
<1>3. QED
  BY <1>2, MediaInductive, PTL

\* Once its requests are done, every file of a medium is named by its row,
\* unless an upload failed between the two or the upload of a video met
\* a deletion.
THEOREM NothingOrphaned == MediaSpec => []NoOrphan
<1>1. ASSUME MediaInv, ~useS3, NEW m \in Media, On(m) = {}, Spared(m, {"filmed", "unsaved"})
      PROVE  \A f \in {File(m), Thumb(m)} \cap objects : f \in FilesOf(m, media[m])
  <2>1. Named(m)
    BY <1>1 DEF MediaInv, Good
  <2>2. QED
    BY <1>1, <2>1, FilesOfRow DEF Named
<1>2. MediaInv => NoOrphan
  BY <1>1 DEF NoOrphan
<1>3. QED
  BY <1>2, MediaInductive, PTL

=============================================================================
