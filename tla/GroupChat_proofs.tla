-------------------------- MODULE GroupChat_proofs --------------------------
(***************************************************************************)
(* Proofs about GroupChat for every set of users and requests, and any     *)
(* number of requests served.                                              *)
(***************************************************************************)
EXTENDS GroupChat, FiniteSetTheorems, TLAPS

-----------------------------------------------------------------------------
(* The inductive invariant. *)

\* A request takes the steps of its operation, and has read what they need.
Flow(r) ==
  /\ op[r] = "none" <=> step[r] = "idle"
  /\ step[r] # "idle" => target[r] \in Users
  /\ op[r] = "add" => step[r] \in {"write", "commit"}
  /\ op[r] = "remove" => step[r] \in {"write", "sync", "count", "save"}
  /\ op[r] = "promote" => step[r] \in {"read", "write", "commit"}
  /\ op[r] = "demote" => step[r] \in {"write", "sync"}
  /\ op[r] = "leave" => step[r] \in {"choose", "writeOwner", "write", "commit"}
  /\ op[r] = "delete" => step[r] \in {"write", "update"}
  /\ op[r] = "toggle" => step[r] \in {"write", "sync"}
  /\ step[r] \in {"idle", "choose", "read"} => seen[r] = "none"
  /\ step[r] = "write" /\ op[r] # "promote" => seen[r] = "none"
  /\ At(r, "leave", "writeOwner") => seen[r] \in (Users \cup {NoUser}) \ {target[r]}
  /\ At(r, "leave", "commit") => seen[r] \in (Users \cup {NoUser, "none"}) \ {target[r]}

\* Nothing happens before the group is created, and a closed one stays closed.
Phases ==
  /\ chat = "none" => /\ Idle /\ active = {} /\ cached = {}
                      /\ \A u \in Users : role[u] = "none"
  /\ \A r \in Requests : At(r, "delete", "update") => chat = "closed"

Busy(r) == step[r] # "idle"

\* Requests in progress together have met, and their race is recorded.
OverlapsSeen ==
  \A r, q \in Requests :
    r # q /\ Busy(r) /\ Busy(q) => /\ op[q] \in met[r]
                                   /\ {op[r], op[q]} \in Races => {op[r], op[q]} \in overlaps

\* A row is locked by one transaction.
LocksApart ==
  \A r, q \in Requests : r # q => LockedBy(r) \cap LockedBy(q) = {}

\* The member that takes over is still one, unless it was taken away.
TakesOver ==
  (chat = "active" /\ Never({{"leave"}, {"leave", "remove"}})) =>
    \A r \in Requests :
      op[r] = "leave" /\ step[r] \in {"writeOwner", "commit"} /\ seen[r] \in Users
        => seen[r] \in active

IsOwner(u) == role[u] = "owner"

\* What a request has found out about the owner is still true.
OwnerInv ==
  Never(OwnerRaces) =>
    /\ chat = "active" => \E u \in active : IsOwner(u)
    /\ \A r \in Requests :
         /\ At(r, "remove", "write") \/ At(r, "demote", "write") => ~IsOwner(target[r])
         /\ op[r] = "promote" /\ step[r] \in {"write", "commit"} =>
              (seen[r] = "owner" <=> IsOwner(target[r]))
         /\ At(r, "leave", "write") => ~IsOwner(target[r])
         /\ At(r, "leave", "commit") /\ seen[r] = "none" => ~IsOwner(target[r])

\* r will take u's key away, or make u a member.
Settles(r, u) ==
  /\ target[r] = u
  /\ \/ At(r, "remove", "sync")
     \/ At(r, "add", "commit") /\ seen[r] # "kept"
     \/ At(r, "promote", "commit")
     \/ At(r, "promote", "write") /\ seen[r] = "new"

\* A key of a user that is no member is about to be put right, or was left by a
\* request that failed.
GrantInv ==
  (chat = "active" /\ Never(GrantRaces)) =>
    /\ \A u \in (cached \ active) \ leftover : \E r \in Requests : Settles(r, u)
    /\ \A r \in Requests :
         /\ op[r] \in {"leave", "demote", "toggle"} => target[r] \in active
         /\ At(r, "leave", "commit") => target[r] \notin cached

\* What a request that met no other change has counted.
CountRight ==
  \A r \in Requests :
    met[r] \cap Changes = {} =>
      /\ At(r, "add", "commit") => /\ counted[r] = Cardinality(active \cup {target[r]})
                                   /\ seen[r] = "kept" => target[r] \in active
      /\ At(r, "promote", "commit") => counted[r] = Cardinality(active \cup {target[r]})
      /\ At(r, "leave", "commit") => counted[r] = Cardinality(active \ {target[r]})
      /\ At(r, "remove", "save") => counted[r] = Cardinality(active)

IInv ==
  /\ TypeOK /\ (\A r \in Requests : Flow(r)) /\ Phases /\ OverlapsSeen /\ LocksApart
  /\ TakesOver /\ OwnerInv /\ GrantInv /\ CountRight

-----------------------------------------------------------------------------
(* What a step does. *)

LEMMA SetsAreCounted ==
  ASSUME NEW S \in SUBSET Users
  PROVE  IsFiniteSet(S) /\ Cardinality(S) \in Nat
BY FS_Subset, FS_CardinalityType, ConstantsAssumption DEF ConstantsAssumption

LEMMA BeginEffect ==
  ASSUME TypeOK, NEW r \in Requests, NEW o \in Ops, NEW t \in Users, NEW s \in StepNames,
         Begin(r, o, t, s)
  PROVE  /\ step[r] = "idle" /\ chat = "active"
         /\ op'[r] = o /\ target'[r] = t /\ step'[r] = s
         /\ \A q \in Requests : q # r => op'[q] = op[q] /\ target'[q] = target[q] /\ step'[q] = step[q]
         /\ UNCHANGED <<chat, role, active, count, cached, subscribed, seen, counted>>
         /\ op' \in [Requests -> Ops \cup {"none"}]
         /\ target' \in [Requests -> Users \cup {NoUser}]
         /\ step' \in [Requests -> StepNames]
         /\ served' \in Nat
<1>1. /\ op' = [op EXCEPT ![r] = o]
      /\ target' = [target EXCEPT ![r] = t]
      /\ step' = [step EXCEPT ![r] = s]
      /\ served' = served + 1
      /\ UNCHANGED <<chat, role, active, count, cached, subscribed, seen, counted>>
      /\ step[r] = "idle" /\ chat = "active"
  BY DEF Begin, rows
<1>2. QED
  BY <1>1 DEF TypeOK

LEMMA BeginMeets ==
  ASSUME TypeOK, \A q \in Requests : Flow(q), NEW r \in Requests, NEW o \in Ops, NEW t \in Users,
         NEW s \in StepNames, Begin(r, o, t, s)
  PROVE  /\ met' \in [Requests -> SUBSET Ops]
         /\ overlaps' \subseteq Races /\ overlaps \subseteq overlaps'
         /\ \A q \in Requests : q # r => met[q] \subseteq met'[q]
         /\ \A q \in Requests : q # r /\ Busy(q) =>
              /\ o \in met'[q] /\ op[q] \in met'[r]
              /\ {o, op[q]} \in Races => {o, op[q]} \in overlaps'
<1> DEFINE others == {q \in Requests : step[q] # "idle"}
<1>1. /\ met' = [q \in Requests |-> IF q = r THEN {op[x] : x \in others}
                                    ELSE IF q \in others THEN met[q] \cup {o} ELSE met[q]]
      /\ overlaps' = overlaps \cup ({{o, op[q]} : q \in others} \cap Races)
      /\ step[r] = "idle"
  BY DEF Begin
<1>2. \A q \in others : op[q] \in Ops
  BY DEF TypeOK, Flow
<1>3. /\ met' \in [Requests -> SUBSET Ops] /\ overlaps' \subseteq Races
  <2>1. met \in [Requests -> SUBSET Ops] /\ overlaps \subseteq Races
    BY DEF TypeOK
  <2>2. {op[x] : x \in others} \subseteq Ops
    BY <1>2
  <2> HIDE DEF others
  <2>3. QED
    BY <1>1, <2>1, <2>2
<1>4. QED
  BY <1>1, <1>3 DEF Busy

LEMMA ContinueEffect ==
  ASSUME TypeOK, NEW r \in Requests, NEW s \in StepNames, Continue(r, s)
  PROVE  /\ step'[r] = s
         /\ \A q \in Requests : q # r => step'[q] = step[q]
         /\ UNCHANGED <<op, target, subscribed, served, met, overlaps>>
         /\ step' \in [Requests -> StepNames]
BY DEF Continue, TypeOK, history

LEMMA FinishEffect ==
  ASSUME TypeOK, NEW r \in Requests, Finish(r)
  PROVE  /\ op'[r] = "none" /\ target'[r] = NoUser /\ step'[r] = "idle"
         /\ seen'[r] = "none" /\ counted'[r] = 0 /\ met'[r] = {}
         /\ \A q \in Requests : q # r =>
              /\ op'[q] = op[q] /\ target'[q] = target[q] /\ step'[q] = step[q]
              /\ seen'[q] = seen[q] /\ counted'[q] = counted[q] /\ met'[q] = met[q]
         /\ UNCHANGED <<subscribed, served, overlaps>>
         /\ op' \in [Requests -> Ops \cup {"none"}]
         /\ target' \in [Requests -> Users \cup {NoUser}]
         /\ step' \in [Requests -> StepNames]
         /\ seen' \in [Requests -> Users \cup {NoUser} \cup Marks]
         /\ counted' \in [Requests -> Nat]
         /\ met' \in [Requests -> SUBSET Ops]
BY DEF Finish, TypeOK, StepNames, Marks

LEMMA RecountEffect ==
  ASSUME TypeOK, NEW r \in Requests, NEW S \in SUBSET Users, Recount(r, S)
  PROVE  /\ counted'[r] = Cardinality(S)
         /\ \A q \in Requests : q # r => counted'[q] = counted[q]
         /\ counted' \in [Requests -> Nat]
BY SetsAreCounted DEF Recount, TypeOK

\* The operations in which a request begins, and what they have found.
Beginning(r, o, t, s) ==
  /\ Begin(r, o, t, s)
  /\ \/ o = "add" /\ s = "write"
     \/ o = "remove" /\ s = "write" /\ role[t] # "owner"
     \/ o = "promote" /\ s = "read"
     \/ o = "demote" /\ s = "write" /\ t \in active /\ role[t] = "admin"
     \/ o = "leave" /\ t \in active /\ s = IF role[t] = "owner" THEN "choose" ELSE "write"
     \/ o = "delete" /\ s = "write"
     \/ o = "toggle" /\ s = "write" /\ t \in active

LEMMA Beginnings ==
  ASSUME TypeOK, NEW r \in Requests, BeginRequest(r)
  PROVE  \E o \in Ops, t \in Users, s \in StepNames \ {"idle"} : Beginning(r, o, t, s)
<1>1. active \subseteq Users
  BY DEF TypeOK
<1>2. CASE BeginAdd(r)
  BY <1>2 DEF BeginAdd, Beginning, Ops, StepNames
<1>3. CASE BeginRemove(r)
  BY <1>3 DEF BeginRemove, Beginning, Ops, StepNames
<1>4. CASE BeginPromote(r)
  BY <1>4 DEF BeginPromote, Beginning, Ops, StepNames
<1>5. CASE BeginDemote(r)
  BY <1>5 DEF BeginDemote, Beginning, Ops, StepNames
<1>6. CASE BeginLeave(r)
  BY <1>1, <1>6 DEF BeginLeave, Beginning, Ops, StepNames
<1>7. CASE BeginDelete(r)
  BY <1>7 DEF BeginDelete, Beginning, Ops, StepNames
<1>8. CASE BeginToggle(r)
  BY <1>1, <1>8 DEF BeginToggle, Beginning, Ops, StepNames
<1>9. QED
  BY <1>2, <1>3, <1>4, <1>5, <1>6, <1>7, <1>8 DEF BeginRequest

-----------------------------------------------------------------------------
(* Types, and the steps of a request. *)

\* Where a request may go on, apart from its end.
Onward(r, s) ==
  /\ Continue(r, s)
  /\ \/ AddWrite(r) /\ s = "commit"
     \/ PromoteRead(r) /\ s = "write"
     \/ PromoteWrite(r) /\ s = "commit"
     \/ RemoveWrite(r) /\ s = "sync"
     \/ RemoveSync(r) /\ s = "count"
     \/ RemoveCount(r) /\ s = "save"
     \/ DemoteWrite(r) /\ s = "sync"
     \/ ToggleWrite(r) /\ s = "sync"
     \/ LeaveChoose(r) /\ s = "writeOwner"
     \/ LeaveWrite(r) /\ s = "commit"
     \/ DeleteChat(r) /\ s = "update"

Ending(r) ==
  /\ Finish(r)
  /\ \/ AddCommit(r) \/ PromoteCommit(r) \/ RemoveSave(r) \/ StaleSync(r)
     \/ LeaveCommit(r) \/ DeleteMembers(r)

LEMMA Proceedings ==
  ASSUME NEW r \in Requests, Proceed(r)
  PROVE  Ending(r) \/ \E s \in StepNames \ {"idle"} : Onward(r, s)
<1>1. CASE AddCommit(r) \/ PromoteCommit(r) \/ RemoveSave(r) \/ StaleSync(r)
             \/ LeaveCommit(r) \/ DeleteMembers(r)
  <2>1. Finish(r)
    BY <1>1 DEF AddCommit, PromoteCommit, RemoveSave, StaleSync, LeaveCommit, DeleteMembers
  <2>2. QED
    BY <1>1, <2>1 DEF Ending
<1>2. CASE AddWrite(r) \/ PromoteRead(r) \/ PromoteWrite(r)
  <2>1. AddWrite(r) => Continue(r, "commit")
    BY DEF AddWrite
  <2>2. PromoteRead(r) => Continue(r, "write")
    BY DEF PromoteRead
  <2>3. PromoteWrite(r) => Continue(r, "commit")
    BY DEF PromoteWrite
  <2>4. QED
    BY <1>2, <2>1, <2>2, <2>3 DEF Onward, StepNames
<1>3. CASE RemoveWrite(r) \/ RemoveSync(r) \/ RemoveCount(r)
  <2>1. RemoveWrite(r) => Continue(r, "sync")
    BY DEF RemoveWrite
  <2>2. RemoveSync(r) => Continue(r, "count")
    BY DEF RemoveSync
  <2>3. RemoveCount(r) => Continue(r, "save")
    BY DEF RemoveCount
  <2>4. QED
    BY <1>3, <2>1, <2>2, <2>3 DEF Onward, StepNames
<1>4. CASE DemoteWrite(r) \/ ToggleWrite(r) \/ DeleteChat(r)
  <2>1. DemoteWrite(r) => Continue(r, "sync")
    BY DEF DemoteWrite
  <2>2. ToggleWrite(r) => Continue(r, "sync")
    BY DEF ToggleWrite
  <2>3. DeleteChat(r) => Continue(r, "update")
    BY DEF DeleteChat
  <2>4. QED
    BY <1>4, <2>1, <2>2, <2>3 DEF Onward, StepNames
<1>5. CASE LeaveChoose(r) \/ LeaveWrite(r)
  <2>1. LeaveChoose(r) => Continue(r, "writeOwner")
    BY DEF LeaveChoose
  <2>2. LeaveWrite(r) => Continue(r, "commit")
    BY DEF LeaveWrite
  <2>3. QED
    BY <1>5, <2>1, <2>2 DEF Onward, StepNames
<1>6. QED
  BY <1>1, <1>2, <1>3, <1>4, <1>5 DEF Proceed

\* What the requests other than r see of a step of r.
LEMMA OthersStay ==
  ASSUME TypeOK, NEW r \in Requests, Proceed(r), NEW q \in Requests, q # r
  PROVE  /\ op'[q] = op[q] /\ target'[q] = target[q] /\ step'[q] = step[q]
         /\ seen'[q] = seen[q] /\ counted'[q] = counted[q] /\ met'[q] = met[q]
<1>1. CASE Ending(r)
  BY <1>1, FinishEffect DEF Ending
<1>2. ASSUME NEW s \in StepNames \ {"idle"}, Onward(r, s)
      PROVE  /\ op'[q] = op[q] /\ target'[q] = target[q] /\ step'[q] = step[q]
             /\ seen'[q] = seen[q] /\ counted'[q] = counted[q] /\ met'[q] = met[q]
  <2>1. /\ op' = op /\ target' = target /\ step'[q] = step[q] /\ met' = met
    BY <1>2, ContinueEffect DEF Onward
  <2>2. seen'[q] = seen[q]
    <3>1. seen' = seen \/ \E x : seen' = [seen EXCEPT ![r] = x]
      BY <1>2 DEF Onward, AddWrite, PromoteRead, PromoteWrite, RemoveWrite, RemoveSync,
        RemoveCount, DemoteWrite, ToggleWrite, LeaveChoose, LeaveWrite, DeleteChat
    <3>2. QED
      BY <3>1 DEF TypeOK
  <2>3. counted'[q] = counted[q]
    <3>1. counted' = counted \/ \E x : counted' = [counted EXCEPT ![r] = x]
      BY <1>2 DEF Onward, AddWrite, PromoteRead, PromoteWrite, RemoveWrite, RemoveSync,
        RemoveCount, DemoteWrite, ToggleWrite, LeaveChoose, LeaveWrite, DeleteChat, Recount
    <3>2. QED
      BY <3>1 DEF TypeOK
  <2>4. QED
    BY <2>1, <2>2, <2>3
<1>3. QED
  BY <1>1, <1>2, Proceedings

LEMMA ProceedTypes ==
  ASSUME TypeOK, NEW r \in Requests, Flow(r), Proceed(r),
         failed' \in 0..MaxFailures, leftover' \subseteq cached' \ active'
  PROVE  TypeOK'
<1> USE ConstantsAssumption
<1>0. /\ chat \in {"none", "active", "closed"} /\ role \in [Users -> Roles \cup {"none"}]
      /\ active \subseteq Users /\ \A u \in active : role[u] # "none"
      /\ count \in Nat /\ cached \subseteq Users /\ subscribed \subseteq Users
      /\ counted \in [Requests -> Nat]
      /\ seen \in [Requests -> Users \cup {NoUser} \cup Marks]
      /\ served \in Nat /\ overlaps \subseteq Races /\ met \in [Requests -> SUBSET Ops]
      /\ op \in [Requests -> Ops \cup {"none"}]
      /\ target \in [Requests -> Users \cup {NoUser}] /\ step \in [Requests -> StepNames]
      /\ "kept" \in Marks /\ "new" \in Marks /\ "owner" \in Roles /\ "admin" \in Roles
      /\ "member" \in Roles
  BY DEF TypeOK, Marks, Roles
<1>1. target[r] \in Users
  <2>1. step[r] # "idle"
    BY DEF Proceed, At, AddWrite, AddCommit, PromoteRead, PromoteWrite, PromoteCommit,
      RemoveWrite, RemoveSync, RemoveCount, RemoveSave, DemoteWrite, ToggleWrite, StaleSync,
      LeaveChoose, LeaveWrite, LeaveCommit, DeleteChat, DeleteMembers
  <2>2. QED
    BY <2>1 DEF Flow
<1>2. CASE Ending(r)
  <2>1. /\ subscribed' = subscribed /\ served' = served /\ overlaps' = overlaps
        /\ op' \in [Requests -> Ops \cup {"none"}]
        /\ target' \in [Requests -> Users \cup {NoUser}]
        /\ step' \in [Requests -> StepNames]
        /\ seen' \in [Requests -> Users \cup {NoUser} \cup Marks]
        /\ counted' \in [Requests -> Nat]
        /\ met' \in [Requests -> SUBSET Ops]
    BY <1>2, FinishEffect DEF Ending
  <2>2. ASSUME chat' \in {"none", "active", "closed"}, role' \in [Users -> Roles \cup {"none"}],
               active' \subseteq Users, \A u \in active' : role'[u] # "none",
               count' \in Nat, cached' \subseteq Users
        PROVE  TypeOK'
    BY <1>0, <2>1, <2>2 DEF TypeOK
  <2>3. CASE AddCommit(r)
    <3>1. /\ IF seen[r] = "kept" THEN UNCHANGED <<role, active>>
             ELSE /\ role' = IF role[target[r]] = "none" THEN [role EXCEPT ![target[r]] = "member"] ELSE role
                  /\ active' = active \cup {target[r]}
          /\ count' = counted[r] /\ UNCHANGED <<chat, cached>>
      BY <2>3 DEF AddCommit
    <3>2. QED
      BY <1>0, <1>1, <2>2, <3>1
  <2>4. CASE PromoteCommit(r)
    <3>1. /\ role' = [role EXCEPT ![target[r]] = IF seen[r] = "owner" THEN "owner" ELSE "admin"]
          /\ active' = active \cup {target[r]}
          /\ count' = counted[r] /\ UNCHANGED <<chat, cached>>
      BY <2>4 DEF PromoteCommit
    <3>2. QED
      BY <1>0, <1>1, <2>2, <3>1
  <2>5. CASE RemoveSave(r)
    <3>1. count' = counted[r] /\ UNCHANGED <<chat, role, active, cached>>
      BY <2>5 DEF RemoveSave
    <3>2. QED
      BY <1>0, <2>2, <3>1
  <2>6. CASE StaleSync(r)
    <3>1. cached' = cached \cup {target[r]} /\ UNCHANGED <<chat, role, active, count>>
      BY <2>6 DEF StaleSync, rows
    <3>2. QED
      BY <1>0, <1>1, <2>2, <3>1
  <2>7. CASE LeaveCommit(r)
    <3>1. /\ chat' = IF seen[r] = NoUser THEN "closed" ELSE chat
          /\ role' = [u \in Users |-> IF u = seen[r] THEN "owner" ELSE role[u]]
          /\ active' = active \ {target[r]}
          /\ count' = counted[r] /\ UNCHANGED cached
      BY <2>7 DEF LeaveCommit
    <3>2. role' \in [Users -> Roles \cup {"none"}] /\ \A u \in active' : role'[u] # "none"
      BY <1>0, <3>1
    <3>3. QED
      BY <1>0, <2>2, <3>1, <3>2
  <2>8. CASE DeleteMembers(r)
    <3>1. active' = {} /\ UNCHANGED <<chat, role, count, cached>>
      BY <2>8 DEF DeleteMembers
    <3>2. QED
      BY <1>0, <2>2, <3>1
  <2>9. QED
    BY <1>2, <2>3, <2>4, <2>5, <2>6, <2>7, <2>8 DEF Ending
<1>3. ASSUME NEW s \in StepNames \ {"idle"}, Onward(r, s)
      PROVE  TypeOK'
  <2>1. UNCHANGED <<op, target, subscribed, served, met, overlaps>> /\ step' \in [Requests -> StepNames]
    BY <1>3, ContinueEffect DEF Onward
  <2>2. ASSUME chat' \in {"none", "active", "closed"}, role' \in [Users -> Roles \cup {"none"}],
               active' \subseteq Users, \A u \in active' : role'[u] # "none",
               count' \in Nat, cached' \subseteq Users,
               seen' \in [Requests -> Users \cup {NoUser} \cup Marks],
               counted' \in [Requests -> Nat]
        PROVE  TypeOK'
    BY <1>0, <2>1, <2>2 DEF TypeOK
  <2>3. CASE AddWrite(r)
    <3>1. /\ seen' = [seen EXCEPT ![r] = "kept"] \/ seen' = seen
          /\ cached' = cached \cup {target[r]} \/ cached' = cached
          /\ Recount(r, active \cup {target[r]}) /\ UNCHANGED rows
      BY <2>3 DEF AddWrite
    <3>2. counted' \in [Requests -> Nat]
      BY <1>0, <1>1, <3>1, RecountEffect
    <3>3. QED
      BY <1>0, <1>1, <2>2, <3>1, <3>2 DEF rows
  <2>4. CASE PromoteRead(r)
    <3>1. /\ seen' = [seen EXCEPT ![r] = "new"] \/ seen' = [seen EXCEPT ![r] = role[target[r]]]
          /\ cached' = cached \cup {target[r]} \/ cached' = cached
          /\ UNCHANGED <<rows, counted>>
      BY <2>4 DEF PromoteRead
    <3>2. role[target[r]] \in Marks
      BY <1>0, <1>1 DEF Marks
    <3>3. QED
      BY <1>0, <1>1, <2>2, <3>1, <3>2 DEF rows
  <2>5. CASE PromoteWrite(r)
    <3>1. /\ cached' = cached \cup {target[r]}
          /\ Recount(r, active \cup {target[r]}) /\ UNCHANGED <<rows, seen>>
      BY <2>5 DEF PromoteWrite
    <3>2. counted' \in [Requests -> Nat]
      BY <1>0, <1>1, <3>1, RecountEffect
    <3>3. QED
      BY <1>0, <1>1, <2>2, <3>1, <3>2 DEF rows
  <2>6. CASE RemoveWrite(r)
    <3>1. active' = active \ {target[r]} /\ UNCHANGED <<chat, role, count, cached, seen, counted>>
      BY <2>6 DEF RemoveWrite
    <3>2. QED
      BY <1>0, <2>2, <3>1
  <2>7. CASE RemoveSync(r)
    <3>1. cached' = cached \ {target[r]} /\ UNCHANGED <<rows, seen, counted>>
      BY <2>7 DEF RemoveSync
    <3>2. QED
      BY <1>0, <2>2, <3>1 DEF rows
  <2>8. CASE RemoveCount(r)
    <3>1. Recount(r, active) /\ UNCHANGED <<rows, cached, seen>>
      BY <2>8 DEF RemoveCount
    <3>2. counted' \in [Requests -> Nat]
      BY <1>0, <3>1, RecountEffect
    <3>3. QED
      BY <1>0, <2>2, <3>1, <3>2 DEF rows
  <2>9. CASE DemoteWrite(r)
    <3>1. role' = [role EXCEPT ![target[r]] = "member"]
          /\ UNCHANGED <<chat, active, count, cached, seen, counted>>
      BY <2>9 DEF DemoteWrite
    <3>2. QED
      BY <1>0, <2>2, <3>1
  <2>10. CASE ToggleWrite(r)
    <3>1. UNCHANGED <<rows, cached, seen, counted>>
      BY <2>10 DEF ToggleWrite
    <3>2. QED
      BY <1>0, <2>2, <3>1 DEF rows
  <2>11. CASE LeaveChoose(r)
    <3>1. /\ \E x \in Users \cup {NoUser} : seen' = [seen EXCEPT ![r] = x]
          /\ UNCHANGED <<rows, cached, counted>>
      BY <1>0, <2>11 DEF LeaveChoose, Replacements
    <3>2. QED
      BY <1>0, <2>2, <3>1 DEF rows
  <2>12. CASE LeaveWrite(r)
    <3>1. /\ cached' = (cached \cup ({seen[r]} \cap Users)) \ {target[r]}
          /\ Recount(r, active \ {target[r]}) /\ UNCHANGED <<rows, seen>>
      BY <2>12 DEF LeaveWrite
    <3>2. counted' \in [Requests -> Nat]
      BY <1>0, <3>1, RecountEffect
    <3>3. QED
      BY <1>0, <2>2, <3>1, <3>2 DEF rows
  <2>13. CASE DeleteChat(r)
    <3>1. chat' = "closed" /\ UNCHANGED <<role, active, count, cached, seen, counted>>
      BY <2>13 DEF DeleteChat
    <3>2. QED
      BY <1>0, <2>2, <3>1
  <2>14. QED
    BY <1>3, <2>3, <2>4, <2>5, <2>6, <2>7, <2>8, <2>9, <2>10, <2>11, <2>12, <2>13 DEF Onward
<1>4. QED
  BY <1>2, <1>3, Proceedings

\* A request that fails ends, and leaves the rows and the other requests alone.
LEMMA FailEffect ==
  ASSUME TypeOK, NEW r \in Requests, Fail(r)
  PROVE  /\ step[r] # "idle" /\ Finish(r)
         /\ UNCHANGED <<chat, role, active, count, subscribed, served, overlaps>>
         /\ failed' = failed + 1 /\ failed' \in 0..MaxFailures
         /\ leftover' = (leftover \cup {target[r]}) \cap (cached' \ active')
         /\ \/ cached' = cached
            \/ /\ At(r, "leave", "writeOwner") /\ seen[r] \in Users \ Locked
               /\ cached' = cached \cup {seen[r]}
         /\ \A q \in Requests : q # r =>
              /\ op'[q] = op[q] /\ target'[q] = target[q] /\ step'[q] = step[q]
              /\ seen'[q] = seen[q] /\ counted'[q] = counted[q] /\ met'[q] = met[q]
         /\ op'[r] = "none" /\ step'[r] = "idle" /\ seen'[r] = "none" /\ met'[r] = {}
<1>1. Finish(r) /\ step[r] # "idle" /\ UNCHANGED <<chat, role, active, count>>
  BY DEF Fail, rows
<1>2. failed' = failed + 1 /\ failed' \in 0..MaxFailures
  BY ConstantsAssumption DEF Fail, TypeOK, ConstantsAssumption
<1>3. /\ leftover' = (leftover \cup {target[r]}) \cap (cached' \ active')
      /\ \/ cached' = cached
         \/ /\ At(r, "leave", "writeOwner") /\ seen[r] \in Users \ Locked
            /\ cached' = cached \cup {seen[r]}
  BY <1>1 DEF Fail
<1>4. QED
  BY <1>1, <1>2, <1>3, FinishEffect

\* Only a request that fails leaves a key behind.
LEMMA KeysAreLeft ==
  ASSUME TypeOK, [Next]_vars
  PROVE  \/ \E r \in Requests : Fail(r)
         \/ failed' = failed /\ leftover' = leftover \cap (cached' \ active')
<1>1. CASE Next
  BY <1>1 DEF Next
<1>2. CASE UNCHANGED vars
  <2>1. UNCHANGED <<failed, leftover, cached, active>>
    BY <1>2 DEF vars, rows, failures
  <2>2. QED
    BY <2>1 DEF TypeOK
<1>3. QED
  BY <1>1, <1>2

LEMMA StepKeepsTypes ==
  ASSUME TypeOK, \A r \in Requests : Flow(r), [Next]_vars
  PROVE  TypeOK'
<1>0. failed' \in 0..MaxFailures /\ leftover' \subseteq cached' \ active'
  BY KeysAreLeft, FailEffect DEF TypeOK
<1>1. CASE Create
  <2>1. PICK o \in Users, others \in SUBSET Users :
          /\ active' = others \cup {o}
          /\ role' = [u \in Users |-> CASE u = o -> "owner"
                                        [] u \in others \ {o} -> "member"
                                        [] OTHER -> "none"]
          /\ cached' = {o}
    BY <1>1 DEF Create
  <2>2. /\ role' \in [Users -> Roles \cup {"none"}]
        /\ active' \subseteq {u \in Users : role'[u] # "none"}
    BY <2>1 DEF Roles
  <2>3. count' \in Nat /\ chat' = "active" /\ cached' \subseteq Users
    BY <1>1, <2>1, SetsAreCounted DEF Create
  <2>4. UNCHANGED <<subscribed, op, target, step, seen, counted, served, met, overlaps>>
    BY <1>1 DEF Create, request, history
  <2>5. QED
    BY <1>0, <2>2, <2>3, <2>4 DEF TypeOK
<1>2. ASSUME NEW r \in Requests, BeginRequest(r)
      PROVE  TypeOK'
  <2>1. PICK o \in Ops, t \in Users, s \in StepNames : Begin(r, o, t, s)
    BY <1>2, Beginnings DEF Beginning
  <2>2. QED
    BY <1>0, <2>1, BeginEffect, BeginMeets DEF TypeOK
<1>3. ASSUME NEW r \in Requests, Proceed(r)
      PROVE  TypeOK'
  BY <1>0, <1>3, ProceedTypes
<1>4. ASSUME NEW u \in Users, ExpireKey(u) \/ Subscribe(u) \/ Unsubscribe(u)
      PROVE  TypeOK'
  BY <1>0, <1>4 DEF ExpireKey, Subscribe, Unsubscribe, TypeOK, rows, request, history
<1>5. CASE WarmCache
  BY <1>0, <1>5 DEF WarmCache, TypeOK, rows, request, history
<1>6. CASE UNCHANGED vars
  BY <1>0, <1>6 DEF vars, TypeOK, rows, request, history
<1>7. ASSUME NEW r \in Requests, Fail(r)
      PROVE  TypeOK'
  <2>1. /\ op' \in [Requests -> Ops \cup {"none"}]
        /\ target' \in [Requests -> Users \cup {NoUser}]
        /\ step' \in [Requests -> StepNames]
        /\ seen' \in [Requests -> Users \cup {NoUser} \cup Marks]
        /\ counted' \in [Requests -> Nat]
        /\ met' \in [Requests -> SUBSET Ops]
    BY <1>7, FailEffect, FinishEffect
  <2>2. cached' \subseteq Users /\ UNCHANGED <<chat, role, active, count, subscribed, served, overlaps>>
    BY <1>7, FailEffect DEF TypeOK
  <2>3. QED
    BY <1>0, <2>1, <2>2 DEF TypeOK
<1>8. QED
  BY <1>1, <1>2, <1>3, <1>4, <1>5, <1>6, <1>7 DEF Next, Step

\* A request that a step does not touch is where it was.
Same(q) == op'[q] = op[q] /\ target'[q] = target[q] /\ step'[q] = step[q] /\ seen'[q] = seen[q]

LEMMA SameKeeps ==
  ASSUME NEW q \in Requests, Same(q)
  PROVE  /\ Flow(q) => Flow(q)'
         /\ LockedBy(q)' = LockedBy(q)
         /\ Busy(q)' = Busy(q)
         /\ \A o, s : At(q, o, s)' = At(q, o, s)
         /\ \A u : Settles(q, u)' = Settles(q, u)
BY DEF Same, Flow, LockedBy, Busy, At, Settles

LEMMA BusyProceeds ==
  ASSUME NEW r \in Requests, Proceed(r)
  PROVE  step[r] # "idle"
BY DEF Proceed, At, AddWrite, AddCommit, PromoteRead, PromoteWrite, PromoteCommit,
  RemoveWrite, RemoveSync, RemoveCount, RemoveSave, DemoteWrite, ToggleWrite, StaleSync,
  LeaveChoose, LeaveWrite, LeaveCommit, DeleteChat, DeleteMembers

LEMMA BeginKeepsFlow ==
  ASSUME TypeOK, NEW r \in Requests, Flow(r), NEW o \in Ops, NEW t \in Users,
         NEW s \in StepNames \ {"idle"}, Beginning(r, o, t, s)
  PROVE  Flow(r)'
<1>1. op'[r] = o /\ target'[r] = t /\ step'[r] = s /\ seen'[r] = seen[r] /\ step[r] = "idle"
  BY BeginEffect DEF Beginning
<1>2. seen'[r] = "none"
  BY <1>1 DEF Flow
<1>3. o # "none"
  BY DEF Ops
<1>4. QED
  BY <1>1, <1>2, <1>3 DEF Flow, At, Beginning

LEMMA ProceedKeepsFlow ==
  ASSUME TypeOK, NEW r \in Requests, Flow(r), Proceed(r)
  PROVE  Flow(r)'
<1>0. /\ target[r] \in Users /\ seen \in [Requests -> Users \cup {NoUser} \cup Marks]
      /\ op[r] # "none" /\ active \subseteq Users
  BY BusyProceeds DEF Flow, TypeOK
<1>1. CASE Ending(r)
  BY <1>1, FinishEffect DEF Ending, Flow, At
<1>2. ASSUME NEW s \in StepNames \ {"idle"}, Onward(r, s)
      PROVE  Flow(r)'
  <2>1. op'[r] = op[r] /\ target'[r] = target[r] /\ step'[r] = s
    BY <1>2, ContinueEffect DEF Onward
  <2>2. CASE AddWrite(r) \/ PromoteRead(r) \/ PromoteWrite(r) \/ RemoveWrite(r) \/ RemoveSync(r)
             \/ RemoveCount(r) \/ DemoteWrite(r) \/ ToggleWrite(r) \/ DeleteChat(r)
    <3>1. \/ op[r] = "add" /\ s = "commit"
          \/ op[r] = "promote" /\ s \in {"write", "commit"}
          \/ op[r] = "remove" /\ s \in {"sync", "count", "save"}
          \/ op[r] = "demote" /\ s = "sync"
          \/ op[r] = "toggle" /\ s = "sync"
          \/ op[r] = "delete" /\ s = "update"
      BY <1>2, <2>2 DEF Onward, At, AddWrite, PromoteRead, PromoteWrite, RemoveWrite, RemoveSync,
        RemoveCount, DemoteWrite, ToggleWrite, DeleteChat, LeaveChoose, LeaveWrite
    <3>2. QED
      BY <1>0, <2>1, <3>1 DEF Flow, At
  <2>3. CASE LeaveChoose(r)
    <3>1. op[r] = "leave" /\ s = "writeOwner"
      BY <1>2, <2>3 DEF Onward, At, AddWrite, PromoteRead, PromoteWrite, RemoveWrite, RemoveSync,
        RemoveCount, DemoteWrite, ToggleWrite, DeleteChat, LeaveChoose, LeaveWrite
    <3>2. \E x \in (Users \cup {NoUser}) \ {target[r]} : seen' = [seen EXCEPT ![r] = x]
      BY <1>0, <2>3, ConstantsAssumption DEF LeaveChoose, Replacements, ConstantsAssumption
    <3>3. seen'[r] \in (Users \cup {NoUser}) \ {target[r]}
      BY <1>0, <3>2
    <3>4. QED
      BY <1>0, <2>1, <3>1, <3>3 DEF Flow, At
  <2>4. CASE LeaveWrite(r)
    <3>1. op[r] = "leave" /\ s = "commit" /\ seen'[r] = seen[r] /\ step[r] \in {"writeOwner", "write"}
      BY <1>2, <2>4 DEF Onward, At, AddWrite, PromoteRead, PromoteWrite, RemoveWrite, RemoveSync,
        RemoveCount, DemoteWrite, ToggleWrite, DeleteChat, LeaveChoose, LeaveWrite
    <3>2. "none" \notin Users
      BY NamesAssumption DEF NamesAssumption, Marks
    <3>3. seen[r] \in (Users \cup {NoUser, "none"}) \ {target[r]}
      BY <1>0, <3>1, <3>2 DEF Flow, At
    <3>4. QED
      BY <1>0, <2>1, <3>1, <3>3 DEF Flow, At
  <2>5. QED
    BY <1>2, <2>2, <2>3, <2>4 DEF Onward
<1>3. QED
  BY <1>1, <1>2, Proceedings

LEMMA FailStays ==
  ASSUME TypeOK, NEW r \in Requests, Flow(r), Fail(r)
  PROVE  /\ \A q \in Requests : q # r => Same(q) /\ counted'[q] = counted[q] /\ met'[q] = met[q]
         /\ Flow(r)' /\ LockedBy(r)' = {} /\ \A o, s : s # "idle" => ~At(r, o, s)'
<1>1. op'[r] = "none" /\ step'[r] = "idle" /\ seen'[r] = "none"
  BY FailEffect
<1>2. \A q \in Requests : q # r => Same(q) /\ counted'[q] = counted[q] /\ met'[q] = met[q]
  BY FailEffect DEF Same
<1>3. QED
  BY <1>1, <1>2 DEF Flow, LockedBy, At

\* Steps that are no request's leave all requests alone.
LEMMA WorldEffect ==
  ASSUME [Next]_vars
  PROVE  \/ \E r \in Requests : BeginRequest(r) \/ Proceed(r)
         \/ \E r \in Requests : Fail(r)
         \/ /\ UNCHANGED <<op, target, step, seen, counted, served, met, overlaps>>
            /\ \/ Create
               \/ UNCHANGED rows /\ \E u \in Users : cached' = cached \ {u}
               \/ UNCHANGED rows /\ Idle /\ cached' = active
               \/ UNCHANGED rows /\ cached' = cached
<1>1. ASSUME NEW u \in Users, ExpireKey(u)
      PROVE  UNCHANGED rows /\ cached' = cached \ {u}
             /\ UNCHANGED <<op, target, step, seen, counted, served, met, overlaps>>
  BY <1>1 DEF ExpireKey, request, history
<1>2. ASSUME NEW u \in Users, Subscribe(u) \/ Unsubscribe(u)
      PROVE  UNCHANGED rows /\ cached' = cached
             /\ UNCHANGED <<op, target, step, seen, counted, served, met, overlaps>>
  BY <1>2 DEF Subscribe, Unsubscribe, request, history
<1>3. WarmCache => UNCHANGED rows /\ Idle /\ cached' = active
             /\ UNCHANGED <<op, target, step, seen, counted, served, met, overlaps>>
  BY DEF WarmCache, request, history
<1>4. Create => UNCHANGED <<op, target, step, seen, counted, served, met, overlaps>>
  BY DEF Create, request, history
<1>5. UNCHANGED vars => UNCHANGED rows /\ cached' = cached
             /\ UNCHANGED <<op, target, step, seen, counted, served, met, overlaps>>
  BY DEF vars, request, history
<1>6. QED
  BY <1>1, <1>2, <1>3, <1>4, <1>5 DEF Next, Step

LEMMA BeginStays ==
  ASSUME TypeOK, NEW r \in Requests, NEW o \in Ops, NEW t \in Users, NEW s \in StepNames,
         Begin(r, o, t, s), NEW q \in Requests, q # r
  PROVE  Same(q) /\ counted'[q] = counted[q]
BY BeginEffect DEF Same

LEMMA StepKeepsFlow ==
  ASSUME TypeOK, \A r \in Requests : Flow(r), [Next]_vars
  PROVE  \A r \in Requests : Flow(r)'
<1>1. ASSUME NEW r \in Requests, BeginRequest(r), NEW q \in Requests
      PROVE  Flow(q)'
  <2>1. PICK o \in Ops, t \in Users, s \in StepNames \ {"idle"} : Beginning(r, o, t, s)
    BY <1>1, Beginnings
  <2>2. CASE q = r
    BY <2>1, <2>2, BeginKeepsFlow
  <2>3. CASE q # r
    BY <2>1, <2>3, BeginStays, SameKeeps DEF Beginning
  <2>4. QED
    BY <2>2, <2>3
<1>2. ASSUME NEW r \in Requests, Proceed(r), NEW q \in Requests
      PROVE  Flow(q)'
  <2>1. CASE q = r
    BY <1>2, <2>1, ProceedKeepsFlow
  <2>2. CASE q # r
    <3>1. Same(q)
      BY <1>2, <2>2, OthersStay DEF Same
    <3>2. QED
      BY <3>1, SameKeeps
  <2>3. QED
    BY <2>1, <2>2
<1>3. ASSUME NEW r \in Requests, Fail(r), NEW q \in Requests
      PROVE  Flow(q)'
  BY <1>3, FailStays, SameKeeps
<1>4. CASE UNCHANGED <<op, target, step, seen>>
  BY <1>4, SameKeeps DEF Same
<1>5. QED
  BY <1>1, <1>2, <1>3, <1>4, WorldEffect

LEMMA StepKeepsPhases ==
  ASSUME TypeOK, \A r \in Requests : Flow(r), Phases, [Next]_vars
  PROVE  Phases'
<1>1. ASSUME NEW r \in Requests, BeginRequest(r)
      PROVE  Phases'
  <2>1. PICK o \in Ops, t \in Users, s \in StepNames \ {"idle"} : Beginning(r, o, t, s)
    BY <1>1, Beginnings
  <2>2. chat = "active" /\ chat' = chat /\ op'[r] = o /\ step'[r] = s
        /\ \A q \in Requests : q # r => op'[q] = op[q] /\ step'[q] = step[q]
    BY <2>1, BeginEffect DEF Beginning
  <2>3. ~(o = "delete" /\ s = "update")
    BY <2>1 DEF Beginning
  <2>4. QED
    BY <2>2, <2>3 DEF Phases, At
<1>2. ASSUME NEW r \in Requests, Proceed(r)
      PROVE  Phases'
  <2>1. chat # "none"
    BY <1>2, BusyProceeds DEF Phases, Idle
  <2>2. chat' = chat \/ chat' = "closed"
    BY <1>2 DEF Proceed, AddWrite, AddCommit, PromoteRead, PromoteWrite, PromoteCommit, RemoveWrite,
      RemoveSync, RemoveCount, RemoveSave, DemoteWrite, ToggleWrite, StaleSync, LeaveChoose,
      LeaveWrite, LeaveCommit, DeleteChat, DeleteMembers, rows
  <2>3. ASSUME NEW q \in Requests, At(q, "delete", "update")'
        PROVE  chat' = "closed"
    <3>1. CASE At(q, "delete", "update")
      BY <2>2, <3>1 DEF Phases
    <3>2. CASE ~At(q, "delete", "update")
      <4>1. q = r
        BY <1>2, <2>3, <3>2, OthersStay DEF At
      <4>2. ~Ending(r)
        BY <2>3, <4>1, FinishEffect DEF Ending, At
      <4>3. PICK s \in StepNames \ {"idle"} : Onward(r, s)
        BY <1>2, <4>2, Proceedings
      <4>4. op'[r] = op[r] /\ step'[r] = s
        BY <4>3, ContinueEffect DEF Onward
      <4>5. DeleteChat(r)
        BY <2>3, <4>1, <4>3, <4>4 DEF Onward, At
      <4>6. QED
        BY <4>5 DEF DeleteChat
    <3>3. QED
      BY <3>1, <3>2
  <2>4. chat' # "none"
    BY <2>1, <2>2
  <2>5. QED
    BY <2>3, <2>4 DEF Phases
<1>3. ASSUME UNCHANGED <<op, step>>, Create
      PROVE  Phases'
  <2>1. chat = "none" /\ chat' = "active"
    BY <1>3 DEF Create
  <2>2. \A r \in Requests : ~At(r, "delete", "update")
    BY <2>1 DEF Phases
  <2>3. QED
    BY <1>3, <2>1, <2>2 DEF Phases, At
<1>4. ASSUME UNCHANGED <<op, step, rows>>, cached' \subseteq cached \/ cached' = active
      PROVE  Phases'
  BY <1>4 DEF Phases, At, Idle, rows
<1>5. ASSUME NEW r \in Requests, Fail(r)
      PROVE  Phases'
  <2>1. chat # "none" /\ chat' = chat
    BY <1>5, FailEffect DEF Phases, Idle
  <2>2. \A q \in Requests : At(q, "delete", "update")' => At(q, "delete", "update")
    BY <1>5, FailStays DEF Same, At
  <2>3. QED
    BY <2>1, <2>2 DEF Phases
<1>6. QED
  BY <1>1, <1>2, <1>3, <1>4, <1>5, WorldEffect

LEMMA StepKeepsOverlaps ==
  ASSUME TypeOK, \A r \in Requests : Flow(r), OverlapsSeen, [Next]_vars
  PROVE  OverlapsSeen' /\ overlaps \subseteq overlaps'
<1>1. ASSUME NEW r \in Requests, BeginRequest(r)
      PROVE  OverlapsSeen' /\ overlaps \subseteq overlaps'
  <2>1. PICK o \in Ops, t \in Users, s \in StepNames \ {"idle"} : Begin(r, o, t, s)
    BY <1>1, Beginnings DEF Beginning
  <2>2. /\ overlaps \subseteq overlaps'
        /\ \A q \in Requests : q # r => met[q] \subseteq met'[q]
        /\ \A q \in Requests : q # r /\ Busy(q) =>
             /\ o \in met'[q] /\ op[q] \in met'[r]
             /\ {o, op[q]} \in Races => {o, op[q]} \in overlaps'
    BY <2>1, BeginMeets
  <2>3. op'[r] = o /\ \A q \in Requests : q # r => op'[q] = op[q] /\ step'[q] = step[q]
    BY <2>1, BeginEffect
  <2>4. ASSUME NEW x \in Requests, NEW y \in Requests, x # y, Busy(x)', Busy(y)'
        PROVE  op'[y] \in met'[x] /\ ({op'[x], op'[y]} \in Races => {op'[x], op'[y]} \in overlaps')
    <3>1. CASE x = r
      BY <2>2, <2>3, <2>4, <3>1 DEF Busy
    <3>2. CASE y = r
      <4>1. {op'[x], op'[y]} = {o, op[x]}
        BY <2>3, <2>4, <3>2
      <4>2. QED
        BY <2>2, <2>3, <2>4, <3>2, <4>1 DEF Busy
    <3>3. CASE x # r /\ y # r
      BY <2>2, <2>3, <2>4, <3>3 DEF Busy, OverlapsSeen
    <3>4. QED
      BY <3>1, <3>2, <3>3
  <2>5. QED
    BY <2>2, <2>4 DEF OverlapsSeen
<1>2. ASSUME NEW r \in Requests, Proceed(r)
      PROVE  OverlapsSeen' /\ overlaps \subseteq overlaps'
  <2>1. overlaps' = overlaps
    <3>1. Ending(r) => overlaps' = overlaps
      BY FinishEffect DEF Ending
    <3>2. \A s \in StepNames : Onward(r, s) => overlaps' = overlaps
      BY ContinueEffect DEF Onward
    <3>3. QED
      BY <1>2, <3>1, <3>2, Proceedings
  <2>2. Busy(r)' => op'[r] = op[r] /\ met'[r] = met[r] /\ Busy(r)
    <3>1. Ending(r) => ~Busy(r)'
      BY FinishEffect DEF Ending, Busy
    <3>2. \A s \in StepNames : Onward(r, s) => op'[r] = op[r] /\ met'[r] = met[r]
      BY ContinueEffect DEF Onward
    <3>3. QED
      BY <1>2, <3>1, <3>2, Proceedings, BusyProceeds DEF Busy
  <2>3. \A q \in Requests : q # r => op'[q] = op[q] /\ step'[q] = step[q] /\ met'[q] = met[q]
    BY <1>2, OthersStay
  <2>4. \A q \in Requests : Busy(q)' => op'[q] = op[q] /\ met'[q] = met[q] /\ Busy(q)
    BY <2>2, <2>3 DEF Busy
  <2>5. QED
    BY <2>1, <2>4 DEF OverlapsSeen
<1>3. ASSUME UNCHANGED <<op, step, met, overlaps>>
      PROVE  OverlapsSeen' /\ overlaps \subseteq overlaps'
  BY <1>3 DEF OverlapsSeen, Busy
<1>4. ASSUME NEW r \in Requests, Fail(r)
      PROVE  OverlapsSeen' /\ overlaps \subseteq overlaps'
  <2>1. overlaps' = overlaps /\ ~Busy(r)'
    BY <1>4, FailEffect DEF Busy
  <2>2. \A q \in Requests : Busy(q)' => op'[q] = op[q] /\ met'[q] = met[q] /\ Busy(q)
    BY <1>4, <2>1, FailStays DEF Same, Busy
  <2>3. QED
    BY <2>1, <2>2 DEF OverlapsSeen
<1>5. QED
  BY <1>1, <1>2, <1>3, <1>4, WorldEffect

\* A step locks a row that was free, or has its locks from before.
LEMMA LocksAreTaken ==
  ASSUME TypeOK, NEW r \in Requests, Flow(r), Proceed(r)
  PROVE  LockedBy(r)' \subseteq LockedBy(r) \/ LockedBy(r)' \cap Locked = {}
<1>1. CASE Ending(r)
  BY <1>1, FinishEffect DEF Ending, LockedBy, At
<1>2. ASSUME NEW s \in StepNames \ {"idle"}, Onward(r, s)
      PROVE  LockedBy(r)' \subseteq LockedBy(r) \/ LockedBy(r)' \cap Locked = {}
  <2>1. op'[r] = op[r] /\ target'[r] = target[r] /\ step'[r] = s
    BY <1>2, ContinueEffect DEF Onward
  <2>2. seen \in [Requests -> Users \cup {NoUser} \cup Marks]
    BY DEF TypeOK
  <2>3. CASE AddWrite(r)
    <3>1. /\ op[r] = "add" /\ s = "commit"
          /\ seen'[r] = "kept" \/ target[r] \notin Locked
      BY <1>2, <2>2, <2>3 DEF Onward, At, AddWrite, PromoteRead, PromoteWrite, RemoveWrite,
        RemoveSync, RemoveCount, DemoteWrite, ToggleWrite, DeleteChat, LeaveChoose, LeaveWrite
    <3>2. QED
      BY <2>1, <3>1 DEF LockedBy, At
  <2>4. CASE PromoteRead(r)
    <3>1. /\ op[r] = "promote" /\ s = "write"
          /\ seen'[r] = "new" => target[r] \notin Locked
      <4>1. op[r] = "promote" /\ s = "write"
        BY <1>2, <2>4 DEF Onward, At, AddWrite, PromoteRead, PromoteWrite, RemoveWrite,
          RemoveSync, RemoveCount, DemoteWrite, ToggleWrite, DeleteChat, LeaveChoose, LeaveWrite
      <4>2. \/ target[r] \notin Locked
            \/ seen' = [seen EXCEPT ![r] = role[target[r]]]
        BY <2>4 DEF PromoteRead
      <4>3. target[r] \in Users
        BY <1>2, <2>4, BusyProceeds DEF Flow, Proceed
      <4>4. role[target[r]] # "new"
        BY <4>3 DEF TypeOK, Roles
      <4>5. QED
        BY <2>2, <4>1, <4>2, <4>4
    <3>2. QED
      BY <2>1, <3>1 DEF LockedBy, At
  <2>5. CASE PromoteWrite(r)
    <3>1. /\ op[r] = "promote" /\ s = "commit" /\ step[r] = "write"
          /\ seen[r] = "new" \/ target[r] \notin Locked
      BY <1>2, <2>2, <2>5 DEF Onward, At, AddWrite, PromoteRead, PromoteWrite, RemoveWrite,
        RemoveSync, RemoveCount, DemoteWrite, ToggleWrite, DeleteChat, LeaveChoose, LeaveWrite
    <3>2. QED
      BY <2>1, <3>1 DEF LockedBy, At
  <2>6. CASE LeaveWrite(r)
    <3>1. /\ op[r] = "leave" /\ s = "commit" /\ seen' = seen
          /\ {target[r], seen[r]} \cap Locked = {}
      BY <1>2, <2>2, <2>6 DEF Onward, At, AddWrite, PromoteRead, PromoteWrite, RemoveWrite,
        RemoveSync, RemoveCount, DemoteWrite, ToggleWrite, DeleteChat, LeaveChoose, LeaveWrite
    <3>2. QED
      BY <2>1, <3>1 DEF LockedBy, At
  <2>7. CASE RemoveWrite(r) \/ RemoveSync(r) \/ RemoveCount(r) \/ DemoteWrite(r) \/ ToggleWrite(r)
             \/ DeleteChat(r) \/ LeaveChoose(r)
    <3>1. op[r] \notin {"add", "promote"} /\ s # "commit"
      BY <1>2, <2>7 DEF Onward, At, AddWrite, PromoteRead, PromoteWrite, RemoveWrite,
        RemoveSync, RemoveCount, DemoteWrite, ToggleWrite, DeleteChat, LeaveChoose, LeaveWrite
    <3>2. QED
      BY <2>1, <3>1 DEF LockedBy, At
  <2>8. QED
    BY <1>2, <2>3, <2>4, <2>5, <2>6, <2>7 DEF Onward
<1>3. QED
  BY <1>1, <1>2, Proceedings

LEMMA StepKeepsLocks ==
  ASSUME TypeOK, \A r \in Requests : Flow(r), LocksApart, [Next]_vars
  PROVE  LocksApart'
<1>1. ASSUME NEW r \in Requests, BeginRequest(r)
      PROVE  LocksApart'
  <2>1. PICK o \in Ops, t \in Users, s \in StepNames \ {"idle"} : Beginning(r, o, t, s)
    BY <1>1, Beginnings
  <2>2. \A q \in Requests : q # r => LockedBy(q)' = LockedBy(q)
    BY <2>1, BeginStays, SameKeeps DEF Beginning
  <2>3. LockedBy(r)' = {}
    <3>1. step'[r] = s /\ op'[r] = o
      BY <2>1, BeginEffect DEF Beginning
    <3>2. s # "commit" /\ ~(o = "promote" /\ s = "write")
      BY <2>1 DEF Beginning
    <3>3. QED
      BY <3>1, <3>2 DEF LockedBy, At
  <2>4. QED
    BY <2>2, <2>3 DEF LocksApart
<1>2. ASSUME NEW r \in Requests, Proceed(r)
      PROVE  LocksApart'
  <2>1. \A q \in Requests : q # r => LockedBy(q)' = LockedBy(q)
    BY <1>2, OthersStay, SameKeeps DEF Same
  <2>2. LockedBy(r)' \subseteq LockedBy(r) \/ LockedBy(r)' \cap Locked = {}
    BY <1>2, LocksAreTaken
  <2>3. \A q \in Requests : q # r => LockedBy(r)' \cap LockedBy(q) = {}
    BY <2>2 DEF LocksApart, Locked
  <2>4. QED
    BY <2>1, <2>3 DEF LocksApart
<1>3. CASE UNCHANGED <<op, target, step, seen>>
  <2>1. \A q \in Requests : LockedBy(q)' = LockedBy(q)
    BY <1>3, SameKeeps DEF Same
  <2>2. QED
    BY <2>1 DEF LocksApart
<1>4. ASSUME NEW r \in Requests, Fail(r)
      PROVE  LocksApart'
  <2>1. LockedBy(r)' = {} /\ \A q \in Requests : q # r => LockedBy(q)' = LockedBy(q)
    BY <1>4, FailStays, SameKeeps
  <2>2. QED
    BY <2>1 DEF LocksApart
<1>5. QED
  BY <1>1, <1>2, <1>3, <1>4, WorldEffect

-----------------------------------------------------------------------------
(* The owner. *)

LEMMA RacesAreKept == OwnerRaces \in SUBSET Races /\ GrantRaces \in SUBSET Races
BY DEF Races

\* Requests that never overlap are never in progress together.
LEMMA Apart ==
  ASSUME OverlapsSeen, NEW P \in SUBSET Races, Never(P), NEW r \in Requests, NEW q \in Requests, r # q,
         Busy(r), Busy(q)
  PROVE  {op[r], op[q]} \notin P
BY DEF OverlapsSeen, Never

\* The steps of requests that write rows, and those that do not.
LEMMA RowsEffect ==
  ASSUME NEW r \in Requests, Proceed(r)
  PROVE  \/ AddCommit(r) \/ PromoteCommit(r) \/ RemoveWrite(r) \/ DemoteWrite(r)
         \/ LeaveCommit(r) \/ DeleteChat(r) \/ DeleteMembers(r)
         \/ RemoveSave(r) /\ UNCHANGED <<chat, role, active>>
         \/ /\ UNCHANGED <<chat, role, active, count>>
            /\ \/ AddWrite(r) \/ PromoteRead(r) \/ PromoteWrite(r) \/ RemoveSync(r) \/ RemoveCount(r)
               \/ ToggleWrite(r) \/ StaleSync(r) \/ LeaveChoose(r) \/ LeaveWrite(r)
BY DEF Proceed, AddWrite, PromoteRead, PromoteWrite, RemoveSync, RemoveCount, RemoveSave,
  ToggleWrite, StaleSync, LeaveChoose, LeaveWrite, rows

\* Who is a member no more was removed or left, or the group is closed.
LEMMA MembersStay ==
  ASSUME TypeOK, NEW r \in Requests, Proceed(r), NEW u \in active, u \notin active'
  PROVE  \/ RemoveWrite(r) /\ target[r] = u
         \/ LeaveCommit(r) /\ target[r] = u
         \/ DeleteMembers(r)
BY RowsEffect DEF AddCommit, PromoteCommit, RemoveWrite, DemoteWrite, LeaveCommit, DeleteChat

LEMMA ChatStays ==
  ASSUME NEW r \in Requests, Proceed(r), chat' = "active", Phases
  PROVE  chat = "active" /\ ~DeleteMembers(r) /\ ~DeleteChat(r)
         /\ (LeaveCommit(r) => seen[r] # NoUser)
BY RowsEffect DEF AddCommit, PromoteCommit, RemoveWrite, DemoteWrite, LeaveCommit, DeleteChat,
  DeleteMembers, Phases

LEMMA CreateIsFirst ==
  ASSUME Phases, Create
  PROVE  \A r \in Requests : ~Busy(r) /\ ~Busy(r)'
BY DEF Phases, Create, Idle, Busy, request

LEMMA StepKeepsTakesOver ==
  ASSUME TypeOK, \A r \in Requests : Flow(r), Phases, OverlapsSeen, TakesOver, [Next]_vars
  PROVE  TakesOver'
<1> DEFINE P == {{"leave"}, {"leave", "remove"}}
           Taking(q) == op[q] = "leave" /\ step[q] \in {"writeOwner", "commit"} /\ seen[q] \in Users
<1>0. P \in SUBSET Races
  BY DEF Races, OwnerRaces
<1>1. Never(P)' => Never(P)
  BY StepKeepsOverlaps DEF Never
<1>2. ASSUME NEW r \in Requests, BeginRequest(r), chat' = "active", Never(P)',
             NEW q \in Requests, Taking(q)'
      PROVE  seen'[q] \in active'
  <2>1. PICK o \in Ops, t \in Users, s \in StepNames \ {"idle"} : Beginning(r, o, t, s)
    BY <1>2, Beginnings
  <2>2. /\ chat' = chat /\ active' = active /\ op'[r] = o /\ step'[r] = s
    BY <2>1, BeginEffect DEF Beginning
  <2>3. q # r
    BY <1>2, <2>1, <2>2 DEF Beginning
  <2>4. Same(q)
    BY <2>1, <2>3, BeginStays DEF Beginning
  <2>5. QED
    BY <1>1, <1>2, <2>2, <2>4 DEF Same, TakesOver
<1>3. ASSUME NEW r \in Requests, Proceed(r), chat' = "active", Never(P)',
             NEW q \in Requests, Taking(q)'
      PROVE  seen'[q] \in active'
  <2>1. chat = "active" /\ Never(P) /\ ~DeleteMembers(r)
    BY <1>1, <1>3, ChatStays
  <2>2. CASE q # r
    <3>1. Same(q)
      BY <1>3, <2>2, OthersStay DEF Same
    <3>2. seen[q] \in active /\ Taking(q)
      BY <1>3, <2>1, <3>1 DEF Same, TakesOver
    <3>3. {op[q], op[r]} \notin P
      BY <1>0, <1>3, <2>1, <2>2, <3>2, Apart, BusyProceeds DEF Busy
    <3>4. ~RemoveWrite(r) /\ ~LeaveCommit(r)
      BY <3>2, <3>3 DEF RemoveWrite, LeaveCommit, At
    <3>5. QED
      BY <1>3, <2>1, <3>1, <3>2, <3>4, MembersStay DEF Same
  <2>3. CASE q = r
    <3>1. PICK s \in StepNames \ {"idle"} : Onward(r, s)
      <4>1. ~Ending(r)
        BY <1>3, <2>3, FinishEffect DEF Ending
      <4>2. QED
        BY <1>3, <4>1, Proceedings
    <3>2. op'[r] = op[r] /\ step'[r] = s
      BY <3>1, ContinueEffect DEF Onward
    <3>3. LeaveChoose(r) \/ LeaveWrite(r)
      BY <1>3, <2>3, <3>1, <3>2 DEF Onward, At, AddWrite, PromoteRead, PromoteWrite, RemoveWrite,
        RemoveSync, RemoveCount, DemoteWrite, ToggleWrite, DeleteChat
    <3>4. CASE LeaveChoose(r)
      <4>1. seen'[r] \in active \cup {NoUser} /\ active' = active
        BY <3>4 DEF LeaveChoose, Replacements, TypeOK, rows
      <4>2. QED
        BY <1>3, <2>3, <4>1, ConstantsAssumption DEF ConstantsAssumption
    <3>5. CASE LeaveWrite(r)
      <4>1. seen' = seen /\ active' = active /\ op[r] = "leave" /\ step[r] \in {"writeOwner", "write"}
        BY <3>5 DEF LeaveWrite, rows, At
      <4>2. step[r] = "writeOwner"
        BY <1>3, <2>3, <4>1, NamesAssumption DEF Flow, NamesAssumption, Marks
      <4>3. QED
        BY <1>3, <2>1, <2>3, <4>1, <4>2 DEF TakesOver
    <3>6. QED
      BY <3>3, <3>4, <3>5
  <2>4. QED
    BY <2>2, <2>3
<1>4. CASE Create
  BY <1>4, CreateIsFirst DEF TakesOver, Busy
<1>5. CASE UNCHANGED <<op, step, seen, overlaps, rows>>
  BY <1>5 DEF TakesOver, rows, Never
<1>6. ASSUME NEW r \in Requests, Fail(r), chat' = "active", Never(P)', NEW q \in Requests, Taking(q)'
      PROVE  seen'[q] \in active'
  <2>1. UNCHANGED <<chat, active, overlaps>> /\ step'[r] = "idle"
    BY <1>6, FailEffect
  <2>2. q # r /\ Same(q)
    BY <1>6, <2>1, FailStays
  <2>3. QED
    BY <1>1, <1>6, <2>1, <2>2 DEF Same, TakesOver
<1>7. QED
  <2>1. ASSUME \A q \in Requests : chat' = "active" /\ Never(P)' /\ Taking(q)' => seen'[q] \in active'
        PROVE  TakesOver'
    BY <2>1 DEF TakesOver
  <2>2. CASE \E r \in Requests : BeginRequest(r)
    BY <1>2, <2>1, <2>2
  <2>3. CASE \E r \in Requests : Proceed(r)
    BY <1>3, <2>1, <2>3
  <2>4. CASE \E r \in Requests : Fail(r)
    BY <1>6, <2>1, <2>4
  <2>5. QED
    BY <1>4, <1>5, <2>2, <2>3, <2>4, WorldEffect

\* While none of the races of an owner occurs, an owner is made only by a leave.
LEMMA OwnersStay ==
  ASSUME TypeOK, NEW r \in Requests, Flow(r), OwnerInv, Never(OwnerRaces), Proceed(r),
         ~LeaveCommit(r), NEW u \in Users
  PROVE  IsOwner(u)' <=> IsOwner(u)
<1>1. target[r] \in Users /\ role \in [Users -> Roles \cup {"none"}]
  BY BusyProceeds DEF Flow, TypeOK
<1>2. CASE AddCommit(r)
  BY <1>1, <1>2 DEF AddCommit, IsOwner
<1>3. CASE PromoteCommit(r)
  <2>1. seen[r] = "owner" <=> IsOwner(target[r])
    BY <1>3 DEF PromoteCommit, OwnerInv, At
  <2>2. QED
    BY <1>1, <1>3, <2>1 DEF PromoteCommit, IsOwner
<1>4. CASE DemoteWrite(r)
  <2>1. ~IsOwner(target[r])
    BY <1>4 DEF DemoteWrite, OwnerInv
  <2>2. QED
    BY <1>1, <1>4, <2>1 DEF DemoteWrite, IsOwner
<1>5. QED
  BY <1>2, <1>3, <1>4, RowsEffect DEF RemoveWrite, DeleteChat, DeleteMembers, IsOwner

LEMMA ActiveOwner ==
  ASSUME TypeOK, NEW r \in Requests, Flow(r), Phases, TakesOver, OwnerInv, Never(OwnerRaces),
         Proceed(r), chat' = "active"
  PROVE  \E u \in active' : IsOwner(u)'
<1>1. chat = "active" /\ ~DeleteMembers(r) /\ (LeaveCommit(r) => seen[r] # NoUser)
  BY ChatStays
<1>2. PICK w \in active : IsOwner(w)
  BY <1>1 DEF OwnerInv
<1>3. w \in Users /\ active \subseteq Users
  BY DEF TypeOK
<1>4. CASE LeaveCommit(r)
  <2>1. /\ op[r] = "leave" /\ step[r] = "commit" /\ active' = active \ {target[r]}
        /\ role' = [u \in Users |-> IF u = seen[r] THEN "owner" ELSE role[u]]
    BY <1>4 DEF LeaveCommit, At
  <2>2. seen[r] \in (Users \cup {"none"}) \ {target[r]}
    BY <1>1, <1>4, <2>1 DEF Flow, At
  <2>3. CASE seen[r] \in Users
    <3>1. seen[r] \in active
      BY <1>1, <2>1, <2>3 DEF TakesOver, Never, OwnerRaces
    <3>2. QED
      BY <2>1, <2>2, <2>3, <3>1 DEF IsOwner
  <2>4. CASE seen[r] = "none"
    <3>1. ~IsOwner(target[r])
      BY <2>1, <2>4 DEF OwnerInv, At
    <3>2. w \in active' /\ role'[w] = "owner"
      BY <1>2, <1>3, <2>1, <3>1 DEF IsOwner
    <3>3. QED
      BY <3>2 DEF IsOwner
  <2>5. QED
    BY <2>2, <2>3, <2>4
<1>5. CASE ~LeaveCommit(r)
  <2>1. IsOwner(w)'
    BY <1>2, <1>3, <1>5, OwnersStay
  <2>2. RemoveWrite(r) => target[r] # w
    BY <1>2 DEF OwnerInv, RemoveWrite
  <2>3. w \in active'
    BY <1>1, <1>5, <2>2, MembersStay
  <2>4. QED
    BY <2>1, <2>3
<1>6. QED
  BY <1>4, <1>5

\* What r has found out about the owner.
Knows(r) ==
  /\ At(r, "remove", "write") \/ At(r, "demote", "write") => ~IsOwner(target[r])
  /\ op[r] = "promote" /\ step[r] \in {"write", "commit"} => (seen[r] = "owner" <=> IsOwner(target[r]))
  /\ At(r, "leave", "write") => ~IsOwner(target[r])
  /\ At(r, "leave", "commit") /\ seen[r] = "none" => ~IsOwner(target[r])

LEMMA OthersKnow ==
  ASSUME TypeOK, \A x \in Requests : Flow(x), OverlapsSeen, OwnerInv, Never(OwnerRaces),
         NEW r \in Requests, Proceed(r), NEW q \in Requests, q # r
  PROVE  Knows(q)'
<1>1. Same(q)
  BY OthersStay DEF Same
<1>2. Knows(q) /\ (Busy(q) => target[q] \in Users)
  BY DEF OwnerInv, Knows, Flow, Busy
<1>3. CASE LeaveCommit(r)
  <2>1. op[r] = "leave" /\ Busy(r)
    BY <1>3 DEF LeaveCommit, At, Busy
  <2>2. Busy(q) => {op[q], op[r]} \notin OwnerRaces
    BY <2>1, Apart, RacesAreKept
  <2>3. op[q] \in {"leave", "remove", "demote", "promote"} => ~Busy(q)
    BY <2>1, <2>2 DEF OwnerRaces
  <2>4. QED
    BY <1>1, <2>3 DEF Same, Knows, Busy, At
<1>4. CASE ~LeaveCommit(r)
  <2>1. Busy(q) => (IsOwner(target[q])' <=> IsOwner(target[q]))
    <3>1. Busy(q) => (role'[target[q]] = "owner" <=> role[target[q]] = "owner")
      BY <1>2, <1>4, OwnersStay DEF IsOwner
    <3>2. QED
      BY <1>1, <3>1 DEF IsOwner, Same
  <2>2. QED
    BY <1>1, <1>2, <2>1 DEF Same, Knows, Busy, At
<1>5. QED
  BY <1>3, <1>4

LEMMA ItselfKnows ==
  ASSUME TypeOK, NEW r \in Requests, Flow(r), OwnerInv, Never(OwnerRaces), Proceed(r)
  PROVE  Knows(r)'
<1>1. CASE Ending(r)
  BY <1>1, FinishEffect DEF Ending, Knows, At
<1>2. ASSUME NEW s \in StepNames \ {"idle"}, Onward(r, s)
      PROVE  Knows(r)'
  <2>1. op'[r] = op[r] /\ target'[r] = target[r] /\ step'[r] = s
    BY <1>2, ContinueEffect DEF Onward
  <2>2. seen \in [Requests -> Users \cup {NoUser} \cup Marks]
    BY DEF TypeOK
  <2>3. CASE PromoteRead(r)
    <3>1. \/ seen'[r] = "new" /\ role[target[r]] = "none"
          \/ seen'[r] = role[target[r]]
      BY <2>2, <2>3 DEF PromoteRead
    <3>2. op[r] = "promote" /\ role' = role
      BY <2>3 DEF PromoteRead, rows, At
    <3>3. QED
      BY <2>1, <3>1, <3>2 DEF Knows, At, IsOwner
  <2>4. CASE PromoteWrite(r)
    <3>1. op[r] = "promote" /\ step[r] = "write" /\ role' = role /\ seen' = seen
      BY <2>4 DEF PromoteWrite, rows, At
    <3>2. QED
      BY <2>1, <3>1 DEF Knows, At, IsOwner, OwnerInv
  <2>5. CASE LeaveWrite(r)
    <3>1. /\ op[r] = "leave" /\ step[r] \in {"writeOwner", "write"} /\ role' = role /\ seen' = seen
          /\ s = "commit"
      BY <1>2, <2>5 DEF Onward, LeaveWrite, rows, At, AddWrite, PromoteRead, PromoteWrite, RemoveWrite,
        RemoveSync, RemoveCount, DemoteWrite, ToggleWrite, DeleteChat, LeaveChoose
    <3>2. seen[r] = "none" => step[r] = "write"
      BY <3>1, NamesAssumption DEF Flow, At, NamesAssumption, Marks
    <3>3. QED
      BY <2>1, <3>1, <3>2 DEF Knows, At, IsOwner, OwnerInv
  <2>6. CASE AddWrite(r) \/ RemoveWrite(r) \/ RemoveSync(r) \/ RemoveCount(r) \/ DemoteWrite(r)
             \/ ToggleWrite(r) \/ LeaveChoose(r) \/ DeleteChat(r)
    <3>1. op[r] # "promote" /\ s # "write" /\ (op[r] = "leave" => s # "commit")
      BY <1>2, <2>6 DEF Onward, At, AddWrite, PromoteRead, PromoteWrite, RemoveWrite,
        RemoveSync, RemoveCount, DemoteWrite, ToggleWrite, DeleteChat, LeaveChoose, LeaveWrite
    <3>2. QED
      BY <2>1, <3>1 DEF Knows, At
  <2>7. QED
    BY <1>2, <2>3, <2>4, <2>5, <2>6 DEF Onward
<1>3. QED
  BY <1>1, <1>2, Proceedings

LEMMA StepKeepsOwner ==
  ASSUME TypeOK, \A r \in Requests : Flow(r), Phases, OverlapsSeen, TakesOver, OwnerInv,
         [Next]_vars
  PROVE  OwnerInv'
<1>1. Never(OwnerRaces)' => Never(OwnerRaces)
  BY StepKeepsOverlaps DEF Never
<1>2. ASSUME NEW r \in Requests, BeginRequest(r), Never(OwnerRaces)'
      PROVE  OwnerInv'
  <2>1. PICK o \in Ops, t \in Users, s \in StepNames \ {"idle"} : Beginning(r, o, t, s)
    BY <1>2, Beginnings
  <2>2. /\ UNCHANGED <<chat, active, role, seen>>
        /\ op'[r] = o /\ step'[r] = s /\ target'[r] = t
        /\ \A q \in Requests : q # r => op'[q] = op[q] /\ target'[q] = target[q] /\ step'[q] = step[q]
    BY <2>1, BeginEffect DEF Beginning
  <2>3. Knows(r)'
    BY <2>1, <2>2 DEF Beginning, Knows, At, IsOwner
  <2>4. \A q \in Requests : q # r => (Knows(q) => Knows(q)')
    BY <2>2 DEF Knows, At, IsOwner
  <2>5. \A q \in Requests : Knows(q)'
    BY <1>1, <1>2, <2>3, <2>4 DEF OwnerInv, Knows
  <2>6. chat' = "active" => \E u \in active' : IsOwner(u)'
    BY <1>1, <1>2, <2>2 DEF OwnerInv, IsOwner
  <2>7. QED
    BY <2>5, <2>6 DEF OwnerInv, Knows
<1>3. ASSUME NEW r \in Requests, Proceed(r), Never(OwnerRaces)'
      PROVE  OwnerInv'
  <2>1. \A q \in Requests : Knows(q)'
    BY <1>1, <1>3, OthersKnow, ItselfKnows
  <2>2. chat' = "active" => \E u \in active' : IsOwner(u)'
    BY <1>1, <1>3, ActiveOwner
  <2>3. QED
    BY <2>1, <2>2 DEF OwnerInv, Knows
<1>4. CASE Create
  <2>1. \A q \in Requests : ~Busy(q)'
    BY <1>4, CreateIsFirst
  <2>2. \A q \in Requests : Knows(q)'
    <3>1. \A q \in Requests : step'[q] = "idle"
      BY <2>1 DEF Busy
    <3>2. QED
      BY <3>1 DEF Knows, At
  <2>3. \E u \in active' : IsOwner(u)'
    BY <1>4 DEF Create, IsOwner
  <2>4. QED
    BY <2>2, <2>3 DEF OwnerInv, Knows
<1>5. CASE UNCHANGED <<op, target, step, seen, overlaps, rows>>
  BY <1>5 DEF OwnerInv, rows, Never, At, IsOwner
<1>6. CASE ~Never(OwnerRaces)'
  BY <1>6 DEF OwnerInv
<1>7. ASSUME NEW r \in Requests, Fail(r), Never(OwnerRaces)'
      PROVE  OwnerInv'
  <2>1. UNCHANGED <<chat, role, active>> /\ op'[r] = "none" /\ step'[r] = "idle"
    BY <1>7, FailEffect
  <2>2. \A q \in Requests : q # r => (Knows(q) => Knows(q)')
    BY <1>7, <2>1, FailStays DEF Same, Knows, At, IsOwner
  <2>3. Knows(r)'
    BY <2>1 DEF Knows, At
  <2>4. \A q \in Requests : Knows(q)'
    BY <1>1, <1>7, <2>2, <2>3 DEF OwnerInv, Knows
  <2>5. chat' = "active" => \E u \in active' : IsOwner(u)'
    BY <1>1, <1>7, <2>1 DEF OwnerInv, IsOwner
  <2>6. QED
    BY <2>4, <2>5 DEF OwnerInv, Knows
<1>8. QED
  BY <1>2, <1>3, <1>4, <1>5, <1>6, <1>7, WorldEffect

-----------------------------------------------------------------------------
(* The keys in Redis. *)

Granting == chat = "active" /\ Never(GrantRaces)

\* What the grant invariant says of one request.
Keeps(q) ==
  /\ op[q] \in {"leave", "demote", "toggle"} => target[q] \in active
  /\ At(q, "leave", "commit") => target[q] \notin cached

LEMMA GrantPairs ==
  /\ Never(GrantRaces) => Never({{"leave"}, {"leave", "remove"}})
  /\ \A o \in {"remove", "leave"}, x \in {"leave", "demote", "toggle"} : {x, o} \in GrantRaces
<1>1. \A o \in {"remove", "leave"}, x \in {"leave", "demote", "toggle"} : {x, o} \in GrantRaces
  <2>1. ASSUME NEW o \in {"remove", "leave"}, NEW x \in {"leave", "demote", "toggle"}
        PROVE  {x, o} \in GrantRaces
    <3>1. {x, o} = {o, x}
      OBVIOUS
    <3>2. QED
      BY <3>1 DEF GrantRaces
  <2>2. QED
    BY <2>1
<1>2. {"leave"} \in GrantRaces /\ {"leave", "remove"} \in GrantRaces
  <2>1. {"leave"} = {"leave", "leave"}
    OBVIOUS
  <2>2. QED
    BY <1>1, <2>1
<1>3. QED
  BY <1>1, <1>2 DEF Never

LEMMA OthersKeep ==
  ASSUME TypeOK, \A x \in Requests : Flow(x), OverlapsSeen, LocksApart, GrantInv, Granting,
         NEW r \in Requests, Proceed(r), ~DeleteMembers(r), NEW q \in Requests, q # r
  PROVE  Keeps(q)'
<1>1. Same(q) /\ Keeps(q) /\ Busy(r)
  BY OthersStay, BusyProceeds DEF Same, GrantInv, Keeps, Granting, Busy
<1>2. op[q] # "none" => {op[q], op[r]} \notin GrantRaces
  BY <1>1, Apart, RacesAreKept DEF Granting, Flow, Busy
<1>3. ASSUME op[q] \in {"leave", "demote", "toggle"}
      PROVE  target[q] \in active' /\ op[r] \notin {"remove", "leave"}
  <2>1. op[r] \notin {"remove", "leave"}
    BY <1>2, <1>3, GrantPairs
  <2>2. target[q] \in active /\ ~RemoveWrite(r) /\ ~LeaveCommit(r)
    BY <1>1, <1>3, <2>1 DEF Keeps, RemoveWrite, LeaveCommit, At
  <2>3. QED
    BY <2>1, <2>2, MembersStay
<1>4. ASSUME At(q, "leave", "commit")
      PROVE  target[q] \notin cached'
  <2> DEFINE u == target[q]
  <2>1. /\ u \in active /\ u \notin cached /\ u \in LockedBy(q) /\ role[u] # "none" /\ u \in Users
        /\ op[q] = "leave"
    <3>1. u \in active /\ u \notin cached /\ op[q] = "leave"
      BY <1>1, <1>4 DEF Keeps, At
    <3>2. u \in Users /\ role[u] # "none"
      BY <3>1 DEF TypeOK
    <3>3. LockedBy(q) = {target[q], seen[q]} \cap Users
      BY <1>4 DEF LockedBy, At
    <3>4. QED
      BY <3>1, <3>2, <3>3
  <2>2. op[r] \notin {"demote", "toggle", "leave"}
    <3>1. {op[q], op[r]} = {op[r], op[q]}
      OBVIOUS
    <3>2. QED
      BY <1>2, <2>1, <3>1, GrantPairs
  <2>9. target[q] = u
    OBVIOUS
  <2> HIDE DEF u
  <2>3. CASE AddWrite(r)
    BY <2>1, <2>3, <2>9 DEF AddWrite
  <2>4. CASE PromoteRead(r)
    BY <2>1, <2>4, <2>9 DEF PromoteRead
  <2>5. CASE PromoteWrite(r)
    <3>1. target[r] # u
      <4>1. CASE seen[r] = "new"
        <5>1. target[r] \in LockedBy(r)
          BY <2>5, <4>1 DEF PromoteWrite, LockedBy, At
        <5>2. QED
          BY <2>1, <5>1 DEF LocksApart
      <4>2. CASE target[r] \notin Locked
        BY <2>1, <4>2 DEF Locked
      <4>3. QED
        BY <2>5, <4>1, <4>2 DEF PromoteWrite
    <3>2. QED
      BY <2>1, <2>5, <2>9, <3>1 DEF PromoteWrite
  <2>6. CASE StaleSync(r) \/ LeaveWrite(r)
    BY <2>2, <2>6 DEF StaleSync, LeaveWrite, At
  <2>7. CASE cached' \subseteq cached
    BY <2>1, <2>7, <2>9
  <2>8. QED
    BY <2>3, <2>4, <2>5, <2>6, <2>7, RowsEffect DEF AddCommit, PromoteCommit, RemoveWrite, DemoteWrite,
      LeaveCommit, DeleteChat, DeleteMembers, RemoveSave, RemoveSync, RemoveCount, ToggleWrite,
      LeaveChoose, u
<1>5. QED
  BY <1>1, <1>3, <1>4 DEF Keeps, Same, At

LEMMA ItselfKeeps ==
  ASSUME TypeOK, NEW r \in Requests, Flow(r), GrantInv, Granting, Proceed(r)
  PROVE  Keeps(r)'
<1>1. CASE Ending(r)
  BY <1>1, FinishEffect DEF Ending, Keeps, At
<1>2. ASSUME NEW s \in StepNames \ {"idle"}, Onward(r, s)
      PROVE  Keeps(r)'
  <2>1. op'[r] = op[r] /\ target'[r] = target[r] /\ step'[r] = s
    BY <1>2, ContinueEffect DEF Onward
  <2>2. ~LeaveCommit(r) /\ ~DeleteMembers(r)
    BY <1>2 DEF Onward, At, AddWrite, PromoteRead, PromoteWrite, RemoveWrite, RemoveSync, RemoveCount,
      DemoteWrite, ToggleWrite, DeleteChat, LeaveChoose, LeaveWrite, LeaveCommit, DeleteMembers
  <2>3. op[r] \in {"leave", "demote", "toggle"} => target[r] \in active'
    <3>1. ASSUME op[r] \in {"leave", "demote", "toggle"}
          PROVE  target[r] \in active /\ ~RemoveWrite(r)
      BY <3>1 DEF GrantInv, Granting, RemoveWrite, At
    <3>2. QED
      BY <2>2, <3>1, MembersStay
  <2>4. op[r] = "leave" /\ s = "commit" => target[r] \notin cached'
    <3>1. op[r] = "leave" /\ s = "commit" => LeaveWrite(r)
      BY <1>2 DEF Onward, At, AddWrite, PromoteRead, PromoteWrite, RemoveWrite, RemoveSync, RemoveCount,
        DemoteWrite, ToggleWrite, DeleteChat, LeaveChoose
    <3>2. QED
      BY <3>1 DEF LeaveWrite
  <2>5. QED
    BY <2>1, <2>3, <2>4 DEF Keeps, At
<1>3. QED
  BY <1>1, <1>2, Proceedings

LEMMA KeysAreSettled ==
  ASSUME TypeOK, \A x \in Requests : Flow(x), TakesOver, GrantInv, Granting,
         NEW r \in Requests, Proceed(r), ~DeleteMembers(r), leftover' = leftover \cap (cached' \ active'),
         NEW u \in cached', u \notin active', u \notin leftover'
  PROVE  \E q \in Requests : Settles(q, u)'
<1>0. /\ seen \in [Requests -> Users \cup {NoUser} \cup Marks] /\ op[r] # "none"
      /\ step \in [Requests -> StepNames]
  BY BusyProceeds DEF TypeOK, Flow
<1>1. CASE u \in cached /\ u \notin active
  <2>1. PICK q \in Requests : Settles(q, u)
    <3>1. u \notin leftover
      OBVIOUS
    <3>2. QED
      BY <1>1, <3>1 DEF GrantInv, Granting
  <2>2. CASE q # r
    <3>1. Same(q)
      BY <2>2, OthersStay DEF Same
    <3>2. Settles(q, u)' = Settles(q, u)
      BY <3>1, SameKeeps
    <3>3. QED
      BY <2>1, <3>2
  <2>3. CASE q = r
    <3>1. RemoveSync(r) \/ AddCommit(r) \/ PromoteCommit(r) \/ PromoteWrite(r)
      BY <2>1, <2>3 DEF Settles, At, Proceed, AddWrite, PromoteRead, RemoveWrite, RemoveCount,
        RemoveSave, DemoteWrite, ToggleWrite, StaleSync, LeaveChoose, LeaveWrite, LeaveCommit,
        DeleteChat, DeleteMembers
    <3>2. ~RemoveSync(r)
      BY <2>1, <2>3 DEF RemoveSync, Settles
    <3>3. ~AddCommit(r)
      BY <2>1, <2>3 DEF AddCommit, Settles, At
    <3>4. ~PromoteCommit(r)
      BY <2>1, <2>3 DEF PromoteCommit, Settles
    <3>5. Settles(r, u)'
      BY <1>0, <2>1, <2>3, <3>1, <3>2, <3>3, <3>4 DEF PromoteWrite, Continue, Settles, At
    <3>6. QED
      BY <3>5
  <2>4. QED
    BY <2>2, <2>3
<1>2. CASE u \notin cached
  <2>1. \/ AddWrite(r) /\ cached' = cached \cup {target[r]}
        \/ PromoteRead(r) /\ cached' = cached \cup {target[r]}
        \/ PromoteWrite(r) /\ cached' = cached \cup {target[r]}
        \/ StaleSync(r) /\ cached' = cached \cup {target[r]}
        \/ LeaveWrite(r) /\ cached' = (cached \cup ({seen[r]} \cap Users)) \ {target[r]}
        \/ cached' \subseteq cached
    BY RowsEffect DEF AddCommit, PromoteCommit, RemoveWrite, DemoteWrite, LeaveCommit, DeleteChat,
      DeleteMembers, RemoveSave, RemoveSync, RemoveCount, ToggleWrite, LeaveChoose, AddWrite,
      PromoteRead, PromoteWrite, StaleSync, LeaveWrite
  <2>2. CASE AddWrite(r) /\ cached' = cached \cup {target[r]}
    <3>1. target[r] = u /\ u \notin active
      BY <1>2, <2>2 DEF AddWrite, rows
    <3>2. seen[r] = "none" /\ seen' = seen
      BY <2>2, <3>1 DEF AddWrite, Flow, At
    <3>3. Settles(r, u)'
      BY <1>0, <2>2, <3>1, <3>2 DEF AddWrite, Continue, Settles, At
    <3>4. QED
      BY <3>3
  <2>3. CASE PromoteRead(r) /\ cached' = cached \cup {target[r]}
    <3>1. target[r] = u
      BY <1>2, <2>3
    <3>2. seen' = [seen EXCEPT ![r] = "new"]
      BY <1>2, <2>3, <3>1 DEF PromoteRead
    <3>3. Settles(r, u)'
      BY <1>0, <2>3, <3>1, <3>2 DEF PromoteRead, Continue, Settles, At
    <3>4. QED
      BY <3>3
  <2>4. CASE PromoteWrite(r) /\ cached' = cached \cup {target[r]}
    <3>1. Settles(r, u)'
      BY <1>0, <1>2, <2>4 DEF PromoteWrite, Continue, Settles, At
    <3>2. QED
      BY <3>1
  <2>5. CASE StaleSync(r) /\ cached' = cached \cup {target[r]}
    <3>1. target[r] = u /\ target[r] \in active /\ active' = active
      BY <1>2, <2>5 DEF StaleSync, GrantInv, Granting, At, rows
    <3>2. QED
      BY <3>1
  <2>6. CASE LeaveWrite(r) /\ cached' = (cached \cup ({seen[r]} \cap Users)) \ {target[r]}
    <3>1. seen[r] = u /\ u \in Users
      BY <1>2, <2>6
    <3>2. op[r] = "leave" /\ step[r] = "writeOwner"
      BY <2>6, <3>1, NamesAssumption DEF LeaveWrite, At, Flow, NamesAssumption, Marks
    <3>3. u \in active /\ active' = active
      BY <2>6, <3>1, <3>2, GrantPairs DEF TakesOver, Granting, LeaveWrite, rows
    <3>4. QED
      BY <3>3
  <2>7. QED
    BY <1>2, <2>1, <2>2, <2>3, <2>4, <2>5, <2>6
<1>3. CASE u \in cached /\ u \in active
  <2>1. (RemoveWrite(r) \/ LeaveCommit(r)) /\ target[r] = u
    BY <1>3, MembersStay
  <2>2. ~LeaveCommit(r) \/ target[r] # u
    BY <1>3 DEF LeaveCommit, GrantInv, Granting
  <2>3. Settles(r, u)'
    BY <1>0, <2>1, <2>2 DEF RemoveWrite, Continue, Settles, At
  <2>4. QED
    BY <2>3
<1>4. QED
  BY <1>1, <1>2, <1>3

LEMMA StepKeepsGrant ==
  ASSUME TypeOK, \A r \in Requests : Flow(r), Phases, OverlapsSeen, LocksApart, TakesOver, GrantInv,
         [Next]_vars
  PROVE  GrantInv'
<1>1. Never(GrantRaces)' => Never(GrantRaces)
  BY StepKeepsOverlaps DEF Never
<1>2. ASSUME NEW r \in Requests, BeginRequest(r), Granting', leftover' = leftover \cap (cached' \ active')
      PROVE  GrantInv'
  <2>1. PICK o \in Ops, t \in Users, s \in StepNames \ {"idle"} : Beginning(r, o, t, s)
    BY <1>2, Beginnings
  <2>2. /\ UNCHANGED <<chat, active, cached, seen>> /\ step[r] = "idle"
        /\ op'[r] = o /\ step'[r] = s /\ target'[r] = t
        /\ \A q \in Requests : q # r => op'[q] = op[q] /\ target'[q] = target[q] /\ step'[q] = step[q]
    BY <2>1, BeginEffect DEF Beginning
  <2>3. GrantInv /\ Granting
    BY <1>1, <1>2, <2>2 DEF Granting
  <2>4. Keeps(r)'
    BY <2>1, <2>2 DEF Beginning, Keeps, At
  <2>5. \A q \in Requests : q # r => Keeps(q)'
    BY <2>2, <2>3 DEF GrantInv, Granting, Keeps, At
  <2>6. ASSUME NEW u \in (cached' \ active') \ leftover'
        PROVE  \E q \in Requests : Settles(q, u)'
    <3>0. u \in (cached \ active) \ leftover
      BY <1>2, <2>2, <2>6
    <3>1. PICK q \in Requests : Settles(q, u)
      BY <2>3, <3>0 DEF GrantInv, Granting
    <3>2. q # r
      BY <2>2, <3>1 DEF Settles, At
    <3>3. Settles(q, u)'
      BY <2>2, <3>1, <3>2 DEF Settles, At
    <3>4. QED
      BY <3>3
  <2>7. QED
    BY <2>4, <2>5, <2>6 DEF GrantInv, Keeps
<1>3. ASSUME NEW r \in Requests, Proceed(r), Granting', leftover' = leftover \cap (cached' \ active')
      PROVE  GrantInv'
  <2>1. Granting /\ ~DeleteMembers(r)
    BY <1>1, <1>3, ChatStays DEF Granting
  <2>2. \A q \in Requests : Keeps(q)'
    BY <1>3, <2>1, OthersKeep, ItselfKeeps
  <2>3. \A u \in (cached' \ active') \ leftover' : \E q \in Requests : Settles(q, u)'
    BY <1>3, <2>1, KeysAreSettled
  <2>4. QED
    BY <2>2, <2>3 DEF GrantInv, Keeps
<1>4. CASE Create
  <2>1. \A q \in Requests : step'[q] = "idle"
    BY <1>4, CreateIsFirst DEF Busy
  <2>2. \A q \in Requests : op'[q] = "none"
    BY <2>1, StepKeepsFlow DEF Flow
  <2>3. cached' \subseteq active'
    BY <1>4 DEF Create
  <2>4. QED
    BY <2>1, <2>2, <2>3 DEF GrantInv, At
<1>5. ASSUME UNCHANGED <<op, target, step, seen, overlaps, rows>>, cached' \subseteq cached,
             leftover' = leftover \cap (cached' \ active')
      PROVE  GrantInv'
  <2>1. \A q \in Requests, u \in cached : Settles(q, u)' = Settles(q, u)
    BY <1>5, SameKeeps DEF Same
  <2>2. (cached' \ active') \ leftover' \subseteq (cached \ active) \ leftover
    BY <1>5 DEF rows
  <2>3. QED
    BY <1>5, <2>1, <2>2 DEF GrantInv, Never, At, rows
<1>6. ASSUME UNCHANGED <<op, target, step, seen, overlaps, rows>>, cached' = active, Idle
      PROVE  GrantInv'
  <2>1. \A q \in Requests : op'[q] = "none" /\ ~At(q, "leave", "commit")'
    BY <1>6 DEF Idle, Flow, At
  <2>2. QED
    BY <1>6, <2>1 DEF GrantInv, rows
<1>7. CASE ~Granting'
  BY <1>7 DEF GrantInv, Granting
<1>8. ASSUME NEW r \in Requests, Fail(r), Granting'
      PROVE  GrantInv'
  <2>1. /\ UNCHANGED <<chat, active>> /\ op'[r] = "none" /\ step'[r] = "idle"
        /\ leftover' = (leftover \cup {target[r]}) \cap (cached' \ active')
        /\ \/ cached' = cached
           \/ /\ At(r, "leave", "writeOwner") /\ seen[r] \in Users \ Locked
              /\ cached' = cached \cup {seen[r]}
    BY <1>8, FailEffect
  <2>2. Granting /\ \A q \in Requests : Keeps(q)
    BY <1>1, <1>8, <2>1 DEF Granting, GrantInv, Keeps
  <2>3. \A q \in Requests : q # r => Same(q)
    BY <1>8, FailStays
  <2>4. ASSUME NEW q \in Requests, q # r
        PROVE  Keeps(q)'
    <3>1. Same(q) /\ Keeps(q)
      BY <2>2, <2>3, <2>4
    <3>2. ASSUME At(q, "leave", "commit")
          PROVE  target[q] \notin cached'
      <4>1. target[q] \notin cached /\ target[q] \in active
        BY <2>2, <3>2 DEF Keeps, At
      <4>2. target[q] \in Locked
        <5>1. LockedBy(q) = {target[q], seen[q]} \cap Users
          BY <3>2 DEF LockedBy, At
        <5>2. target[q] \in Users
          BY <4>1 DEF TypeOK
        <5>3. QED
          BY <5>1, <5>2 DEF Locked
      <4>3. QED
        BY <2>1, <4>1, <4>2
    <3>3. QED
      BY <2>1, <3>1, <3>2 DEF Keeps, Same, At
  <2>5. Keeps(r)'
    BY <2>1 DEF Keeps, At
  <2>6. ASSUME NEW u \in (cached' \ active') \ leftover'
        PROVE  \E q \in Requests : Settles(q, u)'
    <3>1. u \in cached
      <4>1. CASE At(r, "leave", "writeOwner") /\ seen[r] \in Users
        BY <2>1, <2>2, <2>6, <4>1, GrantPairs DEF TakesOver, Granting, At
      <4>2. QED
        BY <2>1, <2>6, <4>1
    <3>2. u \notin active /\ u \notin leftover /\ u # target[r]
      BY <2>1, <2>6
    <3>3. PICK q \in Requests : Settles(q, u)
      BY <2>2, <3>1, <3>2 DEF GrantInv, Granting
    <3>4. q # r
      BY <3>2, <3>3 DEF Settles
    <3>5. QED
      BY <2>3, <3>3, <3>4, SameKeeps
  <2>7. QED
    BY <2>4, <2>5, <2>6 DEF GrantInv, Keeps
<1>9. CASE \E r \in Requests : Fail(r)
  BY <1>7, <1>8, <1>9
<1>10. CASE leftover' = leftover \cap (cached' \ active')
  BY <1>2, <1>3, <1>4, <1>5, <1>6, <1>7, <1>9, <1>10, WorldEffect
<1>11. QED
  BY <1>9, <1>10, KeysAreLeft

-----------------------------------------------------------------------------
(* The count of the members. *)

Counts(q) ==
  /\ At(q, "add", "commit") => /\ counted[q] = Cardinality(active \cup {target[q]})
                               /\ seen[q] = "kept" => target[q] \in active
  /\ At(q, "promote", "commit") => counted[q] = Cardinality(active \cup {target[q]})
  /\ At(q, "leave", "commit") => counted[q] = Cardinality(active \ {target[q]})
  /\ At(q, "remove", "save") => counted[q] = Cardinality(active)

\* A request that is no change leaves the members as they are.
LEMMA OnlyChangesChange ==
  ASSUME NEW r \in Requests, Proceed(r), op[r] \notin Changes
  PROVE  active' = active
BY RowsEffect DEF Changes, At, AddCommit, PromoteCommit, RemoveWrite, DemoteWrite, LeaveCommit,
  DeleteChat, DeleteMembers

LEMMA OthersCount ==
  ASSUME TypeOK, OverlapsSeen, CountRight, NEW r \in Requests, Proceed(r),
         NEW q \in Requests, q # r, met'[q] \cap Changes = {}
  PROVE  Counts(q)'
<1>1. /\ op'[q] = op[q] /\ target'[q] = target[q] /\ step'[q] = step[q]
      /\ seen'[q] = seen[q] /\ counted'[q] = counted[q] /\ met'[q] = met[q]
  BY OthersStay
<1>2. Counts(q)
  BY <1>1 DEF CountRight, Counts
<1>3. CASE Busy(q)
  <2>1. op[r] \in met[q]
    BY <1>3, BusyProceeds DEF OverlapsSeen, Busy
  <2>2. active' = active
    BY <1>1, <2>1, OnlyChangesChange
  <2>3. QED
    BY <1>1, <1>2, <2>2 DEF Counts, At
<1>4. CASE ~Busy(q)
  BY <1>1, <1>4 DEF Counts, At, Busy
<1>5. QED
  BY <1>3, <1>4

LEMMA ItselfCounts ==
  ASSUME TypeOK, NEW r \in Requests, Flow(r), Proceed(r)
  PROVE  Counts(r)'
<1>1. CASE Ending(r)
  BY <1>1, FinishEffect DEF Ending, Counts, At
<1>2. ASSUME NEW s \in StepNames \ {"idle"}, Onward(r, s)
      PROVE  Counts(r)'
  <2>1. op'[r] = op[r] /\ target'[r] = target[r] /\ step'[r] = s
    BY <1>2, ContinueEffect DEF Onward
  <2>2. /\ target[r] \in Users /\ active \subseteq Users /\ seen \in [Requests -> Users \cup {NoUser} \cup Marks]
    BY BusyProceeds DEF Flow, TypeOK
  <2>3. CASE AddWrite(r)
    <3>1. op[r] = "add" /\ active' = active /\ Recount(r, active \cup {target[r]})
      BY <2>3 DEF AddWrite, At, rows
    <3>2. counted'[r] = Cardinality(active \cup {target[r]})
      BY <2>2, <3>1, RecountEffect
    <3>3. seen'[r] = "kept" => target[r] \in active
      BY <2>2, <2>3 DEF AddWrite, Flow, At
    <3>4. QED
      BY <2>1, <3>1, <3>2, <3>3 DEF Counts, At
  <2>4. CASE PromoteWrite(r)
    <3>1. op[r] = "promote" /\ active' = active /\ Recount(r, active \cup {target[r]})
      BY <2>4 DEF PromoteWrite, At, rows
    <3>2. counted'[r] = Cardinality(active \cup {target[r]})
      BY <2>2, <3>1, RecountEffect
    <3>3. QED
      BY <2>1, <3>1, <3>2 DEF Counts, At
  <2>5. CASE LeaveWrite(r)
    <3>1. op[r] = "leave" /\ active' = active /\ Recount(r, active \ {target[r]})
      BY <2>5 DEF LeaveWrite, At, rows
    <3>2. counted'[r] = Cardinality(active \ {target[r]})
      BY <2>2, <3>1, RecountEffect
    <3>3. QED
      BY <2>1, <3>1, <3>2 DEF Counts, At
  <2>6. CASE RemoveCount(r)
    <3>1. op[r] = "remove" /\ active' = active /\ Recount(r, active)
      BY <2>6 DEF RemoveCount, At, rows
    <3>2. counted'[r] = Cardinality(active)
      BY <2>2, <3>1, RecountEffect
    <3>3. QED
      BY <2>1, <3>1, <3>2 DEF Counts, At
  <2>7. CASE ~(AddWrite(r) \/ PromoteWrite(r) \/ LeaveWrite(r) \/ RemoveCount(r))
    <3>1. s \notin {"commit", "save"}
      BY <1>2, <2>7 DEF Onward
    <3>2. QED
      BY <2>1, <3>1 DEF Counts, At
  <2>8. QED
    BY <2>3, <2>4, <2>5, <2>6, <2>7
<1>3. QED
  BY <1>1, <1>2, Proceedings

LEMMA StepKeepsCount ==
  ASSUME TypeOK, \A r \in Requests : Flow(r), Phases, OverlapsSeen, CountRight, [Next]_vars
  PROVE  CountRight'
<1>1. ASSUME NEW r \in Requests, BeginRequest(r), NEW q \in Requests, met'[q] \cap Changes = {}
      PROVE  Counts(q)'
  <2>1. PICK o \in Ops, t \in Users, s \in StepNames \ {"idle"} : Beginning(r, o, t, s)
    BY <1>1, Beginnings
  <2>2. /\ UNCHANGED <<active, seen, counted>> /\ step'[r] = s
        /\ q # r => op'[q] = op[q] /\ target'[q] = target[q] /\ step'[q] = step[q]
    BY <2>1, BeginEffect DEF Beginning
  <2>3. CASE q = r
    <3>1. s \notin {"commit", "save"}
      BY <2>1 DEF Beginning
    <3>2. QED
      BY <2>2, <2>3, <3>1 DEF Counts, At
  <2>4. CASE q # r
    <3>1. met[q] \subseteq met'[q]
      BY <2>1, <2>4, BeginMeets DEF Beginning
    <3>2. Counts(q)
      BY <1>1, <3>1 DEF CountRight, Counts
    <3>3. QED
      BY <2>2, <2>4, <3>2 DEF Counts, At
  <2>5. QED
    BY <2>3, <2>4
<1>2. ASSUME NEW r \in Requests, Proceed(r), NEW q \in Requests, met'[q] \cap Changes = {}
      PROVE  Counts(q)'
  BY <1>2, OthersCount, ItselfCounts
<1>3. CASE Create
  <2>1. \A q \in Requests : step'[q] = "idle"
    BY <1>3, CreateIsFirst DEF Busy
  <2>2. QED
    BY <2>1 DEF CountRight, At
<1>4. CASE UNCHANGED <<op, target, step, seen, counted, met, rows>>
  BY <1>4 DEF CountRight, At, rows
<1>5. ASSUME \A q \in Requests : met'[q] \cap Changes = {} => Counts(q)'
      PROVE  CountRight'
  BY <1>5 DEF CountRight, Counts
<1>6. CASE \E r \in Requests : BeginRequest(r) \/ Proceed(r)
  BY <1>1, <1>2, <1>5, <1>6
<1>7. ASSUME NEW r \in Requests, Fail(r), NEW q \in Requests, met'[q] \cap Changes = {}
      PROVE  Counts(q)'
  <2>1. active' = active /\ step'[r] = "idle"
    BY <1>7, FailEffect
  <2>2. CASE q # r
    <3>1. Same(q) /\ counted'[q] = counted[q] /\ met'[q] = met[q]
      BY <1>7, <2>2, FailStays
    <3>2. Counts(q)
      BY <1>7, <3>1 DEF CountRight, Counts
    <3>3. QED
      BY <2>1, <3>1, <3>2 DEF Counts, Same, At
  <2>3. CASE q = r
    BY <2>1, <2>3 DEF Counts, At
  <2>4. QED
    BY <2>2, <2>3
<1>8. CASE \E r \in Requests : Fail(r)
  BY <1>5, <1>7, <1>8
<1>9. QED
  BY <1>3, <1>4, <1>6, <1>8, WorldEffect

-----------------------------------------------------------------------------
(* The theorems. *)

LEMMA InitKeeps == Init => IInv
<1> SUFFICES ASSUME Init PROVE IInv
  OBVIOUS
<1>1. /\ chat = "none" /\ role = [u \in Users |-> "none"] /\ active = {} /\ count = 0 /\ cached = {}
      /\ subscribed = {} /\ op = [r \in Requests |-> "none"]
      /\ target = [r \in Requests |-> NoUser] /\ step = [r \in Requests |-> "idle"]
      /\ seen = [r \in Requests |-> "none"] /\ counted = [r \in Requests |-> 0]
      /\ served = 0 /\ met = [r \in Requests |-> {}] /\ overlaps = {}
      /\ failed = 0 /\ leftover = {}
  BY DEF Init
<1>2. TypeOK
  BY <1>1, ConstantsAssumption DEF TypeOK, StepNames, Marks, ConstantsAssumption
<1>3. \A r \in Requests : op[r] = "none" /\ step[r] = "idle" /\ seen[r] = "none"
  BY <1>1
<1>4. \A r \in Requests : Flow(r)
  BY <1>3 DEF Flow, At
<1>5. Phases
  BY <1>1, <1>3 DEF Phases, Idle, At
<1>6. OverlapsSeen /\ LocksApart /\ TakesOver
  <2>1. \A r \in Requests : LockedBy(r) = {}
    BY <1>3 DEF LockedBy, At
  <2>2. QED
    BY <1>1, <1>3, <2>1 DEF OverlapsSeen, Busy, LocksApart, TakesOver
<1>7. OwnerInv /\ GrantInv /\ CountRight
  BY <1>1, <1>3 DEF OwnerInv, GrantInv, CountRight, At
<1>8. QED
  BY <1>2, <1>4, <1>5, <1>6, <1>7 DEF IInv

LEMMA StepKeeps == IInv /\ [Next]_vars => IInv'
<1> SUFFICES ASSUME IInv, [Next]_vars PROVE IInv'
  OBVIOUS
<1>1. /\ TypeOK /\ (\A r \in Requests : Flow(r)) /\ Phases /\ OverlapsSeen /\ LocksApart
      /\ TakesOver /\ OwnerInv /\ GrantInv /\ CountRight
  BY DEF IInv
<1>2. TypeOK' /\ (\A r \in Requests : Flow(r)') /\ Phases' /\ OverlapsSeen'
  BY <1>1, StepKeepsTypes, StepKeepsFlow, StepKeepsPhases, StepKeepsOverlaps
<1>3. LocksApart' /\ TakesOver'
  BY <1>1, StepKeepsLocks, StepKeepsTakesOver
<1>4. OwnerInv' /\ GrantInv' /\ CountRight'
  BY <1>1, StepKeepsOwner, StepKeepsGrant, StepKeepsCount
<1>5. QED
  BY <1>2, <1>3, <1>4 DEF IInv

\* Whatever requests overlap, the steps of each, the rows its transaction has
\* locked, what it has read and what it has counted stay related to the rows and
\* the keys as IInv says: Init establishes it and every step keeps it.
THEOREM Inductive == Spec => []IInv
BY InitKeeps, StepKeeps, PTL DEF Spec

\* The variables keep their types: an active member has a row with a role, and
\* what a request has read is a user, a role or a mark.
THEOREM TypeCorrect == Spec => []TypeOK
<1>1. IInv => TypeOK
  BY DEF IInv
<1>2. QED
  BY <1>1, Inductive, PTL

\* An open group has an active owner, whatever requests overlap, unless an
\* owner's leave overlapped another leave, or a removal, a demotion or a
\* promotion (GroupLeaveAPIView.post reads the replacement without a lock).
THEOREM OwnerStays == Spec => []HasOwner
<1>1. IInv => HasOwner
  BY DEF IInv, OwnerInv, HasOwner, IsOwner
<1>2. QED
  BY <1>1, Inductive, PTL

\* Between requests the keys the websocket server trusts are of members only,
\* or were left by a request that failed between its row and its key, unless a
\* save of a membership that was read before (a leave, a demotion, a pin or a
\* read receipt) overlapped a removal or a leave.
THEOREM GrantsAreFresh == Spec => []NoStaleGrant
<1>1. IInv => NoStaleGrant
  <2> SUFFICES ASSUME IInv, chat = "active", Idle, Never(GrantRaces), NEW u \in cached, u \notin active,
                      u \notin leftover
               PROVE  FALSE
    BY DEF NoStaleGrant
  <2>1. PICK r \in Requests : Settles(r, u)
    BY DEF IInv, GrantInv
  <2>2. step[r] # "idle"
    BY <2>1 DEF Settles, At
  <2>3. QED
    BY <2>2 DEF Idle
<1>2. QED
  BY <1>1, Inductive, PTL

LEMMA StepReadmits ==
  ASSUME TypeOK, Phases, [Next]_vars, NEW u \in Users, role[u] # "none", u \notin active, u \in active'
  PROVE  \E r \in Requests : op[r] \in {"add", "promote"} /\ target[r] = u /\ step[r] = "commit"
<1>1. ~Create
  BY DEF Create, Phases
<1>2. PICK r \in Requests : BeginRequest(r) \/ Proceed(r)
  BY <1>1, WorldEffect, FailEffect DEF rows
<1>3. Proceed(r)
  <2>1. BeginRequest(r) => active' = active
    BY Beginnings, BeginEffect DEF Beginning
  <2>2. QED
    BY <1>2, <2>1
<1>4. AddCommit(r) \/ PromoteCommit(r)
  BY <1>3, RowsEffect DEF RemoveWrite, DemoteWrite, LeaveCommit, DeleteChat, DeleteMembers
<1>5. QED
  BY <1>4 DEF AddCommit, PromoteCommit, At

\* A member that was removed or left is active again only by the commit of a
\* request that adds or promotes them: the saves of memberships that were read
\* before name their columns in update_fields.
THEOREM Readmitted == Spec => OnlyAdminsReadmit
<1>1. IInv /\ [Next]_vars =>
        [\A u \in Users :
           (role[u] # "none" /\ u \notin active /\ u \in active') =>
             \E r \in Requests : /\ op[r] \in {"add", "promote"} /\ target[r] = u
                                 /\ step[r] = "commit"]_vars
  BY StepReadmits DEF IInv
<1>2. QED
  BY <1>1, Inductive, PTL DEF Spec, OnlyAdminsReadmit

LEMMA StepRepairs ==
  ASSUME IInv, [Next]_vars, NEW q \in Requests, op[q] \in Changes \ {"delete"}, op'[q] = "none",
         failed' = failed, met[q] \cap Changes = {}
  PROVE  count' = Cardinality(active')
<1>1. TypeOK /\ (\A r \in Requests : Flow(r)) /\ Counts(q) /\ op'[q] # op[q]
  BY DEF IInv, CountRight, Counts, Changes
<1>2. PICK r \in Requests : BeginRequest(r) \/ Proceed(r)
  <2>1. \A r \in Requests : ~Fail(r)
    BY <1>1, FailEffect DEF TypeOK
  <2>2. \E r \in Requests : BeginRequest(r) \/ Proceed(r)
    BY <1>1, <2>1, WorldEffect
  <2>3. QED
    BY <2>2
<1>3. ~BeginRequest(r)
  <2>1. BeginRequest(r) => op'[r] \in Ops /\ \A x \in Requests : x # r => op'[x] = op[x]
    BY <1>1, Beginnings, BeginEffect DEF Beginning
  <2>2. QED
    BY <1>1, <2>1 DEF Ops
<1>4. q = r /\ Proceed(q)
  BY <1>1, <1>2, <1>3, OthersStay
<1>5. Ending(q)
  <2>1. \A s \in StepNames : Onward(q, s) => op'[q] = op[q]
    BY <1>1, ContinueEffect DEF Onward
  <2>2. QED
    BY <1>1, <1>4, <2>1, Proceedings
<1>6. CASE AddCommit(q)
  <2>1. active' = active \cup {target[q]}
    BY <1>1, <1>6 DEF AddCommit, Counts
  <2>2. QED
    BY <1>1, <1>6, <2>1 DEF AddCommit, Counts
<1>7. CASE PromoteCommit(q)
  BY <1>1, <1>7 DEF PromoteCommit, Counts
<1>8. CASE RemoveSave(q)
  BY <1>1, <1>8 DEF RemoveSave, Counts
<1>9. CASE LeaveCommit(q)
  BY <1>1, <1>9 DEF LeaveCommit, Counts
<1>10. ~StaleSync(q) /\ ~DeleteMembers(q)
  BY DEF StaleSync, DeleteMembers, At, Changes
<1>11. QED
  BY <1>5, <1>6, <1>7, <1>8, <1>9, <1>10 DEF Ending

\* A change of the membership that ran beside no other change, and did not fail,
\* leaves the number of the members in members_count, however wrong it was
\* before: refresh_chat_members_count counts the rows.
THEOREM Repaired == Spec => CountRepaired
<1>1. IInv /\ [Next]_vars =>
        [\A r \in Requests :
           (/\ op[r] \in Changes \ {"delete"} /\ op'[r] = "none" /\ failed' = failed
            /\ met[r] \cap Changes = {})
             => count' = Cardinality(active')]_vars
  BY StepRepairs
<1>2. QED
  BY <1>1, Inductive, PTL DEF Spec, CountRepaired

=============================================================================
