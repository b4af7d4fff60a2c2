----------------------------- MODULE GroupChat -----------------------------
(***************************************************************************)
(* Membership of one group chat: the REST requests that change it, the     *)
(* copy of the membership in Redis, and the websocket server that decides  *)
(* by this copy who may open the chat.                                     *)
(*                                                                         *)
(* A request checks its rights on rows it has read and writes later; only  *)
(* the columns named in update_fields are written, and the post_save       *)
(* signal copies the instance in memory, not the row, to Redis.  Outside a *)
(* transaction the row, the copy and the members count are separate steps. *)
(* The reads of one check are one step.  A transaction has two: its writes *)
(* lock the rows and reach Redis at once, and it counts the members it can *)
(* see; at the commit the rows and the count appear to the others.  A      *)
(* request may fail at any step: its transaction is rolled back, what it    *)
(* has saved outside one and what it has written to Redis stays.           *)
(***************************************************************************)
EXTENDS Integers, FiniteSets

CONSTANTS
  Users,
  Requests,     \* requests in progress at a time: worker processes
  MaxRequests,  \* bound: requests served
  MaxFailures,  \* bound: requests that fail or whose worker dies
  NoUser

ASSUME ConstantsAssumption ==
  /\ IsFiniteSet(Users)
  /\ MaxRequests \in Nat /\ MaxFailures \in Nat
  /\ NoUser \notin Users

VARIABLES
  chat,        \* Chat.is_active of the group, "none" before it is created
  role,        \* ChatMember.role, "none" for a user without a row
  active,      \* users whose ChatMember.is_active holds
  count,       \* Chat.members_count
  cached,      \* users that have a chat:member key in Redis
  subscribed,  \* users with a client in Hub.chats
  op,          \* what each request does
  target,      \* the user it is about
  step,        \* what it does next
  seen,        \* what it has read: a role, a replacement
  counted,     \* the members it has counted
  served,      \* requests so far
  met,         \* kinds of requests that were in progress during this one
  overlaps,    \* those of Races that were in progress together
  failed,      \* requests that failed so far
  leftover     \* users without a membership whose key a failed request left

rows    == <<chat, role, active, count>>
request == <<op, target, step, seen, counted>>
history == <<served, met, overlaps>>
failures == <<failed, leftover>>
vars == <<rows, cached, subscribed, request, history, failures>>

Roles == {"owner", "admin", "member"}

\* What a request may have read beside a user: a role, or whether there is a row.
Marks == Roles \cup {"none", "new", "kept"}

ASSUME NamesAssumption == Marks \cap (Users \cup {NoUser}) = {}

Ops == {"add", "remove", "promote", "demote", "leave", "delete", "toggle"}
StepNames == {"idle", "choose", "read", "write", "writeOwner", "commit", "sync",
              "count", "save", "update"}

\* The pairs of kinds of requests that can break HasOwner or NoStaleGrant.
OwnerRaces == {{"leave"}, {"leave", "remove"}, {"leave", "demote"}, {"leave", "promote"}}
GrantRaces == {{o, x} : o \in {"remove", "leave"}, x \in {"leave", "demote", "toggle"}}
Races == OwnerRaces \cup GrantRaces

\* The requests that change who is a member.
Changes == {"add", "remove", "promote", "leave", "delete"}

Admin(a) == a \in active /\ role[a] \in {"owner", "admin"}
Owner(a) == a \in active /\ role[a] = "owner"

Idle == \A r \in Requests : step[r] = "idle"

-----------------------------------------------------------------------------
Init ==
  /\ chat = "none"
  /\ role = [u \in Users |-> "none"]
  /\ active = {}
  /\ count = 0
  /\ cached = {}
  /\ subscribed = {}
  /\ op = [r \in Requests |-> "none"]
  /\ target = [r \in Requests |-> NoUser]
  /\ step = [r \in Requests |-> "idle"]
  /\ seen = [r \in Requests |-> "none"]
  /\ counted = [r \in Requests |-> 0]
  /\ served = 0
  /\ met = [r \in Requests |-> {}]
  /\ overlaps = {}
  /\ failed = 0
  /\ leftover = {}

\* GroupChatCreateSerializer.create: the owner is saved, the members are
\* inserted with bulk_create, which sends no signal.
Create ==
  /\ chat = "none"
  /\ \E o \in Users, others \in SUBSET Users :
       /\ active' = others \cup {o}
       /\ role' = [u \in Users |-> CASE u = o -> "owner"
                                     [] u \in others \ {o} -> "member"
                                     [] OTHER -> "none"]
       /\ cached' = {o}
  /\ chat' = "active"
  /\ count' = Cardinality(active')
  /\ UNCHANGED <<subscribed, request, history>>

-----------------------------------------------------------------------------
(* A request begins: its checks.                                           *)

Begin(r, o, t, s) ==
  /\ step[r] = "idle"
  /\ chat = "active"
  /\ served < MaxRequests
  /\ served' = served + 1
  /\ op' = [op EXCEPT ![r] = o]
  /\ target' = [target EXCEPT ![r] = t]
  /\ step' = [step EXCEPT ![r] = s]
  /\ LET others == {q \in Requests : step[q] # "idle"} IN
       /\ met' = [q \in Requests |-> IF q = r THEN {op[x] : x \in others}
                                     ELSE IF q \in others THEN met[q] \cup {o} ELSE met[q]]
       /\ overlaps' = overlaps \cup ({{o, op[q]} : q \in others} \cap Races)
  /\ UNCHANGED <<rows, cached, subscribed, seen, counted>>

BeginAdd(r) ==
  \E a, t \in Users : Admin(a) /\ Begin(r, "add", t, "write")

BeginRemove(r) ==
  \E a, t \in Users :
    /\ Admin(a) /\ t \in active
    /\ role[t] # "owner"
    /\ role[a] = "owner" \/ role[t] # "admin"
    /\ Begin(r, "remove", t, "write")

BeginPromote(r) ==
  \E a, t \in Users : Owner(a) /\ Begin(r, "promote", t, "read")

BeginDemote(r) ==
  \E a, t \in Users :
    /\ Owner(a) /\ t \in active /\ role[t] = "admin"
    /\ Begin(r, "demote", t, "write")

BeginLeave(r) ==
  \E a \in active :
    Begin(r, "leave", a, IF role[a] = "owner" THEN "choose" ELSE "write")

BeginDelete(r) ==
  \E a \in Users : Owner(a) /\ Begin(r, "delete", a, "write")

\* Pin, archive or mute, and a read receipt in the status saver: a membership
\* is read, and saved without its is_active column.
BeginToggle(r) ==
  \E a \in active : Begin(r, "toggle", a, "write")

-----------------------------------------------------------------------------
(* The request goes on.                                                    *)

At(r, o, s) == op[r] = o /\ step[r] = s

Continue(r, s) ==
  /\ step' = [step EXCEPT ![r] = s]
  /\ UNCHANGED <<op, target, subscribed, history>>

\* The request is answered; what it read is forgotten.
Finish(r) ==
  /\ op' = [op EXCEPT ![r] = "none"]
  /\ target' = [target EXCEPT ![r] = NoUser]
  /\ step' = [step EXCEPT ![r] = "idle"]
  /\ seen' = [seen EXCEPT ![r] = "none"]
  /\ counted' = [counted EXCEPT ![r] = 0]
  /\ met' = [met EXCEPT ![r] = {}]
  /\ UNCHANGED <<subscribed, served, overlaps>>

\* The rows the open transactions have written: other writers wait for them.
LockedBy(r) ==
  CASE At(r, "leave", "commit") -> {target[r], seen[r]} \cap Users
    [] At(r, "promote", "write") -> IF seen[r] = "new" THEN {target[r]} ELSE {}
    [] At(r, "promote", "commit") -> {target[r]}
    [] At(r, "add", "commit") -> IF seen[r] = "kept" THEN {} ELSE {target[r]}
    [] OTHER -> {}

Locked == UNION {LockedBy(r) : r \in Requests}

\* refresh_chat_members_count inside a transaction: what is committed, with
\* the transaction's own changes.
Recount(r, visible) == counted' = [counted EXCEPT ![r] = Cardinality(visible)]

\* GroupMembersAPIView.post: a row is created or an inactive one is activated;
\* an active one is not saved.
AddWrite(r) ==
  LET t == target[r] IN
  /\ At(r, "add", "write")
  /\ IF t \in active
     THEN /\ seen' = [seen EXCEPT ![r] = "kept"]
          /\ UNCHANGED cached
     ELSE /\ t \notin Locked
          /\ cached' = cached \cup {t}
          /\ UNCHANGED seen
  /\ Recount(r, active \cup {t})
  /\ Continue(r, "commit")
  /\ UNCHANGED rows

\* An activated row has the role it had.
AddCommit(r) ==
  LET t == target[r] IN
  /\ At(r, "add", "commit")
  /\ IF seen[r] = "kept" THEN UNCHANGED <<role, active>>
     ELSE /\ role' = IF role[t] = "none" THEN [role EXCEPT ![t] = "member"] ELSE role
          /\ active' = active \cup {t}
  /\ count' = counted[r]
  /\ Finish(r)
  /\ UNCHANGED <<chat, cached>>

\* GroupAdminsAPIView.post: get_or_create ...
PromoteRead(r) ==
  LET t == target[r] IN
  /\ At(r, "promote", "read")
  /\ IF role[t] = "none"
     THEN /\ t \notin Locked
          /\ seen' = [seen EXCEPT ![r] = "new"]
          /\ cached' = cached \cup {t}
     ELSE /\ seen' = [seen EXCEPT ![r] = role[t]]
          /\ UNCHANGED cached
  /\ Continue(r, "write")
  /\ UNCHANGED <<rows, counted>>

\* ... then every column is saved, the role as it was read when it is OWNER.
PromoteWrite(r) ==
  LET t == target[r] IN
  /\ At(r, "promote", "write")
  /\ seen[r] = "new" \/ t \notin Locked
  /\ cached' = cached \cup {t}
  /\ Recount(r, active \cup {t})
  /\ Continue(r, "commit")
  /\ UNCHANGED <<rows, seen>>

PromoteCommit(r) ==
  /\ At(r, "promote", "commit")
  /\ role' = [role EXCEPT ![target[r]] = IF seen[r] = "owner" THEN "owner" ELSE "admin"]
  /\ active' = active \cup {target[r]}
  /\ count' = counted[r]
  /\ Finish(r)
  /\ UNCHANGED <<chat, cached>>

\* GroupMemberDetailAPIView.delete, no transaction: row, copy, count.
RemoveWrite(r) ==
  /\ At(r, "remove", "write")
  /\ target[r] \notin Locked
  /\ active' = active \ {target[r]}
  /\ Continue(r, "sync")
  /\ UNCHANGED <<chat, role, count, cached, seen, counted>>

\* Mutant of RemoveSync: the row is changed with update(), as in DeleteMembers.
RemoveSyncNoSignal(r) ==
  /\ At(r, "remove", "sync")
  /\ Continue(r, "count")
  /\ UNCHANGED <<rows, cached, seen, counted>>

RemoveSync(r) ==
  /\ At(r, "remove", "sync")
  /\ cached' = cached \ {target[r]}
  /\ Continue(r, "count")
  /\ UNCHANGED <<rows, seen, counted>>

RemoveCount(r) ==
  /\ At(r, "remove", "count")
  /\ Recount(r, active)
  /\ Continue(r, "save")
  /\ UNCHANGED <<rows, cached, seen>>

\* Mutant of RemoveSave: the count is decremented, not recomputed.
RemoveSaveDecrement(r) ==
  /\ At(r, "remove", "save")
  /\ count' = count - 1
  /\ Finish(r)
  /\ UNCHANGED <<chat, role, active, cached>>

RemoveSave(r) ==
  /\ At(r, "remove", "save")
  /\ count' = counted[r]
  /\ Finish(r)
  /\ UNCHANGED <<chat, role, active, cached>>

\* GroupAdminDetailAPIView.delete, no transaction: row, copy.
DemoteWrite(r) ==
  /\ At(r, "demote", "write")
  /\ target[r] \notin Locked
  /\ role' = [role EXCEPT ![target[r]] = "member"]
  /\ Continue(r, "sync")
  /\ UNCHANGED <<chat, active, count, cached, seen, counted>>

\* Mutant of ToggleWrite: save() without update_fields writes every column.
ToggleWriteAll(r) ==
  /\ At(r, "toggle", "write")
  /\ active' = active \cup {target[r]}
  /\ Continue(r, "sync")
  /\ UNCHANGED <<chat, role, count, cached, seen, counted>>

\* update_membership writes a column that is not modelled.
ToggleWrite(r) ==
  /\ At(r, "toggle", "write")
  /\ target[r] \notin Locked
  /\ Continue(r, "sync")
  /\ UNCHANGED <<rows, cached, seen, counted>>

\* The signal of a save of a membership that was active when it was read.
StaleSync(r) ==
  /\ At(r, "demote", "sync") \/ At(r, "toggle", "sync")
  /\ cached' = cached \cup {target[r]}
  /\ Finish(r)
  /\ UNCHANGED rows

\* order_by role: "admin" < "member" < "owner"; who joined first is not
\* tracked, so any member of the first role present may be the replacement.
Replacements(u) ==
  LET others == active \ {u}
      ofRole(x) == {m \in others : role[m] = x}
  IN IF ofRole("admin") # {} THEN ofRole("admin")
     ELSE IF ofRole("member") # {} THEN ofRole("member") ELSE others

\* Mutant of LeaveChoose: inactive members are not filtered out.
LeaveChooseAny(r) ==
  /\ At(r, "leave", "choose")
  /\ LET others == {x \in Users : role[x] # "none"} \ {target[r]}
     IN IF others = {}
        THEN seen' = [seen EXCEPT ![r] = NoUser]
        ELSE \E u \in others : seen' = [seen EXCEPT ![r] = u]
  /\ Continue(r, "writeOwner")
  /\ UNCHANGED <<rows, cached, counted>>

\* GroupLeaveAPIView.post: the owner's replacement is read ...
LeaveChoose(r) ==
  /\ At(r, "leave", "choose")
  /\ IF Replacements(target[r]) = {}
     THEN seen' = [seen EXCEPT ![r] = NoUser]
     ELSE \E u \in Replacements(target[r]) : seen' = [seen EXCEPT ![r] = u]
  /\ Continue(r, "writeOwner")
  /\ UNCHANGED <<rows, cached, counted>>

\* ... made owner, or the group is closed, and the leaving owner, who keeps the
\* role, is not active any more.  Any other member leaves at once.
LeaveWrite(r) ==
  /\ At(r, "leave", "writeOwner") \/ At(r, "leave", "write")
  /\ {target[r], seen[r]} \cap Locked = {}
  /\ cached' = (cached \cup ({seen[r]} \cap Users)) \ {target[r]}
  /\ Recount(r, active \ {target[r]})
  /\ Continue(r, "commit")
  /\ UNCHANGED <<rows, seen>>

LeaveCommit(r) ==
  /\ At(r, "leave", "commit")
  /\ chat' = IF seen[r] = NoUser THEN "closed" ELSE chat
  /\ role' = [u \in Users |-> IF u = seen[r] THEN "owner" ELSE role[u]]
  /\ active' = active \ {target[r]}
  /\ count' = counted[r]
  /\ Finish(r)
  /\ UNCHANGED cached

\* ChatRetrieveAPIView.delete: the chat is closed, then all memberships are
\* changed with one update(), which sends no signal and leaves the count.
DeleteChat(r) ==
  /\ At(r, "delete", "write")
  /\ chat' = "closed"
  /\ Continue(r, "update")
  /\ UNCHANGED <<role, active, count, cached, seen, counted>>

DeleteMembers(r) ==
  /\ At(r, "delete", "update")
  /\ active \cap Locked = {}
  /\ active' = {}
  /\ Finish(r)
  /\ UNCHANGED <<chat, role, count, cached>>

\* A Redis command of the signal, or a statement, fails, or the worker dies:
\* no row changes any more.  An owner who leaves may have had the replacement's
\* key written and not the own one deleted.
Fail(r) ==
  /\ step[r] # "idle"
  /\ failed < MaxFailures
  /\ failed' = failed + 1
  /\ \/ UNCHANGED cached
     \/ /\ At(r, "leave", "writeOwner")
        /\ seen[r] \in Users \ Locked
        /\ cached' = cached \cup {seen[r]}
  /\ leftover' = (leftover \cup {target[r]}) \cap (cached' \ active)
  /\ Finish(r)
  /\ UNCHANGED rows

-----------------------------------------------------------------------------
(* Redis and the websocket server.                                         *)

\* The key expires after REDIS_CHAT_TTL_SECONDS.
ExpireKey(u) ==
  /\ u \in cached
  /\ cached' = cached \ {u}
  /\ UNCHANGED <<rows, subscribed, request, history>>

\* warm_redis_cache, in the entrypoint before the workers start.
WarmCache ==
  /\ Idle
  /\ cached' = active
  /\ UNCHANGED <<rows, subscribed, request, history>>

\* subscribe_chat, allowed by chataccess.CanAccessChat, which reads the key.
Subscribe(u) ==
  /\ u \in cached \ subscribed
  /\ subscribed' = subscribed \cup {u}
  /\ UNCHANGED <<rows, cached, request, history>>

\* unsubscribe_chat, or the last client of the user is unregistered.
Unsubscribe(u) ==
  /\ u \in subscribed
  /\ subscribed' = subscribed \ {u}
  /\ UNCHANGED <<rows, cached, request, history>>

-----------------------------------------------------------------------------
BeginRequest(r) ==
  \/ BeginAdd(r) \/ BeginRemove(r) \/ BeginPromote(r) \/ BeginDemote(r)
  \/ BeginLeave(r) \/ BeginDelete(r) \/ BeginToggle(r)

Proceed(r) ==
  \/ AddWrite(r) \/ AddCommit(r)
  \/ PromoteRead(r) \/ PromoteWrite(r) \/ PromoteCommit(r)
  \/ RemoveWrite(r) \/ RemoveSync(r) \/ RemoveCount(r) \/ RemoveSave(r)
  \/ DemoteWrite(r) \/ ToggleWrite(r) \/ StaleSync(r)
  \/ LeaveChoose(r) \/ LeaveWrite(r) \/ LeaveCommit(r)
  \/ DeleteChat(r) \/ DeleteMembers(r)

Step ==
  \/ Create
  \/ \E r \in Requests : BeginRequest(r) \/ Proceed(r)
  \/ \E u \in Users : ExpireKey(u) \/ Subscribe(u) \/ Unsubscribe(u)
  \/ WarmCache

\* A key that was left counts until it is deleted or its user is a member.
Next ==
  \/ /\ Step
     /\ leftover' = leftover \cap (cached' \ active')
     /\ UNCHANGED failed
  \/ \E r \in Requests : Fail(r)

Spec == Init /\ [][Next]_vars

-----------------------------------------------------------------------------
TypeOK ==
  /\ chat \in {"none", "active", "closed"}
  /\ role \in [Users -> Roles \cup {"none"}]
  /\ active \subseteq {u \in Users : role[u] # "none"}
  /\ count \in Nat
  /\ cached \subseteq Users
  /\ subscribed \subseteq Users
  /\ op \in [Requests -> Ops \cup {"none"}]
  /\ target \in [Requests -> Users \cup {NoUser}]
  /\ step \in [Requests -> StepNames]
  /\ seen \in [Requests -> Users \cup {NoUser} \cup Marks]
  /\ counted \in [Requests -> Nat]
  /\ served \in Nat
  /\ met \in [Requests -> SUBSET Ops]
  /\ overlaps \subseteq Races
  /\ failed \in 0..MaxFailures
  /\ leftover \subseteq cached \ active

Never(pairs) == overlaps \cap pairs = {}

\* An open group always has an active owner.  Only four pairs of overlapping
\* requests can take it away: an owner's leave, together with another leave,
\* a removal, a demotion or a promotion of the member that takes over.
HasOwner ==
  (chat = "active" /\ Never(OwnerRaces)) => \E u \in active : role[u] = "owner"

\* When no request is in progress, the websocket server admits no one that is
\* not a member of the open group, apart from a user whose key a request left
\* that failed: a removal after its row was saved, an addition or a promotion
\* before its commit; such a key stays until it expires or the next request
\* about this user.  Only a request that saves a membership it read earlier,
\* together with one that takes the member away, can break this.
NoStaleGrant ==
  (chat = "active" /\ Idle /\ Never(GrantRaces)) => cached \ active \subseteq leftover

\* Whatever races and failures have left the members count wrong, the next
\* change of the membership that is carried out beside no other change makes it
\* right: the members are counted, not added up.
CountRepaired ==
  [][\A r \in Requests :
       (/\ op[r] \in Changes \ {"delete"} /\ op'[r] = "none" /\ failed' = failed
        /\ met[r] \cap Changes = {})
         => count' = Cardinality(active')]_vars

\* Whatever overlaps, a member that was removed, or left, is active again only
\* by a request that adds or promotes them: saves of stale memberships write
\* other columns.
OnlyAdminsReadmit ==
  [][\A u \in Users :
       (role[u] # "none" /\ u \notin active /\ u \in active') =>
         \E r \in Requests : /\ op[r] \in {"add", "promote"} /\ target[r] = u
                             /\ step[r] = "commit"]_vars

-----------------------------------------------------------------------------
(* What the documentation says and the code does not do.                   *)

\* mobile_api.md: removed members lose access to the chat, non-members cannot
\* read.  A user that is subscribed receives every message of the chat, and no
\* one unsubscribes the clients of a user that is removed or leaves.
NonMembersDoNotRead == (chat = "active" /\ Idle) => subscribed \subseteq active

\* mobile_api.md: members can send messages.  The websocket server takes
\* messages, as it takes subscriptions, only of users it finds in Redis.
MembersCanSend == (chat = "active" /\ Idle) => active \subseteq cached

=============================================================================
