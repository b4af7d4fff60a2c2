----------------------------- MODULE DirectChat -----------------------------
(***************************************************************************)
(* A direct chat and its bots: opening it (DirectChatCreateSerializer, and *)
(* get_or_create_direct_chat_between for replies to stories), adding and   *)
(* removing bots, changing and deleting them, and the messages that bots   *)
(* and replies put into it (apps/bots, apps/chats, apps/stories).          *)
(*                                                                         *)
(* The chat is found by a unique key of its two users and opened in a      *)
(* transaction.  The requests about bots have none: a bot has a membership *)
(* of its own and the row of a member, written one after the other, and    *)
(* the members are counted and the count is saved in two more statements.  *)
(* The service user of a bot may itself be one of the two users.  A worker *)
(* may die between two statements.                                         *)
(*                                                                         *)
(* Names, webhooks and commands of bots and all scopes but send_message    *)
(* are left out, and so is the content of messages.                        *)
(***************************************************************************)
EXTENDS Naturals, FiniteSets

CONSTANTS People,       \* users that are no bots
          Bots,         \* bots, each with its service user
          NoOne,
          Threads,      \* the threads that serve requests
          MaxBegun      \* bound: requests

ASSUME DirectAssumption == /\ IsFiniteSet(People) /\ IsFiniteSet(Bots)
                           /\ People \cap Bots = {}
                           /\ NoOne \notin People \cup Bots

VARIABLES pair,         \* the two users of the chat (direct_key)
          chat,         \* whether the row of the chat is committed
          inChat,       \* chat_members: the active ones
          count,        \* chats.members_count
          admitted,     \* bot_memberships: none, off, or with a scope
          bot,          \* bot_profiles: is_active, and which token is valid
          work,         \* the request each thread serves
          begun,        \* how many requests began
          deleted,      \* bots whose deletion was not followed by an addition
          crossed,      \* bots whose addition met a removal or a deletion
          lost          \* bots with an addition or a removal that died

directVars == <<pair, chat, inChat, count, admitted, bot, work, begun,
                deleted, crossed, lost>>
rows == <<pair, chat, inChat, count, admitted, bot>>
history == <<deleted, crossed, lost>>

Everyone == People \cup Bots
Openings == {"open", "reply"}
BotOps == {"add", "remove", "delete", "send"}
\* The requests that change the members of the chat.
Changes == Openings \cup {"add", "remove"}
\* What a request may meet that writes what it reads.
Disturbances == (Changes \cup {"delete", "set", "rotate"}) \X Everyone

\* normalize_scopes: whether send_message is among the scopes.
Scopes == {"read", "send"}
\* What BotCreateSerializer.create makes.
NewBot == [on |-> TRUE, token |-> 1]

NoWork == [op |-> "none", pc |-> "idle", who |-> NoOne, scope |-> "none", n |-> 0, met |-> {}]
Work == [op : Openings \cup BotOps,
         pc : {"lookup", "insert", "rows", "tally", "commit", "access", "member", "count",
               "save", "memberships", "check", "validate", "store"},
         who : Everyone, scope : {"none"} \cup Scopes, n : Nat,
         met : SUBSET Disturbances]

\* The chat was opened before or is not there.
DirectInit ==
  /\ pair \in {P \in SUBSET Everyone : Cardinality(P) = 2 /\ P \cap People # {}}
  /\ chat \in BOOLEAN
  /\ inChat = IF chat THEN pair ELSE {}
  /\ count = Cardinality(inChat)
  /\ admitted = [b \in Bots |-> "none"]
  /\ bot = [b \in Bots |-> NewBot]
  /\ work = [t \in Threads |-> NoWork]
  /\ begun = 0 /\ deleted = {} /\ crossed = {} /\ lost = {}

-----------------------------------------------------------------------------
\* The thread t is at the step p of a request of one of the kinds in O.
AtStep(t, O, p) == work[t].op \in O /\ work[t].pc = p
Who(t) == work[t].who
Working == {t \in Threads : work[t] # NoWork}

Advance(t, p) == work' = [work EXCEPT ![t].pc = p]
AdvanceWith(t, p, k) == work' = [work EXCEPT ![t] = [@ EXCEPT !.pc = p, !.n = k]]
Done(t) == work' = [work EXCEPT ![t] = NoWork]

\* The requests under way meet one that begins.
Meeting(m) ==
  [t \in Threads |-> IF t \in Working
                     THEN [work[t] EXCEPT !.met = @ \cup ({m} \cap Disturbances)] ELSE NoWork]

\* A request begins at step p, about a bot or by a person.
BeginWork(t, o, w, s, n, p) ==
  /\ work[t] = NoWork /\ begun < MaxBegun
  /\ begun' = begun + 1
  /\ work' = [Meeting(<<o, w>>) EXCEPT ![t] =
                [op |-> o, pc |-> p, who |-> w, scope |-> s, n |-> n,
                 met |-> {<<work[q].op, work[q].who>> : q \in Working} \cap Disturbances]]
  /\ crossed' = crossed \cup {<<w, x>> : x \in {y \in {"remove", "delete"} :
                \E q \in Working : work[q].who = w /\ {o, work[q].op} = {"add", y}}}

\* A request of one statement.
OneStatement(o, w) == /\ begun < MaxBegun
                      /\ begun' = begun + 1
                      /\ work' = Meeting(<<o, w>>)
                      /\ UNCHANGED history

-----------------------------------------------------------------------------
(* Opening the chat *)

\* Transactions that have inserted the row of the chat and are not committed,
\* or hold its lock; and those that hold the rows of the two members.
Opens(t, P) == work[t].op \in Openings /\ work[t].pc \in P
Locked == \E t \in Threads : Opens(t, {"rows", "tally", "commit"})
HoldsMembers == \E t \in Threads : Opens(t, {"tally", "commit"})

\* DirectChatCreateSerializer.validate_peer_uuid; the peer may be a service user.
BeginOpen(t, u) == /\ u \in pair \cap People
                   /\ BeginWork(t, "open", u, "none", 0, "lookup")
                   /\ UNCHANGED <<rows, deleted, lost>>

\* A reply or a reaction to a story goes to the direct chat with its author,
\* who shares a chat with the user.
BeginReply(t, u) == /\ u \in pair /\ pair \subseteq People
                    /\ BeginWork(t, "reply", u, "none", 0, "lookup")
                    /\ UNCHANGED <<rows, deleted, lost>>

\* SELECT ... FOR UPDATE by the key: a row that is not committed is not seen.
Lookup(t) == /\ Opens(t, {"lookup"})
             /\ chat => ~Locked
             /\ Advance(t, IF chat THEN "rows" ELSE "insert")
             /\ UNCHANGED <<rows, begun, history>>

\* The key is unique: an insert waits for another one, and fails when that
\* was committed.
InsertChat(t) == /\ Opens(t, {"insert"})
                 /\ chat \/ ~Locked
                 /\ IF chat THEN Done(t) ELSE Advance(t, "rows")
                 /\ UNCHANGED <<rows, begun, history>>

\* update_or_create of both members.
WriteMembers(t) == /\ Opens(t, {"rows"})
                   /\ Advance(t, "tally")
                   /\ UNCHANGED <<rows, begun, history>>

\* Mutant of Tally: the members are counted without those of the transaction.
TallyCommitted(t) ==
  /\ Opens(t, {"tally"})
  /\ AdvanceWith(t, "commit", Cardinality(inChat))
  /\ UNCHANGED <<rows, begun, history>>

Tally(t) ==
  /\ Opens(t, {"tally"})
  /\ AdvanceWith(t, "commit", Cardinality(inChat \cup pair))
  /\ UNCHANGED <<rows, begun, history>>

\* The count is saved when it differs from the one that was locked.
CommitChat(t) ==
  /\ Opens(t, {"commit"})
  /\ chat' = TRUE
  /\ inChat' = inChat \cup pair
  /\ count' = work[t].n
  /\ IF work[t].op = "reply" THEN Advance(t, "validate") ELSE Done(t)
  /\ UNCHANGED <<pair, admitted, bot, begun, history>>

-----------------------------------------------------------------------------
(* Bots of the chat *)

\* A member of a direct chat manages its bots.
Managed == chat /\ inChat \cap People # {}

Admits(b) == admitted[b] \in Scopes

\* BotAddToChatSerializer.validate_bot_uuid: an active bot of one's own.  The
\* scopes are those of the request or of the bot.
BeginAdd(t, b, s) == /\ Managed /\ bot[b].on
                     /\ BeginWork(t, "add", b, s, 0, "access")
                     /\ deleted' = deleted \ {b}
                     /\ UNCHANGED <<rows, lost>>

AddAccess(t) == /\ AtStep(t, {"add"}, "access")
                /\ admitted' = [admitted EXCEPT ![Who(t)] = work[t].scope]
                /\ Advance(t, "member")
                /\ UNCHANGED <<pair, chat, inChat, count, bot, begun, history>>

\* The row of the service user waits for a transaction that holds it.
AddMember(t) == /\ AtStep(t, {"add"}, "member")
                /\ Who(t) \in pair => ~HoldsMembers
                /\ inChat' = inChat \cup {Who(t)}
                /\ Advance(t, "count")
                /\ UNCHANGED <<pair, chat, count, admitted, bot, begun, history>>

BeginRemove(t, b) == /\ Managed /\ Admits(b)
                     /\ BeginWork(t, "remove", b, "none", 0, "access")
                     /\ UNCHANGED <<rows, deleted, lost>>

RemoveAccess(t) == /\ AtStep(t, {"remove"}, "access")
                   /\ admitted' = [admitted EXCEPT ![Who(t)] = "off"]
                   /\ Advance(t, "member")
                   /\ UNCHANGED <<pair, chat, inChat, count, bot, begun, history>>

\* Mutant of RemoveMember: the bot stays a member of the chat.
RemoveAccessOnly(t) == /\ AtStep(t, {"remove"}, "member")
                       /\ Advance(t, "count")
                       /\ UNCHANGED <<rows, begun, history>>

\* An update of the active row: one that is inactive is not waited for.
RemoveMember(t) == /\ AtStep(t, {"remove"}, "member")
                   /\ Who(t) \in pair \cap inChat => ~HoldsMembers
                   /\ inChat' = inChat \ {Who(t)}
                   /\ Advance(t, "count")
                   /\ UNCHANGED <<pair, chat, count, admitted, bot, begun, history>>

CountMembers(t) == /\ AtStep(t, {"add", "remove"}, "count")
                   /\ AdvanceWith(t, "save", Cardinality(inChat))
                   /\ UNCHANGED <<rows, begun, history>>

SaveCount(t) == /\ AtStep(t, {"add", "remove"}, "save")
                /\ ~Locked
                /\ count' = work[t].n
                /\ Done(t)
                /\ UNCHANGED <<pair, chat, inChat, admitted, bot, begun, history>>

-----------------------------------------------------------------------------
(* Profiles of bots *)

\* BotDetailAPIView.patch may turn a bot on and off, also a deleted one.
SetActive(b, on) == /\ OneStatement("set", b)
                    /\ bot' = [bot EXCEPT ![b].on = on]
                    /\ UNCHANGED <<pair, chat, inChat, count, admitted>>

RotateToken(b) == /\ bot[b].on
                  /\ OneStatement("rotate", b)
                  /\ bot' = [bot EXCEPT ![b].token = @ + 1]
                  /\ UNCHANGED <<pair, chat, inChat, count, admitted>>

\* BotDetailAPIView.delete: the profile is turned off, then its memberships.
\* The row of the member stays.
DeleteBot(t, b) == /\ BeginWork(t, "delete", b, "none", 0, "memberships")
                   /\ bot' = [bot EXCEPT ![b].on = FALSE]
                   /\ UNCHANGED <<pair, chat, inChat, count, admitted, deleted, lost>>

DeleteAccess(t) == /\ AtStep(t, {"delete"}, "memberships")
                   /\ admitted' = [admitted EXCEPT ![Who(t)] = IF Admits(Who(t)) THEN "off" ELSE @]
                   /\ deleted' = deleted \cup {Who(t)}
                   /\ Done(t)
                   /\ UNCHANGED <<pair, chat, inChat, count, bot, begun, crossed, lost>>

-----------------------------------------------------------------------------
(* Messages *)

\* Mutant of BeginBotSend: the tokens of bots that are turned off are accepted.
BeginBotSendAnyToken(t, b) == /\ BeginWork(t, "send", b, "none", bot[b].token, "check")
                              /\ UNCHANGED <<rows, deleted, lost>>

\* authenticate_bot_token: an active bot by its present token.
BeginBotSend(t, b) == /\ bot[b].on
                      /\ BeginWork(t, "send", b, "none", bot[b].token, "check")
                      /\ UNCHANGED <<rows, deleted, lost>>

\* BotSendMessageSerializer.validate: chat, membership and scope.
CheckBot(t) == /\ AtStep(t, {"send"}, "check")
               /\ IF chat /\ admitted[Who(t)] = "send" THEN Advance(t, "validate") ELSE Done(t)
               /\ UNCHANGED <<rows, begun, history>>

\* MessageCreateSerializer.validate: the sender is an active member.
ValidateSender(t) == /\ work[t].pc = "validate"
                     /\ IF Who(t) \in inChat THEN Advance(t, "store") ELSE Done(t)
                     /\ UNCHANGED <<rows, begun, history>>

StoreMessage(t) == /\ work[t].pc = "store"
                   /\ Done(t)
                   /\ UNCHANGED <<rows, begun, history>>

\* A worker dies; a transaction is rolled back.
WorkerDies(t) == /\ work[t] # NoWork /\ work[t].pc # "store"
                 /\ lost' = lost \cup {<<Who(t), o>> : o \in {work[t].op} \cap {"add", "remove"}}
                 /\ Done(t)
                 /\ UNCHANGED <<rows, begun, deleted, crossed>>

DirectStep(t) ==
  \/ \E u \in People : BeginOpen(t, u) \/ BeginReply(t, u)
  \/ Lookup(t) \/ InsertChat(t) \/ WriteMembers(t) \/ Tally(t) \/ CommitChat(t)
  \/ \E b \in Bots, s \in Scopes : BeginAdd(t, b, s)
  \/ \E b \in Bots : BeginRemove(t, b) \/ DeleteBot(t, b) \/ BeginBotSend(t, b)
  \/ AddAccess(t) \/ AddMember(t) \/ RemoveAccess(t) \/ RemoveMember(t)
  \/ CountMembers(t) \/ SaveCount(t) \/ DeleteAccess(t)
  \/ CheckBot(t) \/ ValidateSender(t) \/ StoreMessage(t)
  \/ WorkerDies(t)

DirectNext == \/ \E t \in Threads : DirectStep(t)
              \/ \E b \in Bots : RotateToken(b) \/ \E on \in BOOLEAN : SetActive(b, on)

-----------------------------------------------------------------------------
(* Properties *)

DirectTypeOK ==
  /\ pair \subseteq Everyone /\ inChat \subseteq Everyone
  /\ chat \in BOOLEAN /\ count \in Nat /\ begun \in Nat
  /\ admitted \in [Bots -> {"none", "off"} \cup Scopes]
  /\ bot \in [Bots -> [on : BOOLEAN, token : Nat]]
  /\ work \in [Threads -> Work \cup {NoWork}]
  /\ deleted \subseteq Bots
  /\ crossed \subseteq Everyone \X {"remove", "delete"}
  /\ lost \subseteq Bots \X {"add", "remove"}

Some(b, O, p) == \E t \in Threads : AtStep(t, O, p) /\ Who(t) = b

\* The two rows of a bot agree, however requests about it overlapped or died:
\* a bot that has access is a member, a bot that was removed is none (unless it
\* is one of the two users), and a deleted bot, although it stays a member, has
\* no access until it is added again, also when it is turned on.  Only an
\* addition that meets a removal or a deletion, or a request that dies, breaks
\* this.  (BotAddToChatSerializer.save, ChatBotDetailAPIView.delete,
\* BotDetailAPIView.delete)
BotRowsAgree ==
  \A b \in Bots :
    /\ Admits(b) /\ <<b, "remove">> \notin crossed /\ <<b, "add">> \notin lost
         => b \in inChat \/ Some(b, {"add"}, "member")
    /\ (/\ b \in inChat \ (pair \cup deleted)
        /\ <<b, "remove">> \notin crossed /\ {<<b, "add">>, <<b, "remove">>} \cap lost = {})
         => Admits(b) \/ Some(b, {"remove"}, "member") \/ Some(b, {"add"}, "access")
    /\ b \in deleted /\ <<b, "delete">> \notin crossed => ~Admits(b)

\* A request that changes members and met no other change leaves the right
\* count, also when earlier ones had left a wrong one.
\* (get_or_create_direct_chat_between; the recounts in apps/bots)
DirectCountRepaired ==
  [][\A t \in Threads :
       (SaveCount(t) \/ CommitChat(t)) /\ (\A m \in work[t].met : m[1] \notin Changes)
       => count' = Cardinality(inChat')]_directVars

\* What stores a message is a member at that time; a bot also is active, has
\* the scope, and its token is the present one: a revocation that was done
\* when the request began is never overlooked, whichever of the rows it wrote.
\* (authenticate_bot_token, BotSendMessageSerializer)
OnlyAdmittedSpeak ==
  [][\A t \in Threads :
       (/\ work[t].pc = "store" /\ work'[t] = NoWork
        /\ {"remove", "delete", "set", "rotate", "add"}
             \cap {m[1] : m \in {x \in work[t].met : x[2] = Who(t)}} = {})
       => /\ Who(t) \in inChat
          /\ Who(t) \in Bots => /\ bot[Who(t)] = [on |-> TRUE, token |-> work[t].n]
                                /\ admitted[Who(t)] = "send"]_directVars

DirectSpec == DirectInit /\ [][DirectNext]_directVars
=============================================================================
