# Akyl Cheshmesi: models, checks and proofs

This directory holds TLA+ models of the messenger in `src/`: a Django REST backend
with Celery (`backend/django_app`), a Go websocket server with a call relay
(`backend/go-messaging`), PostgreSQL, one Redis, and a web client. The models follow
the code, not its documents; where the two differ and a run shows it, `PROJECT.json`
has a finding.

Paths below are relative to `src/backend/`; `apps/` is `django_app/apps/`, `internal/`
is `go-messaging/internal/`.

## The system

| Component | State | Operations | Talks to |
|---|---|---|---|
| Message stream (`internal/eventstream`, `apps/messaging/stream_bridge.py`) | Redis stream, consumer group with pending list, dead-letter stream, `messages` table | append, read, reclaim, store, announce, dead-letter, acknowledge | websocket server (producer), realtime channel, push |
| REST messages (`apps/chats/views.py`, `apps/messaging/serializers.py`) | `messages`, receipts, history cache | send, edit, delete, list, mark read | same table as the stream saver |
| Status stream (`apps/messaging/status_stream_bridge.py`) | receipts, `last_read_at` | delivered, read | same loop; saves memberships |
| Group membership (`apps/chats`) | `chats`, `chat_members`, their copies in Redis | create, add, remove, promote, demote, leave, delete, pin/archive/mute | websocket server decides by the copies |
| Websocket hub (`internal/ws`) | clients, subscriptions, call signalling rooms | register, subscribe, broadcast, unregister | Redis: access, presence, realtime channel |
| Presence (`internal/presence`, `apps/users/middleware.py`) | number of connections in Redis, with a time to live | write a count, track a request, expire | hub, presence views |
| Call sessions (`apps/calls`) | `call_sessions`, `call_participants` | create, accept, decline, cancel, end, missed, sweep | realtime channel, push, Celery beat |
| Call rooms (`internal/calls`) | rooms, peers, tracks, clocks of empty rooms | join, publish, unpublish, leave, close, clean up | access check in Redis, WebRTC |
| Accounts (`apps/users/views.py`) | users, one-time codes, tokens | register, verify, set password, log in, reset, profile | mail |
| Push addresses (`apps/users/push_*.py`) | tokens and browser subscriptions | register, delete, log out, send, deactivate | FCM, APNs, web push |
| Media and stories (`apps/mediafiles`, `apps/stories`) | uploads, files, attachments, stories | presign, complete, process, attach, delete, expire | object storage, messages |
| Rate limiter (`internal/ratelimit`) | counters in Redis | allow | hub |
| Direct chats and bots (`apps/chats/utils.py`, `apps/bots`) | rows of chat and members, `bot_memberships`, `bot_profiles` | open, reply to a story, add, remove, delete, turn on and off, rotate the token, send | same tables as the REST messages |
| Stickers, complaints, knowledge base, releases, website | rows | lists and single-row writes | |

Deployment, which the models assume: several gunicorn workers without request
transactions (`ATOMIC_REQUESTS` is not set) on PostgreSQL at READ COMMITTED, one
stream saver and one status saver that are restarted when they die, Celery worker and
beat (the sweep of calls runs every 15 seconds), one Go process.

What is hard in it:

* **Interleaving.** Web workers check on rows they have read and write later without
  locks; in the Go server every connection, track and closer is a goroutine.
* **Crash and failure.** The saver may die between any two of its Redis and database
  calls; calls fail after others have succeeded.
* **Stale state.** Redis copies are written from instances in memory; the websocket
  server decides by them and keeps subscriptions.
* **Time.** Idle entries are reclaimed, calls and rooms expire, keys run out.

The list, with the line where each bites and the properties that watch it, is
`hazards` in `PROJECT.json`. Beside it stand a few that no property speaks of, because
the code and its documents claim nothing there: two Room objects under one key
(`room.go:354`); `AddTrack`, which checks the senders, unlocks and adds
(`peer.go:213`); the keys of the members of a deleted group (`chats/views.py:287`); an
owner that leaves and keeps the role (`chats/views.py:441`); an unregistered client
whose call rooms get no `call_peer_left` (`hub.go:95`); a repeated completion that finds
the object store down and marks media in use as failed (`mediafiles/views.py:274`). The
first, the fourth, the fifth and the last happen in the models.

### What makes each component correct

* Stream: no accepted message is lost, none is stored twice, none is acknowledged
  before it is announced or refused, one saver keeps the order, everything that can be
  settled is.
* Membership: an open group has an owner; only members are admitted; nobody becomes a
  member again by accident; the count heals.
* Call sessions: one active call in a chat; an empty call is closed; a closed call
  stays closed and empty; calls expire.
* Call rooms: one place per user; every peer gets every track; empty rooms go away;
  a reconnecting user is let in; broken connections leave no peer.
* Hub: a client that stays connected misses no event of a chat it has subscribed to; a
  client that ends is forgotten; clients that join a call learn of each other.
* Presence: the count in Redis is one the user has had lately, and stays behind only
  through writes that fail, restarts and tracked requests.
* Accounts: the columns of an account agree; one code verifies an address; no stale
  copy undoes what was done since, with two exceptions the property names.
* Push addresses: a device rings once; a registered address stays registered.
* Media: what a message or a story shows is there; no file is left without a row.
* Messages: no status event is lost; receipts are complete and only grow; a deleted
  message stays empty.
* Direct chats and bots: the two rows that let a bot into a chat agree; a deleted bot
  has no access; the count heals; what sends a message was let in, with the token of
  that moment.

## Modules

| Module | Models | Checked by | Proofs |
|---|---|---|---|
| `DurableDelivery` | what the send path promises: accept, save, refuse, settle | property of `stream_safety` | |
| `MessageStream` | producer, consumer group, savers, REST path | `MCMessageStream`, `MessageStream.cfg`, `MessageStreamLive.cfg` | `MessageStream_proofs` |
| `CallRoom` | rooms of one key in the relay | `MCCallRoom`, `CallRoom.cfg`, `CallRoomLive.cfg` | `CallRoom_proofs` |
| `GroupChat` | membership of one group, its cache, subscriptions | `MCGroupChat`, `GroupChat.cfg`, `GroupChatRead.cfg`, `GroupChatSend.cfg` | `GroupChat_proofs` |
| `CallSession` | call sessions of one chat | `MCCallSession`, `CallSession.cfg`, `CallSessionExpiry.cfg` | `CallSession_proofs` |
| `Hub` | clients, subscriptions, broadcasts, call signalling rooms | `MCHub`, `Hub.cfg` | `Hub_proofs` |
| `Presence` | the connection count of one user in Redis | `MCRequests`, `Requests.cfg` | `Hub_proofs` |
| `Accounts` | accounts and one-time codes | `MCRequests`, `Requests.cfg` | `Accounts_proofs` |
| `PushTokens` | push addresses and the tasks that send to them | `MCRequests`, `Requests.cfg` | `MediaAndPush_proofs` |
| `Media` | uploads, files, attachments, stories | `MCRequests`, `Requests.cfg`, `MediaProtected.cfg` | `MediaAndPush_proofs` |
| `Messages` | creation, receipts, edits and deletions of stored messages, the status stream | `MCRequests`, `Requests.cfg` | `ChatAndMessages_proofs` |
| `DirectChat` | a direct chat, its members, its bots and who sends to it | `MCRequests`, `Requests.cfg` | `ChatAndMessages_proofs` |

Every module has a few definitions marked *Mutant of ...*: the code with one plausible
mistake. No specification uses them; with one in place of the definition it mutates,
the property named in `PROJECT.json` fails.

Where the code really breaks a promise under some overlap or failure, the property
excepts exactly that case, by name in its comment and through a history variable in its
formula, and shows that nothing else breaks it. Such a property does not catch the case
it excepts; the hazard's note in `PROJECT.json` says so.

### MessageStream

`stream` is the Redis stream, an entry is its position; `cursor` is the group's last
delivered id, `pel` its pending list, `idle` the entries that may be reclaimed; `rows`
is the table, `announced` what the realtime channel has carried, `dlq` the dead
letters. A saver's `pc` goes through `_handle_entry`: check, look up, insert, publish,
acknowledge, or copy to the dead letters and acknowledge; `phase` alternates between
`XAUTOCLAIM` and `XREADGROUP` as `consume_forever` does. `Crash` stops a saver at any
step, `Transient` makes a call fail; both count against `MaxFaults`. `permitted` stands
for the checks of chat, account and membership at the time of handling, and changes
freely. The REST path looks up and inserts in two steps; the unique constraint on
`client_uuid` is part of `Insert` and `RestInsert`. `DurableDelivery` is the abstract
send path; `Delivery == INSTANCE DurableDelivery WITH ...` maps the rows to saved
messages and the forgotten entries to settled ones. A saved message may be refused there
as well, because a saver that finds the membership gone before it finds the row copies
the entry to the dead letters (`stream_bridge.py:456`).

`XAUTOCLAIM` always starts at the beginning of the pending list. Entries that fail on
every attempt are claimed again first, so `Count` of them starve whatever is behind
them; `EventuallySettled` asks for less than that.

### CallRoom

Room objects are created under one room key. Each connection has a handler (`hpc`)
that gets or creates the room, adds its peer, adds the tracks of the snapshot, and
leaves. `Peer.Close` is called from up to three goroutines (`closer`); the one that
closes the done channel goes on through `RemovePeer`, `UnpublishPeerTracks` and the
loop over the receivers (`close`, `strip`). A second close of the channel panics and
ends the process (`up`). A step is one critical section of the room's mutex, or one
call on a peer. `Cleanup` and `CleanupExpired` are the manager's; `clock` is
`lastEmptyAt`.

### GroupChat

A request begins with the rows its checks read (`Begin...`) and goes on in later steps.
A transaction is two steps: its writes lock the rows, reach Redis through the
`post_save` signal and count the members; the commit shows rows and count to others.
Requests without a transaction (remove, demote, toggle) write row, copy and count
separately. `bulk_create` and `update()` send no signal. `cached` are the users with a
membership key, `subscribed` those with a client in `Hub.chats`. `overlaps` is a
history variable: the kinds of requests that were ever in progress together; `met` is
the same for one request. The safety properties name exactly the overlaps that break
them: leaving any of these pairs out makes TLC find a counterexample. `Fail` ends a
request between any two of its steps: a Redis command of the signal fails, a statement
fails and the transaction is rolled back, or the worker dies; the rows of a transaction
stay as they were, its keys stay in Redis, and a removal may have saved the row and not
deleted the key. `leftover` is history: the users without membership whose key such a
request has left.

Simplifications: one chat; who joined first is not tracked, so a leaving owner may be
replaced by any member of the first role; the websocket server's check and its
subscription are one step; writes of a membership key by the status saver are those of a
toggle.

### CallSession

A request reads the session and the participants (`Begin...`), later writes its plan:
participants with new status, and a verdict on the session. Accept and cancel write all
at once; decline, end and missed write the participant, query the others, and then
commit. The sweep is not a transaction: session first, then the participants one by
one, from the snapshot. Creating a call sweeps, checks and inserts in separate steps.
`JobDies` ends a job between two of its steps; `abandoned` keeps the participants that a
sweep had still to write then, whom no later sweep will visit.
`late` stands for the clock: the session is past the limit of its status. `answered`,
`ended` and `left` are the time columns that guards look at.

Simplifications: one chat with fixed members; a sweep takes one session at a time; the
status REQUESTED and participants that are INVITED are never written by the code and do
not occur; accepted sessions without `answered_at` cannot occur either (`TypeOK`), so
the query for them is left out; a deadlock of two transactions is left out.

### Hub

`Clients` are connections. `registered`, `chat` and
`room` are the hub's three maps (one chat, one room), `subscribed` and `joined` the
client's own copies of the last two; `closed` are the clients whose channels are
closed, `conn` those whose socket is open, `queue` is `Client.Send` with `Buffer`
places. `pc` is the next step of each goroutine: a client's `ReadPump`, or the
`Subscriber`. A critical section of `Hub.mu` is one step. A broadcast copies its
clients under the lock (`StartCast`), then sends to them one at a time in any order
(`SendToNext`) and unregisters those whose buffers were full (`DropStale`). A send on a
channel that was closed meanwhile panics: in a reader the deferred `Unregister` runs and
the process goes on, because `net/http` recovers the panic; in the subscriber nothing
recovers it and the process ends (`up`). `WriteNext` and `WriterEnds` are `WritePump`.
Two variables are history: `due` (events and chat messages that were broadcast to the
chat and are not yet on the client's socket, each with its sender and a number) and
`known` (what a client that follows the call protocol has learned of the room). A reader
that panics in its broadcast forgets the clients it has not come to and those it has
found too slow, which stay open without that message: `ReaderPanics` takes it out of
`due`, and this is the one gap `NoGap` allows.

Simplifications: reading a request and its first change of the hub are one step;
access checks and the rate limiter may answer either way at any time; what is left in
the buffer of a closed client is dropped, although its writer may still write it.

### Presence

`connected` are the connections of one user in `Hub.users`, `announcing` the count that
a goroutine has taken under the lock and has still to write, `held` the count in Redis,
`tracking` the count a thread of Django has read and will write back. `Register` is
called once by the reader of a connection, `Unregister` by the reader and by any
goroutine that finds the buffer full, also again. Writes may fail, the key may expire at
any time, the Go server may be restarted. `recent` is history: the counts Redis may hold.
A change that begins with nothing on its way leaves only its own number there; one that
overlaps adds its number; a write that fails and a restart add what the key holds, a
tracked request what it has read. So the count is exact after a change that nothing
overlapped, and the time to live does not bound how long an old one stays, because every
tracked request renews it.

Simplifications: a goroutine that has unregistered its own connection may go on in the
model, as it does after a full buffer in `sendJSON`, also after the deferred
`Unregister`.

### Accounts

`row` is the account of each address, `codes` the one-time codes in order of creation,
`mailed` those that reached the mailbox, `tokens` the valid signup tokens. A worker's
`job` keeps the row it has read (`seen`) and goes through the statements of its view. A
registration and a reset are transactions: `RegisterLock` is the first write, which
locks the account, `ExpireCodes` waits for the codes other transactions have locked,
`CommitCode` shows all to the others. `verify` and `confirm` lock the code
(`UseCode`) and then the account (`Redeem`); the opposite order of a registration lets
two transactions wait for each other, and `Abort` is PostgreSQL ending one of them, or
a worker that dies. `Saved` is the difference the code makes between `save()`, which
writes every column as it was read (completion, profile), and
`save(update_fields=...)` (login). Codes and tokens expire at any time.

Simplifications: a password is a version; profile fields, attempts (which no guard
reads) and sessions are left out; a client types only codes that were mailed; a
request that its first read refuses is no step.

### PushTokens

`push` is the row of each address, which is kept for good and changes its user and
device. A registration is up to three statements without a transaction
(`RegisterToken`, `SaveToken`, `DeactivateDuplicates`; for a browser
`RegisterBrowser`, `DeactivateDuplicates`), a deletion or logout one. `BeginSend` reads
the active rows of the recipients; each answer of a service may deactivate the row by
its id later (`SendToken`, `SendBrowser`), whoever has it by then. `TaskDies` stops a
thread between two statements. `met` (a task overlapped another) and `cut` (a
registration died before its last statement) are history.

### Media

`media` is the table, `objects` the files on the disk or in the bucket (`useS3`),
`urls` the valid signed URLs, `attached` the media of messages, `story` the stories. A
request reads its row (`Begin...`), writes files or asks the store, and saves; the
deletion checks its users, removes the files its row named and then clears the row.
A thumbnail is stored in one step and named by the row in another. `Fails` ends a
request between two of its steps: an exception that the upload or
`create_video_thumbnail` catches without deleting what was stored, or a thread that
dies. `mishaps` is history: per medium, whether a deletion and a use ("used") or a video
upload ("filmed") were in progress together, a completion saved its status over a
deletion ("revived"), a deletion failed after the file ("halfDeleted") or an upload
between file and row ("unsaved"). Each property excepts those of them that break it;
other overlaps, of two deletions or of a completion and a deletion in another order, are
harmless. `AttachedIsProtected` shows what "used" can do.

### Messages

A REST creation inserts the message, its attachments and its receipts in separate
statements; the saver of the message stream does the same at once (`SaveFromStream`,
the whole of `MessageStream` seen from here). A status saver takes an entry
(`TakeEntry`, also one that another saver still holds), reads or inserts the receipt
(`ReadReceipt`), writes and announces inside its transaction (`Announce`), commits and
acknowledges; `SaverDies` rolls back. `MarkDelivered` and `MarkRead` update existing
receipts in one statement; `Held` and `Inserting` are the locks that make them wait.
`Move` removes or returns a member. Edits and deletions save the columns that differ
from the row they read. `owed` (the members since a message was stored) and `lame`
(messages whose creation died) are history.

Simplifications: a receipt is the set of its filled columns, without times; one chat;
the members' `last_read_at`, deletion for oneself and the cached last messages are left
out.

### DirectChat

`pair` are the two users of the chat, of whom one may be the service user of a bot;
`chat` tells whether its row is committed, `inChat` are the active members, `count` is
`members_count`, `admitted` the memberships of the bots with their scope, `bot` the
profiles. The chat is opened in a transaction that looks it up by its key
(`Lookup`), inserts it (`InsertChat`, which the unique key makes wait and fail), writes
both members, counts and commits (`Tally`, `CommitChat`); what it has written is shown
to the others by the commit, and `Locked` and `HoldsMembers` are its locks. The requests
about bots have no transaction: the addition writes the membership (`AddAccess`), the
member (`AddMember`), counts and saves; the removal does the reverse in the same order;
the deletion turns off the profile (`DeleteBot`) and then the memberships
(`DeleteAccess`), and leaves the row of the member, so that a deleted bot is still
counted. A bot that sends is checked by its token (`BeginBotSend`), by membership and
scope (`CheckBot`), and as a sender (`ValidateSender`) before the message is stored.
`deleted`, `crossed` (additions that met a removal or a deletion), `lost` (requests that
died) and the `met` of a request are history.

Simplifications: one chat; names, webhooks, commands, the other scopes and the content
of messages are left out; the bots exist from the beginning.

### MCRequests

The five components of the Django application share no row, and neither does `Presence`,
which its middleware shares with the hub. `MCRequests` starts all of them at rest and
lets the one that takes the first step go on alone, so that one run explores each to
its bounds. What they have in common with other modules is an action on either side: a
message that takes media is `Attach` in `Media` and `InsertParts` in `Messages`; a
message from the stream is `SaveFromStream`.

## Runs

| Run | Instance | States | Shows |
|---|---|---|---|
| `stream_safety` | two messages of one user, one also sent over REST, one with media; two entries, two savers, batches of two, one fault | 3.4 M | `NoLostEntry`, `StoredOnce`, `SettledAnnounced`, `InOrder`; refinement of `DurableDelivery` |
| `stream_live` | the two messages, one of which can never be stored, in three entries; one saver, batches of two, two faults | 0.25 M | `EventuallySettled` |
| `call_room` | three connections of two users, one track, two Room objects, two places | 1.25 M | `OnePlacePerUser`, `NoMissingTrack`, `OnlyLateTrackStopsClock`, `RejoinNeverRefused` |
| `call_room_live` | the same connections, one place, one ICE failure | 0.23 M | `GhostsLeave`, `ReplacedIsClosed` |
| `group_chat` | three users, three requests, two at a time, one that fails | 2.1 M | `HasOwner`, `NoStaleGrant`, `OnlyAdminsReadmit`, `CountRepaired` |
| `group_chat_read` | one request | | violated: a member that leaves still reads |
| `group_chat_send` | one request | | violated: initial members cannot send |
| `call_session` | two users, two sessions, four requests (the fourth in a chat that has had one call), two jobs at a time, one that dies, sweeps unbounded | 0.59 M | `OneActiveCall`, `NoOneInClosedCall`, `EmptyCallCloses`, `ReopenedOnlyByAccept`; `CallsEnd` |
| `hub` | two clients, buffers of two messages, two events, three requests | 4.9 M | `NoGap`, `GoneIsForgotten`, `PeersMeet` |
| `call_session_expiry` | two users, one session, two requests | | violated: an accepted call that never expires |
| `requests` | per component two threads and: one address, three codes, seven requests; two users, one device, two tokens and two browsers, four tasks; two media, one story, five requests, disk and bucket; one message, two readers, two savers, three requests, events or moves; one chat, opened before or not, two users, one bot, four requests; two connections, six calls, tracked requests or restarts | 0.90 M | accounts: `CompletedIsUsable`, `OneVerificationCode`, `AccountMovesForward`; push: `OneAddressPerDevice`, `RegistrationHolds`; media: `InUseIsKept`, `UploadedHasObject`, `NoOrphan`; messages: `NoLostStatus`, `ReceiptsComplete`, `ReadStaysRead`, `DeletedStaysEmpty`; direct chat: `BotRowsAgree`, `DirectCountRepaired`, `OnlyAdmittedSpeak`; presence: `PresenceIsRecent` |
| `media_protected` | the same | | violated: an attachment whose media is deleted |

Why the bounds are enough. Stream: with two entries, one can be handed out twice while
the other waits; one fault puts a crash or a failed call at every step; further faults
repeat the same situations, and the theorems cover any number. Liveness needs more
entries than a batch: of three, one that always fails takes a place of each claim of two
and the entry behind it has to get the other; two copies of it fill the claim and starve
the third, which the property excepts and TLC finds when it does not. One saver is
enough there, because a second only helps. Rooms: two connections of one user give a
replacement, the third is the bystander that must be counted, sent tracks and left
alone; two Room objects are needed for the room that is deleted under a handler. Group:
two requests at a time give every pair, the third is the change before or after the race
(the one that repairs the count); one request that fails puts a failure at every step,
and the others show what puts its leftovers right. Sessions: two creations compete;
create, accept and two ends are the shortest way to an empty call. Leaving any one of
the overlaps out of the three invariants makes TLC find a counterexample at this bound,
so each of them occurs; one death puts an end at every step of every job. Hub: a buffer
of two holds two events in their order and is full after the next message; two events of
the subscriber and the messages of readers show order and gaps; three requests are two
joins and one more, or a subscription, a message that fills a buffer, and a subscription
by the client that was closed for it. Panics, ends of the process and clients that
subscribe after they were unregistered all occur. The gap a panicking reader leaves
needs a third client that stays open; with two the panic occurs and the gap does not,
and the theorem covers any number. Accounts: a registration that meets another and a
reset need three codes; register, verify and complete are the three requests before any
other can be stale, and four more can follow. Push: two tokens and two browsers compete
for one device of two users; two registrations, a task that sends and a deletion
overlap. Media: the deletion of one meets each use of it, and the second shows that
nothing spills over. Messages: two savers hold one entry, a REST creation and a status
event insert one receipt, an edit meets a deletion. With one message the order in which
`MarkRead` fills several is not exercised by TLC (the theorems are for any number).
Direct chat: two requests overlap, and four give the one before and the one after them;
the pair with a bot as one of the users and the chat that is opened twice at once are
among the initial states and the steps. Presence: two connections give counts from 0 to
2, and two of them and the subscriber have writes on their way at once; six updates are
two registrations, an unregistration, a restart and two tracked requests.

The type invariants are conjuncts of the inductive invariants and proved with them; no
run lists them.

`CHECK_DEADLOCK FALSE` is set for the call rooms and the hub, where every connection
ends and the process may die, and for the call sessions and the requests, which rest
when nobody asks for more. Symmetry is used for safety runs only, over savers, Room objects,
clients, users, requests, sessions and workers: the specifications treat them alike.

### Fairness

* `MessageStream`: savers go on (they are restarted by the container runtime), pending
  entries become idle. Producers, clients and faults owe nothing.
* `CallRoom`: goroutines run; the ticker of the cleanup fires; a handler whose
  websocket was closed sees the read fail. Nothing makes a client leave or join.
* `CallSession`: time passes, beat starts a sweep every 15 seconds, a job in progress
  goes on. Users owe nothing.
* `GroupChat`, `Hub`, `Presence`, `Accounts`, `PushTokens`, `Media`, `Messages` and
  `DirectChat` have no liveness property and no fairness.

### What the violated runs say

* `group_chat_read`: `mobile_api.md` promises that removed members lose access. The
  hub checks membership when a client subscribes; nothing removes the subscription.
* `group_chat_send`: members can send, says `mobile_api.md`. The members a group is
  created with are inserted with `bulk_create`, their keys are missing in Redis until
  something saves their rows, and the websocket server refuses them. (REST accepts
  them: it reads the table.) A key that expires has the same effect.
* `call_session_expiry`: accepted calls expire, "to prevent permanently active calls".
  An accept that reads a ringing session, is overtaken by the sweep and then saves,
  makes the session accepted with an end time; sweeps look for sessions without one.
  The chat cannot start a call again until one of the participants ends it, and when
  the sweep had also written the participant's `left_at`, an end does not help either.

* `media_protected`: `mobile_api.md` promises that media attached to messages is
  protected from deletion. The deletion looks for attachments in one statement and
  removes files and key in later ones; a message that takes the media between them
  keeps an attachment without them.

## Proofs

TLC checks the instances above; TLAPS proves the following for all values of the
constants that satisfy the assumption of the module. The assumptions are:
`ConstantsAssumption` (five modules: finitely many users, connections or jobs where
something is counted, functions of the right types, bounds that are natural numbers),
`NullAssumption` in `Hub` (the blank values are none of the real ones),
`NamesAssumption` in `GroupChat` (the marks a request keeps are no users),
`MediaAssumption` (the blank medium is no medium), `MaxRequestsAssumption` in
`Accounts`, `PushAssumption` (every address has a kind, the blank device is no device),
`PostsAssumption` (finitely many messages, so that they have positions),
`PresenceAssumption` (finitely many connections, the subscriber is none of them) and
`DirectAssumption` (finitely many users and bots, none of them both or blank).

Every safety invariant and every action property of the passing runs is a theorem.
Each rests on one inductive invariant per module: initial states satisfy it, every
action keeps it, it implies the property. What it adds to the properties is the
interesting part.

* `MessageStream_proofs`. `IInv == TypeOK /\ Progress /\ NoLostEntry /\ StoredOnce /\
  SettledAnnounced /\ Order`. The properties alone are not inductive: that an
  acknowledgement is safe depends on how far its saver got. `Progress` says what a
  saver's place in the loop implies about the entry in hand (its message is a row
  before it is announced, announced before it is acknowledged, in the dead letters
  before that acknowledgement). `Monotone` (rows, dead letters and announcements only
  grow, the stream keeps its entries) carries it over the steps of the others. `Order`
  speaks of a saver that has worked alone and without a failure: entries it may reclaim
  make no rows (`Spent`), and what it has read is behind every row; that is why
  reclaiming before reading does not disturb the order. From `IInv` follow
  `NoEntryIsLost`, `RowsAreUnique`, `AnnouncedBeforeAck`, `SentInOrder`, and
  `Implements`: initial states map to initial states of `DurableDelivery`, and every
  step to one of its steps or a stutter.
* `CallRoom_proofs`. `TypeCorrect` needs `Seated` (whoever closes, publishes or is
  named in a room got a room before). `IInv == TypeOK /\ Occupied /\ OnePlacePerUser`,
  where `Occupied` says where a joined peer can still be found; without it a late
  `RemovePeer` of a replaced peer could be thought to hit the newcomer.
  `PlacesAreUnique` and `RejoinIsNeverRefused` follow; the second is an action property
  that counts the peers of a room without the user's previous one. `RoomInv == Made /\
  Departed /\ PublishedHere /\ NoMissingTrack /\ OnlyLateTrackStopsClock` rests on it:
  a published track is in the room of its owner, and a peer that is not in its room any
  more is being closed or was replaced, so that nobody is owed tracks by it
  (`TracksReachPeers`, `EmptyRoomsAreTimed`).
* `GroupChat_proofs`. `IInv == TypeOK /\ Flow /\ Phases /\ OverlapsSeen /\ LocksApart /\
  TakesOver /\ OwnerInv /\ GrantInv /\ CountRight`. `OverlapsSeen` ties the history to
  the requests in progress; `OwnerInv` says that what a request has read about the owner
  is still true unless one of the overlaps named by `HasOwner` occurred; `GrantInv`, that
  a key without a member was left by a request that failed, or has a request that will
  remove it or restore the member;
  `CountRight`, that a request which met no change has counted what the others see after
  its commit. `OwnerStays`, `GrantsAreFresh`, `Readmitted` and `Repaired` follow. The
  proof attempt of `LocksApart` found a fault of the model: a leave without a successor
  counted the blank user as a locked row, so that two leaves waited for each other.
* `CallSession_proofs`. `IInv == TypeOK /\ JobsOK /\ OverlapsSeen /\ AcceptMet /\
  RingingNotEnded /\ EndedInv /\ OneInv /\ ClosedInv /\ EmptyInv`. `JobsOK` is what a
  request's plan may contain; `OneInv`, `ClosedInv` and `EmptyInv` say, each under the
  absence of the overlaps its property names, what the plans in hand still cover: who is
  joined in a closed session is in the plan of the sweep that closed it, a plan that
  leaves the session open leaves somebody in it. `OneActive`, `NoOneStaysBehind`,
  `LastCloses` and `Reopened` follow. `EmptyCallCloses` was stated for idle workers
  only; the proof showed that it holds at every moment, and so it is stated now.
* `Hub_proofs`. `IInv == TypeOK /\ InHand /\ Ended /\ Fresh /\ Sending /\ Casting /\
  Subscribing /\ Dues /\ NoGap /\ Meeting`. `InHand`: a goroutine has what its step
  needs. `Ended`: the hub's maps hold only clients that have the chat or room in their
  own (so that `Unregister`, which walks the client's own, leaves nothing), and a
  reader past its deferred `Unregister` is in none. `Casting`: a message that numbers
  an event is the sender's own and numbered before the next, and only a client that left
  says that it left. `Dues`: what is due to a client was numbered before anything still
  to come, so a message that is broadcast is the latest of its sender. `Subscribing`: a
  subscription disappears from the hub's map only with the client. `Meeting`: of two
  clients of a room the later one is named to the earlier, in a message written,
  buffered or still to be sent, and the other way round in the answer it will get.
  `GoneClientsAreForgotten`, `EventsArrive` (`NoGap`) and `PeersKnowEachOther`
  (`PeersMeet`) follow. The two last and `InOrder` are stated without sorting, folding
  and counting, which the provers cannot follow; TLC found the forms equal on the
  instances. Of `Presence`: `PresenceIInv` adds to the property that every count on its
  way to Redis, from the hub or from a tracked request, is a recent one
  (`PresenceStaysRecent`).
* `Accounts_proofs`. `IInv == TypeOK /\ RequestsAreChecked /\ OwnCode /\ LockedOut /\
  CompletedIsUsable /\ OneVerificationCode`. `RequestsAreChecked`: what a request read
  is itself a usable account and passed the request's check, so writing it back is
  harmless to the columns (`CompletedIsUsable` is not inductive without). `LockedOut`:
  a registration past its first write is alone on its account and its plan holds every
  valid code of the address; this is where the lock of the account, and nothing else,
  gives `OneVerificationCode`. `AccountMovesForward` follows as an action property.
* `MediaAndPush_proofs` holds the proofs of two components of the Django application
  that share no row. `PushInv == PushTypeOK /\ TasksRight /\ UniqueOrGuarded /\ Alone`.
  `UniqueOrGuarded`: if a device has two active addresses of a kind, some registration
  has the deactivation still before it, or one died before it; the uniqueness of
  the rest follows. `Alone`: a task that met no other finds its address active, which
  gives `RegistrationHolds`. `MediaInv == MediaTypeOK /\ FlowRight /\ Good` (of every
  medium), where `Good` has a part for each way a file or a key is needed. `NewIsAlone`:
  a medium that is being uploaded has no row and no other request. `Keyed` and `Stored`:
  what is uploaded, or about to be marked so, has its key and its file. `Kept`: what is
  used or about to be used is not being deleted. `Named`: every file is named by a row
  or by a request that will name it or delete it. Each part excepts only the mishaps
  that break it, so one mishap leaves the other parts standing. From it `InUseKept`,
  `UploadedIsThere` and `NothingOrphaned`.
* `ChatAndMessages_proofs`, of messages: `IInv == MessagesTypeOK /\ Begun /\ SaversRight
  /\ EditsRight /\ Delivered /\ Owing /\ NoLostStatus`. `SaversRight`: what a saver has
  read of a receipt is still there when it commits, because no writer takes anything
  away (`ReceiptsGrow`, a lemma for all steps). `Owing`: a stored message has all
  receipts, or the request that will insert them knows all it owes, or that request
  died. `DeletedStaysEmpty` in its first form said that only such an edit changes the
  text at all; the proof attempt found the case TLC's bound is too small for (two
  deletions that were read before an edit), and the property now allows a deletion to
  empty the text again. Of direct chats and bots: `DirectInv == DirectTypeOK /\
  RequestsRight /\ CrossingsSeen /\ MeetingsSeen /\ BetweenRows /\ RowsAgree /\
  CountsRight /\ SpeakersRight`. `CrossingsSeen` and `MeetingsSeen` tie the history to
  the requests in progress. `BetweenRows` says what the first of the two rows is while a
  request is between them: a removal there finds the access turned off, an addition
  finds it turned on unless a deletion or another addition came; without it
  `BotRowsAgree` could be lost by the second statement. `CountsRight`: a count in hand
  that met no other change is still the count. `SpeakersRight`: as long as nothing about
  its bot began or was under way, a message has behind it the token it began with, and
  after each check what was checked. `BotRowsAgreeAlways`, `CountRepaired` and
  `SpeakersAdmitted` follow.

Only model-checked: liveness (`EventuallySettled`, `GhostsLeave`, `ReplacedIsClosed`,
`CallsEnd`), because fairness and ENABLED are out of the prover's reach, and the four
properties that the code violates. No module uses a RECURSIVE operator; nothing here
needs induction over data.

## Not modelled

What superusers and the admin site write to accounts, chats and media is left out: a
save there is one more writer of whole rows, and no property speaks of it. Bots in
groups: they join and leave a group as they do a direct chat, with the rows and the
count of `DirectChat`, and no module composes that with the group's own requests. SDP
and ICE negotiation, packet forwarding, the payloads of push messages, mail, image and
video processing: calls of other systems that change no state here. The attempts at a
code are counted and never read. Stickers, complaints, the knowledge base, releases,
contacts, presence views and the website: lists and single-row writes without
interaction. The rate limiter: two Redis commands, whose answer is nondeterministic in
`Hub`; a window without an expiry (`ratelimit/service.go:46`) is repaired by the next
message. The web client: its requests are the nondeterministic input. What receivers
have seen of a message that the saver refuses later (`client.go:345`): the broadcast is
in `Hub` and the refusal in `MessageStream`, and no document says which should hold.

## Plan

In this order:

1. Hub: that a client that was closed is always unregistered, under fairness of the
   goroutines; its access check composed with the cache of `GroupChat`.
2. `Messages`: an abstract receipt (sent, delivered, read) that it implements.
