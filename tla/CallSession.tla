---------------------------- MODULE CallSession ----------------------------
(***************************************************************************)
(* The call sessions of one chat, as the REST backend keeps them: members  *)
(* create, accept, decline, cancel, end or miss a call, and calls that     *)
(* outlive their limits are closed by a sweep, which runs on a timer,      *)
(* before a new call is created and when the history is read.              *)
(*                                                                         *)
(* A request reads the session and the participants first; nothing is      *)
(* locked until it writes, and save(update_fields=...) overwrites what     *)
(* others have written since.  A request is a transaction, the sweep is    *)
(* not.  A job may die, or end with an exception, before any of its steps. *)
(* The reads of one check are one step.                                    *)
(***************************************************************************)
EXTENDS Integers, FiniteSets

CONSTANTS
  Users,        \* the active members of the chat
  Calls,        \* bound: sessions that are ever created
  Workers,      \* web workers and task workers
  MaxRequests,  \* bound: requests of users; sweeps are not bounded
  MaxDeaths,    \* bound: jobs that die
  NoUser, NoCall

ASSUME ConstantsAssumption ==
  /\ IsFiniteSet(Calls)
  /\ MaxRequests \in Nat
  /\ MaxDeaths \in Nat
  /\ NoUser \notin Users
  /\ NoCall \notin Calls

VARIABLES
  status,     \* CallSession.status, "none" before it is created
  initiator,  \* CallSession.initiated_by
  answered,   \* sessions with answered_at
  ended,      \* sessions with ended_at
  late,       \* sessions that are past the limit of their status
  part,       \* CallParticipant.status
  left,       \* <<session, user>> of the participants with left_at
  job,        \* what each worker does
  requests,   \* requests of users so far
  overlaps,   \* pairs of kinds of jobs that were in progress together: two of
              \* a kind, or an accept beside another kind
  deaths,     \* jobs that died so far
  abandoned   \* <<session, user>>: participants that a sweep which had closed the
              \* session had still to write when it died

sessions == <<status, initiator, answered, ended, late>>
failures == <<deaths, abandoned>>
vars == <<sessions, part, left, job, requests, overlaps, failures>>

Active  == {"ringing", "accepted"}
Closed  == {"declined", "canceled", "missed", "ended"}
PartStatus == {"ringing", "joined", "declined", "missed", "left"}
Ops     == {"create", "accept", "decline", "cancel", "end", "missed", "sweep"}
Steps   == {"check", "insert", "write", "commit", "apply", "session", "rows"}
Job     == [op : Ops \cup {"none"}, user : Users \cup {NoUser}, call : Calls \cup {NoCall},
            step : Steps \cup {"idle"}, plan : SUBSET (Users \X PartStatus),
            verdict : Closed \cup {"accepted", "none"}, first : BOOLEAN, met : SUBSET Ops]

\* plan: the participants the job writes and their new status; verdict: the
\* status it gives the session, or "none"; met: the kinds of jobs beside an accept.
Free == [op |-> "none", user |-> NoUser, call |-> NoCall, step |-> "idle",
         plan |-> {}, verdict |-> "none", first |-> FALSE, met |-> {}]

Idle == \A r \in Workers : job[r] = Free
Busy == {r \in Workers : job[r] # Free}

-----------------------------------------------------------------------------
Init ==
  /\ status = [c \in Calls |-> "none"]
  /\ initiator = [c \in Calls |-> NoUser]
  /\ answered = {}
  /\ ended = {}
  /\ late = {}
  /\ part = [c \in Calls |-> [u \in Users |-> "none"]]
  /\ left = {}
  /\ job = [r \in Workers |-> Free]
  /\ requests = 0
  /\ overlaps = {}
  /\ deaths = 0
  /\ abandoned = {}

Joined(ps)  == {u \in Users : ps[u] = "joined"}
Ringing(ps) == {u \in Users : ps[u] = "ringing"}

\* finalize_participant_if_joined leaves a participant with left_at alone.
Leaves(c, us) == {<<u, "left">> : u \in {x \in us : <<c, x>> \notin left}}
Misses(us)    == {<<u, "missed">> : u \in us}

\* Mutant of ClosePlan: only those that are called are closed.
ClosePlanOfCalled(c) == Misses(Ringing(part[c]))

\* Everyone that is in the call leaves it, everyone that is called misses it.
ClosePlan(c) == Leaves(c, Joined(part[c])) \cup Misses(Ringing(part[c]))

Planned(ps, plan) ==
  [u \in Users |-> IF \E s \in PartStatus : <<u, s>> \in plan
                   THEN CHOOSE s \in PartStatus : <<u, s>> \in plan ELSE ps[u]]

-----------------------------------------------------------------------------
(* A job begins: what it reads and checks.                                 *)

Begin(r, j) ==
  /\ job[r] = Free
  /\ job' = [q \in Workers |->
               CASE q = r -> IF j.op = "accept" THEN [j EXCEPT !.met = {job[x].op : x \in Busy}]
                                               ELSE j
                 [] job[q].op = "accept" -> [job[q] EXCEPT !.met = @ \cup {j.op}]
                 [] OTHER -> job[q]]
  /\ overlaps' = overlaps \cup
       {p \in {{j.op, job[q].op} : q \in Busy} : Cardinality(p) = 1 \/ "accept" \in p}
  /\ UNCHANGED <<sessions, part, left, failures>>

Request(r, o, u, c, s, plan, verdict) ==
  /\ requests < MaxRequests
  /\ requests' = requests + 1
  /\ Begin(r, [Free EXCEPT !.op = o, !.user = u, !.call = c, !.step = s, !.plan = plan,
                           !.verdict = verdict, !.first = (o = "accept" /\ c \notin answered)])

BeginCreate(r) ==
  /\ Cardinality({q \in Workers : job[q].op = "create"})
       < Cardinality({c \in Calls : status[c] = "none"})
  /\ \E u \in Users : Request(r, "create", u, NoCall, "check", {}, "none")

\* Mutant of BeginAccept: the status of the session is not checked.
BeginAcceptUnchecked(r) ==
  \E c \in Calls, u \in Users :
    /\ part[c][u] = "ringing"
    /\ Request(r, "accept", u, c, "apply", {<<u, "joined">>}, "accepted")

\* For a participant that has joined already nothing is written.
BeginAccept(r) ==
  \E c \in Calls, u \in Users :
    /\ status[c] \in Active
    /\ part[c][u] = "ringing"
    /\ Request(r, "accept", u, c, "apply", {<<u, "joined">>}, "accepted")

BeginDecline(r) ==
  \E c \in Calls, u \in Users :
    /\ status[c] \in Active
    /\ part[c][u] # "joined"
    /\ Request(r, "decline", u, c, "write", {<<u, "declined">>}, "none")

BeginCancel(r) ==
  \E c \in Calls :
    /\ status[c] = "ringing"
    /\ Request(r, "cancel", initiator[c], c, "apply", ClosePlan(c), "canceled")

BeginEnd(r) ==
  \E c \in Calls, u \in Users :
    /\ status[c] \in Active
    /\ Request(r, "end", u, c, "write", {p \in ClosePlan(c) : p[1] = u}, "none")

\* The status of the session is not checked.
BeginMissed(r) ==
  \E c \in Calls, u \in Users :
    /\ part[c][u] = "ringing"
    /\ Request(r, "missed", u, c, "write", {<<u, "missed">>}, "none")

\* Mutant of Expired: only the limit of unanswered calls is enforced.
ExpiredPending(c)  == status[c] = "ringing" /\ c \in late /\ c \notin ended

\* expire_stale_active_calls, one session at a time.
Expired(c) == status[c] \in Active /\ c \in late /\ c \notin ended

SweepOf(j, c) ==
  [j EXCEPT !.call = c, !.step = "session", !.plan = ClosePlan(c),
            !.verdict = IF status[c] = "accepted" THEN "ended" ELSE "missed"]

BeginSweep(r) ==
  \E c \in Calls :
    /\ Expired(c)
    /\ Begin(r, SweepOf([Free EXCEPT !.op = "sweep"], c))
    /\ UNCHANGED requests

-----------------------------------------------------------------------------
(* The job goes on.                                                        *)

At(r, s) == job[r].step = s

\* The rows of open transactions: other writers wait for them.
Locked == UNION {{<<job[r].call, p[1]>> : p \in job[r].plan} : r \in {x \in Workers : At(x, "commit")}}

Unlocked(c, plan) == \A p \in plan : <<c, p[1]>> \notin Locked

WriteRows(c, plan) ==
  /\ part' = [part EXCEPT ![c] = Planned(@, plan)]
  /\ left' = left \cup {<<c, p[1]>> : p \in {x \in plan : x[2] # "joined"}}

\* finalize_call_session
Finalize(c, s) ==
  /\ status' = [status EXCEPT ![c] = s]
  /\ ended' = ended \cup {c}
  /\ UNCHANGED <<initiator, answered, late>>

Finish(r) ==
  /\ job' = [job EXCEPT ![r] = Free]
  /\ UNCHANGED <<requests, overlaps, failures>>

GoOn(r, j) ==
  /\ job' = [job EXCEPT ![r] = j]
  /\ UNCHANGED <<requests, overlaps, failures>>

\* CallAcceptAPIView: status and answered_at are written, ended_at is not; the
\* limit of an answered call counts from its answer.
AcceptApply(r) ==
  LET c == job[r].call IN
  /\ job[r].op = "accept" /\ At(r, "apply")
  /\ Unlocked(c, job[r].plan)
  /\ WriteRows(c, job[r].plan)
  /\ status' = [status EXCEPT ![c] = "accepted"]
  /\ answered' = answered \cup {c}
  /\ late' = IF job[r].first THEN late \ {c} ELSE late
  /\ Finish(r)
  /\ UNCHANGED <<initiator, ended>>

\* CallCancelAPIView: the participants were prefetched with the session.
CancelApply(r) ==
  LET c == job[r].call IN
  /\ job[r].op = "cancel" /\ At(r, "apply")
  /\ Unlocked(c, job[r].plan)
  /\ WriteRows(c, job[r].plan)
  /\ Finalize(c, job[r].verdict)
  /\ Finish(r)

\* The participant is written, then the participants are queried: what others
\* have committed, with the own change.
Verdict(r, v) ==
  /\ At(r, "write")
  /\ Unlocked(job[r].call, job[r].plan)
  /\ GoOn(r, [job[r] EXCEPT !.step = "commit", !.verdict = v])
  /\ UNCHANGED <<sessions, part, left>>

Seen(r) == Planned(part[job[r].call], job[r].plan)

DeclineWrite(r) ==
  /\ job[r].op = "decline"
  /\ LET others == (Joined(Seen(r)) \cup Ringing(Seen(r))) \ {job[r].user} IN
       Verdict(r, IF others = {} THEN "declined" ELSE "none")

\* Mutant of EndWrite: the participants are queried before the save.
EndWriteQueryFirst(r) ==
  /\ job[r].op = "end"
  /\ LET ps == part[job[r].call] IN
       Verdict(r, IF Joined(ps) # {} THEN "none"
                  ELSE IF Ringing(ps) = {} THEN "ended" ELSE "missed")

EndWrite(r) ==
  /\ job[r].op = "end"
  /\ Verdict(r, IF Joined(Seen(r)) # {} THEN "none"
                ELSE IF Ringing(Seen(r)) = {} THEN "ended" ELSE "missed")

MissedWrite(r) ==
  /\ job[r].op = "missed"
  /\ Verdict(r, IF Joined(Seen(r)) \cup Ringing(Seen(r)) = {} THEN "missed" ELSE "none")

Commit(r) ==
  LET c == job[r].call IN
  /\ At(r, "commit")
  /\ WriteRows(c, job[r].plan)
  /\ IF job[r].verdict = "none" THEN UNCHANGED sessions ELSE Finalize(c, job[r].verdict)
  /\ Finish(r)

\* _finish_expired_session: every save is committed at once.
SweepSession(r) ==
  /\ At(r, "session")
  /\ Finalize(job[r].call, job[r].verdict)
  /\ GoOn(r, [job[r] EXCEPT !.step = "rows"])
  /\ UNCHANGED <<part, left>>

SweepRow(r) ==
  /\ At(r, "rows")
  /\ \E p \in job[r].plan :
       /\ Unlocked(job[r].call, {p})
       /\ WriteRows(job[r].call, {p})
       /\ GoOn(r, [job[r] EXCEPT !.plan = @ \ {p}])
  /\ UNCHANGED sessions

\* The sweep before a creation is followed by the check.
SweepDone(r) ==
  /\ At(r, "rows")
  /\ job[r].plan = {}
  /\ IF job[r].op = "create"
     THEN GoOn(r, [job[r] EXCEPT !.step = "check", !.call = NoCall, !.verdict = "none"])
     ELSE Finish(r)
  /\ UNCHANGED <<sessions, part, left>>

\* CallCreateSerializer.validate: first the sweep of the chat ...
CreateSweep(r) ==
  /\ At(r, "check")
  /\ \E c \in Calls : Expired(c) /\ GoOn(r, SweepOf(job[r], c))
  /\ UNCHANGED <<sessions, part, left>>

\* Mutant of CreateCheck: a ringing call does not count as active.
CreateCheckAccepted(r) ==
  /\ At(r, "check")
  /\ \A c \in Calls : ~Expired(c)
  /\ IF \E c \in Calls : status[c] = "accepted"
     THEN Finish(r)
     ELSE GoOn(r, [job[r] EXCEPT !.step = "insert"])
  /\ UNCHANGED <<sessions, part, left>>

\* ... then the check for an active call ...
CreateCheck(r) ==
  /\ At(r, "check")
  /\ \A c \in Calls : ~Expired(c)
  /\ IF \E c \in Calls : status[c] \in Active
     THEN Finish(r)
     ELSE GoOn(r, [job[r] EXCEPT !.step = "insert"])
  /\ UNCHANGED <<sessions, part, left>>

\* ... and create inserts the session and its participants.
CreateInsert(r) ==
  /\ At(r, "insert")
  /\ \E c \in Calls :
       /\ status[c] = "none"
       /\ status' = [status EXCEPT ![c] = "ringing"]
       /\ initiator' = [initiator EXCEPT ![c] = job[r].user]
       /\ part' = [part EXCEPT ![c] =
                     [u \in Users |-> IF u = job[r].user THEN "joined" ELSE "ringing"]]
  /\ Finish(r)
  /\ UNCHANGED <<answered, ended, late, left>>

\* The pending timeout passes, or the longest duration of an answered call.
TimePasses(c) ==
  /\ status[c] \in Active
  /\ c \notin late
  /\ late' = late \cup {c}
  /\ UNCHANGED <<status, initiator, answered, ended, part, left, job, requests, overlaps, failures>>

\* The worker dies, or a statement or the event that follows a sweep raises.  A
\* request that has not committed leaves nothing; a sweep that was between the
\* session and its participants, a creation's too, leaves the rest of them.
JobDies(r) ==
  /\ job[r] # Free
  /\ deaths < MaxDeaths
  /\ deaths' = deaths + 1
  /\ abandoned' = abandoned \cup
       (IF At(r, "rows") THEN {<<job[r].call, p[1]>> : p \in job[r].plan}
                         ELSE {})
  /\ job' = [job EXCEPT ![r] = Free]
  /\ UNCHANGED <<sessions, part, left, requests, overlaps>>

-----------------------------------------------------------------------------
BeginRequest(r) ==
  \/ BeginCreate(r) \/ BeginAccept(r) \/ BeginDecline(r)
  \/ BeginCancel(r) \/ BeginEnd(r) \/ BeginMissed(r)

Proceed(r) ==
  \/ AcceptApply(r) \/ CancelApply(r)
  \/ DeclineWrite(r) \/ EndWrite(r) \/ MissedWrite(r) \/ Commit(r)
  \/ SweepSession(r) \/ SweepRow(r) \/ SweepDone(r)
  \/ CreateSweep(r) \/ CreateCheck(r) \/ CreateInsert(r)

Next ==
  \/ \E r \in Workers : BeginRequest(r) \/ BeginSweep(r) \/ Proceed(r) \/ JobDies(r)
  \/ \E c \in Calls : TimePasses(c)

Spec == Init /\ [][Next]_vars

\* Time passes, the task queue runs a sweep every few seconds, and a job that
\* is in progress goes on.  Users owe nothing.
Fairness ==
  /\ \A c \in Calls : WF_vars(TimePasses(c))
  /\ WF_vars(\E r \in Workers : BeginSweep(r))
  /\ \A r \in Workers : WF_vars(Proceed(r))

FairSpec == Spec /\ Fairness

-----------------------------------------------------------------------------
TypeOK ==
  /\ status \in [Calls -> Active \cup Closed \cup {"none"}]
  /\ initiator \in [Calls -> Users \cup {NoUser}]
  /\ answered \subseteq Calls /\ ended \subseteq Calls /\ late \subseteq Calls
  /\ part \in [Calls -> [Users -> PartStatus \cup {"none"}]]
  /\ left \subseteq Calls \X Users
  /\ job \in [Workers -> Job]
  /\ requests \in Nat
  /\ overlaps \subseteq SUBSET Ops
  /\ deaths \in Nat
  /\ abandoned \subseteq Calls \X Users
  /\ \A c \in Calls :
       IF status[c] = "none"
       THEN c \notin answered \cup ended \cup late /\ \A u \in Users : part[c][u] = "none"
       ELSE /\ \A u \in Users : part[c][u] # "none"
            /\ status[c] = "accepted" => c \in answered
            /\ status[c] \in Closed => c \in ended

Never(pairs) == overlaps \cap pairs = {}

\* A chat has one active call at a time.  Only two overlaps can make it two:
\* two creations, and a creation that passes an accept which still believes in
\* the call the creation has seen closed.
OneActiveCall ==
  Never({{"create"}, {"create", "accept"}})
    => Cardinality({c \in Calls : status[c] \in Active}) <= 1

\* When no job is in progress, no one is joined to a closed call but those that
\* a sweep had still to write when it died: no later sweep looks at a session
\* that has ended_at.  Beside that only an accept that has overlapped a
\* departure which did not see it leaves someone joined.
NoOneInClosedCall ==
  (Idle /\ Never({{"accept", d} : d \in {"end", "decline", "missed"}}))
    => \A c \in Calls : status[c] \in Closed =>
         \A u \in Joined(part[c]) : <<c, u>> \in abandoned

\* An active call has someone in it: the last one to leave closes it.  It stays
\* open, and keeps the chat from making another call, only when two ends have
\* overlapped, each seeing the other still joined, or an accept has overlapped
\* a job that writes the participant it accepts for.
EmptyCallCloses ==
  Never({{"end"}} \cup {{"accept", x} : x \in {"decline", "missed", "sweep", "create"}})
    => \A c \in Calls : status[c] \in Active => Joined(part[c]) # {}

\* A closed call becomes active again only by an accept that was in progress
\* beside the job that closed it, although closing leaves participants that
\* are still called.
ReopenedOnlyByAccept ==
  [][\A c \in Calls :
       (status[c] \in Closed /\ status'[c] \in Active) =>
         \E r \in Workers : /\ job[r].op = "accept" /\ job[r].call = c /\ job'[r] = Free
                           /\ job[r].met \ {"accept"} # {}]_vars

Unfinished(c) == status[c] = "ringing" \/ (status[c] = "accepted" /\ c \notin ended)

\* A call that nobody answers, and an answered one without an end, are closed
\* in the end: the sweep finds them, whatever the participants do meanwhile.
CallsEnd == \A c \in Calls : Unfinished(c) ~> ~Unfinished(c)

-----------------------------------------------------------------------------
(* What the documentation says and the code does not do.                   *)

\* mobile_api.md: accepted calls expire, to prevent permanently active calls.
\* An accept that overlaps the sweep gives the status back to a session that
\* has ended_at, and the sweep looks for sessions without.
AcceptedCallsExpire ==
  \A c \in Calls : (status[c] = "accepted") ~> (status[c] # "accepted")

=============================================================================
