------------------------ MODULE CallSession_proofs ------------------------
(***************************************************************************)
(* Proofs about CallSession for every set of members, sessions and workers *)
(* and every number of requests.                                           *)
(***************************************************************************)
EXTENDS CallSession, FiniteSetTheorems, TLAPS

-----------------------------------------------------------------------------
\* Which jobs reach which step, and what they are about to write.
Closing(j) == j.step \in {"session", "rows"}
Writing(j) == j.step \in {"write", "commit"}

Shaped(j) ==
  /\ j.op = "none" => j = Free
  /\ j.op = "accept" => j.step = "apply" /\ j.plan = {<<j.user, "joined">>}
  /\ j.op = "cancel" => j.step = "apply" /\ j.verdict = "canceled"
  /\ j.op \in {"decline", "end", "missed"} => Writing(j)
  /\ j.op = "decline" => j.plan = {<<j.user, "declined">>}
  /\ j.op = "missed" => j.plan = {<<j.user, "missed">>}
  /\ j.op = "end" => j.plan \subseteq {j.user} \X PartStatus
  /\ j.op = "sweep" => Closing(j)
  /\ j.op = "create" => j.user \in Users /\ (j.step \in {"check", "insert"} \/ Closing(j))
  /\ j.op # "accept" => \A u \in Users : <<u, "joined">> \notin j.plan /\ <<u, "ringing">> \notin j.plan
  /\ j.step = "apply" => j.op \in {"accept", "cancel"}
  /\ Writing(j) => j.op \in {"decline", "end", "missed"} /\ j.verdict \in Closed \cup {"none"}
  /\ Closing(j) => j.op \in {"sweep", "create"} /\ j.verdict \in {"ended", "missed"}
  /\ j.step \in {"check", "insert"} => j.op = "create"
  /\ j.step \in {"apply", "write", "commit", "session", "rows"} =>
       j.call \in Calls /\ status[j.call] # "none"

JobsOK == \A r \in Workers : Shaped(job[r])

\* Jobs that are in progress together are recorded.
OverlapsSeen ==
  \A r \in Workers, q \in Workers :
    r # q /\ job[r].op # "none" /\ job[q].op # "none" =>
      /\ job[r].op = job[q].op \/ job[r].op = "accept" => {job[r].op, job[q].op} \in overlaps
      /\ job[r].op = "accept" => job[q].op \in job[r].met

AcceptMet ==
  \A r \in Workers : job[r].op = "accept" /\ status[job[r].call] \in Closed =>
                       job[r].met \ {"accept"} # {}

\* Without the overlaps that OneActiveCall names.
OneCreates == Never({{"create"}, {"create", "accept"}})
OneInv ==
  OneCreates =>
    /\ \A c \in Calls, d \in Calls : status[c] \in Active /\ status[d] \in Active => c = d
    /\ \A r \in Workers : At(r, "insert") => \A c \in Calls : status[c] \notin Active
    /\ \A r \in Workers : job[r].op = "accept" =>
         /\ \A c \in Calls : status[c] \in Active => c = job[r].call
         /\ \A q \in Workers : job[q].op = "accept" => job[q].call = job[r].call

\* Without the overlaps that NoOneInClosedCall names.
Gone(c, u) == part[c][u] \in {"declined", "missed", "left"}
Accepting(c, u) == \E r \in Workers : job[r].op = "accept" /\ job[r].call = c /\ job[r].user = u
InPlan(r, u) == \E s \in PartStatus : <<u, s>> \in job[r].plan

\* A session that has not been closed: who can still come in has not left.
Open(c, u) ==
  c \notin ended =>
    /\ part[c][u] \in {"ringing", "joined"} => <<c, u>> \notin left
    /\ Accepting(c, u) => part[c][u] \in {"ringing", "joined"}

\* A job that closes a session writes everyone who is or may come in.
Covers(r, u) ==
  job[r].op = "cancel" \/ At(r, "session") =>
    InPlan(r, u) \/ (Gone(job[r].call, u) /\ ~Accepting(job[r].call, u))

\* Who is joined to a closed session is written by a sweep, if it lives.
Cleared(c, u) ==
  status[c] \in Closed /\ part[c][u] = "joined" /\ <<c, u>> \notin abandoned =>
    \E r \in Workers : At(r, "rows") /\ job[r].call = c /\ InPlan(r, u)

NoneDeparts == Never({{"accept", d} : d \in {"end", "decline", "missed"}})
ClosedInv ==
  NoneDeparts =>
    /\ \A c \in Calls, u \in Users : Open(c, u) /\ Cleared(c, u)
    /\ \A r \in Workers, u \in Users : Covers(r, u)
    /\ \A r \in Workers : At(r, "commit") /\ job[r].verdict # "none" => Joined(Seen(r)) = {}

EndedInv == /\ \A r \in Workers : At(r, "rows") => job[r].call \in ended
            /\ \A c \in Calls, u \in Users : status[c] = "none" => <<c, u>> \notin left

\* Without the overlaps that EmptyCallCloses names.
StaysOpen(r) ==
  (/\ job[r].op = "end" /\ At(r, "commit") /\ job[r].verdict = "none"
   /\ status[job[r].call] \in Active) => Joined(Seen(r)) # {}
NeverJoins(r) == job[r].op \in {"decline", "missed"} => part[job[r].call][job[r].user] # "joined"
StaysClosed(r) == At(r, "rows") => status[job[r].call] \in Closed

OneLeaves ==
  Never({{"end"}} \cup {{"accept", x} : x \in {"decline", "missed", "sweep", "create"}})
EmptyInv ==
  OneLeaves =>
    /\ \A c \in Calls : status[c] \in Active => Joined(part[c]) # {}
    /\ \A r \in Workers : StaysOpen(r) /\ NeverJoins(r) /\ StaysClosed(r)

RingingNotEnded == \A c \in Calls : status[c] = "ringing" => c \notin ended

IInv == /\ TypeOK /\ JobsOK /\ OverlapsSeen /\ AcceptMet /\ RingingNotEnded
        /\ EndedInv /\ OneInv /\ ClosedInv /\ EmptyInv

-----------------------------------------------------------------------------
(* Plans and rows *)

LEMMA PlannedRows ==
  ASSUME NEW ps \in [Users -> PartStatus \cup {"none"}], NEW plan
  PROVE  /\ Planned(ps, plan) \in [Users -> PartStatus \cup {"none"}]
         /\ \A u \in Users : (\E s \in PartStatus : <<u, s>> \in plan) =>
              Planned(ps, plan)[u] \in PartStatus /\ <<u, Planned(ps, plan)[u]>> \in plan
         /\ \A u \in Users : ~(\E s \in PartStatus : <<u, s>> \in plan) =>
              Planned(ps, plan)[u] = ps[u]
<1>1. ASSUME NEW u \in Users, NEW s \in PartStatus, <<u, s>> \in plan
      PROVE  Planned(ps, plan)[u] \in PartStatus /\ <<u, Planned(ps, plan)[u]>> \in plan
  <2>1. Planned(ps, plan)[u] = CHOOSE x \in PartStatus : <<u, x>> \in plan
    BY <1>1 DEF Planned
  <2>2. QED
    BY <1>1, <2>1
<1>2. ASSUME NEW u \in Users, ~(\E s \in PartStatus : <<u, s>> \in plan)
      PROVE  Planned(ps, plan)[u] = ps[u]
  BY <1>2 DEF Planned
<1>3. \A u \in Users : Planned(ps, plan)[u] \in PartStatus \cup {"none"}
  BY <1>1, <1>2
<1>4. Planned(ps, plan) = [u \in Users |-> Planned(ps, plan)[u]]
  BY DEF Planned
<1>5. QED
  BY <1>1, <1>2, <1>3, <1>4

LEMMA ClosePlanRows ==
  ASSUME TypeOK, NEW c \in Calls
  PROVE  /\ ClosePlan(c) \subseteq Users \X PartStatus
         /\ \A u \in Users : <<u, "joined">> \notin ClosePlan(c) /\ <<u, "ringing">> \notin ClosePlan(c)
         /\ \A u \in Users : part[c][u] = "joined" /\ <<c, u>> \notin left =>
              <<u, "left">> \in ClosePlan(c)
         /\ \A u \in Users : part[c][u] = "ringing" => <<u, "missed">> \in ClosePlan(c)
<1>1. \A p : p \in ClosePlan(c) <=>
              \/ \E u \in Users : p = <<u, "left">> /\ part[c][u] = "joined" /\ <<c, u>> \notin left
              \/ \E u \in Users : p = <<u, "missed">> /\ part[c][u] = "ringing"
  <2>1. \A p : p \in Leaves(c, Joined(part[c])) <=>
                \E u \in Users : p = <<u, "left">> /\ part[c][u] = "joined" /\ <<c, u>> \notin left
    BY Zenon DEF Leaves, Joined
  <2>2. \A p : p \in Misses(Ringing(part[c])) <=>
                \E u \in Users : p = <<u, "missed">> /\ part[c][u] = "ringing"
    BY Zenon DEF Misses, Ringing
  <2>3. QED
    BY <2>1, <2>2 DEF ClosePlan
<1>2. ClosePlan(c) \subseteq Users \X PartStatus
  <2>1. "left" \in PartStatus /\ "missed" \in PartStatus
    BY DEF PartStatus
  <2>2. ASSUME NEW p \in ClosePlan(c)
        PROVE  p \in Users \X PartStatus
    <3>1. \/ \E u \in Users : p = <<u, "left">>
          \/ \E u \in Users : p = <<u, "missed">>
      BY <1>1, Zenon
    <3>2. QED
      BY <2>1, <3>1
  <2>3. QED
    BY <2>2
<1>3. ASSUME NEW u \in Users, NEW s, <<u, s>> \in ClosePlan(c)
      PROVE  s \in {"left", "missed"}
  <2>1. \/ \E x \in Users : <<u, s>> = <<x, "left">>
        \/ \E x \in Users : <<u, s>> = <<x, "missed">>
    BY <1>1, <1>3, Zenon
  <2>2. QED
    BY <2>1
<1>4. ASSUME NEW u \in Users
      PROVE  /\ <<u, "joined">> \notin ClosePlan(c) /\ <<u, "ringing">> \notin ClosePlan(c)
             /\ part[c][u] = "joined" /\ <<c, u>> \notin left => <<u, "left">> \in ClosePlan(c)
             /\ part[c][u] = "ringing" => <<u, "missed">> \in ClosePlan(c)
  <2>1. <<u, "joined">> \notin ClosePlan(c) /\ <<u, "ringing">> \notin ClosePlan(c)
    BY <1>3
  <2>2. QED
    BY <1>1, <2>1, Zenon
<1>5. QED
  BY <1>2, <1>4

\* What a write does to the rows of its session, and that it does nothing else.
LEMMA WriteEffect ==
  ASSUME TypeOK, NEW c \in Calls, NEW plan \in SUBSET (Users \X PartStatus), WriteRows(c, plan)
  PROVE  /\ part' \in [Calls -> [Users -> PartStatus \cup {"none"}]]
         /\ left' \subseteq Calls \X Users
         /\ part'[c] = Planned(part[c], plan)
         /\ \A d \in Calls : d # c => part'[d] = part[d]
         /\ \A u \in Users : (\E s \in PartStatus : <<u, s>> \in plan) =>
              part'[c][u] \in PartStatus /\ <<u, part'[c][u]>> \in plan
         /\ \A u \in Users : ~(\E s \in PartStatus : <<u, s>> \in plan) =>
              part'[c][u] = part[c][u]
         /\ \A u \in Users : part'[c][u] \in PartStatus \/ part'[c][u] = part[c][u]
         /\ \A d \in Calls, u \in Users : <<d, u>> \in left' =>
              <<d, u>> \in left \/ (d = c /\ \E s \in PartStatus : s # "joined" /\ <<u, s>> \in plan)
<1>1. part[c] \in [Users -> PartStatus \cup {"none"}]
  BY DEF TypeOK
<1>2. Planned(part[c], plan) \in [Users -> PartStatus \cup {"none"}]
  BY <1>1, PlannedRows
<1>3. /\ part' \in [Calls -> [Users -> PartStatus \cup {"none"}]]
      /\ part'[c] = Planned(part[c], plan)
      /\ \A d \in Calls : d # c => part'[d] = part[d]
  BY <1>2 DEF WriteRows, TypeOK
<1>4. left' = left \cup {<<c, p[1]>> : p \in {x \in plan : x[2] # "joined"}}
  BY DEF WriteRows
<1>5. left' \subseteq Calls \X Users
  BY <1>4 DEF TypeOK
<1>6. ASSUME NEW d \in Calls, NEW u \in Users, <<d, u>> \in left', <<d, u>> \notin left
      PROVE  d = c /\ \E s \in PartStatus : s # "joined" /\ <<u, s>> \in plan
  <2>1. PICK p \in plan : p[2] # "joined" /\ <<d, u>> = <<c, p[1]>>
    BY <1>4, <1>6
  <2>2. d = c /\ u = p[1] /\ p = <<p[1], p[2]>> /\ p[2] \in PartStatus
    BY <2>1
  <2>3. QED
    BY <2>1, <2>2
<1>7. /\ \A u \in Users : (\E s \in PartStatus : <<u, s>> \in plan) =>
           part'[c][u] \in PartStatus /\ <<u, part'[c][u]>> \in plan
      /\ \A u \in Users : ~(\E s \in PartStatus : <<u, s>> \in plan) =>
           part'[c][u] = part[c][u]
  BY <1>1, <1>3, PlannedRows
<1>8. \A u \in Users : part'[c][u] \in PartStatus \/ part'[c][u] = part[c][u]
  BY <1>7, Zenon
<1>9. QED
  BY <1>3, <1>5, <1>6, <1>7, <1>8

-----------------------------------------------------------------------------
(* Jobs *)

LEMMA FreeJob ==
  /\ Free \in Job /\ Free.op = "none" /\ Free.step = "idle" /\ Free.plan = {}
  /\ Free.met = {} /\ Free.verdict = "none" /\ Free.call = NoCall
BY DEF Free, Job

\* What a job is about, without what it has met.
SameJob(i, j) == /\ i.op = j.op /\ i.user = j.user /\ i.call = j.call /\ i.step = j.step
                 /\ i.plan = j.plan /\ i.verdict = j.verdict

LEMMA BusyJobs ==
  ASSUME TypeOK, JobsOK, NEW r \in Workers
  PROVE  /\ job[r] \in Job
         /\ r \in Busy <=> job[r].op # "none"
         /\ r \in Busy => job[r].op \in Ops
<1>1. job[r] \in Job
  BY DEF TypeOK
<1>2. job[r].op = "none" => job[r] = Free
  BY DEF JobsOK, Shaped
<1>3. QED
  BY <1>1, <1>2, FreeJob DEF Busy, Job

LEMMA Singletons == \A x, y : Cardinality({x, y}) = 1 <=> x = y
<1>1. \A x : Cardinality({x}) = 1
  BY FS_Singleton
<1>2. ASSUME NEW x, NEW y, x # y
      PROVE  Cardinality({x, y}) # 1
  <2>1. Cardinality({x} \cup {y}) = Cardinality({x}) + 1
    BY <1>2, FS_AddElement, FS_Singleton
  <2>2. {x} \cup {y} = {x, y}
    OBVIOUS
  <2>3. QED
    BY <1>1, <2>1, <2>2
<1>3. ASSUME NEW x, NEW y, x = y
      PROVE  Cardinality({x, y}) = 1
  <2>1. {x, y} = {x}
    BY <1>3
  <2>2. QED
    BY <1>1, <2>1
<1>4. QED
  BY <1>2, <1>3, Zenon

LEMMA Meets ==
  ASSUME NEW j \in Job, NEW m \in SUBSET Ops
  PROVE  /\ [j EXCEPT !.met = m] \in Job
         /\ [j EXCEPT !.met = m].met = m
         /\ SameJob([j EXCEPT !.met = m], j)
BY DEF Job, SameJob

LEMMA BeginEffect ==
  ASSUME TypeOK, JobsOK, NEW r \in Workers, NEW j \in Job, j.op \in Ops, j.met = {}, Begin(r, j)
  PROVE  /\ job' \in [Workers -> Job]
         /\ r \notin Busy
         /\ SameJob(job'[r], j)
         /\ \A q \in Workers : q # r => SameJob(job'[q], job[q]) /\ job[q].met \subseteq job'[q].met
         /\ \A q \in Workers : q # r /\ job[q].op # "accept" => job'[q] = job[q]
         /\ j.op = "accept" => \A q \in Busy : job[q].op \in job'[r].met
         /\ \A q \in Workers : q # r /\ job[q].op = "accept" => j.op \in job'[q].met
         /\ overlaps' \subseteq SUBSET Ops /\ overlaps \subseteq overlaps'
         /\ \A q \in Busy : j.op = job[q].op \/ "accept" \in {j.op, job[q].op} =>
              {j.op, job[q].op} \in overlaps'
         /\ UNCHANGED <<sessions, part, left>>
         /\ deaths' = deaths /\ abandoned' = abandoned
<1>1. job[r] = Free /\ r \notin Busy
  BY DEF Begin, Busy
<1>2. ASSUME NEW q \in Workers
      PROVE  /\ job'[q] \in Job
             /\ q = r => SameJob(job'[q], j)
             /\ q # r => SameJob(job'[q], job[q]) /\ job[q].met \subseteq job'[q].met
             /\ q # r /\ job[q].op # "accept" => job'[q] = job[q]
             /\ q = r /\ j.op = "accept" => \A x \in Busy : job[x].op \in job'[q].met
             /\ q # r /\ job[q].op = "accept" => j.op \in job'[q].met
  <2>1. job[q] \in Job /\ \A x \in Busy : job[x].op \in Ops
    BY BusyJobs DEF Busy
  <2>2. CASE q = r /\ j.op = "accept"
    <3>1. job'[q] = [j EXCEPT !.met = {job[x].op : x \in Busy}]
      BY <1>1, <2>2, FreeJob DEF Begin
    <3>2. {job[x].op : x \in Busy} \subseteq Ops
      BY <2>1
    <3>3. QED
      BY <2>2, <3>1, <3>2, Meets
  <2>3. CASE q = r /\ j.op # "accept"
    <3>1. job'[q] = j
      BY <1>1, <2>3, FreeJob DEF Begin
    <3>2. QED
      BY <2>3, <3>1 DEF SameJob
  <2>4. CASE q # r /\ job[q].op = "accept"
    <3>1. job'[q] = [job[q] EXCEPT !.met = job[q].met \cup {j.op}]
      BY <2>4 DEF Begin
    <3>2. job[q].met \cup {j.op} \in SUBSET Ops
      BY <2>1 DEF Job
    <3>3. QED
      BY <2>1, <2>4, <3>1, <3>2, Meets
  <2>5. CASE q # r /\ job[q].op # "accept"
    <3>1. job'[q] = job[q]
      BY <2>5 DEF Begin
    <3>2. QED
      BY <2>1, <2>5, <3>1 DEF SameJob
  <2>6. QED
    BY <2>2, <2>3, <2>4, <2>5
<1>3. job' \in [Workers -> Job]
  <2>1. job' = [q \in Workers |-> job'[q]]
    BY DEF Begin
  <2>2. QED
    BY <1>2, <2>1
<1>4. /\ overlaps' \subseteq SUBSET Ops /\ overlaps \subseteq overlaps'
      /\ \A q \in Busy : j.op = job[q].op \/ "accept" \in {j.op, job[q].op} =>
           {j.op, job[q].op} \in overlaps'
  <2>1. overlaps' = overlaps \cup
          {p \in {{j.op, job[q].op} : q \in Busy} : Cardinality(p) = 1 \/ "accept" \in p}
    BY DEF Begin
  <2>2. \A q \in Busy : job[q].op \in Ops
    BY BusyJobs DEF Busy
  <2>3. \A q \in Busy : j.op = job[q].op => Cardinality({j.op, job[q].op}) = 1
    BY Singletons
  <2>4. QED
    BY <2>1, <2>2, <2>3 DEF TypeOK
<1>5. QED
  BY <1>1, <1>2, <1>3, <1>4 DEF Begin, failures

\* A job as it begins, with what its request has read.
Begun(j) ==
  /\ j \in Job /\ j.met = {}
  /\ \/ j.op = "create" /\ j.step = "check" /\ j.plan = {} /\ j.user \in Users
     \/ /\ j.call \in Calls
        /\ \/ /\ j.op = "accept" /\ j.step = "apply" /\ j.plan = {<<j.user, "joined">>}
              /\ j.user \in Users
              /\ status[j.call] \in Active /\ part[j.call][j.user] = "ringing"
           \/ /\ j.op = "cancel" /\ j.step = "apply" /\ j.plan = ClosePlan(j.call)
              /\ j.verdict = "canceled" /\ status[j.call] = "ringing"
           \/ /\ j.op = "decline" /\ j.step = "write" /\ j.plan = {<<j.user, "declined">>}
              /\ j.user \in Users /\ j.verdict = "none"
              /\ status[j.call] \in Active /\ part[j.call][j.user] # "joined"
           \/ /\ j.op = "end" /\ j.step = "write" /\ j.verdict = "none"
              /\ j.plan \subseteq {j.user} \X PartStatus /\ j.plan \subseteq ClosePlan(j.call)
              /\ j.user \in Users /\ status[j.call] \in Active
           \/ /\ j.op = "missed" /\ j.step = "write" /\ j.plan = {<<j.user, "missed">>}
              /\ j.user \in Users /\ j.verdict = "none"
              /\ part[j.call][j.user] = "ringing"
           \/ /\ j.op = "sweep" /\ j.step = "session" /\ j.plan = ClosePlan(j.call)
              /\ j.verdict \in {"ended", "missed"} /\ Expired(j.call)

Verdicts == Closed \cup {"accepted", "none"}

Asked(o, u, c, s, plan, v) ==
  [Free EXCEPT !.op = o, !.user = u, !.call = c, !.step = s, !.plan = plan,
               !.verdict = v, !.first = (o = "accept" /\ c \notin answered)]

LEMMA AskedFields ==
  ASSUME NEW o, NEW u, NEW c, NEW s, NEW plan, NEW v
  PROVE  /\ Asked(o, u, c, s, plan, v).op = o
         /\ Asked(o, u, c, s, plan, v).user = u
         /\ Asked(o, u, c, s, plan, v).call = c
         /\ Asked(o, u, c, s, plan, v).step = s
         /\ Asked(o, u, c, s, plan, v).plan = plan
         /\ Asked(o, u, c, s, plan, v).verdict = v
         /\ Asked(o, u, c, s, plan, v).met = {}
BY DEF Asked, Free

LEMMA AskedJob ==
  ASSUME NEW o \in Ops, NEW u \in Users \cup {NoUser}, NEW c \in Calls \cup {NoCall},
         NEW s \in Steps, NEW plan \in SUBSET (Users \X PartStatus), NEW v \in Verdicts
  PROVE  Asked(o, u, c, s, plan, v) \in Job
BY DEF Asked, Free, Job, Verdicts

LEMMA RequestBegins ==
  ASSUME TypeOK, NEW r, NEW o, NEW u, NEW c, NEW s, NEW plan, NEW v,
         Request(r, o, u, c, s, plan, v)
  PROVE  Begin(r, Asked(o, u, c, s, plan, v)) /\ requests' \in Nat
BY DEF Request, Asked, TypeOK

LEMMA SweepJob ==
  ASSUME NEW j \in Job, TypeOK, NEW c \in Calls, Expired(c)
  PROVE  /\ SweepOf(j, c) \in Job
         /\ SweepOf(j, c).op = j.op /\ SweepOf(j, c).call = c /\ SweepOf(j, c).step = "session"
         /\ SweepOf(j, c).plan = ClosePlan(c) /\ SweepOf(j, c).verdict \in {"ended", "missed"}
         /\ SweepOf(j, c).met = j.met
<1>1. ClosePlan(c) \in SUBSET (Users \X PartStatus)
  BY ClosePlanRows
<1>2. QED
  BY <1>1 DEF SweepOf, Job, Steps, Closed

LEMMA JobBegins ==
  ASSUME TypeOK, NEW r \in Workers, BeginRequest(r) \/ BeginSweep(r)
  PROVE  requests' \in Nat /\ \E j \in Job : Begun(j) /\ Begin(r, j) /\ j.op \in Ops
<1>1. /\ "create" \in Ops /\ "accept" \in Ops /\ "decline" \in Ops /\ "cancel" \in Ops
      /\ "end" \in Ops /\ "missed" \in Ops /\ "sweep" \in Ops
      /\ "check" \in Steps /\ "apply" \in Steps /\ "write" \in Steps
      /\ "canceled" \in Verdicts /\ "accepted" \in Verdicts /\ "none" \in Verdicts
      /\ NoCall \in Calls \cup {NoCall} /\ {} \in SUBSET (Users \X PartStatus)
      /\ "joined" \in PartStatus /\ "declined" \in PartStatus /\ "missed" \in PartStatus
  BY DEF Ops, Steps, Verdicts, Closed, PartStatus
<1>2. ASSUME BeginCreate(r)
      PROVE  requests' \in Nat /\ \E j \in Job : Begun(j) /\ Begin(r, j) /\ j.op \in Ops
  <2>1. PICK u \in Users : Request(r, "create", u, NoCall, "check", {}, "none")
    BY <1>2 DEF BeginCreate
  <2> DEFINE j == Asked("create", u, NoCall, "check", {}, "none")
  <2>2. /\ j.op = "create" /\ j.step = "check"
        /\ j.user = u /\ j.call = NoCall /\ j.plan = {} /\ j.verdict = "none" /\ j.met = {}
    BY AskedFields
  <2>t. j \in Job
    BY <1>1, <2>1, AskedJob
  <2>3. Begin(r, j) /\ requests' \in Nat
    BY <2>1, RequestBegins
  <2> HIDE DEF j
  <2>4. Begun(j) /\ j.op \in Ops
    BY <1>1, <2>1, <2>2, <2>t DEF Begun
  <2>5. QED
    BY <2>t, <2>3, <2>4
<1>3. ASSUME BeginAccept(r)
      PROVE  requests' \in Nat /\ \E j \in Job : Begun(j) /\ Begin(r, j) /\ j.op \in Ops
  <2>1. PICK c \in Calls, u \in Users :
          /\ status[c] \in Active /\ part[c][u] = "ringing"
          /\ Request(r, "accept", u, c, "apply", {<<u, "joined">>}, "accepted")
    BY <1>3 DEF BeginAccept
  <2>2. {<<u, "joined">>} \in SUBSET (Users \X PartStatus)
    BY <1>1
  <2> DEFINE j == Asked("accept", u, c, "apply", {<<u, "joined">>}, "accepted")
  <2>3. /\ j.op = "accept" /\ j.step = "apply"
        /\ j.user = u /\ j.call = c /\ j.plan = {<<u, "joined">>} /\ j.verdict = "accepted" /\ j.met = {}
    BY AskedFields
  <2>t. j \in Job
    BY <1>1, <2>1, <2>2, AskedJob
  <2>4. Begin(r, j) /\ requests' \in Nat
    BY <2>1, <2>2, RequestBegins
  <2> HIDE DEF j
  <2>5. Begun(j) /\ j.op \in Ops
    BY <1>1, <2>1, <2>2, <2>3, <2>t DEF Begun
  <2>6. QED
    BY <2>t, <2>4, <2>5
<1>4. ASSUME BeginDecline(r)
      PROVE  requests' \in Nat /\ \E j \in Job : Begun(j) /\ Begin(r, j) /\ j.op \in Ops
  <2>1. PICK c \in Calls, u \in Users :
          /\ status[c] \in Active /\ part[c][u] # "joined"
          /\ Request(r, "decline", u, c, "write", {<<u, "declined">>}, "none")
    BY <1>4 DEF BeginDecline
  <2>2. {<<u, "declined">>} \in SUBSET (Users \X PartStatus)
    BY <1>1
  <2> DEFINE j == Asked("decline", u, c, "write", {<<u, "declined">>}, "none")
  <2>3. /\ j.op = "decline" /\ j.step = "write"
        /\ j.user = u /\ j.call = c /\ j.plan = {<<u, "declined">>} /\ j.verdict = "none" /\ j.met = {}
    BY AskedFields
  <2>t. j \in Job
    BY <1>1, <2>1, <2>2, AskedJob
  <2>4. Begin(r, j) /\ requests' \in Nat
    BY <2>1, <2>2, RequestBegins
  <2> HIDE DEF j
  <2>5. Begun(j) /\ j.op \in Ops
    BY <1>1, <2>1, <2>2, <2>3, <2>t DEF Begun
  <2>6. QED
    BY <2>t, <2>4, <2>5
<1>5. ASSUME BeginCancel(r)
      PROVE  requests' \in Nat /\ \E j \in Job : Begun(j) /\ Begin(r, j) /\ j.op \in Ops
  <2>1. PICK c \in Calls :
          /\ status[c] = "ringing"
          /\ Request(r, "cancel", initiator[c], c, "apply", ClosePlan(c), "canceled")
    BY <1>5 DEF BeginCancel
  <2>2. ClosePlan(c) \in SUBSET (Users \X PartStatus) /\ initiator[c] \in Users \cup {NoUser}
    BY ClosePlanRows DEF TypeOK
  <2> DEFINE j == Asked("cancel", initiator[c], c, "apply", ClosePlan(c), "canceled")
  <2>3. /\ j.op = "cancel" /\ j.step = "apply"
        /\ j.user = initiator[c] /\ j.call = c /\ j.plan = ClosePlan(c) /\ j.verdict = "canceled" /\ j.met = {}
    BY AskedFields
  <2>t. j \in Job
    BY <1>1, <2>1, <2>2, AskedJob
  <2>4. Begin(r, j) /\ requests' \in Nat
    BY <2>1, <2>2, RequestBegins
  <2> HIDE DEF j
  <2>5. Begun(j) /\ j.op \in Ops
    BY <1>1, <2>1, <2>2, <2>3, <2>t DEF Begun
  <2>6. QED
    BY <2>t, <2>4, <2>5
<1>6. ASSUME BeginEnd(r)
      PROVE  requests' \in Nat /\ \E j \in Job : Begun(j) /\ Begin(r, j) /\ j.op \in Ops
  <2>1. PICK c \in Calls, u \in Users :
          /\ status[c] \in Active
          /\ Request(r, "end", u, c, "write", {p \in ClosePlan(c) : p[1] = u}, "none")
    BY <1>6 DEF BeginEnd
  <2>2. /\ {p \in ClosePlan(c) : p[1] = u} \in SUBSET (Users \X PartStatus)
        /\ {p \in ClosePlan(c) : p[1] = u} \subseteq {u} \X PartStatus
        /\ {p \in ClosePlan(c) : p[1] = u} \subseteq ClosePlan(c)
    BY ClosePlanRows
  <2> DEFINE j == Asked("end", u, c, "write", {p \in ClosePlan(c) : p[1] = u}, "none")
  <2>3. /\ j.op = "end" /\ j.step = "write"
        /\ j.user = u /\ j.call = c /\ j.plan = {p \in ClosePlan(c) : p[1] = u} /\ j.verdict = "none" /\ j.met = {}
    BY AskedFields
  <2>t. j \in Job
    BY <1>1, <2>1, <2>2, AskedJob
  <2>4. Begin(r, j) /\ requests' \in Nat
    BY <2>1, <2>2, RequestBegins
  <2> HIDE DEF j
  <2>5. Begun(j) /\ j.op \in Ops
    BY <1>1, <2>1, <2>2, <2>3, <2>t DEF Begun
  <2>6. QED
    BY <2>t, <2>4, <2>5
<1>7. ASSUME BeginMissed(r)
      PROVE  requests' \in Nat /\ \E j \in Job : Begun(j) /\ Begin(r, j) /\ j.op \in Ops
  <2>1. PICK c \in Calls, u \in Users :
          /\ part[c][u] = "ringing"
          /\ Request(r, "missed", u, c, "write", {<<u, "missed">>}, "none")
    BY <1>7 DEF BeginMissed
  <2>2. {<<u, "missed">>} \in SUBSET (Users \X PartStatus)
    BY <1>1
  <2> DEFINE j == Asked("missed", u, c, "write", {<<u, "missed">>}, "none")
  <2>3. /\ j.op = "missed" /\ j.step = "write"
        /\ j.user = u /\ j.call = c /\ j.plan = {<<u, "missed">>} /\ j.verdict = "none" /\ j.met = {}
    BY AskedFields
  <2>t. j \in Job
    BY <1>1, <2>1, <2>2, AskedJob
  <2>4. Begin(r, j) /\ requests' \in Nat
    BY <2>1, <2>2, RequestBegins
  <2> HIDE DEF j
  <2>5. Begun(j) /\ j.op \in Ops
    BY <1>1, <2>1, <2>2, <2>3, <2>t DEF Begun
  <2>6. QED
    BY <2>t, <2>4, <2>5
<1>8. ASSUME BeginSweep(r)
      PROVE  requests' \in Nat /\ \E j \in Job : Begun(j) /\ Begin(r, j) /\ j.op \in Ops
  <2>1. PICK c \in Calls : /\ Expired(c)
                           /\ Begin(r, SweepOf([Free EXCEPT !.op = "sweep"], c))
                           /\ UNCHANGED requests
    BY <1>8 DEF BeginSweep
  <2> DEFINE k == [Free EXCEPT !.op = "sweep"]
  <2>2. k \in Job /\ k.op = "sweep" /\ k.met = {}
    BY FreeJob, <1>1 DEF Job, Free
  <2> HIDE DEF k
  <2>3. Begun(SweepOf(k, c)) /\ SweepOf(k, c).op \in Ops /\ SweepOf(k, c) \in Job
    BY <1>1, <2>1, <2>2, SweepJob DEF Begun
  <2>4. Begin(r, SweepOf(k, c))
    BY <2>1 DEF k
  <2>5. QED
    BY <2>1, <2>3, <2>4 DEF TypeOK
<1>9. QED
  BY <1>2, <1>3, <1>4, <1>5, <1>6, <1>7, <1>8 DEF BeginRequest

-----------------------------------------------------------------------------
(* Types *)

TablesOK ==
  /\ status \in [Calls -> Active \cup Closed \cup {"none"}]
  /\ initiator \in [Calls -> Users \cup {NoUser}]
  /\ answered \subseteq Calls /\ ended \subseteq Calls /\ late \subseteq Calls
  /\ part \in [Calls -> [Users -> PartStatus \cup {"none"}]]
  /\ left \subseteq Calls \X Users
  /\ \A c \in Calls :
       IF status[c] = "none"
       THEN c \notin answered \cup ended \cup late /\ \A u \in Users : part[c][u] = "none"
       ELSE /\ \A u \in Users : part[c][u] # "none"
            /\ status[c] = "accepted" => c \in answered
            /\ status[c] \in Closed => c \in ended

\* A step of a worker gives it the job k and leaves the others alone.
Gets(r, k) == job' = [job EXCEPT ![r] = k] /\ UNCHANGED <<requests, overlaps, failures>>

LEMMA GetsEffect ==
  ASSUME TypeOK, NEW r \in Workers, NEW k \in Job, Gets(r, k)
  PROVE  /\ job' \in [Workers -> Job] /\ job'[r] = k
         /\ \A q \in Workers : q # r => job'[q] = job[q]
         /\ overlaps' = overlaps /\ requests' = requests
         /\ deaths' = deaths /\ abandoned' = abandoned
BY DEF Gets, TypeOK, failures

LEMMA Tables ==
  ASSUME TypeOK, NEW r \in Workers, NEW k \in Job, Gets(r, k), TablesOK'
  PROVE  TypeOK'
BY GetsEffect DEF TypeOK, TablesOK

\* Calls are created and never removed: the shape of a job lasts.
LEMMA ShapesStay ==
  ASSUME TypeOK, JobsOK, NEW r \in Workers, NEW k \in Job, Gets(r, k),
         \A c \in Calls : status[c] # "none" => status'[c] # "none", Shaped(k)
  PROVE  JobsOK'
<1>1. ASSUME NEW q \in Workers
      PROVE  Shaped(job'[q])
  BY GetsEffect DEF JobsOK
<1>2. ASSUME NEW j, Shaped(j)
      PROVE  Shaped(j)'
  BY <1>2 DEF Shaped, Writing, Closing
<1>3. QED
  BY <1>1, <1>2 DEF JobsOK, Shaped, Writing, Closing

\* Whatever a job writes about its call, it closes it or leaves its status.
LEMMA CloseTypes ==
  ASSUME TypeOK, RingingNotEnded, NEW c \in Calls, status[c] # "none",
         NEW plan \in SUBSET (Users \X PartStatus), NEW s \in Closed,
         Finalize(c, s) \/ UNCHANGED sessions,
         WriteRows(c, plan) \/ UNCHANGED <<part, left>>
  PROVE  /\ TablesOK' /\ RingingNotEnded'
         /\ \A d \in Calls : status[d] # "none" => status'[d] # "none"
<1>1. /\ part' \in [Calls -> [Users -> PartStatus \cup {"none"}]]
      /\ left' \subseteq Calls \X Users
      /\ \A d \in Calls : d # c => part'[d] = part[d]
      /\ \A u \in Users : part'[c][u] # "none"
  <2>1. CASE WriteRows(c, plan)
    <3>1. \A u \in Users : part[c][u] # "none" /\ "none" \notin PartStatus
      BY DEF TypeOK, PartStatus
    <3>2. \A u \in Users : part'[c][u] \in PartStatus \/ part'[c][u] = part[c][u]
      BY <2>1, WriteEffect
    <3>3. QED
      BY <2>1, <3>1, <3>2, WriteEffect
  <2>2. CASE UNCHANGED <<part, left>>
    BY <2>2 DEF TypeOK
  <2>3. QED
    BY <2>1, <2>2
<1>2. s \notin Active /\ s # "none"
  BY DEF Active, Closed
<1>3. /\ status' \in [Calls -> Active \cup Closed \cup {"none"}]
      /\ \/ status'[c] = s /\ c \in ended'
         \/ status'[c] = status[c] /\ (c \in ended' <=> c \in ended)
      /\ \A d \in Calls : d # c => status'[d] = status[d] /\ (d \in ended' <=> d \in ended)
      /\ ended' \subseteq Calls
      /\ UNCHANGED <<initiator, answered, late>>
  <2>1. CASE Finalize(c, s)
    BY <2>1 DEF Finalize, TypeOK
  <2>2. CASE UNCHANGED sessions
    BY <2>2 DEF sessions, TypeOK
  <2>3. QED
    BY <2>1, <2>2
<1>4. ASSUME NEW d \in Calls
      PROVE  /\ IF status'[d] = "none"
                THEN /\ d \notin answered' \cup ended' \cup late'
                     /\ \A u \in Users : part'[d][u] = "none"
                ELSE /\ \A u \in Users : part'[d][u] # "none"
                     /\ status'[d] = "accepted" => d \in answered'
                     /\ status'[d] \in Closed => d \in ended'
             /\ status'[d] = "ringing" => d \notin ended'
             /\ status[d] # "none" => status'[d] # "none"
  <2>1. CASE d = c
    BY <1>1, <1>2, <1>3, <2>1 DEF TypeOK, Active, RingingNotEnded
  <2>2. CASE d # c
    BY <1>1, <1>3, <2>2 DEF TypeOK, RingingNotEnded
  <2>3. QED
    BY <2>1, <2>2
<1>5. QED
  BY <1>1, <1>3, <1>4 DEF TablesOK, RingingNotEnded, TypeOK

\* The next step of a job; what it is about stays.
LEMMA VerdictJob ==
  ASSUME NEW j \in Job, NEW v \in Closed \cup {"none"}
  PROVE  LET k == [j EXCEPT !.step = "commit", !.verdict = v]
         IN  /\ k \in Job /\ k.op = j.op /\ k.user = j.user /\ k.call = j.call
             /\ k.plan = j.plan /\ k.met = j.met /\ k.step = "commit" /\ k.verdict = v
BY DEF Job, Steps

LEMMA RowsJob ==
  ASSUME NEW j \in Job
  PROVE  LET k == [j EXCEPT !.step = "rows"]
         IN  /\ k \in Job /\ k.op = j.op /\ k.user = j.user /\ k.call = j.call
             /\ k.plan = j.plan /\ k.met = j.met /\ k.step = "rows" /\ k.verdict = j.verdict
BY DEF Job, Steps

LEMMA RowDoneJob ==
  ASSUME NEW j \in Job, NEW p
  PROVE  LET k == [j EXCEPT !.plan = j.plan \ {p}]
         IN  /\ k \in Job /\ k.op = j.op /\ k.user = j.user /\ k.call = j.call
             /\ k.plan = j.plan \ {p} /\ k.met = j.met /\ k.step = j.step
             /\ k.verdict = j.verdict
BY DEF Job

LEMMA CheckJob ==
  ASSUME NEW j \in Job
  PROVE  LET k == [j EXCEPT !.step = "check", !.call = NoCall, !.verdict = "none"]
         IN  /\ k \in Job /\ k.op = j.op /\ k.user = j.user /\ k.call = NoCall
             /\ k.plan = j.plan /\ k.met = j.met /\ k.step = "check" /\ k.verdict = "none"
BY DEF Job, Steps

LEMMA InsertJob ==
  ASSUME NEW j \in Job
  PROVE  LET k == [j EXCEPT !.step = "insert"]
         IN  /\ k \in Job /\ k.op = j.op /\ k.user = j.user /\ k.call = j.call
             /\ k.plan = j.plan /\ k.met = j.met /\ k.step = "insert" /\ k.verdict = j.verdict
BY DEF Job, Steps

Typed == TypeOK /\ JobsOK /\ RingingNotEnded

\* The job of a worker that is not free: its call exists when it has one.
LEMMA JobShape ==
  ASSUME Typed, NEW r \in Workers
  PROVE  /\ job[r] \in Job /\ Shaped(job[r]) /\ job[r].plan \in SUBSET (Users \X PartStatus)
         /\ job[r].step \in {"apply", "write", "commit", "session", "rows"} =>
              job[r].call \in Calls /\ status[job[r].call] # "none"
<1>1. job[r] \in Job /\ Shaped(job[r])
  BY DEF Typed, TypeOK, JobsOK
<1>2. job[r].plan \in SUBSET (Users \X PartStatus)
  BY <1>1 DEF Job
<1>3. QED
  BY <1>1, <1>2 DEF Shaped

LEMMA FreeShaped == Shaped(Free)
BY DEF Shaped, Free, Writing, Closing

LEMMA BeginTypes ==
  ASSUME Typed, NEW r \in Workers, BeginRequest(r) \/ BeginSweep(r)
  PROVE  Typed'
<1>1. PICK j \in Job : Begun(j) /\ Begin(r, j) /\ j.op \in Ops /\ requests' \in Nat
  BY JobBegins DEF Typed
<1>2. /\ job' \in [Workers -> Job] /\ SameJob(job'[r], j)
      /\ \A q \in Workers : q # r => SameJob(job'[q], job[q])
      /\ \A q \in Workers : q # r /\ job[q].op # "accept" => job'[q] = job[q]
      /\ overlaps' \subseteq SUBSET Ops
      /\ UNCHANGED <<sessions, part, left, deaths, abandoned>>
  BY <1>1, BeginEffect DEF Typed, Begun
<1>3. Shaped(j) /\ j.op # "none"
  <2>1. j.op # "none"
    BY <1>1 DEF Ops
  <2>2. j.call \in Calls => \A u \in Users : /\ <<u, "joined">> \notin ClosePlan(j.call)
                                        /\ <<u, "ringing">> \notin ClosePlan(j.call)
    BY ClosePlanRows DEF Typed
  <2>3. j.call \in Calls /\ status[j.call] = "none" => \A u \in Users : part[j.call][u] = "none"
    BY DEF Typed, TypeOK
  <2>4. status[j.call] \in Active => status[j.call] # "none"
    BY DEF Active
  <2>5. QED
    BY <1>1, <2>1, <2>2, <2>3, <2>4 DEF Begun, Shaped, Writing, Closing, Expired
<1>4. ASSUME NEW q \in Workers
      PROVE  Shaped(job'[q])
  <2>1. CASE q = r
    BY <1>2, <1>3, <2>1 DEF Shaped, SameJob, Writing, Closing
  <2>2. CASE q # r /\ job[q].op = "accept"
    BY <1>2, <2>2 DEF Shaped, SameJob, Typed, JobsOK, Writing, Closing
  <2>3. CASE q # r /\ job[q].op # "accept"
    BY <1>2, <2>3 DEF Typed, JobsOK
  <2>4. QED
    BY <2>1, <2>2, <2>3
<1>5. JobsOK'
  <2>1. ASSUME NEW q \in Workers
        PROVE  Shaped(job[q])'
    BY <1>2, <1>4 DEF Shaped, sessions, Writing, Closing
  <2>2. QED
    BY <2>1 DEF JobsOK
<1>6. TypeOK'
  BY <1>1, <1>2 DEF Typed, TypeOK, sessions
<1>7. RingingNotEnded'
  BY <1>2 DEF Typed, RingingNotEnded, sessions
<1>8. QED
  BY <1>5, <1>6, <1>7 DEF Typed

\* A step that writes no table.
LEMMA PlainTypes ==
  ASSUME Typed, NEW r \in Workers, NEW k \in Job, Gets(r, k), Shaped(k),
         UNCHANGED <<sessions, part, left>>
  PROVE  Typed'
<1>1. TablesOK'
  BY DEF Typed, TypeOK, TablesOK, sessions
<1>2. JobsOK'
  BY ShapesStay DEF Typed, sessions
<1>3. TypeOK'
  BY <1>1, Tables DEF Typed
<1>4. RingingNotEnded'
  BY DEF Typed, RingingNotEnded, sessions
<1>5. QED
  BY <1>2, <1>3, <1>4 DEF Typed

LEMMA CloseStepTypes ==
  ASSUME Typed, NEW r \in Workers, NEW k \in Job, Gets(r, k), Shaped(k),
         NEW c \in Calls, status[c] # "none",
         NEW plan \in SUBSET (Users \X PartStatus), NEW s \in Closed,
         Finalize(c, s) \/ UNCHANGED sessions,
         WriteRows(c, plan) \/ UNCHANGED <<part, left>>
  PROVE  Typed'
<1>1. /\ TablesOK' /\ RingingNotEnded'
      /\ \A d \in Calls : status[d] # "none" => status'[d] # "none"
  BY CloseTypes DEF Typed
<1>2. JobsOK'
  BY <1>1, ShapesStay DEF Typed
<1>3. TypeOK'
  BY <1>1, Tables DEF Typed
<1>4. QED
  BY <1>1, <1>2, <1>3 DEF Typed

-----------------------------------------------------------------------------
(* What each step of a job does *)

Keeps(k, j) == k.op = j.op /\ k.user = j.user /\ k.met = j.met

\* The query after the write: a verdict means that no one is joined, and the
\* end of a member without one that someone is.
LEMMA VerdictEffect ==
  ASSUME Typed, NEW r \in Workers, DeclineWrite(r) \/ EndWrite(r) \/ MissedWrite(r)
  PROVE  \E k \in Job :
           /\ Gets(r, k) /\ Shaped(k) /\ Keeps(k, job[r])
           /\ job[r].op \in {"decline", "end", "missed"} /\ At(r, "write")
           /\ k.step = "commit" /\ k.call = job[r].call /\ k.plan = job[r].plan
           /\ k.verdict # "none" => Joined(Seen(r)) = {}
           /\ k.op = "end" /\ k.verdict = "none" => Joined(Seen(r)) # {}
           /\ UNCHANGED <<sessions, part, left>>
<1>1. /\ At(r, "write") /\ job[r].op \in {"decline", "end", "missed"}
      /\ job[r] \in Job /\ Shaped(job[r])
      /\ job[r].call \in Calls /\ status[job[r].call] # "none"
  BY JobShape DEF DeclineWrite, EndWrite, MissedWrite, Verdict, At
<1>2. PICK v \in Closed \cup {"none"} :
        /\ Verdict(r, v)
        /\ v # "none" => Joined(Seen(r)) = {}
        /\ job[r].op = "end" /\ v = "none" => Joined(Seen(r)) # {}
  <2>1. {"declined", "ended", "missed", "none"} \subseteq Closed \cup {"none"}
    BY DEF Closed
  <2>2. CASE DeclineWrite(r)
    <3>1. job[r].op = "decline" /\ job[r].plan = {<<job[r].user, "declined">>}
      BY <1>1, <2>2 DEF DeclineWrite, Shaped
    <3>2. job[r].user \in Users /\ "declined" \in PartStatus
      <4>1. job[r].plan \in SUBSET (Users \X PartStatus)
        BY JobShape
      <4>2. <<job[r].user, "declined">> \in Users \X PartStatus
        BY <3>1, <4>1
      <4>3. QED
        BY <4>2
    <3>3. Seen(r)[job[r].user] = "declined"
      <4>1. part[job[r].call] \in [Users -> PartStatus \cup {"none"}]
        BY <1>1 DEF Typed, TypeOK
      <4>2. <<job[r].user, Seen(r)[job[r].user]>> \in job[r].plan
        BY <3>1, <3>2, <4>1, PlannedRows DEF Seen
      <4>3. QED
        BY <3>1, <4>2
    <3>4. (Joined(Seen(r)) \cup Ringing(Seen(r))) \ {job[r].user} = {} => Joined(Seen(r)) = {}
      BY <3>3 DEF Joined
    <3>5. CASE (Joined(Seen(r)) \cup Ringing(Seen(r))) \ {job[r].user} = {}
      BY <2>1, <2>2, <3>1, <3>4, <3>5 DEF DeclineWrite
    <3>6. CASE (Joined(Seen(r)) \cup Ringing(Seen(r))) \ {job[r].user} # {}
      BY <2>1, <2>2, <3>1, <3>6 DEF DeclineWrite
    <3>7. QED
      BY <3>5, <3>6
  <2>3. CASE EndWrite(r)
    <3>1. CASE Joined(Seen(r)) # {}
      BY <2>1, <2>3, <3>1 DEF EndWrite
    <3>2. CASE Joined(Seen(r)) = {} /\ Ringing(Seen(r)) = {}
      BY <2>1, <2>3, <3>2 DEF EndWrite
    <3>3. CASE Joined(Seen(r)) = {} /\ Ringing(Seen(r)) # {}
      BY <2>1, <2>3, <3>3 DEF EndWrite
    <3>4. QED
      BY <3>1, <3>2, <3>3
  <2>4. CASE MissedWrite(r)
    <3>1. job[r].op = "missed"
      BY <2>4 DEF MissedWrite
    <3>2. CASE Joined(Seen(r)) \cup Ringing(Seen(r)) = {}
      BY <2>1, <2>4, <3>1, <3>2 DEF MissedWrite
    <3>3. CASE Joined(Seen(r)) \cup Ringing(Seen(r)) # {}
      BY <2>1, <2>4, <3>1, <3>3 DEF MissedWrite
    <3>4. QED
      BY <3>2, <3>3
  <2>5. QED
    BY <2>2, <2>3, <2>4
<1> DEFINE k == [job[r] EXCEPT !.step = "commit", !.verdict = v]
<1>3. /\ k \in Job /\ Keeps(k, job[r]) /\ k.call = job[r].call
      /\ k.plan = job[r].plan /\ k.step = "commit" /\ k.verdict = v
  BY <1>1, VerdictJob DEF Keeps
<1>4. Gets(r, k) /\ UNCHANGED <<sessions, part, left>>
  BY <1>2 DEF Verdict, GoOn, Gets
<1> HIDE DEF k
<1>5. Shaped(k)
  BY <1>1, <1>2, <1>3 DEF Shaped, Keeps, Writing, Closing
<1>6. QED
  BY <1>1, <1>2, <1>3, <1>4, <1>5 DEF Keeps

LEMMA CancelEffect ==
  ASSUME Typed, NEW r \in Workers, CancelApply(r)
  PROVE  /\ Gets(r, Free) /\ job[r].op = "cancel"
         /\ job[r].call \in Calls /\ status[job[r].call] # "none"
         /\ WriteRows(job[r].call, job[r].plan) /\ Finalize(job[r].call, "canceled")
<1>1. At(r, "apply") /\ job[r].op = "cancel"
  BY DEF CancelApply
<1>2. job[r].verdict = "canceled" /\ job[r].call \in Calls /\ status[job[r].call] # "none"
  BY <1>1, JobShape DEF At, Shaped
<1>3. QED
  BY <1>1, <1>2 DEF CancelApply, Finish, Gets

LEMMA CommitEffect ==
  ASSUME Typed, NEW r \in Workers, Commit(r)
  PROVE  /\ Gets(r, Free) /\ At(r, "commit")
         /\ job[r].op \in {"decline", "end", "missed"}
         /\ job[r].call \in Calls /\ status[job[r].call] # "none"
         /\ WriteRows(job[r].call, job[r].plan)
         /\ \/ job[r].verdict = "none" /\ UNCHANGED sessions
            \/ job[r].verdict \in Closed /\ Finalize(job[r].call, job[r].verdict)
<1>1. At(r, "commit")
  BY DEF Commit
<1>2. /\ job[r].op \in {"decline", "end", "missed"} /\ job[r].verdict \in Closed \cup {"none"}
      /\ job[r].call \in Calls /\ status[job[r].call] # "none"
  BY <1>1, JobShape DEF At, Shaped, Writing
<1>3. QED
  BY <1>1, <1>2 DEF Commit, Finish, Gets

LEMMA SweepEffect ==
  ASSUME Typed, NEW r \in Workers, SweepSession(r)
  PROVE  /\ At(r, "session") /\ job[r].op \in {"sweep", "create"}
         /\ job[r].call \in Calls /\ status[job[r].call] # "none"
         /\ job[r].verdict \in Closed /\ Finalize(job[r].call, job[r].verdict)
         /\ UNCHANGED <<part, left>>
         /\ \E k \in Job : /\ Gets(r, k) /\ Shaped(k) /\ Keeps(k, job[r])
                           /\ k.step = "rows" /\ k.call = job[r].call /\ k.plan = job[r].plan
<1>1. At(r, "session") /\ job[r] \in Job /\ Shaped(job[r])
  BY JobShape DEF SweepSession
<1>2. /\ job[r].op \in {"sweep", "create"} /\ job[r].verdict \in Closed
      /\ job[r].call \in Calls /\ status[job[r].call] # "none"
  BY <1>1, JobShape DEF At, Shaped, Closing, Closed
<1> DEFINE k == [job[r] EXCEPT !.step = "rows"]
<1>3. /\ k \in Job /\ Keeps(k, job[r]) /\ k.call = job[r].call
      /\ k.plan = job[r].plan /\ k.step = "rows" /\ k.verdict = job[r].verdict
  BY <1>1, RowsJob DEF Keeps
<1>4. Gets(r, k)
  BY DEF SweepSession, GoOn, Gets
<1> HIDE DEF k
<1>5. Shaped(k)
  BY <1>1, <1>2, <1>3 DEF Shaped, Keeps, Writing, Closing, At
<1>6. QED
  BY <1>1, <1>2, <1>3, <1>4, <1>5 DEF SweepSession

LEMMA RowEffect ==
  ASSUME Typed, NEW r \in Workers, SweepRow(r)
  PROVE  /\ At(r, "rows") /\ job[r].op \in {"sweep", "create"}
         /\ job[r].call \in Calls /\ status[job[r].call] # "none"
         /\ UNCHANGED sessions
         /\ \E k \in Job, p \in job[r].plan :
              /\ WriteRows(job[r].call, {p})
              /\ Gets(r, k) /\ Shaped(k) /\ Keeps(k, job[r])
              /\ k.step = "rows" /\ k.call = job[r].call /\ k.plan = job[r].plan \ {p}
<1>1. At(r, "rows") /\ job[r] \in Job /\ Shaped(job[r])
  BY JobShape DEF SweepRow
<1>2. /\ job[r].op \in {"sweep", "create"} /\ job[r].verdict \in {"ended", "missed"}
      /\ job[r].call \in Calls /\ status[job[r].call] # "none"
  BY <1>1, JobShape DEF At, Shaped, Closing
<1>3. PICK p \in job[r].plan : /\ WriteRows(job[r].call, {p})
                               /\ GoOn(r, [job[r] EXCEPT !.plan = job[r].plan \ {p}])
  BY DEF SweepRow
<1> DEFINE k == [job[r] EXCEPT !.plan = job[r].plan \ {p}]
<1>4. /\ k \in Job /\ Keeps(k, job[r]) /\ k.call = job[r].call
      /\ k.plan = job[r].plan \ {p} /\ k.step = "rows" /\ k.verdict = job[r].verdict
  BY <1>1, RowDoneJob DEF Keeps, At
<1>5. Gets(r, k)
  BY <1>3 DEF GoOn, Gets
<1> HIDE DEF k
<1>6. Shaped(k)
  BY <1>1, <1>2, <1>4 DEF Shaped, Keeps, Writing, Closing, At
<1>7. QED
  BY <1>1, <1>2, <1>3, <1>4, <1>5, <1>6 DEF SweepRow

\* The end of a sweep and the check before a creation.
LEMMA CheckEffect ==
  ASSUME Typed, NEW r \in Workers, SweepDone(r) \/ CreateSweep(r) \/ CreateCheck(r)
  PROVE  /\ (At(r, "rows") /\ job[r].plan = {}) \/ At(r, "check")
         /\ job[r].op \in {"sweep", "create"}
         /\ UNCHANGED <<sessions, part, left>>
         /\ \E k \in Job :
              /\ Gets(r, k) /\ Shaped(k)
              /\ \/ k = Free
                 \/ Keeps(k, job[r]) /\ k.op = "create" /\ k.step = "check"
                 \/ /\ Keeps(k, job[r]) /\ k.op = "create" /\ k.step = "session"
                    /\ Expired(k.call) /\ k.call \in Calls /\ k.plan = ClosePlan(k.call)
                 \/ /\ Keeps(k, job[r]) /\ k.op = "create" /\ k.step = "insert"
                    /\ \A c \in Calls : status[c] \notin Active
<1>1. job[r] \in Job /\ Shaped(job[r])
  BY JobShape
<1>2. CASE SweepDone(r)
  <2>1. /\ At(r, "rows") /\ job[r].plan = {} /\ UNCHANGED <<sessions, part, left>>
        /\ job[r].op \in {"sweep", "create"}
    BY <1>1, <1>2 DEF SweepDone, Shaped, Closing, At
  <2>2. CASE job[r].op # "create"
    <3>1. Gets(r, Free)
      BY <1>2, <2>2 DEF SweepDone, Finish, Gets
    <3>2. QED
      BY <2>1, <3>1, FreeJob, FreeShaped
  <2>3. CASE job[r].op = "create"
    <3> DEFINE k == [job[r] EXCEPT !.step = "check", !.call = NoCall, !.verdict = "none"]
    <3>1. Gets(r, k)
      BY <1>2, <2>3 DEF SweepDone, GoOn, Gets
    <3>2. /\ k \in Job /\ k.plan = job[r].plan /\ k.step = "check" /\ k.op = "create"
          /\ Keeps(k, job[r])
      BY <1>1, <2>3, CheckJob DEF Keeps
    <3> HIDE DEF k
    <3>3. Shaped(k)
      BY <1>1, <2>1, <2>3, <3>2 DEF Keeps, Shaped, Writing, Closing
    <3>4. QED
      BY <2>1, <3>1, <3>2, <3>3
  <2>4. QED
    BY <2>2, <2>3
<1>3. CASE CreateSweep(r)
  <2>1. /\ At(r, "check") /\ job[r].op = "create" /\ UNCHANGED <<sessions, part, left>>
    BY <1>1, <1>3 DEF CreateSweep, Shaped, At
  <2>2. PICK c \in Calls : Expired(c) /\ GoOn(r, SweepOf(job[r], c))
    BY <1>3 DEF CreateSweep
  <2> DEFINE k == SweepOf(job[r], c)
  <2>3. /\ k \in Job /\ k.op = "create" /\ k.call = c /\ k.step = "session"
        /\ k.plan = ClosePlan(c) /\ k.verdict \in {"ended", "missed"} /\ k.met = job[r].met
    BY <1>1, <2>1, <2>2, SweepJob DEF Typed
  <2>4. k.user = job[r].user
    BY <1>1 DEF SweepOf, Job
  <2>5. Gets(r, k)
    BY <2>2 DEF GoOn, Gets
  <2> HIDE DEF k
  <2>6. Shaped(k)
    <3>1. \A u \in Users : <<u, "joined">> \notin k.plan /\ <<u, "ringing">> \notin k.plan
      BY <2>3, ClosePlanRows DEF Typed
    <3>2. status[c] # "none"
      BY <2>2 DEF Expired, Active
    <3>3. QED
      BY <1>1, <2>1, <2>3, <2>4, <3>1, <3>2 DEF Shaped, Writing, Closing
  <2>7. QED
    BY <2>1, <2>2, <2>3, <2>4, <2>5, <2>6 DEF Keeps
<1>4. CASE CreateCheck(r)
  <2>1. /\ At(r, "check") /\ job[r].op = "create" /\ UNCHANGED <<sessions, part, left>>
    BY <1>1, <1>4 DEF CreateCheck, Shaped, At
  <2>2. CASE \E c \in Calls : status[c] \in Active
    <3>1. Gets(r, Free)
      BY <1>4, <2>2 DEF CreateCheck, Finish, Gets
    <3>2. QED
      BY <2>1, <3>1, FreeJob, FreeShaped
  <2>3. CASE \A c \in Calls : status[c] \notin Active
    <3> DEFINE k == [job[r] EXCEPT !.step = "insert"]
    <3>1. Gets(r, k)
      BY <1>4, <2>3 DEF CreateCheck, GoOn, Gets
    <3>2. /\ k \in Job /\ k.plan = job[r].plan /\ k.step = "insert" /\ k.op = "create"
          /\ Keeps(k, job[r])
      BY <1>1, <2>1, InsertJob DEF Keeps
    <3> HIDE DEF k
    <3>3. Shaped(k)
      BY <1>1, <2>1, <3>2 DEF Keeps, Shaped, Writing, Closing
    <3>4. QED
      BY <2>1, <2>3, <3>1, <3>2, <3>3
  <2>4. QED
    BY <2>2, <2>3
<1>5. QED
  BY <1>2, <1>3, <1>4

LEMMA AcceptEffect ==
  ASSUME Typed, NEW r \in Workers, AcceptApply(r)
  PROVE  /\ Gets(r, Free) /\ job[r].op = "accept" /\ job[r].user \in Users
         /\ job[r].call \in Calls /\ status[job[r].call] # "none"
         /\ job[r].plan = {<<job[r].user, "joined">>}
         /\ Unlocked(job[r].call, job[r].plan)
         /\ WriteRows(job[r].call, job[r].plan)
         /\ part'[job[r].call][job[r].user] = "joined"
         /\ \A u \in Users : u # job[r].user => part'[job[r].call][u] = part[job[r].call][u]
         /\ \A d \in Calls : d # job[r].call => part'[d] = part[d]
         /\ left' = left /\ ended' = ended /\ initiator' = initiator
         /\ status'[job[r].call] = "accepted"
         /\ \A d \in Calls : d # job[r].call => status'[d] = status[d]
         /\ status' \in [Calls -> Active \cup Closed \cup {"none"}]
         /\ answered' = answered \cup {job[r].call} /\ late' \subseteq late
<1>1. /\ job[r].op = "accept" /\ At(r, "apply") /\ job[r].call \in Calls
      /\ status[job[r].call] # "none" /\ job[r].plan = {<<job[r].user, "joined">>}
      /\ job[r].plan \in SUBSET (Users \X PartStatus)
  BY JobShape DEF AcceptApply, At, Shaped
<1>2. job[r].user \in Users
  <2>1. <<job[r].user, "joined">> \in Users \X PartStatus
    BY <1>1
  <2>2. QED
    BY <2>1
<1>3. WriteRows(job[r].call, job[r].plan)
  BY DEF AcceptApply
<1>4. /\ \A u \in Users : (\E s \in PartStatus : <<u, s>> \in job[r].plan) =>
           <<u, part'[job[r].call][u]>> \in job[r].plan
      /\ \A u \in Users : ~(\E s \in PartStatus : <<u, s>> \in job[r].plan) =>
           part'[job[r].call][u] = part[job[r].call][u]
      /\ \A d \in Calls : d # job[r].call => part'[d] = part[d]
  BY <1>1, <1>3, WriteEffect DEF Typed
<1>5. part'[job[r].call][job[r].user] = "joined"
  <2>1. <<job[r].user, "joined">> \in job[r].plan /\ "joined" \in PartStatus
    BY <1>1 DEF PartStatus
  <2>2. <<job[r].user, part'[job[r].call][job[r].user]>> \in job[r].plan
    BY <1>2, <1>4, <2>1
  <2>3. QED
    BY <1>1, <2>2
<1>6. \A u \in Users : u # job[r].user => part'[job[r].call][u] = part[job[r].call][u]
  BY <1>1, <1>4
<1>7. left' = left
  <2>1. \A p \in job[r].plan : p[2] = "joined"
    BY <1>1
  <2>2. left' = left \cup {<<job[r].call, p[1]>> : p \in {x \in job[r].plan : x[2] # "joined"}}
    BY <1>3 DEF WriteRows
  <2>3. QED
    BY <2>1, <2>2
<1>8. /\ status'[job[r].call] = "accepted"
      /\ \A d \in Calls : d # job[r].call => status'[d] = status[d]
      /\ status' \in [Calls -> Active \cup Closed \cup {"none"}]
  BY <1>1 DEF AcceptApply, Typed, TypeOK, Active
<1>9. QED
  BY <1>1, <1>2, <1>3, <1>4, <1>5, <1>6, <1>7, <1>8 DEF AcceptApply, Finish, Gets

LEMMA InsertEffect ==
  ASSUME Typed, NEW r \in Workers, CreateInsert(r)
  PROVE  /\ Gets(r, Free) /\ At(r, "insert") /\ job[r].op = "create" /\ job[r].user \in Users
         /\ UNCHANGED <<answered, ended, late, left>>
         /\ \E c \in Calls :
              /\ status[c] = "none" /\ c \notin ended /\ \A u \in Users : part[c][u] = "none"
              /\ status'[c] = "ringing"
              /\ \A d \in Calls : d # c => status'[d] = status[d] /\ part'[d] = part[d]
              /\ \A u \in Users : /\ u = job[r].user => part'[c][u] = "joined"
                                  /\ u # job[r].user => part'[c][u] = "ringing"
              /\ status' \in [Calls -> Active \cup Closed \cup {"none"}]
              /\ part' \in [Calls -> [Users -> PartStatus \cup {"none"}]]
              /\ initiator' \in [Calls -> Users \cup {NoUser}]
<1>1. At(r, "insert") /\ job[r] \in Job /\ job[r].op = "create" /\ job[r].user \in Users
  BY JobShape DEF CreateInsert, At, Shaped
<1>2. job[r].user \in Users \cup {NoUser}
  BY <1>1 DEF Job
<1>3. PICK c \in Calls :
       /\ status[c] = "none"
       /\ status' = [status EXCEPT ![c] = "ringing"]
       /\ initiator' = [initiator EXCEPT ![c] = job[r].user]
       /\ part' = [part EXCEPT ![c] =
                     [u \in Users |-> IF u = job[r].user THEN "joined" ELSE "ringing"]]
  BY DEF CreateInsert
<1>4. c \notin ended /\ \A u \in Users : part[c][u] = "none"
  BY <1>3 DEF Typed, TypeOK
<1>5. [u \in Users |-> IF u = job[r].user THEN "joined" ELSE "ringing"]
        \in [Users -> PartStatus \cup {"none"}]
  BY DEF PartStatus
<1>6. /\ part' \in [Calls -> [Users -> PartStatus \cup {"none"}]]
      /\ part'[c] = [u \in Users |-> IF u = job[r].user THEN "joined" ELSE "ringing"]
      /\ \A d \in Calls : d # c => part'[d] = part[d]
  BY <1>3, <1>5 DEF Typed, TypeOK
<1>7. /\ status' \in [Calls -> Active \cup Closed \cup {"none"}]
      /\ status'[c] = "ringing"
      /\ \A d \in Calls : d # c => status'[d] = status[d]
      /\ initiator' \in [Calls -> Users \cup {NoUser}]
  BY <1>2, <1>3 DEF Typed, TypeOK, Active
<1>8. Gets(r, Free) /\ UNCHANGED <<answered, ended, late, left>>
  BY DEF CreateInsert, Finish, Gets
<1>9. QED
  BY <1>1, <1>3, <1>4, <1>6, <1>7, <1>8

-----------------------------------------------------------------------------
LEMMA AcceptTypes ==
  ASSUME Typed, NEW r \in Workers, AcceptApply(r)
  PROVE  Typed'
<1> DEFINE c == job[r].call
<1>1. /\ Gets(r, Free) /\ c \in Calls /\ status[c] # "none"
      /\ WriteRows(c, job[r].plan) /\ job[r].plan \in SUBSET (Users \X PartStatus)
      /\ left' = left /\ ended' = ended /\ initiator' = initiator
      /\ status'[c] = "accepted" /\ \A d \in Calls : d # c => status'[d] = status[d]
      /\ status' \in [Calls -> Active \cup Closed \cup {"none"}]
      /\ answered' = answered \cup {c} /\ late' \subseteq late
  BY AcceptEffect, JobShape
<1>2. /\ part' \in [Calls -> [Users -> PartStatus \cup {"none"}]]
      /\ \A d \in Calls : d # c => part'[d] = part[d]
      /\ \A u \in Users : part'[c][u] \in PartStatus \/ part'[c][u] = part[c][u]
  BY <1>1, WriteEffect DEF Typed
<1> HIDE DEF c
<1>3. \A u \in Users : part'[c][u] # "none"
  BY <1>1, <1>2 DEF Typed, TypeOK, PartStatus
<1>4. "accepted" \notin Closed /\ "accepted" # "none" /\ "accepted" # "ringing"
  BY DEF Closed
<1>5. ASSUME NEW d \in Calls
      PROVE  /\ IF status'[d] = "none"
                THEN /\ d \notin answered' \cup ended' \cup late'
                     /\ \A u \in Users : part'[d][u] = "none"
                ELSE /\ \A u \in Users : part'[d][u] # "none"
                     /\ status'[d] = "accepted" => d \in answered'
                     /\ status'[d] \in Closed => d \in ended'
             /\ status'[d] = "ringing" => d \notin ended'
             /\ status[d] # "none" => status'[d] # "none"
  BY <1>1, <1>2, <1>3, <1>4 DEF Typed, TypeOK, RingingNotEnded
<1>6. TablesOK' /\ RingingNotEnded'
  BY <1>1, <1>2, <1>5 DEF TablesOK, RingingNotEnded, Typed, TypeOK
<1>7. TypeOK'
  BY <1>1, <1>6, FreeJob, Tables DEF Typed
<1>8. JobsOK'
  BY <1>1, <1>5, FreeJob, FreeShaped, ShapesStay DEF Typed
<1>9. QED
  BY <1>6, <1>7, <1>8 DEF Typed

LEMMA InsertTypes ==
  ASSUME Typed, NEW r \in Workers, CreateInsert(r)
  PROVE  Typed'
<1>1. Gets(r, Free) /\ UNCHANGED <<answered, ended, late, left>>
  BY InsertEffect
<1>2. PICK c \in Calls :
        /\ status[c] = "none" /\ c \notin ended
        /\ status'[c] = "ringing"
        /\ \A d \in Calls : d # c => status'[d] = status[d] /\ part'[d] = part[d]
        /\ \A u \in Users : /\ u = job[r].user => part'[c][u] = "joined"
                            /\ u # job[r].user => part'[c][u] = "ringing"
        /\ status' \in [Calls -> Active \cup Closed \cup {"none"}]
        /\ part' \in [Calls -> [Users -> PartStatus \cup {"none"}]]
        /\ initiator' \in [Calls -> Users \cup {NoUser}]
  BY InsertEffect
<1>3. "ringing" \notin Closed /\ \A u \in Users : part'[c][u] # "none"
  BY <1>2 DEF Closed
<1>4. ASSUME NEW d \in Calls
      PROVE  /\ IF status'[d] = "none"
                THEN /\ d \notin answered' \cup ended' \cup late'
                     /\ \A u \in Users : part'[d][u] = "none"
                ELSE /\ \A u \in Users : part'[d][u] # "none"
                     /\ status'[d] = "accepted" => d \in answered'
                     /\ status'[d] \in Closed => d \in ended'
             /\ status'[d] = "ringing" => d \notin ended'
             /\ status[d] # "none" => status'[d] # "none"
  BY <1>1, <1>2, <1>3 DEF Typed, TypeOK, RingingNotEnded
<1>5. TablesOK' /\ RingingNotEnded'
  BY <1>1, <1>2, <1>4 DEF TablesOK, RingingNotEnded, Typed, TypeOK
<1>6. TypeOK'
  BY <1>1, <1>5, FreeJob, Tables DEF Typed
<1>7. JobsOK'
  BY <1>1, <1>4, FreeJob, FreeShaped, ShapesStay DEF Typed
<1>8. QED
  BY <1>5, <1>6, <1>7 DEF Typed

LEMMA TimeTypes ==
  ASSUME Typed, NEW c \in Calls, TimePasses(c)
  PROVE  Typed'
<1>1. /\ UNCHANGED <<status, initiator, answered, ended, part, left, job, requests, overlaps,
                     deaths, abandoned>>
      /\ late' \subseteq late \cup {c} /\ (late' = late \/ status[c] \in Active)
  BY DEF TimePasses, failures
<1>2. JobsOK' /\ RingingNotEnded'
  BY <1>1 DEF Typed, JobsOK, RingingNotEnded, Shaped, Writing, Closing
<1>3. "none" \notin Active
  BY DEF Active
<1>4. TypeOK'
  BY <1>1, <1>3 DEF Typed, TypeOK
<1>5. QED
  BY <1>2, <1>4 DEF Typed

\* What is left of a job that dies.
LEMMA DiesEffect ==
  ASSUME Typed, NEW r \in Workers, JobDies(r)
  PROVE  /\ job' \in [Workers -> Job] /\ job'[r] = Free
         /\ \A q \in Workers : q # r => job'[q] = job[q]
         /\ status' = status /\ initiator' = initiator /\ answered' = answered
         /\ ended' = ended /\ late' = late /\ part' = part /\ left' = left
         /\ requests' = requests /\ overlaps' = overlaps
         /\ deaths' \in Nat /\ abandoned' \subseteq Calls \X Users
         /\ abandoned \subseteq abandoned'
         /\ \A u \in Users : At(r, "rows") /\ InPlan(r, u) => <<job[r].call, u>> \in abandoned'
<1>1. /\ job' \in [Workers -> Job] /\ job'[r] = Free
      /\ \A q \in Workers : q # r => job'[q] = job[q]
  BY FreeJob DEF JobDies, Typed, TypeOK
<1>2. abandoned' \subseteq Calls \X Users /\ abandoned \subseteq abandoned'
  <2>1. At(r, "rows") => job[r].call \in Calls /\ \A p \in job[r].plan : p[1] \in Users
    BY JobShape DEF At
  <2>2. QED
    BY <2>1 DEF JobDies, Typed, TypeOK
<1>3. ASSUME NEW u \in Users, At(r, "rows"), InPlan(r, u)
      PROVE  <<job[r].call, u>> \in abandoned'
  <2>1. PICK p \in job[r].plan : p[1] = u
    BY <1>3 DEF InPlan
  <2>2. QED
    BY <1>3, <2>1 DEF JobDies
<1>4. QED
  BY <1>1, <1>2, <1>3 DEF JobDies, Typed, TypeOK, sessions

LEMMA DiesTypes ==
  ASSUME Typed, NEW r \in Workers, JobDies(r)
  PROVE  Typed'
<1>1. TypeOK'
  BY DiesEffect DEF Typed, TypeOK
<1>2. ASSUME NEW q \in Workers
      PROVE  Shaped(job[q])'
  <2>1. Shaped(job'[q])
    BY DiesEffect, FreeShaped DEF Typed, JobsOK
  <2>2. QED
    BY <2>1, DiesEffect DEF Shaped, Writing, Closing
<1>3. QED
  BY <1>1, <1>2, DiesEffect DEF Typed, JobsOK, RingingNotEnded

LEMMA StepTypes ==
  ASSUME Typed, [Next]_vars
  PROVE  Typed'
<1>1. ASSUME NEW r \in Workers, Proceed(r)
      PROVE  Typed'
  <2>1. CASE AcceptApply(r)
    BY <2>1, AcceptTypes
  <2>2. CASE CancelApply(r)
    <3>1. /\ Gets(r, Free) /\ job[r].call \in Calls /\ status[job[r].call] # "none"
          /\ WriteRows(job[r].call, job[r].plan) /\ Finalize(job[r].call, "canceled")
          /\ job[r].plan \in SUBSET (Users \X PartStatus) /\ "canceled" \in Closed
      BY <2>2, CancelEffect, JobShape DEF Closed
    <3>2. QED
      BY <3>1, FreeJob, FreeShaped, CloseStepTypes
  <2>3. CASE DeclineWrite(r) \/ EndWrite(r) \/ MissedWrite(r)
    BY <2>3, VerdictEffect, PlainTypes
  <2>4. CASE Commit(r)
    <3>1. /\ Gets(r, Free) /\ job[r].call \in Calls /\ status[job[r].call] # "none"
          /\ WriteRows(job[r].call, job[r].plan)
          /\ \/ job[r].verdict = "none" /\ UNCHANGED sessions
             \/ job[r].verdict \in Closed /\ Finalize(job[r].call, job[r].verdict)
          /\ job[r].plan \in SUBSET (Users \X PartStatus) /\ "ended" \in Closed
      BY <2>4, CommitEffect, JobShape DEF Closed
    <3>2. QED
      BY <3>1, FreeJob, FreeShaped, CloseStepTypes
  <2>5. CASE SweepSession(r)
    BY <2>5, SweepEffect, JobShape, CloseStepTypes
  <2>6. CASE SweepRow(r)
    <3>1. /\ job[r].call \in Calls /\ status[job[r].call] # "none" /\ UNCHANGED sessions
          /\ "ended" \in Closed
      BY <2>6, RowEffect DEF Closed
    <3>2. PICK k \in Job, p \in job[r].plan :
              WriteRows(job[r].call, {p}) /\ Gets(r, k) /\ Shaped(k)
      BY <2>6, RowEffect
    <3>3. {p} \in SUBSET (Users \X PartStatus)
      BY JobShape
    <3>4. QED
      BY <3>1, <3>2, <3>3, CloseStepTypes
  <2>7. CASE SweepDone(r) \/ CreateSweep(r) \/ CreateCheck(r)
    BY <2>7, CheckEffect, PlainTypes
  <2>8. CASE CreateInsert(r)
    BY <2>8, InsertTypes
  <2>9. QED
    BY <1>1, <2>1, <2>2, <2>3, <2>4, <2>5, <2>6, <2>7, <2>8 DEF Proceed
<1>2. ASSUME UNCHANGED vars
      PROVE  Typed'
  <2>1. JobsOK' /\ RingingNotEnded'
    BY <1>2 DEF Typed, JobsOK, RingingNotEnded, Shaped, Writing, Closing, vars, sessions
  <2>2. TypeOK'
    BY <1>2 DEF Typed, TypeOK, vars, sessions, failures
  <2>3. QED
    BY <2>1, <2>2 DEF Typed
<1>3. QED
  BY <1>1, <1>2, BeginTypes, TimeTypes, DiesTypes DEF Next

-----------------------------------------------------------------------------
(* Jobs that overlap *)

LEMMA BeginOverlaps ==
  ASSUME Typed, OverlapsSeen, AcceptMet, NEW r \in Workers, BeginRequest(r) \/ BeginSweep(r)
  PROVE  OverlapsSeen' /\ AcceptMet'
<1>1. PICK j \in Job : Begun(j) /\ Begin(r, j) /\ j.op \in Ops
  BY JobBegins DEF Typed
<1>2. /\ r \notin Busy
      /\ SameJob(job'[r], j)
      /\ \A q \in Workers : q # r => SameJob(job'[q], job[q]) /\ job[q].met \subseteq job'[q].met
      /\ j.op = "accept" => \A q \in Busy : job[q].op \in job'[r].met
      /\ \A q \in Workers : q # r /\ job[q].op = "accept" => j.op \in job'[q].met
      /\ overlaps \subseteq overlaps'
      /\ \A q \in Busy : j.op = job[q].op \/ "accept" \in {j.op, job[q].op} =>
           {j.op, job[q].op} \in overlaps'
      /\ UNCHANGED <<sessions, part, left, deaths, abandoned>>
  BY <1>1, BeginEffect DEF Typed, Begun
<1>3. \A q \in Workers : q \in Busy <=> job[q].op # "none"
  BY BusyJobs DEF Typed
<1>4. ASSUME NEW p \in Workers, NEW q \in Workers, p # q, job'[p].op # "none", job'[q].op # "none"
      PROVE  /\ job'[p].op = job'[q].op \/ job'[p].op = "accept" => {job'[p].op, job'[q].op} \in overlaps'
             /\ job'[p].op = "accept" => job'[q].op \in job'[p].met
  <2>1. CASE p = r
    <3>1. job'[p].op = j.op /\ job'[q].op = job[q].op /\ q \in Busy
      BY <1>2, <1>3, <1>4, <2>1 DEF SameJob
    <3>2. QED
      BY <1>2, <2>1, <3>1
  <2>2. CASE q = r
    <3>1. job'[q].op = j.op /\ job'[p].op = job[p].op /\ p \in Busy
      BY <1>2, <1>3, <1>4, <2>2 DEF SameJob
    <3>2. {j.op, job[p].op} = {job[p].op, j.op}
      OBVIOUS
    <3>3. QED
      BY <1>2, <1>4, <2>2, <3>1, <3>2
  <2>3. CASE p # r /\ q # r
    <3>1. job'[p].op = job[p].op /\ job'[q].op = job[q].op
      BY <1>2, <2>3 DEF SameJob
    <3>2. QED
      BY <1>2, <1>4, <2>3, <3>1 DEF OverlapsSeen
  <2>4. QED
    BY <2>1, <2>2, <2>3
<1>5. ASSUME NEW q \in Workers, job'[q].op = "accept", status'[job'[q].call] \in Closed
      PROVE  job'[q].met \ {"accept"} # {}
  <2>1. CASE q = r
    <3>1. j.op = "accept" /\ status[j.call] \in Closed
      BY <1>2, <1>5, <2>1 DEF SameJob, sessions
    <3>2. QED
      BY <1>1, <3>1 DEF Begun, Active, Closed
  <2>2. CASE q # r
    <3>1. job[q].op = "accept" /\ status[job[q].call] \in Closed /\ job[q].met \subseteq job'[q].met
      BY <1>2, <1>5, <2>2 DEF SameJob, sessions
    <3>2. QED
      BY <3>1 DEF AcceptMet
  <2>3. QED
    BY <2>1, <2>2
<1>6. QED
  BY <1>4, <1>5 DEF OverlapsSeen, AcceptMet

LEMMA GetsOverlaps ==
  ASSUME Typed, OverlapsSeen, NEW r \in Workers, NEW k \in Job, Gets(r, k),
         k.op = "none" \/ Keeps(k, job[r])
  PROVE  OverlapsSeen'
<1>1. /\ job'[r] = k /\ \A q \in Workers : q # r => job'[q] = job[q]
      /\ overlaps' = overlaps
  BY GetsEffect DEF Typed
<1>2. \A q \in Workers : job'[q].op # "none" => job'[q].op = job[q].op /\ job'[q].met = job[q].met
  BY <1>1 DEF Keeps
<1>3. QED
  BY <1>1, <1>2 DEF OverlapsSeen

\* Whatever a job other than an accept does, an accept beside it has met it.
LEMMA GetsMet ==
  ASSUME Typed, OverlapsSeen, NEW r \in Workers, NEW k \in Job, Gets(r, k),
         k.op = "none" \/ Keeps(k, job[r]), job[r].op \notin {"none", "accept"}
  PROVE  AcceptMet'
<1>1. job'[r] = k /\ \A q \in Workers : q # r => job'[q] = job[q]
  BY GetsEffect DEF Typed
<1>2. ASSUME NEW q \in Workers, job'[q].op = "accept"
      PROVE  job'[q].met \ {"accept"} # {}
  <2>1. q # r
    BY <1>1, <1>2 DEF Keeps
  <2>2. job[r].op \in job'[q].met
    BY <1>1, <1>2, <2>1 DEF OverlapsSeen
  <2>3. QED
    BY <2>2
<1>3. QED
  BY <1>2 DEF AcceptMet

\* Every step of a job other than the application of an accept.
LEMMA OtherStep ==
  ASSUME Typed, NEW r \in Workers, Proceed(r), ~AcceptApply(r)
  PROVE  /\ job[r].op \notin {"none", "accept"}
         /\ \E k \in Job : Gets(r, k) /\ (k = Free \/ Keeps(k, job[r]))
<1>1. CASE CancelApply(r)
  BY <1>1, CancelEffect, FreeJob
<1>2. CASE DeclineWrite(r) \/ EndWrite(r) \/ MissedWrite(r)
  BY <1>2, VerdictEffect
<1>3. CASE Commit(r)
  BY <1>3, CommitEffect, FreeJob
<1>4. CASE SweepSession(r)
  BY <1>4, SweepEffect
<1>5. CASE SweepRow(r)
  BY <1>5, RowEffect
<1>6. CASE SweepDone(r) \/ CreateSweep(r) \/ CreateCheck(r)
  BY <1>6, CheckEffect
<1>7. CASE CreateInsert(r)
  BY <1>7, InsertEffect, FreeJob
<1>8. QED
  BY <1>1, <1>2, <1>3, <1>4, <1>5, <1>6, <1>7 DEF Proceed

LEMMA StepOverlaps ==
  ASSUME Typed, OverlapsSeen, AcceptMet, [Next]_vars
  PROVE  OverlapsSeen' /\ AcceptMet'
<1>1. ASSUME NEW r \in Workers, AcceptApply(r)
      PROVE  OverlapsSeen' /\ AcceptMet'
  <2>1. Gets(r, Free) /\ status'[job[r].call] = "accepted"
        /\ \A d \in Calls : d # job[r].call => status'[d] = status[d]
    BY <1>1, AcceptEffect
  <2>2. OverlapsSeen'
    BY <2>1, FreeJob, GetsOverlaps
  <2>3. job'[r] = Free /\ \A q \in Workers : q # r => job'[q] = job[q]
    BY <2>1, FreeJob, GetsEffect DEF Typed
  <2>4. ASSUME NEW q \in Workers, job'[q].op = "accept", status'[job'[q].call] \in Closed
        PROVE  job'[q].met \ {"accept"} # {}
    <3>1. job'[q] = job[q]
      BY <2>3, <2>4, FreeJob
    <3>2. job[q].call \in Calls
      BY <2>4, <3>1, JobShape DEF Shaped
    <3>3. status[job[q].call] \in Closed
      BY <2>1, <2>4, <3>1, <3>2 DEF Closed
    <3>4. QED
      BY <2>4, <3>1, <3>3 DEF AcceptMet
  <2>5. QED
    BY <2>2, <2>4 DEF AcceptMet
<1>2. ASSUME NEW r \in Workers, Proceed(r), ~AcceptApply(r)
      PROVE  OverlapsSeen' /\ AcceptMet'
  <2>1. PICK k \in Job : Gets(r, k) /\ (k.op = "none" \/ Keeps(k, job[r]))
    BY <1>2, OtherStep, FreeJob
  <2>2. job[r].op \notin {"none", "accept"}
    BY <1>2, OtherStep
  <2>3. QED
    BY <2>1, <2>2, GetsOverlaps, GetsMet
<1>3. ASSUME UNCHANGED <<status, job, overlaps>>
      PROVE  OverlapsSeen' /\ AcceptMet'
  BY <1>3 DEF OverlapsSeen, AcceptMet
<1>4. ASSUME NEW r \in Workers, JobDies(r)
      PROVE  OverlapsSeen' /\ AcceptMet'
  <2>1. /\ job'[r] = Free /\ \A q \in Workers : q # r => job'[q] = job[q]
        /\ status' = status /\ overlaps' = overlaps
    BY <1>4, DiesEffect
  <2>2. \A q \in Workers : job'[q].op # "none" => job'[q] = job[q]
    BY <2>1, FreeJob
  <2>3. QED
    BY <2>1, <2>2 DEF OverlapsSeen, AcceptMet
<1>5. QED
  BY <1>1, <1>2, <1>3, <1>4, BeginOverlaps DEF Next, TimePasses, vars, sessions

-----------------------------------------------------------------------------
(* One active call *)

LEMMA OneCall ==
  ASSUME Typed, OverlapsSeen, OneInv, [Next]_vars
  PROVE  OneInv'
<1> SUFFICES ASSUME OneCreates'
             PROVE  /\ \A c \in Calls, d \in Calls : status'[c] \in Active /\ status'[d] \in Active => c = d
                    /\ \A r \in Workers : At(r, "insert")' => \A c \in Calls : status'[c] \notin Active
                    /\ \A r \in Workers : job'[r].op = "accept" =>
                         /\ \A c \in Calls : status'[c] \in Active => c = job'[r].call
                         /\ \A q \in Workers : job'[q].op = "accept" => job'[q].call = job'[r].call
  BY DEF OneInv
<1> DEFINE Goal ==
      /\ \A c \in Calls, d \in Calls : status'[c] \in Active /\ status'[d] \in Active => c = d
      /\ \A r \in Workers : job'[r].step = "insert" => \A c \in Calls : status'[c] \notin Active
      /\ \A r \in Workers : job'[r].op = "accept" =>
           /\ \A c \in Calls : status'[c] \in Active => c = job'[r].call
           /\ \A q \in Workers : job'[q].op = "accept" => job'[q].call = job'[r].call
<1>1. ASSUME overlaps \subseteq overlaps'
      PROVE  /\ OneCreates
             /\ \A c \in Calls, d \in Calls : status[c] \in Active /\ status[d] \in Active => c = d
             /\ \A r \in Workers : job[r].step = "insert" => \A c \in Calls : status[c] \notin Active
             /\ \A r \in Workers : job[r].op = "accept" =>
                  /\ \A c \in Calls : status[c] \in Active => c = job[r].call
                  /\ \A q \in Workers : job[q].op = "accept" => job[q].call = job[r].call
  BY <1>1 DEF OneInv, OneCreates, Never, At
<1>2. ASSUME OneCreates, NEW r \in Workers, NEW q \in Workers, r # q, job[r].op = "create"
      PROVE  job[q].op \notin {"create", "accept"}
  <2>1. CASE job[q].op = "create"
    <3>1. {job[r].op, job[q].op} \in overlaps
      BY <1>2, <2>1 DEF OverlapsSeen
    <3>2. {job[r].op, job[q].op} = {"create"}
      BY <1>2, <2>1
    <3>3. QED
      BY <1>2, <3>1, <3>2 DEF OneCreates, Never
  <2>2. CASE job[q].op = "accept"
    <3>1. {job[q].op, job[r].op} \in overlaps
      BY <1>2, <2>2 DEF OverlapsSeen
    <3>2. {job[q].op, job[r].op} = {"create", "accept"}
      BY <1>2, <2>2
    <3>3. QED
      BY <1>2, <3>1, <3>2 DEF OneCreates, Never
  <2>3. QED
    BY <2>1, <2>2
<1>3. ASSUME NEW r \in Workers, BeginRequest(r) \/ BeginSweep(r)
      PROVE  Goal
  <2>1. PICK j \in Job : Begun(j) /\ Begin(r, j) /\ j.op \in Ops
    BY <1>3, JobBegins DEF Typed
  <2>2. /\ SameJob(job'[r], j)
        /\ \A q \in Workers : q # r => SameJob(job'[q], job[q])
        /\ overlaps \subseteq overlaps'
        /\ status' = status
    BY <2>1, BeginEffect DEF Typed, Begun, sessions
  <2>3. j.step # "insert" /\ (j.op = "accept" => j.call \in Calls /\ status[j.call] \in Active)
    BY <2>1 DEF Begun
  <2>4. \A q \in Workers : q # r => /\ job'[q].op = job[q].op /\ job'[q].call = job[q].call
                                    /\ job'[q].step = job[q].step
    BY <2>2 DEF SameJob
  <2>5. job'[r].op = j.op /\ job'[r].call = j.call /\ job'[r].step = j.step
    BY <2>2 DEF SameJob
  <2>6. QED
    BY <1>1, <2>2, <2>3, <2>4, <2>5
\* A step that makes no call active.
<1>4. ASSUME NEW r \in Workers, NEW k \in Job, Gets(r, k), k = Free \/ Keeps(k, job[r]),
             job[r].op \notin {"none", "accept"},
             k.step = "insert" => \A c \in Calls : status'[c] \notin Active,
             \A c \in Calls : status'[c] \in Active => status[c] \in Active
      PROVE  Goal
  <2>1. /\ job'[r] = k /\ \A q \in Workers : q # r => job'[q] = job[q]
        /\ overlaps' = overlaps
    BY <1>4, GetsEffect DEF Typed
  <2>2. k.op # "accept"
    BY <1>4, FreeJob DEF Keeps
  <2>3. QED
    BY <1>1, <1>4, <2>1, <2>2
<1>5. ASSUME NEW r \in Workers, AcceptApply(r)
      PROVE  Goal
  <2>1. /\ Gets(r, Free) /\ job[r].op = "accept" /\ job[r].call \in Calls
        /\ \A d \in Calls : d # job[r].call => status'[d] = status[d]
    BY <1>5, AcceptEffect
  <2>2. /\ job'[r] = Free /\ \A q \in Workers : q # r => job'[q] = job[q]
        /\ overlaps' = overlaps
    BY <2>1, FreeJob, GetsEffect DEF Typed
  <2>3. \A d \in Calls : status'[d] \in Active => d = job[r].call
    BY <1>1, <2>1, <2>2
  <2>4. \A q \in Workers : q # r => job[q].step # "insert"
    <3>1. ASSUME NEW q \in Workers, q # r, job[q].step = "insert"
          PROVE  FALSE
      <4>1. job[q].op = "create"
        BY <3>1, JobShape DEF Shaped
      <4>2. QED
        BY <1>1, <1>2, <2>1, <2>2, <3>1, <4>1
    <3>2. QED
      BY <3>1
  <2>5. \A q \in Workers : job[q].op = "accept" => job[q].call = job[r].call
    BY <1>1, <2>1, <2>2
  <2>6. QED
    BY <2>2, <2>3, <2>4, <2>5, FreeJob
<1>6. ASSUME NEW r \in Workers, CreateInsert(r)
      PROVE  Goal
  <2>1. Gets(r, Free) /\ At(r, "insert") /\ job[r].op = "create"
    BY <1>6, InsertEffect
  <2>2. PICK c \in Calls : \A d \in Calls : d # c => status'[d] = status[d]
    BY <1>6, InsertEffect
  <2>3. /\ job'[r] = Free /\ \A q \in Workers : q # r => job'[q] = job[q]
        /\ overlaps' = overlaps
    BY <2>1, FreeJob, GetsEffect DEF Typed
  <2>4. \A d \in Calls : status'[d] \in Active => d = c
    BY <1>1, <2>1, <2>2, <2>3 DEF At
  <2>5. \A q \in Workers : q # r => job[q].op \notin {"create", "accept"} /\ job[q].step # "insert"
    BY <1>1, <1>2, <2>1, <2>3, JobShape DEF Shaped
  <2>6. QED
    BY <2>3, <2>4, <2>5, FreeJob
<1>7. ASSUME NEW r \in Workers, Proceed(r)
      PROVE  Goal
  <2>1. Closed \cap Active = {}
    BY DEF Closed, Active
  <2>2. CASE CancelApply(r)
    <3>1. Gets(r, Free) /\ job[r].op = "cancel" /\ Finalize(job[r].call, "canceled")
      BY <2>2, CancelEffect
    <3>2. \A c \in Calls : status'[c] \in Active => status[c] \in Active
      BY <3>1 DEF Finalize, Typed, TypeOK, Active
    <3>3. QED
      BY <1>4, <3>1, <3>2, FreeJob
  <2>3. CASE DeclineWrite(r) \/ EndWrite(r) \/ MissedWrite(r)
    <3>1. job[r].op \in {"decline", "end", "missed"} /\ status' = status
      BY <2>3, VerdictEffect DEF sessions
    <3>2. PICK k \in Job : Gets(r, k) /\ Keeps(k, job[r]) /\ k.step = "commit"
      BY <2>3, VerdictEffect
    <3>3. QED
      BY <1>4, <3>1, <3>2
  <2>4. CASE Commit(r)
    <3>1. /\ Gets(r, Free) /\ job[r].op \in {"decline", "end", "missed"}
          /\ UNCHANGED sessions \/ (job[r].verdict \in Closed /\ Finalize(job[r].call, job[r].verdict))
      BY <2>4, CommitEffect
    <3>2. \A c \in Calls : status'[c] \in Active => status[c] \in Active
      BY <2>1, <3>1 DEF Finalize, Typed, TypeOK, sessions
    <3>3. QED
      BY <1>4, <3>1, <3>2, FreeJob
  <2>5. CASE SweepSession(r)
    <3>1. /\ job[r].op \in {"sweep", "create"}
          /\ job[r].verdict \in Closed /\ Finalize(job[r].call, job[r].verdict)
      BY <2>5, SweepEffect
    <3>2. PICK k \in Job : Gets(r, k) /\ Keeps(k, job[r]) /\ k.step = "rows"
      BY <2>5, SweepEffect
    <3>3. \A c \in Calls : status'[c] \in Active => status[c] \in Active
      BY <2>1, <3>1 DEF Finalize, Typed, TypeOK
    <3>4. QED
      BY <1>4, <3>1, <3>2, <3>3
  <2>6. CASE SweepRow(r)
    <3>1. job[r].op \in {"sweep", "create"} /\ status' = status
      BY <2>6, RowEffect DEF sessions
    <3>2. PICK k \in Job : Gets(r, k) /\ Keeps(k, job[r]) /\ k.step = "rows"
      BY <2>6, RowEffect
    <3>3. QED
      BY <1>4, <3>1, <3>2
  <2>7. CASE SweepDone(r) \/ CreateSweep(r) \/ CreateCheck(r)
    <3>1. job[r].op \in {"sweep", "create"} /\ status' = status
      BY <2>7, CheckEffect DEF sessions
    <3>2. PICK k \in Job : /\ Gets(r, k) /\ (k = Free \/ Keeps(k, job[r]))
                           /\ k.step = "insert" => \A c \in Calls : status[c] \notin Active
      BY <2>7, CheckEffect, FreeJob
    <3>3. QED
      BY <1>4, <3>1, <3>2
  <2>8. QED
    BY <1>5, <1>6, <1>7, <2>2, <2>3, <2>4, <2>5, <2>6, <2>7 DEF Proceed
<1>8. ASSUME UNCHANGED <<status, job, overlaps>>
      PROVE  Goal
  BY <1>1, <1>8
<1>9. ASSUME NEW r \in Workers, JobDies(r)
      PROVE  Goal
  <2>1. /\ job'[r] = Free /\ \A q \in Workers : q # r => job'[q] = job[q]
        /\ status' = status /\ overlaps' = overlaps
    BY <1>9, DiesEffect
  <2>2. \A q \in Workers : job'[q].step = "insert" \/ job'[q].op = "accept" => job'[q] = job[q]
    BY <2>1, FreeJob
  <2>3. QED
    BY <1>1, <2>1, <2>2
<1>10. Goal
  BY <1>3, <1>7, <1>8, <1>9 DEF Next, TimePasses, vars, sessions
<1>11. QED
  BY <1>10 DEF At

-----------------------------------------------------------------------------
(* Sweeps write the rows of sessions that have ended *)

LEMMA EndedKept ==
  ASSUME Typed, EndedInv, NEW r \in Workers, NEW k \in Job, Gets(r, k), ended \subseteq ended',
         k.step = "rows" => k.call \in ended',
         \A c \in Calls : status'[c] = "none" => status[c] = "none",
         \A c \in Calls, u \in Users : status[c] = "none" /\ <<c, u>> \in left' => <<c, u>> \in left
  PROVE  EndedInv'
<1>1. job'[r] = k /\ \A q \in Workers : q # r => job'[q] = job[q]
  BY GetsEffect DEF Typed
<1>2. QED
  BY <1>1 DEF EndedInv, At

LEMMA StepEnded ==
  ASSUME Typed, EndedInv, [Next]_vars
  PROVE  EndedInv'
<1>1. ASSUME NEW r \in Workers, BeginRequest(r) \/ BeginSweep(r)
      PROVE  EndedInv'
  <2>1. PICK j \in Job : Begun(j) /\ Begin(r, j) /\ j.op \in Ops
    BY <1>1, JobBegins DEF Typed
  <2>2. /\ SameJob(job'[r], j)
        /\ \A q \in Workers : q # r => SameJob(job'[q], job[q])
        /\ UNCHANGED <<sessions, part, left>>
    BY <2>1, BeginEffect DEF Typed, Begun
  <2>3. j.step # "rows"
    BY <2>1 DEF Begun
  <2>4. \A q \in Workers : job'[q].step = "rows" => job[q].step = "rows" /\ job'[q].call = job[q].call
    BY <2>2, <2>3 DEF SameJob
  <2>5. QED
    BY <2>2, <2>4 DEF EndedInv, At, sessions
<1>2. ASSUME NEW r \in Workers, Proceed(r)
      PROVE  EndedInv'
  <2>1. CASE AcceptApply(r)
    <3>1. /\ Gets(r, Free) /\ left' = left /\ ended' = ended /\ job[r].call \in Calls
          /\ status'[job[r].call] = "accepted"
          /\ \A d \in Calls : d # job[r].call => status'[d] = status[d]
      BY <2>1, AcceptEffect
    <3>2. QED
      BY <3>1, FreeJob, EndedKept
  \* What is written belongs to a session that exists.
  <2>2. ASSUME NEW c \in Calls, status[c] # "none", NEW plan \in SUBSET (Users \X PartStatus),
               NEW s \in Closed, Finalize(c, s) \/ UNCHANGED sessions,
               WriteRows(c, plan) \/ UNCHANGED <<part, left>>,
               NEW k \in Job, Gets(r, k), k.step = "rows" => k.call \in ended'
        PROVE  EndedInv'
    <3>1. ended \subseteq ended' /\ \A d \in Calls : status'[d] = "none" => status[d] = "none"
      BY <2>2 DEF Finalize, sessions, Typed, TypeOK, Closed
    <3>2. \A d \in Calls, u \in Users : status[d] = "none" /\ <<d, u>> \in left' => <<d, u>> \in left
      <4>1. CASE WriteRows(c, plan)
        <5>1. TypeOK
          BY DEF Typed
        <5>2. \A d \in Calls, u \in Users : <<d, u>> \in left' =>
                <<d, u>> \in left \/ (d = c /\ \E x \in PartStatus : x # "joined" /\ <<u, x>> \in plan)
          BY <4>1, <5>1, WriteEffect
        <5>3. QED
          BY <2>2, <5>2
      <4>2. CASE UNCHANGED <<part, left>>
        BY <4>2
      <4>3. QED
        BY <2>2, <4>1, <4>2
    <3>3. QED
      BY <2>2, <3>1, <3>2, EndedKept
  <2>3. /\ job[r].plan \in SUBSET (Users \X PartStatus) /\ "canceled" \in Closed
        /\ At(r, "rows") => job[r].call \in ended
    BY JobShape DEF Closed, EndedInv
  <2>4. CASE CancelApply(r)
    BY <2>2, <2>3, <2>4, CancelEffect, FreeJob
  <2>5. CASE DeclineWrite(r) \/ EndWrite(r) \/ MissedWrite(r)
    <3>1. PICK k \in Job : Gets(r, k) /\ k.step = "commit" /\ UNCHANGED <<sessions, part, left>>
      BY <2>5, VerdictEffect
    <3>2. QED
      BY <3>1, EndedKept DEF sessions
  <2>6. CASE Commit(r)
    <3>1. /\ Gets(r, Free) /\ job[r].call \in Calls /\ status[job[r].call] # "none"
          /\ WriteRows(job[r].call, job[r].plan)
          /\ \/ job[r].verdict = "none" /\ UNCHANGED sessions
             \/ job[r].verdict \in Closed /\ Finalize(job[r].call, job[r].verdict)
      BY <2>6, CommitEffect
    <3>2. QED
      BY <2>2, <2>3, <3>1, FreeJob
  <2>7. CASE SweepSession(r)
    <3>1. /\ job[r].call \in Calls /\ status[job[r].call] # "none"
          /\ job[r].verdict \in Closed /\ Finalize(job[r].call, job[r].verdict)
          /\ UNCHANGED <<part, left>>
      BY <2>7, SweepEffect
    <3>2. PICK k \in Job : Gets(r, k) /\ k.call = job[r].call
      BY <2>7, SweepEffect
    <3>3. job[r].call \in ended'
      BY <3>1 DEF Finalize
    <3>4. QED
      BY <2>2, <2>3, <3>1, <3>2, <3>3
  <2>8. CASE SweepRow(r)
    <3>1. /\ At(r, "rows") /\ job[r].call \in Calls /\ status[job[r].call] # "none"
          /\ UNCHANGED sessions
      BY <2>8, RowEffect
    <3>2. PICK k \in Job, p \in job[r].plan :
             WriteRows(job[r].call, {p}) /\ Gets(r, k) /\ k.call = job[r].call
      BY <2>8, RowEffect
    <3>3. {p} \in SUBSET (Users \X PartStatus) /\ job[r].call \in ended'
      BY <2>3, <3>1 DEF sessions
    <3>4. QED
      BY <2>2, <2>3, <3>1, <3>2, <3>3
  <2>9. CASE SweepDone(r) \/ CreateSweep(r) \/ CreateCheck(r)
    <3>1. /\ UNCHANGED <<sessions, part, left>>
          /\ \E k \in Job : Gets(r, k) /\ k.step # "rows"
      BY <2>9, CheckEffect, FreeJob
    <3>2. QED
      BY <3>1, EndedKept DEF sessions
  <2>10. CASE CreateInsert(r)
    <3>1. Gets(r, Free) /\ UNCHANGED <<ended, left>>
      BY <2>10, InsertEffect
    <3>2. \A c \in Calls : status'[c] = "none" => status[c] = "none"
      BY <2>10, InsertEffect
    <3>3. QED
      BY <3>1, <3>2, FreeJob, EndedKept
  <2>11. QED
    BY <1>2, <2>1, <2>4, <2>5, <2>6, <2>7, <2>8, <2>9, <2>10 DEF Proceed
<1>3. ASSUME UNCHANGED <<status, ended, left, job>>
      PROVE  EndedInv'
  BY <1>3 DEF EndedInv, At
<1>4. ASSUME NEW r \in Workers, JobDies(r)
      PROVE  EndedInv'
  BY <1>4, DiesEffect, FreeJob DEF EndedInv, At
<1>5. QED
  BY <1>1, <1>2, <1>3, <1>4 DEF Next, TimePasses, vars, sessions

-----------------------------------------------------------------------------
(* No one is joined to a closed session *)

\* Unfolded, for a prime to pass over it.
WrittenBy(k, u) == \E s \in PartStatus : <<u, s>> \in k.plan
HasGone(ps, u) == ps[u] \in {"declined", "missed", "left"}

\* The plan that closes a session writes everyone who is or may come in.
LEMMA PlanCovers ==
  ASSUME Typed, NEW c \in Calls, NEW u \in Users, c \notin ended, status[c] # "none", Open(c, u)
  PROVE  (\E s \in PartStatus : <<u, s>> \in ClosePlan(c)) \/ (Gone(c, u) /\ ~Accepting(c, u))
<1>1. /\ part[c][u] = "joined" /\ <<c, u>> \notin left => <<u, "left">> \in ClosePlan(c)
      /\ part[c][u] = "ringing" => <<u, "missed">> \in ClosePlan(c)
  BY ClosePlanRows DEF Typed
<1>2. part[c][u] \in PartStatus
  BY DEF Typed, TypeOK
<1>3. QED
  BY <1>1, <1>2 DEF Open, Gone, PartStatus

\* A row that a plan writes is gone, unless the plan is that of an accept.
LEMMA WrittenIsGone ==
  ASSUME Typed, NEW r \in Workers, job[r].op # "accept", job[r].call \in Calls,
         NEW plan, plan \subseteq job[r].plan, WriteRows(job[r].call, plan)
  PROVE  /\ \A u \in Users : (\E s \in PartStatus : <<u, s>> \in plan) =>
              HasGone(part'[job[r].call], u)
         /\ \A d \in Calls, u \in Users :
              \/ part'[d][u] = part[d][u] /\ (<<d, u>> \in left' => <<d, u>> \in left)
              \/ d = job[r].call /\ HasGone(part'[d], u) /\ \E s \in PartStatus : <<u, s>> \in plan
<1> DEFINE c == job[r].call
<1>1. plan \in SUBSET (Users \X PartStatus) /\ TypeOK
  BY JobShape DEF Typed
<1>2. \A u \in Users : <<u, "joined">> \notin plan /\ <<u, "ringing">> \notin plan
  BY JobShape DEF Shaped
<1>3. /\ \A d \in Calls : d # c => part'[d] = part[d]
      /\ \A u \in Users : (\E s \in PartStatus : <<u, s>> \in plan) =>
           part'[c][u] \in PartStatus /\ <<u, part'[c][u]>> \in plan
      /\ \A u \in Users : ~(\E s \in PartStatus : <<u, s>> \in plan) =>
           part'[c][u] = part[c][u]
      /\ \A d \in Calls, u \in Users : <<d, u>> \in left' =>
           <<d, u>> \in left \/ (d = c /\ \E s \in PartStatus : s # "joined" /\ <<u, s>> \in plan)
  BY <1>1, WriteEffect
<1> HIDE DEF c
<1>4. ASSUME NEW u \in Users, \E s \in PartStatus : <<u, s>> \in plan
      PROVE  HasGone(part'[c], u)
  BY <1>2, <1>3, <1>4 DEF HasGone, PartStatus
<1>5. ASSUME NEW d \in Calls, NEW u \in Users
      PROVE  \/ part'[d][u] = part[d][u] /\ (<<d, u>> \in left' => <<d, u>> \in left)
             \/ d = c /\ HasGone(part'[d], u) /\ \E s \in PartStatus : <<u, s>> \in plan
  BY <1>3, <1>4
<1>6. QED
  BY <1>4, <1>5 DEF c

\* When no one comes in, no one does in what a job is about to see.
LEMMA SeenShrinks ==
  ASSUME NEW ps, NEW qs, NEW plan, Joined(Planned(ps, plan)) = {},
         \A u \in Users : qs[u] = "joined" => ps[u] = "joined"
  PROVE  Joined(Planned(qs, plan)) = {}
<1>1. ASSUME NEW u \in Users, Planned(qs, plan)[u] = "joined"
      PROVE  Planned(ps, plan)[u] = "joined"
  <2>1. CASE \E s \in PartStatus : <<u, s>> \in plan
    BY <1>1, <2>1 DEF Planned
  <2>2. CASE ~\E s \in PartStatus : <<u, s>> \in plan
    BY <1>1, <2>2 DEF Planned
  <2>3. QED
    BY <2>1, <2>2
<1>2. QED
  BY <1>1 DEF Joined

\* A step of a job other than an accept: rows only go, and what it leaves to do
\* is in its plan.
LEMMA ClosedKept ==
  ASSUME Typed, OverlapsSeen, ClosedInv, NoneDeparts', NEW r \in Workers, NEW k \in Job,
         Gets(r, k), k = Free \/ Keeps(k, job[r]), job[r].op \notin {"none", "accept"},
         ended \subseteq ended',
         \A d \in Calls, u \in Users :
           \/ part'[d][u] = part[d][u] /\ (<<d, u>> \in left' => <<d, u>> \in left)
           \/ /\ HasGone(part'[d], u)
              /\ d \in ended' \/ At(r, "commit"),
         \A d \in Calls, u \in Users : status'[d] \in Closed /\ part'[d][u] = "joined" =>
           \/ status[d] \in Closed /\ ~(At(r, "rows") /\ job[r].call = d /\ WrittenBy(job[r], u))
           \/ k.step = "rows" /\ k.call = d /\ WrittenBy(k, u),
         \A u \in Users : k.op = "cancel" \/ k.step = "session" =>
           WrittenBy(k, u) \/ (HasGone(part'[k.call], u) /\ ~Accepting(k.call, u)),
         k.step = "commit" /\ k.verdict # "none" => Joined(Planned(part'[k.call], k.plan)) = {}
  PROVE  ClosedInv'
<1>1. /\ job'[r] = k /\ \A q \in Workers : q # r => job'[q] = job[q]
      /\ overlaps' = overlaps /\ abandoned' = abandoned /\ k.op # "accept"
  BY GetsEffect, FreeJob DEF Typed, Keeps
<1>2. /\ NoneDeparts
      /\ \A c \in Calls, u \in Users : Open(c, u) /\ Cleared(c, u)
      /\ \A q \in Workers, u \in Users : Covers(q, u)
      /\ \A q \in Workers : At(q, "commit") /\ job[q].verdict # "none" => Joined(Seen(q)) = {}
  BY <1>1 DEF ClosedInv, NoneDeparts, Never
<1>3. \A d, u : Accepting(d, u)' => Accepting(d, u)
  BY <1>1 DEF Accepting
<1>4. ASSUME NEW d \in Calls, NEW u \in Users
      PROVE  Open(d, u)'
  <2>1. ASSUME d \notin ended', Accepting(d, u)'
        PROVE  ~At(r, "commit")
    <3>1. PICK q \in Workers : job[q].op = "accept" /\ job[q].call = d
      BY <1>3, <2>1 DEF Accepting
    <3>2. {"accept", job[r].op} \in overlaps
      BY <3>1 DEF OverlapsSeen
    <3>3. job[r].op \notin {"end", "decline", "missed"}
      BY <1>2, <3>2 DEF NoneDeparts, Never
    <3>4. QED
      BY <3>3, JobShape DEF Shaped, Writing, At
  <2>2. d \notin ended' => d \notin ended
    OBVIOUS
  <2>3. HasGone(part'[d], u) => part'[d][u] \notin {"ringing", "joined"}
    BY DEF HasGone
  <2>4. d \notin ended => /\ part[d][u] \in {"ringing", "joined"} => <<d, u>> \notin left
                          /\ Accepting(d, u) => part[d][u] \in {"ringing", "joined"}
    BY <1>2 DEF Open
  <2>5. QED
    BY <1>3, <2>1, <2>2, <2>3, <2>4 DEF Open
<1>5. ASSUME NEW q \in Workers, NEW u \in Users
      PROVE  Covers(q, u)'
  <2>1. CASE q = r
    <3>1. job'[q] = k
      BY <1>1, <2>1
    <3>2. k.op = "cancel" \/ k.step = "session" =>
            WrittenBy(k, u) \/ (HasGone(part'[k.call], u) /\ ~Accepting(k.call, u))
      OBVIOUS
    <3>3. Accepting(k.call, u)' => Accepting(k.call, u)
      BY <1>3
    <3>4. QED
      BY <3>1, <3>2, <3>3 DEF Covers, WrittenBy, HasGone, InPlan, Gone, At
  <2>2. CASE q # r
    <3>1. job'[q] = job[q]
      BY <1>1, <2>2
    <3>2. ASSUME job[q].op = "cancel" \/ job[q].step = "session", ~InPlan(q, u)
          PROVE  /\ job[q].call \in Calls
                 /\ part'[job[q].call][u] \in {"declined", "missed", "left"}
                 /\ ~Accepting(job[q].call, u)'
      <4>1. job[q].call \in Calls /\ Gone(job[q].call, u) /\ ~Accepting(job[q].call, u)
        BY <1>2, <3>2, JobShape DEF Covers, At, Shaped
      <4>2. ~Accepting(job[q].call, u)'
        BY <1>3, <3>1, <4>1
      <4>3. part'[job[q].call][u] = part[job[q].call][u] \/ HasGone(part'[job[q].call], u)
        BY <4>1
      <4>4. QED
        BY <4>1, <4>2, <4>3 DEF Gone, HasGone
    <3>3. QED
      BY <3>1, <3>2 DEF Covers, At, InPlan, Gone
  <2>3. QED
    BY <2>1, <2>2
<1>6. ASSUME NEW d \in Calls, NEW u \in Users
      PROVE  Cleared(d, u)'
  <2> SUFFICES ASSUME status'[d] \in Closed, part'[d][u] = "joined", <<d, u>> \notin abandoned'
               PROVE  \E q \in Workers : job'[q].step = "rows" /\ job'[q].call = d /\ WrittenBy(job'[q], u)
    BY DEF Cleared, At, InPlan, WrittenBy
  <2>1. CASE k.step = "rows" /\ k.call = d /\ WrittenBy(k, u)
    BY <1>1, <2>1
  <2>2. CASE status[d] \in Closed /\ ~(At(r, "rows") /\ job[r].call = d /\ WrittenBy(job[r], u))
    <3>1. part[d][u] = "joined"
      BY DEF HasGone
    <3>2. PICK q \in Workers : At(q, "rows") /\ job[q].call = d /\ InPlan(q, u)
      BY <1>1, <1>2, <2>2, <3>1 DEF Cleared
    <3>3. q # r
      BY <2>2, <3>2 DEF InPlan, WrittenBy
    <3>4. job'[q] = job[q]
      BY <1>1, <3>3
    <3>5. QED
      BY <3>2, <3>4 DEF At, InPlan, WrittenBy
  <2>3. QED
    BY <2>1, <2>2
<1>7. ASSUME NEW q \in Workers, job'[q].step = "commit", job'[q].verdict # "none"
      PROVE  Joined(Planned(part'[job'[q].call], job'[q].plan)) = {}
  <2>1. CASE q = r
    BY <1>1, <1>7, <2>1
  <2>2. CASE q # r
    <3>1. job'[q] = job[q] /\ job[q].call \in Calls /\ job[q].plan \in SUBSET (Users \X PartStatus)
      BY <1>1, <1>7, <2>2, JobShape
    <3>2. Joined(Planned(part[job[q].call], job[q].plan)) = {}
      BY <1>2, <1>7, <3>1 DEF At, Seen
    <3>3. \A u \in Users : part'[job[q].call][u] = "joined" => part[job[q].call][u] = "joined"
      BY <3>1 DEF HasGone
    <3>4. QED
      BY <3>1, <3>2, <3>3, SeenShrinks
  <2>3. QED
    BY <2>1, <2>2
<1>8. QED
  BY <1>4, <1>5, <1>6, <1>7 DEF ClosedInv, At, Seen

LEMMA BeginClosed ==
  ASSUME Typed, ClosedInv, NoneDeparts', NEW r \in Workers, BeginRequest(r) \/ BeginSweep(r)
  PROVE  ClosedInv'
<1>1. PICK j \in Job : Begun(j) /\ Begin(r, j) /\ j.op \in Ops
  BY JobBegins DEF Typed
<1>2. /\ SameJob(job'[r], j) /\ r \notin Busy
      /\ \A q \in Workers : q # r => SameJob(job'[q], job[q])
      /\ overlaps \subseteq overlaps'
      /\ status' = status /\ ended' = ended /\ part' = part /\ left' = left
      /\ abandoned' = abandoned
  BY <1>1, BeginEffect DEF Typed, Begun, sessions
<1>3. /\ \A c \in Calls, u \in Users : Open(c, u) /\ Cleared(c, u)
      /\ \A q \in Workers, u \in Users : Covers(q, u)
      /\ \A q \in Workers : At(q, "commit") /\ job[q].verdict # "none" => Joined(Seen(q)) = {}
  BY <1>2 DEF ClosedInv, NoneDeparts, Never
<1>4. job[r] = Free /\ job[r].step = "idle"
  BY <1>2, FreeJob DEF Busy
<1>5. j.step \notin {"commit", "rows"}
  BY <1>1 DEF Begun
\* An accept begins only for one that is called.
<1>6. ASSUME NEW d, NEW u, Accepting(d, u)'
      PROVE  Accepting(d, u) \/ (j.op = "accept" /\ part[d][u] = "ringing")
  <2>1. PICK q \in Workers : job'[q].op = "accept" /\ job'[q].call = d /\ job'[q].user = u
    BY <1>6 DEF Accepting
  <2>2. CASE q = r
    <3>1. j.op = "accept" /\ j.call = d /\ j.user = u
      BY <1>2, <2>1, <2>2 DEF SameJob
    <3>2. QED
      BY <1>1, <3>1 DEF Begun
  <2>3. CASE q # r
    BY <1>2, <2>1, <2>3 DEF SameJob, Accepting
  <2>4. QED
    BY <2>2, <2>3
<1>7. ASSUME NEW d \in Calls, NEW u \in Users
      PROVE  Open(d, u)'
  BY <1>2, <1>3, <1>6 DEF Open
<1>8. ASSUME NEW d \in Calls, NEW u \in Users
      PROVE  Cleared(d, u)'
  <2> SUFFICES ASSUME status'[d] \in Closed, part'[d][u] = "joined", <<d, u>> \notin abandoned'
               PROVE  \E q \in Workers : job'[q].step = "rows" /\ job'[q].call = d /\ WrittenBy(job'[q], u)
    BY DEF Cleared, At, InPlan, WrittenBy
  <2>1. PICK q \in Workers : At(q, "rows") /\ job[q].call = d /\ InPlan(q, u)
    BY <1>2, <1>3 DEF Cleared
  <2>2. q # r
    BY <1>4, <2>1 DEF At
  <2>3. SameJob(job'[q], job[q])
    BY <1>2, <2>2
  <2>4. QED
    BY <2>1, <2>3 DEF SameJob, At, InPlan, WrittenBy
<1>9. ASSUME NEW q \in Workers, NEW u \in Users
      PROVE  Covers(q, u)'
  <2> SUFFICES ASSUME job'[q].op = "cancel" \/ job'[q].step = "session", ~WrittenBy(job'[q], u)
               PROVE  part[job'[q].call][u] \in {"declined", "missed", "left"}
                      /\ ~Accepting(job[q].call, u)'
    BY <1>2 DEF Covers, At, InPlan, WrittenBy, Gone
  <2>1. CASE q = r
    <3>1. (j.op = "cancel" \/ j.step = "session") /\ job'[q].call = j.call
      BY <1>2, <2>1 DEF SameJob, WrittenBy
    <3>2. j.op # "accept" /\ j.call \in Calls /\ j.plan = ClosePlan(j.call) /\ status[j.call] # "none"
          /\ j.call \notin ended /\ ~WrittenBy(j, u)
      <4>1. j.op # "accept" /\ j.call \in Calls /\ j.plan = ClosePlan(j.call)
            /\ (status[j.call] = "ringing" \/ Expired(j.call))
        BY <1>1, <3>1 DEF Begun
      <4>2. ~WrittenBy(j, u)
        BY <1>2, <2>1 DEF SameJob, WrittenBy
      <4>3. QED
        BY <4>1, <4>2 DEF Typed, RingingNotEnded, Expired, Active
    <3>3. Gone(j.call, u) /\ ~Accepting(j.call, u)
      BY <1>3, <3>2, PlanCovers DEF WrittenBy
    <3>4. ~Accepting(j.call, u)'
      BY <1>6, <3>2, <3>3
    <3>5. QED
      BY <3>1, <3>3, <3>4 DEF Gone
  <2>2. CASE q # r
    <3>1. SameJob(job'[q], job[q])
      BY <1>2, <2>2
    <3>2. (job[q].op = "cancel" \/ job[q].step = "session") /\ ~InPlan(q, u) /\ job'[q].call = job[q].call
      BY <3>1 DEF SameJob, WrittenBy, InPlan
    <3>3. Gone(job[q].call, u) /\ ~Accepting(job[q].call, u)
      BY <1>3, <3>2 DEF Covers, At
    <3>4. part[job[q].call][u] # "ringing"
      BY <3>3 DEF Gone
    <3>5. ~Accepting(job[q].call, u)'
      BY <1>6, <3>2, <3>3, <3>4
    <3>6. QED
      BY <3>2, <3>3, <3>5 DEF Gone
  <2>3. QED
    BY <2>1, <2>2
<1>10. ASSUME NEW q \in Workers, job'[q].step = "commit", job'[q].verdict # "none"
       PROVE  Joined(Planned(part'[job'[q].call], job'[q].plan)) = {}
  <2>1. q # r
    BY <1>2, <1>5, <1>10 DEF SameJob
  <2>2. SameJob(job'[q], job[q])
    BY <1>2, <2>1
  <2>3. At(q, "commit") /\ job[q].verdict # "none" /\ job'[q].call = job[q].call /\ job'[q].plan = job[q].plan
    BY <1>10, <2>2 DEF SameJob, At
  <2>4. QED
    BY <1>2, <1>3, <2>3 DEF Seen
<1>11. QED
  BY <1>7, <1>8, <1>9, <1>10 DEF ClosedInv, At, Seen

\* Who comes in was not seen to leave: a job that departs beside an accept is
\* excluded, and a job that closes the session writes who accepts.
LEMMA AcceptClosed ==
  ASSUME Typed, OverlapsSeen, ClosedInv, NoneDeparts', NEW r \in Workers, AcceptApply(r)
  PROVE  ClosedInv'
<1>1. /\ Gets(r, Free) /\ job[r].op = "accept" /\ job[r].user \in Users /\ job[r].call \in Calls
      /\ part'[job[r].call][job[r].user] = "joined"
      /\ \A u \in Users : u # job[r].user => part'[job[r].call][u] = part[job[r].call][u]
      /\ \A d \in Calls : d # job[r].call => part'[d] = part[d]
      /\ left' = left /\ ended' = ended
      /\ status'[job[r].call] = "accepted"
      /\ \A d \in Calls : d # job[r].call => status'[d] = status[d]
  BY AcceptEffect
<1>2. /\ job'[r] = Free /\ \A q \in Workers : q # r => job'[q] = job[q]
      /\ overlaps' = overlaps /\ abandoned' = abandoned
  BY <1>1, FreeJob, GetsEffect DEF Typed
<1>3. /\ NoneDeparts
      /\ \A c \in Calls, u \in Users : Open(c, u) /\ Cleared(c, u)
      /\ \A q \in Workers, u \in Users : Covers(q, u)
  BY <1>2 DEF ClosedInv, NoneDeparts, Never
<1>4. \A d, u : Accepting(d, u)' => Accepting(d, u)
  BY <1>2, FreeJob DEF Accepting
<1>5. Accepting(job[r].call, job[r].user) /\ job[r].step = "apply"
  BY <1>1, JobShape DEF Accepting, Shaped
<1>6. \A d \in Calls, u \in Users :
        \/ part'[d][u] = part[d][u]
        \/ d = job[r].call /\ u = job[r].user /\ part'[d][u] = "joined"
  BY <1>1
<1>7. ASSUME NEW d \in Calls, NEW u \in Users
      PROVE  Open(d, u)'
  <2>1. d \notin ended => /\ part[d][u] \in {"ringing", "joined"} => <<d, u>> \notin left
                          /\ Accepting(d, u) => part[d][u] \in {"ringing", "joined"}
    BY <1>3 DEF Open
  <2>2. QED
    BY <1>1, <1>4, <1>5, <1>6, <2>1 DEF Open
<1>8. ASSUME NEW d \in Calls, NEW u \in Users
      PROVE  Cleared(d, u)'
  <2> SUFFICES ASSUME status'[d] \in Closed, part'[d][u] = "joined", <<d, u>> \notin abandoned'
               PROVE  \E q \in Workers : job'[q].step = "rows" /\ job'[q].call = d /\ WrittenBy(job'[q], u)
    BY DEF Cleared, At, InPlan, WrittenBy
  <2>1. d # job[r].call
    BY <1>1 DEF Closed
  <2>2. PICK q \in Workers : At(q, "rows") /\ job[q].call = d /\ InPlan(q, u)
    BY <1>1, <1>2, <1>3, <2>1 DEF Cleared
  <2>3. q # r
    BY <2>1, <2>2
  <2>4. QED
    BY <1>2, <2>2, <2>3 DEF At, InPlan, WrittenBy
<1>9. ASSUME NEW q \in Workers, NEW u \in Users
      PROVE  Covers(q, u)'
  <2> SUFFICES ASSUME job'[q].op = "cancel" \/ job'[q].step = "session", ~WrittenBy(job'[q], u)
               PROVE  HasGone(part'[job'[q].call], u) /\ ~Accepting(job[q].call, u)'
    BY DEF Covers, At, InPlan, WrittenBy, Gone, HasGone
  <2>1. q # r /\ job'[q] = job[q]
    BY <1>2, FreeJob
  <2>2. Gone(job[q].call, u) /\ ~Accepting(job[q].call, u) /\ job[q].call \in Calls
    BY <1>3, <2>1, JobShape DEF Covers, At, InPlan, WrittenBy, Shaped
  <2>3. ~Accepting(job[q].call, u)'
    BY <1>4, <2>1, <2>2
  <2>4. ~(job[q].call = job[r].call /\ u = job[r].user)
    BY <1>5, <2>2
  <2>5. part'[job[q].call][u] = part[job[q].call][u]
    BY <1>6, <2>2, <2>4
  <2>6. QED
    BY <2>1, <2>2, <2>3, <2>5 DEF Gone, HasGone
\* No job is about to commit beside an accept.
<1>10. ASSUME NEW q \in Workers
       PROVE  job'[q].step # "commit"
  <2>1. CASE q = r
    BY <1>2, <2>1, FreeJob
  <2>2. CASE q # r
    <3>1. SUFFICES ASSUME job[q].step = "commit"
                   PROVE  FALSE
      BY <1>2, <2>2
    <3>2. job[q].op \in {"decline", "end", "missed"}
      BY <3>1, JobShape DEF Shaped, Writing
    <3>3. {"accept", job[q].op} \in overlaps
      BY <1>1, <2>2, <3>2 DEF OverlapsSeen
    <3>4. QED
      BY <1>3, <3>2, <3>3 DEF NoneDeparts, Never
  <2>3. QED
    BY <2>1, <2>2
<1>11. QED
  BY <1>7, <1>8, <1>9, <1>10 DEF ClosedInv, At

LEMMA InsertClosed ==
  ASSUME Typed, EndedInv, ClosedInv, NoneDeparts', NEW r \in Workers, CreateInsert(r)
  PROVE  ClosedInv'
<1>1. Gets(r, Free) /\ At(r, "insert") /\ ended' = ended /\ left' = left
  BY InsertEffect
<1>2. PICK c \in Calls :
        /\ status[c] = "none"
        /\ status'[c] = "ringing"
        /\ \A d \in Calls : d # c => status'[d] = status[d] /\ part'[d] = part[d]
        /\ \A u \in Users : /\ u = job[r].user => part'[c][u] = "joined"
                            /\ u # job[r].user => part'[c][u] = "ringing"
  BY InsertEffect
<1>3. /\ job'[r] = Free /\ \A q \in Workers : q # r => job'[q] = job[q]
      /\ overlaps' = overlaps /\ abandoned' = abandoned
  BY <1>1, FreeJob, GetsEffect DEF Typed
<1>4. /\ \A d \in Calls, u \in Users : Open(d, u) /\ Cleared(d, u)
      /\ \A q \in Workers, u \in Users : Covers(q, u)
      /\ \A q \in Workers : At(q, "commit") /\ job[q].verdict # "none" => Joined(Seen(q)) = {}
  BY <1>3 DEF ClosedInv, NoneDeparts, Never
<1>5. \A d, u : Accepting(d, u)' => Accepting(d, u)
  BY <1>3, FreeJob DEF Accepting
<1>6. \A u \in Users : <<c, u>> \notin left
  BY <1>2 DEF EndedInv
<1>7. ASSUME NEW d \in Calls, NEW u \in Users
      PROVE  Open(d, u)'
  <2>1. CASE d = c
    BY <1>1, <1>2, <1>6, <2>1 DEF Open
  <2>2. CASE d # c
    <3>1. d \notin ended => /\ part[d][u] \in {"ringing", "joined"} => <<d, u>> \notin left
                            /\ Accepting(d, u) => part[d][u] \in {"ringing", "joined"}
      BY <1>4 DEF Open
    <3>2. QED
      BY <1>1, <1>2, <1>5, <2>2, <3>1 DEF Open
  <2>3. QED
    BY <2>1, <2>2
<1>8. ASSUME NEW d \in Calls, NEW u \in Users
      PROVE  Cleared(d, u)'
  <2> SUFFICES ASSUME status'[d] \in Closed, part'[d][u] = "joined", <<d, u>> \notin abandoned'
               PROVE  \E q \in Workers : job'[q].step = "rows" /\ job'[q].call = d /\ WrittenBy(job'[q], u)
    BY DEF Cleared, At, InPlan, WrittenBy
  <2>1. d # c
    BY <1>2 DEF Closed
  <2>2. PICK q \in Workers : At(q, "rows") /\ job[q].call = d /\ InPlan(q, u)
    BY <1>2, <1>3, <1>4, <2>1 DEF Cleared
  <2>3. q # r
    BY <1>1, <2>2 DEF At
  <2>4. QED
    BY <1>3, <2>2, <2>3 DEF At, InPlan, WrittenBy
\* The other jobs work on sessions that exist.
<1>9. ASSUME NEW q \in Workers,
             job'[q].op = "cancel" \/ job'[q].step \in {"session", "commit"}
      PROVE  /\ job'[q] = job[q] /\ job[q].call \in Calls
             /\ part'[job[q].call] = part[job[q].call]
  <2>1. q # r /\ job'[q] = job[q]
    BY <1>3, <1>9, FreeJob
  <2>2. job[q].step \in {"apply", "session", "commit"}
    BY <1>9, <2>1, JobShape DEF Shaped
  <2>3. job[q].call \in Calls /\ status[job[q].call] # "none"
    BY <2>2, JobShape
  <2>4. QED
    BY <1>2, <2>1, <2>3
<1>10. ASSUME NEW q \in Workers, NEW u \in Users
       PROVE  Covers(q, u)'
  <2> SUFFICES ASSUME job'[q].op = "cancel" \/ job'[q].step = "session", ~WrittenBy(job'[q], u)
               PROVE  HasGone(part'[job'[q].call], u) /\ ~Accepting(job[q].call, u)'
    BY DEF Covers, At, InPlan, WrittenBy, Gone, HasGone
  <2>1. job'[q] = job[q] /\ part'[job[q].call] = part[job[q].call]
    BY <1>9
  <2>2. Gone(job[q].call, u) /\ ~Accepting(job[q].call, u)
    BY <1>4, <2>1 DEF Covers, At, InPlan, WrittenBy
  <2>3. ~Accepting(job[q].call, u)'
    BY <1>5, <2>1, <2>2
  <2>4. QED
    BY <2>1, <2>2, <2>3 DEF Gone, HasGone
<1>11. ASSUME NEW q \in Workers, job'[q].step = "commit", job'[q].verdict # "none"
       PROVE  Joined(Planned(part'[job'[q].call], job'[q].plan)) = {}
  BY <1>4, <1>9, <1>11 DEF At, Seen
<1>12. QED
  BY <1>7, <1>8, <1>10, <1>11 DEF ClosedInv, At, Seen

\* A job that dies leaves its rows to no one, and the abandoned ones are known.
LEMMA DiesClosed ==
  ASSUME Typed, ClosedInv, NoneDeparts', NEW r \in Workers, JobDies(r)
  PROVE  ClosedInv'
<1>1. /\ job'[r] = Free /\ \A q \in Workers : q # r => job'[q] = job[q]
      /\ status' = status /\ ended' = ended /\ part' = part /\ left' = left
      /\ overlaps' = overlaps /\ abandoned \subseteq abandoned'
      /\ \A u \in Users : At(r, "rows") /\ InPlan(r, u) => <<job[r].call, u>> \in abandoned'
  BY DiesEffect
<1>2. /\ \A c \in Calls, u \in Users : Open(c, u) /\ Cleared(c, u)
      /\ \A q \in Workers, u \in Users : Covers(q, u)
      /\ \A q \in Workers : At(q, "commit") /\ job[q].verdict # "none" => Joined(Seen(q)) = {}
  BY <1>1 DEF ClosedInv, NoneDeparts, Never
<1>3. \A d, u : Accepting(d, u)' => Accepting(d, u)
  BY <1>1, FreeJob DEF Accepting
<1>4. \A q \in Workers : job'[q].op = "cancel" \/ job'[q].step \in {"session", "commit"} =>
                           job'[q] = job[q]
  BY <1>1, FreeJob
<1>5. ASSUME NEW d \in Calls, NEW u \in Users
      PROVE  Open(d, u)'
  BY <1>1, <1>2, <1>3 DEF Open
<1>6. ASSUME NEW d \in Calls, NEW u \in Users
      PROVE  Cleared(d, u)'
  <2> SUFFICES ASSUME status'[d] \in Closed, part'[d][u] = "joined", <<d, u>> \notin abandoned'
               PROVE  \E q \in Workers : job'[q].step = "rows" /\ job'[q].call = d /\ WrittenBy(job'[q], u)
    BY DEF Cleared, At, InPlan, WrittenBy
  <2>1. PICK q \in Workers : At(q, "rows") /\ job[q].call = d /\ InPlan(q, u)
    BY <1>1, <1>2 DEF Cleared
  <2>2. q # r
    BY <1>1, <2>1
  <2>3. QED
    BY <1>1, <2>1, <2>2 DEF At, InPlan, WrittenBy
<1>7. ASSUME NEW q \in Workers, NEW u \in Users
      PROVE  Covers(q, u)'
  <2> SUFFICES ASSUME job'[q].op = "cancel" \/ job'[q].step = "session", ~WrittenBy(job'[q], u)
               PROVE  HasGone(part'[job'[q].call], u) /\ ~Accepting(job[q].call, u)'
    BY <1>4 DEF Covers, At, InPlan, WrittenBy, Gone, HasGone
  <2>1. job'[q] = job[q]
    BY <1>4
  <2>2. Gone(job[q].call, u) /\ ~Accepting(job[q].call, u)
    BY <1>2, <2>1 DEF Covers, At, InPlan, WrittenBy
  <2>3. ~Accepting(job[q].call, u)'
    BY <1>3, <2>1, <2>2
  <2>4. QED
    BY <1>1, <2>1, <2>2, <2>3 DEF Gone, HasGone
<1>8. ASSUME NEW q \in Workers, job'[q].step = "commit", job'[q].verdict # "none"
      PROVE  Joined(Planned(part'[job'[q].call], job'[q].plan)) = {}
  BY <1>1, <1>2, <1>4, <1>8 DEF At, Seen
<1>9. QED
  BY <1>5, <1>6, <1>7, <1>8 DEF ClosedInv, At, Seen

LEMMA StepClosed ==
  ASSUME Typed, OverlapsSeen, EndedInv, ClosedInv, [Next]_vars
  PROVE  ClosedInv'
<1> SUFFICES ASSUME NoneDeparts'
             PROVE  ClosedInv'
  BY DEF ClosedInv
<1>1. ASSUME NEW r \in Workers, BeginRequest(r) \/ BeginSweep(r)
      PROVE  ClosedInv'
  BY <1>1, BeginClosed
<1>2. ASSUME NEW r \in Workers, Proceed(r)
      PROVE  ClosedInv'
  <2>1. CASE AcceptApply(r)
    BY <2>1, AcceptClosed
  <2>2. CASE CreateInsert(r)
    BY <2>2, InsertClosed
  <2>3. ASSUME overlaps' = overlaps
        PROVE  /\ \A c \in Calls, u \in Users : Open(c, u)
               /\ \A u \in Users : Covers(r, u)
               /\ At(r, "commit") /\ job[r].verdict # "none" => Joined(Seen(r)) = {}
    BY <2>3 DEF ClosedInv, NoneDeparts, Never
  <2>4. \A k \in Job : Gets(r, k) => overlaps' = overlaps
    BY DEF Gets
  <2>5. CASE CancelApply(r)
    <3>1. /\ Gets(r, Free) /\ job[r].op = "cancel" /\ job[r].call \in Calls
          /\ WriteRows(job[r].call, job[r].plan) /\ Finalize(job[r].call, "canceled")
      BY <2>5, CancelEffect
    <3>2. /\ ended \subseteq ended' /\ job[r].call \in ended'
          /\ \A d \in Calls : d # job[r].call => status'[d] = status[d]
      BY <3>1 DEF Finalize, Typed, TypeOK
    <3>3. /\ \A u \in Users : WrittenBy(job[r], u) => HasGone(part'[job[r].call], u)
          /\ \A d \in Calls, u \in Users :
               \/ part'[d][u] = part[d][u] /\ (<<d, u>> \in left' => <<d, u>> \in left)
               \/ d = job[r].call /\ HasGone(part'[d], u)
      <4> DEFINE plan == job[r].plan
      <4>1. /\ \A u \in Users : (\E s \in PartStatus : <<u, s>> \in plan) =>
                 HasGone(part'[job[r].call], u)
            /\ \A d \in Calls, u \in Users :
                 \/ part'[d][u] = part[d][u] /\ (<<d, u>> \in left' => <<d, u>> \in left)
                 \/ d = job[r].call /\ HasGone(part'[d], u) /\ \E s \in PartStatus : <<u, s>> \in plan
        <5>1. job[r].op # "accept" /\ job[r].call \in Calls /\ plan \subseteq job[r].plan
              /\ WriteRows(job[r].call, plan)
          BY <3>1
        <5> HIDE DEF plan
        <5>2. QED
          BY <5>1, WrittenIsGone
      <4>2. QED
        BY <4>1 DEF WrittenBy
    <3>4. job[r].step = "apply"
      BY <3>1, JobShape DEF Shaped
    <3>5. ASSUME NEW d \in Calls, NEW u \in Users, status'[d] \in Closed, part'[d][u] = "joined"
          PROVE  status[d] \in Closed /\ d # job[r].call
      <4>1. HasGone(part'[d], u) => part'[d][u] # "joined"
        BY DEF HasGone
      <4>2. part'[d][u] = part[d][u] /\ ~(d = job[r].call /\ WrittenBy(job[r], u))
        BY <3>3, <3>5, <4>1
      <4>3. d # job[r].call
        BY <2>3, <2>4, <3>1, <3>5, <4>2, FreeJob DEF Covers, WrittenBy, InPlan, Gone
      <4>4. QED
        BY <3>2, <3>5, <4>3
    <3>6. Free.op # "cancel" /\ Free.step \notin {"session", "commit"}
      BY FreeJob
    <3>7. QED
      BY <3>1, <3>2, <3>3, <3>4, <3>5, <3>6, FreeJob, ClosedKept DEF At
  <2>6. CASE DeclineWrite(r) \/ EndWrite(r) \/ MissedWrite(r)
    <3>1. PICK k \in Job :
             /\ Gets(r, k) /\ Keeps(k, job[r])
             /\ job[r].op \in {"decline", "end", "missed"} /\ At(r, "write")
             /\ k.step = "commit" /\ k.call = job[r].call /\ k.plan = job[r].plan
             /\ k.verdict # "none" => Joined(Seen(r)) = {}
             /\ UNCHANGED <<sessions, part, left>>
      BY <2>6, VerdictEffect
    <3>2. k.op # "cancel" /\ (k.verdict # "none" => Joined(Planned(part'[k.call], k.plan)) = {})
      BY <3>1 DEF Keeps, Seen
    <3>3. QED
      BY <3>1, <3>2, ClosedKept DEF sessions, At
  <2>7. CASE Commit(r)
    <3>1. /\ Gets(r, Free) /\ At(r, "commit") /\ job[r].call \in Calls
          /\ job[r].op \in {"decline", "end", "missed"}
          /\ WriteRows(job[r].call, job[r].plan)
          /\ \/ job[r].verdict = "none" /\ UNCHANGED sessions
             \/ job[r].verdict \in Closed /\ Finalize(job[r].call, job[r].verdict)
      BY <2>7, CommitEffect
    <3>2. /\ ended \subseteq ended'
          /\ \A d \in Calls : status'[d] = status[d] \/ (d = job[r].call /\ job[r].verdict # "none")
      BY <3>1 DEF Finalize, sessions, Typed, TypeOK, Closed
    <3>3. \A d \in Calls, u \in Users :
            \/ part'[d][u] = part[d][u] /\ (<<d, u>> \in left' => <<d, u>> \in left)
            \/ d = job[r].call /\ HasGone(part'[d], u)
      BY <3>1, WrittenIsGone
    <3>4. part'[job[r].call] = Seen(r) /\ job[r].plan \in SUBSET (Users \X PartStatus)
      BY <3>1, JobShape, WriteEffect DEF Typed, Seen
    <3>5. ASSUME NEW d \in Calls, NEW u \in Users, status'[d] \in Closed, part'[d][u] = "joined"
          PROVE  status[d] \in Closed
      <4>1. ~(d = job[r].call /\ job[r].verdict # "none")
        BY <2>3, <2>4, <3>1, <3>4, <3>5, FreeJob DEF Joined
      <4>2. QED
        BY <3>2, <3>5, <4>1
    <3>6. Free.op # "cancel" /\ Free.step \notin {"session", "commit"}
      BY FreeJob
    <3>7. QED
      BY <3>1, <3>2, <3>3, <3>5, <3>6, FreeJob, ClosedKept DEF At
  <2>8. CASE SweepSession(r)
    <3>1. /\ At(r, "session") /\ job[r].op \in {"sweep", "create"} /\ job[r].call \in Calls
          /\ job[r].verdict \in Closed /\ Finalize(job[r].call, job[r].verdict)
          /\ part' = part /\ left' = left
      BY <2>8, SweepEffect
    <3>2. PICK k \in Job : /\ Gets(r, k) /\ Keeps(k, job[r])
                           /\ k.step = "rows" /\ k.call = job[r].call /\ k.plan = job[r].plan
      BY <2>8, SweepEffect
    <3>3. /\ ended \subseteq ended'
          /\ \A d \in Calls : status'[d] = status[d] \/ d = job[r].call
      BY <3>1 DEF Finalize, Typed, TypeOK
    <3>4. ASSUME NEW d \in Calls, NEW u \in Users, status'[d] \in Closed, part'[d][u] = "joined"
          PROVE  status[d] \in Closed \/ (k.call = d /\ WrittenBy(k, u))
      <4>1. CASE d = job[r].call
        <5>1. InPlan(r, u) \/ Gone(d, u)
          BY <2>3, <2>4, <3>1, <3>2, <4>1 DEF Covers
        <5>2. QED
          BY <3>1, <3>2, <3>4, <4>1, <5>1 DEF Gone, InPlan, WrittenBy
      <4>2. CASE d # job[r].call
        BY <3>3, <3>4, <4>2
      <4>3. QED
        BY <4>1, <4>2
    <3>5. k.op # "cancel"
      BY <3>1, <3>2 DEF Keeps
    <3>6. QED
      BY <3>1, <3>2, <3>3, <3>4, <3>5, ClosedKept DEF At
  <2>9. CASE SweepRow(r)
    <3>1. /\ At(r, "rows") /\ job[r].op \in {"sweep", "create"} /\ job[r].call \in Calls
          /\ UNCHANGED sessions
      BY <2>9, RowEffect
    <3>2. PICK k \in Job, p \in job[r].plan :
             /\ WriteRows(job[r].call, {p}) /\ Gets(r, k) /\ Keeps(k, job[r])
             /\ k.step = "rows" /\ k.call = job[r].call /\ k.plan = job[r].plan \ {p}
      BY <2>9, RowEffect
    <3>3. job[r].call \in ended' /\ ended' = ended /\ status' = status
      BY <3>1 DEF EndedInv, sessions
    <3>4. /\ \A u \in Users : (\E s \in PartStatus : <<u, s>> \in {p}) => HasGone(part'[job[r].call], u)
          /\ \A d \in Calls, u \in Users :
               \/ part'[d][u] = part[d][u] /\ (<<d, u>> \in left' => <<d, u>> \in left)
               \/ d = job[r].call /\ HasGone(part'[d], u)
      <4>1. {p} \subseteq job[r].plan /\ job[r].op # "accept"
        BY <3>1, <3>2
      <4>2. QED
        BY <3>1, <3>2, <4>1, WrittenIsGone
    <3>5. ASSUME NEW d \in Calls, NEW u \in Users, part'[d][u] = "joined",
                 job[r].call = d, WrittenBy(job[r], u)
          PROVE  k.call = d /\ WrittenBy(k, u)
      <4>1. PICK s \in PartStatus : <<u, s>> \in job[r].plan
        BY <3>5 DEF WrittenBy
      <4>2. ~HasGone(part'[job[r].call], u)
        BY <3>5 DEF HasGone
      <4>3. <<u, s>> # p
        BY <3>4, <4>2
      <4>4. QED
        BY <3>2, <3>5, <4>1, <4>3 DEF WrittenBy
    <3>6. k.op # "cancel"
      BY <3>1, <3>2 DEF Keeps
    <3>7. QED
      BY <3>1, <3>2, <3>3, <3>4, <3>5, <3>6, ClosedKept DEF At
  <2>10. CASE SweepDone(r) \/ CreateSweep(r) \/ CreateCheck(r)
    <3>1. /\ (At(r, "rows") /\ job[r].plan = {}) \/ At(r, "check")
          /\ job[r].op \in {"sweep", "create"}
          /\ status' = status /\ ended' = ended /\ part' = part /\ left' = left
      BY <2>10, CheckEffect DEF sessions
    <3>2. PICK k \in Job :
              /\ Gets(r, k)
              /\ \/ k = Free
                 \/ Keeps(k, job[r]) /\ k.op = "create" /\ k.step = "check"
                 \/ /\ Keeps(k, job[r]) /\ k.op = "create" /\ k.step = "session"
                    /\ Expired(k.call) /\ k.call \in Calls /\ k.plan = ClosePlan(k.call)
                 \/ /\ Keeps(k, job[r]) /\ k.op = "create" /\ k.step = "insert"
                    /\ \A c \in Calls : status[c] \notin Active
      BY <2>10, CheckEffect
    <3>3. k.op # "cancel" /\ k.step \notin {"commit", "rows"} /\ (k = Free \/ Keeps(k, job[r]))
      BY <3>2, FreeJob
    <3>4. ASSUME NEW u \in Users, k.step = "session"
          PROVE  WrittenBy(k, u) \/ (HasGone(part'[k.call], u) /\ ~Accepting(k.call, u))
      <4>1. Expired(k.call) /\ k.call \in Calls /\ k.plan = ClosePlan(k.call)
        BY <3>2, <3>4, FreeJob
      <4>2. k.call \notin ended /\ status[k.call] # "none" /\ Open(k.call, u)
        BY <2>3, <2>4, <3>2, <4>1 DEF Expired, Active
      <4>3. QED
        BY <3>1, <4>1, <4>2, PlanCovers DEF WrittenBy, Gone, HasGone
    <3>5. \A u \in Users : ~(At(r, "rows") /\ WrittenBy(job[r], u))
      BY <3>1 DEF At, WrittenBy
    <3>6. QED
      BY <3>1, <3>2, <3>3, <3>4, <3>5, ClosedKept
  <2>11. QED
    BY <1>2, <2>1, <2>2, <2>5, <2>6, <2>7, <2>8, <2>9, <2>10 DEF Proceed
<1>3. ASSUME UNCHANGED <<status, ended, part, left, job, overlaps, abandoned>>
      PROVE  ClosedInv'
  BY <1>3 DEF ClosedInv, NoneDeparts, Never, Open, Cleared, Covers, Accepting, InPlan, Gone, At, Seen
<1>4. ASSUME NEW r \in Workers, JobDies(r)
      PROVE  ClosedInv'
  BY <1>4, DiesClosed
<1>5. QED
  BY <1>1, <1>2, <1>3, <1>4 DEF Next, TimePasses, vars, sessions, failures

-----------------------------------------------------------------------------
(* An active session has someone in it *)

\* Who is joined in what a job is about to see is joined, and not in its plan.
LEMMA SeenJoined ==
  ASSUME NEW ps, NEW plan, NEW u \in Users, <<u, "joined">> \notin plan
  PROVE  Planned(ps, plan)[u] = "joined" <=>
           ps[u] = "joined" /\ ~\E s \in PartStatus : <<u, s>> \in plan
<1>1. CASE \E s \in PartStatus : <<u, s>> \in plan
  <2>1. PICK s \in PartStatus :
          <<u, s>> \in plan /\ Planned(ps, plan)[u] = s
    BY <1>1 DEF Planned
  <2>2. QED
    BY <1>1, <2>1
<1>2. CASE ~\E s \in PartStatus : <<u, s>> \in plan
  BY <1>2 DEF Planned
<1>3. QED
  BY <1>1, <1>2

\* A step of a job other than an accept: no one comes in, and who goes from an
\* active session leaves someone behind.
LEMMA EmptyKept ==
  ASSUME Typed, OverlapsSeen, EmptyInv, OneLeaves', NEW r \in Workers, NEW k \in Job,
         Gets(r, k), k = Free \/ Keeps(k, job[r]), job[r].op \notin {"none", "accept"},
         \A d \in Calls : status'[d] \in Active => status[d] \in Active,
         \A d \in Calls : status[d] \in Closed => status'[d] \in Closed,
         \A d \in Calls, u \in Users : part'[d][u] = "joined" => part[d][u] = "joined",
         \A d \in Calls, u \in Users : status'[d] \in Active /\ part[d][u] = "joined" =>
           part'[d][u] = "joined" \/ (job[r].op = "end" /\ Joined(part'[d]) # {}),
         k.op = "end" /\ k.step = "commit" /\ k.verdict = "none" =>
           Joined(Planned(part'[k.call], k.plan)) # {},
         k.op \in {"decline", "missed"} => k.call = job[r].call /\ k.call \in Calls,
         k.step = "rows" => k.call \in Calls /\ status'[k.call] \in Closed
  PROVE  EmptyInv'
<1>1. /\ job'[r] = k /\ \A q \in Workers : q # r => job'[q] = job[q]
      /\ overlaps' = overlaps
  BY GetsEffect DEF Typed
<1>2. /\ OneLeaves
      /\ \A c \in Calls : status[c] \in Active => Joined(part[c]) # {}
      /\ \A q \in Workers : StaysOpen(q) /\ NeverJoins(q) /\ StaysClosed(q)
  BY <1>1 DEF EmptyInv, OneLeaves, Never
<1>3. ASSUME NEW d \in Calls, status'[d] \in Active
      PROVE  Joined(part'[d]) # {}
  <2>1. PICK u \in Users : part[d][u] = "joined"
    BY <1>2, <1>3 DEF Joined
  <2>2. QED
    BY <1>3, <2>1 DEF Joined
<1>4. ASSUME NEW q \in Workers
      PROVE  StaysOpen(q)'
  <2> SUFFICES ASSUME job'[q].op = "end", job'[q].step = "commit", job'[q].verdict = "none",
                      status'[job'[q].call] \in Active
               PROVE  Joined(Planned(part'[job'[q].call], job'[q].plan)) # {}
    BY DEF StaysOpen, At, Seen
  <2>1. CASE q = r
    BY <1>1, <2>1
  <2>2. CASE q # r
    <3>1. /\ job'[q] = job[q] /\ job[q].call \in Calls
          /\ \A u \in Users : <<u, "joined">> \notin job[q].plan
      BY <1>1, <2>2, JobShape DEF Shaped
    <3>2. Joined(Planned(part[job[q].call], job[q].plan)) # {}
      BY <1>2, <3>1 DEF StaysOpen, At, Seen
    <3>3. PICK u \in Users : Planned(part[job[q].call], job[q].plan)[u] = "joined"
      BY <3>2 DEF Joined
    <3>4. part[job[q].call][u] = "joined" /\ ~\E s \in PartStatus : <<u, s>> \in job[q].plan
      BY <3>1, <3>3, SeenJoined
    \* Two ends do not overlap.
    <3>5. job[r].op # "end"
      <4>1. SUFFICES ASSUME job[r].op = "end"
                     PROVE  FALSE
        OBVIOUS
      <4>2. {job[r].op, job[q].op} \in overlaps /\ {job[r].op, job[q].op} = {"end"}
        BY <2>2, <3>1, <4>1 DEF OverlapsSeen
      <4>3. QED
        BY <1>2, <4>2 DEF OneLeaves, Never
    <3>6. part'[job[q].call][u] = "joined"
      BY <3>1, <3>4, <3>5
    <3>7. Planned(part'[job[q].call], job[q].plan)[u] = "joined"
      BY <3>4, <3>6 DEF Planned
    <3>8. QED
      BY <3>1, <3>7 DEF Joined
  <2>3. QED
    BY <2>1, <2>2
<1>5. ASSUME NEW q \in Workers
      PROVE  NeverJoins(q)'
  <2> SUFFICES ASSUME job'[q].op \in {"decline", "missed"}
               PROVE  part'[job'[q].call][job'[q].user] # "joined"
    BY DEF NeverJoins
  <2>1. /\ job'[q].op = job[q].op /\ job'[q].call = job[q].call /\ job'[q].user = job[q].user
    BY <1>1, FreeJob DEF Keeps
  <2>2. job[q].call \in Calls /\ job[q].user \in Users
    <3>1. Writing(job[q]) /\ job[q].plan \in SUBSET (Users \X PartStatus)
          /\ (job[q].plan = {<<job[q].user, "declined">>} \/ job[q].plan = {<<job[q].user, "missed">>})
      BY <2>1, JobShape DEF Shaped
    <3>2. <<job[q].user, "declined">> \in job[q].plan \/ <<job[q].user, "missed">> \in job[q].plan
      BY <3>1
    <3>3. job[q].user \in Users
      BY <3>1, <3>2
    <3>4. job[q].step \in {"write", "commit"}
      BY <3>1 DEF Writing
    <3>5. job[q].call \in Calls
      BY <3>4, JobShape
    <3>6. QED
      BY <3>3, <3>5
  <2>3. part[job[q].call][job[q].user] # "joined"
    BY <1>2, <2>1 DEF NeverJoins
  <2>4. QED
    BY <2>1, <2>2, <2>3
<1>6. ASSUME NEW q \in Workers
      PROVE  StaysClosed(q)'
  <2>1. CASE q = r
    BY <1>1, <2>1 DEF StaysClosed, At
  <2>2. CASE q # r
    <3>1. job'[q] = job[q]
      BY <1>1, <2>2
    <3>2. At(q, "rows") => job[q].call \in Calls /\ status[job[q].call] \in Closed
      BY <1>2, JobShape DEF StaysClosed, At
    <3>3. QED
      BY <3>1, <3>2 DEF StaysClosed, At
  <2>3. QED
    BY <2>1, <2>2
<1>7. QED
  BY <1>3, <1>4, <1>5, <1>6 DEF EmptyInv

LEMMA BeginEmpty ==
  ASSUME Typed, EmptyInv, OneLeaves', NEW r \in Workers, BeginRequest(r) \/ BeginSweep(r)
  PROVE  EmptyInv'
<1>1. PICK j \in Job : Begun(j) /\ Begin(r, j) /\ j.op \in Ops
  BY JobBegins DEF Typed
<1>2. /\ SameJob(job'[r], j)
      /\ \A q \in Workers : q # r => SameJob(job'[q], job[q])
      /\ overlaps \subseteq overlaps'
      /\ status' = status /\ part' = part
  BY <1>1, BeginEffect DEF Typed, Begun, sessions
<1>3. /\ \A c \in Calls : status[c] \in Active => Joined(part[c]) # {}
      /\ \A q \in Workers : StaysOpen(q) /\ NeverJoins(q) /\ StaysClosed(q)
  BY <1>2 DEF EmptyInv, OneLeaves, Never
<1>4. /\ j.step \notin {"commit", "rows"}
      /\ j.op \in {"decline", "missed"} => part[j.call][j.user] # "joined"
  BY <1>1 DEF Begun
<1>5. ASSUME NEW q \in Workers
      PROVE  (StaysOpen(q) /\ NeverJoins(q) /\ StaysClosed(q))'
  <2>1. CASE q = r
    <3>1. job'[q].op = j.op /\ job'[q].step = j.step /\ job'[q].call = j.call /\ job'[q].user = j.user
      BY <1>2, <2>1 DEF SameJob
    <3>2. QED
      BY <1>2, <1>4, <3>1 DEF StaysOpen, NeverJoins, StaysClosed, At
  <2>2. CASE q # r
    <3>1. /\ job'[q].op = job[q].op /\ job'[q].step = job[q].step /\ job'[q].call = job[q].call
          /\ job'[q].user = job[q].user /\ job'[q].plan = job[q].plan /\ job'[q].verdict = job[q].verdict
      BY <1>2, <2>2 DEF SameJob
    <3>2. StaysOpen(q) /\ NeverJoins(q) /\ StaysClosed(q)
      BY <1>3
    <3>3. QED
      BY <1>2, <3>1, <3>2 DEF StaysOpen, NeverJoins, StaysClosed, At, Seen
  <2>3. QED
    BY <2>1, <2>2
<1>6. QED
  BY <1>2, <1>3, <1>5 DEF EmptyInv

\* The row of an end that is about to commit is locked: who comes in meanwhile
\* is not the one that goes.
LEMMA AcceptEmpty ==
  ASSUME Typed, OverlapsSeen, EmptyInv, OneLeaves', NEW r \in Workers, AcceptApply(r)
  PROVE  EmptyInv'
<1> DEFINE c == job[r].call
           u0 == job[r].user
<1>1. /\ Gets(r, Free) /\ job[r].op = "accept" /\ u0 \in Users /\ c \in Calls
      /\ job[r].plan = {<<u0, "joined">>} /\ Unlocked(c, job[r].plan)
      /\ part'[c][u0] = "joined"
      /\ \A u \in Users : u # u0 => part'[c][u] = part[c][u]
      /\ \A d \in Calls : d # c => part'[d] = part[d]
      /\ \A d \in Calls : d # c => status'[d] = status[d]
  BY AcceptEffect
<1>2. /\ job'[r] = Free /\ \A q \in Workers : q # r => job'[q] = job[q]
      /\ overlaps' = overlaps
  BY <1>1, FreeJob, GetsEffect DEF Typed
<1>3. /\ OneLeaves
      /\ \A d \in Calls : status[d] \in Active => Joined(part[d]) # {}
      /\ \A q \in Workers : StaysOpen(q)
  BY <1>2 DEF EmptyInv, OneLeaves, Never
<1>4. <<c, u0>> \notin Locked
  BY <1>1 DEF Unlocked
<1> HIDE DEF c, u0
<1>5. ASSUME NEW d \in Calls, status'[d] \in Active
      PROVE  Joined(part'[d]) # {}
  <2>1. CASE d = c
    BY <1>1, <2>1 DEF Joined
  <2>2. CASE d # c
    BY <1>1, <1>3, <1>5, <2>2
  <2>3. QED
    BY <2>1, <2>2
\* No job that the accept must not overlap is in progress.
<1>6. ASSUME NEW q \in Workers
      PROVE  job'[q].op \notin {"decline", "missed", "sweep", "create"}
  <2>1. CASE q = r
    BY <1>2, <2>1, FreeJob
  <2>2. CASE q # r
    <3>1. SUFFICES ASSUME job[q].op \in {"decline", "missed", "sweep", "create"}
                   PROVE  FALSE
      BY <1>2, <2>2
    <3>2. {"accept", job[q].op} \in overlaps
      BY <1>1, <2>2, <3>1 DEF OverlapsSeen
    <3>3. QED
      BY <1>3, <3>1, <3>2 DEF OneLeaves, Never
  <2>3. QED
    BY <2>1, <2>2
<1>7. ASSUME NEW q \in Workers
      PROVE  StaysOpen(q)'
  <2> SUFFICES ASSUME job'[q].op = "end", job'[q].step = "commit", job'[q].verdict = "none",
                      status'[job'[q].call] \in Active
               PROVE  Joined(Planned(part'[job'[q].call], job'[q].plan)) # {}
    BY DEF StaysOpen, At, Seen
  <2>1. q # r /\ job'[q] = job[q]
    BY <1>2, FreeJob
  <2>2. /\ job[q].call \in Calls
        /\ \A u \in Users : <<u, "joined">> \notin job[q].plan
    BY <2>1, JobShape DEF Shaped
  <2>3. CASE job[q].call = c
    <3>1. ~\E s \in PartStatus : <<u0, s>> \in job[q].plan
      <4>1. ASSUME NEW s \in PartStatus, <<u0, s>> \in job[q].plan
            PROVE  <<c, u0>> \in Locked
        <5>1. <<job[q].call, <<u0, s>>[1]>> \in {<<job[q].call, p[1]>> : p \in job[q].plan}
          BY <4>1
        <5>2. QED
          BY <2>1, <2>3, <5>1 DEF Locked, At
      <4>2. QED
        BY <1>4, <4>1
    <3>2. Planned(part'[c], job[q].plan)[u0] = "joined"
      BY <1>1, <3>1 DEF Planned
    <3>3. QED
      BY <1>1, <2>1, <2>3, <3>2 DEF Joined
  <2>4. CASE job[q].call # c
    <3>1. part'[job[q].call] = part[job[q].call] /\ status'[job[q].call] = status[job[q].call]
      BY <1>1, <2>2, <2>4
    <3>2. QED
      BY <1>3, <2>1, <3>1 DEF StaysOpen, At, Seen
  <2>5. QED
    BY <2>3, <2>4
<1>8. ASSUME NEW q \in Workers
      PROVE  NeverJoins(q)' /\ StaysClosed(q)'
  <2>1. job'[q].step # "rows"
    <3>1. CASE q = r
      BY <1>2, <3>1, FreeJob
    <3>2. CASE q # r
      BY <1>2, <1>6, <3>2, JobShape DEF Shaped, Closing
    <3>3. QED
      BY <3>1, <3>2
  <2>2. QED
    BY <1>6, <2>1 DEF NeverJoins, StaysClosed, At
<1>9. QED
  BY <1>5, <1>7, <1>8 DEF EmptyInv

LEMMA InsertEmpty ==
  ASSUME Typed, EmptyInv, OneLeaves', NEW r \in Workers, CreateInsert(r)
  PROVE  EmptyInv'
<1>1. Gets(r, Free) /\ job[r].user \in Users
  BY InsertEffect
<1>2. PICK c \in Calls :
        /\ status[c] = "none"
        /\ status'[c] = "ringing"
        /\ \A d \in Calls : d # c => status'[d] = status[d] /\ part'[d] = part[d]
        /\ \A u \in Users : u = job[r].user => part'[c][u] = "joined"
  BY InsertEffect
<1>3. /\ job'[r] = Free /\ \A q \in Workers : q # r => job'[q] = job[q]
      /\ overlaps' = overlaps
  BY <1>1, FreeJob, GetsEffect DEF Typed
<1>4. /\ \A d \in Calls : status[d] \in Active => Joined(part[d]) # {}
      /\ \A q \in Workers : StaysOpen(q) /\ NeverJoins(q) /\ StaysClosed(q)
  BY <1>3 DEF EmptyInv, OneLeaves, Never
<1>5. ASSUME NEW d \in Calls, status'[d] \in Active
      PROVE  Joined(part'[d]) # {}
  <2>1. CASE d = c
    BY <1>1, <1>2, <2>1 DEF Joined
  <2>2. CASE d # c
    BY <1>2, <1>4, <1>5, <2>2
  <2>3. QED
    BY <2>1, <2>2
\* The other jobs work on sessions that exist.
<1>6. ASSUME NEW q \in Workers
      PROVE  (StaysOpen(q) /\ NeverJoins(q) /\ StaysClosed(q))'
  <2>1. CASE job'[q].step \in {"write", "commit", "rows"}
    <3>1. q # r /\ job'[q] = job[q]
      BY <1>3, <2>1, FreeJob
    <3>2. job[q].call \in Calls /\ status[job[q].call] # "none"
      BY <2>1, <3>1, JobShape
    <3>3. part'[job[q].call] = part[job[q].call] /\ status'[job[q].call] = status[job[q].call]
      BY <1>2, <3>2
    <3>4. StaysOpen(q) /\ NeverJoins(q) /\ StaysClosed(q)
      BY <1>4
    <3>5. QED
      BY <3>1, <3>3, <3>4 DEF StaysOpen, NeverJoins, StaysClosed, At, Seen
  <2>2. CASE job'[q].step \notin {"write", "commit", "rows"}
    <3>1. job'[q].op \notin {"decline", "missed"}
      <4>1. CASE q = r
        BY <1>3, <4>1, FreeJob
      <4>2. CASE q # r
        BY <1>3, <2>2, <4>2, JobShape DEF Shaped, Writing
      <4>3. QED
        BY <4>1, <4>2
    <3>2. QED
      BY <2>2, <3>1 DEF StaysOpen, NeverJoins, StaysClosed, At
  <2>3. QED
    BY <2>1, <2>2
<1>7. QED
  BY <1>5, <1>6 DEF EmptyInv

\* What a job other than an accept writes: no row becomes joined.
LEMMA NoneComesIn ==
  ASSUME Typed, NEW r \in Workers, job[r].op # "accept", job[r].call \in Calls,
         NEW plan, plan \subseteq job[r].plan, WriteRows(job[r].call, plan)
  PROVE  /\ \A d \in Calls, u \in Users : part'[d][u] = "joined" => part[d][u] = "joined"
         /\ \A d \in Calls : d # job[r].call => part'[d] = part[d]
         /\ \A u \in Users : ~(\E s \in PartStatus : <<u, s>> \in plan) =>
              part'[job[r].call][u] = part[job[r].call][u]
<1> DEFINE c == job[r].call
<1>1. TypeOK /\ plan \in SUBSET (Users \X PartStatus)
  BY JobShape DEF Typed
<1>2. \A d \in Calls, u \in Users :
        part'[d][u] = part[d][u] \/ HasGone(part'[d], u)
  BY WrittenIsGone
<1>3. /\ \A d \in Calls : d # c => part'[d] = part[d]
      /\ \A u \in Users : ~(\E s \in PartStatus : <<u, s>> \in plan) => part'[c][u] = part[c][u]
  BY <1>1, WriteEffect
<1>4. QED
  BY <1>2, <1>3 DEF HasGone

LEMMA StepEmpty ==
  ASSUME Typed, OverlapsSeen, EmptyInv, [Next]_vars
  PROVE  EmptyInv'
<1> SUFFICES ASSUME OneLeaves'
             PROVE  EmptyInv'
  BY DEF EmptyInv
<1>1. ASSUME NEW r \in Workers, BeginRequest(r) \/ BeginSweep(r)
      PROVE  EmptyInv'
  BY <1>1, BeginEmpty
<1>2. ASSUME NEW r \in Workers, Proceed(r)
      PROVE  EmptyInv'
  <2>1. CASE AcceptApply(r)
    BY <2>1, AcceptEmpty
  <2>2. CASE CreateInsert(r)
    BY <2>2, InsertEmpty
  <2>3. ASSUME overlaps' = overlaps
        PROVE  StaysOpen(r) /\ NeverJoins(r) /\ StaysClosed(r)
    BY <2>3 DEF EmptyInv, OneLeaves, Never
  <2>4. \A k \in Job : Gets(r, k) => overlaps' = overlaps
    BY DEF Gets
  <2>5. Active \cap Closed = {} /\ "canceled" \in Closed
    BY DEF Active, Closed
  <2>6. Free.op = "none" /\ Free.step = "idle" /\ Free \in Job
    BY FreeJob
  \* The session that is closed is not active.
  <2>7. ASSUME NEW c \in Calls, NEW s \in Closed, Finalize(c, s)
        PROVE  /\ \A d \in Calls : status'[d] \in Active => status[d] \in Active /\ d # c
               /\ \A d \in Calls : status[d] \in Closed => status'[d] \in Closed
               /\ status'[c] \in Closed
    BY <2>5, <2>7 DEF Finalize, Typed, TypeOK
  <2>8. CASE CancelApply(r)
    <3>1. /\ Gets(r, Free) /\ job[r].op = "cancel" /\ job[r].call \in Calls
          /\ WriteRows(job[r].call, job[r].plan) /\ Finalize(job[r].call, "canceled")
      BY <2>8, CancelEffect
    <3>2. /\ \A d \in Calls, u \in Users : part'[d][u] = "joined" => part[d][u] = "joined"
          /\ \A d \in Calls : d # job[r].call => part'[d] = part[d]
      BY <3>1, NoneComesIn
    <3>3. /\ \A d \in Calls : status'[d] \in Active => status[d] \in Active /\ d # job[r].call
          /\ \A d \in Calls : status[d] \in Closed => status'[d] \in Closed
      BY <2>5, <2>7, <3>1
    <3>4. QED
      BY <2>6, <3>1, <3>2, <3>3, EmptyKept
  <2>9. CASE DeclineWrite(r) \/ EndWrite(r) \/ MissedWrite(r)
    <3>1. PICK k \in Job :
             /\ Gets(r, k) /\ Keeps(k, job[r])
             /\ job[r].op \in {"decline", "end", "missed"} /\ At(r, "write")
             /\ k.step = "commit" /\ k.call = job[r].call /\ k.plan = job[r].plan
             /\ k.op = "end" /\ k.verdict = "none" => Joined(Seen(r)) # {}
             /\ UNCHANGED <<sessions, part, left>>
      BY <2>9, VerdictEffect
    <3>2. status' = status /\ part' = part /\ k.call \in Calls
      BY <3>1, JobShape DEF sessions, At
    <3>3. k.op = "end" /\ k.verdict = "none" => Joined(Planned(part'[k.call], k.plan)) # {}
      BY <3>1, <3>2 DEF Seen
    <3>4. QED
      BY <3>1, <3>2, <3>3, EmptyKept
  <2>10. CASE Commit(r)
    <3>1. /\ Gets(r, Free) /\ At(r, "commit") /\ job[r].call \in Calls
          /\ job[r].op \in {"decline", "end", "missed"}
          /\ WriteRows(job[r].call, job[r].plan)
          /\ \/ job[r].verdict = "none" /\ UNCHANGED sessions
             \/ job[r].verdict \in Closed /\ Finalize(job[r].call, job[r].verdict)
      BY <2>10, CommitEffect
    <3>2. /\ \A d \in Calls, u \in Users : part'[d][u] = "joined" => part[d][u] = "joined"
          /\ \A d \in Calls : d # job[r].call => part'[d] = part[d]
          /\ \A u \in Users : ~(\E s \in PartStatus : <<u, s>> \in job[r].plan) =>
               part'[job[r].call][u] = part[job[r].call][u]
      <4> DEFINE plan == job[r].plan
      <4>1. job[r].op # "accept" /\ plan \subseteq job[r].plan /\ WriteRows(job[r].call, plan)
        BY <3>1
      <4>2. /\ \A d \in Calls, u \in Users : part'[d][u] = "joined" => part[d][u] = "joined"
            /\ \A d \in Calls : d # job[r].call => part'[d] = part[d]
            /\ \A u \in Users : ~(\E s \in PartStatus : <<u, s>> \in plan) =>
                 part'[job[r].call][u] = part[job[r].call][u]
        <5> HIDE DEF plan
        <5>1. QED
          BY <3>1, <4>1, NoneComesIn
      <4>3. QED
        BY <4>2
    <3>3. /\ \A d \in Calls : status'[d] \in Active =>
               status[d] \in Active /\ (d # job[r].call \/ job[r].verdict = "none")
          /\ \A d \in Calls : status[d] \in Closed => status'[d] \in Closed
      <4>1. CASE job[r].verdict = "none" /\ UNCHANGED sessions
        BY <4>1 DEF sessions
      <4>2. CASE job[r].verdict \in Closed /\ Finalize(job[r].call, job[r].verdict)
        BY <2>7, <3>1, <4>2
      <4>3. QED
        BY <3>1, <4>1, <4>2
    <3>4. StaysOpen(r) /\ NeverJoins(r)
      BY <2>3, <2>4, <2>6, <3>1
    <3>5. ASSUME NEW d \in Calls, NEW u \in Users, status'[d] \in Active, part[d][u] = "joined"
          PROVE  part'[d][u] = "joined" \/ (job[r].op = "end" /\ Joined(part'[d]) # {})
      <4>1. CASE d # job[r].call
        BY <3>2, <3>5, <4>1
      <4>2. CASE d = job[r].call /\ job[r].op = "end"
        <5>1. Joined(Seen(r)) # {}
          BY <3>1, <3>3, <3>4, <3>5, <4>2 DEF StaysOpen
        <5>2. part'[d] = Seen(r)
          BY <3>1, <4>2, JobShape, WriteEffect DEF Typed, Seen
        <5>3. QED
          BY <4>2, <5>1, <5>2
      \* Who declines or misses the call is not in it.
      <4>3. CASE d = job[r].call /\ job[r].op \in {"decline", "missed"}
        <5>1. u # job[r].user
          BY <3>4, <3>5, <4>3 DEF NeverJoins
        <5>2. job[r].plan = {<<job[r].user, "declined">>} \/ job[r].plan = {<<job[r].user, "missed">>}
          BY <4>3, JobShape DEF Shaped
        <5>3. ASSUME NEW s \in PartStatus, <<u, s>> \in job[r].plan
              PROVE  FALSE
          <6>1. <<u, s>> = <<job[r].user, "declined">> \/ <<u, s>> = <<job[r].user, "missed">>
            BY <5>2, <5>3
          <6>2. QED
            BY <5>1, <6>1
        <5>4. QED
          BY <3>2, <3>5, <4>3, <5>3
      <4>4. QED
        BY <3>1, <4>1, <4>2, <4>3
    <3>6. QED
      BY <2>6, <3>1, <3>2, <3>3, <3>5, EmptyKept
  <2>11. CASE SweepSession(r)
    <3>1. /\ job[r].op \in {"sweep", "create"} /\ job[r].call \in Calls
          /\ job[r].verdict \in Closed /\ Finalize(job[r].call, job[r].verdict)
          /\ part' = part
      BY <2>11, SweepEffect
    <3>2. PICK k \in Job : /\ Gets(r, k) /\ Keeps(k, job[r])
                           /\ k.step = "rows" /\ k.call = job[r].call
      BY <2>11, SweepEffect
    <3>3. /\ \A d \in Calls : status'[d] \in Active => status[d] \in Active
          /\ \A d \in Calls : status[d] \in Closed => status'[d] \in Closed
          /\ status'[k.call] \in Closed
      BY <2>7, <3>1, <3>2
    <3>4. k.op \notin {"decline", "missed", "end"}
      BY <3>1, <3>2 DEF Keeps
    <3>5. QED
      BY <3>1, <3>2, <3>3, <3>4, EmptyKept
  <2>12. CASE SweepRow(r)
    <3>1. /\ At(r, "rows") /\ job[r].op \in {"sweep", "create"} /\ job[r].call \in Calls
          /\ status' = status
      BY <2>12, RowEffect DEF sessions
    <3>2. PICK k \in Job, p \in job[r].plan :
             /\ WriteRows(job[r].call, {p}) /\ Gets(r, k) /\ Keeps(k, job[r])
             /\ k.step = "rows" /\ k.call = job[r].call
      BY <2>12, RowEffect
    <3>3. /\ \A d \in Calls, u \in Users : part'[d][u] = "joined" => part[d][u] = "joined"
          /\ \A d \in Calls : d # job[r].call => part'[d] = part[d]
      <4>1. {p} \subseteq job[r].plan /\ job[r].op # "accept"
        BY <3>1, <3>2
      <4>2. QED
        BY <3>1, <3>2, <4>1, NoneComesIn
    <3>4. status[job[r].call] \in Closed
      BY <2>3, <2>4, <3>1, <3>2 DEF StaysClosed
    <3>5. \A d \in Calls, u \in Users : status'[d] \in Active /\ part[d][u] = "joined" =>
            part'[d][u] = "joined"
      BY <2>5, <3>1, <3>3, <3>4
    <3>6. k.op \notin {"decline", "missed", "end"}
      BY <3>1, <3>2 DEF Keeps
    <3>7. QED
      BY <3>1, <3>2, <3>3, <3>4, <3>5, <3>6, EmptyKept
  <2>13. CASE SweepDone(r) \/ CreateSweep(r) \/ CreateCheck(r)
    <3>1. job[r].op \in {"sweep", "create"} /\ status' = status /\ part' = part
      BY <2>13, CheckEffect DEF sessions
    <3>2. PICK k \in Job :
              /\ Gets(r, k) /\ (k = Free \/ (Keeps(k, job[r]) /\ k.op = "create"))
              /\ k.step \notin {"commit", "rows"}
      BY <2>13, CheckEffect, FreeJob
    <3>3. k.op \notin {"decline", "missed", "end"}
      BY <2>6, <3>2
    <3>4. QED
      BY <3>1, <3>2, <3>3, EmptyKept
  <2>14. QED
    BY <1>2, <2>1, <2>2, <2>8, <2>9, <2>10, <2>11, <2>12, <2>13 DEF Proceed
<1>3. ASSUME UNCHANGED <<status, part, job, overlaps>>
      PROVE  EmptyInv'
  BY <1>3 DEF EmptyInv, OneLeaves, Never, StaysOpen, NeverJoins, StaysClosed, At, Seen
<1>4. ASSUME NEW r \in Workers, JobDies(r)
      PROVE  EmptyInv'
  <2>1. /\ job'[r] = Free /\ \A q \in Workers : q # r => job'[q] = job[q]
        /\ status' = status /\ part' = part /\ overlaps' = overlaps
    BY <1>4, DiesEffect
  <2>2. \A q \in Workers : job'[q].op # "none" \/ job'[q].step = "rows" => job'[q] = job[q]
    BY <2>1, FreeJob
  <2>3. QED
    BY <2>1, <2>2, FreeJob DEF EmptyInv, OneLeaves, Never, StaysOpen, NeverJoins, StaysClosed, At, Seen
<1>5. QED
  BY <1>1, <1>2, <1>3, <1>4 DEF Next, TimePasses, vars, sessions

-----------------------------------------------------------------------------
(* The invariant *)

LEMMA InitInv == Init => IInv
<1> SUFFICES ASSUME Init
             PROVE  IInv
  OBVIOUS
<1>1. \A r \in Workers : job[r] = Free
  BY DEF Init
<1>2. Free \in Job /\ Free.op = "none" /\ Free.step = "idle"
  BY FreeJob
<1>3. TypeOK
  BY <1>1, <1>2 DEF Init, TypeOK
<1>4. JobsOK
  BY <1>1, FreeShaped DEF JobsOK
<1>5. RingingNotEnded /\ OverlapsSeen /\ AcceptMet
  BY <1>1, <1>2 DEF Init, RingingNotEnded, OverlapsSeen, AcceptMet
<1>6. EndedInv /\ OneInv
  BY <1>1, <1>2 DEF Init, EndedInv, OneInv, At, Active
<1>7. \A c \in Calls : status[c] = "none"
  BY DEF Init
<1>8. ClosedInv
  <2>1. \A c \in Calls, u \in Users : Open(c, u)
    BY <1>1, <1>2 DEF Init, Open, Accepting
  <2>2. \A c \in Calls, u \in Users : Cleared(c, u)
    BY <1>7 DEF Cleared, Closed
  <2>3. \A r \in Workers, u \in Users : Covers(r, u)
    BY <1>1, <1>2 DEF Covers, At
  <2>4. QED
    BY <1>1, <1>2, <2>1, <2>2, <2>3 DEF ClosedInv, At
<1>9. EmptyInv
  BY <1>1, <1>2, <1>7 DEF EmptyInv, StaysOpen, NeverJoins, StaysClosed, At, Active
<1>10. QED
  BY <1>3, <1>4, <1>5, <1>6, <1>8, <1>9 DEF IInv

LEMMA StepInv == IInv /\ [Next]_vars => IInv'
<1> SUFFICES ASSUME IInv, [Next]_vars
             PROVE  IInv'
  OBVIOUS
<1>1. Typed /\ OverlapsSeen /\ AcceptMet /\ EndedInv /\ OneInv /\ ClosedInv /\ EmptyInv
  BY DEF IInv, Typed
<1>2. Typed'
  BY <1>1, StepTypes
<1>3. OverlapsSeen' /\ AcceptMet'
  BY <1>1, StepOverlaps
<1>4. EndedInv'
  BY <1>1, StepEnded
<1>5. OneInv'
  BY <1>1, OneCall
<1>6. ClosedInv'
  BY <1>1, StepClosed
<1>7. EmptyInv'
  BY <1>1, StepEmpty
<1>8. QED
  BY <1>2, <1>3, <1>4, <1>5, <1>6, <1>7 DEF IInv, Typed

\* The invariant that the theorems below need holds in every reachable state.
THEOREM Inductive == Spec => []IInv
<1>1. QED
  BY InitInv, StepInv, PTL DEF Spec

\* Every variable keeps its type, a session that does not exist has no marks
\* and no participants, and one that exists has all of them.
THEOREM TypeCorrect == Spec => []TypeOK
<1>1. IInv => TypeOK
  BY DEF IInv
<1>2. QED
  BY <1>1, Inductive, PTL

\* A chat has one active call at a time, whoever creates, accepts and sweeps,
\* unless two creations or a creation and an accept have overlapped.
THEOREM OneActive == Spec => []OneActiveCall
<1>1. ASSUME IInv
      PROVE  OneActiveCall
  <2> SUFFICES ASSUME OneCreates
               PROVE  Cardinality({c \in Calls : status[c] \in Active}) <= 1
    BY DEF OneActiveCall, OneCreates
  <2>1. \A c \in Calls, d \in Calls : status[c] \in Active /\ status[d] \in Active => c = d
    BY <1>1 DEF IInv, OneInv
  <2>2. CASE \A c \in Calls : status[c] \notin Active
    <3>1. {c \in Calls : status[c] \in Active} = {}
      BY <2>2
    <3>2. QED
      BY <3>1, FS_EmptySet
  <2>3. CASE \E c \in Calls : status[c] \in Active
    <3>1. PICK c \in Calls : status[c] \in Active
      BY <2>3
    <3>2. {d \in Calls : status[d] \in Active} = {c}
      BY <2>1, <3>1
    <3>3. QED
      BY <3>2, FS_Singleton
  <2>4. QED
    BY <2>2, <2>3
<1>2. QED
  BY <1>1, Inductive, PTL

\* Whoever was joined to a call has left it when it is closed and no job is in
\* progress, unless a sweep died before it came to them or an accept has
\* overlapped a departure that did not see it.
THEOREM NoOneStaysBehind == Spec => []NoOneInClosedCall
<1>1. ASSUME IInv
      PROVE  NoOneInClosedCall
  <2> SUFFICES ASSUME Idle, NoneDeparts, NEW c \in Calls, status[c] \in Closed,
                      NEW u \in Users, part[c][u] = "joined", <<c, u>> \notin abandoned
               PROVE  FALSE
    BY DEF NoOneInClosedCall, NoneDeparts, Joined
  <2>1. Cleared(c, u)
    BY <1>1 DEF IInv, ClosedInv
  <2>2. PICK r \in Workers : job[r].step = "rows"
    BY <2>1 DEF Cleared, At
  <2>3. QED
    BY <2>2, FreeJob DEF Idle
<1>2. QED
  BY <1>1, Inductive, PTL

\* The last one to leave a call closes it, unless two ends have overlapped or
\* an accept has overlapped a job that writes the one it accepts for.
THEOREM LastCloses == Spec => []EmptyCallCloses
<1>1. IInv => EmptyCallCloses
  BY DEF IInv, EmptyInv, EmptyCallCloses, OneLeaves
<1>2. QED
  BY <1>1, Inductive, PTL

\* Only the application of an accept makes a closed call active again, and the
\* accept was in progress beside another job.
THEOREM Reopened == Spec => ReopenedOnlyByAccept
<1>1. ASSUME IInv, [Next]_vars, NEW c \in Calls, status[c] \in Closed, status'[c] \in Active
      PROVE  \E r \in Workers : /\ job[r].op = "accept" /\ job[r].call = c /\ job'[r] = Free
                                /\ job[r].met \ {"accept"} # {}
  <2>1. Typed /\ AcceptMet
    BY <1>1 DEF IInv, Typed
  <2>2. Active \cap Closed = {} /\ "none" \notin Closed
    BY DEF Active, Closed
  <2>3. ASSUME status' = status
        PROVE  FALSE
    BY <1>1, <2>2, <2>3
  <2>4. ASSUME NEW r \in Workers, BeginRequest(r) \/ BeginSweep(r)
        PROVE  FALSE
    <3>1. PICK j \in Job : Begun(j) /\ Begin(r, j)
      BY <2>1, <2>4, JobBegins DEF Typed
    <3>2. QED
      BY <2>3, <3>1 DEF Begin, sessions
  <2>5. ASSUME NEW r \in Workers, Proceed(r), ~AcceptApply(r)
        PROVE  FALSE
    <3>1. ASSUME NEW d, NEW s \in Closed, Finalize(d, s)
          PROVE  FALSE
      BY <1>1, <2>1, <2>2, <3>1 DEF Finalize, Typed, TypeOK
    <3>2. UNCHANGED sessions => FALSE
      BY <2>3 DEF sessions
    <3>3. CASE CancelApply(r)
      BY <2>1, <3>1, <3>3, CancelEffect DEF Closed
    <3>4. CASE DeclineWrite(r) \/ EndWrite(r) \/ MissedWrite(r)
      BY <2>1, <3>2, <3>4, VerdictEffect
    <3>5. CASE Commit(r)
      BY <2>1, <3>1, <3>2, <3>5, CommitEffect
    <3>6. CASE SweepSession(r)
      BY <2>1, <3>1, <3>6, SweepEffect
    <3>7. CASE SweepRow(r)
      BY <2>1, <3>2, <3>7, RowEffect
    <3>8. CASE SweepDone(r) \/ CreateSweep(r) \/ CreateCheck(r)
      BY <2>1, <3>2, <3>8, CheckEffect
    <3>9. CASE CreateInsert(r)
      BY <1>1, <2>1, <2>2, <3>9, InsertEffect
    <3>10. QED
      BY <2>5, <3>3, <3>4, <3>5, <3>6, <3>7, <3>8, <3>9 DEF Proceed
  <2>6. PICK r \in Workers : AcceptApply(r)
    BY <1>1, <2>3, <2>4, <2>5 DEF Next, TimePasses, JobDies, vars, sessions
  <2>7. /\ Gets(r, Free) /\ job[r].op = "accept" /\ job[r].call \in Calls
        /\ \A d \in Calls : d # job[r].call => status'[d] = status[d]
    BY <2>1, <2>6, AcceptEffect
  <2>8. job[r].call = c
    BY <1>1, <2>2, <2>7
  <2>9. job'[r] = Free
    BY <2>1, <2>7, FreeJob, GetsEffect DEF Typed
  <2>10. job[r].met \ {"accept"} # {}
    BY <1>1, <2>1, <2>7, <2>8 DEF AcceptMet
  <2>11. QED
    BY <2>7, <2>8, <2>9, <2>10
<1>2. IInv /\ [Next]_vars =>
        [\A c \in Calls :
           (status[c] \in Closed /\ status'[c] \in Active) =>
             \E r \in Workers : /\ job[r].op = "accept" /\ job[r].call = c /\ job'[r] = Free
                               /\ job[r].met \ {"accept"} # {}]_vars
  BY <1>1
<1>3. QED
  BY <1>2, Inductive, PTL DEF Spec, ReopenedOnlyByAccept
=============================================================================
