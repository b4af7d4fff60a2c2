-------------------------- MODULE Accounts_proofs --------------------------
(***************************************************************************)
(* Proofs about Accounts for every set of workers and addresses and any    *)
(* number of requests.                                                     *)
(***************************************************************************)
EXTENDS Accounts, SequenceTheorems, TLAPS

-----------------------------------------------------------------------------
Usable(r) == /\ r.completed => r.active /\ r.verified
             /\ r.active => r.completed

\* Which requests reach which step.
Flow(j) ==
  /\ j.pc = "lock" => j.op = "register"
  /\ j.pc \in {"expire", "mail", "commit"} => j.op \in {"register", "reset"}
  /\ j.pc \in {"use", "redeem"} => j.op \in {"verify", "confirm"}
  /\ j.pc = "save" => j.op \in {"complete", "login", "profile"}

\* What a request read, and checked, before it writes it back.
SeenChecked(j) ==
  /\ Usable(j.seen)
  /\ j.op = "complete" => j.seen.verified
  /\ j.op = "profile" => j.seen.completed
  /\ j.op = "register" => ~j.seen.completed

RequestsAreChecked == \A w \in Workers : Flow(job[w]) /\ SeenChecked(job[w])

\* The code a request has inserted is of its address and purpose.
OwnCode ==
  \A w \in Workers : LET j == job[w] IN
    j.pc \in {"mail", "commit"} => /\ j.code \in DOMAIN codes
                                   /\ codes[j.code].email = j.email
                                   /\ codes[j.code].purpose = PurposeOf(j.op)

\* The registration that holds an account is alone, and will invalidate every
\* valid code.
Live(e) == With({"live"}, e, "verification")
Holds(w) == job[w].op = "register" /\ job[w].pc \in {"expire", "mail", "commit"}
LockedOut ==
  \A w \in Workers : Holds(w) =>
    /\ \A v \in Workers : Holds(v) /\ job[v].email = job[w].email => v = w
    /\ Live(job[w].email) \subseteq job[w].plan

IInv == /\ TypeOK /\ RequestsAreChecked /\ OwnCode /\ LockedOut
        /\ CompletedIsUsable /\ OneVerificationCode

-----------------------------------------------------------------------------
(* Sequences of codes *)

\* A function on the positions of the codes is a sequence of codes.
LEMMA CodesAreSeq ==
  ASSUME NEW s \in Seq(Code), NEW f, DOMAIN f = DOMAIN s,
         f = [i \in DOMAIN f |-> f[i]], \A i \in DOMAIN f : f[i] \in Code
  PROVE  f \in Seq(Code) /\ Len(f) = Len(s)
<1>1. Len(s) \in Nat /\ DOMAIN s = 1..Len(s)
  BY LenProperties
<1>2. f \in [1..Len(s) -> Code]
  BY <1>1
<1>3. f \in Seq(Code)
  BY <1>1, <1>2, SeqDef
<1>4. QED
  BY <1>1, <1>3, LenProperties

\* A step keeps the address and the purpose of every code.
SameCodes == /\ codes' \in Seq(Code)
             /\ Len(codes') \in {Len(codes), Len(codes) + 1}
             /\ \A i \in DOMAIN codes : /\ i \in DOMAIN codes'
                                        /\ codes'[i].email = codes[i].email
                                        /\ codes'[i].purpose = codes[i].purpose

WithStatus(c, st) == [c EXCEPT !.status = st]

LEMMA WithStatusIsCode ==
  ASSUME NEW c \in Code, NEW st \in Statuses
  PROVE  /\ WithStatus(c, st) \in Code
         /\ WithStatus(c, st).email = c.email /\ WithStatus(c, st).purpose = c.purpose
BY DEF Code, WithStatus

\* Every action keeps the identity of the codes.
LEMMA StepKeepsCodes ==
  ASSUME TypeOK, OwnCode, [Next]_vars
  PROVE  SameCodes
<1> USE DEF TypeOK
<1>0. codes \in Seq(Code) /\ Len(codes) \in Nat /\ DOMAIN codes = 1..Len(codes)
  BY LenProperties
<1>1. ASSUME UNCHANGED codes
      PROVE  SameCodes
  BY <1>0, <1>1 DEF SameCodes
<1>2. ASSUME DOMAIN codes' = DOMAIN codes,
             codes' = [i \in DOMAIN codes' |-> codes'[i]],
             \A i \in DOMAIN codes :
               codes'[i] = codes[i] \/ \E st \in Statuses : codes'[i] = WithStatus(codes[i], st)
      PROVE  SameCodes
  <2>1. \A i \in DOMAIN codes :
          /\ codes'[i] \in Code
          /\ codes'[i].email = codes[i].email /\ codes'[i].purpose = codes[i].purpose
    <3> SUFFICES ASSUME NEW i \in DOMAIN codes
                 PROVE  /\ codes'[i] \in Code
                        /\ codes'[i].email = codes[i].email
                        /\ codes'[i].purpose = codes[i].purpose
      OBVIOUS
    <3>1. codes[i] \in Code
      BY <1>0
    <3>2. CASE codes'[i] = codes[i]
      BY <3>1, <3>2
    <3>3. CASE \E st \in Statuses : codes'[i] = WithStatus(codes[i], st)
      BY <3>1, <3>3, WithStatusIsCode
    <3>4. QED
      BY <1>2, <3>2, <3>3
  <2>2. codes' \in Seq(Code) /\ Len(codes') = Len(codes)
    BY <1>0, <1>2, <2>1, CodesAreSeq
  <2>3. QED
    BY <1>0, <1>2, <2>1, <2>2 DEF SameCodes
<1>3. ASSUME NEW w \in Workers, Rollback(w)
      PROVE  SameCodes
  <2>2. "void" \in Statuses
    BY DEF Statuses
  <2>3. QED
    BY <1>0, <1>2, <1>3, <2>2 DEF Rollback, WithStatus
<1>4. ASSUME NEW w \in Workers, ExpireCodes(w)
      PROVE  SameCodes
  <2>1. job[w] \in Job \cup {Idle} /\ job[w].pc = "expire"
    BY <1>4 DEF ExpireCodes
  <2>2. job[w].email \in Emails
    BY <2>1 DEF Job, Idle
  <2>3. [email |-> job[w].email, purpose |-> PurposeOf(job[w].op), status |-> "draft"] \in Code
    BY <2>2 DEF Code, Purposes, PurposeOf, Statuses
  <2>4. QED
    BY <1>0, <1>4, <2>3 DEF ExpireCodes, SameCodes
<1>5. ASSUME NEW w \in Workers, CommitCode(w)
      PROVE  SameCodes
  <2>2. "live" \in Statuses /\ "expired" \in Statuses
    BY DEF Statuses
  <2>3. QED
    BY <1>0, <1>2, <1>5, <2>2 DEF CommitCode, WithStatus
<1>6. ASSUME NEW w \in Workers, Redeem(w)
      PROVE  SameCodes
  <2>2. "used" \in Statuses
    BY DEF Statuses
  <2>3. codes' = [codes EXCEPT ![job[w].code].status = "used"]
    BY <1>6 DEF Redeem
  <2>4. QED
    BY <1>0, <1>2, <2>2, <2>3 DEF WithStatus
<1>7. ASSUME NEW c \in DOMAIN codes, CodeExpires(c)
      PROVE  SameCodes
  <2>2. "expired" \in Statuses
    BY DEF Statuses
  <2>3. codes' = [codes EXCEPT ![c].status = "expired"]
    BY <1>7 DEF CodeExpires
  <2>4. QED
    BY <1>0, <1>2, <2>2, <2>3 DEF WithStatus
<1>8. CASE UNCHANGED vars
  BY <1>1, <1>8 DEF vars
<1>9. ASSUME NEW w \in Workers, WorkerStep(w)
      PROVE  SameCodes
  <2>1. ASSUME NEW e \in Emails,
               \/ BeginRegister(w, e)
               \/ BeginReset(w, e)
               \/ \E op \in {"verify", "confirm"}, c \in DOMAIN codes : BeginUse(w, op, e, c)
               \/ BeginComplete(w, e)
               \/ BeginLogin(w, e)
               \/ BeginProfile(w, e)
        PROVE  SameCodes
    BY <1>1, <2>1 DEF BeginRegister, BeginReset, BeginUse, BeginComplete, BeginLogin,
                      BeginProfile, Start
  <2>2. CASE RegisterLock(w) \/ SendMail(w) \/ UseCode(w) \/ Save(w)
    BY <1>1, <2>2 DEF RegisterLock, SendMail, UseCode, Save
  <2>3. CASE MailFails(w) \/ Abort(w)
    BY <1>3, <2>3 DEF MailFails, Abort
  <2>4. QED
    BY <1>4, <1>5, <1>6, <1>9, <2>1, <2>2, <2>3 DEF WorkerStep
<1>10. CASE \E e \in Emails : TokenExpires(e)
  BY <1>1, <1>10 DEF TokenExpires
<1>11. QED
  BY <1>7, <1>8, <1>9, <1>10 DEF Next

-----------------------------------------------------------------------------
(* Types *)

LEMMA RowTypes ==
  ASSUME NEW r \in Row, NEW seen \in Row, NEW op
  PROVE  /\ Registered(r) \in Row /\ Verified(r) \in Row /\ NewPassword(r) \in Row
         /\ Saved(op, seen, r) \in Row
<1>1. Registered(r) \in Row
  BY DEF Row, Registered
<1>2. Verified(r) \in Row
  BY DEF Row, Verified
<1>3. NewPassword(r) \in Row
  BY DEF Row, NewPassword
<1>4. [seen EXCEPT !.active = TRUE, !.completed = TRUE, !.password = r.password + 1] \in Row
  <2>1. ASSUME NEW n \in Nat
        PROVE  [seen EXCEPT !.active = TRUE, !.completed = TRUE, !.password = n] \in Row
    BY DEF Row
  <2>2. r.password + 1 \in Nat
    BY DEF Row
  <2>3. QED
    BY <2>1, <2>2
<1>5. Saved(op, seen, r) \in Row
  BY <1>4 DEF Saved
<1>6. QED
  BY <1>1, <1>2, <1>3, <1>5

LEMMA JobTypes ==
  ASSUME TypeOK, NEW w \in Workers, job[w].pc # "done"
  PROVE  /\ job[w] \in Job
         /\ \A pc \in {"lock", "expire", "mail", "commit", "use", "redeem", "save"} :
              [job EXCEPT ![w].pc = pc] \in [Workers -> Job \cup {Idle}]
         /\ [job EXCEPT ![w] = Idle] \in [Workers -> Job \cup {Idle}]
<1>1. job \in [Workers -> Job \cup {Idle}]
  BY DEF TypeOK
<1>2. job[w] \in Job
  BY <1>1 DEF Idle
<1>3. ASSUME NEW pc \in {"lock", "expire", "mail", "commit", "use", "redeem", "save"}
      PROVE  [job EXCEPT ![w].pc = pc] \in [Workers -> Job \cup {Idle}]
  <2>1. [job[w] EXCEPT !.pc = pc] \in Job
    BY <1>2 DEF Job
  <2>2. QED
    BY <1>1, <2>1
<1>4. QED
  BY <1>1, <1>2, <1>3

\* A request that starts has a job and changes nothing else.
LEMMA StartTypes ==
  ASSUME TypeOK, NEW w \in Workers, NEW op \in Ops, NEW pc \in {"lock", "expire", "use", "save"},
         NEW e \in Emails, NEW c \in Nat, NEW plan \in SUBSET Nat, Start(w, op, pc, e, c, plan),
         row[e] \in Row
  PROVE  TypeOK'
<1> USE MaxRequestsAssumption DEF TypeOK, Start, MaxRequestsAssumption
<1>1. [op |-> op, pc |-> pc, email |-> e, seen |-> row[e], code |-> c, plan |-> plan] \in Job
  BY DEF Job
<1>2. job' \in [Workers -> Job \cup {Idle}]
  BY <1>1
<1>3. requests' \in 0..MaxRequests
  OBVIOUS
<1>4. QED
  BY <1>2, <1>3

LEMMA PlansAreNumbers ==
  ASSUME TypeOK, NEW status, NEW e, NEW p
  PROVE  With(status, e, p) \in SUBSET Nat
<1>1. DOMAIN codes = 1..Len(codes) /\ Len(codes) \in Nat
  BY LenProperties DEF TypeOK
<1>2. QED
  BY <1>1 DEF With

LEMMA StepKeepsTypes ==
  ASSUME TypeOK, OwnCode, [Next]_vars
  PROVE  TypeOK'
<1> USE DEF TypeOK
<1>0. SameCodes /\ DOMAIN codes = 1..Len(codes) /\ Len(codes) \in Nat
  BY StepKeepsCodes, LenProperties
<1>1. codes' \in Seq(Code) /\ DOMAIN codes \subseteq DOMAIN codes'
  BY <1>0 DEF SameCodes
<1>2. ASSUME NEW w \in Workers, NEW e \in Emails,
             \/ BeginRegister(w, e)
             \/ BeginReset(w, e)
             \/ \E op \in {"verify", "confirm"}, c \in DOMAIN codes : BeginUse(w, op, e, c)
             \/ BeginComplete(w, e)
             \/ BeginLogin(w, e)
             \/ BeginProfile(w, e)
      PROVE  TypeOK'
  <2>1. row[e] \in Row /\ DOMAIN codes \subseteq Nat /\ {} \in SUBSET Nat /\ 0 \in Nat
    BY <1>0
  <2>2. {"register", "reset", "verify", "confirm", "complete", "login", "profile"} = Ops
    BY DEF Ops
  <2>3. CASE BeginRegister(w, e)
    BY <2>1, <2>2, <2>3, StartTypes DEF BeginRegister
  <2>4. CASE BeginReset(w, e)
    BY <2>1, <2>2, <2>4, StartTypes, PlansAreNumbers DEF BeginReset
  <2>5. CASE \E op \in {"verify", "confirm"}, c \in DOMAIN codes : BeginUse(w, op, e, c)
    BY <2>1, <2>2, <2>5, StartTypes DEF BeginUse
  <2>6. CASE BeginComplete(w, e) \/ BeginLogin(w, e) \/ BeginProfile(w, e)
    BY <2>1, <2>2, <2>6, StartTypes DEF BeginComplete, BeginLogin, BeginProfile
  <2>7. QED
    BY <1>2, <2>3, <2>4, <2>5, <2>6
<1>3. ASSUME NEW w \in Workers, RegisterLock(w)
      PROVE  TypeOK'
  <2>1. job[w] \in Job
    BY <1>3, JobTypes DEF RegisterLock
  <2>2. With({"live", "expired"}, job[w].email, "verification") \in SUBSET Nat
    BY PlansAreNumbers
  <2>3. [job[w] EXCEPT !.pc = "expire",
           !.plan = With({"live", "expired"}, job[w].email, "verification")] \in Job
    BY <2>1, <2>2 DEF Job
  <2>4. job' \in [Workers -> Job \cup {Idle}]
    BY <1>3, <2>3 DEF RegisterLock, End
  <2>5. QED
    BY <1>3, <2>4 DEF RegisterLock
<1>4. ASSUME NEW w \in Workers, ExpireCodes(w)
      PROVE  TypeOK'
  <2>1. job[w] \in Job
    BY <1>4, JobTypes DEF ExpireCodes
  <2>2. [job[w] EXCEPT !.pc = "mail", !.code = Len(codes) + 1,
           !.plan = {i \in job[w].plan : codes[i].status # "used"}] \in Job
    <3>1. ASSUME NEW c \in Nat, NEW plan \in SUBSET Nat
          PROVE  [job[w] EXCEPT !.pc = "mail", !.code = c, !.plan = plan] \in Job
      BY <2>1, <3>1 DEF Job
    <3>2. Len(codes) + 1 \in Nat
      BY <1>0
    <3>3. {i \in job[w].plan : codes[i].status # "used"} \in SUBSET Nat
      BY <2>1 DEF Job
    <3>4. QED
      BY <3>1, <3>2, <3>3
  <2>3. job' \in [Workers -> Job \cup {Idle}]
    BY <1>4, <2>2 DEF ExpireCodes
  <2>4. QED
    BY <1>1, <1>4, <2>3 DEF ExpireCodes
<1>5. ASSUME NEW w \in Workers, SendMail(w)
      PROVE  TypeOK'
  <2>1. job[w].code \in DOMAIN codes
    BY <1>5 DEF SendMail, OwnCode
  <2>2. job' \in [Workers -> Job \cup {Idle}]
    BY <1>5, JobTypes DEF SendMail, Goto
  <2>3. QED
    BY <1>5, <2>1, <2>2 DEF SendMail
<1>6. ASSUME NEW w \in Workers, MailFails(w) \/ Abort(w)
      PROVE  TypeOK'
  BY <1>1, <1>6 DEF MailFails, Abort, Rollback, End
<1>7. ASSUME NEW w \in Workers, CommitCode(w)
      PROVE  TypeOK'
  <2>1. job[w] \in Job
    BY <1>7, JobTypes DEF CommitCode
  <2>2. row' \in [Emails -> Row]
    <3>1. job[w].email \in Emails /\ Registered(row[job[w].email]) \in Row
      BY <2>1, RowTypes DEF Job
    <3>2. QED
      BY <1>7, <3>1 DEF CommitCode
  <2>3. job' \in [Workers -> Job \cup {Idle}]
    BY <1>7 DEF CommitCode, End
  <2>4. QED
    BY <1>1, <1>7, <2>2, <2>3 DEF CommitCode
<1>8. ASSUME NEW w \in Workers, UseCode(w)
      PROVE  TypeOK'
  BY <1>8, JobTypes DEF UseCode, Goto
<1>9. ASSUME NEW w \in Workers, Redeem(w)
      PROVE  TypeOK'
  <2>1. job[w] \in Job
    BY <1>9, JobTypes DEF Redeem
  <2>2. row' \in [Emails -> Row]
    <3>1. /\ job[w].email \in Emails
          /\ Verified(row[job[w].email]) \in Row /\ NewPassword(row[job[w].email]) \in Row
      BY <2>1, RowTypes DEF Job
    <3>2. QED
      BY <1>9, <3>1 DEF Redeem
  <2>3. job' \in [Workers -> Job \cup {Idle}] /\ tokens' \subseteq Emails
    BY <1>9, <2>1 DEF Redeem, End, Job
  <2>4. QED
    BY <1>1, <1>9, <2>2, <2>3 DEF Redeem
<1>10. ASSUME NEW w \in Workers, Save(w)
       PROVE  TypeOK'
  <2>1. job[w] \in Job
    BY <1>10, JobTypes DEF Save
  <2>2. row' \in [Emails -> Row]
    <3>1. /\ job[w].email \in Emails /\ job[w].seen \in Row
          /\ Saved(job[w].op, job[w].seen, row[job[w].email]) \in Row
      BY <2>1, RowTypes DEF Job
    <3>2. QED
      BY <1>10, <3>1 DEF Save
  <2>3. QED
    BY <1>10, <2>2 DEF Save, End
<1>11. ASSUME \E c \in DOMAIN codes : CodeExpires(c)
       PROVE  TypeOK'
  BY <1>1, <1>11 DEF CodeExpires
<1>12. ASSUME \E e \in Emails : TokenExpires(e)
       PROVE  TypeOK'
  BY <1>12 DEF TokenExpires
<1>13. CASE UNCHANGED vars
  BY <1>13 DEF vars
<1>14. QED
  BY <1>2, <1>3, <1>4, <1>5, <1>6, <1>7, <1>8, <1>9, <1>10, <1>11, <1>12, <1>13
     DEF Next, WorkerStep

-----------------------------------------------------------------------------
(* Requests *)

\* What the columns of a request are worth after it moved to another step.
LEMMA MovedJob ==
  ASSUME NEW j \in Job, NEW pc
  PROVE  LET k == [j EXCEPT !.pc = pc]
         IN  k.pc = pc /\ k.op = j.op /\ k.seen = j.seen /\ k.email = j.email
BY DEF Job

\* A worker is free or serves a request that checked what it read, and a step
\* of one worker leaves the others' requests alone.
LEMMA StepKeepsRequests ==
  ASSUME TypeOK, RequestsAreChecked, CompletedIsUsable, [Next]_vars
  PROVE  RequestsAreChecked'
<1> USE DEF TypeOK
<1>0. Flow(Idle) /\ SeenChecked(Idle)
  BY DEF Flow, SeenChecked, Idle, Usable, Absent
<1>1. ASSUME NEW w \in Workers, NEW k, job' = [job EXCEPT ![w] = k], Flow(k), SeenChecked(k)
      PROVE  RequestsAreChecked'
  BY <1>1 DEF RequestsAreChecked
<1>2. ASSUME NEW w \in Workers, End(w)
      PROVE  RequestsAreChecked'
  BY <1>0, <1>1, <1>2 DEF End
<1>3. ASSUME NEW w \in Workers, NEW k, job[w] \in Job, job' = [job EXCEPT ![w] = k],
             k.op = job[w].op, k.seen = job[w].seen, Flow(k)
      PROVE  RequestsAreChecked'
  <2>1. SeenChecked(k)
    BY <1>3 DEF RequestsAreChecked, SeenChecked
  <2>2. QED
    BY <1>1, <1>3, <2>1
<1>4. ASSUME NEW w \in Workers, NEW op \in Ops, NEW pc, NEW e \in Emails, NEW c, NEW plan,
             Start(w, op, pc, e, c, plan),
             /\ pc = "lock" => op = "register"
             /\ pc \in {"expire", "mail", "commit"} => op \in {"register", "reset"}
             /\ pc \in {"use", "redeem"} => op \in {"verify", "confirm"}
             /\ pc = "save" => op \in {"complete", "login", "profile"},
             op = "complete" => row[e].verified,
             op = "profile" => row[e].completed,
             op = "register" => ~row[e].completed
      PROVE  RequestsAreChecked'
  <2> DEFINE k == [op |-> op, pc |-> pc, email |-> e, seen |-> row[e],
                   code |-> c, plan |-> plan]
  <2>1. Flow(k)
    BY <1>4 DEF Flow
  <2>2. Usable(row[e])
    BY DEF CompletedIsUsable, Usable
  <2>3. SeenChecked(k)
    BY <1>4, <2>2 DEF SeenChecked
  <2>4. job' = [job EXCEPT ![w] = k]
    BY <1>4 DEF Start
  <2>5. QED
    BY <1>1, <2>1, <2>3, <2>4
<1>5. ASSUME NEW w \in Workers, NEW e \in Emails,
             \/ BeginRegister(w, e)
             \/ BeginReset(w, e)
             \/ \E op \in {"verify", "confirm"}, c \in DOMAIN codes : BeginUse(w, op, e, c)
             \/ BeginComplete(w, e)
             \/ BeginLogin(w, e)
             \/ BeginProfile(w, e)
      PROVE  RequestsAreChecked'
  <2>1. {"register", "reset", "verify", "confirm", "complete", "login", "profile"} = Ops
    BY DEF Ops
  <2>2. CASE BeginRegister(w, e)
    BY <1>4, <2>1, <2>2 DEF BeginRegister
  <2>3. CASE BeginReset(w, e)
    BY <1>4, <2>1, <2>3 DEF BeginReset
  <2>4. ASSUME NEW op \in {"verify", "confirm"}, NEW c \in DOMAIN codes, BeginUse(w, op, e, c)
        PROVE  RequestsAreChecked'
    <3>1. Start(w, op, "use", e, c, {}) /\ op \in Ops
      BY <2>1, <2>4 DEF BeginUse
    <3>2. QED
      BY <1>4, <3>1
  <2>5. CASE BeginComplete(w, e)
    BY <1>4, <2>1, <2>5 DEF BeginComplete
  <2>6. CASE BeginLogin(w, e)
    BY <1>4, <2>1, <2>6 DEF BeginLogin
  <2>7. CASE BeginProfile(w, e)
    <3>1. row[e].completed
      BY <2>7 DEF BeginProfile, CompletedIsUsable
    <3>2. QED
      BY <1>4, <2>1, <2>7, <3>1 DEF BeginProfile
  <2>8. QED
    BY <1>5, <2>2, <2>3, <2>4, <2>5, <2>6, <2>7
<1>6. ASSUME NEW w \in Workers, RegisterLock(w)
      PROVE  RequestsAreChecked'
  <2>1. job[w] \in Job /\ job[w].pc = "lock"
    BY <1>6, JobTypes DEF RegisterLock
  <2> DEFINE k == [job[w] EXCEPT !.pc = "expire",
                     !.plan = With({"live", "expired"}, job[w].email, "verification")]
  <2>2. k.op = job[w].op /\ k.seen = job[w].seen /\ k.pc = "expire"
    BY <2>1 DEF Job
  <2>3. Flow(k)
    BY <2>1, <2>2 DEF RequestsAreChecked, Flow
  <2>4. End(w) \/ job' = [job EXCEPT ![w] = k]
    BY <1>6 DEF RegisterLock
  <2>5. QED
    BY <1>2, <1>3, <2>1, <2>2, <2>3, <2>4
<1>7. ASSUME NEW w \in Workers, ExpireCodes(w)
      PROVE  RequestsAreChecked'
  <2>1. job[w] \in Job /\ job[w].pc = "expire"
    BY <1>7, JobTypes DEF ExpireCodes
  <2> DEFINE k == [job[w] EXCEPT !.pc = "mail", !.code = Len(codes) + 1,
                     !.plan = {i \in job[w].plan : codes[i].status # "used"}]
  <2>2. k.op = job[w].op /\ k.seen = job[w].seen /\ k.pc = "mail"
    BY <2>1 DEF Job
  <2>3. Flow(k)
    BY <2>1, <2>2 DEF RequestsAreChecked, Flow
  <2>4. job' = [job EXCEPT ![w] = k]
    BY <1>7 DEF ExpireCodes
  <2>5. QED
    BY <1>3, <2>1, <2>2, <2>3, <2>4
<1>8. ASSUME NEW w \in Workers, NEW pc, job[w] \in Job, Goto(w, pc),
             <<job[w].pc, pc>> \in {<<"mail", "commit">>, <<"use", "redeem">>}
      PROVE  RequestsAreChecked'
  <2> DEFINE k == [job[w] EXCEPT !.pc = pc]
  <2>1. k.pc = pc /\ k.op = job[w].op /\ k.seen = job[w].seen
    BY <1>8, MovedJob
  <2>2. Flow(k)
    BY <1>8, <2>1 DEF RequestsAreChecked, Flow
  <2>3. QED
    BY <1>3, <1>8, <2>1, <2>2 DEF Goto
<1>9. ASSUME NEW w \in Workers, SendMail(w) \/ UseCode(w)
      PROVE  RequestsAreChecked'
  <2>1. job[w] \in Job
    BY <1>9, JobTypes DEF SendMail, UseCode
  <2>2. QED
    BY <1>8, <1>9, <2>1 DEF SendMail, UseCode
<1>10. ASSUME NEW w \in Workers, WorkerStep(w)
       PROVE  RequestsAreChecked'
  <2>1. CASE MailFails(w) \/ CommitCode(w) \/ Redeem(w) \/ Save(w) \/ Abort(w)
    BY <1>2, <2>1 DEF MailFails, CommitCode, Redeem, Save, Abort, Rollback
  <2>2. QED
    BY <1>5, <1>6, <1>7, <1>9, <1>10, <2>1 DEF WorkerStep
<1>11. CASE UNCHANGED job
  BY <1>11 DEF RequestsAreChecked
<1>12. QED
  BY <1>10, <1>11 DEF Next, vars, CodeExpires, TokenExpires

-----------------------------------------------------------------------------
(* The codes that requests hold *)

\* A request keeps the code it inserted.
LEMMA StepKeepsOwnCode ==
  ASSUME TypeOK, OwnCode, [Next]_vars
  PROVE  OwnCode'
<1> USE DEF TypeOK
<1>0. SameCodes /\ Len(codes) \in Nat /\ DOMAIN codes = 1..Len(codes)
  BY StepKeepsCodes, LenProperties
<1>1. ASSUME NEW w \in Workers, NEW k, job' = [job EXCEPT ![w] = k],
             k.pc \in {"mail", "commit"} =>
               /\ k.code \in DOMAIN codes'
               /\ codes'[k.code].email = k.email
               /\ codes'[k.code].purpose = PurposeOf(k.op)
      PROVE  OwnCode'
  BY <1>0, <1>1 DEF OwnCode, SameCodes
<1>2. ASSUME NEW w \in Workers, End(w)
      PROVE  OwnCode'
  BY <1>1, <1>2 DEF End, Idle
<1>3. ASSUME NEW w \in Workers, NEW op, NEW pc \in {"lock", "expire", "use", "save"}, NEW e,
             NEW c, NEW plan, Start(w, op, pc, e, c, plan)
      PROVE  OwnCode'
  BY <1>1, <1>3 DEF Start
<1>4. ASSUME NEW w \in Workers, NEW e \in Emails,
             \/ BeginRegister(w, e)
             \/ BeginReset(w, e)
             \/ \E op \in {"verify", "confirm"}, c \in DOMAIN codes : BeginUse(w, op, e, c)
             \/ BeginComplete(w, e)
             \/ BeginLogin(w, e)
             \/ BeginProfile(w, e)
      PROVE  OwnCode'
  BY <1>3, <1>4 DEF BeginRegister, BeginReset, BeginUse, BeginComplete, BeginLogin, BeginProfile
<1>5. ASSUME NEW w \in Workers, RegisterLock(w)
      PROVE  OwnCode'
  <2>1. job[w] \in Job
    BY <1>5, JobTypes DEF RegisterLock
  <2> DEFINE k == [job[w] EXCEPT !.pc = "expire",
                     !.plan = With({"live", "expired"}, job[w].email, "verification")]
  <2>2. k.pc = "expire"
    BY <2>1 DEF Job
  <2>3. End(w) \/ job' = [job EXCEPT ![w] = k]
    BY <1>5 DEF RegisterLock
  <2>4. QED
    BY <1>1, <1>2, <2>2, <2>3
<1>6. ASSUME NEW w \in Workers, ExpireCodes(w)
      PROVE  OwnCode'
  <2>1. job[w] \in Job
    BY <1>6, JobTypes DEF ExpireCodes
  <2> DEFINE k == [job[w] EXCEPT !.pc = "mail", !.code = Len(codes) + 1,
                     !.plan = {i \in job[w].plan : codes[i].status # "used"}]
             c == [email |-> job[w].email, purpose |-> PurposeOf(job[w].op), status |-> "draft"]
  <2>2. k.code = Len(codes) + 1 /\ k.email = job[w].email /\ k.op = job[w].op
    BY <2>1 DEF Job
  <2>3. codes' = Append(codes, c) /\ job' = [job EXCEPT ![w] = k]
    BY <1>6 DEF ExpireCodes
  <2>4. c \in Code
    BY <2>1 DEF Code, Purposes, PurposeOf, Statuses, Job
  <2>5. Len(codes) + 1 \in DOMAIN codes' /\ codes'[Len(codes) + 1] = c
    BY <1>0, <2>3, <2>4
  <2>6. c.email = job[w].email /\ c.purpose = PurposeOf(job[w].op)
    OBVIOUS
  <2> HIDE DEF k, c
  <2>7. /\ k.code \in DOMAIN codes'
        /\ codes'[k.code].email = k.email /\ codes'[k.code].purpose = PurposeOf(k.op)
    BY <2>2, <2>5, <2>6
  <2>8. QED
    BY <1>1, <2>3, <2>7
<1>7. ASSUME NEW w \in Workers, NEW pc, job[w] \in Job, Goto(w, pc),
             <<job[w].pc, pc>> \in {<<"mail", "commit">>, <<"use", "redeem">>}
      PROVE  OwnCode'
  <2> DEFINE k == [job[w] EXCEPT !.pc = pc]
  <2>1. k.pc = pc /\ k.op = job[w].op /\ k.email = job[w].email /\ k.code = job[w].code
    BY <1>7 DEF Job
  <2>2. QED
    BY <1>0, <1>1, <1>7, <2>1 DEF Goto, OwnCode, SameCodes
<1>8. ASSUME NEW w \in Workers, SendMail(w) \/ UseCode(w)
      PROVE  OwnCode'
  <2>1. job[w] \in Job
    BY <1>8, JobTypes DEF SendMail, UseCode
  <2>2. QED
    BY <1>7, <1>8, <2>1 DEF SendMail, UseCode
<1>9. ASSUME NEW w \in Workers, WorkerStep(w)
      PROVE  OwnCode'
  <2>1. CASE MailFails(w) \/ CommitCode(w) \/ Redeem(w) \/ Save(w) \/ Abort(w)
    BY <1>2, <2>1 DEF MailFails, CommitCode, Redeem, Save, Abort, Rollback
  <2>2. QED
    BY <1>4, <1>5, <1>6, <1>8, <1>9, <2>1 DEF WorkerStep
<1>10. CASE UNCHANGED job
  BY <1>0, <1>10 DEF OwnCode, SameCodes
<1>11. QED
  BY <1>9, <1>10 DEF Next, vars, CodeExpires, TokenExpires

\* Only the commit of a registration makes a verification code valid, and it
\* invalidates all the others of its address.
LEMMA LiveCodes ==
  ASSUME TypeOK, RequestsAreChecked, OwnCode, LockedOut, [Next]_vars, NEW e \in Emails
  PROVE  \/ Live(e)' \subseteq Live(e)
         \/ \E w \in Workers : /\ CommitCode(w) /\ job[w].op = "register"
                               /\ job[w].email = e
                               /\ Live(e)' \subseteq {job[w].code}
<1> USE DEF TypeOK
<1>0. SameCodes /\ Len(codes) \in Nat /\ DOMAIN codes = 1..Len(codes)
  BY StepKeepsCodes, LenProperties
<1>1. ASSUME DOMAIN codes' = DOMAIN codes,
             \A i \in DOMAIN codes : codes'[i].status = "live" => codes[i].status = "live"
      PROVE  Live(e)' \subseteq Live(e)
  BY <1>0, <1>1 DEF Live, With, SameCodes
<1>2. ASSUME UNCHANGED codes
      PROVE  Live(e)' \subseteq Live(e)
  BY <1>1, <1>2
<1>3. ASSUME NEW w \in Workers, Rollback(w)
      PROVE  Live(e)' \subseteq Live(e)
  <2>1. \A i \in DOMAIN codes : codes[i] \in Code
    BY <1>0
  <2>2. \A i \in DOMAIN codes :
          codes'[i] = codes[i] \/ codes'[i] = [codes[i] EXCEPT !.status = "void"]
    BY <1>3 DEF Rollback
  <2>3. \A i \in DOMAIN codes : codes'[i].status = "live" => codes[i].status = "live"
    BY <2>1, <2>2 DEF Code
  <2>4. DOMAIN codes' = DOMAIN codes
    BY <1>3 DEF Rollback
  <2>5. QED
    BY <1>1, <2>3, <2>4
<1>4. ASSUME NEW w \in Workers, ExpireCodes(w)
      PROVE  Live(e)' \subseteq Live(e)
  <2>1. job[w] \in Job
    BY <1>4, JobTypes DEF ExpireCodes
  <2> DEFINE c == [email |-> job[w].email, purpose |-> PurposeOf(job[w].op), status |-> "draft"]
  <2>2. c \in Code
    BY <2>1 DEF Code, Purposes, PurposeOf, Statuses, Job
  <2>3. codes' = Append(codes, c)
    BY <1>4 DEF ExpireCodes
  <2>4. /\ DOMAIN codes' = 1..(Len(codes) + 1)
        /\ codes'[Len(codes) + 1].status = "draft"
        /\ \A i \in DOMAIN codes : codes'[i] = codes[i]
    BY <1>0, <2>2, <2>3
  <2>5. QED
    BY <1>0, <2>4 DEF Live, With
<1>5. ASSUME NEW w \in Workers, CommitCode(w)
      PROVE  \/ Live(e)' \subseteq Live(e)
             \/ /\ job[w].op = "register" /\ job[w].email = e
                /\ Live(e)' \subseteq {job[w].code}
  <2>1. job[w] \in Job /\ job[w].pc = "commit"
    BY <1>5, JobTypes DEF CommitCode
  <2>2. /\ job[w].code \in DOMAIN codes
        /\ codes[job[w].code].email = job[w].email
        /\ codes[job[w].code].purpose = PurposeOf(job[w].op)
    BY <2>1 DEF OwnCode
  <2>3. job[w].op \in {"register", "reset"}
    BY <2>1 DEF RequestsAreChecked, Flow
  <2>4. DOMAIN codes' = DOMAIN codes
    BY <1>5 DEF CommitCode
  <2>5. \A i \in DOMAIN codes : codes[i] \in Code
    BY <1>0
  <2>6. \A i \in DOMAIN codes : i # job[w].code =>
          /\ codes'[i].status = "live" => codes[i].status = "live"
          /\ i \in job[w].plan => codes'[i].status # "live"
    BY <1>5, <2>5 DEF CommitCode, Code
  <2>7. CASE job[w].op = "register" /\ job[w].email = e
    <3>1. Live(e) \subseteq job[w].plan
      BY <2>1, <2>7 DEF LockedOut, Holds
    <3>2. \A i \in Live(e)' : i = job[w].code
      <4>1. SUFFICES ASSUME NEW i \in DOMAIN codes, i \in Live(e)', i # job[w].code
                     PROVE  FALSE
        BY <2>4 DEF Live, With
      <4>2. codes'[i].status = "live" /\ codes[i].email = e /\ codes[i].purpose = "verification"
        BY <1>0, <4>1 DEF Live, With, SameCodes
      <4>3. i \in Live(e)
        BY <2>6, <4>1, <4>2 DEF Live, With
      <4>4. QED
        BY <2>6, <3>1, <4>1, <4>2, <4>3
    <3>3. QED
      BY <2>7, <3>2
  <2>8. CASE ~(job[w].op = "register" /\ job[w].email = e)
    <3>1. job[w].code \notin Live(e)'
      BY <1>0, <2>2, <2>3, <2>8 DEF Live, With, SameCodes, PurposeOf
    <3>2. Live(e)' \subseteq Live(e)
      BY <1>0, <2>4, <2>6, <3>1 DEF Live, With, SameCodes
    <3>3. QED
      BY <3>2
  <2>9. QED
    BY <2>7, <2>8
<1>6. ASSUME NEW i \in DOMAIN codes, NEW st \in {"used", "expired"},
             codes' = [codes EXCEPT ![i].status = st]
      PROVE  Live(e)' \subseteq Live(e)
  <2>1. \A k \in DOMAIN codes : codes[k] \in Code
    BY <1>0
  <2>2. \A k \in DOMAIN codes : codes'[k].status = "live" => codes[k].status = "live"
    BY <1>6, <2>1 DEF Code
  <2>3. QED
    BY <1>1, <1>6, <2>2
<1>7. ASSUME NEW w \in Workers, Redeem(w)
      PROVE  Live(e)' \subseteq Live(e)
  <2>1. codes' = [codes EXCEPT ![job[w].code].status = "used"]
    BY <1>7 DEF Redeem
  <2>2. CASE job[w].code \in DOMAIN codes
    BY <1>6, <2>1, <2>2
  <2>3. CASE job[w].code \notin DOMAIN codes
    BY <1>2, <2>1, <2>3
  <2>4. QED
    BY <2>2, <2>3
<1>8. ASSUME NEW w \in Workers, WorkerStep(w)
      PROVE  Live(e)' \subseteq Live(e) \/ CommitCode(w)
  <2>1. CASE \E a \in Emails :
               \/ BeginRegister(w, a)
               \/ BeginReset(w, a)
               \/ \E op \in {"verify", "confirm"}, c \in DOMAIN codes : BeginUse(w, op, a, c)
               \/ BeginComplete(w, a)
               \/ BeginLogin(w, a)
               \/ BeginProfile(w, a)
    BY <1>2, <2>1 DEF BeginRegister, BeginReset, BeginUse, BeginComplete, BeginLogin,
                      BeginProfile, Start
  <2>2. CASE RegisterLock(w) \/ SendMail(w) \/ UseCode(w) \/ Save(w)
    BY <1>2, <2>2 DEF RegisterLock, SendMail, UseCode, Save
  <2>3. CASE MailFails(w) \/ Abort(w)
    BY <1>3, <2>3 DEF MailFails, Abort
  <2>4. QED
    BY <1>4, <1>7, <1>8, <2>1, <2>2, <2>3 DEF WorkerStep
<1>9. CASE \E c \in DOMAIN codes : CodeExpires(c)
  BY <1>6, <1>9 DEF CodeExpires
<1>10. CASE (\E a \in Emails : TokenExpires(a)) \/ UNCHANGED vars
  BY <1>2, <1>10 DEF TokenExpires, vars
<1>11. QED
  BY <1>5, <1>8, <1>9, <1>10 DEF Next

\* The registration that holds an account stays alone until it commits.
LEMMA StepKeepsLockedOut ==
  ASSUME TypeOK, RequestsAreChecked, OwnCode, LockedOut, [Next]_vars
  PROVE  LockedOut'
<1> USE DEF TypeOK
<1>1. ASSUME NEW v \in Workers, Holds(v), Holds(v)', NEW e \in Emails, e = job[v].email
      PROVE  Live(e)' \subseteq Live(e)
  <2>1. ASSUME NEW w \in Workers, CommitCode(w), job[w].op = "register", job[w].email = e
        PROVE  FALSE
    <3>1. Holds(w)
      BY <2>1 DEF Holds, CommitCode
    <3>2. w = v
      BY <1>1, <2>1, <3>1 DEF LockedOut
    <3>3. job'[v] = Idle
      BY <2>1, <3>2 DEF CommitCode, End
    <3>4. QED
      BY <1>1, <3>3 DEF Holds, Idle
  <2>2. QED
    BY <2>1, LiveCodes
<1>2. ASSUME NEW w \in Workers, NEW k, job' = [job EXCEPT ![w] = k],
             k.op = "register" /\ k.pc \in {"expire", "mail", "commit"} =>
                Holds(w) /\ k.email = job[w].email /\ Live(k.email) \subseteq k.plan
      PROVE  LockedOut'
  <2>1. ASSUME NEW v \in Workers, Holds(v)'
        PROVE  /\ Holds(v) /\ job'[v].email = job[v].email
               /\ Live(job[v].email)' \subseteq job'[v].plan
    <3>1. Holds(v) /\ job'[v].email = job[v].email /\ Live(job'[v].email) \subseteq job'[v].plan
      <4>1. CASE v = w
        BY <1>2, <2>1, <4>1 DEF Holds
      <4>2. CASE v # w
        BY <1>2, <2>1, <4>2 DEF Holds, LockedOut
      <4>3. QED
        BY <4>1, <4>2
    <3>2. job'[v].email \in Emails
      BY <3>1 DEF Holds, Job, Idle
    <3>3. \A e \in Emails : e = job[v].email => Live(e)' \subseteq Live(e)
      BY <1>1, <2>1, <3>1
    <3>4. QED
      BY <3>1, <3>2, <3>3 DEF Live, With
  <2>2. QED
    BY <2>1 DEF LockedOut
<1>3. ASSUME NEW w \in Workers, End(w)
      PROVE  LockedOut'
  BY <1>2, <1>3 DEF End, Idle
<1>4. ASSUME NEW w \in Workers, RegisterLock(w), ~End(w)
      PROVE  LockedOut'
  <2>1. job[w] \in Job
    BY <1>4, JobTypes DEF RegisterLock
  <2> DEFINE e == job[w].email
             k == [job[w] EXCEPT !.pc = "expire",
                     !.plan = With({"live", "expired"}, e, "verification")]
  <2>2. k.email = e /\ k.plan = With({"live", "expired"}, e, "verification")
    BY <2>1 DEF Job
  <2>3. job' = [job EXCEPT ![w] = k] /\ codes' = codes /\ ~UserHeld(e)
    BY <1>4 DEF RegisterLock
  <2> HIDE DEF k
  <2>4. \A v \in Workers \ {w} : job'[v] = job[v]
    BY <2>3
  <2>5. \A v \in Workers \ {w} : Holds(v)' => Holds(v) /\ job'[v].email # e
    BY <2>3, <2>4 DEF Holds, UserHeld
  <2>6. job'[w].email = e /\ Live(e)' \subseteq job'[w].plan
    BY <2>2, <2>3 DEF Live, With
  <2>7. \A v \in Workers \ {w} : Holds(v)' => Live(job[v].email)' \subseteq job'[v].plan
    BY <2>3, <2>4, <2>5 DEF LockedOut, Live, With
  <2>8. QED
    BY <2>4, <2>5, <2>6, <2>7 DEF LockedOut
<1>5. ASSUME NEW w \in Workers, ExpireCodes(w)
      PROVE  LockedOut'
  <2>1. job[w] \in Job /\ job[w].pc = "expire"
    BY <1>5, JobTypes DEF ExpireCodes
  <2> DEFINE k == [job[w] EXCEPT !.pc = "mail", !.code = Len(codes) + 1,
                     !.plan = {i \in job[w].plan : codes[i].status # "used"}]
  <2>2. /\ k.op = job[w].op /\ k.email = job[w].email
        /\ k.plan = {i \in job[w].plan : codes[i].status # "used"}
    BY <2>1 DEF Job
  <2>3. job' = [job EXCEPT ![w] = k]
    BY <1>5 DEF ExpireCodes
  <2> HIDE DEF k
  <2>4. ASSUME k.op = "register"
        PROVE  Holds(w) /\ Live(k.email) \subseteq k.plan
    <3>1. Holds(w)
      BY <2>1, <2>2, <2>4 DEF Holds
    <3>2. Live(k.email) \subseteq job[w].plan
      BY <2>2, <3>1 DEF LockedOut
    <3>3. QED
      BY <2>2, <3>1, <3>2 DEF Live, With
  <2>5. QED
    BY <1>2, <2>2, <2>3, <2>4
<1>6. ASSUME NEW w \in Workers, NEW pc, job[w] \in Job, Goto(w, pc),
             <<job[w].pc, pc>> \in {<<"mail", "commit">>, <<"use", "redeem">>}
      PROVE  LockedOut'
  <2> DEFINE k == [job[w] EXCEPT !.pc = pc]
  <2>1. /\ k.pc = pc /\ k.op = job[w].op /\ k.email = job[w].email
        /\ k.plan = job[w].plan
    BY <1>6 DEF Job
  <2>2. job' = [job EXCEPT ![w] = k]
    BY <1>6 DEF Goto
  <2> HIDE DEF k
  <2>3. ASSUME k.op = "register", k.pc \in {"expire", "mail", "commit"}
        PROVE  Holds(w) /\ Live(k.email) \subseteq k.plan
    <3>1. Holds(w)
      BY <1>6, <2>1, <2>3 DEF Holds
    <3>2. QED
      BY <2>1, <3>1 DEF LockedOut
  <2>4. QED
    BY <1>2, <2>1, <2>2, <2>3
<1>7. ASSUME NEW w \in Workers, SendMail(w) \/ UseCode(w)
      PROVE  LockedOut'
  <2>1. job[w] \in Job
    BY <1>7, JobTypes DEF SendMail, UseCode
  <2>2. QED
    BY <1>6, <1>7, <2>1 DEF SendMail, UseCode
<1>8. ASSUME NEW w \in Workers, NEW op \in Ops, NEW pc \in {"lock", "expire", "use", "save"},
             NEW e, NEW c, NEW plan, Start(w, op, pc, e, c, plan),
             op = "register" => pc = "lock"
      PROVE  LockedOut'
  BY <1>2, <1>8 DEF Start
<1>9. ASSUME NEW w \in Workers, NEW e \in Emails,
             \/ BeginRegister(w, e)
             \/ BeginReset(w, e)
             \/ \E op \in {"verify", "confirm"}, c \in DOMAIN codes : BeginUse(w, op, e, c)
             \/ BeginComplete(w, e)
             \/ BeginLogin(w, e)
             \/ BeginProfile(w, e)
      PROVE  LockedOut'
  <2>1. {"register", "reset", "verify", "confirm", "complete", "login", "profile"} = Ops
    BY DEF Ops
  <2>2. QED
    BY <1>8, <1>9, <2>1 DEF BeginRegister, BeginReset, BeginUse, BeginComplete, BeginLogin,
                            BeginProfile
<1>10. ASSUME NEW w \in Workers, WorkerStep(w)
       PROVE  LockedOut'
  <2>1. CASE MailFails(w) \/ CommitCode(w) \/ Redeem(w) \/ Save(w) \/ Abort(w)
    BY <1>3, <2>1 DEF MailFails, CommitCode, Redeem, Save, Abort, Rollback
  <2>2. QED
    BY <1>3, <1>4, <1>5, <1>7, <1>9, <1>10, <2>1 DEF WorkerStep
<1>11. CASE UNCHANGED job
  <2>1. \A v \in Workers : Holds(v)' => Holds(v) /\ job[v].email \in Emails
    BY <1>11 DEF Holds, Job, Idle
  <2>2. \A v \in Workers, e \in Emails :
          Holds(v)' /\ e = job[v].email => Live(e)' \subseteq job[v].plan
    BY <1>1, <2>1 DEF LockedOut
  <2>3. \A v \in Workers : Holds(v)' => Live(job[v].email)' \subseteq job'[v].plan
    BY <1>11, <2>1, <2>2 DEF Live, With
  <2>4. QED
    BY <1>11, <2>1, <2>3 DEF LockedOut
<1>12. QED
  BY <1>10, <1>11 DEF Next, vars, CodeExpires, TokenExpires

-----------------------------------------------------------------------------
(* The properties *)

LEMMA StepKeepsUsable ==
  ASSUME TypeOK, RequestsAreChecked, CompletedIsUsable, [Next]_vars
  PROVE  CompletedIsUsable'
<1> USE DEF TypeOK
<1>0. (\A e \in Emails : Usable(row'[e])) => CompletedIsUsable'
  BY DEF CompletedIsUsable, Usable
<1>1. \A e \in Emails : row[e] \in Row /\ Usable(row[e])
  BY DEF CompletedIsUsable, Usable
<1>2. CASE UNCHANGED row
  BY <1>0, <1>1, <1>2
<1>3. ASSUME NEW e, NEW r, Usable(r), row' = [row EXCEPT ![e] = r]
      PROVE  CompletedIsUsable'
  BY <1>0, <1>1, <1>3
<1>4. ASSUME NEW w \in Workers, CommitCode(w)
      PROVE  CompletedIsUsable'
  <2>1. job[w].email \in Emails
    BY <1>4, JobTypes DEF CommitCode, Job
  <2>2. Usable(Registered(row[job[w].email]))
    BY <1>1, <2>1 DEF Usable, Registered, Row
  <2>3. QED
    BY <1>2, <1>3, <1>4, <2>2 DEF CommitCode
<1>5. ASSUME NEW w \in Workers, Redeem(w)
      PROVE  CompletedIsUsable'
  <2>1. job[w].email \in Emails
    BY <1>5, JobTypes DEF Redeem, Job
  <2>2. Usable(Verified(row[job[w].email])) /\ Usable(NewPassword(row[job[w].email]))
    BY <1>1, <2>1 DEF Usable, Verified, NewPassword, Row
  <2>3. QED
    BY <1>3, <1>5, <2>2 DEF Redeem
<1>6. ASSUME NEW w \in Workers, Save(w)
      PROVE  CompletedIsUsable'
  <2>1. job[w] \in Job
    BY <1>6, JobTypes DEF Save
  <2>2. job[w].email \in Emails /\ job[w].seen \in Row /\ Usable(job[w].seen)
    BY <2>1 DEF Job, RequestsAreChecked, SeenChecked
  <2>3. job[w].op = "complete" => job[w].seen.verified
    BY DEF RequestsAreChecked, SeenChecked
  <2>4. Usable(Saved(job[w].op, job[w].seen, row[job[w].email]))
    BY <1>1, <2>2, <2>3 DEF Saved, Usable, Row
  <2>5. QED
    BY <1>3, <1>6, <2>4 DEF Save
<1>7. QED
  BY <1>2, <1>4, <1>5, <1>6
     DEF Next, WorkerStep, BeginRegister, BeginReset, BeginUse, BeginComplete, BeginLogin,
         BeginProfile, Start, RegisterLock, ExpireCodes, SendMail, MailFails, UseCode, Abort,
         CodeExpires, TokenExpires, vars

LEMMA StepKeepsOneCode ==
  ASSUME TypeOK, RequestsAreChecked, OwnCode, LockedOut, OneVerificationCode, [Next]_vars
  PROVE  OneVerificationCode'
<1>1. SUFFICES ASSUME NEW e \in Emails
               PROVE  \A c, d \in Live(e)' : c = d
  BY DEF OneVerificationCode, Live
<1>2. \A c, d \in Live(e) : c = d
  BY DEF OneVerificationCode, Live
<1>3. QED
  BY <1>2, LiveCodes

LEMMA InitHolds == Init => IInv
<1> SUFFICES ASSUME Init PROVE IInv
  OBVIOUS
<1>1. TypeOK
  BY MaxRequestsAssumption DEF Init, TypeOK, Absent, Row, MaxRequestsAssumption
<1>2. RequestsAreChecked
  BY DEF Init, RequestsAreChecked, Flow, SeenChecked, Usable, Idle, Absent
<1>3. OwnCode /\ LockedOut
  BY DEF Init, OwnCode, LockedOut, Holds, Idle
<1>4. CompletedIsUsable
  BY DEF Init, CompletedIsUsable, Absent
<1>5. OneVerificationCode
  BY DEF Init, OneVerificationCode, With
<1>6. QED
  BY <1>1, <1>2, <1>3, <1>4, <1>5 DEF IInv

\* The invariant is inductive: it holds at the start and no step of a request,
\* no expiry and no abort breaks it.
THEOREM Inductive == Spec => []IInv
<1>1. IInv /\ [Next]_vars => IInv'
  BY StepKeepsTypes, StepKeepsRequests, StepKeepsOwnCode, StepKeepsLockedOut,
     StepKeepsUsable, StepKeepsOneCode DEF IInv
<1>2. QED
  BY <1>1, InitHolds, PTL DEF Spec

\* The accounts, the codes and the requests keep their shape, and a mail only
\* ever carries a code that was inserted.
THEOREM TypeCorrect == Spec => []TypeOK
<1>1. IInv => TypeOK
  BY DEF IInv
<1>2. QED
  BY <1>1, Inductive, PTL

\* An account whose registration is completed is active and verified, however
\* many registrations, completions, resets and profile requests write back
\* what they read before.
THEOREM CompletedAccountsAreUsable == Spec => []CompletedIsUsable
<1>1. IInv => CompletedIsUsable
  BY DEF IInv
<1>2. QED
  BY <1>1, Inductive, PTL

\* At most one code verifies an address, however many registrations of it run
\* at once and wherever they fail: the first write of a registration locks the
\* account until the code is committed.
THEOREM OneCodeVerifies == Spec => []OneVerificationCode
<1>1. IInv => OneVerificationCode
  BY DEF IInv
<1>2. QED
  BY <1>1, Inductive, PTL

\* Only a registration that read the account before it was completed undoes a
\* completed account, and only a profile request restores an older password.
THEOREM AccountsMoveForward == Spec => AccountMovesForward
<1> DEFINE Step(e) ==
      /\ row[e].completed /\ ~row'[e].completed =>
           \E w \in Workers : /\ job[w].op = "register" /\ job[w].email = e
                              /\ ~job[w].seen.completed
                              /\ job'[w] = Idle
      /\ row'[e].password < row[e].password =>
           \E w \in Workers : /\ job[w].op = "profile" /\ job[w].email = e
                              /\ job[w].seen.password = row'[e].password
                              /\ job'[w] = Idle
<1>1. ASSUME IInv, [Next]_vars, NEW e \in Emails
      PROVE  Step(e)
  <2> USE <1>1 DEF IInv, TypeOK
  <2>0. row[e] \in Row /\ row[e].password \in Nat
    BY DEF Row
  <2>1. CASE UNCHANGED row
    BY <2>0, <2>1
  <2>2. ASSUME NEW w \in Workers, CommitCode(w)
        PROVE  Step(e)
    <3>1. job[w] \in Job /\ job'[w] = Idle
      BY <2>2, JobTypes DEF CommitCode, End
    <3>2. job[w].op = "register" => ~job[w].seen.completed
      BY DEF RequestsAreChecked, SeenChecked
    <3>3. Registered(row[e]).password = row[e].password
      BY <2>0 DEF Registered, Row
    <3>4. QED
      BY <2>0, <2>2, <3>1, <3>2, <3>3 DEF CommitCode
  <2>3. ASSUME NEW w \in Workers, Redeem(w)
        PROVE  Step(e)
    <3>1. /\ Verified(row[e]).password = row[e].password
          /\ Verified(row[e]).completed = row[e].completed
          /\ NewPassword(row[e]).password = row[e].password + 1
          /\ NewPassword(row[e]).completed = row[e].completed
      BY <2>0 DEF Verified, NewPassword, Row
    <3>2. QED
      BY <2>0, <2>3, <3>1 DEF Redeem
  <2>4. ASSUME NEW w \in Workers, Save(w)
        PROVE  Step(e)
    <3>1. job[w] \in Job /\ job'[w] = Idle
      BY <2>4, JobTypes DEF Save, End
    <3>2. job[w].op = "profile" => job[w].seen.completed
      BY DEF RequestsAreChecked, SeenChecked
    <3>3. job[w].seen \in Row
      BY <3>1 DEF Job
    <3> DEFINE r == Saved(job[w].op, job[w].seen, row[e])
    <3>4. /\ r.completed \/ r.completed = row[e].completed
          /\ r.password < row[e].password =>
               job[w].op = "profile" /\ r.password = job[w].seen.password
      BY <2>0, <3>2, <3>3 DEF Saved, Row
    <3>5. row'[e] = row[e] \/ (job[w].email = e /\ row'[e] = r)
      BY <2>4 DEF Save
    <3>6. QED
      BY <2>0, <3>1, <3>4, <3>5
  <2>5. QED
    BY <1>1, <2>1, <2>2, <2>3, <2>4
       DEF Next, WorkerStep, BeginRegister, BeginReset, BeginUse, BeginComplete, BeginLogin,
           BeginProfile, Start, RegisterLock, ExpireCodes, SendMail, MailFails, UseCode, Abort,
           CodeExpires, TokenExpires, vars
<1>2. IInv /\ [Next]_vars => [\A e \in Emails : Step(e)]_vars
  BY <1>1
<1>3. QED
  BY <1>2, Inductive, PTL DEF Spec, AccountMovesForward
=============================================================================
