------------------------------ MODULE Accounts ------------------------------
(***************************************************************************)
(* Accounts: apps/users/views.py over the tables users and                 *)
(* user_one_time_codes.  A registration mails a code, the code verifies    *)
(* the address, a signup token completes the account with a password; a    *)
(* reset mails another code that sets a new password.                      *)
(*                                                                         *)
(* The requests run in concurrent workers over PostgreSQL (READ            *)
(* COMMITTED).  A statement outside a transaction is a step; inside one,   *)
(* what is written is seen by the others at the commit and the rows        *)
(* written stay locked until then, so a second writer waits.  Two          *)
(* transactions that wait for each other are noticed by the server, which  *)
(* aborts one.  A worker may die at any step (a hanging SMTP server makes  *)
(* gunicorn kill it), which rolls its transaction back.                    *)
(*                                                                         *)
(* Data: a password is a version, the profile fields are left out, a code  *)
(* is its position in order of creation, and the client types only codes   *)
(* that were mailed.  A request refused at its first read writes nothing   *)
(* (or the attempts counter, which nothing reads) and is no step.          *)
(***************************************************************************)
EXTENDS Naturals, Sequences

CONSTANTS Workers,      \* the threads that serve requests
          Emails,       \* the addresses, one account each
          MaxRequests   \* bound: requests started

ASSUME MaxRequestsAssumption == MaxRequests \in Nat

VARIABLES row,          \* users: the account of each address
          codes,        \* user_one_time_codes, in order of creation
          mailed,       \* the codes that reached the mailbox
          tokens,       \* the addresses with a signup token that is not expired
          job,          \* the request each worker serves
          requests      \* how many requests started

vars == <<row, codes, mailed, tokens, job, requests>>

NoEmail == "no email"
Absent == [exists |-> FALSE, active |-> FALSE, verified |-> FALSE,
           completed |-> FALSE, password |-> 0]
Fresh == [Absent EXCEPT !.exists = TRUE]
Purposes == {"verification", "reset"}
Statuses == {"draft", "live", "used", "expired", "void"}

Row == [exists : BOOLEAN, active : BOOLEAN, verified : BOOLEAN,
        completed : BOOLEAN, password : Nat]
Code == [email : Emails, purpose : Purposes, status : Statuses]

Idle == [op |-> "idle", pc |-> "done", email |-> NoEmail, seen |-> Absent,
         code |-> 0, plan |-> {}]
Ops == {"register", "reset", "verify", "confirm", "complete", "login", "profile"}
Job == [op : Ops, pc : {"lock", "expire", "mail", "commit", "use", "redeem", "save"},
        email : Emails, seen : Row, code : Nat, plan : SUBSET Nat]

Init == /\ row = [e \in Emails |-> Absent]
        /\ codes = << >>
        /\ mailed = {}
        /\ tokens = {}
        /\ job = [w \in Workers |-> Idle]
        /\ requests = 0

-----------------------------------------------------------------------------
(* Codes, locks and requests *)

PurposeOf(op) == IF op \in {"register", "verify"} THEN "verification" ELSE "reset"

With(status, e, p) ==
  {i \in DOMAIN codes : /\ codes[i].email = e
                        /\ codes[i].purpose = p
                        /\ codes[i].status \in status}

\* _get_active_code: the newest code that is unused and not expired.
IsActiveCode(c, e, p) ==
  /\ c \in With({"live"}, e, p)
  /\ \A i \in With({"live"}, e, p) : i <= c

\* A registration locks the account with its first write and the codes
\* with its second, a redemption the code first and then the account.
UserHeld(e) == \E w \in Workers : /\ job[w].op = "register"
                                  /\ job[w].pc \in {"expire", "mail", "commit"}
                                  /\ job[w].email = e
CodeHeld(c) == \E w \in Workers :
                  \/ job[w].pc \in {"mail", "commit"} /\ c \in job[w].plan
                  \/ job[w].pc = "redeem" /\ c = job[w].code

Start(w, op, pc, e, c, plan) ==
  /\ job[w] = Idle
  /\ requests < MaxRequests
  /\ requests' = requests + 1
  /\ job' = [job EXCEPT ![w] = [op |-> op, pc |-> pc, email |-> e, seen |-> row[e],
                                code |-> c, plan |-> plan]]
  /\ UNCHANGED <<row, codes, mailed, tokens>>

Goto(w, pc) == job' = [job EXCEPT ![w].pc = pc]
End(w) == job' = [job EXCEPT ![w] = Idle]

\* The transaction of w is undone: the code it wrote was never there.
Rollback(w) ==
  /\ codes' = [i \in DOMAIN codes |->
                 IF job[w].pc \in {"mail", "commit"} /\ i = job[w].code
                 THEN [codes[i] EXCEPT !.status = "void"] ELSE codes[i]]
  /\ End(w)

-----------------------------------------------------------------------------
(* Requests that mail a code: RegisterAPIView, PasswordResetAPIView *)

BeginRegister(w, e) ==
  /\ ~row[e].completed
  /\ Start(w, "register", "lock", e, 0, {})

\* Mutant of RegisterLock: the account is not saved first, so it is not locked.
RegisterLockNoSave(w) ==
  /\ job[w].pc = "lock"
  /\ job' = [job EXCEPT ![w].pc = "expire",
               ![w].plan = With({"live", "expired"}, job[w].email, "verification")]
  /\ UNCHANGED <<row, codes, mailed, tokens, requests>>

\* The first write: the account is reset, or created; when another request
\* has created it since it was read, the insert fails.
RegisterLock(w) ==
  LET e == job[w].email
  IN  /\ job[w].pc = "lock" /\ ~UserHeld(e)
      /\ IF row[e].exists /\ ~job[w].seen.exists
         THEN End(w)
         ELSE job' = [job EXCEPT ![w].pc = "expire",
                        ![w].plan = With({"live", "expired"}, e, "verification")]
      /\ UNCHANGED <<row, codes, mailed, tokens, requests>>

\* The rows the update of the codes will find are those of its snapshot.
BeginReset(w, e) ==
  /\ row[e].exists
  /\ Start(w, "reset", "expire", e, 0, With({"live", "expired"}, e, "reset"))

\* The update waits for the codes that are locked and skips those used
\* meanwhile; then the new code is inserted.
ExpireCodes(w) ==
  LET j == job[w]
  IN  /\ j.pc = "expire"
      /\ \A i \in j.plan : ~CodeHeld(i)
      /\ codes' = Append(codes, [email |-> j.email, purpose |-> PurposeOf(j.op),
                                 status |-> "draft"])
      /\ job' = [job EXCEPT ![w].pc = "mail", ![w].code = Len(codes) + 1,
                   ![w].plan = {i \in j.plan : codes[i].status # "used"}]
      /\ UNCHANGED <<row, mailed, tokens, requests>>

SendMail(w) ==
  /\ job[w].pc = "mail"
  /\ mailed' = mailed \cup {job[w].code}
  /\ Goto(w, "commit")
  /\ UNCHANGED <<row, codes, tokens, requests>>

MailFails(w) ==
  /\ job[w].pc = "mail"
  /\ Rollback(w)
  /\ UNCHANGED <<row, mailed, tokens, requests>>

\* Mutant of Registered: registration_completed is not among the columns.
RegisteredTwoColumns(r) == [r EXCEPT !.exists = TRUE, !.active = FALSE, !.verified = FALSE]

\* What the registration writes to the account: three columns.
Registered(r) == [r EXCEPT !.exists = TRUE, !.active = FALSE, !.verified = FALSE,
                           !.completed = FALSE]

CommitCode(w) ==
  LET j == job[w]
  IN  /\ j.pc = "commit"
      /\ row' = IF j.op = "register" THEN [row EXCEPT ![j.email] = Registered(@)] ELSE row
      /\ codes' = [i \in DOMAIN codes |->
                     CASE i = j.code -> [codes[i] EXCEPT !.status = "live"]
                       [] i \in j.plan -> [codes[i] EXCEPT !.status = "expired"]
                       [] OTHER -> codes[i]]
      /\ End(w)
      /\ UNCHANGED <<mailed, tokens, requests>>

-----------------------------------------------------------------------------
(* Requests that use a code: VerifyEmailAPIView, PasswordResetConfirmAPIView *)

BeginUse(w, op, e, c) ==
  /\ c \in mailed
  /\ IsActiveCode(c, e, PurposeOf(op))
  /\ Start(w, op, "use", e, c, {})

\* The code is saved used by its id; that it is still unused is not asked.
UseCode(w) ==
  /\ job[w].pc = "use" /\ ~CodeHeld(job[w].code)
  /\ Goto(w, "redeem")
  /\ UNCHANGED <<row, codes, mailed, tokens, requests>>

Verified(r) == [r EXCEPT !.verified = TRUE]
NewPassword(r) == [r EXCEPT !.password = @ + 1]

\* The second write, of one column of the account, and the commit.
Redeem(w) ==
  LET j == job[w]
  IN  /\ j.pc = "redeem" /\ ~UserHeld(j.email)
      /\ codes' = [codes EXCEPT ![j.code].status = "used"]
      /\ row' = [row EXCEPT ![j.email] =
                   IF j.op = "verify" THEN Verified(@) ELSE NewPassword(@)]
      /\ tokens' = IF j.op = "verify" THEN tokens \cup {j.email} ELSE tokens
      /\ End(w)
      /\ UNCHANGED <<mailed, requests>>

-----------------------------------------------------------------------------
(* Requests that save the account they read *)

\* SetPasswordAPIView
BeginComplete(w, e) ==
  /\ e \in tokens
  /\ row[e].verified /\ ~row[e].completed
  /\ Start(w, "complete", "save", e, 0, {})

\* LoginAPIView: the password was right for the row that was read.
BeginLogin(w, e) ==
  /\ row[e].verified /\ row[e].completed /\ row[e].active
  /\ Start(w, "login", "save", e, 0, {})

\* MeAPIView: the authentication reads the account, which must be active.
BeginProfile(w, e) ==
  /\ row[e].active
  /\ Start(w, "profile", "save", e, 0, {})

\* Mutant of Saved: a login saves the whole account instead of last_login.
SavedByLogin(op, seen, r) ==
  CASE op = "complete" -> [seen EXCEPT !.active = TRUE, !.completed = TRUE,
                                       !.password = r.password + 1]
    [] OTHER -> seen

\* What each saves over the current row r: user.save() writes every column
\* as it was read, update_fields only the columns it names.
Saved(op, seen, r) ==
  CASE op = "complete" -> [seen EXCEPT !.active = TRUE, !.completed = TRUE,
                                       !.password = r.password + 1]
    [] op = "profile" -> seen
    [] OTHER -> r

Save(w) ==
  LET e == job[w].email
  IN  /\ job[w].pc = "save" /\ ~UserHeld(e)
      /\ row' = [row EXCEPT ![e] = Saved(job[w].op, job[w].seen, @)]
      /\ End(w)
      /\ UNCHANGED <<codes, mailed, tokens, requests>>

-----------------------------------------------------------------------------
(* Time, deadlocks and crashes *)

CodeExpires(c) ==
  /\ codes[c].status = "live"
  /\ codes' = [codes EXCEPT ![c].status = "expired"]
  /\ UNCHANGED <<row, mailed, tokens, job, requests>>

TokenExpires(e) ==
  /\ e \in tokens
  /\ tokens' = tokens \ {e}
  /\ UNCHANGED <<row, codes, mailed, job, requests>>

\* The worker dies, or the server aborts one of two transactions that wait
\* for each other: a registration holds the account and waits for the code
\* that a verification holds while it waits for the account.
Abort(w) ==
  /\ job[w] # Idle
  /\ Rollback(w)
  /\ UNCHANGED <<row, mailed, tokens, requests>>

WorkerStep(w) ==
  \/ \E e \in Emails : \/ BeginRegister(w, e)
                       \/ BeginReset(w, e)
                       \/ \E op \in {"verify", "confirm"}, c \in DOMAIN codes :
                             BeginUse(w, op, e, c)
                       \/ BeginComplete(w, e)
                       \/ BeginLogin(w, e)
                       \/ BeginProfile(w, e)
  \/ RegisterLock(w)
  \/ ExpireCodes(w)
  \/ SendMail(w)
  \/ MailFails(w)
  \/ CommitCode(w)
  \/ UseCode(w)
  \/ Redeem(w)
  \/ Save(w)
  \/ Abort(w)

Next == \/ \E w \in Workers : WorkerStep(w)
        \/ \E c \in DOMAIN codes : CodeExpires(c)
        \/ \E e \in Emails : TokenExpires(e)

Spec == Init /\ [][Next]_vars

-----------------------------------------------------------------------------
(* Properties *)

\* The tables hold rows and codes, the workers requests.
TypeOK == /\ row \in [Emails -> Row]
          /\ codes \in Seq(Code)
          /\ mailed \subseteq DOMAIN codes
          /\ tokens \subseteq Emails
          /\ job \in [Workers -> Job \cup {Idle}]
          /\ requests \in 0..MaxRequests

\* An account whose registration is completed can log in: it is active and
\* verified, and only a completed account is active.  The three columns are
\* written together, whatever stale copy a request writes.
CompletedIsUsable ==
  \A e \in Emails : /\ row[e].completed => row[e].active /\ row[e].verified
                    /\ row[e].active => row[e].completed

\* Of the codes that verify an address at most one is valid: a registration
\* invalidates the earlier ones, and of two at the same time the second sees
\* the code of the first because it waits for the row of the account.
OneVerificationCode ==
  \A e \in Emails : \A c, d \in With({"live"}, e, "verification") : c = d

\* A completed account is undone only by a registration that read it before
\* it was completed, and a password gives way to an older one only when a
\* profile request that read the older one saves every column: no login,
\* verification or reset writes back what it read.
AccountMovesForward ==
  [][\A e \in Emails :
       /\ row[e].completed /\ ~row'[e].completed =>
            \E w \in Workers : /\ job[w].op = "register" /\ job[w].email = e
                               /\ ~job[w].seen.completed
                               /\ job'[w] = Idle
       /\ row'[e].password < row[e].password =>
            \E w \in Workers : /\ job[w].op = "profile" /\ job[w].email = e
                               /\ job[w].seen.password = row'[e].password
                               /\ job'[w] = Idle]_vars
=============================================================================
