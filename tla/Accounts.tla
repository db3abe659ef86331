------------------------------ MODULE Accounts ------------------------------
(***************************************************************************)
(* Registrations, businesses, their logins and their deletion.             *)
(*                                                                         *)
(* A registration is decided under an advisory lock on its e-mail          *)
(* (0004_registration.sql).  Whoever writes for a business or opens a      *)
(* session first shares the lock of the business's row, and the deletion   *)
(* holds that row alone from before it removes anything                    *)
(* (0007_private_business_purge.sql).  Nothing else keeps a job, a manager *)
(* or a login that began earlier from writing after the deletion.          *)
(***************************************************************************)
EXTENDS Integers, FiniteSets

CONSTANTS
  Requests,       \* requests and jobs, each with a transaction of its own
  Registrations,  \* ids of registrations; a business takes the id of its own
  Emails,
  NOBODY          \* the business of an administrator; the e-mail of an anonymous identity

ASSUME AccountsAssumption == NOBODY \notin Registrations \cup Emails

VARIABLES
  pending,     \* pending_registrations
  verdicts,    \* decisions that were reported as made
  status,      \* businesses
  identities,  \* auth_identities
  sessions,    \* web_sessions
  rows,        \* businesses with rows in the tables a deletion purges; they count as one table
  audit,       \* audit_events, append-only: the last event of each business
  work         \* transactions under way
people == <<identities, sessions>>
accounts == <<pending, verdicts, status, people, rows, audit, work>>

Pending == [id : Registrations, email : Emails]
Verdict == [id : Registrations, approved : BOOLEAN]
Status == {"none", "active", "suspended", "deleted"}
Identity == [owner : Registrations \cup {NOBODY}, email : Emails \cup {NOBODY}, active : BOOLEAN]
WebSession == [business : Registrations, revoked : BOOLEAN]
Event == {"none", "other", "business.deleted"}
Kind == {"submit", "approve", "reject", "delete", "write", "login"}
Transaction ==
  [by : Requests, kind : Kind, id : Registrations, email : Emails \cup {NOBODY}, locked : BOOLEAN]

AccountsTypeOK ==
  /\ pending \subseteq Pending /\ verdicts \subseteq Verdict
  /\ status \in [Registrations -> Status]
  /\ identities \subseteq Identity /\ sessions \subseteq WebSession
  /\ rows \subseteq Registrations /\ audit \in [Registrations -> Event]
  /\ work \subseteq Transaction

AccountsInit ==
  /\ pending = {} /\ verdicts = {} /\ status = [b \in Registrations |-> "none"]
  /\ audit = [b \in Registrations |-> "none"]
  /\ identities = {} /\ sessions = {} /\ rows = {} /\ work = {}

-----------------------------------------------------------------------------
Begins(q, kind, id, email, locked) ==
  /\ \A t \in work : t.by # q
  /\ work' = work \cup {[by |-> q, kind |-> kind, id |-> id, email |-> email, locked |-> locked]}
Locks(t) == t \in work /\ ~t.locked /\ work' = (work \ {t}) \cup {[t EXCEPT !.locked = TRUE]}
Concludes(t) == t \in work /\ t.locked /\ work' = work \ {t}

\* appendAudit and append_runtime_audit, and the row that delete_business inserts itself.
Audits(b, event) == audit' = [audit EXCEPT ![b] = event]

Taken(email) == \E i \in identities : i.email = email

\* A transaction fails, loses its connection, or is the victim of a deadlock.
Abandon(t) == t \in work /\ work' = work \ {t} /\ UNCHANGED <<pending, verdicts, status, people, rows, audit>>

-----------------------------------------------------------------------------
\* pg_advisory_xact_lock on the e-mail of a registration.
EmailFree(email) ==
  \A t \in work : t.locked /\ t.email = email => t.kind \notin {"submit", "approve", "reject"}

\* gen_random_uuid()
Fresh(id) ==
  /\ status[id] = "none" /\ \A p \in pending : p.id # id
  /\ \A v \in verdicts : v.id # id
  /\ \A t \in work : t.id # id

\* submit_registration: the lock, then the look at the identities.
SubmitRegistration(q, id, email) ==
  /\ Fresh(id) /\ EmailFree(email) /\ ~Taken(email)
  /\ Begins(q, "submit", id, email, TRUE)
  /\ UNCHANGED <<pending, verdicts, status, people, rows, audit>>

\* A second registration of a pending e-mail is none.
CommitSubmit(t) ==
  /\ t.kind = "submit" /\ Concludes(t)
  /\ pending' = IF \E p \in pending : p.email = t.email THEN pending
                ELSE pending \cup {[id |-> t.id, email |-> t.email]}
  /\ UNCHANGED <<verdicts, status, people, rows, audit>>

\* decide_registration reads the e-mail, waits for its lock, and reads the row again.
ReadRegistration(q, p, kind) ==
  /\ p \in pending /\ kind \in {"approve", "reject"} /\ Begins(q, kind, p.id, p.email, FALSE)
  /\ UNCHANGED <<pending, verdicts, status, people, rows, audit>>

LockRegistration(t) ==
  /\ t.kind \in {"approve", "reject"} /\ EmailFree(t.email) /\ Locks(t)
  /\ UNCHANGED <<pending, verdicts, status, people, rows, audit>>

(* Mutant: the row that was read before the lock is decided. *)
FoundBefore(t) == TRUE
Found(t) == \E p \in pending : p.id = t.id

Reports(t) == verdicts' = verdicts \cup {[id |-> t.id, approved |-> t.kind = "approve"]}
Removes(t) == pending' = {p \in pending : p.id # t.id}

Approve(t) ==
  /\ t.kind = "approve" /\ Concludes(t) /\ Found(t)
  /\ status[t.id] = "none" /\ ~Taken(t.email)
  /\ status' = [status EXCEPT ![t.id] = "active"]
  /\ identities' = identities \cup {[owner |-> t.id, email |-> t.email, active |-> TRUE]}
  /\ Reports(t) /\ Removes(t) /\ UNCHANGED <<sessions, rows, audit>>

Reject(t) ==
  /\ t.kind = "reject" /\ Concludes(t) /\ Found(t)
  /\ Reports(t) /\ Removes(t) /\ UNCHANGED <<status, people, rows, audit>>

\* Somebody else decided it meanwhile: false, and 404.
NotFound(t) ==
  /\ t.kind \in {"approve", "reject"} /\ Concludes(t) /\ ~Found(t)
  /\ UNCHANGED <<pending, verdicts, status, people, rows, audit>>

\* provisionAdmin: the identity of the one administrator, without the lock of its e-mail.
Provision(email) ==
  /\ ~Taken(email) /\ \A i \in identities : i.owner # NOBODY
  /\ identities' = identities \cup {[owner |-> NOBODY, email |-> email, active |-> TRUE]}
  /\ UNCHANGED <<pending, verdicts, status, sessions, rows, audit, work>>

-----------------------------------------------------------------------------
\* The lock of a business's row: shared by writers and logins, exclusive for a deletion.
(* Mutant: the guard reads deleted_at without FOR SHARE. *)
NotSharing(b) == {}
Sharing(b) == {t \in work : t.locked /\ t.id = b /\ t.kind \in {"write", "login"}}
Deleting(b) == {t \in work : t.locked /\ t.id = b /\ t.kind = "delete"}

\* guard_live_business_write and guard_live_business_session.
Guard(b) == status[b] # "none" /\ status[b] # "deleted" /\ Deleting(b) = {}

\* A write of the API, of a job or of a manager, whatever it began from.  Some append an event to
\* the audit with it, and a login that fails appends one and writes nothing else.
Write(q, b) ==
  /\ Guard(b) /\ Begins(q, "write", b, NOBODY, TRUE)
  /\ UNCHANGED <<pending, verdicts, status, people, rows, audit>>
CommitWrite(t) ==
  /\ t.kind = "write" /\ Concludes(t)
  /\ rows' \in {rows, rows \cup {t.id}} /\ (Audits(t.id, "other") \/ UNCHANGED audit)
  /\ UNCHANGED <<pending, verdicts, status, people>>

\* login reads the identity, verifies the password, and only then opens the session.
Login(q, i) ==
  /\ i \in identities /\ i.active /\ i.owner # NOBODY /\ status[i.owner] # "suspended"
  /\ Begins(q, "login", i.owner, NOBODY, FALSE)
  /\ UNCHANGED <<pending, verdicts, status, people, rows, audit>>
GuardLogin(t) ==
  /\ t.kind = "login" /\ Guard(t.id) /\ Locks(t)
  /\ UNCHANGED <<pending, verdicts, status, people, rows, audit>>
CommitLogin(t) ==
  /\ t.kind = "login" /\ Concludes(t)
  /\ sessions' = sessions \cup {[business |-> t.id, revoked |-> FALSE]} /\ Audits(t.id, "other")
  /\ UNCHANGED <<pending, verdicts, status, identities, rows>>

RevokeSession(s) ==
  /\ s \in sessions /\ Guard(s.business)
  /\ sessions' = (sessions \ {s}) \cup {[s EXCEPT !.revoked = TRUE]} /\ Audits(s.business, "other")
  /\ UNCHANGED <<pending, verdicts, status, identities, rows, work>>

-----------------------------------------------------------------------------
\* The administrator suspends or reactivates: one transaction on a row that nobody else holds.
SetStatus(b, s) ==
  /\ status[b] \in {"active", "suspended"} /\ Sharing(b) \cup Deleting(b) = {}
  /\ status' = [status EXCEPT ![b] = s]
  /\ identities' = {IF i.owner = b THEN [i EXCEPT !.active = (s = "active")] ELSE i : i \in identities}
  /\ sessions' = IF s = "active" THEN sessions
                 ELSE {IF e.business = b THEN [e EXCEPT !.revoked = TRUE] ELSE e : e \in sessions}
  /\ rows' = rows \cup {b} /\ Audits(b, "other")
  /\ UNCHANGED <<pending, verdicts, work>>

\* delete_business: the row is locked first.
Delete(q, b) ==
  /\ status[b] \in {"active", "suspended"} /\ Sharing(b) \cup Deleting(b) = {}
  /\ Begins(q, "delete", b, NOBODY, TRUE)
  /\ UNCHANGED <<pending, verdicts, status, people, rows, audit>>

\* An identity that a receipt of another business names is kept without a name.
Anonymous(i) == [i EXCEPT !.email = NOBODY, !.active = FALSE]

\* purge_business_data_private, which leaves the audit; its last event, and the tombstone.
CommitDelete(t, named) ==
  /\ t.kind = "delete" /\ Concludes(t)
  /\ status' = [status EXCEPT ![t.id] = "deleted"] /\ rows' = rows \ {t.id}
  /\ Audits(t.id, "business.deleted")
  /\ sessions' = {e \in sessions : e.business # t.id}
  /\ identities' = {i \in identities : i.owner # t.id}
                     \cup {Anonymous(i) : i \in {j \in identities : named /\ j.owner = t.id}}
  /\ UNCHANGED <<pending, verdicts>>

AccountsNext ==
  \/ \E q \in Requests, id \in Registrations, email \in Emails : SubmitRegistration(q, id, email)
  \/ \E q \in Requests, p \in pending, kind \in {"approve", "reject"} : ReadRegistration(q, p, kind)
  \/ \E q \in Requests, i \in identities : Login(q, i)
  \/ \E q \in Requests, b \in Registrations : Write(q, b) \/ Delete(q, b)
  \/ \E email \in Emails : Provision(email)
  \/ \E e \in sessions : RevokeSession(e)
  \/ \E b \in Registrations, s \in {"active", "suspended"} : SetStatus(b, s)
  \/ \E t \in work :
       \/ CommitSubmit(t) \/ LockRegistration(t) \/ Approve(t) \/ Reject(t) \/ NotFound(t)
       \/ CommitWrite(t) \/ GuardLogin(t) \/ CommitLogin(t) \/ Abandon(t)
       \/ \E named \in BOOLEAN : CommitDelete(t, named)

AccountsSpec == AccountsInit /\ [][AccountsNext]_accounts

-----------------------------------------------------------------------------
(* Of a deleted business there is no row in a table that the deletion       *)
(* purges, no session, and at most an identity that is inactive and has no  *)
(* e-mail.  Its audit is kept, as is its name, and ends with the deletion:  *)
(* nothing of the business is recorded after it.  It stays so although      *)
(* writes, jobs and logins that began before the deletion, the failed       *)
(* logins that only write to the audit among them, commit after it began    *)
(* (delete_business, guard_live_business_write, routes/auth.ts).            *)
NothingOutlivesDeletion ==
  \A b \in Registrations : status[b] = "deleted" =>
    /\ b \notin rows /\ \A e \in sessions : e.business # b
    /\ \A i \in identities : i.owner = b => ~i.active /\ i.email = NOBODY
    /\ audit[b] = "business.deleted"

(* A registration is decided once, and what was reported is what happened:  *)
(* there is a business exactly for each one reported as approved, whoever   *)
(* decided at the same time.  And an e-mail is never both waiting for a     *)
(* decision and the login of a business, which would be a registration that *)
(* nobody can approve (decide_registration, submit_registration).           *)
DecisionsHold ==
  /\ \A v, w \in verdicts : v.id = w.id => v = w
  /\ \A p \in pending, v \in verdicts : p.id # v.id
  /\ \A b \in Registrations : status[b] # "none" <=> [id |-> b, approved |-> TRUE] \in verdicts
OneClaimPerEmail == \A p \in pending, i \in identities : p.email = i.email => i.owner = NOBODY
RegistrationsHold == DecisionsHold /\ OneClaimPerEmail
=============================================================================
