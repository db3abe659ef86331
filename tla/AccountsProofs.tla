--------------------------- MODULE AccountsProofs ---------------------------
(***************************************************************************)
(* Proofs about Accounts: a deletion is final, and a registration is       *)
(* decided once.  Both rest on who may hold a lock at the same time.  At   *)
(* the end, Throttle: its table is bounded by the windows of one horizon.  *)
(***************************************************************************)
EXTENDS Accounts, Throttle, FiniteSetTheorems, TLAPS

(* A submission has an e-mail, which is what makes a pending registration   *)
(* of the type.                                                             *)
SubmitsName == \A t \in work : t.kind = "submit" => t.email \in Emails
TypesInv == AccountsTypeOK /\ SubmitsName

(* Nobody shares the lock of a row that a deletion holds, and who holds the *)
(* lock of a row has seen a business that is not deleted.                   *)
RowExcludes ==
  \A t, u \in work :
    t.locked /\ u.locked /\ t.id = u.id /\ t.kind = "delete" /\ u.kind \in {"delete", "write", "login"} => t = u
HoldersAreLive ==
  \A t \in work : t.locked /\ t.kind \in {"delete", "write", "login"} => status[t.id] \in {"active", "suspended"}
DeletionInv == TypesInv /\ RowExcludes /\ HoldersAreLive /\ NothingOutlivesDeletion

(* One transaction of a registration holds the lock of its e-mail; what a   *)
(* decision read is still what is pending, if anything is; and what is      *)
(* being submitted is known to nobody else.                                 *)
Registering == {"submit", "approve", "reject"}
EmailExcludes ==
  \A t, u \in work :
    t.locked /\ u.locked /\ t.kind \in Registering /\ u.kind \in Registering /\ t.email = u.email => t = u
PendingIsOne == \A p, q \in pending : p.id = q.id \/ p.email = q.email => p = q
ReadsArePending == \A t \in work, p \in pending : t.kind \in {"approve", "reject"} /\ t.id = p.id => t.email = p.email
SubmitsAreNew ==
  \A t \in work : t.kind = "submit" =>
    /\ t.locked
    /\ \A p \in pending : p.id # t.id
    /\ \A v \in verdicts : v.id # t.id
    /\ \A u \in work : u.kind \in Registering /\ u.id = t.id => u = t
    /\ \A i \in identities : i.email = t.email => i.owner = NOBODY
RegistrationInv ==
  EmailExcludes /\ PendingIsOne /\ ReadsArePending /\ SubmitsAreNew /\ RegistrationsHold

USE DEF accounts, people

-----------------------------------------------------------------------------
(* A transaction that begins is one more: with its lock, or still without.  *)
LEMMA BeginsLocked ==
  ASSUME NEW q \in Requests, NEW kind \in Kind, NEW id \in Registrations,
         NEW email \in Emails \cup {NOBODY}, AccountsTypeOK, Begins(q, kind, id, email, TRUE)
  PROVE  /\ work' \subseteq Transaction
         /\ \A u \in work' : u \in work \/ (/\ u.kind = kind /\ u.id = id
                                            /\ u.email = email /\ u.locked)
<1> DEFINE new == [by |-> q, kind |-> kind, id |-> id, email |-> email, locked |-> TRUE]
<1>1. new \in Transaction
  BY Zenon DEF Transaction
<1>2. new.kind = kind /\ new.id = id /\ new.email = email /\ new.locked
  BY Zenon
<1>3. work' = work \cup {new}
  BY DEF Begins
<1> HIDE DEF new
<1> QED
  BY <1>1, <1>2, <1>3 DEF AccountsTypeOK

LEMMA BeginsUnlocked ==
  ASSUME NEW q \in Requests, NEW kind \in Kind, NEW id \in Registrations,
         NEW email \in Emails \cup {NOBODY}, AccountsTypeOK, Begins(q, kind, id, email, FALSE)
  PROVE  /\ work' \subseteq Transaction
         /\ \A u \in work' : u \in work \/ (/\ u.kind = kind /\ u.id = id
                                            /\ u.email = email /\ ~u.locked)
<1> DEFINE new == [by |-> q, kind |-> kind, id |-> id, email |-> email, locked |-> FALSE]
<1>1. new \in Transaction
  BY Zenon DEF Transaction
<1>2. new.kind = kind /\ new.id = id /\ new.email = email /\ ~new.locked
  BY Zenon
<1>3. work' = work \cup {new}
  BY DEF Begins
<1> HIDE DEF new
<1> QED
  BY <1>1, <1>2, <1>3 DEF AccountsTypeOK

(* The identity that is provisioned, and the session that is opened.        *)
LEMMA NewIdentity ==
  ASSUME NEW o \in Registrations \cup {NOBODY}, NEW email \in Emails
  PROVE  /\ [owner |-> o, email |-> email, active |-> TRUE] \in Identity
         /\ [owner |-> o, email |-> email, active |-> TRUE].owner = o
         /\ [owner |-> o, email |-> email, active |-> TRUE].email = email
BY Zenon DEF Identity

LEMMA NewSession ==
  ASSUME NEW b \in Registrations
  PROVE  /\ [business |-> b, revoked |-> FALSE] \in WebSession
         /\ [business |-> b, revoked |-> FALSE].business = b
BY Zenon DEF WebSession

(* A decision that is reported is one more, of its transaction's id.        *)
LEMMA ReportsOne ==
  ASSUME NEW t \in work, AccountsTypeOK, Reports(t)
  PROVE  /\ verdicts' \subseteq Verdict
         /\ \A v \in verdicts' : v \in verdicts \/ (v.id = t.id /\ (v.approved <=> t.kind = "approve"))
<1> DEFINE new == [id |-> t.id, approved |-> t.kind = "approve"]
<1>1. new \in Verdict
  <2>1. t.id \in Registrations
    BY DEF AccountsTypeOK, Transaction
  <2>2. (t.kind = "approve") \in BOOLEAN
    OBVIOUS
  <2> QED
    BY <2>1, <2>2, Zenon DEF Verdict
<1>2. new.id = t.id /\ (new.approved <=> t.kind = "approve")
  BY Zenon
<1>3. verdicts' = verdicts \cup {new}
  BY DEF Reports
<1> HIDE DEF new
<1> QED
  BY <1>1, <1>2, <1>3 DEF AccountsTypeOK

(* An event that is appended is the last of its business, and of no other.  *)
LEMMA AuditsOne ==
  ASSUME NEW b \in Registrations, NEW event \in Event, AccountsTypeOK, Audits(b, event)
  PROVE  /\ audit' \in [Registrations -> Event]
         /\ \A c \in Registrations : audit'[c] = IF c = b THEN event ELSE audit[c]
BY DEF AccountsTypeOK, Audits

(* A lock that is granted changes a transaction in nothing else.            *)
LEMMA LocksOne ==
  ASSUME NEW t \in work, AccountsTypeOK, Locks(t)
  PROVE  /\ work' \subseteq Transaction
         /\ \A u \in work' : u \in work \/ (/\ u.kind = t.kind /\ u.id = t.id
                                            /\ u.email = t.email /\ u.by = t.by /\ u.locked)
BY DEF AccountsTypeOK, Locks, Transaction

(* What an administrator does to a business's logins leaves their e-mails.  *)
LEMMA StatusKeepsNames ==
  ASSUME NEW b \in Registrations, NEW s \in {"active", "suspended"}, AccountsTypeOK, SetStatus(b, s)
  PROVE  /\ identities' \subseteq Identity /\ sessions' \subseteq WebSession
         /\ \A i \in identities' : \E j \in identities :
              /\ i.owner = j.owner /\ i.email = j.email /\ (i.owner # b => i = j)
         /\ \A e \in sessions' : \E o \in sessions : e.business = o.business
<1>1. \A i \in identities' : \E j \in identities :
        i \in Identity /\ i.owner = j.owner /\ i.email = j.email /\ (i.owner # b => i = j)
  BY DEF SetStatus, AccountsTypeOK, Identity
<1>2. \A e \in sessions' : \E o \in sessions : e \in WebSession /\ e.business = o.business
  BY DEF SetStatus, AccountsTypeOK, WebSession
<1> QED
  BY <1>1, <1>2

(* A deletion leaves of other businesses what there was, of its own nothing *)
(* that is active or named.                                                 *)
LEMMA DeletionLeaves ==
  ASSUME NEW t \in work, NEW named \in BOOLEAN, AccountsTypeOK, CommitDelete(t, named)
  PROVE  /\ identities' \subseteq Identity
         /\ \A i \in identities' :
              \/ i \in identities /\ i.owner # t.id
              \/ i.owner = t.id /\ ~i.active /\ i.email = NOBODY
BY DEF CommitDelete, Anonymous, AccountsTypeOK, Identity

-----------------------------------------------------------------------------
LEMMA TypesStep == TypesInv /\ [AccountsNext]_accounts => TypesInv'
<1> SUFFICES ASSUME TypesInv, [AccountsNext]_accounts PROVE TypesInv'
  OBVIOUS
<1> USE AccountsAssumption DEF AccountsTypeOK, TypesInv, SubmitsName
<1>1. ASSUME NEW q \in Requests, NEW id \in Registrations, NEW email \in Emails,
             SubmitRegistration(q, id, email)
      PROVE  TypesInv'
  <2>1. Begins(q, "submit", id, email, TRUE) /\ UNCHANGED <<pending, verdicts, status, people, rows, audit>>
    BY <1>1 DEF SubmitRegistration
  <2>2. "submit" \in Kind
    BY DEF Kind
  <2>3. email \in Emails \cup {NOBODY}
    OBVIOUS
  <2>4. /\ work' \subseteq Transaction
        /\ \A u \in work' : u \in work \/ u.email = email
    BY <2>1, <2>2, <2>3, BeginsLocked
  <2> QED
    BY <2>1, <2>4
<1>2. ASSUME NEW q \in Requests, NEW p \in pending, NEW kind \in {"approve", "reject"},
             ReadRegistration(q, p, kind)
      PROVE  TypesInv'
  <2>1. p.id \in Registrations /\ p.email \in Emails \cup {NOBODY} /\ kind \in Kind
    BY DEF Pending, Kind
  <2>2. Begins(q, kind, p.id, p.email, FALSE) /\ UNCHANGED <<pending, verdicts, status, people, rows, audit>>
    BY <1>2 DEF ReadRegistration
  <2>3. kind # "submit"
    OBVIOUS
  <2>4. /\ work' \subseteq Transaction
        /\ \A u \in work' : u \in work \/ u.kind = kind
    BY <2>1, <2>2, BeginsUnlocked
  <2> QED
    BY <2>2, <2>3, <2>4
<1>3. ASSUME NEW q \in Requests, NEW i \in identities, Login(q, i) PROVE TypesInv'
  <2>1. i.owner \in Registrations
    BY <1>3 DEF Login, Identity
  <2> QED
    BY <1>3, <2>1, BeginsUnlocked DEF Login, Kind
<1>4. ASSUME NEW q \in Requests, NEW b \in Registrations, Write(q, b) PROVE TypesInv'
  <2>1. Begins(q, "write", b, NOBODY, TRUE) /\ UNCHANGED <<pending, verdicts, status, people, rows, audit>>
    BY <1>4 DEF Write
  <2>2. "write" \in Kind
    BY DEF Kind
  <2> QED
    BY <2>1, <2>2, BeginsLocked
<1>5. ASSUME NEW q \in Requests, NEW b \in Registrations, Delete(q, b) PROVE TypesInv'
  <2>1. Begins(q, "delete", b, NOBODY, TRUE) /\ UNCHANGED <<pending, verdicts, status, people, rows, audit>>
    BY <1>5 DEF Delete
  <2>2. "delete" \in Kind
    BY DEF Kind
  <2> QED
    BY <2>1, <2>2, BeginsLocked
<1>6. ASSUME NEW email \in Emails, Provision(email) PROVE TypesInv'
  <2> DEFINE new == [owner |-> NOBODY, email |-> email, active |-> TRUE]
  <2>1. identities' = identities \cup {new} /\ UNCHANGED <<pending, verdicts, status, sessions, rows, audit, work>>
    BY <1>6 DEF Provision
  <2>2. new \in Identity
    BY NewIdentity, Zenon
  <2> HIDE DEF new
  <2> QED
    BY <2>1, <2>2
<1>7. ASSUME NEW e \in sessions, RevokeSession(e) PROVE TypesInv'
  <2>1. audit' \in [Registrations -> Event]
    BY <1>7, AuditsOne DEF RevokeSession, WebSession, Event
  <2> QED
    BY <1>7, <2>1 DEF RevokeSession, WebSession
<1>8. ASSUME NEW b \in Registrations, NEW s \in {"active", "suspended"}, SetStatus(b, s)
      PROVE  TypesInv'
  <2>1. audit' \in [Registrations -> Event]
    BY <1>8, AuditsOne DEF SetStatus, Event
  <2> QED
    BY <1>8, <2>1, StatusKeepsNames DEF SetStatus, Status
<1>9. ASSUME NEW t \in work, CommitSubmit(t) PROVE TypesInv'
  BY <1>9 DEF CommitSubmit, Concludes, Pending, Transaction
<1>10. ASSUME NEW t \in work, LockRegistration(t) PROVE TypesInv'
  BY <1>10, LocksOne DEF LockRegistration
<1>11. ASSUME NEW t \in work, Approve(t) PROVE TypesInv'
  <2> DEFINE new == [owner |-> t.id, email |-> t.email, active |-> TRUE]
  <2>1. /\ identities' = identities \cup {new} /\ work' = work \ {t} /\ UNCHANGED <<sessions, rows, audit>>
        /\ Reports(t) /\ Removes(t) /\ status' = [status EXCEPT ![t.id] = "active"]
    BY <1>11 DEF Approve, Concludes
  <2>2. new \in Identity
    <3>1. t.id \in Registrations /\ t.email \in Emails \cup {NOBODY}
      BY DEF Transaction
    <3> QED
      BY <3>1, Zenon DEF Identity
  <2> HIDE DEF new
  <2> QED
    BY <2>1, <2>2, ReportsOne DEF Removes, Status
<1>12. ASSUME NEW t \in work, Reject(t) PROVE TypesInv'
  BY <1>12, ReportsOne DEF Reject, Concludes, Removes
<1>13. ASSUME NEW t \in work, NotFound(t) PROVE TypesInv'
  BY <1>13 DEF NotFound, Concludes
<1>14. ASSUME NEW t \in work, CommitWrite(t) PROVE TypesInv'
  <2>1. t.id \in Registrations
    BY DEF Transaction
  <2>2. audit' \in [Registrations -> Event]
    BY <1>14, <2>1, AuditsOne DEF CommitWrite, Event
  <2> QED
    BY <1>14, <2>1, <2>2 DEF CommitWrite, Concludes
<1>15. ASSUME NEW t \in work, GuardLogin(t) PROVE TypesInv'
  BY <1>15, LocksOne DEF GuardLogin
<1>16. ASSUME NEW t \in work, CommitLogin(t) PROVE TypesInv'
  <2> DEFINE new == [business |-> t.id, revoked |-> FALSE]
  <2>1. /\ sessions' = sessions \cup {new} /\ work' = work \ {t}
        /\ UNCHANGED <<pending, verdicts, status, identities, rows>>
    BY <1>16 DEF CommitLogin, Concludes
  <2>2. audit' \in [Registrations -> Event]
    BY <1>16, AuditsOne DEF CommitLogin, Event, Transaction
  <2>3. new \in WebSession
    <3>1. t.id \in Registrations
      BY DEF Transaction
    <3> QED
      BY <3>1, NewSession, Zenon
  <2> HIDE DEF new
  <2> QED
    BY <2>1, <2>2, <2>3
<1>17. ASSUME NEW t \in work, Abandon(t) PROVE TypesInv'
  BY <1>17 DEF Abandon, Concludes
<1>18. ASSUME NEW t \in work, NEW named \in BOOLEAN, CommitDelete(t, named)
       PROVE  TypesInv'
  <2>1. audit' \in [Registrations -> Event]
    BY <1>18, AuditsOne DEF CommitDelete, Event, Transaction
  <2> QED
    BY <1>18, <2>1, DeletionLeaves DEF CommitDelete, Concludes, Status, Transaction
<1>19. CASE UNCHANGED accounts
  BY <1>19
<1> QED
  BY <1>1, <1>2, <1>3, <1>4, <1>5, <1>6, <1>7, <1>8, <1>9, <1>10, <1>11,
     <1>12, <1>13, <1>14, <1>15, <1>16, <1>17, <1>18, <1>19 DEF AccountsNext

(* Registrations, businesses, logins and transactions are of their types.   *)
THEOREM Types == AccountsSpec => []AccountsTypeOK
<1>1. AccountsInit => TypesInv
  BY DEF AccountsInit, TypesInv, SubmitsName, AccountsTypeOK, Status, Event
<1>2. TypesInv => AccountsTypeOK
  BY DEF TypesInv
<1> QED
  BY <1>1, <1>2, TypesStep, PTL DEF AccountsSpec

-----------------------------------------------------------------------------
LEMMA DeletionStep == DeletionInv /\ [AccountsNext]_accounts => DeletionInv'
<1> SUFFICES ASSUME DeletionInv, [AccountsNext]_accounts
             PROVE  RowExcludes' /\ HoldersAreLive' /\ NothingOutlivesDeletion'
  BY TypesStep DEF DeletionInv
<1> USE AccountsAssumption
<1>0. AccountsTypeOK
  BY DEF DeletionInv, TypesInv
<1>1. ASSUME NEW q \in Requests, NEW id \in Registrations, NEW email \in Emails,
             SubmitRegistration(q, id, email)
      PROVE  RowExcludes' /\ HoldersAreLive' /\ NothingOutlivesDeletion'
  <2>1. Begins(q, "submit", id, email, TRUE) /\ UNCHANGED <<pending, verdicts, status, people, rows, audit>>
    BY <1>1 DEF SubmitRegistration
  <2>2. \A u \in work' : u \in work \/ (u.kind = "submit" /\ u.id = id /\ u.email = email /\ u.locked)
    BY <2>1 DEF Begins
  <2> QED
    BY <2>1, <2>2 DEF DeletionInv, RowExcludes, HoldersAreLive, NothingOutlivesDeletion
<1>2. ASSUME NEW q \in Requests, NEW p \in pending, NEW kind \in {"approve", "reject"},
             ReadRegistration(q, p, kind)
      PROVE  RowExcludes' /\ HoldersAreLive' /\ NothingOutlivesDeletion'
  <2>1. Begins(q, kind, p.id, p.email, FALSE) /\ UNCHANGED <<pending, verdicts, status, people, rows, audit>>
    BY <1>2 DEF ReadRegistration
  <2>2. \A u \in work' : u \in work \/ (u.kind = kind /\ u.id = p.id /\ u.email = p.email /\ ~u.locked)
    BY <2>1 DEF Begins
  <2> QED
    BY <2>1, <2>2 DEF DeletionInv, RowExcludes, HoldersAreLive, NothingOutlivesDeletion
<1>3. ASSUME NEW q \in Requests, NEW i \in identities, Login(q, i)
      PROVE  RowExcludes' /\ HoldersAreLive' /\ NothingOutlivesDeletion'
  <2>1. Begins(q, "login", i.owner, NOBODY, FALSE) /\ UNCHANGED <<pending, verdicts, status, people, rows, audit>>
    BY <1>3 DEF Login
  <2>2. \A u \in work' : u \in work \/ (u.kind = "login" /\ u.id = i.owner /\ u.email = NOBODY /\ ~u.locked)
    BY <2>1 DEF Begins
  <2> QED
    BY <2>1, <2>2 DEF DeletionInv, RowExcludes, HoldersAreLive, NothingOutlivesDeletion
<1>4. ASSUME NEW q \in Requests, NEW b \in Registrations, Write(q, b)
      PROVE  RowExcludes' /\ HoldersAreLive' /\ NothingOutlivesDeletion'
  <2>1. Begins(q, "write", b, NOBODY, TRUE) /\ UNCHANGED <<pending, verdicts, status, people, rows, audit>>
    BY <1>4 DEF Write
  <2>2. \A u \in work' : u \in work \/ (u.kind = "write" /\ u.id = b /\ u.email = NOBODY /\ u.locked)
    BY <2>1 DEF Begins
  <2>4. status[b] \in {"active", "suspended"} /\ Deleting(b) = {}
    BY <1>4, <1>0 DEF AccountsTypeOK, Write, Guard, Status
  <2>5. \A u \in work : u.locked /\ u.kind = "delete" => u.id # b
    BY <2>4 DEF Deleting
  <2> QED
    BY <2>1, <2>2, <2>4, <2>5 DEF DeletionInv, RowExcludes, HoldersAreLive, NothingOutlivesDeletion
<1>5. ASSUME NEW q \in Requests, NEW b \in Registrations, Delete(q, b)
      PROVE  RowExcludes' /\ HoldersAreLive' /\ NothingOutlivesDeletion'
  <2>1. Begins(q, "delete", b, NOBODY, TRUE) /\ UNCHANGED <<pending, verdicts, status, people, rows, audit>>
    BY <1>5 DEF Delete
  <2>2. \A u \in work' : u \in work \/ (u.kind = "delete" /\ u.id = b /\ u.email = NOBODY /\ u.locked)
    BY <2>1 DEF Begins
  <2>4. status[b] \in {"active", "suspended"} /\ Sharing(b) = {} /\ Deleting(b) = {}
    BY <1>5 DEF Delete
  <2>5. \A u \in work : u.locked /\ u.kind \in {"delete", "write", "login"} => u.id # b
    BY <2>4 DEF Deleting, Sharing
  <2>6. \A u, v \in work' : u \in work \/ v \in work \/ u = v
    BY <2>1 DEF Begins
  <2> QED
    BY <2>1, <2>2, <2>4, <2>5, <2>6 DEF DeletionInv, RowExcludes, HoldersAreLive, NothingOutlivesDeletion
<1>6. ASSUME NEW email \in Emails, Provision(email)
      PROVE  RowExcludes' /\ HoldersAreLive' /\ NothingOutlivesDeletion'
  BY <1>6, <1>0, NewIdentity
     DEF DeletionInv, RowExcludes, HoldersAreLive, NothingOutlivesDeletion, AccountsTypeOK, Provision
<1>7. ASSUME NEW e \in sessions, RevokeSession(e)
      PROVE  RowExcludes' /\ HoldersAreLive' /\ NothingOutlivesDeletion'
  <2>1. e.business \in Registrations /\ status[e.business] # "deleted"
    BY <1>7, <1>0 DEF AccountsTypeOK, RevokeSession, Guard, WebSession
  <2>2. \A b \in Registrations : status[b] = "deleted" => audit'[b] = audit[b]
    BY <1>7, <1>0, <2>1, AuditsOne DEF RevokeSession, Event
  <2>3. \A o \in sessions' : \E p \in sessions : o.business = p.business
    BY <1>7, <1>0 DEF AccountsTypeOK, RevokeSession, WebSession
  <2> QED
    BY <1>7, <2>2, <2>3 DEF DeletionInv, RowExcludes, HoldersAreLive, NothingOutlivesDeletion, RevokeSession
<1>8. ASSUME NEW b \in Registrations, NEW s \in {"active", "suspended"}, SetStatus(b, s)
      PROVE  RowExcludes' /\ HoldersAreLive' /\ NothingOutlivesDeletion'
  <2>1. RowExcludes'
    BY <1>8 DEF SetStatus, RowExcludes, DeletionInv
  <2>2. HoldersAreLive'
    BY <1>8, <1>0 DEF AccountsTypeOK, SetStatus, Transaction, HoldersAreLive, DeletionInv
  <2>3. status[b] # "deleted" /\ status' = [status EXCEPT ![b] = s] /\ rows' = rows \cup {b}
    BY <1>8 DEF SetStatus
  <2>4. \A c \in Registrations : c # b => audit'[c] = audit[c]
    BY <1>8, <1>0, AuditsOne DEF SetStatus, Event
  <2>5. NothingOutlivesDeletion'
    BY <1>8, <1>0, <2>3, <2>4, StatusKeepsNames DEF AccountsTypeOK, NothingOutlivesDeletion, DeletionInv
  <2> QED
    BY <2>1, <2>2, <2>5 DEF DeletionInv, RowExcludes, HoldersAreLive, NothingOutlivesDeletion
<1>9. ASSUME NEW t \in work, CommitSubmit(t)
      PROVE  RowExcludes' /\ HoldersAreLive' /\ NothingOutlivesDeletion'
  BY <1>9, <1>0
     DEF CommitSubmit, Concludes, Transaction, AccountsTypeOK, DeletionInv, RowExcludes, HoldersAreLive, NothingOutlivesDeletion
<1>10. ASSUME NEW t \in work, LockRegistration(t)
       PROVE  RowExcludes' /\ HoldersAreLive' /\ NothingOutlivesDeletion'
  BY <1>10, <1>0, LocksOne
     DEF DeletionInv, RowExcludes, HoldersAreLive, NothingOutlivesDeletion, AccountsTypeOK, LockRegistration
<1>11. ASSUME NEW t \in work, Approve(t)
       PROVE  RowExcludes' /\ HoldersAreLive' /\ NothingOutlivesDeletion'
  <2>1. t.id \in Registrations /\ status[t.id] = "none"
    BY <1>11, <1>0 DEF AccountsTypeOK, Approve, Transaction
  <2>2. \A b \in Registrations : status'[b] = IF b = t.id THEN "active" ELSE status[b]
    BY <1>11, <1>0 DEF AccountsTypeOK, Approve
  <2>3. /\ work' = work \ {t} /\ UNCHANGED <<sessions, rows, audit>>
        /\ \A i \in identities' : i \in identities \/ i.owner = t.id
    BY <1>11 DEF Approve, Concludes
  <2>4. \A u \in work : u.id \in Registrations
    BY <1>0 DEF AccountsTypeOK, Transaction
  <2> QED
    BY <2>1, <2>2, <2>3, <2>4 DEF DeletionInv, RowExcludes, HoldersAreLive, NothingOutlivesDeletion
<1>12. ASSUME NEW t \in work, Reject(t)
       PROVE  RowExcludes' /\ HoldersAreLive' /\ NothingOutlivesDeletion'
  BY <1>12, <1>0
     DEF Reject, Concludes, Transaction, AccountsTypeOK, DeletionInv, RowExcludes, HoldersAreLive, NothingOutlivesDeletion
<1>13. ASSUME NEW t \in work, NotFound(t)
       PROVE  RowExcludes' /\ HoldersAreLive' /\ NothingOutlivesDeletion'
  BY <1>13, <1>0
     DEF NotFound, Concludes, Transaction, AccountsTypeOK, DeletionInv, RowExcludes, HoldersAreLive, NothingOutlivesDeletion
<1>14. ASSUME NEW t \in work, CommitWrite(t)
       PROVE  RowExcludes' /\ HoldersAreLive' /\ NothingOutlivesDeletion'
  <2>1. t.id \in Registrations /\ status[t.id] # "deleted"
    BY <1>14, <1>0 DEF AccountsTypeOK, CommitWrite, Concludes, Transaction, HoldersAreLive, DeletionInv
  <2>2. \A b \in Registrations : status[b] = "deleted" => audit'[b] = audit[b]
    BY <1>14, <1>0, <2>1, AuditsOne DEF CommitWrite, Event
  <2>3. work' = work \ {t} /\ rows' \subseteq rows \cup {t.id} /\ UNCHANGED <<pending, verdicts, status, people>>
    BY <1>14 DEF CommitWrite, Concludes
  <2> QED
    BY <2>1, <2>2, <2>3 DEF DeletionInv, RowExcludes, HoldersAreLive, NothingOutlivesDeletion
<1>15. ASSUME NEW t \in work, GuardLogin(t)
       PROVE  RowExcludes' /\ HoldersAreLive' /\ NothingOutlivesDeletion'
  <2>1. /\ t.kind = "login" /\ Locks(t) /\ UNCHANGED <<pending, verdicts, status, people, rows, audit>>
        /\ status[t.id] \in {"active", "suspended"} /\ Deleting(t.id) = {}
    BY <1>15, <1>0 DEF AccountsTypeOK, GuardLogin, Guard, Status, Transaction
  <2>2. \A u \in work : u.locked /\ u.kind = "delete" => u.id # t.id
    BY <2>1 DEF Deleting
  <2>3. \A u \in work' : u \in work \/ (u.kind = t.kind /\ u.id = t.id)
    BY <1>0, <2>1, LocksOne
  <2>4. \A u, v \in work' : u \in work \/ v \in work \/ u = v
    BY <2>1 DEF Locks
  <2> QED
    BY <2>1, <2>2, <2>3, <2>4 DEF DeletionInv, RowExcludes, HoldersAreLive, NothingOutlivesDeletion
<1>16. ASSUME NEW t \in work, CommitLogin(t)
       PROVE  RowExcludes' /\ HoldersAreLive' /\ NothingOutlivesDeletion'
  <2>1. t.id \in Registrations /\ status[t.id] # "deleted"
    BY <1>16, <1>0 DEF AccountsTypeOK, CommitLogin, Concludes, Transaction, HoldersAreLive, DeletionInv
  <2>2. \A b \in Registrations : status[b] = "deleted" => audit'[b] = audit[b]
    BY <1>16, <1>0, <2>1, AuditsOne DEF CommitLogin, Event
  <2> QED
    BY <1>16, <2>1, <2>2, NewSession DEF DeletionInv, RowExcludes, HoldersAreLive, NothingOutlivesDeletion, CommitLogin, Concludes
<1>17. ASSUME NEW t \in work, Abandon(t)
       PROVE  RowExcludes' /\ HoldersAreLive' /\ NothingOutlivesDeletion'
  BY <1>17, <1>0
     DEF Abandon, Concludes, Transaction, AccountsTypeOK, DeletionInv, RowExcludes, HoldersAreLive, NothingOutlivesDeletion
<1>18. ASSUME NEW t \in work, NEW named \in BOOLEAN, CommitDelete(t, named)
       PROVE  RowExcludes' /\ HoldersAreLive' /\ NothingOutlivesDeletion'
  <2>1. t.id \in Registrations /\ t.locked /\ t.kind = "delete"
    BY <1>18, <1>0 DEF AccountsTypeOK, CommitDelete, Concludes, Transaction, HoldersAreLive, DeletionInv
  <2>2. \A b \in Registrations : status'[b] = IF b = t.id THEN "deleted" ELSE status[b]
    BY <1>18, <1>0 DEF AccountsTypeOK, CommitDelete
  <2>3. /\ work' = work \ {t} /\ rows' = rows \ {t.id}
        /\ \A e \in sessions' : e \in sessions /\ e.business # t.id
    BY <1>18 DEF CommitDelete, Concludes
  <2>4. \A u \in work : u.id \in Registrations
    BY <1>0 DEF AccountsTypeOK, Transaction
  <2>5. \A b \in Registrations : audit'[b] = IF b = t.id THEN "business.deleted" ELSE audit[b]
    BY <1>18, <1>0, <2>1, AuditsOne DEF CommitDelete, Event
  <2>6. NothingOutlivesDeletion'
    BY <1>18, <1>0, <2>1, <2>2, <2>3, <2>5, DeletionLeaves DEF NothingOutlivesDeletion, DeletionInv
  <2> QED
    BY <2>1, <2>2, <2>3, <2>4, <2>6 DEF DeletionInv, RowExcludes, HoldersAreLive, NothingOutlivesDeletion
<1>19. CASE UNCHANGED accounts
  BY <1>19 DEF DeletionInv, RowExcludes, HoldersAreLive, NothingOutlivesDeletion
<1> QED
  BY <1>1, <1>2, <1>3, <1>4, <1>5, <1>6, <1>7, <1>8, <1>9, <1>10, <1>11,
     <1>12, <1>13, <1>14, <1>15, <1>16, <1>17, <1>18, <1>19 DEF AccountsNext

(* Of a deleted business the purged tables have no row, nobody can enter,   *)
(* and the audit that is kept ends with the deletion, whoever began before  *)
(* it and commits after it.                                                 *)
THEOREM DeletionIsFinal == AccountsSpec => []NothingOutlivesDeletion
<1>1. AccountsInit => DeletionInv
  BY DEF AccountsInit, DeletionInv, TypesInv, SubmitsName, AccountsTypeOK, Status, Event,
         RowExcludes, HoldersAreLive, NothingOutlivesDeletion
<1>2. DeletionInv => NothingOutlivesDeletion
  BY DEF DeletionInv
<1> QED
  BY <1>1, <1>2, DeletionStep, PTL DEF AccountsSpec

-----------------------------------------------------------------------------
(* A step that neither begins nor locks a transaction of a registration,    *)
(* names nobody of a business, and founds no business.                      *)
Quiet ==
  /\ UNCHANGED <<pending, verdicts>>
  /\ \A b \in Registrations : status'[b] = "none" <=> status[b] = "none"
  /\ \A u \in work' : u \in work \/ u.kind \notin Registering
  /\ \A i \in identities' :
       \/ i.owner = NOBODY \/ i.email = NOBODY
       \/ \E j \in identities : i.owner = j.owner /\ i.email = j.email

LEMMA QuietKeeps == TypesInv /\ RegistrationInv /\ Quiet => RegistrationInv'
<1> SUFFICES ASSUME TypesInv, RegistrationInv, Quiet PROVE RegistrationInv'
  OBVIOUS
<1> USE AccountsAssumption
<1>1. EmailExcludes' /\ PendingIsOne' /\ ReadsArePending'
  BY DEF RegistrationInv, EmailExcludes, PendingIsOne, ReadsArePending, Quiet, Registering
<1>2. SubmitsAreNew'
  <2> SUFFICES ASSUME NEW t \in work', t.kind = "submit"
               PROVE  /\ t.locked
                      /\ \A p \in pending' : p.id # t.id
                      /\ \A v \in verdicts' : v.id # t.id
                      /\ \A u \in work' : u.kind \in Registering /\ u.id = t.id => u = t
                      /\ \A i \in identities' : i.email = t.email => i.owner = NOBODY
    BY Zenon DEF SubmitsAreNew
  <2>1. t \in work /\ t.email \in Emails
    BY DEF Quiet, Registering, TypesInv, SubmitsName
  <2> QED
    BY <2>1 DEF RegistrationInv, SubmitsAreNew, Quiet
<1>3. DecisionsHold'
  BY DEF RegistrationInv, RegistrationsHold, DecisionsHold, Quiet
<1>4. OneClaimPerEmail'
  <2>1. \A p \in pending : p.email \in Emails
    BY DEF TypesInv, AccountsTypeOK, Pending
  <2> QED
    BY <2>1 DEF RegistrationInv, RegistrationsHold, OneClaimPerEmail, Quiet
<1> QED
  BY <1>1, <1>2, <1>3, <1>4 DEF RegistrationInv, RegistrationsHold

LEMMA QuietSteps ==
  ASSUME DeletionInv, RegistrationInv
  PROVE  /\ \A q \in Requests, i \in identities : Login(q, i) => Quiet
         /\ \A q \in Requests, b \in Registrations : Write(q, b) \/ Delete(q, b) => Quiet
         /\ \A email \in Emails : Provision(email) => Quiet
         /\ \A e \in sessions : RevokeSession(e) => Quiet
         /\ \A b \in Registrations, s \in {"active", "suspended"} : SetStatus(b, s) => Quiet
         /\ \A t \in work : NotFound(t) \/ CommitWrite(t) \/ GuardLogin(t) \/ CommitLogin(t) \/ Abandon(t) => Quiet
         /\ \A t \in work, named \in BOOLEAN : CommitDelete(t, named) => Quiet
<1>0. AccountsTypeOK
  BY DEF DeletionInv, TypesInv
<1>1. ASSUME NEW q \in Requests, NEW i \in identities, Login(q, i) PROVE Quiet
  BY <1>1 DEF Login, Begins, Quiet, Registering
<1>2. ASSUME NEW q \in Requests, NEW b \in Registrations, Write(q, b) \/ Delete(q, b)
      PROVE  Quiet
  <2>1. CASE Write(q, b)
    BY <2>1 DEF Write, Begins, Quiet, Registering
  <2>2. CASE Delete(q, b)
    BY <2>2 DEF Delete, Begins, Quiet, Registering
  <2> QED
    BY <1>2, <2>1, <2>2
<1>3. ASSUME NEW email \in Emails, Provision(email) PROVE Quiet
  BY <1>3, NewIdentity DEF Provision, Quiet
<1>4. ASSUME NEW e \in sessions, RevokeSession(e) PROVE Quiet
  BY <1>4 DEF RevokeSession, Quiet
<1>5. ASSUME NEW b \in Registrations, NEW s \in {"active", "suspended"}, SetStatus(b, s)
      PROVE  Quiet
  <2>1. \A c \in Registrations : status'[c] = "none" <=> status[c] = "none"
    BY <1>0, <1>5 DEF SetStatus, AccountsTypeOK
  <2>2. UNCHANGED <<pending, verdicts, work>>
    BY <1>5 DEF SetStatus
  <2> QED
    BY <1>0, <1>5, <2>1, <2>2, StatusKeepsNames DEF Quiet
<1>6. ASSUME NEW t \in work, NotFound(t) \/ CommitWrite(t) \/ GuardLogin(t) \/ CommitLogin(t) \/ Abandon(t)
      PROVE  Quiet
  <2>1. CASE NotFound(t) \/ CommitWrite(t) \/ CommitLogin(t) \/ Abandon(t)
    BY <2>1 DEF NotFound, CommitWrite, CommitLogin, Abandon, Concludes, Quiet
  <2>2. CASE GuardLogin(t)
    <3>1. t.kind = "login" /\ Locks(t) /\ UNCHANGED <<pending, verdicts, status, people, rows, audit>>
      BY <2>2 DEF GuardLogin
    <3>2. \A u \in work' : u \in work \/ u.kind = "login"
      BY <1>0, <3>1, LocksOne
    <3> QED
      BY <3>1, <3>2 DEF Quiet, Registering
  <2> QED
    BY <1>6, <2>1, <2>2
<1>7. ASSUME NEW t \in work, NEW named \in BOOLEAN, CommitDelete(t, named) PROVE Quiet
  <2>1. t.id \in Registrations /\ status[t.id] # "none"
    BY <1>0, <1>7 DEF CommitDelete, Concludes, AccountsTypeOK, Transaction, DeletionInv, HoldersAreLive
  <2>2. \A c \in Registrations : status'[c] = "none" <=> status[c] = "none"
    BY <1>0, <1>7, <2>1 DEF CommitDelete, AccountsTypeOK
  <2>3. UNCHANGED <<pending, verdicts>> /\ work' = work \ {t}
    BY <1>7 DEF CommitDelete, Concludes
  <2> QED
    BY <1>0, <1>7, <2>2, <2>3, DeletionLeaves DEF Quiet
<1> QED
  BY <1>1, <1>2, <1>3, <1>4, <1>5, <1>6, <1>7

(* A submission takes the lock of its e-mail before it looks who has it.    *)
LEMMA SubmitKeeps ==
  ASSUME NEW q \in Requests, NEW id \in Registrations, NEW email \in Emails,
         DeletionInv, RegistrationInv, SubmitRegistration(q, id, email)
  PROVE  RegistrationInv'
<1>1. Begins(q, "submit", id, email, TRUE) /\ UNCHANGED <<pending, verdicts, status, people, rows, audit>>
  BY DEF SubmitRegistration
<1>2. \A u \in work' : u \in work \/ (u.kind = "submit" /\ u.id = id /\ u.email = email /\ u.locked)
  BY <1>1 DEF Begins
<1>3. \A u, v \in work' : u \in work \/ v \in work \/ u = v
  BY <1>1 DEF Begins
<1>4. /\ \A p \in pending : p.id # id
      /\ \A v \in verdicts : v.id # id
      /\ \A u \in work : u.id # id
      /\ \A i \in identities : i.email # email
  BY DEF SubmitRegistration, Fresh, Taken
<1>5. \A u \in work : u.locked /\ u.email = email => u.kind \notin Registering
  BY DEF SubmitRegistration, EmailFree, Registering
<1>6. EmailExcludes'
  BY <1>2, <1>3, <1>5 DEF RegistrationInv, EmailExcludes
<1>7. SubmitsAreNew'
  BY <1>1, <1>2, <1>3, <1>4 DEF RegistrationInv, SubmitsAreNew
<1>8. PendingIsOne' /\ ReadsArePending' /\ RegistrationsHold'
  BY <1>1, <1>2, <1>4
     DEF RegistrationInv, PendingIsOne, ReadsArePending, RegistrationsHold, DecisionsHold, OneClaimPerEmail
<1> QED
  BY <1>6, <1>7, <1>8 DEF RegistrationInv

LEMMA ReadKeeps ==
  ASSUME NEW q \in Requests, NEW p \in pending, NEW kind \in {"approve", "reject"},
         DeletionInv, RegistrationInv, ReadRegistration(q, p, kind)
  PROVE  RegistrationInv'
<1>1. Begins(q, kind, p.id, p.email, FALSE) /\ UNCHANGED <<pending, verdicts, status, people, rows, audit>>
  BY DEF ReadRegistration
<1>2. \A u \in work' : u \in work \/ (u.kind = kind /\ u.id = p.id /\ u.email = p.email /\ ~u.locked)
  BY <1>1 DEF Begins
<1>3. EmailExcludes'
  BY <1>2 DEF RegistrationInv, EmailExcludes
<1>4. SubmitsAreNew'
  BY <1>1, <1>2 DEF RegistrationInv, SubmitsAreNew
<1>5. ReadsArePending'
  BY <1>1, <1>2 DEF RegistrationInv, ReadsArePending, PendingIsOne
<1>6. PendingIsOne' /\ RegistrationsHold'
  BY <1>1 DEF RegistrationInv, PendingIsOne, RegistrationsHold, DecisionsHold, OneClaimPerEmail
<1> QED
  BY <1>3, <1>4, <1>5, <1>6 DEF RegistrationInv

LEMMA LockKeeps ==
  ASSUME NEW t \in work, DeletionInv, RegistrationInv, LockRegistration(t)
  PROVE  RegistrationInv'
<1>1. /\ t.kind \in {"approve", "reject"} /\ Locks(t) /\ EmailFree(t.email)
      /\ UNCHANGED <<pending, verdicts, status, people, rows, audit>>
  BY DEF LockRegistration
<1>2. \A u \in work' : u \in work \/ (u.kind = t.kind /\ u.id = t.id /\ u.email = t.email)
  BY <1>1, LocksOne DEF DeletionInv, TypesInv
<1>3. \A u, v \in work' : u \in work \/ v \in work \/ u = v
  BY <1>1 DEF Locks
<1>4. \A u \in work : u.locked /\ u.email = t.email => u.kind \notin Registering
  BY <1>1 DEF EmailFree, Registering
<1>5. EmailExcludes'
  BY <1>2, <1>3, <1>4 DEF RegistrationInv, EmailExcludes
<1>6. SubmitsAreNew'
  BY <1>1, <1>2 DEF RegistrationInv, SubmitsAreNew, Registering
<1>7. ReadsArePending'
  BY <1>1, <1>2 DEF RegistrationInv, ReadsArePending
<1>8. PendingIsOne' /\ RegistrationsHold'
  BY <1>1 DEF RegistrationInv, PendingIsOne, RegistrationsHold, DecisionsHold, OneClaimPerEmail
<1> QED
  BY <1>5, <1>6, <1>7, <1>8 DEF RegistrationInv

LEMMA CommitSubmitKeeps ==
  ASSUME NEW t \in work, DeletionInv, RegistrationInv, CommitSubmit(t)
  PROVE  RegistrationInv'
<1>1. /\ t.kind = "submit" /\ work' = work \ {t} /\ UNCHANGED <<verdicts, status, people, rows, audit>>
      /\ \A p \in pending' :
           p \in pending \/ (p.id = t.id /\ p.email = t.email /\ \A o \in pending : o.email # t.email)
  BY DEF CommitSubmit, Concludes
<1>2. \A p, q \in pending' : p \in pending \/ q \in pending \/ p = q
  BY DEF CommitSubmit
<1>3. /\ \A p \in pending : p.id # t.id
      /\ \A v \in verdicts : v.id # t.id
      /\ \A u \in work : u.kind \in Registering /\ u.id = t.id => u = t
      /\ \A i \in identities : i.email = t.email => i.owner = NOBODY
  BY <1>1 DEF RegistrationInv, SubmitsAreNew
<1>4. EmailExcludes'
  BY <1>1 DEF RegistrationInv, EmailExcludes
<1>5. PendingIsOne'
  BY <1>1, <1>2, <1>3 DEF RegistrationInv, PendingIsOne
<1>6. ReadsArePending'
  BY <1>1, <1>3 DEF RegistrationInv, ReadsArePending, Registering
<1>7. SubmitsAreNew'
  BY <1>1, <1>3 DEF RegistrationInv, SubmitsAreNew, Registering
<1>8. DecisionsHold' /\ OneClaimPerEmail'
  BY <1>1, <1>3 DEF RegistrationInv, RegistrationsHold, DecisionsHold, OneClaimPerEmail
<1> QED
  BY <1>4, <1>5, <1>6, <1>7, <1>8 DEF RegistrationInv, RegistrationsHold

(* What a decision found is its own, and waits for it alone.                *)
LEMMA Decides ==
  ASSUME NEW t \in work, t.kind \in {"approve", "reject"}, t.locked, Found(t),
         DeletionInv, RegistrationInv, Removes(t), Reports(t)
  PROVE  /\ \E p \in pending : p.id = t.id /\ p.email = t.email
         /\ \A v \in verdicts : v.id # t.id
         /\ \A p \in pending' : p \in pending /\ p.id # t.id /\ p.email # t.email
         /\ \A u \in work : u.kind = "submit" => u.id # t.id /\ u.email # t.email
         /\ \A v \in verdicts' : v \in verdicts \/ (v.id = t.id /\ (v.approved <=> t.kind = "approve"))
         /\ \A v, w \in verdicts' : v \in verdicts \/ w \in verdicts \/ v = w
         /\ verdicts \subseteq verdicts' /\ verdicts' \subseteq Verdict
<1>1. PICK p \in pending : p.id = t.id /\ p.email = t.email
  BY DEF Found, RegistrationInv, ReadsArePending
<1>2. \A v \in verdicts : v.id # t.id
  BY <1>1 DEF RegistrationInv, RegistrationsHold, DecisionsHold
<1>3. \A o \in pending' : o \in pending /\ o.id # t.id /\ o.email # t.email
  BY <1>1 DEF RegistrationInv, PendingIsOne, Removes
<1>4. \A u \in work : u.kind = "submit" => u.id # t.id /\ u.email # t.email
  BY <1>1 DEF RegistrationInv, SubmitsAreNew, EmailExcludes, Registering
<1>5. /\ verdicts' \subseteq Verdict
      /\ \A v \in verdicts' : v \in verdicts \/ (v.id = t.id /\ (v.approved <=> t.kind = "approve"))
  BY ReportsOne DEF DeletionInv, TypesInv
<1>6. verdicts \subseteq verdicts' /\ \A v, w \in verdicts' : v \in verdicts \/ w \in verdicts \/ v = w
  BY DEF Reports
<1> QED
  BY <1>1, <1>2, <1>3, <1>4, <1>5, <1>6

LEMMA RejectKeeps ==
  ASSUME NEW t \in work, DeletionInv, RegistrationInv, Reject(t)
  PROVE  RegistrationInv'
<1>1. /\ t.kind = "reject" /\ t.locked /\ Found(t) /\ Removes(t) /\ Reports(t)
      /\ work' = work \ {t} /\ UNCHANGED <<status, people, rows, audit>>
  BY DEF Reject, Concludes
<1>2. /\ \A v \in verdicts : v.id # t.id
      /\ \A p \in pending' : p \in pending /\ p.id # t.id /\ p.email # t.email
      /\ \A u \in work : u.kind = "submit" => u.id # t.id /\ u.email # t.email
      /\ \A v \in verdicts' : v \in verdicts \/ (v.id = t.id /\ ~v.approved)
      /\ \A v, w \in verdicts' : v \in verdicts \/ w \in verdicts \/ v = w
      /\ verdicts \subseteq verdicts'
  BY <1>1, Decides
<1>3. EmailExcludes' /\ PendingIsOne' /\ ReadsArePending'
  BY <1>1, <1>2 DEF RegistrationInv, EmailExcludes, PendingIsOne, ReadsArePending
<1>4. SubmitsAreNew'
  BY <1>1, <1>2 DEF RegistrationInv, SubmitsAreNew
<1>5. \A b \in Registrations : [id |-> b, approved |-> TRUE].approved
  BY Zenon
<1>6. DecisionsHold'
  BY <1>1, <1>2, <1>5 DEF RegistrationInv, RegistrationsHold, DecisionsHold
<1>7. OneClaimPerEmail'
  BY <1>1, <1>2 DEF RegistrationInv, RegistrationsHold, OneClaimPerEmail
<1> QED
  BY <1>3, <1>4, <1>6, <1>7 DEF RegistrationInv, RegistrationsHold

LEMMA ApproveKeeps ==
  ASSUME NEW t \in work, DeletionInv, RegistrationInv, Approve(t)
  PROVE  RegistrationInv'
<1>1. /\ t.kind = "approve" /\ t.locked /\ Found(t) /\ Removes(t) /\ Reports(t)
      /\ work' = work \ {t} /\ status' = [status EXCEPT ![t.id] = "active"]
  BY DEF Approve, Concludes
<1>2. /\ \A v \in verdicts : v.id # t.id
      /\ \A p \in pending' : p \in pending /\ p.id # t.id /\ p.email # t.email
      /\ \A u \in work : u.kind = "submit" => u.id # t.id /\ u.email # t.email
      /\ \A v \in verdicts' : v \in verdicts \/ (v.id = t.id /\ v.approved)
      /\ \A v, w \in verdicts' : v \in verdicts \/ w \in verdicts \/ v = w
      /\ verdicts \subseteq verdicts'
  BY <1>1, Decides
<1>3. t.id \in Registrations /\ t.email \in Emails \cup {NOBODY} /\ status \in [Registrations -> Status]
  BY DEF DeletionInv, TypesInv, AccountsTypeOK, Transaction
<1>4. \A i \in identities' : i \in identities \/ (i.owner = t.id /\ i.email = t.email)
  <2> DEFINE new == [owner |-> t.id, email |-> t.email, active |-> TRUE]
  <2>1. new.owner = t.id /\ new.email = t.email
    BY Zenon
  <2>2. identities' = identities \cup {new}
    BY DEF Approve
  <2> HIDE DEF new
  <2> QED
    BY <2>1, <2>2
<1>5. EmailExcludes' /\ PendingIsOne' /\ ReadsArePending'
  BY <1>1, <1>2 DEF RegistrationInv, EmailExcludes, PendingIsOne, ReadsArePending
<1>6. SubmitsAreNew'
  BY <1>1, <1>2, <1>4 DEF RegistrationInv, SubmitsAreNew
<1>7. [id |-> t.id, approved |-> TRUE] \in verdicts'
  BY <1>1, Zenon DEF Reports
<1>8. \A b \in Registrations : status'[b] = IF b = t.id THEN "active" ELSE status[b]
  BY <1>1, <1>3
<1>9. \A b \in Registrations : [id |-> b, approved |-> TRUE].id = b
  BY Zenon
<1>10. DecisionsHold'
  <2>1. \A v, w \in verdicts' : v.id = w.id => v = w
    BY <1>2 DEF RegistrationInv, RegistrationsHold, DecisionsHold
  <2>2. \A p \in pending', v \in verdicts' : p.id # v.id
    BY <1>2 DEF RegistrationInv, RegistrationsHold, DecisionsHold
  <2>3. ASSUME NEW b \in Registrations
        PROVE  status'[b] # "none" <=> [id |-> b, approved |-> TRUE] \in verdicts'
    <3> DEFINE own == [id |-> b, approved |-> TRUE]
    <3>1. own.id = b
      BY <1>9
    <3>2. status[b] # "none" <=> own \in verdicts
      BY DEF RegistrationInv, RegistrationsHold, DecisionsHold
    <3>3. b = t.id => own \in verdicts'
      BY <1>7
    <3> HIDE DEF own
    <3>4. status'[b] # "none" <=> own \in verdicts'
      BY <1>2, <1>8, <3>1, <3>2, <3>3
    <3> QED
      BY <3>4 DEF own
  <2> QED
    BY <2>1, <2>2, <2>3, Zenon DEF DecisionsHold
<1>11. OneClaimPerEmail'
  BY <1>1, <1>2, <1>4 DEF RegistrationInv, RegistrationsHold, OneClaimPerEmail
<1> QED
  BY <1>5, <1>6, <1>10, <1>11 DEF RegistrationInv, RegistrationsHold

LEMMA RegistrationStep ==
  DeletionInv /\ RegistrationInv /\ [AccountsNext]_accounts => RegistrationInv'
<1> SUFFICES ASSUME DeletionInv, RegistrationInv, [AccountsNext]_accounts
             PROVE  RegistrationInv'
  OBVIOUS
<1>1. CASE Quiet
  BY <1>1, QuietKeeps DEF DeletionInv
<1>2. CASE UNCHANGED accounts
  BY <1>2, <1>1 DEF Quiet
<1>3. CASE AccountsNext /\ ~Quiet
  BY <1>3, QuietSteps, SubmitKeeps, ReadKeeps, LockKeeps, CommitSubmitKeeps, RejectKeeps, ApproveKeeps
     DEF AccountsNext
<1> QED
  BY <1>1, <1>2, <1>3

(* A registration is decided once, with the outcome that was reported, and  *)
(* nobody waits with an e-mail that a business logs in with.                *)
THEOREM DecidedOnce == AccountsSpec => []RegistrationsHold
<1>1. AccountsInit => DeletionInv /\ RegistrationInv
  BY DEF AccountsInit, DeletionInv, TypesInv, SubmitsName, AccountsTypeOK, Status, Event,
         RowExcludes, HoldersAreLive, NothingOutlivesDeletion, RegistrationInv, EmailExcludes,
         PendingIsOne, ReadsArePending, SubmitsAreNew, RegistrationsHold, DecisionsHold, OneClaimPerEmail
<1>2. RegistrationInv => RegistrationsHold
  BY DEF RegistrationInv
<1> QED
  BY <1>1, <1>2, DeletionStep, RegistrationStep, PTL DEF AccountsSpec

-----------------------------------------------------------------------------
(* The login throttle. A row says when it was made: a horizon before it is  *)
(* over. The k-th line back in time is k minutes before the window of the   *)
(* budget began; windows are a minute apart at least, so what was made      *)
(* after that line was admitted by the k windows before this one, and by    *)
(* this one; and the first row of a window is made as it begins.            *)
Line(k) == budget.resetsAt + Horizon - (k + 1) * Minute
After(some, x) == {r \in some : r.resetsAt > x}
MadeByNow ==
  budget.resetsAt <= instant + Minute /\ \A r \in table : r.resetsAt < budget.resetsAt + Horizon
WindowsAdmit ==
  IF budget.attempts = 0 THEN table = {} /\ budget.resetsAt = 0
  ELSE \A k \in Nat : Cardinality(After(table, Line(k))) < k * Global + budget.attempts
ThrottleInv ==
  ThrottleTypeOK /\ IsFiniteSet(table) /\ MadeByNow /\ WindowsAdmit /\ TableIsBounded

(* One more, and one for another. *)
LEMMA AddsOne ==
  ASSUME NEW T, IsFiniteSet(T), NEW x, NEW S, S \subseteq T \cup {x}
  PROVE  IsFiniteSet(S) /\ Cardinality(S) \in Nat /\ Cardinality(S) <= Cardinality(T) + 1
<1>1. IsFiniteSet(T \cup {x}) /\ Cardinality(T \cup {x}) <= Cardinality(T) + 1 /\ Cardinality(T) \in Nat
  BY FS_AddElement, FS_CardinalityType
<1>2. IsFiniteSet(S) /\ Cardinality(S) <= Cardinality(T \cup {x})
  BY <1>1, FS_Subset
<1>3. QED  BY <1>1, <1>2, FS_CardinalityType

LEMMA SwapsOne ==
  ASSUME NEW T, IsFiniteSet(T), NEW y \in T, NEW x, NEW S, S \subseteq (T \ {y}) \cup {x}
  PROVE  Cardinality(S) <= Cardinality(T)
<1>1. IsFiniteSet(T \ {y}) /\ Cardinality(T \ {y}) = Cardinality(T) - 1
  BY FS_RemoveElement
<1>2. Cardinality(S) <= Cardinality(T \ {y}) + 1  BY <1>1, AddsOne
<1>3. S \subseteq T \cup {x} /\ Cardinality(T) \in Nat  BY FS_CardinalityType
<1>4. Cardinality(S) \in Nat  BY <1>3, AddsOne
<1>5. QED  BY <1>1, <1>2, <1>3, <1>4

(* A charge of an account leaves one row of it: a new one, or its row with  *)
(* another attempt, over when it was.                                       *)
LEMMA ChargeIs ==
  ASSUME ThrottleInv, NEW a \in Accounts, NEW kept \in SUBSET table
  PROVE  \E row \in AccountRow :
           /\ row.account = a
           /\ Charged(a, kept) \subseteq {r \in kept : r.account # a} \cup {row}
           /\ \/ row.resetsAt = instant + Horizon
              \/ \E r \in kept : r.account = a /\ r.resetsAt = row.resetsAt
<1>1. kept \subseteq AccountRow /\ instant \in Nat
  BY ThrottleAssumption DEF ThrottleInv, ThrottleTypeOK
<1>2. CASE \A r \in kept : r.account = a => Over(r)
  <2> DEFINE row == [account |-> a, attempts |-> 1, resetsAt |-> instant + Horizon]
  <2>1. row \in AccountRow  BY <1>1, ThrottleAssumption DEF AccountRow
  <2>2. QED  BY <1>2, <2>1 DEF Charged
<1>3. CASE ~ \A r \in kept : r.account = a => Over(r)
  <2>1. PICK r0 \in kept : r0.account = a  BY <1>3
  <2>2. r0 \in AccountRow /\ \A r \in kept : r.account = a => r = r0
    BY <1>1, <2>1 DEF ThrottleInv, TableIsBounded
  <2> DEFINE row == IF r0.attempts < PerAccount THEN [r0 EXCEPT !.attempts = @ + 1] ELSE r0
  <2>3. row \in AccountRow /\ row.account = a /\ row.resetsAt = r0.resetsAt
    BY <2>1, <2>2, ThrottleAssumption DEF AccountRow
  <2>4. ASSUME NEW s \in Charged(a, kept) PROVE s \in {r \in kept : r.account # a} \cup {row}
    <3>1. PICK r \in kept : s = IF r.account = a /\ r.attempts < PerAccount THEN [r EXCEPT !.attempts = @ + 1] ELSE r
      BY <1>3, <2>4 DEF Charged
    <3>2. QED  BY <2>1, <2>2, <3>1
  <2>5. QED  BY <2>1, <2>3, <2>4
<1>4. QED  BY <1>2, <1>3

(* The window of the budget a login is charged to. *)
LEMMA WindowIs ==
  ASSUME ThrottleInv
  PROVE  /\ instant \in Nat /\ budget \in Budget /\ Renewed \in Budget
         /\ Over(budget) => Renewed.attempts = 0 /\ Renewed.resetsAt = instant + Minute
         /\ ~Over(budget) => Renewed = budget
         /\ instant < Renewed.resetsAt
<1>1. instant \in Nat /\ budget \in Budget
  BY ThrottleAssumption DEF ThrottleInv, ThrottleTypeOK
<1>2. CASE Over(budget)
  BY <1>1, <1>2, ThrottleAssumption DEF Renewed, Budget
<1>3. CASE ~Over(budget)
  BY <1>1, <1>3, ThrottleAssumption DEF Renewed, Budget, Over
<1>4. QED  BY <1>1, <1>2, <1>3

(* Lines of a window, and of the window before it. *)
LEMMA LinesBack ==
  ASSUME NEW k \in Nat
  PROVE  /\ (k + 1) * Minute \in Nat /\ k * Global \in Nat
         /\ k = 0 => (k + 1) * Minute = Minute /\ k * Global = 0
         /\ k # 0 => k - 1 \in Nat /\ (k + 1) * Minute = (k - 1 + 1) * Minute + Minute
                     /\ k * Global = (k - 1) * Global + Global
<1>1. Minute \in Nat /\ Global \in Nat  BY ThrottleAssumption
<1>2. \A m \in Nat : k * m \in Nat /\ (k + 1) * m \in Nat  OBVIOUS
<1>3. \A m \in Nat : (k + 1) * m = k * m + m  OBVIOUS
<1>4. ASSUME k # 0 PROVE k - 1 \in Nat /\ k - 1 + 1 = k  BY <1>4
<1>5. ASSUME k # 0, NEW m \in Nat PROVE k * m = (k - 1) * m + m
  <2>1. \A n \in Nat : (n + 1) * m = n * m + m  OBVIOUS
  <2>2. QED  BY <1>4, <1>5, <2>1
<1>6. k = 0 => \A m \in Nat : (k + 1) * m = m /\ k * m = 0  OBVIOUS
<1>7. QED  BY <1>1, <1>2, <1>3, <1>4, <1>5, <1>6

(* A login that the budget of all does not admit can only purge. *)
LEMMA RefusalKeeps ==
  ASSUME ThrottleInv, table' \subseteq table, budget' = budget, instant' = instant
  PROVE  ThrottleInv'
<1>1. IsFiniteSet(table') /\ Cardinality(table') <= Cardinality(table)
  BY FS_Subset DEF ThrottleInv
<1>2. Cardinality(table) \in Nat /\ Cardinality(table') \in Nat
  BY <1>1, FS_CardinalityType DEF ThrottleInv
<1>3. ASSUME NEW x PROVE Cardinality(After(table', x)) <= Cardinality(After(table, x))
                         /\ Cardinality(After(table, x)) \in Nat /\ Cardinality(After(table', x)) \in Nat
  <2>1. After(table, x) \subseteq table /\ After(table', x) \subseteq After(table, x)  BY DEF After
  <2>2. IsFiniteSet(After(table, x))  BY <2>1, FS_Subset DEF ThrottleInv
  <2>3. QED  BY <2>1, <2>2, FS_Subset, FS_CardinalityType
<1>4. ThrottleTypeOK' /\ MadeByNow'  BY DEF ThrottleInv, ThrottleTypeOK, MadeByNow
<1>5. WindowsAdmit'
  <2>1. CASE budget.attempts = 0  BY <2>1 DEF ThrottleInv, WindowsAdmit
  <2>2. CASE budget.attempts # 0
    <3>1. ASSUME NEW k \in Nat
          PROVE  Cardinality(After(table', Line(k))) < k * Global + budget.attempts
      <4>1. Cardinality(After(table, Line(k))) < k * Global + budget.attempts
        BY <2>2 DEF ThrottleInv, WindowsAdmit
      <4>2. budget.attempts \in Nat  BY WindowIs DEF Budget
      <4>3. /\ Cardinality(After(table', Line(k))) <= Cardinality(After(table, Line(k)))
            /\ Cardinality(After(table, Line(k))) \in Nat /\ Cardinality(After(table', Line(k))) \in Nat
        BY <1>3
      <4>4. k * Global \in Nat  BY ThrottleAssumption
      <4>5. QED  BY <4>1, <4>2, <4>3, <4>4
    <3>2. \A k \in Nat : Line(k)' = Line(k)  BY DEF Line
    <3>3. QED  BY <2>2, <3>1, <3>2 DEF WindowsAdmit, After
  <2>3. QED  BY <2>1, <2>2
<1>6. TableIsBounded'
  <2>1. Global * (Horizon \div Minute + 1) \in Int  BY ThrottleAssumption
  <2>2. Cardinality(table') < Global * (Horizon \div Minute + 1)
    BY <1>1, <1>2, <2>1 DEF ThrottleInv, TableIsBounded
  <2>3. QED  BY <2>2 DEF ThrottleInv, TableIsBounded
<1>7. QED  BY <1>1, <1>4, <1>5, <1>6 DEF ThrottleInv

(* What a login that is admitted leaves. *)
Admitted(a, kept, row) ==
  /\ kept \subseteq table /\ row \in AccountRow /\ row.account = a
  /\ table' \subseteq {r \in kept : r.account # a} \cup {row}
  /\ \/ row.resetsAt = instant + Horizon
     \/ \E r \in kept : r.account = a /\ r.resetsAt = row.resetsAt
  /\ instant' = instant /\ Renewed.attempts < Global
  /\ budget'.attempts = Renewed.attempts + 1 /\ budget'.resetsAt = Renewed.resetsAt

LEMMA AdmittedCount ==
  ASSUME ThrottleInv, NEW a \in Accounts, NEW kept, NEW row, Admitted(a, kept, row),
         NEW x \in Int, NEW y \in Int, y <= x
  PROVE  /\ Cardinality(After(table', x)) <= Cardinality(After(table, y)) + 1
         /\ Cardinality(After(table', x)) \in Nat /\ Cardinality(After(table, y)) \in Nat
<1>1. After(table, y) \subseteq table  BY DEF After
<1>2. IsFiniteSet(After(table, y))  BY <1>1, FS_Subset DEF ThrottleInv
<1>3. \A r \in table : r.resetsAt \in Nat  BY DEF ThrottleInv, ThrottleTypeOK, AccountRow
<1>4. After(table', x) \subseteq After(table, y) \cup {row}
  BY <1>3 DEF Admitted, After
<1>5. QED  BY <1>2, <1>4, AddsOne, FS_CardinalityType

LEMMA AdmittedWindows ==
  ASSUME ThrottleInv, NEW a \in Accounts, NEW kept, NEW row, Admitted(a, kept, row)
  PROVE  MadeByNow' /\ WindowsAdmit'
<1> DEFINE resets == Renewed.resetsAt
<1>1. /\ instant \in Nat /\ budget \in Budget /\ Renewed \in Budget
      /\ budget.resetsAt \in Nat /\ budget.attempts \in Nat /\ budget.attempts <= Global
      /\ resets \in Nat /\ Renewed.attempts \in Nat /\ Minute \in Nat \ {0} /\ Horizon \in Nat \ {0} /\ Global \in Nat \ {0}
  BY WindowIs, ThrottleAssumption DEF Budget
<1>2. instant < resets /\ budget.resetsAt <= resets /\ resets <= instant + Minute
  BY <1>1, WindowIs DEF Over, ThrottleInv, MadeByNow
<1>3. \A r \in table : r.resetsAt \in Nat /\ r.resetsAt < budget.resetsAt + Horizon
  BY DEF ThrottleInv, ThrottleTypeOK, AccountRow, MadeByNow
<1>4. row.resetsAt \in Nat /\ (row.resetsAt = instant + Horizon \/ row.resetsAt < budget.resetsAt + Horizon)
  BY <1>3 DEF Admitted, AccountRow
<1>5. MadeByNow'
  <2>1. \A r \in table' : r.resetsAt < resets + Horizon
    BY <1>1, <1>2, <1>3, <1>4 DEF Admitted
  <2>2. QED  BY <1>2, <2>1 DEF Admitted, MadeByNow
<1>6. budget'.attempts = Renewed.attempts + 1 /\ budget'.attempts # 0 /\ budget'.resetsAt = resets
  BY <1>1 DEF Admitted
<1>7. ASSUME NEW k \in Nat
      PROVE  Cardinality(After(table', resets + Horizon - (k + 1) * Minute)) < k * Global + Renewed.attempts + 1
  <2> DEFINE x == resets + Horizon - (k + 1) * Minute
  <2>1. (k + 1) * Minute \in Nat /\ k * Global \in Nat /\ x \in Int  BY <1>1, LinesBack
  <2>2. CASE ~Over(budget)
    <3>1. Renewed = budget /\ x = Line(k)  BY <2>2, WindowIs DEF Line
    <3>2. budget.attempts # 0  BY <1>1, <2>2 DEF Over, ThrottleInv, WindowsAdmit
    <3>3. Cardinality(After(table, x)) < k * Global + budget.attempts
      BY <3>1, <3>2 DEF ThrottleInv, WindowsAdmit
    <3>4. Cardinality(After(table', x)) <= Cardinality(After(table, x)) + 1
          /\ Cardinality(After(table', x)) \in Nat /\ Cardinality(After(table, x)) \in Nat
      BY <2>1, AdmittedCount
    <3>5. QED  BY <1>1, <2>1, <3>1, <3>3, <3>4
  <2>3. CASE Over(budget) /\ k = 0
    <3>1. Renewed.attempts = 0 /\ x = instant + Horizon /\ k * Global = 0
      BY <1>1, <2>3, WindowIs, LinesBack
    <3>2. budget.resetsAt <= instant  BY <2>3 DEF Over
    <3>3. \A r \in table' : ~(r.resetsAt > x)
      BY <1>1, <1>3, <1>4, <3>1, <3>2 DEF Admitted
    <3>4. After(table', x) = {}  BY <3>3 DEF After
    <3>5. Cardinality(After(table', x)) = 0  BY <3>4, FS_EmptySet
    <3>6. QED  BY <1>1, <3>1, <3>5
  <2>4. CASE Over(budget) /\ k # 0
    <3>1. /\ k - 1 \in Nat /\ (k + 1) * Minute = (k - 1 + 1) * Minute + Minute
          /\ k * Global = (k - 1) * Global + Global
      BY <2>4, LinesBack
    <3>2. (k - 1 + 1) * Minute \in Nat /\ (k - 1) * Global \in Nat  BY <3>1, LinesBack
    <3>3. Renewed.attempts = 0 /\ resets = instant + Minute /\ budget.resetsAt <= instant
      BY <2>4, WindowIs DEF Over
    <3>4. Line(k - 1) \in Int /\ Line(k - 1) <= x
      BY <1>1, <3>1, <3>2, <3>3 DEF Line
    <3>5. Cardinality(After(table', x)) <= Cardinality(After(table, Line(k - 1))) + 1
          /\ Cardinality(After(table', x)) \in Nat /\ Cardinality(After(table, Line(k - 1))) \in Nat
      BY <2>1, <3>4, AdmittedCount
    <3>6. CASE budget.attempts = 0
      <4>1. After(table, Line(k - 1)) = {}  BY <3>6 DEF ThrottleInv, WindowsAdmit, After
      <4>2. QED  BY <1>1, <2>1, <3>1, <3>2, <3>3, <3>5, <4>1, FS_EmptySet
    <3>7. CASE budget.attempts # 0
      <4>1. Cardinality(After(table, Line(k - 1))) < (k - 1) * Global + budget.attempts
        BY <3>1, <3>7 DEF ThrottleInv, WindowsAdmit
      <4>2. QED  BY <1>1, <2>1, <3>1, <3>2, <3>3, <3>5, <4>1
    <3>8. QED  BY <3>6, <3>7
  <2>5. QED  BY <2>2, <2>3, <2>4
<1>8. WindowsAdmit'
  <2>1. \A k \in Nat : Line(k)' = resets + Horizon - (k + 1) * Minute  BY <1>6 DEF Line
  <2>2. ASSUME NEW k \in Nat PROVE Cardinality(After(table', Line(k)')) < k * Global + budget'.attempts
    <3>1. k * Global \in Nat /\ k * Global + Renewed.attempts + 1 = k * Global + budget'.attempts
      BY <1>1, <1>6, LinesBack
    <3>2. QED  BY <1>7, <2>1, <3>1
  <2>3. QED  BY <1>6, <2>2 DEF WindowsAdmit, After
<1>9. QED  BY <1>5, <1>8

LEMMA AdmittedBound ==
  ASSUME ThrottleInv, NEW a \in Accounts, NEW old \in SUBSET table, NEW row, Purges(old),
         Admitted(a, table \ old, row), WindowsAdmit'
  PROVE  TableIsBounded'
<1> DEFINE q == Horizon \div Minute
           resets == Renewed.resetsAt
<1>1. /\ instant \in Nat /\ budget \in Budget /\ resets \in Nat /\ Renewed.attempts \in Nat
      /\ Minute \in Nat \ {0} /\ Horizon \in Nat \ {0} /\ Global \in Nat \ {0} /\ Batch \in Nat \ {0}
      /\ budget.resetsAt \in Nat
  BY WindowIs, ThrottleAssumption DEF Budget
<1>2. resets <= instant + Minute
  BY <1>1, WindowIs DEF Over, ThrottleInv, MadeByNow
<1>3. q \in Nat /\ Horizon = Minute * q  BY <1>1, ThrottleAssumption
<1> HIDE DEF q
<1>4. (q + 1) * Minute = Horizon + Minute /\ Global * (q + 1) = q * Global + Global /\ q * Global \in Nat
  BY <1>1, <1>3
<1>5. \A r, other \in table' : r.account = other.account => r = other
  BY DEF Admitted, ThrottleInv, TableIsBounded
<1>6. \A r \in table : r.resetsAt \in Nat  BY DEF ThrottleInv, ThrottleTypeOK, AccountRow
<1>7. CASE old = {r \in table : Over(r)}
  <2>1. \A r \in table \ old : r.resetsAt > instant  BY <1>1, <1>6, <1>7 DEF Over
  <2>2. row.resetsAt > instant  BY <1>1, <2>1 DEF Admitted
  <2>3. \A r \in table' : r.resetsAt > instant /\ r.resetsAt \in Nat  BY <1>6, <2>1, <2>2 DEF Admitted, AccountRow
  <2>4. Line(q)' <= instant /\ Line(q)' \in Int  BY <1>1, <1>2, <1>4 DEF Line, Admitted
  <2>5. After(table', Line(q)') = table'  BY <1>1, <2>3, <2>4 DEF After
  <2>6. budget'.attempts = Renewed.attempts + 1 /\ budget'.attempts # 0 /\ budget'.attempts <= Global
    BY <1>1 DEF Admitted
  <2>7. \A k \in Nat : Cardinality(After(table', Line(k)')) < k * Global + budget'.attempts
    BY <2>6 DEF WindowsAdmit, After
  <2>8. Cardinality(table') < q * Global + budget'.attempts  BY <1>3, <2>5, <2>7
  <2>9. Cardinality(table') \in Nat
    BY AddsOne, FS_Subset DEF ThrottleInv, Admitted
  <2>10. Cardinality(table') < Global * (q + 1)  BY <1>1, <1>4, <2>6, <2>8, <2>9
  <2>11. QED  BY <1>5, <2>10 DEF TableIsBounded, q
<1>8. CASE old # {r \in table : Over(r)}
  <2>1. Cardinality(old) = Batch  BY <1>8 DEF Purges
  <2>2. old # {}  BY <1>1, <2>1, FS_EmptySet
  <2>3. PICK y \in old : TRUE  BY <2>2
  <2>4. table' \subseteq (table \ {y}) \cup {row}  BY <2>3 DEF Admitted
  <2>5. IsFiniteSet(table) /\ y \in table  BY <2>3 DEF ThrottleInv
  <2>6. Cardinality(table') <= Cardinality(table)  BY <2>4, <2>5, SwapsOne
  <2>7. table' \subseteq table \cup {row}  BY <2>4
  <2>8. Cardinality(table') \in Nat /\ Cardinality(table) \in Nat
    BY <2>5, <2>7, AddsOne, FS_CardinalityType
  <2>9. Cardinality(table) < Global * (q + 1) /\ Global * (q + 1) \in Nat
    BY <1>1, <1>3, <1>4 DEF ThrottleInv, TableIsBounded, q
  <2>10. Cardinality(table') < Global * (q + 1)  BY <2>6, <2>8, <2>9
  <2>11. QED  BY <1>5, <2>10 DEF TableIsBounded, q
<1>9. QED  BY <1>7, <1>8

LEMMA AdmissionKeeps ==
  ASSUME ThrottleInv, NEW a \in Accounts, AdmitLogin(a)
  PROVE  ThrottleInv'
<1>1. PICK old \in SUBSET table :
        /\ Purges(old) /\ table' = TableAfter(a, table \ old) /\ budget' = BudgetAfter /\ instant' = instant
  BY DEF AdmitLogin
<1>2. CASE ~(Renewed.attempts < Global)
  BY <1>1, <1>2, RefusalKeeps DEF TableAfter, BudgetAfter
<1>3. CASE Renewed.attempts < Global
  <2> DEFINE kept == table \ old
  <2>1. table' = Charged(a, kept) /\ budget' = [Renewed EXCEPT !.attempts = @ + 1]
    BY <1>1, <1>3 DEF TableAfter, BudgetAfter
  <2>2. Renewed \in Budget  BY WindowIs
  <2>3. /\ budget'.attempts = Renewed.attempts + 1 /\ budget'.resetsAt = Renewed.resetsAt
        /\ budget' \in Budget
    BY <1>3, <2>1, <2>2, ThrottleAssumption DEF Budget
  <2>4. PICK row \in AccountRow :
           /\ row.account = a
           /\ Charged(a, kept) \subseteq {r \in kept : r.account # a} \cup {row}
           /\ \/ row.resetsAt = instant + Horizon
              \/ \E r \in kept : r.account = a /\ r.resetsAt = row.resetsAt
    BY ChargeIs
  <2>5. Admitted(a, kept, row)  BY <1>1, <1>3, <2>1, <2>3, <2>4 DEF Admitted
  <2>6. MadeByNow' /\ WindowsAdmit'  BY <2>5, AdmittedWindows
  <2>7. TableIsBounded'  BY <1>1, <2>5, <2>6, AdmittedBound
  <2>8. IsFiniteSet(table')
    <3>1. IsFiniteSet(table) /\ table' \subseteq table \cup {row}  BY <2>5 DEF Admitted, ThrottleInv
    <3>2. QED  BY <3>1, AddsOne
  <2>9. ThrottleTypeOK'
    <3>1. table' \subseteq AccountRow  BY <2>5 DEF Admitted, ThrottleInv, ThrottleTypeOK
    <3>2. QED  BY <1>1, <2>3, <3>1 DEF ThrottleInv, ThrottleTypeOK
  <2>10. QED  BY <2>6, <2>7, <2>8, <2>9 DEF ThrottleInv
<1>4. QED  BY <1>2, <1>3

LEMMA TickKeeps == ThrottleInv /\ ClockTicks => ThrottleInv'
<1> SUFFICES ASSUME ThrottleInv, ClockTicks PROVE ThrottleInv'  OBVIOUS
<1>1. instant \in 0..MaxInstant /\ instant' = instant + 1 /\ instant < MaxInstant
      /\ table' = table /\ budget' = budget
  BY DEF ThrottleInv, ThrottleTypeOK, ClockTicks
<1>2. ThrottleTypeOK'  BY <1>1, ThrottleAssumption DEF ThrottleInv, ThrottleTypeOK
<1>3. MadeByNow'
  BY <1>1, ThrottleAssumption DEF ThrottleInv, ThrottleTypeOK, Budget, MadeByNow
<1>4. WindowsAdmit' /\ TableIsBounded'
  BY <1>1 DEF ThrottleInv, WindowsAdmit, TableIsBounded, Line, After
<1>5. QED  BY <1>1, <1>2, <1>3, <1>4 DEF ThrottleInv

LEMMA ThrottleInvariant == ThrottleSpec => []ThrottleInv
<1>1. ThrottleInit => ThrottleInv
  <2> SUFFICES ASSUME ThrottleInit PROVE ThrottleInv  OBVIOUS
  <2>1. Global * (Horizon \div Minute + 1) > 0
    <3>1. Global \in Nat \ {0} /\ Horizon \div Minute \in Nat  BY ThrottleAssumption
    <3>2. \A n \in Nat : Global * (n + 1) = Global * n + Global /\ Global * n \in Nat  BY <3>1
    <3>3. QED  BY <3>1, <3>2
  <2>2. ThrottleTypeOK
    BY ThrottleAssumption DEF ThrottleInit, ThrottleTypeOK, Budget
  <2>3. IsFiniteSet(table) /\ Cardinality(table) = 0  BY FS_EmptySet DEF ThrottleInit
  <2>4. MadeByNow /\ WindowsAdmit
    BY ThrottleAssumption DEF ThrottleInit, MadeByNow, WindowsAdmit
  <2>5. TableIsBounded  BY <2>1, <2>3 DEF ThrottleInit, TableIsBounded
  <2>6. QED  BY <2>2, <2>3, <2>4, <2>5 DEF ThrottleInv
<1>2. ThrottleInv /\ [ThrottleNext]_throttle => ThrottleInv'
  <2> SUFFICES ASSUME ThrottleInv, [ThrottleNext]_throttle PROVE ThrottleInv'  OBVIOUS
  <2>1. CASE UNCHANGED throttle
    BY <2>1, RefusalKeeps DEF throttle
  <2>2. QED  BY <2>1, TickKeeps, AdmissionKeeps DEF ThrottleNext
<1>3. QED  BY <1>1, <1>2, PTL DEF ThrottleSpec

(* The counters of the login throttle stay within their budgets, and a row  *)
(* counts one attempt at least.                                             *)
THEOREM ThrottleTypes == ThrottleSpec => []ThrottleTypeOK
  BY ThrottleInvariant, PTL DEF ThrottleInv

(* The table of the login throttle is bounded by the logins that the        *)
(* windows of one horizon admit, for every budget and batch, every horizon  *)
(* of whole minutes, and however many accounts are tried (admit_login).     *)
THEOREM ThrottleIsBounded == ThrottleSpec => []TableIsBounded
  BY ThrottleInvariant, PTL DEF ThrottleInv
=============================================================================
