-------------------------- MODULE ConnectionProofs --------------------------
(***************************************************************************)
(* For any number of managers, link commands, tokens and disturbances: the *)
(* types, one socket and one owner at a time, and what a step may do to    *)
(* credentials, to the state and to a command.                             *)
(*                                                                         *)
(* The argument is the advisory lock's. As long as the database keeps it,  *)
(* every attempt that drew a token holds the lock under that token, so     *)
(* there is one; and a socket is live only between the takeover and the    *)
(* release of its attempt.                                                 *)
(***************************************************************************)
EXTENDS Connection, TLAPS

Owning == {"checking", "replayed", "connecting", "connected", "active"}

(* How far an attempt has come tells whether it has a token and a socket. *)
AttemptOK(a) ==
  /\ a.pc \in {"claimed", "reserving"} <=> a.token = NULL
  /\ a.socket # "none" => a.pc \in {"connected", "active", "releasing"}
  /\ Live(a) => a.pc # "releasing"
  /\ a.socket = "none" => a.events = {}

AttemptsOK == \A a \in attempts : AttemptOK(a)
TokensDistinct == \A a, b \in attempts : a.token # NULL /\ a.token = b.token => a = b
LockIsHeld == ~lockLost => \A a \in attempts : a.token # NULL => lock = a.token
OwnsIt == ~lockLost => \A a \in attempts : a.pc \in Owning => ownership = a.token

IInv == TypeOK /\ AttemptsOK /\ TokensDistinct /\ LockIsHeld /\ OwnsIt

Leases == AttemptsOK /\ TokensDistinct /\ LockIsHeld /\ OwnsIt

-----------------------------------------------------------------------------
(* What the shapes of a step do to the leases.                              *)

(* An attempt that goes on, under the token it has *)
LEMMA GoesOn ==
  ASSUME Leases, NEW a \in attempts, NEW b, Replace(a, b), AttemptOK(b),
         b.token = a.token, b.pc \in Owning => a.pc \in Owning,
         UNCHANGED <<lock, ownership, lockLost>>
  PROVE  Leases'
  <1>1. \A d \in attempts' : d = b \/ (d \in attempts /\ d # a) BY DEF Replace
  <1>2. AttemptsOK' BY <1>1 DEF Leases, AttemptsOK
  <1>3. TokensDistinct' BY <1>1 DEF Leases, TokensDistinct
  <1>4. LockIsHeld' BY <1>1 DEF Leases, LockIsHeld
  <1>5. OwnsIt' BY <1>1 DEF Leases, OwnsIt
  <1> QED BY <1>2, <1>3, <1>4, <1>5 DEF Leases

(* Attempts that end without having had a token, or die with the lock's owner untouched *)
LEMMA SomeEnd ==
  ASSUME Leases, attempts' \subseteq attempts, UNCHANGED <<lock, ownership, lockLost>>
  PROVE  Leases'
  BY DEF Leases, AttemptsOK, TokensDistinct, LockIsHeld, OwnsIt

LEMMA OneBegins ==
  ASSUME Leases, NEW p, NEW c, NEW k, attempts' = attempts \cup {NewAttempt(p, c, k)},
         UNCHANGED <<lock, ownership, lockLost>>
  PROVE  Leases'
  <1> DEFINE b == NewAttempt(p, c, k)
  <1>1. b.token = NULL /\ b.pc = "claimed" /\ b.socket = "none" /\ b.events = {} BY DEF NewAttempt
  <1>2. AttemptOK(b) /\ attempts' = attempts \cup {b} BY <1>1 DEF AttemptOK, Live
  <1> HIDE DEF b
  <1>3. AttemptsOK' BY <1>2 DEF Leases, AttemptsOK
  <1>4. TokensDistinct' BY <1>1, <1>2 DEF Leases, TokensDistinct
  <1>5. LockIsHeld' BY <1>1, <1>2 DEF Leases, LockIsHeld
  <1>6. OwnsIt' BY <1>1, <1>2 DEF Leases, OwnsIt, Owning
  <1> QED BY <1>3, <1>4, <1>5, <1>6 DEF Leases

(* What a replaced attempt is worth to the types *)
LEMMA ReplaceType ==
  ASSUME TypeOK, NEW a, NEW b \in Attempt, Replace(a, b) PROVE attempts' \subseteq Attempt
  BY DEF TypeOK, Replace

LEMMA AcknowledgedType ==
  ASSUME TypeOK, NEW a \in Attempt, NEW token PROVE Acknowledged(a, token) \in [Commands -> Command]
  <1>1. CASE Acknowledged(a, token) = command BY <1>1 DEF TypeOK
  <1>2. CASE a.command # NULL /\ Acknowledged(a, token) =
               [command EXCEPT ![a.command].state = "published", ![a.command].claim = NULL]
    <2>1. a.command \in Commands BY <1>2 DEF Attempt
    <2>2. command[a.command] \in Command BY <2>1 DEF TypeOK
    <2>3. [command[a.command] EXCEPT !.state = "published", !.claim = NULL] \in Command
      BY <2>2 DEF Command
    <2> QED BY <1>2, <2>1, <2>3 DEF TypeOK
  <1> QED BY <1>1, <1>2 DEF Acknowledged

LEMMA DisturbType == ASSUME TypeOK, NEW kind, Disturb(kind) PROVE faults' \in 0..MaxFaults
  BY ConnectionAssumption DEF TypeOK, Disturb

-----------------------------------------------------------------------------
(* Steps that leave the leases alone: the API, the codes, the claims' time  *)

LEMMA SameLeases == ASSUME Leases, UNCHANGED <<leaseVars, ownership, lockLost>> PROVE Leases'
  BY SomeEnd DEF leaseVars

LEMMA CommandType ==
  ASSUME TypeOK, NEW c \in Commands, NEW r \in Command, command' = [command EXCEPT ![c] = r]
  PROVE  command' \in [Commands -> Command]
  BY DEF TypeOK

LEMMA RequestStep ==
  ASSUME IInv, NEW c \in Commands, CheckLink(c) \/ RequestLink(c) PROVE IInv'
  <1>1. UNCHANGED <<rowVars, ownership, leaseVars, envVars>> BY DEF CheckLink, RequestLink
  <1>2. PICK s \in {"checked", "requested"} : command' = [command EXCEPT ![c].state = s]
    BY DEF CheckLink, RequestLink
  <1>3. [command[c] EXCEPT !.state = s] \in Command BY DEF IInv, TypeOK, Command
  <1>4. command' \in [Commands -> Command] BY <1>2, <1>3 DEF IInv, TypeOK
  <1>5. TypeOK' BY <1>1, <1>4 DEF IInv, TypeOK, rowVars, leaseVars, envVars
  <1> QED BY <1>1, <1>5, SameLeases DEF IInv, Leases, envVars

LEMMA LapseStep == ASSUME IInv, NEW c \in Commands, LapseClaim(c) PROVE IInv'
  <1>1. UNCHANGED <<rowVars, ownership, leaseVars, businessActive, lockLost>> BY DEF LapseClaim
  <1>2. faults' \in 0..MaxFaults BY DisturbType DEF LapseClaim, IInv, TypeOK
  <1>3. [command[c] EXCEPT !.lapsed = TRUE] \in Command BY DEF IInv, TypeOK, Command
  <1>4. command' \in [Commands -> Command] BY <1>3 DEF LapseClaim, IInv, TypeOK
  <1>5. TypeOK' BY <1>1, <1>2, <1>4 DEF IInv, TypeOK, rowVars, leaseVars
  <1> QED BY <1>1, <1>5, SameLeases DEF IInv, Leases

LEMMA OutsideStep == ASSUME IInv, ExpireLinkCode \/ SetBusinessStatus PROVE IInv'
  <1>1. UNCHANGED <<leaseVars, ownership, lockLost>>
    BY DEF ExpireLinkCode, SetBusinessStatus, envVars, leaseVars
  <1>2. CASE ExpireLinkCode
    <2>1. TypeOK' BY <1>2 DEF ExpireLinkCode, IInv, TypeOK, leaseVars, envVars
    <2> QED BY <1>1, <2>1, SameLeases DEF IInv, Leases
  <1>3. CASE SetBusinessStatus
    <2>1. faults' \in 0..MaxFaults BY <1>3, DisturbType DEF SetBusinessStatus, IInv, TypeOK
    <2>2. businessActive' \in BOOLEAN BY <1>3 DEF SetBusinessStatus
    <2>3. TypeOK' BY <1>3, <2>1, <2>2 DEF SetBusinessStatus, IInv, TypeOK, rowVars, leaseVars
    <2> QED BY <1>1, <2>3, SameLeases DEF IInv, Leases
  <1> QED BY <1>2, <1>3

-----------------------------------------------------------------------------
(* Attempts that begin                                                      *)

LEMMA NewAttemptType ==
  ASSUME NEW p \in Managers, NEW c \in Commands \cup {NULL}, NEW k \in Claims \cup {NULL}
  PROVE  NewAttempt(p, c, k) \in Attempt
  BY DEF NewAttempt, Attempt

LEMMA ClaimStep ==
  ASSUME IInv, NEW p \in Managers, NEW c \in Commands, ClaimWhatsAppLink(p, c) PROVE IInv'
  <1>1. PICK k \in Claims : /\ command' = [command EXCEPT ![c].claim = k, ![c].lapsed = FALSE]
                            /\ attempts' = attempts \cup {NewAttempt(p, c, k)}
    BY DEF ClaimWhatsAppLink
  <1>2. UNCHANGED <<rowVars, ownership, active, lock, envVars>> BY DEF ClaimWhatsAppLink
  <1>3. [command[c] EXCEPT !.claim = k, !.lapsed = FALSE] \in Command BY DEF IInv, TypeOK, Command
  <1>4. command' \in [Commands -> Command] BY <1>1, <1>3 DEF IInv, TypeOK
  <1>5. attempts' \subseteq Attempt BY <1>1, NewAttemptType DEF IInv, TypeOK
  <1>6. TypeOK' BY <1>2, <1>4, <1>5 DEF IInv, TypeOK, rowVars, envVars
  <1>7. Leases' BY <1>1, <1>2, OneBegins DEF IInv, Leases, envVars
  <1> QED BY <1>6, <1>7 DEF IInv, Leases

LEMMA RestartStep == ASSUME IInv, NEW p \in Managers, Restart(p) PROVE IInv'
  <1>1. attempts' = attempts \cup {NewAttempt(p, NULL, NULL)} BY DEF Restart
  <1>2. UNCHANGED <<rowVars, ownership, command, active, lock, envVars>> BY DEF Restart
  <1>3. attempts' \subseteq Attempt BY <1>1, NewAttemptType DEF IInv, TypeOK
  <1>4. TypeOK' BY <1>2, <1>3 DEF IInv, TypeOK, rowVars, envVars
  <1>5. Leases' BY <1>1, <1>2, OneBegins DEF IInv, Leases, envVars
  <1> QED BY <1>4, <1>5 DEF IInv, Leases

-----------------------------------------------------------------------------
(* start(), between the lock and the handing off                            *)

LEMMA Parts == ASSUME IInv, NEW a \in attempts PROVE a \in Attempt /\ AttemptOK(a) /\ Leases
  BY DEF IInv, TypeOK, AttemptsOK, Leases

LEMMA UseActiveStep == ASSUME IInv, NEW a \in attempts, UseActive(a) PROVE IInv'
  <1>1. UNCHANGED <<rowVars, ownership, active, lock, envVars>> /\ attempts' = attempts \ {a}
    BY DEF UseActive
  <1>2. command' \in [Commands -> Command] BY Parts, AcknowledgedType DEF UseActive, IInv
  <1>3. TypeOK' BY <1>1, <1>2 DEF IInv, TypeOK, rowVars, envVars
  <1>4. Leases' BY <1>1, Parts, SomeEnd DEF envVars
  <1> QED BY <1>3, <1>4 DEF IInv, Leases

LEMMA LockBusyStep == ASSUME IInv, NEW a \in attempts, LockBusy(a) PROVE IInv'
  <1>1. UNCHANGED <<rowVars, ownership, command, active, lock, envVars>> /\ attempts' = attempts \ {a}
    BY DEF LockBusy
  <1>2. TypeOK' BY <1>1 DEF IInv, TypeOK, rowVars, envVars
  <1>3. Leases' BY <1>1, Parts, SomeEnd DEF envVars
  <1> QED BY <1>2, <1>3 DEF IInv, Leases

(* A step that only brings an attempt from a to b *)
LEMMA OnlyAttempt ==
  ASSUME IInv, NEW a \in attempts, NEW b \in Attempt, Replace(a, b), AttemptOK(b),
         b.token = a.token, b.pc \in Owning => a.pc \in Owning,
         UNCHANGED <<rowVars, ownership, command, active, lock, envVars>>
  PROVE  IInv'
  <1>1. Leases' BY Parts, GoesOn DEF envVars
  <1>2. TypeOK' BY ReplaceType DEF IInv, TypeOK, rowVars, envVars
  <1> QED BY <1>1, <1>2 DEF IInv, Leases

LEMMA GoOnStep == ASSUME IInv, NEW a \in attempts, GoOn(a) PROVE IInv'
  <1> DEFINE b == [a EXCEPT !.pc = "reserving"]
  <1>1. a \in Attempt /\ AttemptOK(a) BY Parts
  <1>2. b \in Attempt BY <1>1 DEF Attempt
  <1>3. AttemptOK(b) /\ b.token = a.token /\ b.pc \notin Owning
    BY <1>1 DEF Attempt, AttemptOK, Live, GoOn, Owning
  <1>4. Replace(a, b) /\ UNCHANGED <<rowVars, ownership, command, active, lock, envVars>> BY DEF GoOn
  <1> HIDE DEF b
  <1> QED BY <1>2, <1>3, <1>4, OnlyAttempt

LEMMA CheckAdmittedStep == ASSUME IInv, NEW a \in attempts, CheckAdmitted(a) PROVE IInv'
  <1> DEFINE b == [a EXCEPT !.pc = IF Replayed(a) THEN "replayed" ELSE "connecting"]
  <1>1. a \in Attempt /\ AttemptOK(a) BY Parts
  <1>2. b \in Attempt BY <1>1 DEF Attempt
  <1>3. AttemptOK(b) /\ b.token = a.token /\ a.pc \in Owning
    BY <1>1 DEF Attempt, AttemptOK, Live, CheckAdmitted, Owning
  <1>4. Replace(a, b) /\ UNCHANGED <<rowVars, ownership, command, active, lock, envVars>>
    BY DEF CheckAdmitted
  <1> HIDE DEF b
  <1> QED BY <1>2, <1>3, <1>4, OnlyAttempt

LEMMA AcknowledgeReplayStep == ASSUME IInv, NEW a \in attempts, AcknowledgeReplay(a) PROVE IInv'
  <1> DEFINE b == [a EXCEPT !.pc = "releasing"]
  <1>1. a \in Attempt /\ AttemptOK(a) /\ Leases BY Parts
  <1>2. b \in Attempt BY <1>1 DEF Attempt
  <1>3. AttemptOK(b) /\ b.token = a.token /\ b.pc \notin Owning
    BY <1>1 DEF Attempt, AttemptOK, Live, AcknowledgeReplay, Owning
  <1>4. Replace(a, b) /\ UNCHANGED <<rowVars, ownership, active, lock, envVars>>
    BY DEF AcknowledgeReplay
  <1>5. command' \in [Commands -> Command] BY <1>1, AcknowledgedType DEF AcknowledgeReplay, IInv
  <1> HIDE DEF b
  <1>6. Leases' BY <1>1, <1>2, <1>3, <1>4, GoesOn DEF envVars
  <1>7. TypeOK' BY <1>2, <1>4, <1>5, ReplaceType DEF IInv, TypeOK, rowVars, envVars
  <1> QED BY <1>6, <1>7 DEF IInv, Leases

LEMMA ConnectStep == ASSUME IInv, NEW a \in attempts, Connect(a) PROVE IInv'
  <1> DEFINE b == [a EXCEPT !.pc = "connected", !.socket = "up",
                            !.creds = IF paired THEN "saved" ELSE "none"]
  <1>1. a \in Attempt /\ AttemptOK(a) BY Parts
  <1>2. b \in Attempt BY <1>1 DEF Attempt
  <1>3. AttemptOK(b) /\ b.token = a.token /\ a.pc \in Owning
    BY <1>1 DEF Attempt, AttemptOK, Live, Connect, Owning
  <1>4. Replace(a, b) /\ UNCHANGED <<rowVars, ownership, command, active, lock, envVars>> BY DEF Connect
  <1> HIDE DEF b
  <1> QED BY <1>2, <1>3, <1>4, OnlyAttempt

LEMMA ConnectFailsStep == ASSUME IInv, NEW a \in attempts, ConnectFails(a) PROVE IInv'
  <1> DEFINE b == [a EXCEPT !.pc = "releasing"]
  <1>1. a \in Attempt /\ AttemptOK(a) /\ Leases BY Parts
  <1>2. b \in Attempt BY <1>1 DEF Attempt
  <1>3. AttemptOK(b) /\ b.token = a.token /\ b.pc \notin Owning
    BY <1>1 DEF Attempt, AttemptOK, Live, ConnectFails, Owning
  <1>4. /\ Replace(a, b) /\ UNCHANGED <<ownership, command, active, lock, lockLost>>
        /\ UNCHANGED <<linkPending, linkCommand, paired, businessActive>>
    BY DEF ConnectFails
  <1>5. state' \in ConnectionState /\ linkCode' \in Tokens \cup {NULL}
    BY DEF ConnectFails, Invalidated, IInv, TypeOK, ConnectionState
  <1>6. faults' \in 0..MaxFaults BY DisturbType DEF ConnectFails, IInv
  <1> HIDE DEF b
  <1>7. Leases' BY <1>1, <1>2, <1>3, <1>4, GoesOn
  <1>8. TypeOK' BY <1>2, <1>4, <1>5, <1>6, ReplaceType DEF IInv, TypeOK
  <1> QED BY <1>7, <1>8 DEF IInv, Leases

LEMMA HandOffStep == ASSUME IInv, NEW a \in attempts, HandOff(a) PROVE IInv'
  <1> DEFINE b == [a EXCEPT !.pc = "active"]
  <1>1. a \in Attempt /\ AttemptOK(a) /\ Leases BY Parts
  <1>2. b \in Attempt /\ a.token \in Tokens \cup {NULL} /\ a.by \in Managers BY <1>1 DEF Attempt
  <1>3. AttemptOK(b) /\ b.token = a.token /\ a.pc \in Owning
    BY <1>1 DEF Attempt, AttemptOK, Live, HandOff, Owning
  <1>4. Replace(a, b) /\ UNCHANGED <<rowVars, ownership, lock, envVars>> BY DEF HandOff
  <1>5. command' \in [Commands -> Command] BY <1>1, AcknowledgedType DEF HandOff, IInv
  <1>6. active' \in [Managers -> Tokens \cup {NULL}] BY <1>2 DEF HandOff, IInv, TypeOK
  <1> HIDE DEF b
  <1>7. Leases' BY <1>1, <1>2, <1>3, <1>4, GoesOn DEF envVars
  <1>8. TypeOK' BY <1>2, <1>4, <1>5, <1>6, ReplaceType DEF IInv, TypeOK, rowVars, envVars
  <1> QED BY <1>7, <1>8 DEF IInv, Leases

LEMMA EndLeaseStep == ASSUME IInv, NEW a \in attempts, EndLease(a) PROVE IInv'
  <1> DEFINE b == [a EXCEPT !.pc = "releasing"]
  <1>1. a \in Attempt /\ AttemptOK(a) /\ Leases BY Parts
  <1>2. b \in Attempt BY <1>1 DEF Attempt
  <1>3. AttemptOK(b) /\ b.token = a.token /\ b.pc \notin Owning
    BY <1>1 DEF Attempt, AttemptOK, Live, EndLease, Closed, Owning
  <1>4. Replace(a, b) /\ UNCHANGED <<rowVars, ownership, command, lock, envVars>> BY DEF EndLease
  <1>5. active' \in [Managers -> Tokens \cup {NULL}] BY DEF EndLease, IInv, TypeOK
  <1> HIDE DEF b
  <1>6. Leases' BY <1>1, <1>2, <1>3, <1>4, GoesOn DEF envVars
  <1>7. TypeOK' BY <1>2, <1>4, <1>5, ReplaceType DEF IInv, TypeOK, rowVars, envVars
  <1> QED BY <1>6, <1>7 DEF IInv, Leases

-----------------------------------------------------------------------------
(* The lock and the ownership change hands                                  *)

(* Two attempts with tokens are one, as long as the lock is kept *)
LEMMA OneHolder ==
  ASSUME Leases, ~lockLost, NEW a \in attempts, NEW b \in attempts, a.token # NULL, b.token # NULL
  PROVE  a = b
  BY DEF Leases, LockIsHeld, TokensDistinct

LEMMA ReserveLockStep == ASSUME IInv, NEW a \in attempts, ReserveLock(a) PROVE IInv'
  <1>1. PICK t \in Tokens : /\ \A d \in attempts : d.token # t
                            /\ lock' = t /\ Replace(a, [a EXCEPT !.pc = "locked", !.token = t])
    BY DEF ReserveLock
  <1> DEFINE b == [a EXCEPT !.pc = "locked", !.token = t]
  <1>2. a \in Attempt /\ AttemptOK(a) /\ Leases BY Parts
  <1>3. t # NULL BY ConnectionAssumption
  <1>4. b \in Attempt BY <1>2 DEF Attempt
  <1>5. AttemptOK(b) /\ b.token = t /\ b.pc \notin Owning
    BY <1>2, <1>3 DEF Attempt, AttemptOK, Live, ReserveLock, Owning
  <1>6. Replace(a, b) /\ UNCHANGED <<rowVars, ownership, command, active, envVars>> BY <1>1 DEF ReserveLock
  <1> HIDE DEF b
  <1>7. \A d \in attempts' : d = b \/ (d \in attempts /\ d # a) BY <1>6 DEF Replace
  <1>8. AttemptsOK' BY <1>2, <1>5, <1>7 DEF Leases, AttemptsOK
  <1>9. TokensDistinct' BY <1>1, <1>2, <1>5, <1>7 DEF Leases, TokensDistinct
  <1>10. LockIsHeld'
    <2>1. ~lockLost => \A d \in attempts : d.token = NULL BY <1>2 DEF Leases, LockIsHeld, ReserveLock
    <2> QED BY <1>1, <1>5, <1>6, <1>7, <2>1 DEF LockIsHeld, envVars
  <1>11. OwnsIt' BY <1>2, <1>5, <1>6, <1>7 DEF Leases, OwnsIt, envVars
  <1>12. TypeOK' BY <1>1, <1>4, <1>6, ReplaceType DEF IInv, TypeOK, rowVars, envVars
  <1> QED BY <1>8, <1>9, <1>10, <1>11, <1>12 DEF IInv

LEMMA TakeOverStep == ASSUME IInv, NEW a \in attempts, TakeOver(a) PROVE IInv'
  <1> DEFINE b == IF a.command # NULL /\ ~Claimed(a) THEN [a EXCEPT !.pc = "releasing"]
                  ELSE [a EXCEPT !.link = linkCode',
                                 !.pc = IF a.command = NULL THEN "connecting" ELSE "checking"]
  <1>1. a \in Attempt /\ AttemptOK(a) /\ Leases BY Parts
  <1>2. /\ UNCHANGED <<active, lock, envVars>> /\ a.pc = "locked" /\ ownership' = a.token
        /\ Replace(a, b)
    BY DEF TakeOver
  <1>3. /\ state' \in ConnectionState /\ linkPending' \in BOOLEAN /\ paired' \in BOOLEAN
        /\ linkCommand' \in Commands \cup {NULL} /\ linkCode' \in Tokens \cup {NULL}
        /\ command' \in [Commands -> Command]
    <2>1. CASE Admits(a)
      <3>1. /\ state' = "LINKING" /\ linkPending' = TRUE /\ linkCommand' = a.command
            /\ paired' = FALSE /\ linkCode' = NULL
            /\ command' = [command EXCEPT ![a.command].admitted = TRUE]
        BY <2>1 DEF TakeOver
      <3>2. a.command \in Commands BY <1>1, <2>1 DEF Admits, Attempt
      <3>3. [command[a.command] EXCEPT !.admitted = TRUE] \in Command
        <4>1. command[a.command] \in Command BY <3>2 DEF IInv, TypeOK
        <4> QED BY <4>1 DEF Command
      <3>4. command' \in [Commands -> Command] BY <3>1, <3>3 DEF IInv, TypeOK
      <3> QED BY <3>1, <3>2, <3>4 DEF ConnectionState
    <2>2. CASE ~Admits(a)
      <3>1. UNCHANGED <<rowVars, command>> BY <2>2 DEF TakeOver
      <3> QED BY <3>1 DEF IInv, TypeOK, rowVars
    <2> QED BY <2>1, <2>2
  <1>4. b \in Attempt BY <1>1, <1>3 DEF Attempt
  <1>5. AttemptOK(b) /\ b.token = a.token /\ a.token # NULL
    BY <1>1, <1>2 DEF Attempt, AttemptOK, Live
  <1> HIDE DEF b
  <1>6. \A d \in attempts' : d = b \/ (d \in attempts /\ d # a) BY <1>2 DEF Replace
  <1>7. AttemptsOK' BY <1>1, <1>5, <1>6 DEF Leases, AttemptsOK
  <1>8. TokensDistinct' BY <1>1, <1>5, <1>6 DEF Leases, TokensDistinct
  <1>9. LockIsHeld' BY <1>1, <1>2, <1>5, <1>6 DEF Leases, LockIsHeld, envVars
  <1>10. OwnsIt'
    <2> SUFFICES ASSUME ~lockLost, NEW d \in attempts', d.pc \in Owning PROVE ownership' = d.token
      BY <1>2 DEF OwnsIt, envVars
    <2>1. CASE d = b BY <1>2, <1>5, <2>1
    <2>2. CASE d \in attempts /\ d # a
      <3>1. d.token # NULL BY <1>1, <2>2 DEF Leases, AttemptsOK, AttemptOK, Owning
      <3> QED BY <1>1, <1>5, <2>2, <3>1, OneHolder
    <2> QED BY <1>6, <2>1, <2>2
  <1>11. ownership' \in Tokens \cup {NULL} BY <1>1, <1>2 DEF Attempt
  <1>12. TypeOK' BY <1>2, <1>3, <1>4, <1>11, ReplaceType DEF IInv, TypeOK, envVars
  <1> QED BY <1>7, <1>8, <1>9, <1>10, <1>12 DEF IInv

LEMMA ReleaseStep == ASSUME IInv, NEW a \in attempts, Release(a) PROVE IInv'
  <1>1. a \in Attempt /\ AttemptOK(a) /\ Leases BY Parts
  <1>2. /\ a.pc = "releasing" /\ attempts' = attempts \ {a}
        /\ UNCHANGED <<rowVars, command, active, envVars>>
        /\ ownership' \in {ownership, NULL} /\ lock' \in {lock, NULL}
    BY DEF Release
  <1>3. a.token # NULL BY <1>1, <1>2 DEF AttemptOK
  <1>4. ~lockLost => \A d \in attempts' : d.token = NULL BY <1>1, <1>2, <1>3, OneHolder
  <1>5. AttemptsOK' /\ TokensDistinct' BY <1>1, <1>2 DEF Leases, AttemptsOK, TokensDistinct
  <1>6. LockIsHeld' BY <1>2, <1>4 DEF LockIsHeld, envVars
  <1>7. OwnsIt'
    <2>1. \A d \in attempts' : d.token = NULL => d.pc \notin Owning
      BY <1>5 DEF AttemptsOK, AttemptOK, Owning
    <2> QED BY <1>2, <1>4, <2>1 DEF OwnsIt, envVars
  <1>8. TypeOK' BY <1>2 DEF IInv, TypeOK, rowVars, envVars
  <1> QED BY <1>5, <1>6, <1>7, <1>8 DEF IInv

LEMMA CrashStep == ASSUME IInv, NEW p \in Managers, Crash(p) PROVE IInv'
  <1>1. /\ attempts' = {a \in attempts : a.by # p} /\ active' = [active EXCEPT ![p] = NULL]
        /\ UNCHANGED <<rowVars, ownership, command, businessActive, lockLost>>
        /\ lock' = IF \E a \in attempts : a.by = p /\ a.token = lock THEN NULL ELSE lock
    BY DEF Crash
  <1>2. Leases BY DEF IInv, Leases
  <1>3. AttemptsOK' /\ TokensDistinct' /\ OwnsIt'
    BY <1>1, <1>2 DEF Leases, AttemptsOK, TokensDistinct, OwnsIt
  <1>4. LockIsHeld'
    <2> SUFFICES ASSUME ~lockLost, NEW d \in attempts, d.by # p, d.token # NULL PROVE lock' = d.token
      BY <1>1 DEF LockIsHeld
    <2>1. lock = d.token BY <1>2 DEF Leases, LockIsHeld
    <2>2. \A a \in attempts : a.token = lock => a = d BY <1>2, <2>1 DEF Leases, TokensDistinct
    <2> QED BY <1>1, <2>1, <2>2
  <1>5. faults' \in 0..MaxFaults BY DisturbType DEF Crash, IInv
  <1>6. TypeOK' BY <1>1, <1>5 DEF IInv, TypeOK, rowVars
  <1> QED BY <1>3, <1>4, <1>6 DEF IInv

LEMMA LoseLockStep == ASSUME IInv, LoseLock PROVE IInv'
  <1>1. /\ lock' = NULL /\ lockLost' = TRUE
        /\ UNCHANGED <<rowVars, ownership, command, attempts, active, businessActive>>
    BY DEF LoseLock
  <1>2. faults' \in 0..MaxFaults BY DisturbType DEF LoseLock, IInv
  <1>3. TypeOK' BY <1>1, <1>2 DEF IInv, TypeOK, rowVars
  <1> QED BY <1>1, <1>3 DEF IInv, AttemptsOK, TokensDistinct, LockIsHeld, OwnsIt

-----------------------------------------------------------------------------
(* The socket                                                               *)

LEMMA EmitQrStep == ASSUME IInv, NEW a \in attempts, EmitQr(a) PROVE IInv'
  <1> DEFINE b == [a EXCEPT !.events = @ \cup {"qr"}]
  <1>1. a \in Attempt /\ AttemptOK(a) BY Parts
  <1>2. b \in Attempt BY <1>1 DEF Attempt, Event
  <1>3. AttemptOK(b) /\ b.token = a.token /\ b.pc = a.pc
    BY <1>1 DEF Attempt, AttemptOK, Live, EmitQr
  <1>4. Replace(a, b) /\ UNCHANGED <<rowVars, ownership, command, active, lock, envVars>> BY DEF EmitQr
  <1> HIDE DEF b
  <1> QED BY <1>2, <1>3, <1>4, OnlyAttempt

LEMMA ScanStep == ASSUME IInv, NEW a \in attempts, Scan(a) PROVE IInv'
  <1> DEFINE b == [a EXCEPT !.creds = "unsaved"]
  <1>1. a \in Attempt /\ AttemptOK(a) BY Parts
  <1>2. b \in Attempt BY <1>1 DEF Attempt
  <1>3. AttemptOK(b) /\ b.token = a.token /\ b.pc = a.pc BY <1>1 DEF Attempt, AttemptOK, Live
  <1>4. Replace(a, b) /\ UNCHANGED <<rowVars, ownership, command, active, lock, envVars>> BY DEF Scan
  <1> HIDE DEF b
  <1> QED BY <1>2, <1>3, <1>4, OnlyAttempt

LEMMA SaveCredsStep == ASSUME IInv, NEW a \in attempts, SaveCreds(a) PROVE IInv'
  <1> DEFINE b == [a EXCEPT !.creds = "saved"]
  <1>1. a \in Attempt /\ AttemptOK(a) /\ Leases BY Parts
  <1>2. b \in Attempt BY <1>1 DEF Attempt
  <1>3. AttemptOK(b) /\ b.token = a.token /\ b.pc = a.pc BY <1>1 DEF Attempt, AttemptOK, Live
  <1>4. /\ Replace(a, b) /\ paired' = TRUE
        /\ UNCHANGED <<state, linkPending, linkCommand, linkCode, ownership, command, active, lock, envVars>>
    BY DEF SaveCreds
  <1> HIDE DEF b
  <1>5. Leases' BY <1>1, <1>2, <1>3, <1>4, GoesOn DEF envVars
  <1>6. TypeOK' BY <1>2, <1>4, ReplaceType DEF IInv, TypeOK, envVars
  <1> QED BY <1>5, <1>6 DEF IInv, Leases

LEMMA EmitOpenStep == ASSUME IInv, NEW a \in attempts, EmitOpen(a) PROVE IInv'
  <1> DEFINE b == [a EXCEPT !.socket = "open", !.events = @ \cup {"open"}]
  <1>1. a \in Attempt /\ AttemptOK(a) BY Parts
  <1>2. b \in Attempt BY <1>1 DEF Attempt, Event
  <1>3. AttemptOK(b) /\ b.token = a.token /\ b.pc = a.pc
    BY <1>1 DEF Attempt, AttemptOK, Live, EmitOpen
  <1>4. Replace(a, b) /\ UNCHANGED <<rowVars, ownership, command, active, lock, envVars>> BY DEF EmitOpen
  <1> HIDE DEF b
  <1> QED BY <1>2, <1>3, <1>4, OnlyAttempt

(* A socket that goes down, with what it may still say *)
LEMMA GoesDown ==
  ASSUME IInv, NEW a \in attempts, Live(a), NEW s \in {"down", "ended"}, NEW said \in SUBSET CloseEvent,
         Replace(a, [a EXCEPT !.socket = s, !.events = @ \cup said]), NEW kind, Disturb(kind),
         UNCHANGED <<rowVars, ownership, command, active, lock, businessActive, lockLost>>
  PROVE  IInv'
  <1> DEFINE b == [a EXCEPT !.socket = s, !.events = @ \cup said]
  <1>1. a \in Attempt /\ AttemptOK(a) /\ Leases BY Parts
  <1>2. b \in Attempt BY <1>1 DEF Attempt, Event
  <1>3. AttemptOK(b) /\ b.token = a.token /\ b.pc = a.pc BY <1>1 DEF Attempt, AttemptOK, Live
  <1>4. Replace(a, b) OBVIOUS
  <1> HIDE DEF b
  <1>5. Leases' BY <1>1, <1>2, <1>3, <1>4, GoesOn
  <1>6. faults' \in 0..MaxFaults BY DisturbType DEF IInv
  <1>7. TypeOK' BY <1>2, <1>4, <1>6, ReplaceType DEF IInv, TypeOK, rowVars
  <1> QED BY <1>5, <1>7 DEF IInv, Leases

LEMMA EmitCloseStep == ASSUME IInv, NEW a \in attempts, EmitClose(a) PROVE IInv'
  <1>1. PICK kind \in DOMAIN CloseKind :
          /\ Disturb(kind)
          /\ Replace(a, [a EXCEPT !.socket = "down", !.events = @ \cup {CloseKind[kind]}])
    BY DEF EmitClose
  <1>2. {CloseKind[kind]} \in SUBSET CloseEvent BY DEF CloseKind, CloseEvent
  <1>3. /\ Live(a)
        /\ UNCHANGED <<rowVars, ownership, command, active, lock, businessActive, lockLost>>
    BY DEF EmitClose
  <1> QED BY <1>1, <1>2, <1>3, GoesDown

LEMMA StopStep == ASSUME IInv, NEW a \in attempts, Stop(a) PROVE IInv'
  <1>1. PICK said \in {{}, {"transient-close"}} :
          Replace(a, [a EXCEPT !.socket = "ended", !.events = @ \cup said])
    BY DEF Stop
  <1>2. said \in SUBSET CloseEvent BY DEF CloseEvent
  <1>3. /\ Live(a) /\ Disturb("stop")
        /\ UNCHANGED <<rowVars, ownership, command, active, lock, businessActive, lockLost>>
    BY DEF Stop
  <1> QED BY <1>1, <1>2, <1>3, GoesDown

LEMMA ApplyEventStep == ASSUME IInv, NEW a \in attempts, NEW e \in Event, ApplyEvent(a, e) PROVE IInv'
  <1>1. a \in Attempt /\ AttemptOK(a) /\ Leases BY Parts
  <1>2. /\ e \in a.events /\ UNCHANGED <<ownership, command, active, lock, envVars>>
        /\ UNCHANGED <<linkCommand, paired>>
    BY DEF ApplyEvent, rowVars
  <1>3. PICK b : /\ Replace(a, b)
                 /\ \/ b = [a EXCEPT !.events = @ \ {e}]
                    \/ b = [a EXCEPT !.events = @ \ {e}, !.link = a.token]
    BY DEF ApplyEvent
  <1>4. b \in Attempt BY <1>1, <1>3 DEF Attempt
  <1>5. AttemptOK(b) /\ b.token = a.token /\ b.pc = a.pc
    BY <1>1, <1>2, <1>3 DEF Attempt, AttemptOK, Live
  <1>6. Leases' BY <1>1, <1>2, <1>3, <1>4, <1>5, GoesOn DEF envVars
  <1>7. state' \in ConnectionState
    BY DEF ApplyEvent, IInv, TypeOK, rowVars, StateAfter, ConnectionState, Event, CloseEvent
  <1>8. linkPending' \in BOOLEAN BY DEF ApplyEvent, IInv, TypeOK, rowVars, PendingAfter
  <1>9. linkCode' \in Tokens \cup {NULL}
    BY <1>1 DEF ApplyEvent, IInv, TypeOK, rowVars, Invalidated, Attempt
  <1>10. TypeOK' BY <1>2, <1>3, <1>4, <1>7, <1>8, <1>9, ReplaceType DEF IInv, TypeOK, envVars
  <1> QED BY <1>6, <1>10 DEF IInv, Leases

-----------------------------------------------------------------------------
(* The invariant                                                            *)

LEMMA InitHolds == ASSUME Init PROVE IInv
  <1> DEFINE r == [state |-> "none", claim |-> NULL, lapsed |-> FALSE, admitted |-> FALSE]
  <1>1. r \in Command BY DEF Command
  <1>2. command = [c \in Commands |-> r] BY DEF Init
  <1> HIDE DEF r
  <1>3. command \in [Commands -> Command] BY <1>1, <1>2
  <1>4. active \in [Managers -> Tokens \cup {NULL}] BY DEF Init
  <1>5. /\ businessActive = TRUE /\ lockLost = FALSE /\ faults = 0
        /\ state = "LINK_REQUIRED" /\ linkPending = FALSE /\ linkCommand = NULL
        /\ ownership = NULL /\ paired = FALSE /\ linkCode = NULL /\ attempts = {} /\ lock = NULL
    BY DEF Init
  <1>6. faults \in 0..MaxFaults BY <1>5, ConnectionAssumption
  <1>7. attempts \subseteq Attempt BY <1>5
  <1>8. /\ businessActive \in BOOLEAN /\ lockLost \in BOOLEAN /\ linkPending \in BOOLEAN
        /\ paired \in BOOLEAN /\ state \in ConnectionState
    BY <1>5 DEF ConnectionState
  <1>9. TypeOK BY <1>3, <1>4, <1>5, <1>6, <1>7, <1>8 DEF TypeOK
  <1> QED BY <1>5, <1>9 DEF IInv, AttemptsOK, TokensDistinct, LockIsHeld, OwnsIt

LEMMA StepHolds == ASSUME IInv, Next PROVE IInv'
  <1>1. CASE \E c \in Commands : CheckLink(c) \/ RequestLink(c) \/ LapseClaim(c)
    BY <1>1, RequestStep, LapseStep
  <1>2. CASE \E p \in Managers, c \in Commands : ClaimWhatsAppLink(p, c) BY <1>2, ClaimStep
  <1>3. CASE \E p \in Managers : Restart(p) \/ Crash(p) BY <1>3, RestartStep, CrashStep
  <1>4. CASE \E a \in attempts : Start(a)
    BY <1>4, UseActiveStep, GoOnStep, LockBusyStep, ReserveLockStep, TakeOverStep, CheckAdmittedStep,
       AcknowledgeReplayStep, ConnectStep, HandOffStep, EndLeaseStep, ReleaseStep DEF Start
  <1>5. CASE \E a \in attempts : ConnectFails(a) \/ Stop(a) BY <1>5, ConnectFailsStep, StopStep
  <1>6. CASE \E a \in attempts :
               \/ EmitQr(a) \/ Scan(a) \/ SaveCreds(a) \/ EmitOpen(a) \/ EmitClose(a)
               \/ \E e \in Event : ApplyEvent(a, e)
    BY <1>6, EmitQrStep, ScanStep, SaveCredsStep, EmitOpenStep, EmitCloseStep, ApplyEventStep
  <1>7. CASE ExpireLinkCode \/ LoseLock \/ SetBusinessStatus BY <1>7, OutsideStep, LoseLockStep
  <1> QED BY <1>1, <1>2, <1>3, <1>4, <1>5, <1>6, <1>7 DEF Next

LEMMA Invariance == Spec => []IInv
  <1>1. IInv /\ UNCHANGED vars => IInv'
    BY DEF IInv, TypeOK, AttemptsOK, TokensDistinct, LockIsHeld, OwnsIt, vars, rowVars, leaseVars, envVars
  <1>2. IInv /\ [Next]_vars => IInv' BY <1>1, StepHolds
  <1> QED BY <1>2, InitHolds, PTL DEF Spec

(* The row of the connection, its commands, attempts and leases keep their types. *)
THEOREM Types == Spec => []TypeOK
  <1>1. IInv => TypeOK BY DEF IInv
  <1> QED BY <1>1, Invariance, PTL

(* As long as the database keeps the advisory lock there is one live socket, *)
(* however many managers start, restart, crash and are stopped.              *)
THEOREM SocketsAreOne == Spec => []OneSocket
  <1>1. IInv => OneSocket
    <2> SUFFICES ASSUME IInv, ~lockLost, NEW a \in attempts, NEW b \in attempts, Live(a), Live(b)
                 PROVE  a = b
      BY DEF OneSocket
    <2>1. a.token # NULL /\ b.token # NULL BY Parts DEF AttemptOK, Live
    <2> QED BY <2>1, Parts, OneHolder
  <1> QED BY <1>1, Invariance, PTL

(* As long as the database keeps the advisory lock, an attempt past its takeover *)
(* holds the lock and the ownership under its own token.                          *)
THEOREM HolderIsOwner == Spec => []HolderOwns
  <1>1. IInv => HolderOwns
    <2> SUFFICES ASSUME IInv, ~lockLost, NEW a \in attempts, a.pc \in Owning
                 PROVE  lock = a.token /\ ownership = a.token
      BY DEF HolderOwns, Owning
    <2>1. a.token # NULL BY Parts DEF AttemptOK, Owning
    <2> QED BY <2>1 DEF IInv, LockIsHeld, OwnsIt
  <1> QED BY <1>1, Invariance, PTL

-----------------------------------------------------------------------------
(* What a step may do                                                       *)

(* Credentials are dropped only by the step that admits a link command for the *)
(* first time: no replay, late socket or takeover throws a saved session away. *)
THEOREM SavedSessionStays == Spec => CredentialsKept
  <1> DEFINE Kept == paired /\ ~paired' => \E c \in Commands : ~command[c].admitted /\ command'[c].admitted
  <1>1. ASSUME IInv, [Next]_vars PROVE Kept
    <2> SUFFICES ASSUME paired, ~paired' PROVE \E c \in Commands : ~command[c].admitted /\ command'[c].admitted
      OBVIOUS
    <2>1. Next BY <1>1 DEF vars, rowVars
    <2>2. PICK a \in attempts : TakeOver(a)
      BY <2>1 DEF Next, Start, CheckLink, RequestLink, LapseClaim, ClaimWhatsAppLink, Restart, Crash, UseActive,
         GoOn, LockBusy, ReserveLock, CheckAdmitted, AcknowledgeReplay, Connect, HandOff, EndLease, Release,
         ConnectFails, Stop, EmitQr, Scan, SaveCreds, EmitOpen, EmitClose, ApplyEvent, ExpireLinkCode,
         LoseLock, SetBusinessStatus, rowVars
    <2>3. Admits(a) /\ command' = [command EXCEPT ![a.command].admitted = TRUE]
      BY <2>2 DEF TakeOver, rowVars
    <2>4. a.command \in Commands BY <1>1, <2>3, Parts DEF Admits, Attempt
    <2>5. command[a.command] \in Command BY <1>1, <2>4 DEF IInv, TypeOK
    <2>6. command'[a.command] = [command[a.command] EXCEPT !.admitted = TRUE]
      BY <1>1, <2>3, <2>4 DEF IInv, TypeOK
    <2> QED BY <2>3, <2>4, <2>5, <2>6 DEF Admits, Command
  <1> QED BY <1>1, Invariance, PTL DEF Spec, CredentialsKept

(* The connection becomes CONNECTED only by what the socket of its present owner says. *)
THEOREM OwnerConnects == Spec => ConnectedByOwner
  <1> DEFINE ByOwner == state # "CONNECTED" /\ state' = "CONNECTED" =>
                          \E a \in attempts : a.token = ownership /\ a.socket # "none"
  <1>1. ASSUME IInv, [Next]_vars PROVE ByOwner
    <2> SUFFICES ASSUME state # "CONNECTED", state' = "CONNECTED"
                 PROVE  \E a \in attempts : a.token = ownership /\ a.socket # "none"
      OBVIOUS
    <2>1. Next BY <1>1 DEF vars, rowVars
    <2>2. PICK a \in attempts, e \in Event : ApplyEvent(a, e)
      BY <2>1 DEF Next, Start, CheckLink, RequestLink, LapseClaim, ClaimWhatsAppLink, Restart, Crash, UseActive,
         GoOn, LockBusy, ReserveLock, TakeOver, CheckAdmitted, AcknowledgeReplay, Connect, HandOff, EndLease,
         Release, ConnectFails, Stop, EmitQr, Scan, SaveCreds, EmitOpen, EmitClose, ExpireLinkCode,
         LoseLock, SetBusinessStatus, rowVars
    <2>3. e \in a.events /\ a.token = ownership BY <2>2 DEF ApplyEvent, Applies, rowVars
    <2>4. a.socket # "none" BY <1>1, <2>3, Parts DEF AttemptOK
    <2> QED BY <2>3, <2>4
  <1> QED BY <1>1, Invariance, PTL DEF Spec, ConnectedByOwner

(* A command is acknowledged only once it was admitted, under its present claim, and by *)
(* the process that owns the connection then.                                            *)
THEOREM OwnerAcknowledges == Spec => AcknowledgedByOwner
  <1> DEFINE ByOwner(c) ==
        command[c].state = "requested" /\ command'[c].state = "published" =>
          /\ command[c].admitted
          /\ \E a \in attempts : /\ a.command = c /\ a.claim = command[c].claim
                                 /\ ownership \in {a.token, active[a.by]}
  <1>1. ASSUME IInv, [Next]_vars, NEW c \in Commands PROVE ByOwner(c)
    <2> SUFFICES ASSUME command[c].state = "requested", command'[c].state = "published"
                 PROVE  /\ command[c].admitted
                        /\ \E a \in attempts : /\ a.command = c /\ a.claim = command[c].claim
                                               /\ ownership \in {a.token, active[a.by]}
      OBVIOUS
    <2>1. Next BY <1>1 DEF vars
    <2>2. command \in [Commands -> Command] BY <1>1 DEF IInv, TypeOK
    <2>3. \A d \in Commands : ~(CheckLink(d) \/ RequestLink(d) \/ LapseClaim(d))
      BY <2>2 DEF CheckLink, RequestLink, LapseClaim, Command
    <2>4. \A p \in Managers, d \in Commands : ~ClaimWhatsAppLink(p, d)
      <3> SUFFICES ASSUME NEW p \in Managers, NEW d \in Commands, ClaimWhatsAppLink(p, d) PROVE FALSE
        OBVIOUS
      <3>1. PICK k \in Claims : command' = [command EXCEPT ![d].claim = k, ![d].lapsed = FALSE]
        BY DEF ClaimWhatsAppLink
      <3>2. command'[c] = IF c = d THEN [command[d] EXCEPT !.claim = k, !.lapsed = FALSE] ELSE command[c]
        BY <2>2, <3>1
      <3>3. command[c] \in Command BY <2>2
      <3> QED BY <3>2, <3>3 DEF Command
    <2>5. \A a \in attempts : ~TakeOver(a)
      BY <2>2 DEF TakeOver, Command
    <2>6. PICK a \in attempts : \E token \in {a.token, active[a.by]} : command' = Acknowledged(a, token)
      BY <2>1, <2>3, <2>4, <2>5
      DEF Next, Start, Restart, Crash, UseActive, GoOn, LockBusy, ReserveLock, CheckAdmitted, AcknowledgeReplay,
          Connect, HandOff, EndLease, Release, ConnectFails, Stop, EmitQr, Scan, SaveCreds, EmitOpen, EmitClose,
          ApplyEvent, ExpireLinkCode, LoseLock, SetBusinessStatus
    <2>7. PICK token \in {a.token, active[a.by]} : command' = Acknowledged(a, token) BY <2>6
    <2>8. /\ a.command # NULL /\ ownership = token /\ Claimed(a) /\ command[a.command].admitted
          /\ command' = [command EXCEPT ![a.command].state = "published", ![a.command].claim = NULL]
      BY <2>7 DEF Acknowledged
    <2>9. c = a.command BY <2>2, <2>8
    <2> QED BY <2>8, <2>9 DEF Claimed
  <1>2. IInv /\ [Next]_vars => \A c \in Commands : ByOwner(c) BY <1>1
  <1> QED BY <1>2, Invariance, PTL DEF Spec, AcknowledgedByOwner
=============================================================================
