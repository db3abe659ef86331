----------------------------- MODULE Connection -----------------------------
(***************************************************************************)
(* The life cycle of a business's WhatsApp connection: link commands from  *)
(* the API, the whatsapp-manager processes that claim and admit them or    *)
(* restore a session, the sockets those processes open, and the row of     *)
(* whatsapp_connections they all write.                                    *)
(*                                                                         *)
(* A call of PostgresWhatsAppManager.start is an attempt.  Each of its     *)
(* transactions is an action, and so is each event of its socket: the      *)
(* socket does not wait for one event to be applied before the next.       *)
(* Random identifiers (claims, ownership tokens) come from finite sets, a  *)
(* new one being any that nothing holds.                                   *)
(***************************************************************************)
EXTENDS Naturals, FiniteSets

CONSTANTS
  Managers,         \* whatsapp-manager processes
  Commands,         \* whatsapp.link_requested outbox rows
  Tokens,           \* ownership tokens
  Claims,           \* claim tokens of link commands
  NULL,
  Disturbances,     \* what the environment may do to the system
  MaxFaults         \* bound: disturbances in a behaviour

AllDisturbances == {"crash", "lostLock", "connectFailure", "close", "logout", "corrupt",
                    "slow", "stop", "suspend"}

ASSUME ConnectionAssumption ==
  /\ NULL \notin Managers \cup Commands \cup Tokens \cup Claims
  /\ Disturbances \subseteq AllDisturbances
  /\ MaxFaults \in Nat

VARIABLES
  businessActive,
  state, linkPending, linkCommand,  \* whatsapp_connections
  ownership,                        \* its ownership_token
  paired,                           \* whether whatsapp_auth_records holds credentials
  linkCode,                         \* owner whose QR whatsapp_link_codes holds
  command,                          \* link commands
  attempts,                         \* calls of start() and the leases they handed off
  active,                           \* the manager's `active` map: token of its lease
  lock,                             \* token of the attempt that holds the advisory lock
  lockLost,                         \* history: the lock was lost under its holder
  faults                            \* disturbances so far

rowVars == <<state, linkPending, linkCommand, paired, linkCode>>
leaseVars == <<attempts, active, lock>>
envVars == <<businessActive, lockLost, faults>>
vars == <<rowVars, ownership, command, leaseVars, envVars>>

ConnectionState == {"LINK_REQUIRED", "LINKING", "CONNECTED", "RECONNECTING", "DISCONNECTED", "ERROR"}
CloseEvent == {"transient-close", "logout", "corrupt"}
Event == {"qr", "open"} \cup CloseEvent

Command == [state : {"none", "checked", "requested", "published"}, claim : Claims \cup {NULL},
            lapsed : BOOLEAN, admitted : BOOLEAN]
Attempt == [by : Managers, command : Commands \cup {NULL}, claim : Claims \cup {NULL},
            token : Tokens \cup {NULL},     \* ownership
            link : Tokens \cup {NULL},      \* link.token
            pc : {"claimed", "reserving", "locked", "checking", "replayed", "connecting", "connected",
                  "active", "releasing"},
            socket : {"none", "up", "open", "down", "ended"},
            creds : {"none", "unsaved", "saved"},  \* credentials the socket works with
            events : SUBSET Event]          \* emitted, not yet applied

TypeOK ==
  /\ businessActive \in BOOLEAN /\ lockLost \in BOOLEAN /\ faults \in 0..MaxFaults
  /\ state \in ConnectionState /\ linkPending \in BOOLEAN /\ paired \in BOOLEAN
  /\ linkCommand \in Commands \cup {NULL}
  /\ ownership \in Tokens \cup {NULL} /\ linkCode \in Tokens \cup {NULL}
  /\ lock \in Tokens \cup {NULL}
  /\ command \in [Commands -> Command]
  /\ attempts \subseteq Attempt
  /\ active \in [Managers -> Tokens \cup {NULL}]

Init ==
  /\ businessActive = TRUE /\ lockLost = FALSE /\ faults = 0
  /\ state = "LINK_REQUIRED" /\ linkPending = FALSE /\ linkCommand = NULL
  /\ ownership = NULL /\ paired = FALSE /\ linkCode = NULL
  /\ command = [c \in Commands |->
                  [state |-> "none", claim |-> NULL, lapsed |-> FALSE, admitted |-> FALSE]]
  /\ attempts = {}
  /\ active = [p \in Managers |-> NULL]
  /\ lock = NULL

Replace(a, b) == attempts' = (attempts \ {a}) \cup {b}
Disturb(kind) == kind \in Disturbances /\ faults < MaxFaults /\ faults' = faults + 1

-----------------------------------------------------------------------------
(* The API: POST /me/whatsapp/link reads the connection, then writes the   *)
(* command in another transaction.                                         *)

CheckLink(c) ==
  /\ command[c].state = "none" /\ state \in {"LINK_REQUIRED", "ERROR"}
  /\ command' = [command EXCEPT ![c].state = "checked"]
  /\ UNCHANGED <<rowVars, ownership, leaseVars, envVars>>

RequestLink(c) ==
  /\ command[c].state = "checked"
  /\ command' = [command EXCEPT ![c].state = "requested"]
  /\ UNCHANGED <<rowVars, ownership, leaseVars, envVars>>

\* GET /me/whatsapp/link and start() delete a code that expired.
ExpireLinkCode ==
  /\ linkCode # NULL
  /\ linkCode' = NULL
  /\ UNCHANGED <<state, linkPending, linkCommand, paired, ownership, command, leaseVars, envVars>>

-----------------------------------------------------------------------------
(* Claims.                                                                 *)

NewAttempt(p, c, k) ==
  [by |-> p, command |-> c, claim |-> k, token |-> NULL, link |-> NULL, pc |-> "claimed",
   socket |-> "none", creds |-> "none", events |-> {}]

\* Mutant of Claimable: a claim never lapses.
ClaimableOnce(c) == command[c].state = "requested" /\ businessActive /\ command[c].claim = NULL

Claimable(c) == /\ command[c].state = "requested" /\ businessActive
                /\ command[c].claim = NULL \/ command[c].lapsed

\* processNext: claim_whatsapp_link_command.
ClaimWhatsAppLink(p, c) ==
  /\ Claimable(c)
  /\ \E k \in Claims :
       /\ \A a \in attempts : a.claim # k
       /\ \A d \in Commands : command[d].claim # k
       /\ command' = [command EXCEPT ![c].claim = k, ![c].lapsed = FALSE]
       /\ attempts' = attempts \cup {NewAttempt(p, c, k)}
  /\ UNCHANGED <<rowVars, ownership, active, lock, envVars>>

\* Thirty seconds pass: always possible once nobody works under the claim, and
\* under an attempt that is slow.
LapseClaim(c) ==
  /\ command[c].state = "requested" /\ command[c].claim # NULL /\ ~command[c].lapsed
  /\ IF \E a \in attempts : a.command = c /\ a.claim = command[c].claim
     THEN Disturb("slow") ELSE UNCHANGED faults
  /\ command' = [command EXCEPT ![c].lapsed = TRUE]
  /\ UNCHANGED <<rowVars, ownership, leaseVars, businessActive, lockLost>>

\* Mutant of Restorable: a link that was interrupted is not resumed.
RestorableSession == businessActive /\ state \in {"CONNECTED", "RECONNECTING", "DISCONNECTED"}

\* Mutant of Restorable: only a link that was interrupted is resumed.
RestorableLink == businessActive /\ linkPending

\* restorable_whatsapp_connections.
Restorable ==
  businessActive /\ (state \in {"CONNECTED", "RECONNECTING", "DISCONNECTED"} \/ linkPending)

\* restart(): one at a time, createReconnectThrottle.
Restart(p) ==
  /\ Restorable
  /\ \A a \in attempts : a.by = p /\ a.command = NULL => a.pc = "active"
  /\ active[p] = NULL                 \* else start() returns at once
  /\ attempts' = attempts \cup {NewAttempt(p, NULL, NULL)}
  /\ UNCHANGED <<rowVars, ownership, command, active, lock, envVars>>

-----------------------------------------------------------------------------
(* start(), one transaction at a time.                                     *)

Claimed(a) == /\ command[a.command].state = "requested"
              /\ command[a.command].claim = a.claim /\ ~command[a.command].lapsed

\* Mutant of Acknowledged: the ownership is not checked.
AcknowledgedByClaim(a, token) ==
  IF a.command # NULL /\ businessActive /\ Claimed(a) /\ command[a.command].admitted
  THEN [command EXCEPT ![a.command].state = "published", ![a.command].claim = NULL]
  ELSE command

\* complete_whatsapp_link_command.
Acknowledged(a, token) ==
  IF /\ a.command # NULL /\ businessActive /\ ownership = token
     /\ Claimed(a) /\ command[a.command].admitted
  THEN [command EXCEPT ![a.command].state = "published", ![a.command].claim = NULL]
  ELSE command

\* This process already holds a lease: the command is only acknowledged.
UseActive(a) ==
  /\ a \in attempts /\ a.pc = "claimed" /\ active[a.by] # NULL
  /\ command' = Acknowledged(a, active[a.by])
  /\ attempts' = attempts \ {a}
  /\ UNCHANGED <<rowVars, ownership, active, lock, envVars>>

\* No lease here: on to the advisory lock.
GoOn(a) ==
  /\ a \in attempts /\ a.pc = "claimed" /\ active[a.by] = NULL
  /\ Replace(a, [a EXCEPT !.pc = "reserving"])
  /\ UNCHANGED <<rowVars, ownership, command, active, lock, envVars>>

\* reserveAdvisoryLock failed.
LockBusy(a) ==
  /\ a \in attempts /\ a.pc = "reserving" /\ lock # NULL
  /\ attempts' = attempts \ {a}
  /\ UNCHANGED <<rowVars, ownership, command, active, lock, envVars>>

\* Mutant of ReserveLock: nobody is asked.
ReserveLockAlways(a) ==
  /\ a \in attempts /\ a.pc = "reserving"
  /\ \E t \in Tokens \ {ownership, linkCode} :
       /\ \A b \in attempts : b.token # t /\ b.link # t
       /\ lock' = t
       /\ Replace(a, [a EXCEPT !.pc = "locked", !.token = t])
  /\ UNCHANGED <<rowVars, ownership, command, active, envVars>>

\* pg_try_advisory_lock(id), and a fresh ownership token.
ReserveLock(a) ==
  /\ a \in attempts /\ a.pc = "reserving" /\ lock = NULL
  /\ \E t \in Tokens \ {ownership, linkCode} :
       /\ \A b \in attempts : b.token # t /\ b.link # t
       /\ lock' = t
       /\ Replace(a, [a EXCEPT !.pc = "locked", !.token = t])
  /\ UNCHANGED <<rowVars, ownership, command, active, envVars>>

\* Mutant of Admits: a command is admitted again under a new claim.
AdmitsAgain(a) == a.command # NULL /\ Claimed(a)

Admits(a) == a.command # NULL /\ Claimed(a) /\ ~command[a.command].admitted

\* takeOverWhatsApp and admitWhatsAppLink in one transaction: a command whose
\* claim lapsed leaves the takeover, and an admitted one changes nothing more.
TakeOver(a) ==
  /\ a \in attempts /\ a.pc = "locked"
  /\ ownership' = a.token
  /\ IF Admits(a)
     THEN /\ state' = "LINKING" /\ linkPending' = TRUE /\ linkCommand' = a.command
          /\ paired' = FALSE /\ linkCode' = NULL
          /\ command' = [command EXCEPT ![a.command].admitted = TRUE]
     ELSE UNCHANGED <<rowVars, command>>
  /\ Replace(a, IF a.command # NULL /\ ~Claimed(a) THEN [a EXCEPT !.pc = "releasing"]
                ELSE [a EXCEPT !.link = linkCode',
                               !.pc = IF a.command = NULL THEN "connecting" ELSE "checking"])
  /\ UNCHANGED <<active, lock, envVars>>

\* A replay after open or logout, or behind a newer request.
Replayed(a) == ~linkPending \/ linkCommand # a.command

CheckAdmitted(a) ==
  /\ a \in attempts /\ a.pc = "checking"
  /\ Replace(a, [a EXCEPT !.pc = IF Replayed(a) THEN "replayed" ELSE "connecting"])
  /\ UNCHANGED <<rowVars, ownership, command, active, lock, envVars>>

AcknowledgeReplay(a) ==
  /\ a \in attempts /\ a.pc = "replayed"
  /\ command' = Acknowledged(a, a.token)
  /\ Replace(a, [a EXCEPT !.pc = "releasing"])
  /\ UNCHANGED <<rowVars, ownership, active, lock, envVars>>

\* gateway.connect: credentials are loaded and the socket is open for events.
Connect(a) ==
  /\ a \in attempts /\ a.pc = "connecting"
  /\ Replace(a, [a EXCEPT !.pc = "connected", !.socket = "up",
                          !.creds = IF paired THEN "saved" ELSE "none"])
  /\ UNCHANGED <<rowVars, ownership, command, active, lock, envVars>>

\* invalidateLinkCode of the code this attempt knows.
Invalidated(a) == IF a.link # NULL /\ linkCode = a.link THEN NULL ELSE linkCode

\* gateway.connect threw: the admission stays pending.
ConnectFails(a) ==
  /\ Disturb("connectFailure")
  /\ a \in attempts /\ a.pc = "connecting"
  /\ IF ownership = a.token THEN state' = "ERROR" /\ linkCode' = Invalidated(a)
                            ELSE UNCHANGED <<state, linkCode>>
  /\ Replace(a, [a EXCEPT !.pc = "releasing"])
  /\ UNCHANGED <<linkPending, linkCommand, paired, ownership, command, active, lock,
                 businessActive, lockLost>>

\* The command is acknowledged and the lease becomes active.  A socket emits
\* from I/O, so connect returned before any event start() would wait for.
HandOff(a) ==
  /\ a \in attempts /\ a.pc = "connected"
  /\ command' = Acknowledged(a, a.token)
  /\ active' = [active EXCEPT ![a.by] = a.token]
  /\ Replace(a, [a EXCEPT !.pc = "active"])
  /\ UNCHANGED <<rowVars, ownership, lock, envVars>>

\* The lease is closed by its socket, once the close event was applied, or by stop().
Closed(a) == \/ a.socket = "ended"
             \/ a.socket = "down" /\ a.events \cap CloseEvent = {}

EndLease(a) ==
  /\ a \in attempts /\ a.pc = "active" /\ Closed(a)
  /\ active' = [active EXCEPT ![a.by] = NULL]
  /\ Replace(a, [a EXCEPT !.pc = "releasing"])
  /\ UNCHANGED <<rowVars, ownership, command, lock, envVars>>

\* releaseWhatsApp, then the advisory lock.
Release(a) ==
  /\ a \in attempts /\ a.pc = "releasing"
  /\ ownership' = IF ownership = a.token THEN NULL ELSE ownership
  /\ lock' = IF lock = a.token THEN NULL ELSE lock
  /\ attempts' = attempts \ {a}
  /\ UNCHANGED <<rowVars, command, active, envVars>>

-----------------------------------------------------------------------------
(* The socket (Baileys and the phone) and apply().                         *)

Live(a) == a.socket \in {"up", "open"}

\* A socket without credentials asks for a scan.
EmitQr(a) ==
  /\ a \in attempts /\ a.socket = "up" /\ a.creds = "none" /\ linkCode # a.token
  /\ "qr" \notin a.events
  /\ Replace(a, [a EXCEPT !.events = @ \cup {"qr"}])
  /\ UNCHANGED <<rowVars, ownership, command, active, lock, envVars>>

\* The customer scanned the code this socket shows: it has new credentials.
Scan(a) ==
  /\ a \in attempts /\ a.socket = "up" /\ a.creds = "none" /\ linkCode = a.token
  /\ Replace(a, [a EXCEPT !.creds = "unsaved"])
  /\ UNCHANGED <<rowVars, ownership, command, active, lock, envVars>>

\* creds.update: saveCreds, whoever owns the connection.
SaveCreds(a) ==
  /\ a \in attempts /\ a.creds = "unsaved"
  /\ paired' = TRUE
  /\ Replace(a, [a EXCEPT !.creds = "saved"])
  /\ UNCHANGED <<state, linkPending, linkCommand, linkCode, ownership, command, active, lock, envVars>>

EmitOpen(a) ==
  /\ a \in attempts /\ a.socket = "up" /\ a.creds # "none"
  /\ Replace(a, [a EXCEPT !.socket = "open", !.events = @ \cup {"open"}])
  /\ UNCHANGED <<rowVars, ownership, command, active, lock, envVars>>

CloseKind == [close |-> "transient-close", logout |-> "logout", corrupt |-> "corrupt"]

\* The socket closes; the handler awaits the pending saveCreds first.
EmitClose(a) ==
  /\ a \in attempts /\ Live(a) /\ a.creds # "unsaved"
  /\ \E kind \in DOMAIN CloseKind :
       /\ Disturb(kind)
       /\ Replace(a, [a EXCEPT !.socket = "down", !.events = @ \cup {CloseKind[kind]}])
  /\ UNCHANGED <<rowVars, ownership, command, active, lock, businessActive, lockLost>>

\* Mutant of StateAfter: the event's name is stored.
EventAsState(e) == e

StateAfter(e) == CASE e = "open" -> "CONNECTED" [] e = "transient-close" -> "RECONNECTING"
                   [] e = "logout" -> "LINK_REQUIRED" [] e = "corrupt" -> "ERROR"

\* Mutant of Applies: the fence is dropped.
AppliesAlways(a) == TRUE

\* lockWhatsAppOwnership: what a fenced-off socket says is dropped.
Applies(a) == ownership = a.token

\* setWhatsAppState: only a link that opened or was refused is over.
PendingAfter(new) == IF new \in {"CONNECTED", "LINK_REQUIRED"} THEN FALSE ELSE linkPending

ApplyEvent(a, e) ==
  /\ a \in attempts /\ e \in a.events
  /\ IF ~Applies(a)
     THEN UNCHANGED rowVars /\ Replace(a, [a EXCEPT !.events = @ \ {e}])
     ELSE IF e = "qr"
     THEN /\ linkCode' = a.token
          /\ Replace(a, [a EXCEPT !.events = @ \ {e}, !.link = a.token])
          /\ UNCHANGED <<state, linkPending, linkCommand, paired>>
     ELSE /\ state' = StateAfter(e)
          /\ linkPending' = PendingAfter(StateAfter(e))
          /\ linkCode' = IF e = "transient-close" THEN linkCode ELSE Invalidated(a)
          /\ Replace(a, [a EXCEPT !.events = @ \ {e}])
          /\ UNCHANGED <<linkCommand, paired>>
  /\ UNCHANGED <<ownership, command, active, lock, envVars>>

-----------------------------------------------------------------------------
(* Disturbances.                                                           *)

\* stop(): the lease is closed; the socket may still say so.
Stop(a) ==
  /\ Disturb("stop")
  /\ a \in attempts /\ a.pc = "active" /\ Live(a)
  /\ \E said \in {{}, {"transient-close"}} :
       Replace(a, [a EXCEPT !.socket = "ended", !.events = @ \cup said])
  /\ UNCHANGED <<rowVars, ownership, command, active, lock, businessActive, lockLost>>

\* A process dies with its attempts, sockets and sessions.
Crash(p) ==
  /\ Disturb("crash") /\ \E a \in attempts : a.by = p
  /\ attempts' = {a \in attempts : a.by # p}
  /\ active' = [active EXCEPT ![p] = NULL]
  /\ lock' = IF \E a \in attempts : a.by = p /\ a.token = lock THEN NULL ELSE lock
  /\ UNCHANGED <<rowVars, ownership, command, businessActive, lockLost>>

\* The session that holds the advisory lock drops; its process is not told.
LoseLock ==
  /\ Disturb("lostLock") /\ lock # NULL
  /\ lock' = NULL /\ lockLost' = TRUE
  /\ UNCHANGED <<rowVars, ownership, command, attempts, active, businessActive>>

SetBusinessStatus ==
  /\ IF businessActive THEN Disturb("suspend") ELSE UNCHANGED faults
  /\ businessActive' = ~businessActive
  /\ UNCHANGED <<rowVars, ownership, command, leaseVars, lockLost>>

-----------------------------------------------------------------------------
Start(a) == UseActive(a) \/ GoOn(a) \/ LockBusy(a) \/ ReserveLock(a) \/ TakeOver(a) \/ CheckAdmitted(a)
            \/ AcknowledgeReplay(a) \/ Connect(a) \/ HandOff(a) \/ EndLease(a) \/ Release(a)

Next ==
  \/ \E c \in Commands : CheckLink(c) \/ RequestLink(c) \/ LapseClaim(c)
  \/ \E p \in Managers, c \in Commands : ClaimWhatsAppLink(p, c)
  \/ \E p \in Managers : Restart(p) \/ Crash(p)
  \/ \E a \in attempts : \/ Start(a) \/ ConnectFails(a) \/ Stop(a)
                         \/ EmitQr(a) \/ Scan(a) \/ SaveCreds(a) \/ EmitOpen(a) \/ EmitClose(a)
                         \/ \E e \in Event : ApplyEvent(a, e)
  \/ ExpireLinkCode \/ LoseLock \/ SetBusinessStatus

Spec == Init /\ [][Next]_vars

\* The manager polls on a timer, transactions end, a claim lapses with time,
\* and WhatsApp accepts a socket with valid credentials.  Nobody is assumed to
\* scan a code, to ask for a link or to stop disturbing before MaxFaults.
Fairness ==
  /\ \A c \in Commands : WF_vars(LapseClaim(c))
  /\ \A p \in Managers :
       /\ WF_vars(Restart(p))
       /\ \A c \in Commands : WF_vars(ClaimWhatsAppLink(p, c))
       /\ \A c \in Commands \cup {NULL} :
            /\ WF_vars(\E a \in attempts : a.by = p /\ a.command = c /\ Start(a))
            /\ WF_vars(\E a \in attempts : a.by = p /\ a.command = c /\ (EmitOpen(a) \/ SaveCreds(a)))
            /\ WF_vars(\E a \in attempts, e \in Event : a.by = p /\ a.command = c /\ ApplyEvent(a, e))

FairSpec == Spec /\ Fairness

-----------------------------------------------------------------------------
(* Safety.                                                                 *)

\* Two sockets never share the credentials of a connection, as long as the
\* database keeps the advisory lock: whoever gets the lock finds the socket of
\* its predecessor closed (start, its finally block, lease.closed).
OneSocket == ~lockLost => \A a, b \in attempts : Live(a) /\ Live(b) => a = b

\* An attempt that holds the advisory lock keeps the ownership it took, from
\* takeOverWhatsApp to its release: no other start() gets between.
HolderOwns ==
  ~lockLost => \A a \in attempts :
    a.pc \in {"checking", "replayed", "connecting", "connected", "active"} =>
      lock = a.token /\ ownership = a.token

\* Credentials are dropped only by the first admission of a link command:
\* a replay under a new claim, or of an older command, keeps what the socket
\* saved (admitWhatsAppLink, link_admitted_at).
CredentialsKept ==
  [][paired /\ ~paired' => \E c \in Commands : ~command[c].admitted /\ command'[c].admitted]_vars

\* A connection becomes CONNECTED only through its present owner's socket: what
\* a manager that lost the lock still hears is dropped (apply).
ConnectedByOwner ==
  [][state # "CONNECTED" /\ state' = "CONNECTED" =>
       \E a \in attempts : a.token = ownership /\ a.socket # "none"]_vars

\* A link command is acknowledged only once it was admitted, under its present
\* claim, by the process that owns the connection at that moment
\* (complete_whatsapp_link_command).
AcknowledgedByOwner ==
  [][\A c \in Commands :
       command[c].state = "requested" /\ command'[c].state = "published" =>
         /\ command[c].admitted
         /\ \E a \in attempts : /\ a.command = c /\ a.claim = command[c].claim
                                /\ ownership \in {a.token, active[a.by]}]_vars

\* packages/domain/src/whatsapp/connection.ts has no transition from a linked
\* state to LINKING, and the API refuses a link then ("WhatsApp connection
\* already linked"): a linked session is not thrown away for a new link.
LinkedNeverRelinks ==
  [][(state \in {"CONNECTED", "RECONNECTING", "DISCONNECTED"}) => state' # "LINKING"]_vars

-----------------------------------------------------------------------------
(* Liveness, while the business is active.                                 *)

\* A link request is acknowledged, whatever process dies between its claim,
\* its admission and its acknowledgement.
RequestIsAnswered ==
  \A c \in Commands : command[c].state = "requested" ~> command[c].state = "published"

\* A link that was interrupted is taken up again: there is a socket to scan for
\* or to open, or the link is over.
LinkResumes == linkPending ~> ~linkPending \/ \E a \in attempts : Live(a)

\* A linked session comes back: it is connected through an open socket of its
\* owner, or the customer is told to link again, or is asked for a new scan.
SessionResumes ==
  state \in {"CONNECTED", "RECONNECTING"} ~>
    \/ state = "CONNECTED" /\ \E a \in attempts : a.socket = "open" /\ a.token = ownership
    \/ state \in {"LINK_REQUIRED", "ERROR"}
    \/ \E a \in attempts : a.socket = "up" /\ a.creds = "none"
=============================================================================
