----------------------------- MODULE Operations -----------------------------
(***************************************************************************)
(* Appointment writes under an operation key: the Turnos screen of the web *)
(* panel, which keeps an intent in sessionStorage for every write whose    *)
(* outcome it does not know, and the API transactions that execute it,     *)
(* report it or fence it off (TenantUnitOfWork and the routes under        *)
(* /me/appointment-operations).                                            *)
(*                                                                         *)
(* A call may fail at the browser while its request is still on its way:   *)
(* such a request is no longer heard, but the API may yet execute it.      *)
(* What a write does to an appointment is the subject of Appointments.     *)
(* Here it completes, is refused by a rule, or fails unexpectedly.         *)
(***************************************************************************)
EXTENDS Naturals, FiniteSets

CONSTANTS
  Keys,        \* operation keys, random UUIDs of the panel
  Targets,     \* existing appointments
  Create,      \* the target of a creation, null in the code
  Servers,     \* API connections
  NULL,
  SENT,        \* a read under way that the API has not served yet
  MaxFaults    \* bound: failures of the network, the browser or the API, and repeated writes

Terminal == {"completed", "failed", "cancelled"}

ASSUME OperationsAssumption ==
  /\ IsFiniteSet(Keys)
  /\ Create \notin Targets
  /\ NULL \notin Keys \cup Targets \cup Servers \cup {Create, SENT} \cup Terminal \cup Nat
  /\ SENT \notin Nat
  /\ MaxFaults \in Nat

VARIABLES
  receipts,        \* appointment_operation_receipts: the state of each key's row
  effects,         \* how many times each key's write took effect
  exec,            \* API transactions in progress
  wire, answers,   \* requests and responses under way
  target,          \* the appointment each dispatched key is about
  stored,          \* intents in sessionStorage
  held,            \* operationRef
  ready,           \* scopeReady
  mutation,        \* the write the panel waits for
  asking,          \* receiptRequests
  unfresh,         \* freshnessRef: appointments whose current state must be read again
  selected, detail,               \* the appointment on screen and the version shown
  detailRequest, currentRequest,  \* reads under way
  faults

serverVars == <<receipts, effects, exec>>
netVars == <<wire, answers>>
intentVars == <<target, stored, held, ready, mutation, asking>>
viewVars == <<unfresh, selected, detail, detailRequest, currentRequest>>
vars == <<serverVars, netVars, intentVars, viewVars, faults>>

Verb == {"write", "status", "cancel"}
Version == 0..Cardinality(Keys)
Request == [key : Keys, verb : Verb, heard : BOOLEAN]
Answer == [key : Keys, verb : Verb, is : Terminal \cup {"pending", "not_found", "error"}, version : Version]
Idle == [stage |-> "idle"]
Transaction == {Idle} \cup [stage : {"locked"}, request : Request, row : {NULL}]
                      \cup [stage : {"worked"}, request : Request, row : Terminal]

TypeOK ==
  /\ receipts \in [Keys -> Terminal \cup {NULL}]
  /\ effects \in [Keys -> Nat]
  /\ exec \in [Servers -> Transaction]
  /\ wire \subseteq Request
  /\ answers \subseteq Answer
  /\ target \in [Keys -> Targets \cup {Create, NULL}]
  /\ stored \subseteq Keys /\ held \subseteq Keys /\ asking \subseteq Keys
  /\ ready \in BOOLEAN
  /\ mutation \in Keys \cup {NULL}
  /\ unfresh \subseteq Targets
  /\ selected \in Targets \cup {NULL}
  /\ detail \in Version \cup {NULL}
  /\ detailRequest \in Version \cup {NULL, SENT}
  /\ currentRequest \in [Targets -> Version \cup {NULL, SENT}]
  /\ faults \in 0..MaxFaults

Init ==
  /\ receipts = [k \in Keys |-> NULL]
  /\ effects = [k \in Keys |-> 0]
  /\ exec = [s \in Servers |-> Idle]
  /\ wire = {} /\ answers = {}
  /\ target = [k \in Keys |-> NULL]
  /\ stored = {} /\ held = {} /\ asking = {}
  /\ ready = FALSE
  /\ mutation = NULL
  /\ unfresh = {}
  /\ selected = NULL /\ detail = NULL /\ detailRequest = NULL
  /\ currentRequest = [t \in Targets |-> NULL]
  /\ faults = 0

Fault == faults < MaxFaults /\ faults' = faults + 1

(* The panel's own writes an appointment has been through. *)
VersionOf(t) == Cardinality({k \in Keys : target[k] = t /\ effects[k] > 0})

-----------------------------------------------------------------------------
(* The API *)

(* pg_advisory_xact_lock on the business, the actor and the key *)
Holds(s, k) == exec[s] # Idle /\ exec[s].request.key = k
KeyFree(k) == \A s \in Servers : ~Holds(s, k)

(* The answer to request m, which nobody reads if the panel gave the call up. *)
Reply(m, is, version) ==
  IF m.heard THEN answers \cup {[key |-> m.key, verb |-> m.verb, is |-> is, version |-> version]}
  ELSE answers

(* The transaction of server s ends with this answer. *)
Finish(s, is, version) ==
  /\ exec' = [exec EXCEPT ![s] = Idle]
  /\ answers' = Reply(exec[s].request, is, version)

(* A write or a cancellation waits for its key. *)
Lock(s, m) ==
  /\ exec[s] = Idle
  /\ m.verb # "status" /\ KeyFree(m.key)
  /\ wire' = wire \ {m}
  /\ exec' = [exec EXCEPT ![s] = [stage |-> "locked", request |-> m, row |-> NULL]]
  /\ UNCHANGED <<receipts, effects, answers, intentVars, viewVars, faults>>

(* GET: the key is only tried; a busy one is reported as pending. *)
Status(m) ==
  /\ m.verb = "status"
  /\ wire' = wire \ {m}
  /\ answers' = Reply(m, IF ~KeyFree(m.key) THEN "pending"
                         ELSE IF receipts[m.key] = NULL THEN "not_found" ELSE receipts[m.key], 0)
  /\ UNCHANGED <<serverVars, intentVars, viewVars, faults>>

FenceOverwrites(s) ==
  /\ exec[s].stage = "locked" /\ exec[s].request.verb = "cancel"
  /\ receipts' = [receipts EXCEPT ![exec[s].request.key] = "cancelled"]
  /\ Finish(s, "cancelled", 0)
  /\ UNCHANGED <<effects, wire, intentVars, viewVars, faults>>

(* Under the lock the cancellation finds a receipt and reports it, or writes a *)
(* cancelled one, which fences off the write wherever it is. *)
Fence(s) ==
  /\ exec[s].stage = "locked" /\ exec[s].request.verb = "cancel"
  /\ LET k == exec[s].request.key
         row == IF receipts[k] # NULL THEN receipts[k] ELSE "cancelled" IN
     /\ receipts' = [receipts EXCEPT ![k] = row]
     /\ Finish(s, row, 0)
  /\ UNCHANGED <<effects, wire, intentVars, viewVars, faults>>

(* A write whose key has a receipt answers with it. *)
Replay(s) ==
  /\ exec[s].stage = "locked" /\ exec[s].request.verb = "write"
  /\ receipts[exec[s].request.key] # NULL
  /\ Finish(s, receipts[exec[s].request.key], VersionOf(target[exec[s].request.key]))
  /\ UNCHANGED <<receipts, effects, wire, intentVars, viewVars, faults>>

(* The work runs in a savepoint: a rule that refuses it leaves a failed receipt *)
(* and no effect, *)
Work(s) ==
  /\ exec[s].stage = "locked" /\ exec[s].request.verb = "write"
  /\ receipts[exec[s].request.key] = NULL
  /\ \E row \in {"completed", "failed"} :
       exec' = [exec EXCEPT ![s] = [@ EXCEPT !.stage = "worked", !.row = row]]
  /\ UNCHANGED <<receipts, effects, netVars, intentVars, viewVars, faults>>

(* and the effect and the receipt are committed together. *)
Commit(s) ==
  /\ exec[s].stage = "worked"
  /\ LET k == exec[s].request.key IN
     /\ receipts' = [receipts EXCEPT ![k] = exec[s].row]
     /\ effects' = IF exec[s].row = "completed" THEN [effects EXCEPT ![k] = @ + 1] ELSE effects
     /\ Finish(s, exec[s].row,
               IF exec[s].row = "completed" /\ effects[k] = 0
               THEN VersionOf(target[k]) + 1 ELSE VersionOf(target[k]))
  /\ UNCHANGED <<wire, intentVars, viewVars, faults>>

(* An unexpected error rolls the whole transaction back, its admission included, *)
Unexpected(s) ==
  /\ exec[s] # Idle
  /\ Fault
  /\ Finish(s, "error", 0)
  /\ UNCHANGED <<receipts, effects, wire, intentVars, viewVars>>

(* or ends a request before it has the key. *)
Rejected(m) ==
  /\ Fault
  /\ wire' = wire \ {m}
  /\ answers' = Reply(m, "error", 0)
  /\ UNCHANGED <<serverVars, intentVars, viewVars>>

(* A client that lost the answer sends the write again under the same key. *)
Repeat(k) ==
  /\ Fault
  /\ target[k] # NULL
  /\ wire' = wire \cup {[key |-> k, verb |-> "write", heard |-> FALSE]}
  /\ UNCHANGED <<serverVars, answers, intentVars, viewVars>>

-----------------------------------------------------------------------------
(* The panel: intents *)

Send(requests) ==
  wire' = wire \cup {[key |-> r[1], verb |-> r[2], heard |-> TRUE] : r \in requests}

(* The panel no longer hears the calls <<key, verb>> of this set. *)
GiveUp(calls) ==
  /\ wire' = {[m EXCEPT !.heard = @ /\ <<m.key, m.verb>> \notin calls] : m \in wire}
  /\ exec' = [s \in Servers |->
               IF exec[s] = Idle THEN Idle
               ELSE [exec[s] EXCEPT !.request.heard = @ /\ <<exec[s].request.key, exec[s].request.verb>> \notin calls]]
  /\ answers' = {a \in answers : <<a.key, a.verb>> \notin calls}

(* sessionStorage is read back, under the scope the API reports. *)
LoadScope ==
  /\ ~ready
  /\ ready' = TRUE
  /\ held' = stored
  /\ UNCHANGED <<serverVars, netVars, target, stored, mutation, asking, viewVars, faults>>

BlockedIfItExists(t) == t \in unfresh \/ \E k \in held : target[k] = t /\ t # Create

(* A pending intent, or a pending read, blocks its appointment; a pending creation *)
(* blocks creations. *)
Blocked(t) == t \in unfresh \/ \E k \in held : target[k] = t

MayMutate(t) ==
  /\ mutation = NULL /\ ready
  /\ t # Create => selected = t /\ detail # NULL
  /\ ~Blocked(t)

(* The intent is stored before the request leaves. *)
Mutate(k, t) ==
  /\ MayMutate(t)
  /\ target[k] = NULL
  /\ target' = [target EXCEPT ![k] = t]
  /\ held' = held \cup {k} /\ stored' = held'
  /\ mutation' = k
  /\ Send({<<k, "write">>})
  /\ detailRequest' = NULL
  /\ UNCHANGED <<serverVars, answers, ready, asking, unfresh, selected, detail, currentRequest, faults>>

(* A storage that refuses the intent stops the write, and every later one. *)
StorageRefuses ==
  /\ \E t \in Targets \cup {Create} : MayMutate(t)
  /\ Fault
  /\ ready' = FALSE
  /\ detailRequest' = NULL
  /\ UNCHANGED <<serverVars, netVars, target, stored, held, mutation, asking,
                 unfresh, selected, detail, currentRequest>>

(* The intent of k goes from the storage, *)
Release(k) ==
  /\ held' = held \ {k} /\ stored' = held'
  /\ UNCHANGED <<ready, faults>>

(* unless the storage refuses that too. *)
Retain ==
  /\ Fault
  /\ ready' = FALSE
  /\ UNCHANGED <<held, stored>>

(* The write's own answer: the saved appointment is shown, then read again. *)
Saved(a) ==
  /\ a.verb = "write" /\ a.is = "completed" /\ mutation = a.key
  /\ answers' = answers \ {a}
  /\ mutation' = NULL
  /\ LET t == target[a.key] IN
     /\ selected' = IF t = Create THEN NULL ELSE t
     /\ detail' = IF t = Create THEN NULL ELSE a.version
     /\ \/ Release(a.key) /\ detailRequest' = IF t = Create THEN NULL ELSE SENT
        \/ Retain /\ UNCHANGED detailRequest
  /\ UNCHANGED <<serverVars, wire, target, asking, unfresh, currentRequest>>

RefusedAsRolledBack(a) ==
  /\ a.verb = "write" /\ a.is # "completed" /\ mutation = a.key
  /\ answers' = answers \ {a}
  /\ mutation' = NULL
  /\ Release(a.key)
  /\ UNCHANGED <<serverVars, wire, target, asking, viewVars>>

(* An HTTP error is no proof of a rollback: its receipt is asked for. *)
Refused(a) ==
  /\ a.verb = "write" /\ a.is # "completed" /\ mutation = a.key
  /\ answers' = answers \ {a}
  /\ mutation' = NULL
  /\ asking' = asking \cup {a.key}
  /\ Send({<<a.key, "status">>})
  /\ UNCHANGED <<serverVars, target, stored, held, ready, viewVars, faults>>

(* The user asks for the saved result, or confirms the cancellation. *)
Recover(k, verb) ==
  /\ verb \in {"status", "cancel"}
  /\ k \in held \ asking /\ mutation = NULL
  /\ asking' = asking \cup {k}
  /\ Send({<<k, verb>>})
  /\ UNCHANGED <<serverVars, answers, target, stored, held, ready, mutation, viewVars, faults>>

(* Only a terminal receipt releases the intent. *)
Unresolved(a) ==
  /\ a.verb # "write" /\ a.key \in asking /\ a.is \notin Terminal
  /\ answers' = answers \ {a}
  /\ asking' = asking \ {a.key}
  /\ UNCHANGED <<serverVars, wire, target, stored, held, ready, mutation, viewVars, faults>>

StartDetail == IF selected # NULL /\ mutation = NULL /\ detailRequest = NULL
               THEN SENT ELSE detailRequest
StartCurrent(t) == IF mutation = NULL /\ currentRequest[t] = NULL
                   THEN [currentRequest EXCEPT ![t] = SENT] ELSE currentRequest

(* A cancelled or failed write left the appointments as they were. *)
Settled(a) ==
  /\ a.verb # "write" /\ a.key \in asking /\ a.is \in Terminal \ {"completed"}
  /\ answers' = answers \ {a}
  /\ asking' = asking \ {a.key}
  /\ \/ Release(a.key) /\ detailRequest' = StartDetail
     \/ Retain /\ UNCHANGED detailRequest
  /\ UNCHANGED <<serverVars, wire, target, mutation, unfresh, selected, detail, currentRequest>>

RecoveredOverLateRead(a) ==
  /\ a.verb # "write" /\ a.key \in asking /\ a.is = "completed"
  /\ answers' = answers \ {a}
  /\ asking' = asking \ {a.key}
  /\ LET t == target[a.key] IN
     /\ unfresh' = unfresh \cup ({t} \cap Targets)
     /\ currentRequest' = IF t = Create THEN currentRequest ELSE StartCurrent(t)
  /\ Release(a.key)
  /\ UNCHANGED <<serverVars, wire, target, mutation, selected, detail, detailRequest>>

RecoveredWithoutTarget(a) ==
  /\ a.verb # "write" /\ a.key \in asking /\ a.is = "completed"
  /\ answers' = answers \ {a}
  /\ asking' = asking \ {a.key}
  /\ detailRequest' = NULL
  /\ unfresh' = unfresh \cup {target[a.key]}
  /\ Release(a.key)
  /\ UNCHANGED <<serverVars, wire, target, mutation, selected, detail, currentRequest>>

(* A completed receipt is history: the appointment is locked until its current *)
(* state is read, and the reads under way are dropped. *)
Recovered(a) ==
  /\ a.verb # "write" /\ a.key \in asking /\ a.is = "completed"
  /\ answers' = answers \ {a}
  /\ asking' = asking \ {a.key}
  /\ detailRequest' = NULL
  /\ LET t == target[a.key] IN
     /\ unfresh' = unfresh \cup ({t} \cap Targets)
     /\ \/ UNCHANGED <<selected, detail>>
        \/ t = Create /\ selected' = NULL /\ detail' = NULL   \* its editor was still open
     /\ \/ Release(a.key) /\ currentRequest' = IF t = Create THEN currentRequest ELSE StartCurrent(t)
        \/ Retain /\ UNCHANGED currentRequest
  /\ UNCHANGED <<serverVars, wire, target, mutation>>

-----------------------------------------------------------------------------
(* The panel: reads *)

(* loadDetail, or loadCurrent for an appointment that must be read again *)
Select(t) ==
  /\ mutation = NULL
  /\ selected' = t /\ detail' = NULL
  /\ IF t \in unfresh
     THEN detailRequest' = NULL /\ currentRequest' = StartCurrent(t)
     ELSE detailRequest' = SENT /\ UNCHANGED currentRequest
  /\ UNCHANGED <<serverVars, netVars, intentVars, unfresh, faults>>

ServeDetail ==
  /\ detailRequest = SENT
  /\ detailRequest' = VersionOf(selected)
  /\ UNCHANGED <<serverVars, netVars, intentVars, unfresh, selected, detail, currentRequest, faults>>

InstallDetail ==
  /\ detailRequest \in Version
  /\ detail' = IF selected \in unfresh THEN detail ELSE detailRequest
  /\ detailRequest' = NULL
  /\ UNCHANGED <<serverVars, netVars, intentVars, unfresh, selected, currentRequest, faults>>

ServeCurrent(t) ==
  /\ currentRequest[t] = SENT
  /\ currentRequest' = [currentRequest EXCEPT ![t] = VersionOf(t)]
  /\ UNCHANGED <<serverVars, netVars, intentVars, unfresh, selected, detail, detailRequest, faults>>

InstallCurrent(t) ==
  /\ currentRequest[t] \in Version
  /\ detail' = IF selected = t THEN currentRequest[t] ELSE detail
  /\ unfresh' = unfresh \ {t}
  /\ currentRequest' = [currentRequest EXCEPT ![t] = NULL]
  /\ UNCHANGED <<serverVars, netVars, intentVars, selected, detailRequest, faults>>

(* A read fails: the appointment stays locked if it was. *)
ReadFails ==
  /\ Fault
  /\ \/ detailRequest # NULL /\ detailRequest' = NULL /\ UNCHANGED currentRequest
     \/ \E t \in Targets : /\ currentRequest[t] # NULL
                           /\ currentRequest' = [currentRequest EXCEPT ![t] = NULL]
                           /\ UNCHANGED detailRequest
  /\ UNCHANGED <<serverVars, netVars, intentVars, unfresh, selected, detail>>

-----------------------------------------------------------------------------
(* The panel: interruptions *)

(* The network drops a call; what it carried may still reach the API. *)
Disconnect(k) ==
  /\ Fault
  /\ \/ mutation = k /\ mutation' = NULL /\ GiveUp({<<k, "write">>}) /\ UNCHANGED asking
     \/ k \in asking /\ asking' = asking \ {k} /\ GiveUp({<<k, "status">>, <<k, "cancel">>}) /\ UNCHANGED mutation
  /\ UNCHANGED <<receipts, effects, target, stored, held, ready, viewVars>>

(* abortOwned *)
AbortOwned ==
  /\ GiveUp(Keys \X Verb)
  /\ mutation' = NULL /\ asking' = {}
  /\ detailRequest' = NULL /\ currentRequest' = [t \in Targets |-> NULL]
  /\ ready' = FALSE

(* The session check disables the screen for a while: what it showed remains. *)
Disable ==
  /\ Fault
  /\ AbortOwned
  /\ UNCHANGED <<receipts, effects, target, stored, held, unfresh, selected, detail>>

(* The page is loaded again: only sessionStorage remains. *)
Reload ==
  /\ Fault
  /\ AbortOwned
  /\ held' = {} /\ unfresh' = {} /\ selected' = NULL /\ detail' = NULL
  /\ UNCHANGED <<receipts, effects, target, stored>>

-----------------------------------------------------------------------------
Server(s) == Fence(s) \/ Replay(s) \/ Work(s) \/ Commit(s)
Receive(m) == Status(m) \/ \E s \in Servers : Lock(s, m)
Heed(a) == Saved(a) \/ Refused(a) \/ Unresolved(a) \/ Settled(a) \/ Recovered(a)
Read == ServeDetail \/ InstallDetail \/ \E t \in Targets : ServeCurrent(t) \/ InstallCurrent(t)

Next ==
  \/ \E m \in wire : Receive(m) \/ Rejected(m)
  \/ \E s \in Servers : Server(s) \/ Unexpected(s)
  \/ \E k \in Keys : Repeat(k) \/ Disconnect(k)
  \/ \E k \in Keys, t \in Targets \cup {Create} : Mutate(k, t)
  \/ \E k \in Keys, verb \in Verb : Recover(k, verb)
  \/ \E a \in answers : Heed(a)
  \/ \E t \in Targets : Select(t)
  \/ Read \/ ReadFails \/ LoadScope \/ StorageRefuses \/ Disable \/ Reload

Spec == Init /\ [][Next]_vars

-----------------------------------------------------------------------------
(* A key's write takes effect once if its receipt says completed and never    *)
(* otherwise: through repeated requests, lost answers, rolled back            *)
(* transactions and cancellations that race it.                               *)
OnceByKey == \A k \in Keys : effects[k] = IF receipts[k] = "completed" THEN 1 ELSE 0

(* An intent leaves sessionStorage only when its write has a receipt, hence    *)
(* can no longer change its mind: neither an HTTP error nor an absent receipt  *)
(* releases it, nor does a page that is loaded again.                          *)
ReleasedIsSettled == \A k \in Keys : target[k] # NULL /\ k \notin stored => receipts[k] # NULL

(* The panel never has two writes of undecided outcome about the same          *)
(* appointment, nor two creations: the user cannot repeat what may yet happen. *)
OneUndecidedPerTarget ==
  \A k, l \in Keys : target[k] # NULL /\ target[k] = target[l] /\ receipts[k] = NULL /\ receipts[l] = NULL
                       => k = l

(* When the screen lets the user change the appointment it shows, it shows the *)
(* result of every change the panel itself has made to it: recovered receipts, *)
(* answers and reads that arrive late never leave an older version on screen.  *)
EditsWhatItSaved ==
  \A t \in Targets : MayMutate(t) => detail = VersionOf(t)
=============================================================================
