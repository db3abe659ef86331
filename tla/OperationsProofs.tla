-------------------------- MODULE OperationsProofs --------------------------
(***************************************************************************)
(* Proofs about Operations, for every finite set of keys, every set of     *)
(* appointments and API connections, and every number of faults.           *)
(*                                                                         *)
(* The API's half of the argument is the lock on the key: a transaction    *)
(* that has it is its only holder (OneHolder), so that between its check   *)
(* of the receipt and its commit nobody decides the key (StillUndecided),  *)
(* and receipts are written once.  The panel's half is that an answer it   *)
(* hears speaks of a receipt that is there (AnswersAreTrue) and that, while *)
(* it may write, what it holds is what it has stored (HeldIsStored).       *)
(***************************************************************************)
EXTENDS Operations, FiniteSetTheorems, TLAPS

OneHolder ==
  \A s \in Servers : exec[s] # Idle =>
    /\ exec[s].request.verb # "status"
    /\ \A other \in Servers : Holds(other, exec[s].request.key) => other = s

StillUndecided ==
  \A s \in Servers : exec[s].stage = "worked" =>
    exec[s].request.verb = "write" /\ receipts[exec[s].request.key] = NULL

AnswersAreTrue == \A a \in answers : a.is \in Terminal => receipts[a.key] = a.is

HeldIsStored ==
  \/ held = stored
  \/ held = {} /\ asking = {} /\ mutation = NULL /\ ~ready

ApiInv == OneHolder /\ StillUndecided /\ OnceByKey /\ AnswersAreTrue
PanelInv == HeldIsStored /\ ReleasedIsSettled /\ OneUndecidedPerTarget

IInv == TypeOK /\ ApiInv /\ PanelInv

(* The fields of a transaction by its stage. *)
LEMMA TransactionFields ==
  ASSUME NEW x \in Transaction
  PROVE  /\ x # Idle <=> x.stage \in {"locked", "worked"}
         /\ x # Idle => x.request \in Request
         /\ x.stage = "locked" => x = [stage |-> "locked", request |-> x.request, row |-> NULL]
         /\ x.stage = "worked" => /\ x = [stage |-> "worked", request |-> x.request, row |-> x.row]
                                  /\ x.row \in Terminal
  BY DEF Transaction, Idle

LEMMA VersionsAreBounded ==
  ASSUME NEW t
  PROVE  /\ VersionOf(t) \in Version
         /\ \A k \in Keys : target[k] = t /\ effects[k] = 0 => VersionOf(t) + 1 \in Version
  <1> DEFINE Done == {k \in Keys : target[k] = t /\ effects[k] > 0}
  <1>1. IsFiniteSet(Keys) /\ Cardinality(Keys) \in Nat
    BY OperationsAssumption, FS_CardinalityType
  <1>2. IsFiniteSet(Done) /\ Cardinality(Done) \in Nat /\ Cardinality(Done) <= Cardinality(Keys)
    BY <1>1, FS_Subset, FS_CardinalityType
  <1>3. ASSUME NEW k \in Keys, effects[k] = 0 PROVE Cardinality(Done) + 1 <= Cardinality(Keys)
    <2>1. k \notin Done /\ Done \cup {k} \in SUBSET Keys
      BY <1>3
    <2>2. Cardinality(Done \cup {k}) = Cardinality(Done) + 1
      BY <1>2, <2>1, FS_AddElement
    <2>3. QED
      BY <1>1, <2>1, <2>2, FS_Subset
  <1>4. QED
    BY <1>1, <1>2, <1>3 DEF VersionOf, Version

-----------------------------------------------------------------------------
(* What calls and answers carry *)

Outcome == Terminal \cup {"pending", "not_found", "error"}

LEMMA ReplyTyped ==
  ASSUME NEW m \in Request, NEW is \in Outcome, NEW version \in Version, answers \subseteq Answer
  PROVE  Reply(m, is, version) \subseteq Answer
  BY DEF Reply, Request, Answer, Outcome

LEMMA FinishTyped ==
  ASSUME NEW s \in Servers, TypeOK, exec[s] # Idle, NEW is \in Outcome, NEW version \in Version,
         Finish(s, is, version)
  PROVE  exec' \in [Servers -> Transaction] /\ answers' \subseteq Answer
  <1>1. exec[s].request \in Request
    BY TransactionFields DEF TypeOK
  <1>2. Reply(exec[s].request, is, version) \subseteq Answer
    BY <1>1, ReplyTyped DEF TypeOK
  <1>3. Idle \in Transaction
    BY DEF Transaction
  <1>4. exec' \in [Servers -> Transaction]
    BY <1>3 DEF Finish, TypeOK
  <1>5. QED
    BY <1>2, <1>4 DEF Finish

LEMMA SendTyped ==
  ASSUME NEW k \in Keys, NEW verb \in Verb, TypeOK, Send({<<k, verb>>})
  PROVE  wire' \subseteq Request
  <1>1. ASSUME NEW r \in {<<k, verb>>} PROVE [key |-> r[1], verb |-> r[2], heard |-> TRUE] \in Request
    <2>1. r[1] = k /\ r[2] = verb
      OBVIOUS
    <2>2. QED
      BY <2>1 DEF Request
  <1>2. QED
    BY <1>1 DEF Send, TypeOK

(* A call that is given up goes on without its listener. *)
SameWork(s) ==
  /\ exec'[s] = Idle <=> exec[s] = Idle
  /\ exec'[s].stage = exec[s].stage
  /\ exec[s] # Idle => /\ exec'[s].request.key = exec[s].request.key
                       /\ exec'[s].request.verb = exec[s].request.verb
                       /\ exec'[s].row = exec[s].row

LEMMA GiveUpKeepsTheWork ==
  ASSUME TypeOK, NEW calls, GiveUp(calls)
  PROVE  /\ wire' \subseteq Request /\ answers' \subseteq answers
         /\ exec' \in [Servers -> Transaction]
         /\ \A s \in Servers : SameWork(s)
  <1>1. wire' \subseteq Request
    <2> SUFFICES ASSUME NEW m \in wire PROVE [m EXCEPT !.heard = @ /\ <<m.key, m.verb>> \notin calls] \in Request
      BY DEF GiveUp
    <2>1. m \in Request
      BY DEF TypeOK
    <2>2. QED
      BY <2>1 DEF Request
  <1>2. ASSUME NEW s \in Servers PROVE exec'[s] \in Transaction /\ SameWork(s)
    <2> DEFINE heard == exec[s].request.heard /\ <<exec[s].request.key, exec[s].request.verb>> \notin calls
               request == [exec[s].request EXCEPT !.heard = heard]
    <2>1. CASE exec[s] = Idle
      BY <2>1 DEF GiveUp, SameWork, Transaction, Idle
    <2>2. CASE exec[s] # Idle
      <3>1. exec[s] \in Transaction /\ exec[s].request \in Request /\ exec[s].stage \in {"locked", "worked"}
        BY <2>2, TransactionFields DEF TypeOK
      <3>2. exec'[s] = [exec[s] EXCEPT !.request = request]
        BY <2>2, <3>1 DEF GiveUp
      <3>3. /\ request \in Request
            /\ request.key = exec[s].request.key /\ request.verb = exec[s].request.verb
        BY <3>1 DEF Request
      <3> HIDE DEF request
      <3>4. CASE exec[s].stage = "locked"
        <4>1. exec'[s] = [stage |-> "locked", request |-> request, row |-> NULL]
              /\ exec[s] = [stage |-> "locked", request |-> exec[s].request, row |-> NULL]
          BY <3>1, <3>2, <3>4, TransactionFields
        <4>2. QED
          BY <2>2, <3>3, <4>1 DEF SameWork, Transaction, Idle
      <3>5. CASE exec[s].stage = "worked"
        <4>1. /\ exec'[s] = [stage |-> "worked", request |-> request, row |-> exec[s].row]
              /\ exec[s] = [stage |-> "worked", request |-> exec[s].request, row |-> exec[s].row]
              /\ exec[s].row \in Terminal
          BY <3>1, <3>2, <3>5, TransactionFields
        <4>2. QED
          BY <2>2, <3>3, <4>1 DEF SameWork, Transaction, Idle
      <3>6. QED
        BY <3>1, <3>4, <3>5
    <2>3. QED
      BY <2>1, <2>2
  <1>3. exec' \in [Servers -> Transaction]
    BY <1>2 DEF GiveUp
  <1>4. QED
    BY <1>1, <1>2, <1>3 DEF GiveUp

-----------------------------------------------------------------------------
(* Types *)

LEMMA ServerTypes ==
  ASSUME TypeOK, OnceByKey, StillUndecided, NEW s \in Servers, Server(s) \/ Unexpected(s)
  PROVE  TypeOK'
  <1> DEFINE k == exec[s].request.key
  <1>1. /\ exec[s] # Idle /\ k \in Keys /\ exec[s].request \in Request
        /\ exec[s].stage = "locked" => exec[s] = [stage |-> "locked", request |-> exec[s].request, row |-> NULL]
        /\ exec[s].stage = "worked" => exec[s].row \in Terminal
    BY TransactionFields DEF TypeOK, Server, Fence, Replay, Work, Commit, Unexpected, Request, Idle
  <1>2. /\ receipts \in [Keys -> Terminal \cup {NULL}] /\ effects \in [Keys -> Nat]
        /\ exec \in [Servers -> Transaction] /\ Terminal \subseteq Outcome /\ 0 \in Version
        /\ answers \subseteq Answer /\ "cancelled" \in Terminal /\ "error" \in Outcome
    BY OperationsAssumption, FS_CardinalityType DEF TypeOK, Outcome, Version, Terminal
  <1> USE DEF intentVars, viewVars
  <1>3. CASE Fence(s)
    <2> DEFINE row == IF receipts[k] # NULL THEN receipts[k] ELSE "cancelled"
    <2>1. row \in Terminal /\ Finish(s, row, 0) /\ receipts' = [receipts EXCEPT ![k] = row]
      BY <1>1, <1>2, <1>3 DEF Fence
    <2> HIDE DEF row
    <2>2. exec' \in [Servers -> Transaction] /\ answers' \subseteq Answer
      BY <1>1, <1>2, <2>1, FinishTyped
    <2>3. QED
      BY <1>1, <1>2, <1>3, <2>1, <2>2 DEF Fence, TypeOK
  <1>4. CASE Replay(s)
    <2>1. receipts[k] \in Terminal /\ VersionOf(target[k]) \in Version
      BY <1>1, <1>2, <1>4, VersionsAreBounded DEF Replay
    <2>2. exec' \in [Servers -> Transaction] /\ answers' \subseteq Answer
      BY <1>1, <1>2, <1>4, <2>1, FinishTyped DEF Replay
    <2>3. QED
      BY <1>4, <2>2 DEF Replay, TypeOK
  <1>5. CASE Work(s)
    <2>1. PICK row \in {"completed", "failed"} :
            exec' = [exec EXCEPT ![s] = [@ EXCEPT !.stage = "worked", !.row = row]]
      BY <1>5 DEF Work
    <2>2. exec[s] \in [stage : {"locked"}, request : Request, row : {NULL}]
      BY <1>1, <1>5 DEF Work
    <2>3. [exec[s] EXCEPT !.stage = "worked", !.row = row] \in [stage : {"worked"}, request : Request, row : Terminal]
      BY <2>2 DEF Terminal
    <2>4. exec' \in [Servers -> Transaction]
      BY <1>2, <2>1, <2>3 DEF Transaction
    <2>5. QED
      BY <1>5, <2>4 DEF Work, TypeOK, netVars
  <1>6. CASE Commit(s)
    <2> DEFINE version == IF exec[s].row = "completed" /\ effects[k] = 0
                          THEN VersionOf(target[k]) + 1 ELSE VersionOf(target[k])
    <2>1. exec[s].row \in Terminal /\ version \in Version
      BY <1>1, <1>6, VersionsAreBounded DEF Commit
    <2>2. /\ Finish(s, exec[s].row, version) /\ receipts' = [receipts EXCEPT ![k] = exec[s].row]
          /\ effects' = IF exec[s].row = "completed" THEN [effects EXCEPT ![k] = @ + 1] ELSE effects
      BY <1>6 DEF Commit
    <2> HIDE DEF version
    <2>3. exec' \in [Servers -> Transaction] /\ answers' \subseteq Answer
      BY <1>1, <1>2, <2>1, <2>2, FinishTyped
    <2>4. effects' \in [Keys -> Nat] /\ receipts' \in [Keys -> Terminal \cup {NULL}]
      BY <1>1, <1>2, <2>1, <2>2
    <2>5. QED
      BY <1>6, <2>3, <2>4 DEF Commit, TypeOK
  <1>7. CASE Unexpected(s)
    <2>1. exec' \in [Servers -> Transaction] /\ answers' \subseteq Answer
      BY <1>1, <1>2, <1>7, FinishTyped DEF Unexpected
    <2>2. faults' \in 0..MaxFaults
      BY <1>7, OperationsAssumption DEF TypeOK, Unexpected, Fault
    <2>3. QED
      BY <1>7, <2>1, <2>2 DEF Unexpected, TypeOK
  <1>8. QED
    BY <1>3, <1>4, <1>5, <1>6, <1>7 DEF Server

LEMMA RequestTypes ==
  ASSUME TypeOK, NEW m \in wire, Receive(m) \/ Rejected(m)
  PROVE  TypeOK'
  <1>1. m \in Request /\ m.key \in Keys /\ wire \subseteq Request /\ answers \subseteq Answer
    BY DEF TypeOK, Request
  <1>2. 0 \in Version /\ {"pending", "not_found", "error"} \cup Terminal \subseteq Outcome
    BY OperationsAssumption, FS_CardinalityType DEF Version, Outcome
  <1> USE DEF intentVars, viewVars, serverVars
  <1>3. CASE Status(m)
    <2> DEFINE is == IF ~KeyFree(m.key) THEN "pending"
                     ELSE IF receipts[m.key] = NULL THEN "not_found" ELSE receipts[m.key]
    <2>1. is \in Outcome
      BY <1>1, <1>2 DEF TypeOK
    <2>2. answers' = Reply(m, is, 0) /\ wire' \subseteq wire
      BY <1>3 DEF Status
    <2> HIDE DEF is
    <2>3. answers' \subseteq Answer
      BY <1>1, <1>2, <2>1, <2>2, ReplyTyped
    <2>4. QED
      BY <1>3, <2>2, <2>3 DEF Status, TypeOK
  <1>4. ASSUME NEW s \in Servers, Lock(s, m) PROVE TypeOK'
    <2>1. [stage |-> "locked", request |-> m, row |-> NULL] \in Transaction
      BY <1>1 DEF Transaction
    <2>2. exec' \in [Servers -> Transaction] /\ wire' \subseteq wire
      BY <1>4, <2>1 DEF Lock, TypeOK
    <2>3. QED
      BY <1>4, <2>2 DEF Lock, TypeOK
  <1>5. CASE Rejected(m)
    <2>1. answers' \subseteq Answer /\ wire' \subseteq wire
      BY <1>1, <1>2, <1>5, ReplyTyped DEF Rejected
    <2>2. faults' \in 0..MaxFaults
      BY <1>5, OperationsAssumption DEF TypeOK, Rejected, Fault
    <2>3. QED
      BY <1>5, <2>1, <2>2 DEF Rejected, TypeOK
  <1>6. QED
    BY <1>3, <1>4, <1>5 DEF Receive

LEMMA FaultTyped ==
  ASSUME TypeOK, Fault
  PROVE  faults' \in 0..MaxFaults
  BY OperationsAssumption DEF TypeOK, Fault

(* What Release and Retain do to the panel's intents. *)
LEMMA IntentTyped ==
  ASSUME TypeOK, NEW k, Release(k) \/ Retain
  PROVE  stored' \subseteq Keys /\ held' \subseteq Keys /\ ready' \in BOOLEAN /\ faults' \in 0..MaxFaults
  BY FaultTyped DEF TypeOK, Release, Retain

LEMMA ReadTypes ==
  ASSUME TypeOK,
         (\E t \in Targets : Select(t)) \/ Read \/ ReadFails
  PROVE  TypeOK'
  <1> USE VersionsAreBounded DEF serverVars, netVars, intentVars
  <1>1. ASSUME NEW t \in Targets, Select(t) PROVE TypeOK'
    <2>1. StartCurrent(t) \in [Targets -> Version \cup {NULL, SENT}]
      BY DEF StartCurrent, TypeOK
    <2>2. QED
      BY <1>1, <2>1 DEF Select, TypeOK
  <1>2. CASE ServeDetail
    BY <1>2 DEF ServeDetail, TypeOK
  <1>3. CASE InstallDetail
    BY <1>3 DEF InstallDetail, TypeOK
  <1>4. ASSUME NEW t \in Targets, ServeCurrent(t) PROVE TypeOK'
    BY <1>4 DEF ServeCurrent, TypeOK
  <1>5. ASSUME NEW t \in Targets, InstallCurrent(t) PROVE TypeOK'
    BY <1>5 DEF InstallCurrent, TypeOK
  <1>6. CASE ReadFails
    <2>1. faults' \in 0..MaxFaults
      BY <1>6, FaultTyped DEF ReadFails
    <2>2. QED
      BY <1>6, <2>1 DEF ReadFails, TypeOK
  <1>7. QED
    BY <1>1, <1>2, <1>3, <1>4, <1>5, <1>6 DEF Read

LEMMA HeedTypes ==
  ASSUME TypeOK, NEW a \in answers, Heed(a)
  PROVE  TypeOK'
  <1>1. /\ a.key \in Keys /\ a.version \in Version /\ a.verb \in Verb
        /\ target[a.key] \in Targets \cup {Create, NULL}
        /\ target[a.key] # NULL /\ target[a.key] # Create => target[a.key] \in Targets
    BY DEF TypeOK, Answer
  <1> USE DEF serverVars, viewVars
  <1>2. CASE Saved(a)
    <2>1. stored' \subseteq Keys /\ held' \subseteq Keys /\ ready' \in BOOLEAN /\ faults' \in 0..MaxFaults
      BY <1>2, IntentTyped DEF Saved
    <2>2. selected' \in Targets \cup {NULL} /\ detail' \in Version \cup {NULL}
          /\ detailRequest' \in Version \cup {NULL, SENT}
      BY <1>1, <1>2 DEF Saved, TypeOK
    <2>3. QED
      BY <1>2, <2>1, <2>2 DEF Saved, TypeOK
  <1>3. CASE Refused(a)
    <2>1. wire' \subseteq Request
      BY <1>1, <1>3, SendTyped DEF Refused, Verb
    <2>2. QED
      BY <1>1, <1>3, <2>1 DEF Refused, TypeOK
  <1>4. CASE Unresolved(a)
    BY <1>4 DEF Unresolved, TypeOK
  <1>5. CASE Settled(a)
    <2>1. stored' \subseteq Keys /\ held' \subseteq Keys /\ ready' \in BOOLEAN /\ faults' \in 0..MaxFaults
      BY <1>5, IntentTyped DEF Settled
    <2>2. detailRequest' \in Version \cup {NULL, SENT}
      BY <1>5 DEF Settled, StartDetail, TypeOK
    <2>3. QED
      BY <1>5, <2>1, <2>2 DEF Settled, TypeOK
  <1>6. CASE Recovered(a)
    <2>1. stored' \subseteq Keys /\ held' \subseteq Keys /\ ready' \in BOOLEAN /\ faults' \in 0..MaxFaults
      BY <1>6, IntentTyped DEF Recovered
    <2>2. \A t : StartCurrent(t) \in [Targets -> Version \cup {NULL, SENT}]
      BY DEF StartCurrent, TypeOK
    <2>3. currentRequest' \in [Targets -> Version \cup {NULL, SENT}]
      BY <1>6, <2>2 DEF Recovered, TypeOK
    <2>4. QED
      BY <1>6, <2>1, <2>3 DEF Recovered, TypeOK
  <1>7. QED
    BY <1>2, <1>3, <1>4, <1>5, <1>6 DEF Heed

LEMMA PanelTypes ==
  ASSUME TypeOK,
         \/ \E k \in Keys : Repeat(k) \/ Disconnect(k)
         \/ \E k \in Keys, t \in Targets \cup {Create} : Mutate(k, t)
         \/ \E k \in Keys, verb \in Verb : Recover(k, verb)
         \/ LoadScope \/ StorageRefuses \/ Disable \/ Reload
  PROVE  TypeOK'
  <1> USE DEF serverVars, netVars, viewVars
  <1>1. ASSUME NEW k \in Keys, Repeat(k) PROVE TypeOK'
    <2>1. [key |-> k, verb |-> "write", heard |-> FALSE] \in Request
      BY DEF Request, Verb
    <2>2. faults' \in 0..MaxFaults /\ wire' \subseteq Request
      BY <1>1, <2>1, FaultTyped DEF Repeat, TypeOK
    <2>3. QED
      BY <1>1, <2>2 DEF Repeat, TypeOK, intentVars
  <1>2. ASSUME NEW k \in Keys, Disconnect(k) PROVE TypeOK'
    <2>1. faults' \in 0..MaxFaults /\ wire' \subseteq Request /\ answers' \subseteq answers
          /\ exec' \in [Servers -> Transaction]
      BY <1>2, FaultTyped, GiveUpKeepsTheWork DEF Disconnect
    <2>2. QED
      BY <1>2, <2>1 DEF Disconnect, TypeOK
  <1>3. ASSUME NEW k \in Keys, NEW t \in Targets \cup {Create}, Mutate(k, t) PROVE TypeOK'
    <2>1. wire' \subseteq Request
      BY <1>3, SendTyped DEF Mutate, Verb
    <2>2. QED
      BY <1>3, <2>1 DEF Mutate, TypeOK
  <1>4. ASSUME NEW k \in Keys, NEW verb \in Verb, Recover(k, verb) PROVE TypeOK'
    <2>1. wire' \subseteq Request
      BY <1>4, SendTyped DEF Recover
    <2>2. QED
      BY <1>4, <2>1 DEF Recover, TypeOK
  <1>5. CASE LoadScope
    BY <1>5 DEF LoadScope, TypeOK
  <1>6. CASE StorageRefuses
    BY <1>6, FaultTyped DEF StorageRefuses, TypeOK
  <1>7. CASE Disable \/ Reload
    <2>1. AbortOwned /\ faults' \in 0..MaxFaults
      BY <1>7, FaultTyped DEF Disable, Reload
    <2>2. /\ wire' \subseteq Request /\ answers' \subseteq answers
          /\ exec' \in [Servers -> Transaction]
      BY <2>1, GiveUpKeepsTheWork DEF AbortOwned
    <2>3. currentRequest' \in [Targets -> Version \cup {NULL, SENT}]
      BY <2>1 DEF AbortOwned
    <2>4. QED
      BY <1>7, <2>1, <2>2, <2>3 DEF Disable, Reload, AbortOwned, TypeOK
  <1>8. QED
    BY <1>1, <1>2, <1>3, <1>4, <1>5, <1>6, <1>7

LEMMA TypeStep == TypeOK /\ OnceByKey /\ StillUndecided /\ Next => TypeOK'
  BY ServerTypes, RequestTypes, PanelTypes, HeedTypes, ReadTypes DEF Next

-----------------------------------------------------------------------------
(* The API's invariants *)

(* The panel reads, forgets and stops listening: the API does not notice. *)
KeepsTheApi ==
  UNCHANGED <<receipts, effects>> /\ answers' \subseteq answers /\ \A s \in Servers : SameWork(s)

PanelStep ==
  \/ \E k \in Keys : Repeat(k) \/ Disconnect(k)
  \/ \E k \in Keys, t \in Targets \cup {Create} : Mutate(k, t)
  \/ \E k \in Keys, verb \in Verb : Recover(k, verb)
  \/ \E a \in answers : Heed(a)
  \/ \E t \in Targets : Select(t)
  \/ Read \/ ReadFails \/ LoadScope \/ StorageRefuses \/ Disable \/ Reload

LEMMA PanelKeepsTheApi ==
  ASSUME TypeOK, PanelStep
  PROVE  KeepsTheApi
  <1>1. CASE UNCHANGED serverVars /\ answers' \subseteq answers
    BY <1>1 DEF serverVars, KeepsTheApi, SameWork
  <1>2. ASSUME NEW k \in Keys, Disconnect(k) PROVE KeepsTheApi
    BY <1>2, GiveUpKeepsTheWork DEF Disconnect, KeepsTheApi
  <1>3. CASE Disable \/ Reload
    BY <1>3, GiveUpKeepsTheWork DEF Disable, Reload, AbortOwned, KeepsTheApi
  <1>4. ASSUME NEW a \in answers, Heed(a) PROVE UNCHANGED serverVars /\ answers' \subseteq answers
    BY <1>4 DEF Heed, Saved, Refused, Unresolved, Settled, Recovered
  <1>5. CASE (\E t \in Targets : Select(t)) \/ Read \/ ReadFails
    BY <1>1, <1>5 DEF Select, Read, ServeDetail, InstallDetail, ServeCurrent, InstallCurrent, ReadFails, netVars
  <1>6. ASSUME NEW k \in Keys, Repeat(k) PROVE UNCHANGED serverVars /\ answers' \subseteq answers
    BY <1>6 DEF Repeat
  <1>7. ASSUME NEW k \in Keys, NEW t, Mutate(k, t) PROVE UNCHANGED serverVars /\ answers' \subseteq answers
    BY <1>7 DEF Mutate
  <1>8. ASSUME NEW k \in Keys, NEW verb, Recover(k, verb) PROVE UNCHANGED serverVars /\ answers' \subseteq answers
    BY <1>8 DEF Recover
  <1>9. CASE LoadScope \/ StorageRefuses
    BY <1>1, <1>9 DEF LoadScope, StorageRefuses, netVars
  <1>10. QED
    BY <1>1, <1>2, <1>3, <1>4, <1>5, <1>6, <1>7, <1>8, <1>9 DEF PanelStep

LEMMA KeptApi ==
  ASSUME TypeOK, ApiInv, KeepsTheApi
  PROVE  ApiInv'
  <1> USE DEF ApiInv, KeepsTheApi
  <1>1. OneHolder'
    BY DEF OneHolder, SameWork, Holds
  <1>2. StillUndecided'
    <2> SUFFICES ASSUME NEW s \in Servers, exec'[s].stage = "worked"
                 PROVE  exec'[s].request.verb = "write" /\ receipts'[exec'[s].request.key] = NULL
      BY DEF StillUndecided
    <2>1. exec[s].stage = "worked" /\ exec[s] # Idle
      BY TransactionFields DEF SameWork, Idle
    <2>2. QED
      BY <2>1 DEF SameWork, StillUndecided
  <1>3. OnceByKey' /\ AnswersAreTrue'
    BY DEF OnceByKey, AnswersAreTrue
  <1>4. QED
    BY <1>1, <1>2, <1>3

(* What a transaction may answer. *)
LEMMA TrueReply ==
  ASSUME NEW m, NEW is, NEW version, AnswersAreTrue, is \in Terminal => receipts'[m.key] = is,
         \A k \in Keys : receipts[k] # NULL => receipts'[k] = receipts[k],
         answers \subseteq Answer,
         answers' = Reply(m, is, version)
  PROVE  AnswersAreTrue'
  <1> SUFFICES ASSUME NEW a \in answers', a.is \in Terminal PROVE receipts'[a.key] = a.is
    BY DEF AnswersAreTrue
  <1>1. CASE a \in answers
    <2>1. receipts[a.key] = a.is /\ a.key \in Keys /\ a.is # NULL
      BY <1>1, OperationsAssumption DEF AnswersAreTrue, Answer
    <2>2. QED
      BY <2>1
  <1>2. CASE a = [key |-> m.key, verb |-> m.verb, is |-> is, version |-> version]
    BY <1>2
  <1>3. QED
    BY <1>1, <1>2 DEF Reply

LEMMA RequestStep ==
  ASSUME TypeOK, ApiInv, NEW m \in wire, Receive(m) \/ Rejected(m)
  PROVE  ApiInv'
  <1>1. m \in Request /\ answers \subseteq Answer /\ exec \in [Servers -> Transaction]
    BY DEF TypeOK
  <1> USE DEF ApiInv
  <1>2. CASE Status(m)
    <2>1. UNCHANGED <<receipts, effects, exec>>
      BY <1>2 DEF Status, serverVars
    <2>2. AnswersAreTrue'
      <3> DEFINE is == IF ~KeyFree(m.key) THEN "pending"
                       ELSE IF receipts[m.key] = NULL THEN "not_found" ELSE receipts[m.key]
      <3>1. is \in Terminal => receipts'[m.key] = is
        BY <2>1 DEF Terminal
      <3>2. answers' = Reply(m, is, 0)
        BY <1>2 DEF Status
      <3> HIDE DEF is
      <3>3. QED
        BY <1>1, <2>1, <3>1, <3>2, TrueReply
    <2>3. QED
      BY <2>1, <2>2 DEF OneHolder, StillUndecided, OnceByKey, Holds
  <1>3. ASSUME NEW s \in Servers, Lock(s, m) PROVE ApiInv'
    <2>1. /\ exec'[s] = [stage |-> "locked", request |-> m, row |-> NULL]
          /\ \A other \in Servers \ {s} : exec'[other] = exec[other] /\ ~Holds(other, m.key)
          /\ m.verb # "status" /\ UNCHANGED <<receipts, effects, answers>>
      BY <1>1, <1>3 DEF Lock, KeyFree
    <2>2. OneHolder'
      BY <2>1 DEF OneHolder, Holds
    <2>3. QED
      BY <2>1, <2>2 DEF StillUndecided, OnceByKey, AnswersAreTrue
  <1>4. CASE Rejected(m)
    <2>1. UNCHANGED <<receipts, effects, exec>> /\ answers' = Reply(m, "error", 0)
      BY <1>4 DEF Rejected, serverVars
    <2>2. AnswersAreTrue'
      BY <1>1, <2>1, TrueReply DEF Terminal
    <2>3. QED
      BY <2>1, <2>2 DEF OneHolder, StillUndecided, OnceByKey, Holds
  <1>5. QED
    BY <1>2, <1>3, <1>4 DEF Receive

(* The end of a transaction that decides nothing, or decides its own key. *)
LEMMA EndStep ==
  ASSUME TypeOK, ApiInv, NEW s \in Servers, exec[s] # Idle,
         NEW is, NEW version, Finish(s, is, version),
         is \in Terminal => receipts'[exec[s].request.key] = is,
         \A k \in Keys : receipts'[k] # receipts[k] => receipts[k] = NULL /\ k = exec[s].request.key
  PROVE  OneHolder' /\ StillUndecided' /\ AnswersAreTrue'
  <1> DEFINE key == exec[s].request.key
  <1>1. /\ exec'[s] = Idle /\ \A other \in Servers \ {s} : exec'[other] = exec[other]
        /\ answers' = Reply(exec[s].request, is, version) /\ answers \subseteq Answer
    BY DEF Finish, TypeOK
  <1>2. OneHolder'
    BY <1>1 DEF ApiInv, OneHolder, Holds
  <1>3. StillUndecided'
    <2> SUFFICES ASSUME NEW o \in Servers, exec'[o].stage = "worked"
                 PROVE  exec'[o].request.verb = "write" /\ receipts'[exec'[o].request.key] = NULL
      BY DEF StillUndecided
    <2>1. o # s /\ exec'[o] = exec[o] /\ exec[o] # Idle
      BY <1>1 DEF Idle
    <2>2. exec[o].request.key \in Keys /\ exec[o].request.key # key
      BY <2>1, TransactionFields DEF ApiInv, OneHolder, Holds, TypeOK, Request
    <2>3. QED
      BY <2>1, <2>2 DEF ApiInv, StillUndecided
  <1>4. AnswersAreTrue'
    BY <1>1, TrueReply DEF ApiInv
  <1>5. QED
    BY <1>2, <1>3, <1>4

LEMMA ServerStep ==
  ASSUME TypeOK, ApiInv, NEW s \in Servers, Server(s) \/ Unexpected(s)
  PROVE  /\ ApiInv'
         /\ \A k \in Keys : receipts[k] # NULL => receipts'[k] = receipts[k]
  <1> DEFINE key == exec[s].request.key
  <1>1. exec[s].stage = "worked" => exec[s].row \in Terminal
    BY TransactionFields DEF TypeOK
  <1>2. exec[s] # Idle /\ key \in Keys
    BY TransactionFields DEF TypeOK, Server, Fence, Replay, Work, Commit, Unexpected, Request, Idle
  <1>3. /\ receipts \in [Keys -> Terminal \cup {NULL}] /\ effects \in [Keys -> Nat]
        /\ exec \in [Servers -> Transaction] /\ NULL \notin Terminal \cup {"completed"} /\ "error" \notin Terminal
    BY OperationsAssumption DEF TypeOK, Terminal
  <1>4. CASE Fence(s)
    <2> DEFINE row == IF receipts[key] # NULL THEN receipts[key] ELSE "cancelled"
    <2>1. /\ Finish(s, row, 0) /\ receipts' = [receipts EXCEPT ![key] = row] /\ UNCHANGED effects
          /\ row \in Terminal
          /\ receipts[key] = NULL => row = "cancelled"
          /\ receipts[key] # NULL => row = receipts[key]
      BY <1>2, <1>3, <1>4 DEF Fence, Terminal
    <2> HIDE DEF row
    <2>2. \A k \in Keys : receipts'[k] = IF k = key THEN row ELSE receipts[k]
      BY <1>3, <2>1
    <2>3. OneHolder' /\ StillUndecided' /\ AnswersAreTrue'
      BY <1>2, <2>1, <2>2, EndStep
    <2>4. OnceByKey'
      BY <1>2, <1>3, <2>1, <2>2 DEF ApiInv, OnceByKey
    <2>5. QED
      BY <2>1, <2>2, <2>3, <2>4 DEF ApiInv
  <1>5. CASE Replay(s) \/ Unexpected(s)
    <2>1. UNCHANGED <<receipts, effects>>
      BY <1>5 DEF Replay, Unexpected
    <2>2. \E is, version : Finish(s, is, version) /\ (is \in Terminal => receipts[key] = is)
      <3>1. CASE Replay(s)
        BY <3>1 DEF Replay
      <3>2. CASE Unexpected(s)
        BY <1>3, <3>2 DEF Unexpected
      <3>3. QED
        BY <1>5, <3>1, <3>2
    <2>3. OneHolder' /\ StillUndecided' /\ AnswersAreTrue'
      BY <1>2, <2>1, <2>2, EndStep
    <2>4. QED
      BY <2>1, <2>3 DEF ApiInv, OnceByKey
  <1>6. CASE Work(s)
    <2>1. /\ exec'[s].stage = "worked" /\ exec'[s].request = exec[s].request
          /\ exec[s].request.verb = "write" /\ receipts[key] = NULL
          /\ \A other \in Servers \ {s} : exec'[other] = exec[other]
          /\ UNCHANGED <<receipts, effects, answers>>
      <3>1. exec[s] \in [stage : {"locked"}, request : Request, row : {NULL}]
        BY <1>2, <1>3, <1>6, TransactionFields DEF Work
      <3>2. PICK row : exec' = [exec EXCEPT ![s] = [@ EXCEPT !.stage = "worked", !.row = row]]
        BY <1>6 DEF Work
      <3>3. exec'[s].stage = "worked" /\ exec'[s].request = exec[s].request
        BY <1>3, <3>1, <3>2
      <3>4. QED
        BY <1>3, <1>6, <3>2, <3>3 DEF Work, netVars
    <2>2. \A o \in Servers : exec'[o] # Idle <=> exec[o] # Idle
      BY <1>2, <2>1 DEF Idle
    <2>3. OneHolder'
      BY <2>1, <2>2 DEF ApiInv, OneHolder, Holds
    <2>4. StillUndecided'
      BY <2>1 DEF ApiInv, StillUndecided
    <2>5. QED
      BY <2>1, <2>3, <2>4 DEF ApiInv, OnceByKey, AnswersAreTrue
  <1>7. CASE Commit(s)
    <2> DEFINE row == exec[s].row
    <2>1. /\ \E version : Finish(s, row, version)
          /\ receipts' = [receipts EXCEPT ![key] = row]
          /\ effects' = IF row = "completed" THEN [effects EXCEPT ![key] = @ + 1] ELSE effects
          /\ receipts[key] = NULL
      BY <1>7 DEF Commit, ApiInv, StillUndecided
    <2>2. \A k \in Keys : receipts'[k] = IF k = key THEN row ELSE receipts[k]
      BY <1>3, <2>1
    <2>3. OneHolder' /\ StillUndecided' /\ AnswersAreTrue'
      BY <1>2, <2>1, <2>2, EndStep
    <2>4. OnceByKey'
      <3>1. effects[key] = 0 /\ row \in Terminal
        BY <1>1, <1>2, <1>3, <1>7, <2>1 DEF Commit, ApiInv, OnceByKey
      <3> HIDE DEF key, row
      <3>2. CASE row = "completed"
        BY <1>2, <1>3, <2>1, <2>2, <3>1, <3>2 DEF ApiInv, OnceByKey
      <3>3. CASE row # "completed"
        BY <1>2, <2>1, <2>2, <3>1, <3>3 DEF ApiInv, OnceByKey
      <3>4. QED
        BY <3>2, <3>3
    <2>5. QED
      BY <2>1, <2>2, <2>3, <2>4 DEF ApiInv
  <1>8. QED
    BY <1>4, <1>5, <1>6, <1>7 DEF Server

(* A receipt is written once. *)
LEMMA ReceiptsStay ==
  ASSUME TypeOK, ApiInv, Next
  PROVE  ApiInv' /\ \A k \in Keys : receipts[k] # NULL => receipts'[k] = receipts[k]
  <1>1. CASE PanelStep
    BY <1>1, PanelKeepsTheApi, KeptApi DEF KeepsTheApi
  <1>2. ASSUME NEW m \in wire, Receive(m) \/ Rejected(m) PROVE ApiInv' /\ UNCHANGED receipts
    BY <1>2, RequestStep DEF Receive, Status, Lock, Rejected, serverVars
  <1>3. QED
    BY <1>1, <1>2, ServerStep DEF Next, PanelStep

-----------------------------------------------------------------------------
(* The panel's invariants *)

ReceiptsGrow == \A k \in Keys : receipts[k] # NULL => receipts'[k] = receipts[k]

(* Intents that stay as they are stay settled and apart. *)
LEMMA SameIntents ==
  ASSUME PanelInv, ReceiptsGrow, UNCHANGED <<target, stored>>
  PROVE  ReleasedIsSettled' /\ OneUndecidedPerTarget'
  BY DEF PanelInv, ReceiptsGrow, ReleasedIsSettled, OneUndecidedPerTarget

LEMMA SamePanel ==
  ASSUME PanelInv, ReceiptsGrow, UNCHANGED intentVars
  PROVE  PanelInv'
  <1>1. HeldIsStored'
    BY DEF PanelInv, HeldIsStored, intentVars
  <1>2. QED
    BY <1>1, SameIntents DEF PanelInv, intentVars

LEMMA MutateStep ==
  ASSUME TypeOK, PanelInv, ReceiptsGrow, NEW k \in Keys, NEW t \in Targets \cup {Create}, Mutate(k, t)
  PROVE  PanelInv'
  <1>1. /\ held = stored /\ stored' = held \cup {k} /\ held' = stored'
        /\ target' = [target EXCEPT ![k] = t] /\ \A l \in held : target[l] # t
    BY DEF Mutate, MayMutate, Blocked, PanelInv, HeldIsStored
  <1>2. \A l \in Keys : target'[l] = IF l = k THEN t ELSE target[l]
    BY <1>1 DEF TypeOK
  <1>3. ReleasedIsSettled'
    BY <1>1, <1>2 DEF PanelInv, ReceiptsGrow, ReleasedIsSettled
  <1>4. ASSUME NEW l \in Keys, l # k, target[l] = t, receipts'[l] = NULL PROVE FALSE
    <2>1. t # NULL /\ receipts[l] = NULL
      BY <1>4, OperationsAssumption DEF ReceiptsGrow
    <2>2. l \in held
      BY <1>1, <1>4, <2>1 DEF PanelInv, ReleasedIsSettled
    <2>3. QED
      BY <1>1, <1>4, <2>2
  <1>5. OneUndecidedPerTarget'
    <2> SUFFICES ASSUME NEW l \in Keys, NEW j \in Keys, l # j, target'[l] # NULL, target'[l] = target'[j],
                        receipts'[l] = NULL, receipts'[j] = NULL
                 PROVE  FALSE
      BY DEF OneUndecidedPerTarget
    <2>1. CASE l = k \/ j = k
      BY <1>2, <1>4, <2>1
    <2>2. CASE l # k /\ j # k
      BY <1>2, <2>2 DEF PanelInv, ReceiptsGrow, OneUndecidedPerTarget
    <2>3. QED
      BY <2>1, <2>2
  <1>6. QED
    BY <1>1, <1>3, <1>5 DEF PanelInv, HeldIsStored

LEMMA HeedStep ==
  ASSUME TypeOK, ApiInv, PanelInv, NEW a \in answers, Heed(a), ReceiptsGrow
  PROVE  PanelInv'
  <1>1. a.key \in Keys /\ a.key # NULL /\ held = stored
    BY OperationsAssumption
       DEF PanelInv, HeldIsStored, Heed, Saved, Refused, Unresolved, Settled, Recovered, TypeOK, Answer
  <1>2. CASE UNCHANGED <<target, stored, held>>
    BY <1>1, <1>2, SameIntents DEF PanelInv, HeldIsStored
  <1>3. CASE Release(a.key) /\ UNCHANGED target /\ a.is \in Terminal
    <2>1. receipts'[a.key] # NULL
      BY <1>1, <1>3, OperationsAssumption DEF ApiInv, AnswersAreTrue, ReceiptsGrow
    <2>2. held' = stored' /\ stored' = stored \ {a.key}
      BY <1>1, <1>3 DEF Release
    <2>3. ReleasedIsSettled'
      BY <1>3, <2>1, <2>2 DEF PanelInv, ReceiptsGrow, ReleasedIsSettled
    <2>4. OneUndecidedPerTarget'
      BY <1>3 DEF PanelInv, ReceiptsGrow, OneUndecidedPerTarget
    <2>5. QED
      BY <2>2, <2>3, <2>4 DEF PanelInv, HeldIsStored
  <1>4. QED
    BY <1>2, <1>3 DEF Heed, Saved, Refused, Unresolved, Settled, Recovered, Retain, Terminal

LEMMA IntentStep ==
  ASSUME TypeOK, PanelInv, ReceiptsGrow,
         \/ \E k \in Keys : Disconnect(k) \/ \E verb \in Verb : Recover(k, verb)
         \/ LoadScope \/ StorageRefuses \/ Disable \/ Reload
  PROVE  PanelInv'
  <1>1. ReleasedIsSettled' /\ OneUndecidedPerTarget'
    BY SameIntents DEF Disconnect, Recover, LoadScope, StorageRefuses, Disable, Reload
  <1>2. ASSUME NEW k \in Keys, Disconnect(k) PROVE HeldIsStored'
    BY <1>2, OperationsAssumption DEF Disconnect, PanelInv, HeldIsStored
  <1>3. ASSUME NEW k \in Keys, NEW verb, Recover(k, verb) PROVE HeldIsStored'
    BY <1>3 DEF Recover, PanelInv, HeldIsStored
  <1>4. CASE LoadScope
    <2>1. held' = stored'
      BY <1>4 DEF LoadScope
    <2>2. QED
      BY <1>1, <2>1 DEF PanelInv, HeldIsStored
  <1>5. CASE StorageRefuses
    <2>1. held' = stored'
      BY <1>5 DEF StorageRefuses, MayMutate, PanelInv, HeldIsStored
    <2>2. QED
      BY <1>1, <2>1 DEF PanelInv, HeldIsStored
  <1>6. CASE Disable \/ Reload
    <2>1. asking' = {} /\ mutation' = NULL /\ ~ready' /\ UNCHANGED stored /\ (held' = held \/ held' = {})
      BY <1>6 DEF Disable, Reload, AbortOwned
    <2>2. QED
      BY <1>1, <2>1 DEF PanelInv, HeldIsStored
  <1>7. QED
    BY <1>1, <1>2, <1>3, <1>4, <1>5, <1>6 DEF PanelInv

LEMMA PanelInvStep ==
  ASSUME IInv, Next
  PROVE  PanelInv'
  <1>1. ReceiptsGrow /\ TypeOK /\ ApiInv /\ PanelInv
    BY ReceiptsStay DEF IInv, ReceiptsGrow
  <1>2. CASE UNCHANGED intentVars
    BY <1>1, <1>2, SamePanel
  <1>3. ASSUME NEW s \in Servers, Server(s) \/ Unexpected(s) PROVE UNCHANGED intentVars
    BY <1>3 DEF Server, Fence, Replay, Work, Commit, Unexpected
  <1>4. ASSUME NEW m \in wire, Receive(m) \/ Rejected(m) PROVE UNCHANGED intentVars
    BY <1>4 DEF Receive, Status, Lock, Rejected
  <1>5. CASE (\E t \in Targets : Select(t)) \/ Read \/ ReadFails
    BY <1>2, <1>5 DEF Select, Read, ServeDetail, InstallDetail, ServeCurrent, InstallCurrent, ReadFails
  <1>6. ASSUME NEW k \in Keys, Repeat(k) PROVE UNCHANGED intentVars
    BY <1>6 DEF Repeat
  <1>7. QED
    BY <1>1, <1>2, <1>3, <1>4, <1>5, <1>6, MutateStep, HeedStep, IntentStep DEF Next

-----------------------------------------------------------------------------
(* Theorems *)

LEMMA Invariance == Spec => []IInv
  <1>1. Init => IInv
    <2> SUFFICES ASSUME Init PROVE IInv
      OBVIOUS
    <2>1. exec \in [Servers -> Transaction] /\ effects \in [Keys -> Nat] /\ faults \in 0..MaxFaults
      BY OperationsAssumption DEF Init, Transaction
    <2>2. TypeOK
      BY <2>1 DEF Init, TypeOK
    <2>3. ApiInv
      BY OperationsAssumption DEF Init, ApiInv, OneHolder, StillUndecided, OnceByKey, AnswersAreTrue, Idle, Terminal
    <2>4. PanelInv
      BY DEF Init, PanelInv, HeldIsStored, ReleasedIsSettled, OneUndecidedPerTarget
    <2>5. QED
      BY <2>2, <2>3, <2>4 DEF IInv
  <1>2. ASSUME IInv, [Next]_vars PROVE IInv'
    <2>1. CASE Next
      BY <1>2, <2>1, TypeStep, ReceiptsStay, PanelInvStep DEF IInv, ApiInv
    <2>2. CASE UNCHANGED vars
      <3> USE <1>2, <2>2 DEF IInv, vars, serverVars, netVars, intentVars, viewVars
      <3>1. TypeOK'
        BY DEF TypeOK
      <3>2. ApiInv'
        BY DEF ApiInv, OneHolder, Holds, StillUndecided, OnceByKey, AnswersAreTrue
      <3>3. PanelInv'
        BY DEF PanelInv, HeldIsStored, ReleasedIsSettled, OneUndecidedPerTarget
      <3>4. QED
        BY <3>1, <3>2, <3>3
    <2>3. QED
      BY <1>2, <2>1, <2>2
  <1>3. QED
    BY <1>1, <1>2, PTL DEF Spec

(* The state of the panel and of the API has its type. *)
THEOREM TypeCorrect == Spec => []TypeOK
  <1>1. IInv => TypeOK
    BY DEF IInv
  <1>2. QED
    BY Invariance, <1>1, PTL

(* A write takes effect once, and only if its receipt says so. *)
THEOREM WritesTakeEffectOnce == Spec => []OnceByKey
  <1>1. IInv => OnceByKey
    BY DEF IInv, ApiInv
  <1>2. QED
    BY Invariance, <1>1, PTL

(* The panel forgets an intent only when its receipt is there. *)
THEOREM IntentsOutliveDoubt == Spec => []ReleasedIsSettled
  <1>1. IInv => ReleasedIsSettled
    BY DEF IInv, PanelInv
  <1>2. QED
    BY Invariance, <1>1, PTL

(* Of the writes about one appointment at most one is undecided. *)
THEOREM OneWriteInDoubt == Spec => []OneUndecidedPerTarget
  <1>1. IInv => OneUndecidedPerTarget
    BY DEF IInv, PanelInv
  <1>2. QED
    BY Invariance, <1>1, PTL

-----------------------------------------------------------------------------
(* The screen shows what it saved. An appointment has one stored intent at   *)
(* most; while it is locked for a new reading that intent is decided, so the *)
(* reading finds the last version; and what is shown of an unlocked one is   *)
(* the last version, unless its stored intent has taken effect.              *)

Dispatched ==
  /\ \A k \in stored : target[k] # NULL
  /\ \A m \in wire : target[m.key] # NULL
  /\ \A s \in Servers : exec[s] # Idle => target[exec[s].request.key] # NULL
  /\ \A k \in Keys : receipts[k] # NULL => target[k] # NULL

OneStored == \A k, l \in stored : target[k] = target[l] => k = l

Pending ==
  /\ asking \subseteq stored
  /\ mutation # NULL =>
       mutation \in stored \ asking /\ target[mutation] \notin unfresh /\ detailRequest = NULL

UnfreshIsDone == \A k \in stored : target[k] \in unfresh => receipts[k] = "completed"

CurrentIsNew ==
  \A t \in Targets :
    /\ currentRequest[t] # NULL => t \in unfresh
    /\ currentRequest[t] \in Version => currentRequest[t] = VersionOf(t)

AnswerIsNew ==
  \A a \in answers :
    a.verb = "write" /\ a.is = "completed" /\ a.key \in stored => a.version = VersionOf(target[a.key])

NoneDone(t) == \A k \in stored : target[k] = t => effects[k] = 0

ShownIsNew ==
  \A t \in Targets : selected = t /\ NoneDone(t) =>
    /\ detailRequest \in Version => detailRequest = VersionOf(t)
    /\ detail # NULL /\ t \notin unfresh => detail = VersionOf(t)

IntentInv == Dispatched /\ OneStored /\ Pending /\ UnfreshIsDone
ReadInv == CurrentIsNew /\ AnswerIsNew /\ ShownIsNew
ViewInv == IntentInv /\ ReadInv

(* The versions depend on the targets of the keys that took effect. *)
LEMMA SameVersions ==
  ASSUME NEW t, \A k \in Keys : (target'[k] = t /\ effects'[k] > 0) <=> (target[k] = t /\ effects[k] > 0)
  PROVE  VersionOf(t)' = VersionOf(t)
  <1>1. {k \in Keys : target'[k] = t /\ effects'[k] > 0} = {k \in Keys : target[k] = t /\ effects[k] > 0}
    OBVIOUS
  <1>2. QED
    BY <1>1 DEF VersionOf

LEMMA NextVersion ==
  ASSUME TypeOK, NEW k \in Keys, effects[k] = 0, effects' = [effects EXCEPT ![k] = @ + 1], UNCHANGED target,
         NEW about, about = target[k]
  PROVE  /\ VersionOf(about)' = VersionOf(about) + 1
         /\ \A t : t # about => VersionOf(t)' = VersionOf(t)
  <1>1. \A l \in Keys : effects'[l] = IF l = k THEN 1 ELSE effects[l]
    BY DEF TypeOK
  <1>2. ASSUME NEW t, t # about PROVE VersionOf(t)' = VersionOf(t)
    BY <1>1, <1>2, SameVersions
  <1> DEFINE Done == {l \in Keys : target[l] = about /\ effects[l] > 0}
  <1>3. {l \in Keys : target'[l] = about /\ effects'[l] > 0} = Done \cup {k} /\ k \notin Done
    BY <1>1
  <1>4. IsFiniteSet(Done)
    BY OperationsAssumption, FS_Subset
  <1>5. Cardinality(Done \cup {k}) = Cardinality(Done) + 1
    BY <1>3, <1>4, FS_AddElement
  <1>6. VersionOf(about)' = VersionOf(about) + 1
    BY <1>3, <1>5 DEF VersionOf
  <1>7. QED
    BY <1>2, <1>6

LEMMA NullIsNoVersion == NULL \notin Version /\ SENT \notin Version /\ NULL # SENT
  BY OperationsAssumption, FS_CardinalityType DEF Version

(* Reads that are dropped, or answers that say nothing new, leave what is shown true. *)
LEMMA SameReads ==
  ASSUME ReadInv, UNCHANGED <<effects, stored, target, unfresh, selected, detail>>,
         detailRequest' \in {detailRequest, NULL},
         \A t \in Targets : currentRequest'[t] \in {currentRequest[t], NULL},
         \A a \in answers' : a.verb = "write" /\ a.is = "completed" => a \in answers
  PROVE  ReadInv'
  <1>1. \A t : VersionOf(t)' = VersionOf(t)
    BY SameVersions
  <1>2. NULL \notin Version
    BY NullIsNoVersion
  <1>3. CurrentIsNew'
    BY <1>1, <1>2 DEF ReadInv, CurrentIsNew, Version
  <1>4. AnswerIsNew'
    BY <1>1 DEF ReadInv, AnswerIsNew
  <1>5. ShownIsNew'
    BY <1>1, <1>2 DEF ReadInv, ShownIsNew, NoneDone, Version
  <1>6. QED
    BY <1>3, <1>4, <1>5 DEF ReadInv

(* A write that may yet happen is stored. *)
LEMMA UndecidedIsStored ==
  ASSUME IInv, NEW k \in Keys, target[k] # NULL, receipts[k] = NULL
  PROVE  k \in stored
  BY DEF IInv, PanelInv, ReleasedIsSettled

-----------------------------------------------------------------------------
(* The API *)

LEMMA ServerView ==
  ASSUME IInv, ViewInv, NEW s \in Servers, Server(s) \/ Unexpected(s)
  PROVE  ViewInv'
  <1> DEFINE key == exec[s].request.key
  <1>1. /\ UNCHANGED <<wire, target, stored, held, ready, mutation, asking>>
        /\ UNCHANGED <<unfresh, selected, detail, detailRequest, currentRequest>>
    BY DEF Server, Fence, Replay, Work, Commit, Unexpected, intentVars, viewVars, netVars
  <1>2. exec[s] # Idle /\ exec[s].request \in Request /\ key \in Keys /\ target[key] # NULL
    <2>1. exec[s] # Idle
      BY DEF Server, Fence, Replay, Work, Commit, Unexpected, Idle
    <2>2. QED
      BY <2>1, TransactionFields DEF IInv, TypeOK, Request, ViewInv, IntentInv, Dispatched
  <1>3. ReceiptsGrow /\ \A k \in Keys : receipts'[k] # NULL => receipts[k] # NULL \/ k = key
    <2>1. receipts' = receipts \/ \E row : receipts' = [receipts EXCEPT ![key] = row]
      BY DEF Server, Fence, Replay, Work, Commit, Unexpected
    <2>2. \A k \in Keys : receipts'[k] # NULL => receipts[k] # NULL \/ k = key
      BY <2>1 DEF IInv, TypeOK
    <2>3. QED
      BY <2>2, ServerStep DEF IInv, ReceiptsGrow
  <1>4. \A o \in Servers : exec'[o] # Idle => exec[o] # Idle /\ exec'[o].request.key = exec[o].request.key
    <2>1. ASSUME NEW o \in Servers, o # s PROVE exec'[o] = exec[o]
      BY <2>1 DEF Server, Fence, Replay, Work, Commit, Unexpected, Finish, IInv, TypeOK
    <2>2. CASE Work(s)
      <3>1. PICK row : exec' = [exec EXCEPT ![s] = [@ EXCEPT !.stage = "worked", !.row = row]]
        BY <2>2 DEF Work
      <3>2. exec[s] \in [stage : {"locked"}, request : Request, row : {NULL}]
        BY <1>2, <2>2, TransactionFields DEF Work, IInv, TypeOK, Transaction, Idle
      <3>3. exec'[s].request = exec[s].request
        BY <3>1, <3>2 DEF IInv, TypeOK
      <3>4. QED
        BY <1>2, <2>1, <3>3
    <2>3. CASE ~Work(s)
      <3>1. exec' = [exec EXCEPT ![s] = Idle]
        BY <2>3 DEF Server, Fence, Replay, Commit, Unexpected, Finish
      <3>2. QED
        BY <2>1, <3>1 DEF IInv, TypeOK
    <2>4. QED
      BY <2>2, <2>3
  <1>5. IntentInv'
    <2>1. Dispatched'
      BY <1>1, <1>2, <1>3, <1>4 DEF ViewInv, IntentInv, Dispatched
    <2>2. OneStored' /\ Pending'
      BY <1>1 DEF ViewInv, IntentInv, OneStored, Pending
    <2>3. stored \subseteq Keys /\ "completed" # NULL
      BY OperationsAssumption DEF IInv, TypeOK, Terminal
    <2>4. UnfreshIsDone'
      BY <1>1, <1>3, <2>3 DEF ViewInv, IntentInv, UnfreshIsDone, ReceiptsGrow
    <2>5. QED
      BY <2>1, <2>2, <2>4 DEF IntentInv
  <1>6. CASE Fence(s) \/ Work(s) \/ Unexpected(s) \/ (Commit(s) /\ exec[s].row # "completed")
    <2>1. UNCHANGED effects
      BY <1>6 DEF Fence, Work, Unexpected, Commit
    <2>2. \A a \in answers' : a.verb = "write" /\ a.is = "completed" => a \in answers
      BY <1>6 DEF Fence, Work, Unexpected, Commit, Finish, Reply, netVars
    <2>3. ReadInv'
      BY <1>1, <2>1, <2>2, SameReads DEF ViewInv
    <2>4. QED
      BY <1>5, <2>3 DEF ViewInv
  <1>7. CASE Replay(s)
    <2>1. UNCHANGED effects /\ \A t : VersionOf(t)' = VersionOf(t)
      BY <1>1, <1>7, SameVersions DEF Replay
    <2>2. \A a \in answers' : a \in answers \/ (a.key = key /\ a.version = VersionOf(target[key]))
      BY <1>7 DEF Replay, Finish, Reply
    <2>3. AnswerIsNew'
      BY <1>1, <2>1, <2>2 DEF ViewInv, ReadInv, AnswerIsNew
    <2>4. CurrentIsNew'
      BY <1>1, <2>1 DEF ViewInv, ReadInv, CurrentIsNew, Version
    <2>5. ShownIsNew'
      BY <1>1, <2>1 DEF ViewInv, ReadInv, ShownIsNew, NoneDone, Version
    <2>6. QED
      BY <1>5, <2>3, <2>4, <2>5 DEF ViewInv, ReadInv
  <1>8. CASE Commit(s) /\ exec[s].row = "completed"
    <2> PICK about : about = target[key]
      OBVIOUS
    <2>1. receipts[key] = NULL /\ effects[key] = 0 /\ key \in stored
      <3>1. receipts[key] = NULL
        BY <1>8 DEF Commit, IInv, ApiInv, StillUndecided
      <3>2. effects[key] = 0
        BY <1>2, <3>1, OperationsAssumption DEF IInv, ApiInv, OnceByKey, Terminal
      <3>3. QED
        BY <1>2, <3>1, <3>2, UndecidedIsStored
    <2>2. effects' = [effects EXCEPT ![key] = @ + 1] /\ UNCHANGED target
      BY <1>1, <1>8 DEF Commit
    <2>3. /\ VersionOf(about)' = VersionOf(about) + 1
          /\ \A t : t # about => VersionOf(t)' = VersionOf(t)
      BY <1>2, <2>1, <2>2, NextVersion DEF IInv
    <2>4. /\ \A l \in Keys : effects'[l] = 0 => l # key /\ effects[l] = 0
          /\ stored \subseteq Keys
      BY <1>2, <2>1, <2>2 DEF IInv, TypeOK
    <2>5. about \notin unfresh
      BY <2>1, OperationsAssumption DEF ViewInv, IntentInv, UnfreshIsDone, Terminal
    <2>6. CurrentIsNew'
      BY <1>1, <2>3, <2>5, NullIsNoVersion DEF ViewInv, ReadInv, CurrentIsNew, Version
    <2>7. \A a \in answers' : \/ a \in answers
                              \/ a.key = key /\ a.version = VersionOf(about) + 1
      BY <1>8, <2>1 DEF Commit, Finish, Reply
    <2>8. \A a \in answers : a.is = "completed" /\ a.key \in stored => target[a.key] # about
      BY <2>1, OperationsAssumption
      DEF IInv, ApiInv, AnswersAreTrue, Terminal, ViewInv, IntentInv, OneStored
    <2>9. AnswerIsNew'
      BY <1>1, <2>3, <2>7, <2>8 DEF ViewInv, ReadInv, AnswerIsNew
    <2>10. \A t : NoneDone(t)' => t # about /\ NoneDone(t)
      BY <1>1, <2>1, <2>4 DEF NoneDone
    <2>11. ShownIsNew'
      BY <1>1, <2>3, <2>10 DEF ViewInv, ReadInv, ShownIsNew, Version
    <2>12. QED
      BY <1>5, <2>6, <2>9, <2>11 DEF ViewInv, ReadInv
  <1>9. QED
    BY <1>6, <1>7, <1>8 DEF Server

LEMMA RequestView ==
  ASSUME IInv, ViewInv, NEW m \in wire, Receive(m) \/ Rejected(m)
  PROVE  ViewInv'
  <1>1. /\ UNCHANGED <<receipts, effects, target, stored, held, ready, mutation, asking>>
        /\ UNCHANGED <<unfresh, selected, detail, detailRequest, currentRequest>> /\ wire' = wire \ {m}
    BY DEF Receive, Status, Lock, Rejected, serverVars, intentVars, viewVars
  <1>2. \A s \in Servers : exec'[s] # Idle => exec'[s] = exec[s] \/ exec'[s].request = m
    BY DEF Receive, Status, Lock, Rejected, serverVars, IInv, TypeOK
  <1>3. \A a \in answers' : a.verb = "write" /\ a.is = "completed" => a \in answers
    BY DEF Receive, Status, Lock, Rejected, Reply
  <1>4. ReadInv'
    BY <1>1, <1>3, SameReads DEF ViewInv
  <1>5. Dispatched'
    BY <1>1, <1>2 DEF ViewInv, IntentInv, Dispatched
  <1>6. OneStored' /\ Pending' /\ UnfreshIsDone'
    BY <1>1 DEF ViewInv, IntentInv, OneStored, Pending, UnfreshIsDone
  <1>7. QED
    BY <1>4, <1>5, <1>6 DEF ViewInv, IntentInv

-----------------------------------------------------------------------------
(* The panel *)

(* A key keeps its appointment, and nothing the panel does takes effect by itself. *)
LEMMA PanelVersions ==
  ASSUME IInv, ViewInv, PanelStep
  PROVE  /\ UNCHANGED <<receipts, effects>>
         /\ \A k \in Keys : target[k] # NULL => target'[k] = target[k]
         /\ \A t : VersionOf(t)' = VersionOf(t)
  <1>1. UNCHANGED <<receipts, effects>>
    BY PanelKeepsTheApi DEF IInv, KeepsTheApi
  <1>2. \/ UNCHANGED target
        \/ \E k \in Keys : \E t : target[k] = NULL /\ target' = [target EXCEPT ![k] = t]
    <2>1. ASSUME NEW k \in Keys, NEW t, Mutate(k, t)
          PROVE  target[k] = NULL /\ target' = [target EXCEPT ![k] = t]
      BY <2>1 DEF Mutate
    <2>2. ASSUME NEW k \in Keys, Repeat(k) \/ Disconnect(k) PROVE UNCHANGED target
      BY <2>2 DEF Repeat, Disconnect, intentVars
    <2>3. ASSUME NEW k \in Keys, NEW verb, Recover(k, verb) PROVE UNCHANGED target
      BY <2>3 DEF Recover
    <2>4. ASSUME NEW a \in answers, Heed(a) PROVE UNCHANGED target
      BY <2>4 DEF Heed, Saved, Refused, Unresolved, Settled, Recovered
    <2>5. CASE (\E t \in Targets : Select(t)) \/ Read \/ ReadFails
      BY <2>5 DEF Select, Read, ServeDetail, InstallDetail, ServeCurrent, InstallCurrent, ReadFails, intentVars
    <2>6. CASE LoadScope \/ StorageRefuses \/ Disable \/ Reload
      BY <2>6 DEF LoadScope, StorageRefuses, Disable, Reload
    <2>7. QED
      BY <2>1, <2>2, <2>3, <2>4, <2>5, <2>6 DEF PanelStep
  <1>3. \A k \in Keys : effects[k] > 0 => target[k] # NULL
    BY OperationsAssumption
    DEF IInv, ApiInv, OnceByKey, ViewInv, IntentInv, Dispatched, Terminal
  <1>4. \A k \in Keys : target[k] # NULL => target'[k] = target[k]
    BY <1>2 DEF IInv, TypeOK
  <1>5. ASSUME NEW t, NEW k \in Keys
        PROVE  (target'[k] = t /\ effects'[k] > 0) <=> (target[k] = t /\ effects[k] > 0)
    BY <1>1, <1>3, <1>4
  <1>6. \A t : VersionOf(t)' = VersionOf(t)
    BY <1>5, SameVersions
  <1>7. QED
    BY <1>1, <1>4, <1>6

(* Calls that are given up or not: what is under way is about keys with an appointment. *)
LEMMA GivenUpIsDispatched ==
  ASSUME IInv, Dispatched, NEW calls, GiveUp(calls), UNCHANGED <<receipts, target, stored>>
  PROVE  Dispatched'
  <1>1. ASSUME NEW m \in wire' PROVE target'[m.key] # NULL
    <2>1. PICK n \in wire : m = [n EXCEPT !.heard = @ /\ <<n.key, n.verb>> \notin calls]
      BY DEF GiveUp
    <2>2. m.key = n.key
      BY <2>1 DEF IInv, TypeOK, Request
    <2>3. QED
      BY <2>2 DEF Dispatched
  <1>2. ASSUME NEW s \in Servers, exec'[s] # Idle PROVE target'[exec'[s].request.key] # NULL
    <2>1. SameWork(s)
      BY GiveUpKeepsTheWork DEF IInv
    <2>2. exec[s] # Idle /\ exec'[s].request.key = exec[s].request.key
      BY <1>2, <2>1 DEF SameWork
    <2>3. QED
      BY <2>2 DEF Dispatched
  <1>3. QED
    BY <1>1, <1>2 DEF Dispatched

(* Calls that leave *)
LEMMA SentIsDispatched ==
  ASSUME Dispatched, UNCHANGED <<receipts, exec, target, stored>>,
         \A m \in wire' : m \in wire \/ m.key \in stored \/ target[m.key] # NULL
  PROVE  Dispatched'
  BY DEF Dispatched

LEMMA MutateView ==
  ASSUME IInv, ViewInv, NEW k \in Keys, NEW t \in Targets \cup {Create}, Mutate(k, t)
  PROVE  ViewInv'
  <1>1. /\ held = stored /\ stored' = stored \cup {k} /\ mutation' = k /\ detailRequest' = NULL
        /\ target[k] = NULL /\ mutation = NULL /\ t \notin unfresh /\ \A l \in stored : target[l] # t
    BY DEF Mutate, MayMutate, Blocked, IInv, PanelInv, HeldIsStored
  <1>2. /\ UNCHANGED <<receipts, effects, exec, answers, unfresh, asking, selected, detail, currentRequest>>
        /\ wire' = wire \cup {[key |-> r[1], verb |-> r[2], heard |-> TRUE] : r \in {<<k, "write">>}}
    BY DEF Mutate, serverVars, Send
  <1>3. t # NULL /\ \A l \in Keys : target'[l] = IF l = k THEN t ELSE target[l]
    BY OperationsAssumption DEF Mutate, IInv, TypeOK
  <1>4. PanelStep
    BY DEF PanelStep
  <1>5. /\ \A l \in Keys : target[l] # NULL => target'[l] = target[l]
        /\ \A x : VersionOf(x)' = VersionOf(x)
    BY <1>4, PanelVersions
  <1>6. /\ stored \subseteq Keys /\ wire \subseteq Request /\ exec \in [Servers -> Transaction]
        /\ answers \subseteq Answer /\ "completed" # NULL
    BY OperationsAssumption DEF IInv, TypeOK, Terminal
  <1>7. k \notin stored /\ receipts[k] = NULL /\ effects[k] = 0
    <2>1. k \notin stored /\ receipts[k] = NULL
      BY <1>1 DEF ViewInv, IntentInv, Dispatched
    <2>2. QED
      BY <1>6, <2>1 DEF IInv, ApiInv, OnceByKey
  <1>8. Dispatched'
    <2>1. \A m \in wire' : m \in wire \/ m.key = k
      BY <1>2
    <2>2. \A m \in wire : m.key \in Keys
      BY <1>6 DEF Request
    <2>3. \A s \in Servers : exec[s] # Idle => exec[s].request.key \in Keys
      BY <1>6, TransactionFields DEF Request
    <2>4. QED
      BY <1>1, <1>2, <1>3, <1>5, <1>6, <2>1, <2>2, <2>3 DEF ViewInv, IntentInv, Dispatched
  <1>9. OneStored'
    BY <1>1, <1>3, <1>6 DEF ViewInv, IntentInv, OneStored
  <1>10. Pending'
    BY <1>1, <1>2, <1>3, <1>7 DEF ViewInv, IntentInv, Pending
  <1>11. UnfreshIsDone'
    BY <1>1, <1>2, <1>3, <1>6 DEF ViewInv, IntentInv, UnfreshIsDone
  <1>12. CurrentIsNew'
    BY <1>2, <1>5 DEF ViewInv, ReadInv, CurrentIsNew, Version
  <1>13. AnswerIsNew'
    <2>1. \A a \in answers : a.is = "completed" => a.key \in Keys /\ a.key # k /\ target[a.key] # NULL
      BY <1>6, <1>7 DEF IInv, ApiInv, AnswersAreTrue, Answer, Terminal, ViewInv, IntentInv, Dispatched
    <2>2. QED
      BY <1>1, <1>2, <1>5, <2>1 DEF ViewInv, ReadInv, AnswerIsNew
  <1>14. ShownIsNew'
    <2>1. ASSUME NEW x \in Targets, NoneDone(x)' PROVE NoneDone(x)
      BY <1>1, <1>2, <1>3, <1>6, <1>7, <2>1 DEF NoneDone
    <2>2. QED
      BY <1>1, <1>2, <1>5, <2>1, NullIsNoVersion DEF ViewInv, ReadInv, ShownIsNew
  <1>15. QED
    BY <1>8, <1>9, <1>10, <1>11, <1>12, <1>13, <1>14 DEF ViewInv, IntentInv, ReadInv

LEMMA SavedView ==
  ASSUME IInv, ViewInv, NEW a \in answers, Saved(a)
  PROVE  ViewInv'
  <1>1. PICK t : t = target[a.key]
    OBVIOUS
  <1>2. /\ UNCHANGED <<receipts, effects, exec, wire, target, asking, unfresh, currentRequest>>
        /\ answers' = answers \ {a} /\ mutation' = NULL
        /\ selected' = (IF t = Create THEN NULL ELSE t) /\ detail' = (IF t = Create THEN NULL ELSE a.version)
        /\ a.verb = "write" /\ a.is = "completed" /\ mutation = a.key
        /\ \/ Release(a.key) /\ detailRequest' = (IF t = Create THEN NULL ELSE SENT)
           \/ Retain /\ UNCHANGED detailRequest
    BY <1>1 DEF Saved, serverVars
  <1>3. /\ a.key \in Keys /\ a.key # NULL /\ a.key \in stored \ asking
        /\ t \notin unfresh /\ detailRequest = NULL /\ held = stored
    BY <1>1, <1>2, OperationsAssumption
    DEF IInv, TypeOK, Answer, PanelInv, HeldIsStored, ViewInv, IntentInv, Pending
  <1>4. stored' \in {stored, stored \ {a.key}}
    BY <1>2, <1>3 DEF Release, Retain
  <1>5. /\ \A x : VersionOf(x)' = VersionOf(x)
        /\ a.version = VersionOf(t)
    BY <1>1, <1>2, <1>3, SameVersions DEF ViewInv, ReadInv, AnswerIsNew
  <1>6. IntentInv'
    BY <1>2, <1>3, <1>4 DEF ViewInv, IntentInv, Dispatched, OneStored, Pending, UnfreshIsDone
  <1>7. CurrentIsNew'
    BY <1>2, <1>5 DEF ViewInv, ReadInv, CurrentIsNew, Version
  <1>8. AnswerIsNew'
    BY <1>2, <1>4, <1>5 DEF ViewInv, ReadInv, AnswerIsNew
  <1>9. ShownIsNew'
    BY <1>2, <1>3, <1>5, NullIsNoVersion, OperationsAssumption DEF ShownIsNew
  <1>10. QED
    BY <1>6, <1>7, <1>8, <1>9 DEF ViewInv, ReadInv

LEMMA SettledView ==
  ASSUME IInv, ViewInv, NEW a \in answers, Settled(a)
  PROVE  ViewInv'
  <1>1. /\ UNCHANGED <<receipts, effects, exec, wire, target, mutation, unfresh, selected, detail, currentRequest>>
        /\ answers' = answers \ {a} /\ asking' = asking \ {a.key}
        /\ a.key \in asking /\ a.is \in Terminal \ {"completed"}
        /\ \/ Release(a.key) /\ detailRequest' = StartDetail
           \/ Retain /\ UNCHANGED detailRequest
    BY DEF Settled, serverVars
  <1>2. a.key \in Keys /\ a.key \in stored /\ held = stored /\ effects[a.key] = 0
    <2>1. a.key \in Keys /\ a.key \in stored /\ held = stored
      BY <1>1 DEF IInv, TypeOK, PanelInv, HeldIsStored, ViewInv, IntentInv, Pending
    <2>2. QED
      BY <1>1, <2>1 DEF IInv, ApiInv, AnswersAreTrue, OnceByKey
  <1>3. stored' \in {stored, stored \ {a.key}} /\ detailRequest' \in {detailRequest, SENT}
        /\ (mutation # NULL => detailRequest' = detailRequest)
    BY <1>1, <1>2 DEF Release, Retain, StartDetail
  <1>4. \A x : VersionOf(x)' = VersionOf(x)
    BY <1>1, SameVersions
  <1>5. IntentInv'
    BY <1>1, <1>2, <1>3 DEF ViewInv, IntentInv, Dispatched, OneStored, Pending, UnfreshIsDone
  <1>6. CurrentIsNew'
    BY <1>1, <1>4 DEF ViewInv, ReadInv, CurrentIsNew, Version
  <1>7. AnswerIsNew'
    BY <1>1, <1>3, <1>4 DEF ViewInv, ReadInv, AnswerIsNew
  <1>8. ShownIsNew'
    <2>1. \A x : NoneDone(x)' => NoneDone(x)
      BY <1>1, <1>2, <1>3 DEF NoneDone
    <2>2. QED
      BY <1>1, <1>3, <1>4, <2>1, NullIsNoVersion DEF ViewInv, ReadInv, ShownIsNew, Version
  <1>9. QED
    BY <1>5, <1>6, <1>7, <1>8 DEF ViewInv, ReadInv

LEMMA RecoveredView ==
  ASSUME IInv, ViewInv, NEW a \in answers, Recovered(a)
  PROVE  ViewInv'
  <1>1. PICK t : t = target[a.key]
    OBVIOUS
  <1>2. /\ UNCHANGED <<receipts, effects, exec, wire, target, mutation>>
        /\ answers' = answers \ {a} /\ asking' = asking \ {a.key} /\ detailRequest' = NULL
        /\ unfresh' = unfresh \cup ({t} \cap Targets)
        /\ a.key \in asking /\ a.is = "completed"
        /\ UNCHANGED <<selected, detail>> \/ (selected' = NULL /\ detail' = NULL)
        /\ \/ Release(a.key) /\ currentRequest' = IF t = Create THEN currentRequest ELSE StartCurrent(t)
           \/ Retain /\ UNCHANGED currentRequest
    BY <1>1 DEF Recovered, serverVars
  <1>3. a.key \in Keys /\ a.key \in stored /\ held = stored /\ receipts[a.key] = "completed"
        /\ stored \subseteq Keys /\ target \in [Keys -> Targets \cup {Create, NULL}]
    BY <1>2 DEF IInv, TypeOK, PanelInv, HeldIsStored, ViewInv, IntentInv, Pending, ApiInv, AnswersAreTrue, Terminal
  <1>4. stored' \in {stored, stored \ {a.key}}
    BY <1>2, <1>3 DEF Release, Retain
  <1>5. \A x : VersionOf(x)' = VersionOf(x)
    BY <1>2, SameVersions
  <1>6. \A l \in stored : target[l] = t => l = a.key
    BY <1>1, <1>3 DEF ViewInv, IntentInv, OneStored
  <1>7. Dispatched' /\ OneStored'
    BY <1>2, <1>4 DEF ViewInv, IntentInv, Dispatched, OneStored
  <1>8. Pending'
    BY <1>2, <1>3, <1>4, <1>6 DEF ViewInv, IntentInv, Pending
  <1>9. UnfreshIsDone'
    BY <1>2, <1>3, <1>4, <1>6 DEF ViewInv, IntentInv, UnfreshIsDone
  <1>10. CurrentIsNew'
    <2>1. t # NULL /\ t \in Targets \cup {Create}
      BY <1>1, <1>3 DEF ViewInv, IntentInv, Dispatched
    <2>2. ASSUME NEW x \in Targets
          PROVE  \/ currentRequest'[x] = currentRequest[x]
                 \/ x = t /\ t \in unfresh' /\ currentRequest'[x] = SENT
      BY <1>2, <2>1 DEF StartCurrent, IInv, TypeOK
    <2>3. QED
      BY <1>2, <1>5, <2>2, NullIsNoVersion DEF ViewInv, ReadInv, CurrentIsNew, Version
  <1>11. AnswerIsNew'
    BY <1>2, <1>4, <1>5 DEF ViewInv, ReadInv, AnswerIsNew
  <1>12. ShownIsNew'
    <2> SUFFICES ASSUME NEW x \in Targets, selected' = x, NoneDone(x)', detail' # NULL, x \notin unfresh'
                 PROVE  detail' = VersionOf(x)
      BY <1>2, <1>5, NullIsNoVersion DEF ShownIsNew, Version
    <2>1. x # t /\ selected = x /\ detail' = detail /\ x \notin unfresh
      BY <1>2
    <2>2. NoneDone(x)
      BY <1>1, <1>2, <1>4, <2>1 DEF NoneDone
    <2>3. QED
      BY <2>1, <2>2 DEF ViewInv, ReadInv, ShownIsNew
  <1>13. QED
    BY <1>7, <1>8, <1>9, <1>10, <1>11, <1>12 DEF ViewInv, IntentInv, ReadInv

(* The screen is disabled, loses its storage or its network, or asks: nothing new is shown. *)
LEMMA QuietView ==
  ASSUME IInv, ViewInv,
         \/ \E k \in Keys : Repeat(k) \/ Disconnect(k) \/ \E verb \in Verb : Recover(k, verb)
         \/ \E a \in answers : Refused(a) \/ Unresolved(a)
         \/ LoadScope \/ StorageRefuses \/ Disable \/ ReadFails
  PROVE  ViewInv'
  <1> DEFINE Quiet ==
        /\ UNCHANGED <<receipts, effects, target, stored, unfresh, selected, detail>> /\ answers' \subseteq answers
        /\ detailRequest' \in {detailRequest, NULL}
        /\ \A t \in Targets : currentRequest'[t] \in {currentRequest[t], NULL}
      StillPending ==
        /\ asking' \subseteq stored'
        /\ mutation' # NULL => mutation' = mutation /\ mutation \notin asking'
  <1>1. Quiet
    <2>1. ASSUME NEW k \in Keys, Repeat(k) \/ Disconnect(k) \/ \E verb \in Verb : Recover(k, verb) PROVE Quiet
      BY <2>1, GiveUpKeepsTheWork
      DEF Repeat, Disconnect, Recover, serverVars, intentVars, viewVars, IInv
    <2>2. ASSUME NEW a \in answers, Refused(a) \/ Unresolved(a) PROVE Quiet
      BY <2>2 DEF Refused, Unresolved, serverVars, viewVars
    <2>3. CASE LoadScope \/ StorageRefuses
      BY <2>3 DEF LoadScope, StorageRefuses, serverVars, netVars, viewVars
    <2>4. CASE Disable
      BY <2>4, GiveUpKeepsTheWork DEF Disable, AbortOwned, IInv
    <2>5. CASE ReadFails
      BY <2>5 DEF ReadFails, serverVars, netVars, intentVars, IInv, TypeOK
    <2>6. QED
      BY <2>1, <2>2, <2>3, <2>4, <2>5
  <1>2. ReadInv'
    BY <1>1, SameReads DEF ViewInv
  <1>3. OneStored' /\ UnfreshIsDone'
    BY <1>1 DEF ViewInv, IntentInv, OneStored, UnfreshIsDone
  <1>4. StillPending
    <2>1. ASSUME NEW k \in Keys, Repeat(k) \/ Disconnect(k) PROVE StillPending
      BY <1>1, <2>1 DEF Repeat, Disconnect, intentVars, ViewInv, IntentInv, Pending
    <2>2. ASSUME NEW k \in Keys, NEW verb, Recover(k, verb) PROVE StillPending
      BY <1>1, <2>2 DEF Recover, ViewInv, IntentInv, Pending, IInv, PanelInv, HeldIsStored
    <2>3. ASSUME NEW a \in answers, Refused(a) PROVE StillPending
      BY <1>1, <2>3, OperationsAssumption
      DEF Refused, ViewInv, IntentInv, Pending, IInv, TypeOK, Answer
    <2>4. ASSUME NEW a \in answers, Unresolved(a) PROVE StillPending
      BY <1>1, <2>4 DEF Unresolved, ViewInv, IntentInv, Pending
    <2>5. CASE LoadScope \/ StorageRefuses \/ ReadFails
      BY <1>1, <2>5 DEF LoadScope, StorageRefuses, ReadFails, intentVars, ViewInv, IntentInv, Pending
    <2>6. CASE Disable
      BY <2>6 DEF Disable, AbortOwned
    <2>7. QED
      BY <2>1, <2>2, <2>3, <2>4, <2>5, <2>6
  <1>5. Pending'
    BY <1>1, <1>4 DEF ViewInv, IntentInv, Pending
  <1>6. Dispatched'
    <2>1. CASE Disable \/ \E k \in Keys : Disconnect(k)
      BY <1>1, <2>1, GivenUpIsDispatched DEF Disable, Disconnect, AbortOwned, ViewInv, IntentInv
    <2>2. ASSUME NEW k \in Keys, Repeat(k) PROVE Dispatched'
      BY <1>1, <2>2, SentIsDispatched DEF Repeat, serverVars, ViewInv, IntentInv
    <2>3. ASSUME NEW k \in Keys, NEW verb, Recover(k, verb) PROVE Dispatched'
      <3>1. k \in stored
        BY <2>3 DEF Recover, IInv, PanelInv, HeldIsStored
      <3>2. \A m \in wire' : m \in wire \/ m.key = k
        BY <2>3 DEF Recover, Send
      <3>3. QED
        BY <1>1, <2>3, <3>1, <3>2, SentIsDispatched DEF Recover, serverVars, ViewInv, IntentInv
    <2>4. ASSUME NEW a \in answers, Refused(a) PROVE Dispatched'
      <3>1. a.key \in stored
        BY <2>4, OperationsAssumption DEF Refused, ViewInv, IntentInv, Pending, IInv, TypeOK, Answer
      <3>2. \A m \in wire' : m \in wire \/ m.key = a.key
        BY <2>4 DEF Refused, Send
      <3>3. QED
        BY <1>1, <2>4, <3>1, <3>2, SentIsDispatched DEF Refused, serverVars, ViewInv, IntentInv
    <2>5. CASE LoadScope \/ StorageRefuses \/ ReadFails \/ \E a \in answers : Unresolved(a)
      BY <1>1, <2>5, SentIsDispatched
      DEF LoadScope, StorageRefuses, ReadFails, Unresolved, serverVars, netVars, ViewInv, IntentInv
    <2>6. QED
      BY <2>1, <2>2, <2>3, <2>4, <2>5
  <1>7. QED
    BY <1>2, <1>3, <1>5, <1>6 DEF ViewInv, IntentInv

LEMMA ReloadView ==
  ASSUME IInv, ViewInv, Reload
  PROVE  ViewInv'
  <1>1. /\ UNCHANGED <<receipts, effects, target, stored>> /\ GiveUp(Keys \X Verb) /\ answers' \subseteq answers
        /\ mutation' = NULL /\ asking' = {} /\ unfresh' = {} /\ detail' = NULL /\ detailRequest' = NULL
        /\ \A t \in Targets : currentRequest'[t] = NULL
    BY GiveUpKeepsTheWork DEF Reload, AbortOwned, IInv
  <1>2. \A x : VersionOf(x)' = VersionOf(x)
    BY <1>1, SameVersions
  <1>3. IntentInv'
    BY <1>1, GivenUpIsDispatched DEF ViewInv, IntentInv, OneStored, Pending, UnfreshIsDone
  <1>4. ReadInv'
    BY <1>1, <1>2, NullIsNoVersion DEF ViewInv, ReadInv, CurrentIsNew, AnswerIsNew, ShownIsNew, Version
  <1>5. QED
    BY <1>3, <1>4 DEF ViewInv

(* Reads begin, are served and are installed. *)
LEMMA ReadView ==
  ASSUME IInv, ViewInv, (\E t \in Targets : Select(t)) \/ Read
  PROVE  ViewInv'
  <1>1. UNCHANGED <<serverVars, netVars, intentVars>>
    BY DEF Select, Read, ServeDetail, InstallDetail, ServeCurrent, InstallCurrent
  <1>2. /\ UNCHANGED <<receipts, effects, exec, wire, answers, target, stored, asking, mutation>>
        /\ \A x : VersionOf(x)' = VersionOf(x)
        /\ \A x : NoneDone(x)' = NoneDone(x)
    BY <1>1, SameVersions DEF serverVars, netVars, intentVars, NoneDone
  <1>3. currentRequest \in [Targets -> Version \cup {NULL, SENT}]
    BY DEF IInv, TypeOK
  <1> DEFINE Fewer == /\ unfresh' \subseteq unfresh
                      /\ mutation # NULL /\ detailRequest = NULL => detailRequest' = NULL
  <1>4. Fewer
    <2>1. ASSUME NEW t \in Targets, Select(t) PROVE Fewer
      BY <2>1 DEF Select
    <2>2. CASE Read
      BY <2>2, NullIsNoVersion DEF Read, ServeDetail, InstallDetail, ServeCurrent, InstallCurrent
    <2>3. QED
      BY <2>1, <2>2
  <1>5. IntentInv'
    BY <1>2, <1>4 DEF ViewInv, IntentInv, Dispatched, OneStored, Pending, UnfreshIsDone
  <1>6. AnswerIsNew'
    BY <1>2 DEF ViewInv, ReadInv, AnswerIsNew
  <1>7. ASSUME NEW t \in Targets, Select(t) PROVE CurrentIsNew' /\ ShownIsNew'
    <2>1. /\ UNCHANGED unfresh /\ detail' = NULL /\ detailRequest' \in {NULL, SENT}
          /\ currentRequest' = currentRequest \/ (t \in unfresh /\ currentRequest' = StartCurrent(t))
      BY <1>7 DEF Select
    <2>2. \A x \in Targets : \/ currentRequest'[x] = currentRequest[x]
                             \/ x \in unfresh /\ currentRequest'[x] = SENT
      BY <1>3, <2>1 DEF StartCurrent
    <2>3. CurrentIsNew'
      BY <1>2, <2>1, <2>2, NullIsNoVersion DEF ViewInv, ReadInv, CurrentIsNew, Version
    <2>4. QED
      BY <2>1, <2>3, NullIsNoVersion DEF ShownIsNew, Version
  <1>8. CASE ServeDetail
    <2>1. UNCHANGED <<unfresh, selected, detail, currentRequest>> /\ detailRequest' = VersionOf(selected)
      BY <1>8 DEF ServeDetail
    <2>2. CurrentIsNew'
      BY <1>2, <2>1 DEF ViewInv, ReadInv, CurrentIsNew, Version
    <2>3. ShownIsNew'
      BY <1>2, <2>1 DEF ViewInv, ReadInv, ShownIsNew
    <2>4. QED
      BY <1>5, <1>6, <2>2, <2>3 DEF ViewInv, ReadInv
  <1>9. CASE InstallDetail
    <2>1. /\ UNCHANGED <<unfresh, selected, currentRequest>> /\ detailRequest \in Version /\ detailRequest' = NULL
          /\ detail' = IF selected \in unfresh THEN detail ELSE detailRequest
      BY <1>9 DEF InstallDetail
    <2>2. CurrentIsNew'
      BY <1>2, <2>1 DEF ViewInv, ReadInv, CurrentIsNew, Version
    <2>3. ShownIsNew'
      BY <1>2, <2>1, NullIsNoVersion DEF ViewInv, ReadInv, ShownIsNew, Version
    <2>4. QED
      BY <1>5, <1>6, <2>2, <2>3 DEF ViewInv, ReadInv
  <1>10. ASSUME NEW t \in Targets, ServeCurrent(t) PROVE CurrentIsNew' /\ ShownIsNew'
    BY <1>2, <1>3, <1>10, NullIsNoVersion
    DEF ServeCurrent, ViewInv, ReadInv, CurrentIsNew, ShownIsNew, Version
  <1>11. ASSUME NEW t \in Targets, InstallCurrent(t) PROVE CurrentIsNew' /\ ShownIsNew'
    <2>1. /\ currentRequest[t] \in Version /\ unfresh' = unfresh \ {t} /\ UNCHANGED <<selected, detailRequest>>
          /\ detail' = IF selected = t THEN currentRequest[t] ELSE detail
          /\ currentRequest' = [currentRequest EXCEPT ![t] = NULL]
      BY <1>11 DEF InstallCurrent
    <2>2. currentRequest[t] = VersionOf(t)
      BY <2>1 DEF ViewInv, ReadInv, CurrentIsNew
    <2>3. \A x \in Targets : currentRequest'[x] = IF x = t THEN NULL ELSE currentRequest[x]
      BY <1>3, <2>1
    <2>4. CurrentIsNew'
      BY <1>2, <2>1, <2>3, NullIsNoVersion DEF ViewInv, ReadInv, CurrentIsNew, Version
    <2>5. ShownIsNew'
      BY <1>2, <2>1, <2>2 DEF ViewInv, ReadInv, ShownIsNew, Version
    <2>6. QED
      BY <2>4, <2>5
  <1>12. QED
    BY <1>5, <1>6, <1>7, <1>8, <1>9, <1>10, <1>11 DEF Read, ViewInv, ReadInv

LEMMA ViewStep ==
  ASSUME IInv, ViewInv, Next
  PROVE  ViewInv'
  <1>1. ASSUME NEW a \in answers, Heed(a) PROVE ViewInv'
    BY <1>1, SavedView, SettledView, RecoveredView, QuietView DEF Heed
  <1>2. QED
    BY <1>1, ServerView, RequestView, MutateView, QuietView, ReloadView, ReadView DEF Next

(* When the screen lets the user change the appointment it shows, it shows the last version. *)
THEOREM ScreenIsFresh == Spec => []EditsWhatItSaved
  <1>1. Init => ViewInv
    BY NullIsNoVersion
    DEF Init, Idle, ViewInv, IntentInv, ReadInv, Dispatched, OneStored, Pending, UnfreshIsDone,
        CurrentIsNew, AnswerIsNew, ShownIsNew
  <1>2. ASSUME IInv, ViewInv, [Next]_vars PROVE ViewInv'
    <2>1. CASE UNCHANGED vars
      BY <1>2, <2>1, SameVersions
      DEF vars, serverVars, netVars, intentVars, viewVars, ViewInv, IntentInv, ReadInv, Dispatched, OneStored,
          Pending, UnfreshIsDone, CurrentIsNew, AnswerIsNew, ShownIsNew, NoneDone, Version
    <2>2. QED
      BY <1>2, <2>1, ViewStep
  <1>3. IInv /\ ViewInv => EditsWhatItSaved
    <2> SUFFICES ASSUME IInv, ViewInv, NEW t \in Targets, MayMutate(t) PROVE detail = VersionOf(t)
      BY DEF EditsWhatItSaved
    <2>1. selected = t /\ detail # NULL /\ t \notin unfresh /\ NoneDone(t)
      BY OperationsAssumption DEF MayMutate, Blocked, NoneDone, IInv, PanelInv, HeldIsStored
    <2>2. QED
      BY <2>1 DEF ViewInv, ReadInv, ShownIsNew
  <1>4. QED
    BY <1>1, <1>2, <1>3, Invariance, PTL DEF Spec
=============================================================================
