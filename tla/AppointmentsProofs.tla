------------------------- MODULE AppointmentsProofs -------------------------
(***************************************************************************)
(* Proofs about Appointments, for every set of ids, services, resources,   *)
(* hours, closures and requests and every bound of the clock.              *)
(*                                                                         *)
(* The argument is the calendar lock's.  A request that has taken it is    *)
(* its only holder (LockIsHeld), read the clock in the past, and, once it  *)
(* has decided, what it accepted is still so (DecisionStands), because     *)
(* only holders write what a decision reads.  A commit may then use its    *)
(* decision as a fact about the state it changes.                          *)
(***************************************************************************)
EXTENDS Appointments, TLAPS

Holding(q) == requests[q].stage \in {"locked", "decided"}

LockIsHeld == \A q \in Requests : Holding(q) => lock = q

ClockWasRead == \A q \in Requests : Holding(q) => requests[q].now <= clock

Stands(r) ==
  /\ Accepts(r.operation, r.now)
  /\ r.operation.op \in {"create", "change"} => r.plan = PlanFor(r.operation)
DecisionStands == \A q \in Requests : requests[q].stage = "decided" => Stands(requests[q])

IInv == TypeOK /\ LockIsHeld /\ ClockWasRead /\ DecisionStands

(* The fields of a request by its stage, and of an operation by its name. *)
LEMMA RequestFields ==
  ASSUME NEW r \in Request
  PROVE  /\ r.stage = "waiting" => r.operation \in Operation
         /\ r.stage = "locked" => r.operation \in Operation /\ r.now \in Time
         /\ r.stage = "decided" => /\ r.operation \in Operation /\ r.now \in Time
                                   /\ r.plan \in Terms \cup {NULL}
  BY DEF Request

LEMMA OperationFields ==
  ASSUME NEW o \in Operation
  PROVE  /\ o.op = "create" => o.id = NULL /\ o.terms \in Terms
         /\ o.op = "change" => o.id \in Ids /\ o.terms \in Terms
         /\ o.op = "state" => o.id \in Ids /\ o.to \in State \ {"confirmed"}
         /\ o.op = "notes" => o.id \in Ids /\ o.notes \in Notes
         /\ o.op = "closure" => o.closure \in Closures /\ o.span \in ClosedSpans \cup {{}}
         /\ o.op = "schedule" => o.hours \in Hours
         /\ o.op = "resource" => o.resource \in Resources /\ o.hours \in Hours /\ o.serves \in SUBSET Services
         /\ o.op = "resourceStatus" => o.resource \in Resources /\ o.status \in Status
         /\ o.op = "service" => o.service \in Services /\ o.duration \in Durations
         /\ o.op = "serviceStatus" => o.service \in Services /\ o.status \in Status
  BY DEF Operation

(* What is accepted depends on the agenda and the catalog alone. *)
LEMMA AcceptsReadsTheAgenda ==
  ASSUME NEW o, NEW now, UNCHANGED <<appointments, catalogVars>>
  PROVE  /\ Accepts(o, now)' <=> Accepts(o, now)
         /\ PlanFor(o)' = PlanFor(o)
  <1>1. /\ Plan(o.id, o.terms.service, o.terms.resource, o.terms.start)'
             = Plan(o.id, o.terms.service, o.terms.resource, o.terms.start)
    BY DEF Plan, catalogVars
  <1>2. PlanFor(o)' = PlanFor(o)
    BY <1>1 DEF PlanFor
  <1>3. \A id, plan : Offered(id, plan, now)' <=> Offered(id, plan, now)
    BY DEF Offered, Confirmed, Eligible, NewStartAllowed, StructurallyAvailable, Plannable, TermsOf, Busy,
           Span, catalogVars
  <1>4. Accepts(o, now)' <=> Accepts(o, now)
    BY <1>2, <1>3
       DEF Accepts, AcceptsCreate, AcceptsChange, AcceptsState, AcceptsNotes, AcceptsClosure, AcceptsSchedule,
           AcceptsResource, AcceptsResourceStatus, AcceptsServiceStatus, Confirmed, FutureConfirmed, Future,
           TermsOf, Span, catalogVars
  <1>5. QED
    BY <1>2, <1>4

-----------------------------------------------------------------------------
(* Who writes what. *)

(* Only a commit, of a request that holds the lock, writes the agenda. *)
LEMMA OthersOnlyRead ==
  ASSUME NEW q \in Requests, Submit(q) \/ Acquire(q) \/ Decide(q) \/ Abandon(q)
  PROVE  UNCHANGED <<clock, appointments, catalogVars, agreed>>
  BY DEF Submit, Acquire, Decide, Abandon

LEMMA CommitEnds ==
  ASSUME NEW q \in Requests, Commit(q)
  PROVE  End(q) /\ requests[q].stage = "decided" /\ UNCHANGED clock
  BY DEF Commit, Decided, CommitCreate, CommitChange, CommitState, CommitNotes, CommitClosure, CommitSchedule,
         CommitResource, CommitResourceStatus, CommitService, CommitServiceStatus

(* What the holder of the lock decided, as facts about the state it commits in. *)
LEMMA DecidedFacts ==
  ASSUME IInv, NEW q \in Requests, requests[q].stage = "decided"
  PROVE  LET r == requests[q] IN
         /\ r.operation \in Operation /\ r.now \in Time /\ r.now <= clock
         /\ Accepts(r.operation, r.now)
         /\ lock = q
         /\ r.operation.op \in {"create", "change"} => r.plan = PlanFor(r.operation)
  <1>1. requests[q] \in Request
    BY DEF IInv, TypeOK
  <1>2. QED
    BY <1>1, RequestFields DEF IInv, LockIsHeld, ClockWasRead, DecisionStands, Stands, Holding

(* A booking's plan is the terms its user confirmed. *)
LEMMA PlanIsConfirmed ==
  ASSUME IInv, NEW q \in Requests, requests[q].stage = "decided",
         requests[q].operation.op \in {"create", "change"}
  PROVE  LET r == requests[q] IN
         /\ r.plan = r.operation.terms /\ r.plan \in Terms /\ r.plan = PlanFor(r.operation)
         /\ r.operation.op = "create" => Offered(NULL, r.plan, r.now)
         /\ r.operation.op = "change" => /\ r.operation.id \in Ids /\ Offered(r.operation.id, r.plan, r.now)
                                         /\ r.plan # TermsOf(appointments[r.operation.id])
  BY DecidedFacts, OperationFields DEF Accepts, AcceptsCreate, AcceptsChange

-----------------------------------------------------------------------------
(* Type correctness and the lock's invariants *)

LEMMA InitIInv == Init => IInv
  <1> SUFFICES ASSUME Init PROVE IInv
    OBVIOUS
  <1>1. requests \in [Requests -> Request] /\ \A q \in Requests : requests[q].stage = "new"
    BY DEF Init, Request
  <1>2. services \in [Services -> [status : Status, duration : Durations]]
    BY DEF Init, Status
  <1>3. resources \in [Resources -> [status : Status, hours : Hours, serves : SUBSET Services]]
    BY DEF Init, Status
  <1>4. TypeOK
    BY <1>1, <1>2, <1>3, AppointmentsAssumption DEF Init, TypeOK, Time
  <1>5. QED
    BY <1>1, <1>4 DEF IInv, LockIsHeld, ClockWasRead, DecisionStands, Holding

LEMMA TypeStep == IInv /\ Next => TypeOK'
  <1> SUFFICES ASSUME IInv, Next PROVE TypeOK'
    OBVIOUS
  <1>0. TypeOK
    BY DEF IInv
  <1>1. CASE Tick
    BY <1>0, <1>1, AppointmentsAssumption DEF TypeOK, Tick, catalogVars, Time
  <1>2. ASSUME NEW q \in Requests, Submit(q) PROVE TypeOK'
    <2>1. requests' \in [Requests -> Request]
      BY <1>0, <1>2 DEF TypeOK, Submit, Request
    <2>2. QED
      BY <1>0, <1>2, <2>1 DEF TypeOK, Submit, catalogVars
  <1>3. ASSUME NEW q \in Requests, Acquire(q) PROVE TypeOK'
    <2>1. requests[q].operation \in Operation
      BY <1>0, <1>3, RequestFields DEF TypeOK, Acquire
    <2>2. requests' \in [Requests -> Request]
      BY <1>0, <1>3, <2>1 DEF TypeOK, Acquire, Request
    <2>3. QED
      BY <1>0, <1>3, <2>2 DEF TypeOK, Acquire, catalogVars
  <1>4. ASSUME NEW q \in Requests, Decide(q) PROVE TypeOK'
    <2> DEFINE r == requests[q]
               plan == IF r.operation.op \in {"create", "change"} THEN PlanFor(r.operation) ELSE NULL
    <2>1. r \in Request /\ r.stage = "locked" /\ Accepts(r.operation, r.now)
      BY <1>0, <1>4 DEF TypeOK, Decide
    <2>2. r.operation \in Operation /\ r.now \in Time
      BY <2>1, RequestFields
    <2>3. plan \in Terms \cup {NULL}
      BY <2>1, <2>2, OperationFields DEF Accepts, AcceptsCreate, AcceptsChange
    <2>4. requests' = [requests EXCEPT ![q] = [stage |-> "decided", operation |-> r.operation,
                                               now |-> r.now, plan |-> plan]]
      BY <1>0, <1>4 DEF Decide, TypeOK
    <2>5. [stage |-> "decided", operation |-> r.operation, now |-> r.now, plan |-> plan] \in Request
      <3> HIDE DEF plan
      <3> QED BY <2>2, <2>3 DEF Request
    <2>6. requests' \in [Requests -> Request]
      <3> HIDE DEF plan
      <3> QED BY <1>0, <2>4, <2>5 DEF TypeOK
    <2>7. QED
      BY <1>0, <1>4, <2>6 DEF TypeOK, Decide, catalogVars
  <1>5. ASSUME NEW q \in Requests, End(q) PROVE requests' \in [Requests -> Request] /\ lock' \in Requests \cup {NULL}
    BY <1>0, <1>5 DEF End, TypeOK, Request
  <1>6. ASSUME NEW q \in Requests, Abandon(q) PROVE TypeOK'
    BY <1>0, <1>5, <1>6 DEF TypeOK, Abandon, catalogVars
  <1>7. ASSUME NEW q \in Requests, Commit(q) PROVE TypeOK'
    <2> DEFINE r == requests[q]
               o == r.operation
    <2>1. r.stage = "decided" /\ requests' \in [Requests -> Request] /\ lock' \in Requests \cup {NULL} /\ clock' \in Time
      BY <1>0, <1>5, <1>7, CommitEnds DEF TypeOK
    <2>2. o \in Operation
      BY <2>1, DecidedFacts
    <2>3. CASE CommitCreate(q)
      <3>1. r.plan \in Terms /\ o.terms \in Terms
        BY <2>1, <2>3, PlanIsConfirmed DEF CommitCreate, Decided
      <3>2. appointments' \in [Ids -> Appointment \cup {NULL}]
        BY <1>0, <2>3, <3>1 DEF CommitCreate, TypeOK, Appointment, State, Terms
      <3>3. agreed' \in [Ids -> Terms \cup {NULL}]
        BY <1>0, <2>3, <3>1 DEF CommitCreate, TypeOK
      <3>4. QED
        BY <1>0, <2>1, <2>3, <3>2, <3>3 DEF CommitCreate, TypeOK, catalogVars
    <2>4. CASE CommitChange(q)
      <3>1. r.plan \in Terms /\ o.terms \in Terms /\ o.id \in Ids
        BY <2>1, <2>4, PlanIsConfirmed DEF CommitChange, Decided
      <3>2. appointments[o.id] \in Appointment
        BY <1>0, <2>4, <3>1 DEF CommitChange, Confirmed, TypeOK
      <3>3. [appointments[o.id] EXCEPT !.service = r.plan.service, !.resource = r.plan.resource,
                                       !.start = r.plan.start, !.duration = r.plan.duration] \in Appointment
        BY <3>1, <3>2 DEF Appointment, Terms
      <3>4. appointments' \in [Ids -> Appointment \cup {NULL}]
        BY <1>0, <2>4, <3>1, <3>3 DEF CommitChange, TypeOK
      <3>5. agreed' \in [Ids -> Terms \cup {NULL}]
        BY <1>0, <2>4, <3>1 DEF CommitChange, TypeOK
      <3>6. QED
        BY <1>0, <2>1, <2>4, <3>4, <3>5 DEF CommitChange, TypeOK, catalogVars
    <2>5. CASE CommitState(q)
      <3>1. o.id \in Ids /\ o.to \in State
        BY <2>2, <2>5, OperationFields DEF CommitState, Decided
      <3>2. [appointments[o.id] EXCEPT !.state = o.to] \in Appointment
        <4>1. appointments[o.id] \in Appointment
          BY <1>0, <2>5, <3>1 DEF CommitState, Confirmed, TypeOK
        <4>2. QED
          BY <3>1, <4>1 DEF Appointment
      <3>3. appointments' \in [Ids -> Appointment \cup {NULL}]
        BY <1>0, <2>5, <3>1, <3>2 DEF CommitState, TypeOK
      <3>4. QED
        BY <1>0, <2>1, <2>5, <3>3 DEF CommitState, TypeOK, catalogVars
    <2>6. CASE CommitNotes(q)
      <3>1. o.id \in Ids /\ o.notes \in Notes
        BY <2>2, <2>6, OperationFields DEF CommitNotes, Decided
      <3>2. [appointments[o.id] EXCEPT !.notes = o.notes] \in Appointment
        <4>1. appointments[o.id] \in Appointment
          BY <1>0, <2>6, <3>1 DEF CommitNotes, Confirmed, TypeOK
        <4>2. QED
          BY <3>1, <4>1 DEF Appointment
      <3>3. appointments' \in [Ids -> Appointment \cup {NULL}]
        BY <1>0, <2>6, <3>1, <3>2 DEF CommitNotes, TypeOK
      <3>4. QED
        BY <1>0, <2>1, <2>6, <3>3 DEF CommitNotes, TypeOK, catalogVars
    <2>7. CASE CommitClosure(q)
      BY <1>0, <2>1, <2>2, <2>7, OperationFields DEF CommitClosure, Decided, TypeOK
    <2>8. CASE CommitSchedule(q)
      BY <1>0, <2>1, <2>2, <2>8, OperationFields DEF CommitSchedule, Decided, TypeOK
    <2>9. CASE CommitResource(q)
      BY <1>0, <2>1, <2>2, <2>9, OperationFields DEF CommitResource, Decided, TypeOK
    <2>10. CASE CommitResourceStatus(q)
      BY <1>0, <2>1, <2>2, <2>10, OperationFields DEF CommitResourceStatus, Decided, TypeOK
    <2>11. CASE CommitService(q)
      BY <1>0, <2>1, <2>2, <2>11, OperationFields DEF CommitService, Decided, TypeOK
    <2>12. CASE CommitServiceStatus(q)
      BY <1>0, <2>1, <2>2, <2>12, OperationFields DEF CommitServiceStatus, Decided, TypeOK
    <2>13. QED
      BY <1>7, <2>3, <2>4, <2>5, <2>6, <2>7, <2>8, <2>9, <2>10, <2>11, <2>12 DEF Commit
  <1>8. QED
    BY <1>1, <1>2, <1>3, <1>4, <1>6, <1>7 DEF Next

(* A decision stands as long as its request and the agenda do. *)
LEMMA StillStands ==
  ASSUME DecisionStands, UNCHANGED <<appointments, catalogVars>>,
         NEW q \in Requests, requests'[q] = requests[q], requests[q].stage = "decided"
  PROVE  Stands(requests[q])'
  <1>1. PICK r : r = requests[q]
    OBVIOUS
  <1>2. Stands(r)
    BY <1>1 DEF DecisionStands
  <1>3. PICK o, now : o = r.operation /\ now = r.now
    OBVIOUS
  <1>4. Accepts(o, now)' /\ (o.op \in {"create", "change"} => r.plan = PlanFor(o)')
    BY <1>2, <1>3, AcceptsReadsTheAgenda DEF Stands
  <1>5. QED
    BY <1>1, <1>3, <1>4 DEF Stands

(* Requests but one, and their decisions, survive the step of that one. *)
LEMMA LockStep == IInv /\ Next => LockIsHeld' /\ ClockWasRead' /\ DecisionStands'
  <1> SUFFICES ASSUME IInv, Next PROVE LockIsHeld' /\ ClockWasRead' /\ DecisionStands'
    OBVIOUS
  <1> USE DEF Holding
  <1>0. TypeOK /\ LockIsHeld /\ ClockWasRead /\ DecisionStands
    BY DEF IInv
  <1>1. CASE Tick
    <2>1. UNCHANGED <<appointments, catalogVars, lock, requests>> /\ clock \in Int /\ clock' = clock + 1
      BY <1>0, <1>1 DEF Tick, TypeOK, Time
    <2>2. ClockWasRead'
      <3> SUFFICES ASSUME NEW p \in Requests, requests[p].stage \in {"locked", "decided"}
                   PROVE  requests[p].now <= clock + 1
        BY <2>1 DEF ClockWasRead
      <3>1. requests[p] \in Request
        BY <1>0 DEF TypeOK
      <3>2. requests[p].now <= clock /\ requests[p].now \in Int
        BY <1>0, <3>1, RequestFields DEF ClockWasRead, Time
      <3>3. QED
        BY <2>1, <3>2
    <2>3. DecisionStands'
      <3> SUFFICES ASSUME NEW p \in Requests, requests'[p].stage = "decided" PROVE Stands(requests[p])'
        BY DEF DecisionStands
      <3> QED BY <1>0, <2>1, StillStands
    <2>4. QED
      BY <1>0, <2>1, <2>2, <2>3 DEF LockIsHeld
  <1>2. ASSUME NEW q \in Requests, Submit(q) \/ Acquire(q) \/ Decide(q) \/ Abandon(q)
        PROVE  LockIsHeld' /\ ClockWasRead' /\ DecisionStands'
    <2>1. UNCHANGED <<clock, appointments, catalogVars>>
      BY <1>2, OthersOnlyRead
    <2>2. \A p \in Requests \ {q} : requests'[p] = requests[p]
      BY <1>0, <1>2 DEF Submit, Acquire, Decide, Abandon, End, TypeOK
    <2>3. clock \in Int /\ clock <= clock
      BY <1>0 DEF TypeOK, Time
    <2>4. requests'[q].stage = "decided" => Decide(q)
      BY <1>0, <1>2 DEF Submit, Acquire, Abandon, End, TypeOK
    <2>5. LockIsHeld' /\ ClockWasRead'
      <3>1. CASE Submit(q)
        BY <1>0, <2>1, <2>2, <3>1 DEF LockIsHeld, ClockWasRead, Submit, TypeOK
      <3>2. CASE Acquire(q)
        <4>1. /\ lock = NULL /\ lock' = q
              /\ requests'[q] = [stage |-> "locked", operation |-> requests[q].operation, now |-> clock]
          BY <1>0, <3>2 DEF Acquire, TypeOK
        <4>2. \A p \in Requests \ {q} : ~Holding(p)
          BY <1>0, <4>1, AppointmentsAssumption DEF LockIsHeld
        <4>3. LockIsHeld'
          BY <2>2, <4>1, <4>2 DEF LockIsHeld
        <4>4. ClockWasRead'
          BY <2>1, <2>2, <2>3, <4>1, <4>2 DEF ClockWasRead
        <4>5. QED
          BY <4>3, <4>4
      <3>3. CASE Decide(q)
        BY <1>0, <2>1, <2>2, <3>3 DEF LockIsHeld, ClockWasRead, Decide, TypeOK
      <3>4. CASE Abandon(q)
        BY <1>0, <2>1, <2>2, <3>4 DEF LockIsHeld, ClockWasRead, Abandon, End, TypeOK
      <3>5. QED
        BY <1>2, <3>1, <3>2, <3>3, <3>4
    <2>6. ASSUME Decide(q) PROVE Stands(requests[q])'
      <3>1. PICK o, now : o = requests[q].operation /\ now = requests[q].now
        OBVIOUS
      <3>2. Accepts(o, now) /\ requests'[q] = [stage |-> "decided", operation |-> o, now |-> now,
                                 plan |-> IF o.op \in {"create", "change"} THEN PlanFor(o) ELSE NULL]
        BY <1>0, <2>6, <3>1 DEF Decide, TypeOK
      <3>3. Accepts(o, now)' /\ PlanFor(o)' = PlanFor(o)
        BY <2>1, <3>2, AcceptsReadsTheAgenda
      <3>4. QED
        BY <3>2, <3>3 DEF Stands
    <2>7. ASSUME NEW p \in Requests, requests'[p].stage = "decided" PROVE Stands(requests[p])'
      <3>1. CASE p = q
        BY <2>4, <2>6, <2>7, <3>1
      <3>2. CASE p # q
        BY <1>0, <2>1, <2>2, <2>7, <3>2, StillStands
      <3>3. QED
        BY <3>1, <3>2
    <2>8. QED
      BY <2>5, <2>7 DEF DecisionStands
  <1>3. ASSUME NEW q \in Requests, Commit(q)
        PROVE  LockIsHeld' /\ ClockWasRead' /\ DecisionStands'
    <2>1. lock = q /\ requests' = [requests EXCEPT ![q] = [stage |-> "done"]] /\ UNCHANGED clock
      BY <1>0, <1>3, CommitEnds DEF LockIsHeld, End
    <2>2. \A p \in Requests : requests'[p].stage \notin {"locked", "decided"}
      BY <1>0, <2>1 DEF LockIsHeld, TypeOK
    <2>3. QED
      BY <2>2 DEF LockIsHeld, ClockWasRead, DecisionStands
  <1>4. QED
    BY <1>1, <1>2, <1>3 DEF Next

LEMMA LockInvariant == Spec => []IInv
  <1>1. IInv /\ Next => IInv'
    BY TypeStep, LockStep DEF IInv
  <1>2. IInv /\ UNCHANGED vars => IInv'
    <2> SUFFICES ASSUME IInv, UNCHANGED vars PROVE IInv'
      OBVIOUS
    <2>1. TypeOK' /\ LockIsHeld' /\ ClockWasRead'
      BY DEF IInv, TypeOK, LockIsHeld, ClockWasRead, Holding, vars, catalogVars
    <2>2. DecisionStands'
      <3> SUFFICES ASSUME NEW p \in Requests, requests'[p].stage = "decided" PROVE Stands(requests[p])'
        BY DEF DecisionStands
      <3> QED BY StillStands DEF IInv, vars
    <2>3. QED
      BY <2>1, <2>2 DEF IInv
  <1>3. QED
    BY InitIInv, <1>1, <1>2, PTL DEF Spec

(* The agenda's state has its type. *)
THEOREM TypeCorrect == Spec => []TypeOK
  <1>1. IInv => TypeOK
    BY DEF IInv
  <1>2. QED
    BY LockInvariant, <1>1, PTL

-----------------------------------------------------------------------------
(* What the commits write in appointments *)

(* A booking or a change writes one appointment, with the plan it decided. *)
LEMMA BookingWrites ==
  ASSUME IInv, NEW q \in Requests, CommitCreate(q) \/ CommitChange(q)
  PROVE  \E id \in Ids :
           LET plan == requests[q].plan IN
           /\ appointments'[id].state = "confirmed" /\ appointments'[id] # NULL
           /\ TermsOf(appointments'[id]) = plan
           /\ agreed'[id] = plan
           /\ \A other \in Ids \ {id} : appointments'[other] = appointments[other] /\ agreed'[other] = agreed[other]
           /\ ~Busy(plan, id) /\ Eligible(plan.resource, plan.service) /\ StructurallyAvailable(plan)
           /\ plan \in Terms
           /\ UNCHANGED <<clock, catalogVars>>
  <1> DEFINE plan == requests[q].plan
  <1>0. TypeOK
    BY DEF IInv
  <1>1. CASE CommitCreate(q)
    <2>1. plan = requests[q].operation.terms /\ plan \in Terms /\ Offered(NULL, plan, requests[q].now)
      BY <1>1, PlanIsConfirmed DEF CommitCreate, Decided
    <2>2. PICK id \in Ids, n \in Notes :
            /\ appointments' = [appointments EXCEPT ![id] =
                 [state |-> "confirmed", service |-> plan.service, resource |-> plan.resource,
                  start |-> plan.start, duration |-> plan.duration, notes |-> n]]
            /\ agreed' = [agreed EXCEPT ![id] = plan]
      BY <1>1, <2>1 DEF CommitCreate
    <2>3. /\ appointments'[id].state = "confirmed" /\ appointments'[id] \in Appointment
          /\ TermsOf(appointments'[id]) = plan
      BY <1>0, <2>1, <2>2 DEF TypeOK, TermsOf, Terms, Appointment, State
    <2>4. appointments'[id] # NULL
      BY <2>3, NullAssumption
    <2>5. agreed'[id] = plan /\ \A other \in Ids \ {id} : appointments'[other] = appointments[other] /\ agreed'[other] = agreed[other]
      BY <1>0, <2>2 DEF TypeOK
    <2>6. ~Busy(plan, id) /\ Eligible(plan.resource, plan.service) /\ StructurallyAvailable(plan)
      BY <2>1, AppointmentsAssumption DEF Offered, Busy, NewStartAllowed
    <2>7. QED
      BY <1>1, <2>1, <2>3, <2>4, <2>5, <2>6 DEF CommitCreate
  <1>2. CASE CommitChange(q)
    <2> DEFINE id == requests[q].operation.id
    <2>1. /\ plan = requests[q].operation.terms /\ plan \in Terms
          /\ id \in Ids /\ Offered(id, plan, requests[q].now) /\ plan # TermsOf(appointments[id])
      BY <1>2, PlanIsConfirmed DEF CommitChange, Decided
    <2>2. /\ appointments' = [appointments EXCEPT ![id] =
               [@ EXCEPT !.service = plan.service, !.resource = plan.resource,
                         !.start = plan.start, !.duration = plan.duration]]
          /\ agreed' = [agreed EXCEPT ![id] = plan] /\ Confirmed(id)
      BY <1>2, <2>1 DEF CommitChange
    <2> DEFINE old == appointments[id]
               new == [old EXCEPT !.service = plan.service, !.resource = plan.resource,
                                  !.start = plan.start, !.duration = plan.duration]
    <2>3. old \in Appointment /\ old.state = "confirmed" /\ appointments'[id] = new
      BY <1>0, <2>1, <2>2 DEF TypeOK, Confirmed
    <2>4. new.state = "confirmed" /\ new \in Appointment /\ TermsOf(new) = plan
      <3> HIDE DEF id, plan
      <3> QED BY <2>1, <2>3 DEF TermsOf, Terms, Appointment
    <2>5. appointments'[id] # NULL
      BY <2>4, <2>3, NullAssumption
    <2>6. agreed'[id] = plan /\ \A other \in Ids \ {id} : appointments'[other] = appointments[other] /\ agreed'[other] = agreed[other]
      BY <1>0, <2>1, <2>2 DEF TypeOK
    <2>7. ~Busy(plan, id) /\ Eligible(plan.resource, plan.service) /\ StructurallyAvailable(plan)
      BY <2>1, AppointmentsAssumption DEF Offered, Plannable
    <2>8. QED
      BY <1>2, <2>1, <2>4, <2>5, <2>6, <2>7, <2>3 DEF CommitChange
  <1>3. QED
    BY <1>1, <1>2

(* Ending an appointment, or its notes, leaves its terms. *)
LEMMA UpdateKeepsTerms ==
  ASSUME IInv, NEW q \in Requests, CommitState(q) \/ CommitNotes(q)
  PROVE  /\ \A id \in Ids : /\ appointments'[id] = NULL <=> appointments[id] = NULL
                            /\ appointments[id] # NULL => TermsOf(appointments'[id]) = TermsOf(appointments[id])
                            /\ Confirmed(id)' => Confirmed(id)
         /\ UNCHANGED <<clock, catalogVars, agreed>>
  <1> DEFINE o == requests[q].operation
  <1>0. TypeOK
    BY DEF IInv
  <1>1. o \in Operation
    BY DecidedFacts DEF CommitState, CommitNotes, Decided
  <1>2. CASE CommitState(q)
    <2>1. o.id \in Ids /\ appointments' = [appointments EXCEPT ![o.id].state = o.to] /\ Confirmed(o.id)
      BY <1>1, <1>2, OperationFields DEF CommitState, Decided
    <2>2. appointments[o.id] \in Appointment /\ appointments'[o.id] = [appointments[o.id] EXCEPT !.state = o.to]
      BY <1>0, <2>1 DEF TypeOK, Confirmed
    <2>3. appointments'[o.id] \in Appointment /\ TermsOf(appointments'[o.id]) = TermsOf(appointments[o.id])
      BY <1>1, <1>2, <2>2, OperationFields DEF TermsOf, Appointment, Decided, CommitState
    <2>4. \A id \in Ids \ {o.id} : appointments'[id] = appointments[id]
      BY <1>0, <2>1 DEF TypeOK
    <2>5. QED
      BY <1>2, <2>1, <2>3, <2>4, NullAssumption DEF Confirmed, CommitState
  <1>3. CASE CommitNotes(q)
    <2>1. o.id \in Ids /\ appointments' = [appointments EXCEPT ![o.id].notes = o.notes] /\ Confirmed(o.id)
      BY <1>1, <1>3, OperationFields DEF CommitNotes, Decided
    <2>2. appointments[o.id] \in Appointment /\ appointments'[o.id] = [appointments[o.id] EXCEPT !.notes = o.notes]
      BY <1>0, <2>1 DEF TypeOK, Confirmed
    <2>3. appointments'[o.id] \in Appointment /\ TermsOf(appointments'[o.id]) = TermsOf(appointments[o.id])
      BY <1>1, <1>3, <2>2, OperationFields DEF TermsOf, Appointment, Decided, CommitNotes
    <2>4. \A id \in Ids \ {o.id} : appointments'[id] = appointments[id]
      BY <1>0, <2>1 DEF TypeOK
    <2>5. QED
      BY <1>3, <2>1, <2>3, <2>4, NullAssumption DEF Confirmed, CommitNotes
  <1>4. QED
    BY <1>2, <1>3

LEMMA CatalogKeepsAppointments ==
  ASSUME NEW q \in Requests,
         \/ CommitClosure(q) \/ CommitSchedule(q) \/ CommitResource(q)
         \/ CommitResourceStatus(q) \/ CommitService(q) \/ CommitServiceStatus(q)
  PROVE  UNCHANGED <<clock, appointments, agreed>>
  BY DEF CommitClosure, CommitSchedule, CommitResource, CommitResourceStatus, CommitService, CommitServiceStatus

-----------------------------------------------------------------------------
(* Safety *)

(* Every appointment has the terms that its user confirmed last. *)
THEOREM TermsAreTheConfirmedOnes == Spec => []SavedAsAgreed
  <1>1. Init => SavedAsAgreed
    BY DEF Init, SavedAsAgreed
  <1>2. ASSUME IInv, SavedAsAgreed, Next PROVE SavedAsAgreed'
    <2> USE DEF SavedAsAgreed
    <2>1. CASE UNCHANGED <<appointments, agreed>>
      BY <1>2, <2>1 DEF TermsOf
    <2>2. ASSUME NEW q \in Requests, CommitCreate(q) \/ CommitChange(q) PROVE SavedAsAgreed'
      <3> USE <1>2
      <3>1. PICK id \in Ids :
              /\ TermsOf(appointments'[id]) = agreed'[id]
              /\ \A other \in Ids \ {id} : appointments'[other] = appointments[other] /\ agreed'[other] = agreed[other]
        BY <2>2, BookingWrites
      <3>2. QED
        BY <3>1 DEF TermsOf
    <2>3. ASSUME NEW q \in Requests, CommitState(q) \/ CommitNotes(q) PROVE SavedAsAgreed'
      BY <1>2, <2>3, UpdateKeepsTerms DEF TermsOf
    <2>4. QED
      BY <1>2, <2>1, <2>2, <2>3, OthersOnlyRead, CatalogKeepsAppointments DEF Next, Tick, Commit
  <1>3. ASSUME SavedAsAgreed, UNCHANGED vars PROVE SavedAsAgreed'
    BY <1>3 DEF SavedAsAgreed, TermsOf, vars
  <1>4. QED
    BY <1>1, <1>2, <1>3, LockInvariant, PTL DEF Spec

Apart(i, j) ==
  Confirmed(i) /\ Confirmed(j) /\ appointments[i].resource = appointments[j].resource
    => Span(appointments[i]) \cap Span(appointments[j]) = {}

(* No resource is booked twice at once: what the last booking found free is still *)
(* free when it commits. *)
THEOREM ResourceBookedOnce == Spec => []NoDoubleBooking
  <1>1. Init => NoDoubleBooking
    BY DEF Init, NoDoubleBooking, Confirmed
  <1>2. ASSUME IInv, NoDoubleBooking, Next PROVE NoDoubleBooking'
    <2>1. CASE UNCHANGED appointments
      BY <1>2, <2>1 DEF NoDoubleBooking, Confirmed, Span
    <2>2. ASSUME NEW q \in Requests, CommitCreate(q) \/ CommitChange(q) PROVE NoDoubleBooking'
      <3> USE <1>2
      <3> DEFINE plan == requests[q].plan
      <3>1. PICK id \in Ids :
              /\ TermsOf(appointments'[id]) = plan /\ ~Busy(plan, id)
              /\ \A other \in Ids \ {id} : appointments'[other] = appointments[other]
        BY <2>2, BookingWrites
      <3> HIDE DEF plan
      <3>2. appointments'[id].resource = plan.resource /\ Span(appointments'[id]) = Span(plan)
        BY <3>1 DEF TermsOf, Span
      <3>3. ASSUME NEW i \in Ids \ {id} PROVE Apart(i, id)' /\ Apart(id, i)'
        BY <3>1, <3>2, <3>3 DEF Apart, Busy, Confirmed, Span
      <3>4. ASSUME NEW i \in Ids \ {id}, NEW j \in Ids \ {id}, i # j PROVE Apart(i, j)'
        BY <3>1, <3>4 DEF Apart, NoDoubleBooking, Confirmed, Span
      <3>5. QED
        BY <3>3, <3>4 DEF NoDoubleBooking, Apart
    <2>3. ASSUME NEW q \in Requests, CommitState(q) \/ CommitNotes(q) PROVE NoDoubleBooking'
      <3>1. ASSUME NEW i \in Ids, Confirmed(i)'
            PROVE  /\ Confirmed(i) /\ appointments'[i].resource = appointments[i].resource
                   /\ Span(appointments'[i]) = Span(appointments[i])
        BY <1>2, <2>3, <3>1, UpdateKeepsTerms DEF TermsOf, Span, Confirmed
      <3>2. QED
        BY <1>2, <3>1 DEF NoDoubleBooking
    <2>4. QED
      BY <1>2, <2>1, <2>2, <2>3, OthersOnlyRead, CatalogKeepsAppointments DEF Next, Tick, Commit
  <1>3. ASSUME NoDoubleBooking, UNCHANGED vars PROVE NoDoubleBooking'
    BY <1>3 DEF NoDoubleBooking, Confirmed, Span, vars
  <1>4. QED
    BY <1>1, <1>2, <1>3, LockInvariant, PTL DEF Spec

Upcoming(id) == Confirmed(id) /\ appointments[id].start > clock

Honoured(a) ==
  /\ StructurallyAvailable(a)
  /\ resources[a.resource].status # "deleted" /\ services[a.service].status # "deleted"
  /\ a.service \in resources[a.resource].serves

(* An edit of the calendar or the catalog is decided with a clock of the past, so *)
(* it has looked at every appointment that is still upcoming. *)
LEMMA EditHonours ==
  ASSUME IInv, NEW id \in Ids, Upcoming(id), Honoured(appointments[id]), NEW q \in Requests,
         \/ CommitClosure(q) \/ CommitSchedule(q) \/ CommitResource(q)
         \/ CommitResourceStatus(q) \/ CommitService(q) \/ CommitServiceStatus(q)
  PROVE  Honoured(appointments[id])'
  <1> DEFINE a == appointments[id]
             o == requests[q].operation
             now == requests[q].now
  <1>1. /\ requests[q].stage = "decided" /\ o \in Operation
        /\ Accepts(o, now) /\ now \in Int /\ clock \in Int /\ now <= clock
    BY DecidedFacts DEF CommitClosure, CommitSchedule, CommitResource, CommitResourceStatus, CommitService,
       CommitServiceStatus, Decided, IInv, TypeOK, Time
  <1>2. a \in Appointment /\ appointments' = appointments
    BY CatalogKeepsAppointments DEF IInv, TypeOK, Upcoming, Confirmed
  <1>3. FutureConfirmed(id, now) /\ Future(id, now)
    BY <1>1, <1>2 DEF Upcoming, FutureConfirmed, Future, Confirmed, Appointment, Time
  <1>4. a.resource \in Resources /\ a.service \in Services
    BY <1>2 DEF Appointment
  <1>5. /\ services \in [Services -> [status : Status, duration : Durations]]
        /\ resources \in [Resources -> [status : Status, hours : Hours, serves : SUBSET Services]]
    BY DEF IInv, TypeOK
  <1> USE DEF Honoured, StructurallyAvailable, Span
  <1>6. CASE CommitClosure(q)
    BY <1>1, <1>2, <1>3, <1>6, OperationFields DEF CommitClosure, Decided, Accepts, AcceptsClosure, IInv, TypeOK
  <1>7. CASE CommitSchedule(q)
    BY <1>1, <1>2, <1>3, <1>7 DEF CommitSchedule, Decided, Accepts, AcceptsSchedule
  <1>8. CASE CommitResource(q)
    <2>1. /\ Span(a) \subseteq o.hours \/ o.resource # a.resource
          /\ a.service \in o.serves \/ o.resource # a.resource
      BY <1>1, <1>3, <1>8 DEF CommitResource, Decided, Accepts, AcceptsResource
    <2>2. /\ resources'[a.resource].status = resources[a.resource].status
          /\ Span(a) \subseteq resources'[a.resource].hours
          /\ a.service \in resources'[a.resource].serves
      BY <1>4, <1>5, <1>8, <2>1 DEF CommitResource
    <2>3. QED
      BY <1>2, <1>8, <2>2 DEF CommitResource
  <1>9. CASE CommitResourceStatus(q)
    <2>1. o.status # "deleted" \/ o.resource # a.resource
      BY <1>1, <1>3, <1>9 DEF CommitResourceStatus, Decided, Accepts, AcceptsResourceStatus
    <2>2. /\ resources'[a.resource].status # "deleted"
          /\ resources'[a.resource].hours = resources[a.resource].hours
          /\ resources'[a.resource].serves = resources[a.resource].serves
      BY <1>4, <1>5, <1>9, <2>1 DEF CommitResourceStatus
    <2>3. QED
      BY <1>2, <1>9, <2>2 DEF CommitResourceStatus
  <1>10. CASE CommitService(q)
    <2>1. services'[a.service].status = services[a.service].status
      BY <1>4, <1>5, <1>10 DEF CommitService
    <2>2. QED
      BY <1>2, <1>10, <2>1 DEF CommitService
  <1>11. CASE CommitServiceStatus(q)
    <2>1. o.status # "deleted" \/ o.service # a.service
      BY <1>1, <1>3, <1>11 DEF CommitServiceStatus, Decided, Accepts, AcceptsServiceStatus
    <2>2. services'[a.service].status # "deleted"
      BY <1>4, <1>5, <1>11, <2>1 DEF CommitServiceStatus
    <2>3. /\ resources'[a.resource].status = resources[a.resource].status
          /\ resources'[a.resource].hours = resources[a.resource].hours
          /\ a.service \in resources'[a.resource].serves
      BY <1>4, <1>5, <1>11, <2>1 DEF CommitServiceStatus
    <2>4. QED
      BY <1>2, <1>11, <2>2, <2>3 DEF CommitServiceStatus
  <1>12. QED
    BY <1>6, <1>7, <1>8, <1>9, <1>10, <1>11

(* An upcoming appointment stays within the hours, outside the closures and with *)
(* the service and the resource that it was booked for. *)
THEOREM UpcomingIsHonoured == Spec => []FutureIsHonoured
  <1> DEFINE Inv == \A id \in Ids : Upcoming(id) => Honoured(appointments[id])
  <1>1. FutureIsHonoured <=> Inv
    BY DEF FutureIsHonoured, Upcoming, Honoured
  <1>2. Init => Inv
    BY DEF Init, Upcoming, Confirmed
  <1>3. ASSUME IInv, Inv, Next PROVE Inv'
    <2>0. appointments \in [Ids -> Appointment \cup {NULL}] /\ clock \in Int
      BY <1>3 DEF IInv, TypeOK, Time
    <2>1. CASE Tick
      BY <1>3, <2>0, <2>1
         DEF Tick, catalogVars, Upcoming, Confirmed, Honoured, StructurallyAvailable, Span, Appointment, Time
    <2>2. ASSUME NEW q \in Requests, Submit(q) \/ Acquire(q) \/ Decide(q) \/ Abandon(q) PROVE Inv'
      BY <1>3, <2>2, OthersOnlyRead
         DEF catalogVars, Upcoming, Confirmed, Honoured, StructurallyAvailable, Span
    <2>3. ASSUME NEW q \in Requests, CommitCreate(q) \/ CommitChange(q) PROVE Inv'
      <3> USE <1>3
      <3> DEFINE plan == requests[q].plan
      <3>1. PICK id \in Ids :
              /\ TermsOf(appointments'[id]) = plan
              /\ Eligible(plan.resource, plan.service) /\ StructurallyAvailable(plan)
              /\ \A other \in Ids \ {id} : appointments'[other] = appointments[other]
              /\ UNCHANGED <<clock, catalogVars>>
        BY <2>3, BookingWrites
      <3> HIDE DEF plan
      <3>2. Honoured(appointments'[id])
        BY <3>1 DEF TermsOf, Honoured, Eligible, StructurallyAvailable, Span
      <3>3. Honoured(appointments[id])'
        BY <3>1, <3>2 DEF Honoured, StructurallyAvailable, Span, catalogVars
      <3>4. ASSUME NEW other \in Ids \ {id}, Upcoming(other)' PROVE Honoured(appointments[other])'
        BY <3>1, <3>4 DEF Upcoming, Confirmed, Honoured, StructurallyAvailable, Span, catalogVars
      <3>5. QED
        BY <3>3, <3>4
    <2>4. ASSUME NEW q \in Requests, CommitState(q) \/ CommitNotes(q) PROVE Inv'
      <3> SUFFICES ASSUME NEW id \in Ids, Upcoming(id)' PROVE Honoured(appointments[id])'
        OBVIOUS
      <3>1. /\ TermsOf(appointments'[id]) = TermsOf(appointments[id]) /\ Confirmed(id)
            /\ UNCHANGED <<clock, catalogVars>>
        BY <1>3, <2>4, UpdateKeepsTerms DEF Upcoming, Confirmed
      <3>2. Honoured(appointments[id])
        BY <1>3, <3>1 DEF Upcoming, TermsOf
      <3>3. QED
        BY <3>1, <3>2 DEF TermsOf, Honoured, StructurallyAvailable, Span, catalogVars
    <2>5. ASSUME NEW q \in Requests,
                 \/ CommitClosure(q) \/ CommitSchedule(q) \/ CommitResource(q)
                 \/ CommitResourceStatus(q) \/ CommitService(q) \/ CommitServiceStatus(q)
          PROVE  Inv'
      BY <1>3, <2>5, CatalogKeepsAppointments, EditHonours DEF Upcoming, Confirmed
    <2>6. QED
      BY <1>3, <2>1, <2>2, <2>3, <2>4, <2>5 DEF Next, Commit
  <1>4. ASSUME Inv, UNCHANGED vars PROVE Inv'
    BY <1>4 DEF vars, catalogVars, Upcoming, Confirmed, Honoured, StructurallyAvailable, Span
  <1> HIDE DEF Inv
  <1>5. QED
    BY <1>1, <1>2, <1>3, <1>4, LockInvariant, PTL DEF Spec

(* An appointment that is over never changes again. *)
THEOREM OverIsOver == Spec => FinalIsFrozen
  <1> DEFINE Over(id) == appointments[id] # NULL /\ appointments[id].state # "confirmed"
             Frozen == \A id \in Ids : Over(id) => appointments'[id] = appointments[id]
  <1>1. ASSUME IInv, Next PROVE Frozen
    <2>0. appointments \in [Ids -> Appointment \cup {NULL}]
      BY <1>1 DEF IInv, TypeOK
    <2>1. ASSUME NEW q \in Requests, CommitCreate(q) PROVE Frozen
      BY <2>0, <2>1 DEF CommitCreate
    <2>2. ASSUME NEW q \in Requests, CommitChange(q) PROVE Frozen
      BY <2>0, <2>2 DEF CommitChange, Confirmed
    <2>3. ASSUME NEW q \in Requests, CommitState(q) PROVE Frozen
      BY <2>0, <2>3 DEF CommitState, Confirmed
    <2>4. ASSUME NEW q \in Requests, CommitNotes(q) PROVE Frozen
      BY <2>0, <2>4 DEF CommitNotes, Confirmed
    <2>5. QED
      BY <1>1, <2>1, <2>2, <2>3, <2>4, OthersOnlyRead, CatalogKeepsAppointments DEF Next, Tick, Commit
  <1>2. ASSUME IInv, [Next]_vars PROVE [Frozen]_vars
    BY <1>1, <1>2
  <1>3. QED
    BY <1>2, LockInvariant, PTL DEF Spec, FinalIsFrozen
=============================================================================
