---------------------------- MODULE Appointments ----------------------------
(***************************************************************************)
(* The agenda of a business: its appointments, its catalog of services and *)
(* resources, its weekly hours and closures, and the API transactions that *)
(* change them.                                                            *)
(*                                                                         *)
(* Every such transaction takes the business's calendar lock before it     *)
(* reads, reads the clock under it, decides from what it read and commits. *)
(* It is not isolated in any other way: a transaction reads what others    *)
(* have committed when it decides, and its own write shows when it         *)
(* commits.  The exclusion constraint on appointments, which the code      *)
(* keeps as a backstop for raw writers, is left out: the lock must do      *)
(* without it.                                                             *)
(*                                                                         *)
(* Time is counted in units of a booking's lead time.  The weekly hours    *)
(* and the closures are the sets of units they open or close, and the      *)
(* agreed terms of an appointment are its service, its resource and its    *)
(* duration, which stands for the price and the labels saved beside it.    *)
(***************************************************************************)
EXTENDS Integers, FiniteSets

CONSTANTS
  Ids,              \* appointment ids
  Services, Resources,
  Closures,         \* ids of closures
  Durations,        \* of services
  Hours,            \* weekly schedules
  ClosedSpans,      \* what a closure may close
  Notes,
  Requests,         \* transactions of the API
  NULL,
  MaxTime           \* bound: the last instant of the clock

Lead == 1           \* one hour in isNewStartAllowed
Time == 0..MaxTime

ASSUME AppointmentsAssumption ==
  /\ MaxTime \in Nat
  /\ Durations \subseteq Nat \ {0}
  /\ Hours \subseteq SUBSET Nat /\ ClosedSpans \subseteq SUBSET Nat
  /\ {} \notin ClosedSpans
  /\ NULL \notin Ids \cup Services \cup Resources \cup Requests \cup Notes

VARIABLES
  clock,
  appointments,          \* rows of appointments
  services, resources,   \* rows of services and resources
  schedule,              \* business_calendars.weekly_schedule
  closures,              \* rows of business_calendar_closures, {} for none
  lock,                  \* the request that holds the business-calendar lock
  requests,              \* API transactions
  agreed                 \* history: the terms the user last confirmed for each appointment

catalogVars == <<services, resources, schedule, closures>>
vars == <<clock, appointments, catalogVars, lock, requests, agreed>>

State == {"confirmed", "done", "cancelled", "no_show"}
Status == {"active", "suspended", "deleted"}
Terms == [service : Services, resource : Resources, start : Time, duration : Durations]
Appointment == [state : State, service : Services, resource : Resources, start : Time,
                duration : Durations, notes : Notes]

ASSUME NullAssumption == NULL \notin Appointment

(* What the routes can ask for.  A booking carries the terms of the offer *)
(* the user confirmed. *)
Operation ==
  [op : {"create"}, id : {NULL}, terms : Terms]
  \cup [op : {"change"}, id : Ids, terms : Terms]
  \cup [op : {"state"}, id : Ids, to : State \ {"confirmed"}]
  \cup [op : {"notes"}, id : Ids, notes : Notes]
  \cup [op : {"closure"}, closure : Closures, span : ClosedSpans \cup {{}}]
  \cup [op : {"schedule"}, hours : Hours]
  \cup [op : {"resource"}, resource : Resources, hours : Hours, serves : SUBSET Services]
  \cup [op : {"resourceStatus"}, resource : Resources, status : Status]
  \cup [op : {"service"}, service : Services, duration : Durations]
  \cup [op : {"serviceStatus"}, service : Services, status : Status]

Request == [stage : {"new", "done"}]
           \cup [stage : {"waiting"}, operation : Operation]
           \cup [stage : {"locked"}, operation : Operation, now : Time]
           \cup [stage : {"decided"}, operation : Operation, now : Time, plan : Terms \cup {NULL}]

TypeOK ==
  /\ clock \in Time
  /\ appointments \in [Ids -> Appointment \cup {NULL}]
  /\ services \in [Services -> [status : Status, duration : Durations]]
  /\ resources \in [Resources -> [status : Status, hours : Hours, serves : SUBSET Services]]
  /\ schedule \in Hours
  /\ closures \in [Closures -> ClosedSpans \cup {{}}]
  /\ lock \in Requests \cup {NULL}
  /\ requests \in [Requests -> Request]
  /\ agreed \in [Ids -> Terms \cup {NULL}]

-----------------------------------------------------------------------------
(* Availability *)

ConfirmedOrDone(id) == appointments[id] # NULL /\ appointments[id].state \in {"confirmed", "done"}
Span(a) == a.start .. (a.start + a.duration - 1)
Confirmed(id) == appointments[id] # NULL /\ appointments[id].state = "confirmed"

(* isStructurallyAvailable *)
StructurallyAvailable(terms) ==
  /\ Span(terms) \subseteq schedule \cap resources[terms.resource].hours
  /\ \A c \in Closures : Span(terms) \cap closures[c] = {}

(* isNewStartAllowed *)
NewStartAllowed(terms, now) == terms.start - now >= Lead /\ StructurallyAvailable(terms)

(* isResourceEligibleForService; a deleted row is not found. *)
Eligible(r, s) ==
  resources[r].status = "active" /\ services[s].status = "active" /\ s \in resources[r].serves

BusyAtStart(terms, except) ==
  \E id \in Ids \ {except} :
    Confirmed(id) /\ appointments[id].resource = terms.resource
                  /\ appointments[id].start = terms.start

Busy(terms, except) ==
  \E id \in Ids \ {except} :
    Confirmed(id) /\ appointments[id].resource = terms.resource
                  /\ Span(appointments[id]) \cap Span(terms) # {}

(* captureAppointmentTerms and, for an appointment that exists, the planner: *)
(* the saved duration stays unless the service changes. *)
Plan(id, s, r, start) ==
  [service |-> s, resource |-> r, start |-> start,
   duration |-> IF id # NULL /\ appointments[id].service = s
                THEN appointments[id].duration ELSE services[s].duration]

TermsOf(a) == [service |-> a.service, resource |-> a.resource, start |-> a.start, duration |-> a.duration]

(* prepareAppointmentChange, for a change of something *)
Plannable(id, plan, now) ==
  /\ now < appointments[id].start
  /\ Eligible(plan.resource, plan.service)
  /\ IF plan.start = appointments[id].start
     THEN StructurallyAvailable(plan) ELSE NewStartAllowed(plan, now)

(* listAppointmentAvailability for a new appointment, or to move appointment id *)
Offered(id, plan, now) ==
  /\ id # NULL => Confirmed(id)
  /\ IF id = NULL THEN Eligible(plan.resource, plan.service) /\ NewStartAllowed(plan, now)
     ELSE /\ now < appointments[id].start
          /\ plan # TermsOf(appointments[id]) => Plannable(id, plan, now)
          /\ StructurallyAvailable(plan)
  /\ ~Busy(plan, id)

-----------------------------------------------------------------------------
(* What the lock's holder decides, from what it reads now *)

(* POST and PATCH /me/appointments: the offer is computed again and must be the *)
(* one the user confirmed. *)
PlanFor(o) == Plan(o.id, o.terms.service, o.terms.resource, o.terms.start)
AcceptsAnyOffer(o, now) == Offered(NULL, PlanFor(o), now)
AcceptsCreate(o, now) == Offered(NULL, PlanFor(o), now) /\ o.terms = PlanFor(o)

(* A stored no-op writes nothing. *)
AcceptsChange(o, now) ==
  /\ appointments[o.id] # NULL
  /\ o.terms # TermsOf(appointments[o.id])
  /\ Offered(o.id, PlanFor(o), now) /\ o.terms = PlanFor(o)

(* canTransitionAppointment, for an acknowledged action of the business *)
AcceptsState(o, now) ==
  /\ Confirmed(o.id)
  /\ o.to \in {"done", "no_show"} => appointments[o.id].start <= now

AcceptsNotes(o) == Confirmed(o.id) /\ appointments[o.id].notes # o.notes

(* guardClosureAppointments *)
FutureBeyondLead(id, now) == Confirmed(id) /\ appointments[id].start > now + Lead
FutureConfirmed(id, now) == Confirmed(id) /\ appointments[id].start > now
AcceptsClosure(o, now) ==
  \A id \in Ids : FutureConfirmed(id, now) => Span(appointments[id]) \cap o.span = {}

(* saveBusinessCalendar *)
AcceptsSchedule(o, now) ==
  /\ \A r \in Resources : resources[r].status # "deleted" => resources[r].hours \subseteq o.hours
  /\ \A id \in Ids : FutureConfirmed(id, now) => Span(appointments[id]) \subseteq o.hours

(* updateResource: appointments of every state are protected. *)
Future(id, now) == appointments[id] # NULL /\ appointments[id].start > now
AcceptsResource(o, now) ==
  /\ resources[o.resource].status # "deleted"
  /\ o.hours \subseteq schedule
  /\ \A s \in o.serves : services[s].status # "deleted"
  /\ \/ o.hours = resources[o.resource].hours /\ resources[o.resource].serves \subseteq o.serves
     \/ \A id \in Ids :
          Future(id, now) /\ appointments[id].resource = o.resource
            => appointments[id].service \in o.serves /\ Span(appointments[id]) \subseteq o.hours

(* setResourceStatus and setServiceStatus guard nothing; retireCatalogItem *)
(* protects appointments of every state. *)
AcceptsResourceStatus(o, now) ==
  /\ resources[o.resource].status # "deleted"
  /\ o.status = "deleted" => \A id \in Ids : Future(id, now) => appointments[id].resource # o.resource
AcceptsServiceStatus(o, now) ==
  /\ services[o.service].status # "deleted"
  /\ o.status = "deleted" => \A id \in Ids : Future(id, now) => appointments[id].service # o.service

Accepts(o, now) ==
  /\ o.op = "create" => AcceptsCreate(o, now)
  /\ o.op = "change" => AcceptsChange(o, now)
  /\ o.op = "state" => AcceptsState(o, now)
  /\ o.op = "notes" => AcceptsNotes(o)
  /\ o.op = "closure" => AcceptsClosure(o, now)
  /\ o.op = "schedule" => AcceptsSchedule(o, now)
  /\ o.op = "resource" => AcceptsResource(o, now)
  /\ o.op = "resourceStatus" => AcceptsResourceStatus(o, now)
  /\ o.op = "service" => services[o.service].status # "deleted"
  /\ o.op = "serviceStatus" => AcceptsServiceStatus(o, now)

-----------------------------------------------------------------------------
Init ==
  /\ clock = 0
  /\ appointments = [id \in Ids |-> NULL]
  /\ services \in [Services -> [status : {"active"}, duration : Durations]]
  /\ schedule \in Hours
  /\ resources \in [Resources -> [status : {"active"}, hours : {schedule}, serves : {Services}]]
  /\ closures = [c \in Closures |-> {}]
  /\ lock = NULL
  /\ requests = [q \in Requests |-> [stage |-> "new"]]
  /\ agreed = [id \in Ids |-> NULL]

Tick ==
  /\ clock < MaxTime
  /\ clock' = clock + 1
  /\ UNCHANGED <<appointments, catalogVars, lock, requests, agreed>>

(* A user acts on what the panel shows: an offer read under the lock, an *)
(* appointment that exists, the catalog as it is. *)
Sensible(o) ==
  /\ o.op \in {"create", "change"} => lock = NULL /\ Offered(o.id, PlanFor(o), clock) /\ o.terms = PlanFor(o)
  /\ o.op \in {"state", "notes"} => Confirmed(o.id)
  /\ o.op = "closure" => o.span # closures[o.closure]
  /\ o.op = "schedule" => o.hours # schedule
  /\ o.op \in {"resource", "resourceStatus"} => resources[o.resource].status # "deleted"
  /\ o.op = "service" => services[o.service].duration # o.duration
  /\ o.op = "serviceStatus" => services[o.service].status \notin {o.status, "deleted"}

Submit(q) ==
  /\ requests[q].stage = "new"
  /\ \E o \in Operation : Sensible(o) /\ requests' = [requests EXCEPT ![q] = [stage |-> "waiting", operation |-> o]]
  /\ UNCHANGED <<clock, appointments, catalogVars, lock, agreed>>

(* acquireBusinessCalendarLock; the clock is read once it is held. *)
Acquire(q) ==
  /\ lock = NULL
  /\ requests[q].stage = "waiting"
  /\ lock' = q
  /\ requests' = [requests EXCEPT ![q] = [stage |-> "locked", operation |-> @.operation, now |-> clock]]
  /\ UNCHANGED <<clock, appointments, catalogVars, agreed>>

Decide(q) ==
  /\ requests[q].stage = "locked"
  /\ LET o == requests[q].operation IN
     /\ Accepts(o, requests[q].now)
     /\ requests' = [requests EXCEPT ![q] =
                       [stage |-> "decided", operation |-> o, now |-> @.now,
                        plan |-> IF o.op \in {"create", "change"} THEN PlanFor(o) ELSE NULL]]
  /\ UNCHANGED <<clock, appointments, catalogVars, lock, agreed>>

(* The transaction ends and its lock with it. *)
End(q) ==
  /\ requests' = [requests EXCEPT ![q] = [stage |-> "done"]]
  /\ lock' = IF lock = q THEN NULL ELSE lock

(* Refused by a rule, nothing to write, or rolled back by a failure. *)
Abandon(q) ==
  /\ requests[q].stage \in {"waiting", "locked", "decided"}
  /\ End(q)
  /\ UNCHANGED <<clock, appointments, catalogVars, agreed>>

Decided(q, op) == requests[q].stage = "decided" /\ requests[q].operation.op = op

CommitCreate(q) ==
  /\ Decided(q, "create")
  /\ LET plan == requests[q].plan IN
     \E id \in Ids, n \in Notes :
       /\ appointments[id] = NULL
       /\ appointments' = [appointments EXCEPT ![id] =
            [state |-> "confirmed", service |-> plan.service, resource |-> plan.resource,
             start |-> plan.start, duration |-> plan.duration, notes |-> n]]
       /\ agreed' = [agreed EXCEPT ![id] = requests[q].operation.terms]
  /\ End(q)
  /\ UNCHANGED <<clock, catalogVars>>

(* The updates of an appointment write their columns of a row still confirmed. *)
CommitChange(q) ==
  /\ Decided(q, "change")
  /\ LET o == requests[q].operation
         plan == requests[q].plan IN
     /\ Confirmed(o.id)
     /\ appointments' = [appointments EXCEPT ![o.id] =
          [@ EXCEPT !.service = plan.service, !.resource = plan.resource,
                    !.start = plan.start, !.duration = plan.duration]]
     /\ agreed' = [agreed EXCEPT ![o.id] = o.terms]
  /\ End(q)
  /\ UNCHANGED <<clock, catalogVars>>

CommitState(q) ==
  /\ Decided(q, "state")
  /\ LET o == requests[q].operation IN
     Confirmed(o.id) /\ appointments' = [appointments EXCEPT ![o.id].state = o.to]
  /\ End(q)
  /\ UNCHANGED <<clock, catalogVars, agreed>>

CommitNoNotes(q) ==
  /\ Decided(q, "notes")
  /\ LET o == requests[q].operation IN
     Confirmed(o.id) /\ appointments' = [appointments EXCEPT ![o.id].notes = NULL]
  /\ End(q)
  /\ UNCHANGED <<clock, catalogVars, agreed>>

CommitNotes(q) ==
  /\ Decided(q, "notes")
  /\ LET o == requests[q].operation IN
     Confirmed(o.id) /\ appointments' = [appointments EXCEPT ![o.id].notes = o.notes]
  /\ End(q)
  /\ UNCHANGED <<clock, catalogVars, agreed>>

(* create, update and deleteBusinessClosure *)
CommitClosure(q) ==
  /\ Decided(q, "closure")
  /\ closures' = [closures EXCEPT ![requests[q].operation.closure] = requests[q].operation.span]
  /\ End(q)
  /\ UNCHANGED <<clock, appointments, services, resources, schedule, agreed>>

CommitSchedule(q) ==
  /\ Decided(q, "schedule")
  /\ schedule' = requests[q].operation.hours
  /\ End(q)
  /\ UNCHANGED <<clock, appointments, services, resources, closures, agreed>>

CommitResource(q) ==
  /\ Decided(q, "resource")
  /\ LET o == requests[q].operation IN
     resources' = [resources EXCEPT ![o.resource].hours = o.hours, ![o.resource].serves = o.serves]
  /\ End(q)
  /\ UNCHANGED <<clock, appointments, services, schedule, closures, agreed>>

(* A retired row keeps its tombstone and loses its assignments. *)
CommitResourceStatus(q) ==
  /\ Decided(q, "resourceStatus")
  /\ LET o == requests[q].operation IN
     resources' = [resources EXCEPT
       ![o.resource].status = o.status,
       ![o.resource].serves = IF o.status = "deleted" THEN {} ELSE @]
  /\ End(q)
  /\ UNCHANGED <<clock, appointments, services, schedule, closures, agreed>>

CommitService(q) ==
  /\ Decided(q, "service")
  /\ LET o == requests[q].operation IN
     services' = [services EXCEPT ![o.service].duration = o.duration]
  /\ End(q)
  /\ UNCHANGED <<clock, appointments, resources, schedule, closures, agreed>>

CommitServiceStatus(q) ==
  /\ Decided(q, "serviceStatus")
  /\ LET o == requests[q].operation IN
     /\ services' = [services EXCEPT ![o.service].status = o.status]
     /\ resources' = IF o.status = "deleted"
                     THEN [r \in Resources |-> [resources[r] EXCEPT !.serves = @ \ {o.service}]]
                     ELSE resources
  /\ End(q)
  /\ UNCHANGED <<clock, appointments, schedule, closures, agreed>>

Commit(q) ==
  \/ CommitCreate(q) \/ CommitChange(q) \/ CommitState(q) \/ CommitNotes(q)
  \/ CommitClosure(q) \/ CommitSchedule(q) \/ CommitResource(q)
  \/ CommitResourceStatus(q) \/ CommitService(q) \/ CommitServiceStatus(q)

Next ==
  \/ Tick
  \/ \E q \in Requests : Submit(q) \/ Acquire(q) \/ Decide(q) \/ Abandon(q) \/ Commit(q)

Spec == Init /\ [][Next]_vars

-----------------------------------------------------------------------------
(* No resource has two confirmed appointments at once: transactions that both *)
(* found it free do not both book it. *)
NoDoubleBooking ==
  \A i, j \in Ids :
    i # j /\ Confirmed(i) /\ Confirmed(j) /\ appointments[i].resource = appointments[j].resource
      => Span(appointments[i]) \cap Span(appointments[j]) = {}

(* A confirmed appointment that has not started is within the hours of the *)
(* business and of its resource, in no closure, and of a service and a resource *)
(* that still exist and go together: neither an edit of the calendar or the *)
(* catalog nor a booking slips past the other's check. *)
FutureIsHonoured ==
  \A id \in Ids :
    Confirmed(id) /\ appointments[id].start > clock =>
      LET a == appointments[id] IN
      /\ StructurallyAvailable(a)
      /\ resources[a.resource].status # "deleted" /\ services[a.service].status # "deleted"
      /\ a.service \in resources[a.resource].serves

(* An appointment has the start, the service, the resource and the duration that *)
(* the user last confirmed for it, whatever was done to the catalog between the *)
(* offer and the booking or since. *)
SavedAsAgreed == \A id \in Ids : appointments[id] # NULL => TermsOf(appointments[id]) = agreed[id]

(* An appointment that was cancelled or attended never changes again, even by a *)
(* request that found it confirmed before it waited for the lock. *)
FinalIsFrozen ==
  [][\A id \in Ids : (appointments[id] # NULL /\ appointments[id].state # "confirmed") => appointments'[id] = appointments[id]]_vars
=============================================================================
