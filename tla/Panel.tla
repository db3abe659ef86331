------------------------------- MODULE Panel --------------------------------
(***************************************************************************)
(* One panel of the web application (LivePanel and its screens) with its   *)
(* requests in flight, while the session behind the browser's cookie ends  *)
(* or is replaced from another tab.                                        *)
(*                                                                         *)
(* A job is an asynchronous function of the panel: it remembers what it    *)
(* captured when it began and goes on, step by step, when the requests of  *)
(* a step are answered. Requests carry the cookie and the token the tab    *)
(* had when they were sent; they are served and answered in any order.     *)
(*                                                                         *)
(* What a panel shows is in two parts: services and categories, resources  *)
(* and services, businesses and registrations, the weekly schedule and the *)
(* closures, the state of WhatsApp and its QR; profile and agent have one. *)
(* A part is the set of writes it reflects.                                *)
(***************************************************************************)
EXTENDS Naturals

CONSTANTS
  Modes,        \* panels that are opened
  Tenants,      \* businesses; NULL is the business of a platform administrator
  Jobs,         \* bound: places of jobs in flight
  MaxLogins,    \* bound: sessions
  MaxWrites,    \* bound: writes
  MaxLoads,     \* bound: loads of the panel
  MaxLogouts,   \* bound: attempts to log out
  MaxFaults,    \* bound: requests and answers that are lost, sessions that end or are replaced
  NULL

ASSUME PanelAssumption ==
  /\ Modes \subseteq {"admin", "services", "resources", "calendar", "profile", "agent", "whatsapp"}
  /\ NULL \notin Tenants \cup Jobs
  /\ MaxLogins \in Nat \ {0} /\ MaxWrites \in Nat
  /\ MaxLoads \in Nat /\ MaxLogouts \in Nat /\ MaxFaults \in Nat

Sessions == 1..MaxLogins     \* 0 is no session; the token of session s is s
Writes == 1..MaxWrites
Parts == {"main", "side"}

VARIABLES
  mode,
  now,        \* session of the browser's cookie
  tenant,     \* the business of each session
  ended,      \* sessions the server no longer knows: revoked, expired, suspended
  content,    \* what the server holds for each business
  stored,     \* the tab's mutation token
  tab,        \* state of the panel
  jobs,
  faults

server == <<now, tenant, ended, content>>
vars == <<mode, server, stored, tab, jobs, faults>>

Shown == [by : 0..MaxLogins, rows : SUBSET Writes]
Code == {"ok", "401", "403", "404", "409", "fail"}
Answer == [code : Code, by : 0..MaxLogins, rows : SUBSET Writes]
Step == {"session", "verify", "before", "after", "checked", "failed", "write", "read", "link", "status", "qr"}

Tab == [view : {"loading", "ready", "error", "recovery", "denied", "gone"},
        attempt : Nat,              \* loadAttemptRef
        logouts : 0..MaxLogouts,    \* servicesGenerationRef, agentSaveAttemptRef
        leaving : BOOLEAN,          \* logoutPendingRef
        owner : 0..MaxLogins,       \* servicesOwnerRef, adminOwnerRef
        held : [Parts -> Jobs \cup {NULL}],    \* the request a part's buttons wait for
        shown : [Parts -> Shown],
        closures : {"loading", "error", "ready", "pending"},
        conflict : BOOLEAN]         \* agentConflict

Job == [kind : {"load", "closures", "act", "logout"}, part : Parts, work : BOOLEAN,
        step : Step, boot : BOOLEAN, seen : 0..MaxLogins,
        attempt : Nat, logouts : 0..MaxLogouts, owner : 0..MaxLogins, alive : BOOLEAN,
        cookie : 0..MaxLogins, csrf : 0..MaxLogins, from : 0..MaxLogins, base : SUBSET Writes,
        answer : [Parts -> Answer \cup {NULL}], loaded : [Parts -> Answer \cup {NULL}]]

ASSUME NullIsNoRecord == NULL \notin Job \cup Answer

TypeOK ==
  /\ mode \in Modes /\ now \in Sessions /\ ended \subseteq Sessions
  /\ tenant \in [Sessions -> Tenants \cup {NULL}]
  /\ content \in [Tenants \cup {NULL} -> [Parts -> SUBSET Writes]]
  /\ stored \in 0..MaxLogins /\ tab \in Tab /\ jobs \in [Jobs -> Job \cup {NULL}]
  /\ faults \in 0..MaxFaults

-----------------------------------------------------------------------------
(* Requests *)

None == [p \in Parts |-> NULL]
Nothing == [by |-> 0, rows |-> {}]
Blank == [p \in Parts |-> Nothing]

Mutates(step) == step \in {"write", "link"}

Sent(j, step, token) ==
  [j EXCEPT !.step = step, !.boot = FALSE, !.answer = None, !.loaded = None, !.cookie = now,
            !.csrf = IF Mutates(step) THEN token ELSE 0]

Begun(t, kind, part, work, step, token) ==
  Sent([kind |-> kind, part |-> part, work |-> work, step |-> step, boot |-> FALSE, seen |-> 0,
        attempt |-> t.attempt, logouts |-> t.logouts, owner |-> t.owner, alive |-> TRUE,
        cookie |-> now, csrf |-> token, answer |-> None, loaded |-> None, from |-> t.shown[part].by,
        base |-> IF mode = "agent" THEN t.shown[part].rows ELSE {}],
       step, token)

(* the parts a step reads *)
Reads(j) ==
  IF \/ mode = "admin"
     \/ mode = "services" /\ (j.kind = "load" \/ ~j.work \/ j.part = "side")
     \/ mode = "resources" /\ j.kind = "load"
  THEN Parts ELSE {j.part}
Asks(j) == IF j.step = "read" THEN Reads(j) ELSE {"main"}

AsksSession(j) == j.step \in {"session", "verify", "before", "after", "checked", "failed"}
RoleFits(s) == (mode = "admin") = (tenant[s] = NULL)

(* session: the cookie names a session the server knows. *)
Known(j) == j.cookie \notin ended

(* Mutant: any token this browser was given will do. *)
AdmitsAnyToken(j) == j.csrf # 0

(* mutation: the token is the one of the session the request comes with. *)
Admits(j) == j.csrf = j.cookie

(* requireTenant and requireAdmin: each role has its routes, all have the session's. *)
Misplaced(j) == ~AsksSession(j) /\ j.kind # "logout" /\ ~RoleFits(j.cookie)

Refusal(j) ==
  IF ~Known(j) THEN "401"
  ELSE IF Mutates(j.step) /\ ~Admits(j) THEN "403"
  ELSE IF Misplaced(j) THEN IF mode = "admin" THEN "404" ELSE "403"
  ELSE IF /\ mode = "agent" /\ j.kind = "act"       \* expectedRevision
          /\ j.base # content[tenant[j.cookie]]["main"] THEN "409"
  ELSE "ok"

-----------------------------------------------------------------------------
(* What the routes answer, once the request is carried out: all that the part *)
(* holds, or the record that was written.                                     *)

All(j, p) == content'[tenant[j.cookie]][p]
Record(j) == All(j, j.part) \ content[tenant[j.cookie]][j.part]
ListOrRecord(j, p) == IF j.step = "write" THEN Record(j) ELSE All(j, p)

ServiceRoutes(j, p) == ListOrRecord(j, p)
ResourceRoutes(j, p) == ListOrRecord(j, p)
AdministrationRoutes(j, p) == ListOrRecord(j, p)
ClosureRoutes(j) == ListOrRecord(j, "side")
CalendarRoutes(j) == All(j, "main")
ProfileRoutes(j) == All(j, "main")
AgentRoutes(j) == All(j, "main")
WhatsAppRoutes(j) == All(j, IF j.step = "status" \/ j.step = "read" THEN "main" ELSE "side")

Told(j, p) ==
  IF AsksSession(j) \/ j.kind = "logout" THEN {}
  ELSE CASE mode = "services" -> ServiceRoutes(j, p)
         [] mode = "resources" -> ResourceRoutes(j, p)
         [] mode = "admin" -> AdministrationRoutes(j, p)
         [] mode = "calendar" /\ j.part = "side" -> ClosureRoutes(j)
         [] mode = "calendar" /\ j.part = "main" -> CalendarRoutes(j)
         [] mode = "profile" -> ProfileRoutes(j)
         [] mode = "agent" -> AgentRoutes(j)
         [] mode = "whatsapp" -> WhatsAppRoutes(j)

Answers(k, p, code) ==
  LET j == jobs[k] IN
  jobs' = [jobs EXCEPT ![k].answer[p] =
    IF code # "ok" THEN [code |-> code, by |-> 0, rows |-> {}]
    ELSE [code |-> code, by |-> j.cookie, rows |-> Told(j, p)]]

Writes1(t, p) ==
  \E w \in Writes :
    /\ \A u \in DOMAIN content, q \in Parts : w \notin content[u][q]
    /\ \A v \in 1..(w - 1) : \E u \in DOMAIN content, q \in Parts : v \in content[u][q]
    /\ content' = [content EXCEPT ![t][p] = @ \cup {w}]

Fault == faults < MaxFaults /\ faults' = faults + 1
Lost(k, p) == Fault /\ Answers(k, p, "fail")
Comes(k, p, code) == UNCHANGED faults /\ Answers(k, p, code)

Waits(k, p) == jobs[k] # NULL /\ p \in Asks(jobs[k]) /\ jobs[k].answer[p] = NULL

(* The server answers what it refuses and what changes nothing. *)
Serve(k, p) ==
  LET code == Refusal(jobs[k]) IN
  /\ Waits(k, p) /\ (code # "ok" \/ jobs[k].step # "write")
  /\ UNCHANGED <<mode, server, stored, tab>> /\ Comes(k, p, code)

(* A request, or the answer to one that changes nothing, is lost. *)
NeverServed(k, p) == Waits(k, p) /\ Lost(k, p) /\ UNCHANGED <<mode, server, stored, tab>>

ServeLogout(k) ==
  LET j == jobs[k] IN
  /\ Waits(k, "main") /\ j.kind = "logout" /\ Refusal(j) = "ok"
  /\ ended' = ended \cup {j.cookie}
  /\ Comes(k, "main", "ok") \/ Lost(k, "main")
  /\ UNCHANGED <<mode, now, tenant, content, stored, tab>>

ServeWrite(k) ==
  LET j == jobs[k] IN
  /\ Waits(k, "main") /\ j.kind = "act" /\ j.step = "write" /\ Refusal(j) = "ok"
  /\ Writes1(tenant[j.cookie], j.part)
  /\ Comes(k, "main", "ok") \/ Lost(k, "main")
  /\ UNCHANGED <<mode, now, tenant, ended, stored, tab>>

-----------------------------------------------------------------------------
(* Other tabs, other panels and the clock *)

OtherLogin ==
  /\ Fault /\ now < MaxLogins /\ now' = now + 1
  /\ UNCHANGED <<mode, tenant, ended, content, stored, tab, jobs>>

SessionEnds ==
  /\ Fault /\ now \notin ended /\ ended' = ended \cup {now}
  /\ UNCHANGED <<mode, now, tenant, content, stored, tab, jobs>>

OtherWrite ==
  /\ \E p \in Parts : (mode \in {"profile", "agent"} => p = "main") /\ Writes1(tenant[now], p)
  /\ UNCHANGED <<mode, now, tenant, ended, stored, tab, jobs, faults>>

(* startSessionActivity: its answer matters when it is a 401. *)
Activity ==
  /\ tab.view = "ready" /\ ~tab.leaving /\ now \in ended
  /\ stored' = 0
  /\ UNCHANGED <<mode, server, tab, jobs, faults>>

-----------------------------------------------------------------------------
(* Steps of a job *)

Slot(j) == IF mode = "calendar" /\ j.part = "side" THEN "side" ELSE "main"

(* Mutant: a closures request does not ask whether it was given up. *)
CurrentUnlessLeft(k) ==
  LET j == jobs[k] IN j.attempt = tab.attempt /\ ~tab.leaving

(* The panel still waits for what this job brings. *)
Current(k) ==
  LET j == jobs[k] IN
  IF j.kind = "load" THEN j.alive /\ j.attempt = tab.attempt /\ ~tab.leaving
  ELSE IF Slot(j) = "side"
  THEN tab.held["side"] = k /\ j.alive /\ j.attempt = tab.attempt /\ ~tab.leaving
  ELSE CASE mode = "services" -> /\ j.alive /\ ~tab.leaving /\ j.attempt = tab.attempt
                                 /\ j.logouts = tab.logouts /\ j.owner = tab.owner
         [] mode = "admin" -> j.alive /\ j.attempt = tab.attempt /\ ~tab.leaving
         [] mode = "agent" -> j.logouts = tab.logouts /\ j.attempt = tab.attempt /\ ~tab.leaving
         [] mode = "calendar" -> tab.held["main"] = k /\ j.alive /\ j.attempt = tab.attempt
         [] mode = "resources" -> j.alive /\ j.attempt = tab.attempt
         [] OTHER -> j.alive

Ok(a) == a.code = "ok"
Denied(a) == a.code \in {"401", "403"}
Seen(j) == IF j.boot THEN j.seen ELSE j.answer["main"].by
Same(j) == Ok(j.answer["main"]) /\ Seen(j) = j.owner

(* A 401 takes the token away and the bootstrap brings one. *)
Token(j) ==
  IF \E p \in Asks(j) : j.answer[p].code = "401" THEN 0
  ELSE IF j.kind = "logout" /\ Ok(j.answer["main"]) THEN 0
  ELSE IF j.boot /\ Ok(j.answer["main"]) THEN j.answer["main"].by ELSE stored

Bootstraps(j) == AsksSession(j) /\ ~j.boot /\ Ok(j.answer["main"]) /\ stored = 0

Answered(k) == jobs[k] # NULL /\ \A p \in Asks(jobs[k]) : jobs[k].answer[p] # NULL

(* What every job does when its step is answered: see Continue. *)
Resumes(k, kinds) ==
  /\ jobs[k].kind \in kinds /\ stored' = Token(jobs[k])
  /\ UNCHANGED <<mode, server, faults>>

Goes(k, t, step) == tab' = t /\ jobs' = [jobs EXCEPT ![k] = Sent(@, step, stored')]
GoesWith(k, t, step) ==
  tab' = t /\ jobs' = [jobs EXCEPT ![k] = [Sent(@, step, stored') EXCEPT !.loaded = jobs[k].answer]]
Ends(k, t) == tab' = t /\ jobs' = [jobs EXCEPT ![k] = NULL]

(* session: without a token, one is asked for. *)
Bootstrap(k) ==
  /\ Resumes(k, {"load", "act"}) /\ Bootstraps(jobs[k])
  /\ tab' = tab
  /\ jobs' = [jobs EXCEPT ![k] = [@ EXCEPT !.boot = TRUE, !.seen = Seen(jobs[k]),
                                      !.answer = None, !.cookie = now]]

(* what is shown once the answers a have come *)
Showing(t, a) ==
  [t EXCEPT !.shown = [p \in Parts |-> IF a[p] # NULL /\ Ok(a[p])
                                        THEN [by |-> a[p].by, rows |-> a[p].rows] ELSE @[p]]]

-----------------------------------------------------------------------------
(* load *)

Given(js, given) == [k \in Jobs |-> IF js[k] # NULL /\ given[k] THEN [js[k] EXCEPT !.alive = FALSE] ELSE js[k]]

Load(k) ==
  LET t == [tab EXCEPT !.attempt = @ + 1, !.view = "loading", !.owner = 0, !.shown = Blank,
                       !.closures = "loading", !.conflict = FALSE,
                       !.held = [p \in Parts |-> IF p = "side" \/ mode \in {"admin", "agent"} THEN NULL ELSE @[p]]]
      aborted == [l \in Jobs |-> jobs[l] # NULL /\ (mode = "admin" \/ jobs[l].part = "side")]
  IN /\ tab.attempt < MaxLoads /\ jobs[k] = NULL
     /\ tab' = t
     /\ jobs' = [Given(jobs, aborted) EXCEPT ![k] = Begun(t, "load", "main", FALSE, "session", stored)]
     /\ UNCHANGED <<mode, server, stored, faults>>

Retry(k) == tab.view = "error" /\ Load(k)

(* The agent's panel offers to load again after a conflict. *)
Reload(k) == tab.view = "ready" /\ tab.conflict /\ Load(k)

Fails(k, view) == Ends(k, [tab EXCEPT !.view = view])

LoadSession(k) ==
  LET j == jobs[k]  a == j.answer["main"]  t == tab IN
  /\ j.step = "session" /\ Resumes(k, {"load"}) /\ ~Bootstraps(j)
  /\ \/ ~Current(k) /\ Ends(k, tab)
     \/ Current(k) /\ a.code = "401" /\ Fails(k, "recovery")
     \/ Current(k) /\ a.code \notin {"401", "ok"} /\ Fails(k, "error")
     \/ Current(k) /\ Ok(a) /\ ~RoleFits(Seen(j)) /\ Fails(k, "denied")
     \/ /\ Current(k) /\ Ok(a) /\ RoleFits(Seen(j))
        /\ LET reading == [jobs EXCEPT ![k] = Sent([@ EXCEPT !.owner = Seen(j)], "read", stored')] IN
           IF mode # "calendar" THEN tab' = tab /\ jobs' = reading
           ELSE \E l \in Jobs :
             /\ jobs[l] = NULL
             /\ tab' = [tab EXCEPT !.held["side"] = l]
             /\ jobs' = [reading EXCEPT ![l] = Begun(tab, "closures", "side", FALSE, "read", stored')]

Presents(k, a) ==
  LET j == jobs[k]
      t == [Showing(tab, a) EXCEPT !.view = "ready",
                                   !.owner = IF mode \in {"admin", "services"} THEN j.owner ELSE 0]
  IN IF mode = "whatsapp" THEN Goes(k, t, "qr") ELSE Ends(k, t)

(* Mutant: services are shown without asking again whose session it is. *)
VerifiesAdmin(a) == mode = "admin" /\ Denied(a["side"])

(* Services ask again whose session it is; so does a panel of the *)
(* administrator who is refused the registrations.                *)
Verifies(a) == mode = "services" \/ (mode = "admin" /\ Denied(a["side"]))

LoadRead(k) ==
  LET j == jobs[k]  a == j.answer
      failed == \E p \in Reads(j) : ~Ok(a[p]) /\ ~(mode = "admin" /\ p = "side")
  IN /\ j.step = "read" /\ Resumes(k, {"load"})
     /\ \/ ~Current(k) /\ Ends(k, tab)
        \/ Current(k) /\ failed /\ Fails(k, "error")
        \/ Current(k) /\ ~failed /\ Verifies(a) /\ GoesWith(k, tab, "verify")
        \/ Current(k) /\ ~failed /\ ~Verifies(a) /\ Presents(k, a)

LoadVerify(k) ==
  LET j == jobs[k] IN
  /\ j.step = "verify" /\ Resumes(k, {"load"}) /\ ~Bootstraps(j)
  /\ \/ ~Current(k) /\ Ends(k, tab)
     \/ Current(k) /\ ~Same(j) /\ Fails(k, "error")
     \/ Current(k) /\ Same(j) /\ Presents(k, j.loaded)

LoadQr(k) ==
  LET a == jobs[k].answer["main"] IN
  /\ jobs[k].step = "qr" /\ Resumes(k, {"load"})
  /\ Ends(k, IF Current(k) /\ Ok(a) THEN Showing(tab, [None EXCEPT !["side"] = a]) ELSE tab)

-----------------------------------------------------------------------------
(* Work on what is shown *)

(* The panel is not this session's any more. *)
Loses(k) ==
  Ends(k, [tab EXCEPT !.view = "error", !.owner = 0, !.shown = Blank, !.held["main"] = NULL])

(* The buttons of a part wait for its request; those of the administrator and *)
(* of the closures also for the action that started it, which may outlive it. *)
Working(s) ==
  \E k \in Jobs : jobs[k] # NULL /\ jobs[k].kind = "act" /\ jobs[k].work /\ Slot(jobs[k]) = s

Submits(k, p, work, step) ==
  LET s == IF mode = "calendar" THEN p ELSE "main" IN
  /\ tab.view = "ready" /\ tab.held[s] = NULL /\ jobs[k] = NULL
  /\ tab' = [tab EXCEPT !.held[s] = k, !.conflict = FALSE,
                        !.closures = IF s = "side" THEN "pending" ELSE @,
                        !.shown["side"] = IF step = "link" THEN Nothing ELSE @]
  /\ jobs' = [jobs EXCEPT ![k] = Begun(tab, "act", p, work, step, stored)]
  /\ UNCHANGED <<mode, server, stored, faults>>

(* A write, or the reading that is offered after one that could not be read back *)
WritesOrReads(k, p) == Submits(k, p, TRUE, "write") \/ (p = "main" /\ Submits(k, p, FALSE, "read"))

SubmitAdmin(k) ==
  mode = "admin" /\ ~tab.leaving /\ ~Working("main") /\ \E p \in Parts : WritesOrReads(k, p)
SubmitServices(k) ==
  /\ mode = "services" /\ ~tab.leaving
  /\ Submits(k, "main", FALSE, "before") \/ \E p \in Parts : Submits(k, p, TRUE, "before")
SubmitResources(k) == mode = "resources" /\ WritesOrReads(k, "main")
SubmitCalendar(k) == mode = "calendar" /\ WritesOrReads(k, "main")
SubmitClosure(k) ==
  /\ mode = "calendar" /\ ~tab.leaving /\ tab.closures = "ready" /\ ~Working("side")
  /\ Submits(k, "side", TRUE, "write")
SubmitProfile(k) == mode = "profile" /\ Submits(k, "main", TRUE, "write")
SubmitAgent(k) == mode = "agent" /\ ~tab.leaving /\ Submits(k, "main", TRUE, "write")
StartLink(k) == mode = "whatsapp" /\ Submits(k, "main", TRUE, "link")

Submit(k) ==
  \/ SubmitAdmin(k) \/ SubmitServices(k) \/ SubmitResources(k) \/ SubmitCalendar(k)
  \/ SubmitClosure(k) \/ SubmitProfile(k) \/ SubmitAgent(k) \/ StartLink(k)

(* loadClosures, by hand *)
RetryClosures(k) ==
  /\ mode = "calendar" /\ tab.view = "ready" /\ ~tab.leaving /\ jobs[k] = NULL
  /\ tab.closures \in {"error", "ready"} /\ tab.held["side"] = NULL /\ ~Working("side")
  /\ tab' = [tab EXCEPT !.held["side"] = k, !.closures = IF @ = "ready" THEN "pending" ELSE "loading"]
  /\ jobs' = [jobs EXCEPT ![k] = Begun(tab, "closures", "side", FALSE, "read", stored)]
  /\ UNCHANGED <<mode, server, stored, faults>>

(* A job that ends lets go of what waits for it. *)
LetsGo(t, k) ==
  LET j == jobs[k]  s == Slot(j)
      own == IF s = "side" \/ mode \in {"services", "resources", "whatsapp"} THEN t.held[s] = k ELSE Current(k)
  IN [t EXCEPT !.held[s] = IF own THEN NULL ELSE @,
               !.closures = IF s = "side" /\ own /\ @ = "pending" THEN "ready" ELSE @]
Done(k, t) == Ends(k, LetsGo(t, k))

ClosuresRead(k) ==
  LET a == jobs[k].answer["side"] IN
  /\ Resumes(k, {"closures"})
  /\ \/ ~Current(k) /\ Done(k, tab)
     \/ /\ Current(k) /\ Ok(a)
        /\ Done(k, [Showing(tab, [None EXCEPT !["side"] = a]) EXCEPT !.closures = "ready"])
     \/ /\ Current(k) /\ ~Ok(a)
        /\ Done(k, [tab EXCEPT !.closures = IF @ = "loading" THEN "error" ELSE @])

(* the panels whose write is answered with the whole part *)
Whole(j) == mode \in {"profile", "agent"} \/ (mode = "calendar" /\ j.part = "main")

(* A write that was confirmed is shown before anything is read again. *)
Merged(j, a) ==
  [tab EXCEPT !.shown[j.part] = [by |-> IF Whole(j) THEN a.by ELSE @.by,
                                 rows |-> IF Whole(j) THEN a.rows ELSE @.rows \cup a.rows]]

WriteAnswered(k) == jobs[k].step = "write" /\ Resumes(k, {"act"})
Confirmed(k) == Ok(jobs[k].answer["main"]) /\ Current(k)

ServicesWritten(k) ==
  LET a == jobs[k].answer["main"] IN
  /\ mode = "services" /\ WriteAnswered(k)
  /\ \/ Confirmed(k) /\ GoesWith(k, tab, "after")
     \/ Denied(a) /\ Current(k) /\ Loses(k)
     \/ ~Confirmed(k) /\ ~(Denied(a) /\ Current(k)) /\ Done(k, tab)

(* The other lists are read again after a confirmed write; an error ends the action. *)
ReadsBack(k) ==
  /\ WriteAnswered(k)
  /\ \/ Confirmed(k) /\ Goes(k, Merged(jobs[k], jobs[k].answer["main"]), "read")
     \/ ~Confirmed(k) /\ Done(k, tab)

AdminWritten(k) == mode = "admin" /\ ReadsBack(k)
ResourceWritten(k) == mode = "resources" /\ ReadsBack(k)
CalendarWritten(k) == mode = "calendar" /\ jobs[k].part = "main" /\ ReadsBack(k)
ClosureWritten(k) == mode = "calendar" /\ jobs[k].part = "side" /\ ReadsBack(k)

ProfileSaved(k) ==
  /\ mode = "profile" /\ WriteAnswered(k)
  /\ Done(k, IF Confirmed(k) THEN Merged(jobs[k], jobs[k].answer["main"]) ELSE tab)

AgentSaved(k) ==
  /\ mode = "agent" /\ WriteAnswered(k)
  /\ \/ Confirmed(k) /\ Done(k, Merged(jobs[k], jobs[k].answer["main"]))
     \/ /\ ~Confirmed(k) /\ Current(k)
        /\ Done(k, [tab EXCEPT !.conflict = jobs[k].answer["main"].code = "409"])
     \/ ~Current(k) /\ Done(k, tab)

(* What was read again *)
ReadAgain(k) == jobs[k].step = "read" /\ Resumes(k, {"act"})

ServicesRefreshed(k) ==
  LET a == jobs[k].answer
      bad == \E p \in Reads(jobs[k]) : ~Ok(a[p])
      denied == \E p \in Reads(jobs[k]) : Denied(a[p])
  IN /\ mode = "services" /\ ReadAgain(k)
     /\ \/ ~Current(k) /\ Done(k, tab)
        \/ Current(k) /\ denied /\ Loses(k)
        \/ Current(k) /\ ~denied /\ GoesWith(k, tab, IF bad THEN "failed" ELSE "checked")

AdminRefreshed(k) ==
  LET denied == Denied(jobs[k].answer["side"]) IN
  /\ mode = "admin" /\ ReadAgain(k)
  /\ \/ ~Current(k) /\ Done(k, tab)
     \/ Current(k) /\ denied /\ GoesWith(k, tab, "verify")
     \/ Current(k) /\ ~denied /\ Done(k, Showing(tab, jobs[k].answer))

ListRefreshed(k) ==
  /\ mode \in {"resources", "calendar"} /\ ReadAgain(k)
  /\ Done(k, IF Current(k) THEN Showing(tab, jobs[k].answer) ELSE tab)

SessionAnswered(k, steps) ==
  jobs[k].step \in steps /\ Resumes(k, {"act"}) /\ ~Bootstraps(jobs[k])

(* verifyOwner: before a write, after it, and after what it reads back *)
OwnerAnswered(k) ==
  LET j == jobs[k] IN
  /\ SessionAnswered(k, {"before", "after", "checked", "failed"})
  /\ \/ ~Current(k) /\ Done(k, tab)
     \/ Current(k) /\ ~Same(j) /\ Loses(k)
     \/ /\ Current(k) /\ Same(j)
        /\ CASE j.step = "before" -> Goes(k, tab, IF j.work THEN "write" ELSE "read")
             [] j.step = "after" -> Goes(k, Merged(j, j.loaded["main"]), "read")
             [] j.step = "checked" -> Done(k, Showing(tab, j.loaded))
             [] j.step = "failed" -> Done(k, tab)

AdminVerified(k) ==
  /\ SessionAnswered(k, {"verify"})
  /\ \/ ~Current(k) /\ Done(k, tab)
     \/ Current(k) /\ ~Same(jobs[k]) /\ Loses(k)
     \/ Current(k) /\ Same(jobs[k]) /\ Done(k, Showing(tab, jobs[k].loaded))

Qr(a) == IF Ok(a) THEN Showing(tab, [None EXCEPT !["side"] = a]) ELSE tab
NoQr == [tab EXCEPT !.shown["side"] = Nothing]

(* startWhatsAppLink: the QR came, or did not. *)
LinkAnswered(k) ==
  LET j == jobs[k]  a == j.answer["main"] IN
  /\ j.step = "link" /\ Resumes(k, {"act"})
  /\ \/ ~j.alive /\ Done(k, tab)
     \/ j.alive /\ Ok(a) /\ Goes(k, Qr(a), "status")
     \/ j.alive /\ ~Ok(a) /\ Done(k, NoQr)

(* runWhatsAppLinkMonitor: the state and the QR in turns, until the phone is linked *)
Monitored(k) ==
  LET j == jobs[k]  a == j.answer["main"] IN
  /\ j.step \in {"status", "qr"} /\ Resumes(k, {"act"})
  /\ \/ ~j.alive /\ Done(k, tab)
     \/ j.alive /\ j.step = "status" /\ Ok(a) /\ Goes(k, Showing(tab, j.answer), "qr")
     \/ j.alive /\ j.step = "status" /\ Ok(a) /\ Done(k, Showing(NoQr, j.answer))   \* connected
     \/ j.alive /\ j.step = "qr" /\ ~Denied(a) /\ Goes(k, Qr(a), "status")
     \/ j.alive /\ ~Ok(a) /\ Done(k, NoQr)

(* The QR's five minutes are over. *)
LinkExpires(k) ==
  /\ jobs[k] # NULL /\ jobs[k].kind = "act" /\ jobs[k].step \in {"status", "qr"}
  /\ mode = "whatsapp" /\ jobs[k].alive
  /\ jobs' = [jobs EXCEPT ![k].alive = FALSE]
  /\ tab' = [tab EXCEPT !.shown["side"] = Nothing]
  /\ UNCHANGED <<mode, server, stored, faults>>

-----------------------------------------------------------------------------
(* logout, and leaving the page *)

Logout(k) ==
  LET t == [tab EXCEPT !.leaving = TRUE, !.logouts = @ + 1,
                       !.owner = IF mode = "admin" THEN 0 ELSE @,
                       !.held = [p \in Parts |-> IF p = "side" \/ mode \in {"admin", "agent"} THEN NULL ELSE @[p]]]
      aborted == [l \in Jobs |-> mode = "admin" \/ l = tab.held["side"]]
  IN /\ tab.view = "ready" /\ ~tab.leaving /\ tab.logouts < MaxLogouts /\ jobs[k] = NULL
     /\ tab' = t
     /\ jobs' = [Given(jobs, aborted) EXCEPT
                   ![k] = Begun(t, "logout", IF tab.held["side"] = NULL THEN "main" ELSE "side", TRUE, "write", stored)]
     /\ UNCHANGED <<mode, server, stored, faults>>

(* Mutant: what the logout interrupted is forgotten. *)
ForgetsInterrupted(j) == tab.closures

(* Closures whose request the logout interrupted may be asked for again. *)
Restored(j) ==
  IF j.part = "side" /\ j.attempt = tab.attempt /\ tab.held["side"] = NULL
  THEN CASE tab.closures = "pending" -> "ready"
         [] tab.closures = "loading" -> "error"
         [] OTHER -> tab.closures
  ELSE tab.closures

Left == [tab EXCEPT !.view = "gone", !.owner = 0, !.shown = Blank, !.conflict = FALSE,
                     !.held = None, !.closures = "loading"]
Gone == tab' = Left /\ jobs' = [k \in Jobs |-> NULL]

LoggedOut(k) ==
  LET j == jobs[k] IN
  /\ Resumes(k, {"logout"})
  /\ \/ Ok(j.answer["main"]) /\ Gone
     \/ /\ ~Ok(j.answer["main"])
        /\ Ends(k, [tab EXCEPT !.leaving = FALSE, !.closures = Restored(j)])

Leave == tab.view # "gone" /\ Gone /\ UNCHANGED <<mode, server, stored, faults>>

Continue(k) ==
  /\ Answered(k)
  /\ \/ Bootstrap(k) \/ LoadSession(k) \/ LoadRead(k) \/ LoadVerify(k) \/ LoadQr(k)
     \/ ServicesWritten(k) \/ AdminWritten(k) \/ ResourceWritten(k) \/ CalendarWritten(k)
     \/ ClosureWritten(k) \/ ProfileSaved(k) \/ AgentSaved(k)
     \/ ServicesRefreshed(k) \/ AdminRefreshed(k) \/ ListRefreshed(k) \/ ClosuresRead(k)
     \/ OwnerAnswered(k) \/ AdminVerified(k) \/ LoggedOut(k)
     \/ LinkAnswered(k) \/ Monitored(k)

(* The panel is opened in a tab that logged in, or in a new one. *)
Init ==
  /\ mode \in Modes /\ now = 1 /\ ended = {}
  /\ tenant \in [Sessions -> Tenants \cup {NULL}]
  /\ content = [t \in Tenants \cup {NULL} |-> [p \in Parts |-> {}]]
  /\ stored \in {0, 1} /\ faults = 0
  /\ tab = [view |-> "loading", attempt |-> 1, logouts |-> 0, leaving |-> FALSE, owner |-> 0,
            held |-> None, shown |-> Blank, closures |-> "loading", conflict |-> FALSE]
  /\ \E first \in Jobs : jobs = [k \in Jobs |->
       IF k = first THEN Begun(tab, "load", "main", FALSE, "session", stored) ELSE NULL]

Next ==
  \/ OtherLogin \/ SessionEnds \/ OtherWrite \/ Activity \/ Leave
  \/ \E k \in Jobs :
       \/ (\E p \in Parts : Serve(k, p) \/ NeverServed(k, p)) \/ ServeLogout(k) \/ ServeWrite(k)
       \/ Continue(k) \/ LinkExpires(k) \/ Retry(k) \/ Reload(k) \/ RetryClosures(k)
       \/ Submit(k) \/ Logout(k)

Spec == Init /\ [][Next]_vars

-----------------------------------------------------------------------------
(* Properties *)

(* Services and categories are shown together only if both were read in the *)
(* session that owns the panel, whoever logs in meanwhile.                   *)
ServicesOfOwner ==
  mode = "services" /\ tab.view = "ready" => \A p \in Parts : tab.shown[p].by = tab.owner

(* A change made from the data of one session is never carried out in another *)
(* one: the token goes with the data, not with the cookie. Left out: the       *)
(* administrator's, and a change of the services whose check of the session    *)
(* had to ask for a token, which may be another session's by then.             *)
WritesWhereRead ==
  \A k \in Jobs :
    LET j == jobs[k] IN
    j # NULL /\ mode # "admin" =>
      (j.kind = "act" /\ j.step = "write" /\ j.seen = 0 /\ Refusal(j) = "ok" => j.from = j.cookie)

(* Answers that come late never take away what the panel already showed of a *)
(* business: not a confirmed write, nor anything read before.                 *)
NothingDisappears ==
  [][\A p \in Parts :
       /\ tab.view = "ready" /\ tab'.view = "ready" /\ tab'.attempt = tab.attempt
       /\ ~(mode = "whatsapp" /\ p = "side")
       /\ tab.shown[p].by # 0 /\ tab'.shown[p].by = tab.shown[p].by
       => tab.shown[p].rows \subseteq tab'.shown[p].rows]_vars

(* Nobody waits in vain. A part that holds back its buttons waits for a job *)
(* that is running and will let go of them, unless the panel is leaving, and *)
(* a panel that says it is loading is being loaded. The agent's panel is left *)
(* out of the last: see Reload.                                              *)
Awaited(p) == tab.held[p] # NULL /\ jobs[tab.held[p]] # NULL
NobodyWaitsInVain ==
  tab.view \in {"loading", "ready"} =>
    /\ \A p \in Parts : tab.held[p] # NULL => Awaited(p)
    /\ mode = "calendar" /\ tab.view = "ready" /\ tab.closures \in {"loading", "pending"} =>
         tab.leaving \/ Awaited("side")
    /\ tab.view = "loading" /\ mode # "agent" =>
         \E k \in Jobs : jobs[k] # NULL /\ jobs[k].kind = "load" /\ jobs[k].attempt = tab.attempt
=============================================================================
