---------------------------- MODULE PanelProofs -----------------------------
(***************************************************************************)
(* Proofs about Panel, for any number of sessions, requests in flight,     *)
(* loads, writes and faults.                                               *)
(*                                                                         *)
(* First what a step can be, once for all proofs: the actions of Panel are *)
(* taken apart into what they do to the panel and to each of its jobs      *)
(* (StepCases). Then four invariants, each of named parts that are         *)
(* preserved by lemmas of their own: of types, of whose data and token are *)
(* used (SessionInv), of what is waited for (WaitInv), and of what stays   *)
(* shown (ShownInv).                                                       *)
(***************************************************************************)
EXTENDS Panel, TLAPS

-----------------------------------------------------------------------------
(* Records.  A request keeps what its job remembers, and a job that begins *)
(* remembers the panel.                                                    *)

LEMMA SentFields ==
  ASSUME NEW j \in Job, NEW step, NEW token
  PROVE  LET s == Sent(j, step, token) IN
         /\ s.kind = j.kind /\ s.part = j.part /\ s.seen = j.seen
         /\ s.attempt = j.attempt /\ s.logouts = j.logouts /\ s.owner = j.owner
         /\ s.alive = j.alive /\ s.from = j.from
         /\ s.step = step /\ ~s.boot /\ s.cookie = now
         /\ s.csrf = IF Mutates(step) THEN token ELSE 0
         /\ s.answer = None /\ s.loaded = None
  BY DEF Sent, Job

LEMMA SentTyped ==
  ASSUME NEW j \in Job, NEW step \in Step, NEW token \in 0..MaxLogins, now \in Sessions
  PROVE  Sent(j, step, token) \in Job /\ Sent(j, step, token) # NULL
<1>1. now \in 0..MaxLogins  BY PanelAssumption DEF Sessions
<1>2. (IF Mutates(step) THEN token ELSE 0) \in 0..MaxLogins  BY PanelAssumption
<1>3. None \in [Parts -> Answer \cup {NULL}]  BY DEF None
<1>4. Sent(j, step, token) \in Job  BY <1>1, <1>2, <1>3 DEF Sent, Job
<1>5. QED  BY <1>4, NullIsNoRecord

IsBegun(b, t, kind, part, step, token) ==
  /\ b \in Job /\ b # NULL
  /\ b.kind = kind /\ b.part = part /\ b.step = step /\ b.seen = 0
  /\ b.attempt = t.attempt /\ b.logouts = t.logouts /\ b.owner = t.owner /\ b.alive
  /\ ~b.boot /\ b.from = t.shown[part].by /\ b.cookie = now
  /\ b.csrf = IF Mutates(step) THEN token ELSE 0
  /\ b.answer = None /\ b.loaded = None

LEMMA BegunFields ==
  ASSUME NEW t \in Tab, NEW kind \in {"load", "closures", "act", "logout"}, NEW part \in Parts,
         NEW work \in BOOLEAN, NEW step \in Step, NEW token \in 0..MaxLogins,
         now \in Sessions
  PROVE  IsBegun(Begun(t, kind, part, work, step, token), t, kind, part, step, token)
<1> DEFINE r == [kind |-> kind, part |-> part, work |-> work, step |-> step, boot |-> FALSE, seen |-> 0,
        attempt |-> t.attempt, logouts |-> t.logouts, owner |-> t.owner, alive |-> TRUE,
        cookie |-> now, csrf |-> token, answer |-> None, loaded |-> None, from |-> t.shown[part].by,
        base |-> IF mode = "agent" THEN t.shown[part].rows ELSE {}]
<1>1. Begun(t, kind, part, work, step, token) = Sent(r, step, token)  BY DEF Begun
<1>2. /\ t.attempt \in Nat /\ t.logouts \in 0..MaxLogouts /\ t.owner \in 0..MaxLogins
      /\ t.shown[part] \in Shown
  BY DEF Tab
<1>3. t.shown[part].by \in 0..MaxLogins /\ t.shown[part].rows \in SUBSET Writes  BY <1>2 DEF Shown
<1>4. now \in 0..MaxLogins /\ 0 \in 0..MaxLogins  BY PanelAssumption DEF Sessions
<1>5. None \in [Parts -> Answer \cup {NULL}]  BY DEF None
<1>6. (IF mode = "agent" THEN t.shown[part].rows ELSE {}) \in SUBSET Writes  BY <1>3
<1>7. r \in Job
  BY <1>2, <1>3, <1>4, <1>5, <1>6, Zenon DEF Job
<1>8. /\ r.kind = kind /\ r.part = part /\ r.seen = 0 /\ r.alive
      /\ r.attempt = t.attempt /\ r.logouts = t.logouts /\ r.owner = t.owner
      /\ r.from = t.shown[part].by
  BY Zenon
<1> HIDE DEF r
<1>9. QED  BY <1>1, <1>7, <1>8, SentFields, SentTyped DEF IsBegun

-----------------------------------------------------------------------------
(* The type invariant, and what it needs: a job takes the steps of its kind *)
(* in its panel, a request has the cookie of some session so far, and only  *)
(* who asks for the session asks for a token.                               *)

ActSteps ==
  CASE mode = "services" -> {"before", "write", "after", "read", "checked", "failed"}
    [] mode = "admin" -> {"write", "read", "verify"}
    [] mode \in {"resources", "calendar"} -> {"write", "read"}
    [] mode \in {"profile", "agent"} -> {"write"}
    [] mode = "whatsapp" -> {"link", "status", "qr"}
LoadSteps ==
  {"session", "read"} \cup (IF mode \in {"services", "admin"} THEN {"verify"} ELSE {})
                      \cup (IF mode = "whatsapp" THEN {"qr"} ELSE {})
GoodJob(j) ==
  /\ j.kind = "load" => j.part = "main" /\ j.step \in LoadSteps
  /\ j.kind = "closures" => mode = "calendar" /\ j.part = "side" /\ j.step = "read"
  /\ j.kind = "act" => j.step \in ActSteps /\ (j.part = "side" => mode \in {"calendar", "services", "admin"})
  /\ j.kind = "logout" => j.step = "write"
  /\ j.cookie \in 1..now
  /\ j.boot => AsksSession(j) /\ j.kind # "logout"
  /\ j.step = "after" => j.loaded["main"] # NULL
JobsTyped == \A k \in Jobs : jobs[k] # NULL => GoodJob(jobs[k])
Typed == TypeOK /\ JobsTyped

LEMMA JobOfPanel ==
  ASSUME TypeOK, NEW k \in Jobs, jobs[k] # NULL
  PROVE  jobs[k] \in Job
  BY DEF TypeOK

(* Part of an answer that is shown *)
Row(a) == [by |-> a.by, rows |-> a.rows]

LEMMA ShowingFields ==
  ASSUME NEW t \in Tab, NEW a \in [Parts -> Answer \cup {NULL}]
  PROVE  LET s == Showing(t, a) IN
         /\ s \in Tab
         /\ s = [t EXCEPT !.shown = s.shown]
         /\ \A p \in Parts : s.shown[p] = IF a[p] # NULL /\ Ok(a[p]) THEN Row(a[p]) ELSE t.shown[p]
<1> DEFINE shown == [p \in Parts |-> IF a[p] # NULL /\ Ok(a[p]) THEN Row(a[p]) ELSE t.shown[p]]
<1>1. t.shown \in [Parts -> Shown]  BY DEF Tab
<1>2. \A p \in Parts : a[p] # NULL => Row(a[p]) \in Shown
  <2>1. SUFFICES ASSUME NEW p \in Parts, a[p] # NULL PROVE Row(a[p]) \in Shown  OBVIOUS
  <2>2. a[p] \in Answer  BY <2>1
  <2>3. a[p].by \in 0..MaxLogins /\ a[p].rows \in SUBSET Writes  BY <2>2 DEF Answer
  <2>4. QED  BY <2>3 DEF Row, Shown
<1>3. shown \in [Parts -> Shown]  BY <1>1, <1>2
<1>4. Showing(t, a) = [t EXCEPT !.shown = shown]  BY DEF Showing, Row, Tab
<1> HIDE DEF shown
<1>5. [t EXCEPT !.shown = shown] \in Tab /\ [t EXCEPT !.shown = shown].shown = shown
  BY <1>3 DEF Tab
<1>6. QED  BY <1>4, <1>5 DEF shown

LEMMA MergedFields ==
  ASSUME tab \in Tab, NEW j \in Job, NEW a \in Answer
  PROVE  LET s == Merged(j, a) IN
         /\ s \in Tab
         /\ s = [tab EXCEPT !.shown = s.shown]
         /\ \A p \in Parts : p # j.part => s.shown[p] = tab.shown[p]
         /\ Whole(j) => s.shown[j.part] = Row(a)
         /\ ~Whole(j) => s.shown[j.part] = [by |-> tab.shown[j.part].by, rows |-> tab.shown[j.part].rows \cup a.rows]
<1> DEFINE row == [by |-> IF Whole(j) THEN a.by ELSE tab.shown[j.part].by,
                   rows |-> IF Whole(j) THEN a.rows ELSE tab.shown[j.part].rows \cup a.rows]
           shown == [tab.shown EXCEPT ![j.part] = row]
<1>1. j.part \in Parts /\ tab.shown \in [Parts -> Shown]  BY DEF Job, Tab
<1>2. a.by \in 0..MaxLogins /\ a.rows \in SUBSET Writes  BY DEF Answer
<1>3. tab.shown[j.part].by \in 0..MaxLogins /\ tab.shown[j.part].rows \in SUBSET Writes
  BY <1>1 DEF Shown
<1>4. row \in Shown  BY <1>2, <1>3 DEF Shown
<1>5. Merged(j, a) = [tab EXCEPT !.shown = shown]  BY DEF Merged, Tab
<1>6. /\ Whole(j) => row = Row(a)
      /\ ~Whole(j) => row = [by |-> tab.shown[j.part].by, rows |-> tab.shown[j.part].rows \cup a.rows]
  BY DEF Row
<1> HIDE DEF row
<1>7. shown \in [Parts -> Shown] /\ shown[j.part] = row /\ \A p \in Parts : p # j.part => shown[p] = tab.shown[p]
  BY <1>1, <1>4
<1> HIDE DEF shown
<1>8. [tab EXCEPT !.shown = shown] \in Tab /\ [tab EXCEPT !.shown = shown].shown = shown
  BY <1>7 DEF Tab
<1>9. QED  BY <1>5, <1>6, <1>7, <1>8

(* What a job that ends lets go of *)
Owns(t, k) ==
  LET s == Slot(jobs[k]) IN
  IF s = "side" \/ mode \in {"services", "resources", "whatsapp"} THEN t.held[s] = k ELSE Current(k)

LEMMA LetsGoFields ==
  ASSUME NEW t \in Tab, NEW k \in Jobs
  PROVE  LET u == LetsGo(t, k)  s == Slot(jobs[k]) IN
         /\ u \in Tab
         /\ u = [t EXCEPT !.held = u.held, !.closures = u.closures]
         /\ s \in Parts
         /\ u.held[s] = IF Owns(t, k) THEN NULL ELSE t.held[s]
         /\ \A p \in Parts : p # s => u.held[p] = t.held[p]
         /\ u.closures = IF s = "side" /\ Owns(t, k) /\ t.closures = "pending" THEN "ready" ELSE t.closures
<1> DEFINE s == Slot(jobs[k])
           held == [t.held EXCEPT ![s] = IF Owns(t, k) THEN NULL ELSE t.held[s]]
           closures == IF s = "side" /\ Owns(t, k) /\ t.closures = "pending" THEN "ready" ELSE t.closures
<1>1. s \in Parts  BY DEF Slot, Parts
<1>2. LetsGo(t, k) = [t EXCEPT !.held = held, !.closures = closures]  BY DEF LetsGo, Owns, Tab
<1>3. t.held \in [Parts -> Jobs \cup {NULL}] /\ t.closures \in {"loading", "error", "ready", "pending"}
  BY DEF Tab
<1>4. /\ held \in [Parts -> Jobs \cup {NULL}]
      /\ held[s] = IF Owns(t, k) THEN NULL ELSE t.held[s]
      /\ \A p \in Parts : p # s => held[p] = t.held[p]
  <2> HIDE DEF s
  <2> QED BY <1>1, <1>3
<1>5. closures \in {"loading", "error", "ready", "pending"}  BY <1>3
<1>6. closures = IF s = "side" /\ Owns(t, k) /\ t.closures = "pending" THEN "ready" ELSE t.closures  OBVIOUS
<1> HIDE DEF held, closures, s
<1>7. LET u == [t EXCEPT !.held = held, !.closures = closures] IN
      u \in Tab /\ u.held = held /\ u.closures = closures
  BY <1>4, <1>5 DEF Tab
<1>8. QED  BY <1>1, <1>2, <1>4, <1>6, <1>7 DEF s

-----------------------------------------------------------------------------
(* What the work on a panel may do, seen from outside: of what is shown, a *)
(* part is replaced by what was read or joined by what was written; the    *)
(* job ends and lets go, or goes on, or loses the panel.                   *)

SamePanel(t, u) ==
  /\ u.view = t.view /\ u.attempt = t.attempt /\ u.logouts = t.logouts /\ u.leaving = t.leaving
  /\ u.owner = t.owner /\ u.held = t.held

Brings(j, p) == IF j.step \in {"checked", "verify"} THEN j.loaded[p] ELSE j.answer[p]

ShowsQr(k, p, s) ==
  /\ mode = "whatsapp" /\ p = "side"
  /\ \/ s = Nothing
     \/ \E q \in Parts : LET a == jobs[k].answer[q] IN
          a # NULL /\ Ok(a) /\ s = Row(a) /\ (q = "side" \/ jobs[k].step # "status")
Replaces(k, p, s) ==
  LET j == jobs[k]  a == Brings(j, p) IN
  /\ Current(k) /\ a # NULL /\ Ok(a) /\ s = Row(a) /\ ~(mode = "whatsapp" /\ p = "side")
  /\ j.step \in {"read", "checked", "verify", "status"} \/ (j.step = "write" /\ Whole(j))
  /\ j.step \in {"checked", "verify"} => Same(j)
  /\ mode = "services" => j.step = "checked"
Joins(k, p, s) ==
  LET j == jobs[k]  a == IF j.step = "after" THEN j.loaded["main"] ELSE j.answer["main"] IN
  /\ Current(k) /\ p = j.part /\ ~Whole(j) /\ a # NULL
  /\ s = [by |-> tab.shown[p].by, rows |-> tab.shown[p].rows \cup a.rows]
  /\ \/ j.step = "write" /\ mode \in {"admin", "resources", "calendar"} /\ Ok(a)
     \/ j.step = "after" /\ Same(j)
Shows(k, p, s) == s = tab.shown[p] \/ ShowsQr(k, p, s) \/ Replaces(k, p, s) \/ Joins(k, p, s)

ShowsClosures(k, t) ==
  \/ t.closures = tab.closures
  \/ /\ jobs[k].kind = "closures" /\ Current(k)
     /\ \/ t.closures = "ready" /\ jobs[k].answer["side"] # NULL /\ Ok(jobs[k].answer["side"])
           /\ t.shown["side"] = Row(jobs[k].answer["side"])
        \/ t.closures = "error" /\ tab.closures = "loading"

KeepsAnswers(step) == step \in {"after", "failed", "checked", "verify"}
Resumed(k, step) ==
  /\ jobs' = [jobs EXCEPT ![k] = [Sent(@, step, stored') EXCEPT
                !.loaded = IF KeepsAnswers(step) THEN jobs[k].answer ELSE None]]
  /\ jobs[k].kind = "act" /\ step \in ActSteps
  /\ step = "write" => mode = "services" /\ jobs[k].step = "before" /\ Same(jobs[k]) /\ Current(k)
  /\ step \in {"after", "failed", "checked", "verify"} => Current(k)
  /\ step = "after" => jobs[k].step = "write" /\ Ok(jobs[k].answer["main"])
  /\ step \in {"checked", "verify"} => jobs[k].step = "read"
  /\ step = "checked" => \A p \in Reads(jobs[k]) : Ok(jobs[k].answer[p])

LEMMA AnswerTyped ==
  ASSUME TypeOK, NEW k \in Jobs, Answered(k)
  PROVE  /\ jobs[k] \in Job /\ jobs[k] # NULL
         /\ jobs[k].answer \in [Parts -> Answer \cup {NULL}] /\ jobs[k].loaded \in [Parts -> Answer \cup {NULL}]
         /\ jobs[k].part \in Parts /\ jobs[k].step \in Step /\ None \in [Parts -> Answer \cup {NULL}]
         /\ \A p \in Asks(jobs[k]) : jobs[k].answer[p] \in Answer /\ jobs[k].answer[p] # NULL
<1>1. jobs[k] \in Job /\ jobs[k] # NULL  BY JobOfPanel DEF Answered
<1>2. jobs[k].answer \in [Parts -> Answer \cup {NULL}] /\ jobs[k].loaded \in [Parts -> Answer \cup {NULL}]
      /\ jobs[k].part \in Parts /\ jobs[k].step \in Step
  BY <1>1 DEF Job
<1>3. Asks(jobs[k]) \subseteq Parts  BY <1>2 DEF Asks, Reads, Parts
<1>4. QED  BY <1>1, <1>2, <1>3 DEF Answered, None

(* A job that goes on, as Resumed says it *)
LEMMA GoesResumes ==
  ASSUME TypeOK, NEW k \in Jobs, Answered(k), NEW t, NEW step \in Step,
         IF KeepsAnswers(step) THEN GoesWith(k, t, step) ELSE Goes(k, t, step)
  PROVE  /\ tab' = t
         /\ jobs' = [jobs EXCEPT ![k] = [Sent(@, step, stored') EXCEPT
                      !.loaded = IF KeepsAnswers(step) THEN jobs[k].answer ELSE None]]
<1>1. jobs[k] \in Job  BY AnswerTyped
<1> DEFINE s == Sent(jobs[k], step, stored')
<1>2. s.loaded = None  BY <1>1, SentFields
<1>3. s = [s EXCEPT !.loaded = s.loaded]  BY <1>1 DEF Sent, Job
<1>4. s = [s EXCEPT !.loaded = None]  BY <1>2, <1>3
<1> HIDE DEF s
<1>5. jobs \in [Jobs -> Job \cup {NULL}]  BY DEF TypeOK
<1>6. CASE KeepsAnswers(step)  BY <1>6, <1>5 DEF GoesWith, s
<1>7. CASE ~KeepsAnswers(step)  BY <1>7, <1>4, <1>5 DEF Goes, s
<1>8. QED  BY <1>6, <1>7

(* The panels a job may leave behind: as it was, or with a part replaced or joined. *)
Fits(k, t) ==
  /\ t \in Tab /\ SamePanel(tab, t) /\ (t.conflict => tab.conflict \/ mode = "agent")
  /\ \A p \in Parts : Shows(k, p, t.shown[p])
  /\ ShowsClosures(k, t)

LEMMA FitsAsItWas == ASSUME TypeOK, NEW k PROVE Fits(k, tab)
  BY DEF Fits, SamePanel, Shows, ShowsClosures, TypeOK

LEMMA FitsShowing ==
  ASSUME TypeOK, NEW k, NEW a \in [Parts -> Answer \cup {NULL}],
         \A p \in Parts : a[p] # NULL /\ Ok(a[p]) => Shows(k, p, Row(a[p]))
  PROVE  Fits(k, Showing(tab, a))
<1> DEFINE s == Showing(tab, a)
<1>1. tab \in Tab  BY DEF TypeOK
<1>2. s \in Tab /\ s = [tab EXCEPT !.shown = s.shown]  BY <1>1, ShowingFields
<1>3. \A p \in Parts : s.shown[p] = IF a[p] # NULL /\ Ok(a[p]) THEN Row(a[p]) ELSE tab.shown[p]
  BY <1>1, ShowingFields
<1> HIDE DEF s
<1>4. \A p \in Parts : Shows(k, p, s.shown[p])  BY <1>3 DEF Shows
<1>5. SamePanel(tab, s) /\ s.conflict = tab.conflict /\ s.closures = tab.closures
  BY <1>1, <1>2 DEF SamePanel, Tab
<1>6. QED  BY <1>2, <1>4, <1>5 DEF Fits, ShowsClosures, s

LEMMA FitsMerged ==
  ASSUME TypeOK, NEW k \in Jobs, jobs[k] # NULL, NEW a \in Answer,
         Whole(jobs[k]) => Replaces(k, jobs[k].part, Row(a)),
         ~Whole(jobs[k]) => Joins(k, jobs[k].part, [by |-> tab.shown[jobs[k].part].by,
                                                   rows |-> tab.shown[jobs[k].part].rows \cup a.rows])
  PROVE  Fits(k, Merged(jobs[k], a))
<1> DEFINE s == Merged(jobs[k], a)
<1>1. tab \in Tab /\ jobs[k] \in Job  BY JobOfPanel DEF TypeOK
<1>2. /\ s \in Tab /\ s = [tab EXCEPT !.shown = s.shown]
      /\ \A p \in Parts : p # jobs[k].part => s.shown[p] = tab.shown[p]
      /\ Whole(jobs[k]) => s.shown[jobs[k].part] = Row(a)
      /\ ~Whole(jobs[k]) => s.shown[jobs[k].part] = [by |-> tab.shown[jobs[k].part].by,
                                                     rows |-> tab.shown[jobs[k].part].rows \cup a.rows]
  BY <1>1, MergedFields
<1> HIDE DEF s
<1>3. \A p \in Parts : Shows(k, p, s.shown[p])  BY <1>2 DEF Shows
<1>4. SamePanel(tab, s) /\ s.conflict = tab.conflict /\ s.closures = tab.closures
  BY <1>1, <1>2 DEF SamePanel, Tab
<1>5. QED  BY <1>2, <1>3, <1>4 DEF Fits, ShowsClosures, s

LEMMA FitsNoQr ==
  ASSUME TypeOK, NEW k, mode = "whatsapp"
  PROVE  Fits(k, NoQr)
<1>1. tab \in Tab  BY DEF TypeOK
<1>2. NoQr \in Tab /\ NoQr.shown["side"] = Nothing /\ NoQr.shown["main"] = tab.shown["main"]
  <2>1. tab.shown \in [Parts -> Shown] /\ "side" \in Parts /\ "main" \in Parts  BY <1>1 DEF Tab, Parts
  <2>2. Nothing \in Shown  BY PanelAssumption DEF Nothing, Shown
  <2>3. NoQr = [tab EXCEPT !.shown = [tab.shown EXCEPT !["side"] = Nothing]]  BY <1>1, <2>1 DEF NoQr, Tab
  <2> DEFINE shown == [tab.shown EXCEPT !["side"] = Nothing]
  <2>4. shown \in [Parts -> Shown] /\ shown["side"] = Nothing /\ shown["main"] = tab.shown["main"]
    BY <2>1, <2>2
  <2> HIDE DEF shown
  <2>5. QED  BY <1>1, <2>3, <2>4 DEF Tab, shown
<1>3. NoQr = [tab EXCEPT !.shown = NoQr.shown]  BY <1>1 DEF NoQr, Tab
<1>4. SamePanel(tab, NoQr) /\ NoQr.conflict = tab.conflict /\ NoQr.closures = tab.closures
  BY <1>1, <1>3 DEF SamePanel, Tab
<1>5. QED  BY <1>2, <1>4 DEF Fits, Shows, ShowsQr, ShowsClosures, Parts

LEMMA FitsConnected ==
  ASSUME Typed, NEW k \in Jobs, Answered(k), mode = "whatsapp", jobs[k].step = "status",
         Current(k)
  PROVE  Fits(k, Showing(NoQr, jobs[k].answer))
<1> DEFINE a == jobs[k].answer  s == Showing(NoQr, a)
<1>1. Fits(k, NoQr) /\ TypeOK  BY FitsNoQr DEF Typed
<1>2. a \in [Parts -> Answer \cup {NULL}]  BY <1>1, AnswerTyped
<1>3. NoQr \in Tab  BY <1>1 DEF Fits
<1>4. s \in Tab /\ s = [NoQr EXCEPT !.shown = s.shown]  BY <1>2, <1>3, ShowingFields
<1>5. \A p \in Parts : s.shown[p] = IF a[p] # NULL /\ Ok(a[p]) THEN Row(a[p]) ELSE NoQr.shown[p]
  BY <1>2, <1>3, ShowingFields
<1> HIDE DEF s
<1>6. \A p \in Parts : Shows(k, p, s.shown[p])
  BY <1>1, <1>5 DEF Fits, Shows, ShowsQr, Replaces, Brings
<1>7. SamePanel(tab, NoQr) /\ (NoQr.conflict => tab.conflict \/ mode = "agent")  BY <1>1 DEF Fits
<1>8. SamePanel(tab, s) /\ s.conflict = NoQr.conflict
  BY <1>3, <1>4, <1>7 DEF SamePanel, Tab
<1>9. s.closures = tab.closures
  BY <1>3, <1>4 DEF Tab, NoQr, TypeOK
<1>10. QED  BY <1>4, <1>6, <1>7, <1>8, <1>9 DEF Fits, ShowsClosures, s

Outcome(k) ==
  \/ \E t : Fits(k, t) /\ (Done(k, t) \/ (tab' = t /\ \E step \in Step : Resumed(k, step)))
  \/ Loses(k) /\ Current(k) /\ jobs[k].kind = "act" /\ mode \in {"admin", "services"}

\* A job of the panel's work takes a step of its kind.
LEMMA WorkKind ==
  ASSUME Typed, NEW k \in Jobs, jobs[k] # NULL
  PROVE  /\ jobs[k].kind = "act" => jobs[k].step \in ActSteps
         /\ jobs[k].kind = "act" /\ jobs[k].part = "side" => mode \in {"calendar", "services", "admin"}
         /\ jobs[k].kind = "closures" => mode = "calendar" /\ jobs[k].part = "side" /\ jobs[k].step = "read"
         /\ mode \in {"admin", "services", "resources", "calendar", "profile", "agent", "whatsapp"}
  BY PanelAssumption DEF Typed, TypeOK, JobsTyped, GoodJob

LEMMA ServicesWrittenOutcome ==
  ASSUME Typed, NEW k \in Jobs, Answered(k), ServicesWritten(k)
  PROVE  Outcome(k)
<1>1. TypeOK /\ Fits(k, tab)  BY FitsAsItWas DEF Typed
<1>2. mode = "services" /\ jobs[k].kind = "act" /\ jobs[k].step = "write"
  BY DEF ServicesWritten, WriteAnswered, Resumes
<1>3. CASE Confirmed(k) /\ GoesWith(k, tab, "after")
  <2>1. "after" \in Step /\ "after" \in ActSteps /\ KeepsAnswers("after")
    BY <1>2 DEF Step, ActSteps, KeepsAnswers
  <2>2. Resumed(k, "after") /\ tab' = tab
    BY <1>1, <1>2, <1>3, <2>1, GoesResumes DEF Resumed, Confirmed
  <2>3. QED  BY <1>1, <2>1, <2>2 DEF Outcome
<1>4. CASE Denied(jobs[k].answer["main"]) /\ Current(k) /\ Loses(k)
  BY <1>2, <1>4 DEF Outcome
<1>5. CASE Done(k, tab)  BY <1>1, <1>5 DEF Outcome
<1>6. QED  BY <1>3, <1>4, <1>5 DEF ServicesWritten

LEMMA ReadsBackOutcome ==
  ASSUME Typed, NEW k \in Jobs, Answered(k), ReadsBack(k), mode \in {"admin", "resources", "calendar"}
  PROVE  Outcome(k)
<1>1. TypeOK /\ Fits(k, tab)  BY FitsAsItWas DEF Typed
<1>2. jobs[k].kind = "act" /\ jobs[k].step = "write"
  BY DEF ReadsBack, WriteAnswered, Resumes
<1> DEFINE a == jobs[k].answer["main"]
<1>3. CASE Confirmed(k) /\ Goes(k, Merged(jobs[k], a), "read")
  <2>1. "read" \in Step /\ "read" \in ActSteps /\ ~KeepsAnswers("read")
    BY DEF Step, ActSteps, KeepsAnswers
  <2>2. tab' = Merged(jobs[k], a) /\ Resumed(k, "read")
    BY <1>1, <1>2, <1>3, <2>1, GoesResumes DEF Resumed
  <2>3. a \in Answer /\ a # NULL /\ jobs[k] # NULL /\ jobs[k].part \in Parts
    BY <1>1, <1>2, AnswerTyped DEF Asks
  <2>4. Brings(jobs[k], "main") = a /\ Ok(a) /\ Current(k)  BY <1>2, <1>3 DEF Brings, Confirmed
  <2>5. Whole(jobs[k]) => Replaces(k, jobs[k].part, Row(a))
    BY <1>2, <2>3, <2>4 DEF Replaces, Whole
  <2>6. ~Whole(jobs[k]) => Joins(k, jobs[k].part, [by |-> tab.shown[jobs[k].part].by,
                                                  rows |-> tab.shown[jobs[k].part].rows \cup a.rows])
    BY <1>2, <2>3, <2>4 DEF Joins
  <2>7. Fits(k, Merged(jobs[k], a))
    BY <1>1, <2>3, <2>5, <2>6, FitsMerged
  <2>8. QED  BY <2>1, <2>2, <2>7 DEF Outcome
<1>4. CASE Done(k, tab)  BY <1>1, <1>4 DEF Outcome
<1>5. QED  BY <1>3, <1>4 DEF ReadsBack

LEMMA SavedOutcome ==
  ASSUME Typed, NEW k \in Jobs, Answered(k), ProfileSaved(k) \/ AgentSaved(k)
  PROVE  Outcome(k)
<1>1. TypeOK /\ Fits(k, tab)  BY FitsAsItWas DEF Typed
<1>2. jobs[k].kind = "act" /\ jobs[k].step = "write" /\ mode \in {"profile", "agent"}
  <2>1. CASE ProfileSaved(k)  BY <2>1 DEF ProfileSaved, WriteAnswered, Resumes
  <2>2. CASE AgentSaved(k)
    <3>1. mode = "agent"  BY <2>2 DEF AgentSaved
    <3>2. QED  BY <2>2, <3>1 DEF AgentSaved, WriteAnswered, Resumes
  <2>3. QED  BY <2>1, <2>2
<1> DEFINE a == jobs[k].answer["main"]
<1>3. Confirmed(k) => Fits(k, Merged(jobs[k], a))
  <2>1. a \in Answer /\ a # NULL /\ jobs[k] # NULL /\ jobs[k].part = "main"
    BY <1>1, <1>2, AnswerTyped, WorkKind DEF Asks, Parts
  <2>2. Brings(jobs[k], "main") = a /\ Whole(jobs[k])  BY <1>2 DEF Brings, Whole
  <2>3. Confirmed(k) => Replaces(k, jobs[k].part, Row(a))
    BY <1>2, <2>1, <2>2 DEF Replaces, Confirmed
  <2>4. QED  BY <1>1, <2>1, <2>2, <2>3, FitsMerged
<1>4. CASE Confirmed(k) /\ Done(k, Merged(jobs[k], a))  BY <1>3, <1>4 DEF Outcome
<1>5. CASE Done(k, tab)  BY <1>1, <1>5 DEF Outcome
<1>6. CASE mode = "agent" /\ Done(k, [tab EXCEPT !.conflict = a.code = "409"])
  <2> DEFINE t == [tab EXCEPT !.conflict = a.code = "409"]
  <2>1. tab \in Tab  BY <1>1 DEF TypeOK
  <2>2. t \in Tab /\ SamePanel(tab, t) /\ t.closures = tab.closures /\ t.shown = tab.shown
    BY <2>1 DEF Tab, SamePanel
  <2>3. Fits(k, t)  BY <1>6, <2>2 DEF Fits, Shows, ShowsClosures
  <2>4. QED  BY <1>6, <2>3 DEF Outcome
<1>7. CASE ProfileSaved(k)  BY <1>4, <1>5, <1>7 DEF ProfileSaved
<1>8. CASE AgentSaved(k)  BY <1>4, <1>5, <1>6, <1>8 DEF AgentSaved
<1>9. QED  BY <1>7, <1>8

LEMMA ServicesRefreshedOutcome ==
  ASSUME Typed, NEW k \in Jobs, Answered(k), ServicesRefreshed(k)
  PROVE  Outcome(k)
<1>1. TypeOK /\ Fits(k, tab)  BY FitsAsItWas DEF Typed
<1>2. mode = "services" /\ jobs[k].kind = "act" /\ jobs[k].step = "read"
  BY DEF ServicesRefreshed, ReadAgain, Resumes
<1> DEFINE bad == \E p \in Reads(jobs[k]) : ~Ok(jobs[k].answer[p])
           next == IF bad THEN "failed" ELSE "checked"
<1>3. CASE Current(k) /\ GoesWith(k, tab, next)
  <2>1. next \in Step /\ next \in ActSteps /\ KeepsAnswers(next)
    BY <1>2 DEF Step, ActSteps, KeepsAnswers
  <2>2. tab' = tab /\ Resumed(k, next)
    BY <1>1, <1>2, <1>3, <2>1, GoesResumes DEF Resumed
  <2>3. QED  BY <1>1, <2>1, <2>2 DEF Outcome
<1>4. CASE Current(k) /\ Loses(k)  BY <1>2, <1>4 DEF Outcome
<1>5. CASE Done(k, tab)  BY <1>1, <1>5 DEF Outcome
<1>6. QED  BY <1>3, <1>4, <1>5 DEF ServicesRefreshed

LEMMA AdminRefreshedOutcome ==
  ASSUME Typed, NEW k \in Jobs, Answered(k), AdminRefreshed(k)
  PROVE  Outcome(k)
<1>1. TypeOK /\ Fits(k, tab)  BY FitsAsItWas DEF Typed
<1>2. mode = "admin" /\ jobs[k].kind = "act" /\ jobs[k].step = "read"
  BY DEF AdminRefreshed, ReadAgain, Resumes
<1>3. CASE Current(k) /\ GoesWith(k, tab, "verify")
  <2>1. "verify" \in Step /\ "verify" \in ActSteps /\ KeepsAnswers("verify")
    BY <1>2 DEF Step, ActSteps, KeepsAnswers
  <2>2. tab' = tab /\ Resumed(k, "verify")
    BY <1>1, <1>2, <1>3, <2>1, GoesResumes DEF Resumed
  <2>3. QED  BY <1>1, <2>1, <2>2 DEF Outcome
<1>4. CASE Current(k) /\ Done(k, Showing(tab, jobs[k].answer))
  <2>1. jobs[k].answer \in [Parts -> Answer \cup {NULL}]  BY <1>1, AnswerTyped
  <2>2. \A p \in Parts : jobs[k].answer[p] # NULL /\ Ok(jobs[k].answer[p]) => Shows(k, p, Row(jobs[k].answer[p]))
    BY <1>2, <1>4 DEF Shows, Replaces, Brings
  <2>3. Fits(k, Showing(tab, jobs[k].answer))  BY <1>1, <2>1, <2>2, FitsShowing
  <2>4. QED  BY <1>4, <2>3 DEF Outcome
<1>5. CASE Done(k, tab)  BY <1>1, <1>5 DEF Outcome
<1>6. QED  BY <1>3, <1>4, <1>5 DEF AdminRefreshed

LEMMA ListRefreshedOutcome ==
  ASSUME Typed, NEW k \in Jobs, Answered(k), ListRefreshed(k)
  PROVE  Outcome(k)
<1>1. TypeOK /\ Fits(k, tab)  BY FitsAsItWas DEF Typed
<1>2. mode \in {"resources", "calendar"} /\ jobs[k].step = "read"
  BY DEF ListRefreshed, ReadAgain
<1>3. CASE Current(k) /\ Done(k, Showing(tab, jobs[k].answer))
  <2>1. jobs[k].answer \in [Parts -> Answer \cup {NULL}]  BY <1>1, AnswerTyped
  <2>2. \A p \in Parts : jobs[k].answer[p] # NULL /\ Ok(jobs[k].answer[p]) => Shows(k, p, Row(jobs[k].answer[p]))
    BY <1>2, <1>3 DEF Shows, Replaces, Brings
  <2>3. Fits(k, Showing(tab, jobs[k].answer))  BY <1>1, <2>1, <2>2, FitsShowing
  <2>4. QED  BY <1>3, <2>3 DEF Outcome
<1>4. CASE Done(k, tab)  BY <1>1, <1>4 DEF Outcome
<1>5. QED  BY <1>3, <1>4 DEF ListRefreshed

\* One part of an answer
Only(a) == [None EXCEPT !["side"] = a]
LEMMA OnlyFields ==
  ASSUME NEW a \in Answer
  PROVE  /\ Only(a) \in [Parts -> Answer \cup {NULL}] /\ Only(a)["side"] = a
         /\ \A p \in Parts : p # "side" => Only(a)[p] = NULL
  BY DEF Only, None, Parts

LEMMA ClosuresReadOutcome ==
  ASSUME Typed, NEW k \in Jobs, Answered(k), ClosuresRead(k)
  PROVE  Outcome(k)
<1>1. TypeOK /\ Fits(k, tab)  BY FitsAsItWas DEF Typed
<1>2. jobs[k].kind = "closures" /\ mode = "calendar" /\ jobs[k].part = "side" /\ jobs[k].step = "read"
  BY WorkKind DEF ClosuresRead, Resumes, Answered
<1> DEFINE a == jobs[k].answer["side"]
<1>3. a \in Answer /\ a # NULL /\ tab \in Tab
  BY <1>1, <1>2, AnswerTyped DEF Asks, Reads, TypeOK
<1>4. CASE Done(k, tab)  BY <1>1, <1>4 DEF Outcome
<1>5. CASE Current(k) /\ Ok(a) /\ Done(k, [Showing(tab, Only(a)) EXCEPT !.closures = "ready"])
  <2> DEFINE s == Showing(tab, Only(a))  t == [s EXCEPT !.closures = "ready"]
  <2>1. \A p \in Parts : Only(a)[p] # NULL /\ Ok(Only(a)[p]) => Shows(k, p, Row(Only(a)[p]))
    BY <1>2, <1>3, <1>5, OnlyFields DEF Shows, Replaces, Brings
  <2>2. Fits(k, s)  BY <1>1, <1>3, <2>1, OnlyFields, FitsShowing
  <2>3. s.shown["side"] = Row(a)
    <3>1. "side" \in Parts  BY DEF Parts
    <3>2. QED  BY <1>3, <1>5, <3>1, OnlyFields, ShowingFields
  <2> HIDE DEF s
  <2>4. s \in Tab  BY <2>2 DEF Fits
  <2>5. t \in Tab /\ t.shown = s.shown /\ t.closures = "ready" /\ t.conflict = s.conflict /\ SamePanel(s, t)
    BY <2>4 DEF Tab, SamePanel
  <2>6. Fits(k, t)
    BY <1>2, <1>3, <1>5, <2>2, <2>3, <2>5 DEF Fits, ShowsClosures, SamePanel
  <2>7. QED  BY <1>5, <2>6 DEF Outcome, s
<1>6. CASE Current(k) /\ ~Ok(a) /\ Done(k, [tab EXCEPT !.closures = IF @ = "loading" THEN "error" ELSE @])
  <2> DEFINE t == [tab EXCEPT !.closures = IF @ = "loading" THEN "error" ELSE @]
  <2>1. /\ t \in Tab /\ t.shown = tab.shown /\ t.conflict = tab.conflict /\ SamePanel(tab, t)
        /\ t.closures = IF tab.closures = "loading" THEN "error" ELSE tab.closures
    BY <1>3 DEF Tab, SamePanel
  <2>2. Fits(k, t)  BY <1>2, <1>6, <2>1 DEF Fits, Shows, ShowsClosures
  <2>3. QED  BY <1>6, <2>2 DEF Outcome
<1>7. QED  BY <1>4, <1>5, <1>6 DEF ClosuresRead, Only

LEMMA OwnerAnsweredOutcome ==
  ASSUME Typed, NEW k \in Jobs, Answered(k), OwnerAnswered(k)
  PROVE  Outcome(k)
<1>1. TypeOK /\ Fits(k, tab)  BY FitsAsItWas DEF Typed
<1> DEFINE j == jobs[k]
<1>2. j.kind = "act" /\ j.step \in {"before", "after", "checked", "failed"} /\ mode = "services"
  <2>1. j.kind = "act" /\ j.step \in {"before", "after", "checked", "failed"}
    BY DEF OwnerAnswered, SessionAnswered, Resumes
  <2>2. QED  BY <2>1, WorkKind DEF ActSteps, Answered
<1>3. CASE Done(k, tab)  BY <1>1, <1>3 DEF Outcome
<1>4. CASE Current(k) /\ Loses(k)  BY <1>2, <1>4 DEF Outcome
<1>5. CASE Current(k) /\ Same(j) /\ j.step = "before" /\ Goes(k, tab, IF j.work THEN "write" ELSE "read")
  <2> DEFINE next == IF j.work THEN "write" ELSE "read"
  <2>1. next \in Step /\ next \in ActSteps /\ ~KeepsAnswers(next) /\ next \notin {"after", "failed", "checked", "verify"}
    BY <1>2 DEF Step, ActSteps, KeepsAnswers
  <2>2. Goes(k, tab, next)  BY <1>5
  <2> HIDE DEF next
  <2>3. tab' = tab /\ Resumed(k, next)
    BY <1>1, <1>2, <1>5, <2>1, <2>2, GoesResumes DEF Resumed
  <2>4. QED  BY <1>1, <2>1, <2>3 DEF Outcome
<1>6. CASE Current(k) /\ Same(j) /\ j.step = "after" /\ Goes(k, Merged(j, j.loaded["main"]), "read")
  <2>1. "read" \in Step /\ "read" \in ActSteps /\ ~KeepsAnswers("read")
    BY <1>2 DEF Step, ActSteps, KeepsAnswers
  <2>2. tab' = Merged(j, j.loaded["main"]) /\ Resumed(k, "read")
    BY <1>1, <1>2, <1>6, <2>1, GoesResumes DEF Resumed
  <2>3. j.loaded["main"] \in Answer /\ j.loaded["main"] # NULL /\ j # NULL /\ j.part \in Parts
    BY <1>1, <1>6, AnswerTyped DEF Typed, JobsTyped, GoodJob, Parts, Answered
  <2>4. ~Whole(j)  BY <1>2 DEF Whole
  <2>5. Joins(k, j.part, [by |-> tab.shown[j.part].by, rows |-> tab.shown[j.part].rows \cup j.loaded["main"].rows])
    BY <1>6, <2>3, <2>4 DEF Joins
  <2>6. Fits(k, Merged(j, j.loaded["main"]))
    BY <1>1, <2>3, <2>4, <2>5, FitsMerged
  <2>7. QED  BY <2>1, <2>2, <2>6 DEF Outcome
<1>7. CASE Current(k) /\ Same(j) /\ j.step = "checked" /\ Done(k, Showing(tab, j.loaded))
  <2>1. j.loaded \in [Parts -> Answer \cup {NULL}]  BY <1>1, AnswerTyped
  <2>2. \A p \in Parts : j.loaded[p] # NULL /\ Ok(j.loaded[p]) => Shows(k, p, Row(j.loaded[p]))
    BY <1>2, <1>7 DEF Shows, Replaces, Brings
  <2>3. Fits(k, Showing(tab, j.loaded))  BY <1>1, <2>1, <2>2, FitsShowing
  <2>4. QED  BY <1>7, <2>3 DEF Outcome
<1>8. QED
  <2>1. CASE j.step = "before"  BY <1>3, <1>4, <1>5, <2>1 DEF OwnerAnswered
  <2>2. CASE j.step = "after"  BY <1>3, <1>4, <1>6, <2>2 DEF OwnerAnswered
  <2>3. CASE j.step = "checked"  BY <1>3, <1>4, <1>7, <2>3 DEF OwnerAnswered
  <2>4. CASE j.step = "failed"  BY <1>3, <1>4, <2>4 DEF OwnerAnswered
  <2>5. QED  BY <1>2, <2>1, <2>2, <2>3, <2>4

LEMMA AdminVerifiedOutcome ==
  ASSUME Typed, NEW k \in Jobs, Answered(k), AdminVerified(k)
  PROVE  Outcome(k)
<1>1. TypeOK /\ Fits(k, tab)  BY FitsAsItWas DEF Typed
<1>2. jobs[k].kind = "act" /\ jobs[k].step = "verify" /\ mode = "admin"
  <2>1. jobs[k].kind = "act" /\ jobs[k].step = "verify"
    BY DEF AdminVerified, SessionAnswered, Resumes
  <2>2. QED  BY <2>1, WorkKind DEF ActSteps, Answered
<1>3. CASE Done(k, tab)  BY <1>1, <1>3 DEF Outcome
<1>4. CASE Current(k) /\ Loses(k)  BY <1>2, <1>4 DEF Outcome
<1>5. CASE Current(k) /\ Same(jobs[k]) /\ Done(k, Showing(tab, jobs[k].loaded))
  <2>1. jobs[k].loaded \in [Parts -> Answer \cup {NULL}]  BY <1>1, AnswerTyped
  <2>2. \A p \in Parts : jobs[k].loaded[p] # NULL /\ Ok(jobs[k].loaded[p]) => Shows(k, p, Row(jobs[k].loaded[p]))
    BY <1>2, <1>5 DEF Shows, Replaces, Brings
  <2>3. Fits(k, Showing(tab, jobs[k].loaded))  BY <1>1, <2>1, <2>2, FitsShowing
  <2>4. QED  BY <1>5, <2>3 DEF Outcome
<1>6. QED  BY <1>3, <1>4, <1>5 DEF AdminVerified

LEMMA LinkOutcome ==
  ASSUME Typed, NEW k \in Jobs, Answered(k), LinkAnswered(k) \/ Monitored(k)
  PROVE  Outcome(k)
<1>1. TypeOK /\ Fits(k, tab)  BY FitsAsItWas DEF Typed
<1> DEFINE a == jobs[k].answer["main"]
<1>2. jobs[k].kind = "act" /\ jobs[k].step \in {"link", "status", "qr"} /\ mode = "whatsapp"
  <2>1. jobs[k].kind = "act" /\ jobs[k].step \in {"link", "status", "qr"}
    BY DEF LinkAnswered, Monitored, Resumes
  <2>2. QED  BY <2>1, WorkKind DEF ActSteps, Answered
<1>3. a \in Answer /\ a # NULL  BY <1>1, <1>2, AnswerTyped DEF Asks
<1>4. jobs[k].alive = Current(k) /\ ~("status" \in {"after", "failed", "checked", "verify"})
  <2>1. Slot(jobs[k]) = "main"  BY <1>2 DEF Slot
  <2>2. jobs[k].alive \in BOOLEAN  BY <1>1, AnswerTyped DEF Job
  <2>3. QED  BY <1>2, <2>1, <2>2 DEF Current
<1>5. ASSUME NEW t, NEW step \in {"status", "qr"}, Fits(k, t), Goes(k, t, step) PROVE Outcome(k)
  <2>1. step \in Step /\ step \in ActSteps /\ ~KeepsAnswers(step)
    BY <1>2, <1>5 DEF Step, ActSteps, KeepsAnswers
  <2>2. tab' = t /\ Resumed(k, step)
    BY <1>1, <1>2, <1>5, <2>1, GoesResumes DEF Resumed
  <2>3. QED  BY <1>5, <2>1, <2>2 DEF Outcome
<1>6. jobs[k].step \in {"link", "qr"} => Fits(k, Qr(a))
  <2>1. CASE jobs[k].step \in {"link", "qr"} /\ Ok(a)
    <3>1. \A p \in Parts : Only(a)[p] # NULL /\ Ok(Only(a)[p]) => Shows(k, p, Row(Only(a)[p]))
      BY <1>2, <1>3, <2>1, OnlyFields DEF Shows, ShowsQr, Parts
    <3>2. QED  BY <1>1, <1>3, <2>1, <3>1, OnlyFields, FitsShowing DEF Qr, Only
  <2>2. QED  BY <1>1, <2>1 DEF Qr
<1>7. Fits(k, NoQr)  BY <1>1, <1>2, FitsNoQr
<1>8. CASE LinkAnswered(k)
  <2>1. jobs[k].step = "link"  BY <1>8 DEF LinkAnswered
  <2>2. QED  BY <1>1, <1>5, <1>6, <1>7, <1>8, <2>1 DEF LinkAnswered, Outcome
<1>9. CASE Monitored(k)
  <2>1. CASE Done(k, tab) \/ Done(k, NoQr)  BY <1>1, <1>7, <2>1 DEF Outcome
  <2>2. CASE jobs[k].alive /\ jobs[k].step = "status" /\ Ok(a) /\ Goes(k, Showing(tab, jobs[k].answer), "qr")
    <3>1. jobs[k].answer \in [Parts -> Answer \cup {NULL}]  BY <1>1, AnswerTyped
    <3>2. \A p \in Parts : jobs[k].answer[p] # NULL /\ Ok(jobs[k].answer[p]) => Shows(k, p, Row(jobs[k].answer[p]))
      BY <1>2, <1>4, <2>2 DEF Shows, ShowsQr, Replaces, Brings
    <3>3. Fits(k, Showing(tab, jobs[k].answer))  BY <1>1, <3>1, <3>2, FitsShowing
    <3>4. QED  BY <1>5, <2>2, <3>3
  <2>3. CASE jobs[k].alive /\ jobs[k].step = "status" /\ Ok(a) /\ Done(k, Showing(NoQr, jobs[k].answer))
    BY <1>2, <1>4, <2>3, FitsConnected DEF Outcome
  <2>4. CASE jobs[k].step = "qr" /\ Goes(k, Qr(a), "status")
    BY <1>5, <1>6, <2>4
  <2>5. QED  BY <1>9, <2>1, <2>2, <2>3, <2>4 DEF Monitored
<1>10. QED  BY <1>8, <1>9

LEMMA ContinueOutcome ==
  ASSUME Typed, NEW k \in Jobs, Continue(k)
  PROVE  /\ Answered(k) /\ UNCHANGED <<mode, server, faults>> /\ stored' = Token(jobs[k])
         /\ \/ Bootstrap(k) /\ jobs[k].kind \in {"load", "act"}
            \/ (LoadSession(k) \/ LoadRead(k) \/ LoadVerify(k) \/ LoadQr(k)) /\ jobs[k].kind = "load"
            \/ Outcome(k) /\ jobs[k].kind \in {"act", "closures"} /\ ~Bootstraps(jobs[k])
            \/ LoggedOut(k) /\ jobs[k].kind = "logout"
<1> DEFINE kinds == jobs[k].kind
           same == UNCHANGED <<mode, server, faults>> /\ stored' = Token(jobs[k])
<1>1. Answered(k)  BY DEF Continue
<1>2. CASE Bootstrap(k)
  BY <1>1, <1>2 DEF Bootstrap, Resumes
<1>3. CASE LoadSession(k)
  <2>1. Resumes(k, {"load"})  BY <1>3 DEF LoadSession
  <2>2. QED  BY <1>1, <1>3, <2>1 DEF Resumes
<1>4. CASE LoadRead(k)
  <2>1. Resumes(k, {"load"})  BY <1>4 DEF LoadRead
  <2>2. QED  BY <1>1, <1>4, <2>1 DEF Resumes
<1>5. CASE LoadVerify(k)
  <2>1. Resumes(k, {"load"})  BY <1>5 DEF LoadVerify
  <2>2. QED  BY <1>1, <1>5, <2>1 DEF Resumes
<1>6. CASE LoadQr(k)
  <2>1. Resumes(k, {"load"})  BY <1>6 DEF LoadQr
  <2>2. QED  BY <1>1, <1>6, <2>1 DEF Resumes
<1>7. CASE LoggedOut(k)
  <2>1. Resumes(k, {"logout"})  BY <1>7 DEF LoggedOut
  <2>2. QED  BY <1>1, <1>7, <2>1 DEF Resumes
<1>8. ASSUME NEW steps, jobs[k].step \in steps, steps \in {{"write"}, {"read"}, {"link"}, {"status", "qr"}},
             Resumes(k, {"act"}), Outcome(k)
      PROVE same /\ Outcome(k) /\ kinds = "act" /\ ~Bootstraps(jobs[k])
  BY <1>8 DEF Resumes, Bootstraps, AsksSession
<1>9. CASE ServicesWritten(k) \/ AdminWritten(k) \/ ResourceWritten(k) \/ CalendarWritten(k)
           \/ ClosureWritten(k) \/ ProfileSaved(k) \/ AgentSaved(k)
  <2>1. WriteAnswered(k)
    BY <1>9 DEF ServicesWritten, AdminWritten, ResourceWritten, CalendarWritten, ClosureWritten,
                ProfileSaved, AgentSaved, ReadsBack
  <2>2. Outcome(k)
    BY <1>1, <1>9, ServicesWrittenOutcome, ReadsBackOutcome, SavedOutcome
    DEF AdminWritten, ResourceWritten, CalendarWritten, ClosureWritten
  <2>3. jobs[k].step \in {"write"} /\ Resumes(k, {"act"})  BY <2>1 DEF WriteAnswered
  <2>4. QED  BY <1>1, <1>8, <2>2, <2>3
<1>10. CASE ServicesRefreshed(k) \/ AdminRefreshed(k) \/ ListRefreshed(k)
  <2>1. jobs[k].step \in {"read"} /\ Resumes(k, {"act"})
    BY <1>10 DEF ServicesRefreshed, AdminRefreshed, ListRefreshed, ReadAgain
  <2>2. Outcome(k)
    BY <1>1, <1>10, ServicesRefreshedOutcome, AdminRefreshedOutcome, ListRefreshedOutcome
  <2>3. QED  BY <1>1, <1>8, <2>1, <2>2
<1>11. CASE ClosuresRead(k)
  <2>1. Resumes(k, {"closures"})  BY <1>11 DEF ClosuresRead
  <2>2. jobs[k].kind = "closures" /\ jobs[k].step = "read"  BY <1>1, <2>1, WorkKind DEF Resumes, Answered
  <2>3. QED  BY <1>1, <1>11, <2>1, <2>2, ClosuresReadOutcome DEF Resumes, Bootstraps, AsksSession
<1>12. CASE OwnerAnswered(k) \/ AdminVerified(k)
  <2>1. Resumes(k, {"act"}) /\ ~Bootstraps(jobs[k])
    BY <1>12 DEF OwnerAnswered, AdminVerified, SessionAnswered
  <2>2. QED  BY <1>1, <1>12, <2>1, OwnerAnsweredOutcome, AdminVerifiedOutcome DEF Resumes
<1>13. CASE LinkAnswered(k) \/ Monitored(k)
  <2>1. Resumes(k, {"act"}) /\ (jobs[k].step \in {"link"} \/ jobs[k].step \in {"status", "qr"})
    BY <1>13 DEF LinkAnswered, Monitored
  <2>2. QED  BY <1>1, <1>8, <1>13, <2>1, LinkOutcome
<1>14. QED
  BY <1>2, <1>3, <1>4, <1>5, <1>6, <1>7, <1>9, <1>10, <1>11, <1>12, <1>13 DEF Continue

-----------------------------------------------------------------------------
(* The other steps, in the same way: what goes on around the panel, what a *)
(* request is answered, and how work, loads and logouts begin.              *)

Grows == \A t \in Tenants \cup {NULL}, p \in Parts : content[t][p] \subseteq content'[t][p]

Quiet ==
  /\ UNCHANGED <<mode, tenant, tab, jobs>> /\ stored' \in {stored, 0}
  /\ now' \in Sessions /\ now <= now' /\ ended' \subseteq Sessions
  /\ content' \in [Tenants \cup {NULL} -> [Parts -> SUBSET Writes]] /\ Grows /\ faults' \in 0..MaxFaults

Served(k, p, a) ==
  /\ Waits(k, p) /\ p \in Parts /\ a \in Answer
  /\ UNCHANGED <<mode, now, tenant, stored, tab>> /\ ended' \subseteq Sessions /\ faults' \in 0..MaxFaults
  /\ content' \in [Tenants \cup {NULL} -> [Parts -> SUBSET Writes]] /\ Grows
  /\ jobs' = [jobs EXCEPT ![k] = [jobs[k] EXCEPT !.answer = [jobs[k].answer EXCEPT ![p] = a]]]
  /\ Ok(a) => a.by = jobs[k].cookie /\ a.rows = Told(jobs[k], p) /\ Refusal(jobs[k]) = "ok"

Starts(k, p, step) ==
  /\ (\E work \in BOOLEAN : Submits(k, p, work, step))
  /\ step \in {"write", "read", "before", "link"} \cap ActSteps
  /\ p \in Parts /\ (p = "side" => mode \in {"calendar", "services", "admin"})
  /\ mode \in {"admin", "services", "agent"} => ~tab.leaving
  /\ mode = "services" => step = "before"
  /\ mode = "calendar" /\ p = "side" => ~tab.leaving /\ tab.closures = "ready" /\ step = "write"

LEMMA SubmitStarts ==
  ASSUME Typed, NEW k \in Jobs, Submit(k)
  PROVE  \E p \in Parts, step \in Step : Starts(k, p, step)
<1>1. "main" \in Parts /\ "side" \in Parts /\ TRUE \in BOOLEAN /\ FALSE \in BOOLEAN
      /\ {"write", "read", "before", "link"} \subseteq Step
  BY DEF Parts, Step
<1>2. ASSUME NEW p \in Parts, WritesOrReads(k, p)
      PROVE  \E step \in {"write", "read"} : (\E work \in BOOLEAN : Submits(k, p, work, step))
  BY <1>2 DEF WritesOrReads
<1>3. CASE SubmitAdmin(k)
  <2>1. PICK p \in Parts : mode = "admin" /\ ~tab.leaving /\ WritesOrReads(k, p)  BY <1>3 DEF SubmitAdmin
  <2>2. PICK step \in {"write", "read"} : \E work \in BOOLEAN : Submits(k, p, work, step)  BY <1>2, <2>1
  <2>3. Starts(k, p, step)  BY <2>1, <2>2 DEF Starts, ActSteps
  <2>4. QED  BY <1>1, <2>2, <2>3
<1>4. CASE SubmitServices(k)
  <2>1. \E p \in Parts, work \in BOOLEAN : mode = "services" /\ ~tab.leaving /\ Submits(k, p, work, "before")
    BY <1>1, <1>4 DEF SubmitServices
  <2>2. \E p \in Parts : Starts(k, p, "before")  BY <2>1 DEF Starts, ActSteps
  <2>3. QED  BY <1>1, <2>2
<1>5. CASE SubmitResources(k) \/ SubmitCalendar(k)
  <2>1. mode \in {"resources", "calendar"} /\ WritesOrReads(k, "main")
    BY <1>5 DEF SubmitResources, SubmitCalendar
  <2>2. PICK step \in {"write", "read"} : \E work \in BOOLEAN : Submits(k, "main", work, step)  BY <1>1, <1>2, <2>1
  <2>3. Starts(k, "main", step)  BY <1>1, <2>1, <2>2 DEF Starts, ActSteps
  <2>4. QED  BY <1>1, <2>2, <2>3
<1>6. CASE SubmitClosure(k)
  <2>1. Starts(k, "side", "write")  BY <1>1, <1>6 DEF SubmitClosure, Starts, ActSteps
  <2>2. QED  BY <1>1, <2>1
<1>7. CASE SubmitProfile(k) \/ SubmitAgent(k)
  <2>1. Starts(k, "main", "write")  BY <1>1, <1>7 DEF SubmitProfile, SubmitAgent, Starts, ActSteps
  <2>2. QED  BY <1>1, <2>1
<1>8. CASE StartLink(k)
  <2>1. Starts(k, "main", "link")  BY <1>1, <1>8 DEF StartLink, Starts, ActSteps
  <2>2. QED  BY <1>1, <2>1
<1>9. QED  BY <1>3, <1>4, <1>5, <1>6, <1>7, <1>8 DEF Submit

\* Nothing that is written is lost, and a write goes to one part of one business.
LEMMA WriteGrows ==
  ASSUME TypeOK, NEW t \in Tenants \cup {NULL}, NEW p \in Parts, Writes1(t, p)
  PROVE  content' \in [Tenants \cup {NULL} -> [Parts -> SUBSET Writes]] /\ Grows
<1>1. PICK w \in Writes : content' = [content EXCEPT ![t][p] = @ \cup {w}]  BY DEF Writes1
<1>2. content \in [Tenants \cup {NULL} -> [Parts -> SUBSET Writes]]  BY DEF TypeOK
<1>3. QED  BY <1>1, <1>2 DEF Grows

LEMMA ContentKept ==
  ASSUME TypeOK, UNCHANGED content
  PROVE  content' \in [Tenants \cup {NULL} -> [Parts -> SUBSET Writes]] /\ Grows
  BY DEF TypeOK, Grows

LEMMA OthersQuiet ==
  ASSUME Typed, OtherLogin \/ SessionEnds \/ OtherWrite \/ Activity \/ UNCHANGED vars
  PROVE  Quiet
<1>1. TypeOK /\ now \in Sessions /\ now \in Nat /\ ended \subseteq Sessions /\ faults \in 0..MaxFaults
  BY PanelAssumption DEF Typed, TypeOK, Sessions
<1>2. CASE OtherLogin
  <2>1. UNCHANGED content  BY <1>2 DEF OtherLogin
  <2>2. now' \in Sessions /\ now <= now' /\ faults' \in 0..MaxFaults
    BY <1>1, <1>2, PanelAssumption DEF OtherLogin, Fault, Sessions
  <2>3. QED  BY <1>1, <1>2, <2>1, <2>2, ContentKept DEF OtherLogin, Quiet
<1>3. CASE SessionEnds
  <2>1. UNCHANGED content  BY <1>3 DEF SessionEnds
  <2>2. faults' \in 0..MaxFaults  BY <1>1, <1>3, PanelAssumption DEF SessionEnds, Fault
  <2>3. QED  BY <1>1, <1>3, <2>1, <2>2, ContentKept DEF SessionEnds, Quiet
<1>4. CASE OtherWrite
  <2>1. tenant[now] \in Tenants \cup {NULL}  BY <1>1 DEF TypeOK
  <2>2. QED  BY <1>1, <1>4, <2>1, WriteGrows DEF OtherWrite, Quiet
<1>5. CASE Activity
  <2>1. UNCHANGED <<mode, now, tenant, ended, content, tab, jobs, faults>> /\ stored' = 0
    BY <1>5 DEF Activity, server
  <2>2. QED  BY <1>1, <2>1, ContentKept DEF Quiet
<1>6. CASE UNCHANGED vars
  <2>1. UNCHANGED <<mode, now, tenant, ended, content, stored, tab, jobs, faults>>
    BY <1>6 DEF vars, server
  <2>2. QED  BY <1>1, <2>1, ContentKept DEF Quiet
<1>7. QED  BY <1>2, <1>3, <1>4, <1>5, <1>6

LEMMA CookieTenant ==
  ASSUME Typed, NEW k \in Jobs, jobs[k] # NULL
  PROVE  /\ jobs[k].cookie \in Sessions /\ jobs[k].cookie \in 0..MaxLogins
         /\ tenant[jobs[k].cookie] \in Tenants \cup {NULL}
<1>1. jobs[k].cookie \in 1..now /\ now \in Sessions  BY DEF Typed, JobsTyped, GoodJob, TypeOK
<1>2. QED  BY <1>1, PanelAssumption DEF Sessions, Typed, TypeOK

LEMMA ToldTyped ==
  ASSUME Typed, NEW k \in Jobs, jobs[k] # NULL, NEW p \in Parts,
         content' \in [Tenants \cup {NULL} -> [Parts -> SUBSET Writes]]
  PROVE  Told(jobs[k], p) \in SUBSET Writes
<1> DEFINE t == tenant[jobs[k].cookie]
<1>1. t \in Tenants \cup {NULL}  BY CookieTenant
<1>2. jobs[k].part \in Parts  BY JobOfPanel DEF Typed, Job
<1>3. \A q \in Parts : content'[t][q] \in SUBSET Writes  BY <1>1
<1>4. All(jobs[k], p) \in SUBSET Writes /\ All(jobs[k], "main") \in SUBSET Writes
      /\ All(jobs[k], "side") \in SUBSET Writes /\ Record(jobs[k]) \in SUBSET Writes
  BY <1>2, <1>3 DEF All, Record, Parts
<1>5. mode \in {"admin", "services", "resources", "calendar", "profile", "agent", "whatsapp"}
  BY PanelAssumption DEF Typed, TypeOK
<1>6. jobs[k].part \in {"main", "side"}  BY <1>2 DEF Parts
<1>7. QED  BY <1>4, <1>5, <1>6
  DEF Told, ServiceRoutes, ResourceRoutes, AdministrationRoutes, ListOrRecord, ClosureRoutes,
      CalendarRoutes, ProfileRoutes, AgentRoutes, WhatsAppRoutes

LEMMA AnswersServe ==
  ASSUME Typed, NEW k \in Jobs, NEW p \in Parts, Waits(k, p), NEW code \in Code, Answers(k, p, code),
         UNCHANGED <<mode, now, tenant, stored, tab>>, ended' \subseteq Sessions, faults' \in 0..MaxFaults,
         content' \in [Tenants \cup {NULL} -> [Parts -> SUBSET Writes]], Grows,
         code = "ok" => Refusal(jobs[k]) = "ok"
  PROVE  \E a \in Answer : Served(k, p, a)
<1> DEFINE a == IF code # "ok" THEN [code |-> code, by |-> 0, rows |-> {}]
                ELSE [code |-> code, by |-> jobs[k].cookie, rows |-> Told(jobs[k], p)]
<1>1. jobs[k] # NULL /\ jobs[k] \in Job /\ jobs \in [Jobs -> Job \cup {NULL}]
  BY JobOfPanel DEF Waits, Typed, TypeOK
<1>2. jobs[k].cookie \in 0..MaxLogins /\ Told(jobs[k], p) \in SUBSET Writes /\ 0 \in 0..MaxLogins
  BY <1>1, CookieTenant, ToldTyped, PanelAssumption
<1>3. a \in Answer /\ a.code = code  BY <1>2 DEF Answer
<1>4. Ok(a) => a.by = jobs[k].cookie /\ a.rows = Told(jobs[k], p) /\ Refusal(jobs[k]) = "ok"
  BY <1>3 DEF Ok
<1>5. jobs' = [jobs EXCEPT ![k].answer[p] = a]  BY DEF Answers
<1> HIDE DEF a
<1>6. jobs' = [jobs EXCEPT ![k] = [jobs[k] EXCEPT !.answer = [jobs[k].answer EXCEPT ![p] = a]]]
  BY <1>1, <1>5 DEF Job
<1>7. QED  BY <1>3, <1>4, <1>6 DEF Served

LEMMA ServeSteps ==
  ASSUME Typed, NEW k \in Jobs,
         (\E p \in Parts : Serve(k, p) \/ NeverServed(k, p)) \/ ServeLogout(k) \/ ServeWrite(k)
  PROVE  \E p \in Parts, a \in Answer : Served(k, p, a)
<1>1. TypeOK /\ ended \subseteq Sessions /\ faults \in 0..MaxFaults /\ MaxFaults \in Nat
      /\ "main" \in Parts /\ "ok" \in Code /\ "fail" \in Code /\ "fail" # "ok"
  BY PanelAssumption DEF Typed, TypeOK, Parts, Code
<1>2. ASSUME NEW p \in Parts, NEW code \in Code, Waits(k, p), Comes(k, p, code) \/ Lost(k, p),
             UNCHANGED <<mode, now, tenant, stored, tab>>, ended' \subseteq Sessions,
             content' \in [Tenants \cup {NULL} -> [Parts -> SUBSET Writes]], Grows,
             code = "ok" => Refusal(jobs[k]) = "ok"
      PROVE  \E a \in Answer : Served(k, p, a)
  <2>1. faults' \in 0..MaxFaults  BY <1>1, <1>2 DEF Comes, Lost, Fault
  <2>2. CASE Answers(k, p, code)  BY <1>2, <2>1, <2>2, AnswersServe
  <2>3. CASE Answers(k, p, "fail")  BY <1>1, <1>2, <2>1, <2>3, AnswersServe
  <2>4. QED  BY <1>2, <2>2, <2>3 DEF Comes, Lost
<1>3. ASSUME NEW p \in Parts, Serve(k, p) \/ NeverServed(k, p) PROVE \E a \in Answer : Served(k, p, a)
  <2>1. UNCHANGED <<mode, now, tenant, ended, content, stored, tab>> /\ Waits(k, p)
    BY <1>3 DEF Serve, NeverServed, server
  <2>2. Refusal(jobs[k]) \in Code  BY DEF Refusal, Code
  <2>3. CASE Serve(k, p)
    <3>1. Comes(k, p, Refusal(jobs[k]))  BY <2>3 DEF Serve
    <3>2. QED  BY <1>1, <1>2, <2>1, <2>2, <3>1, ContentKept
  <2>4. CASE NeverServed(k, p)
    <3>1. Lost(k, p)  BY <2>4 DEF NeverServed
    <3>2. QED  BY <1>1, <1>2, <2>1, <3>1, ContentKept
  <2>5. QED  BY <1>3, <2>3, <2>4
<1>4. CASE ServeLogout(k)
  <2>1. /\ Waits(k, "main") /\ Refusal(jobs[k]) = "ok" /\ jobs[k] # NULL
        /\ Comes(k, "main", "ok") \/ Lost(k, "main")
        /\ ended' = ended \cup {jobs[k].cookie} /\ UNCHANGED <<mode, now, tenant, content, stored, tab>>
    BY <1>4 DEF ServeLogout, Waits
  <2>2. jobs[k].cookie \in Sessions  BY <2>1, CookieTenant
  <2>3. QED  BY <1>1, <1>2, <2>1, <2>2, ContentKept
<1>5. CASE ServeWrite(k)
  <2>1. /\ Waits(k, "main") /\ Refusal(jobs[k]) = "ok" /\ jobs[k] # NULL
        /\ (Comes(k, "main", "ok") \/ Lost(k, "main")) /\ Writes1(tenant[jobs[k].cookie], jobs[k].part)
        /\ UNCHANGED <<mode, now, tenant, ended, stored, tab>>
    BY <1>5 DEF ServeWrite, Waits
  <2>2. tenant[jobs[k].cookie] \in Tenants \cup {NULL}  BY <2>1, CookieTenant
  <2>3. jobs[k].part \in Parts  BY <1>1, <2>1, JobOfPanel DEF Job
  <2>4. QED  BY <1>1, <1>2, <2>1, <2>2, <2>3, WriteGrows
<1>6. QED  BY <1>1, <1>3, <1>4, <1>5

(* Jobs that are given up are what they were, but for that. *)
SameJob(i, j) == j \in Job /\ j # NULL /\ j = [i EXCEPT !.alive = j.alive] /\ (j.alive => i.alive)

LEMMA GivenFields ==
  ASSUME TypeOK, NEW given \in [Jobs -> BOOLEAN]
  PROVE  /\ Given(jobs, given) \in [Jobs -> Job \cup {NULL}]
         /\ \A l \in Jobs : /\ jobs[l] = NULL => Given(jobs, given)[l] = NULL
                            /\ jobs[l] # NULL => SameJob(jobs[l], Given(jobs, given)[l])
                            /\ jobs[l] # NULL /\ given[l] => ~Given(jobs, given)[l].alive
                            /\ ~given[l] => Given(jobs, given)[l] = jobs[l]
<1>1. ASSUME NEW l \in Jobs, jobs[l] # NULL
      PROVE  /\ SameJob(jobs[l], [jobs[l] EXCEPT !.alive = FALSE]) /\ SameJob(jobs[l], jobs[l])
             /\ ~[jobs[l] EXCEPT !.alive = FALSE].alive
  <2>1. jobs[l] \in Job  BY <1>1, JobOfPanel
  <2> DEFINE i == jobs[l]  j == [i EXCEPT !.alive = FALSE]
  <2>2. j \in Job /\ ~j.alive /\ j = [i EXCEPT !.alive = j.alive] /\ i = [i EXCEPT !.alive = i.alive]
    BY <2>1 DEF Job
  <2> HIDE DEF j, i
  <2>3. QED  BY <1>1, <2>1, <2>2, NullIsNoRecord DEF SameJob, i, j
<1>2. \A l \in Jobs : Given(jobs, given)[l] =
        IF jobs[l] # NULL /\ given[l] THEN [jobs[l] EXCEPT !.alive = FALSE] ELSE jobs[l]
  BY DEF Given
<1>3. \A l \in Jobs : /\ jobs[l] = NULL => Given(jobs, given)[l] = NULL
                      /\ jobs[l] # NULL => SameJob(jobs[l], Given(jobs, given)[l])
                      /\ jobs[l] # NULL /\ given[l] => ~Given(jobs, given)[l].alive
                      /\ ~given[l] => Given(jobs, given)[l] = jobs[l]
  BY <1>1, <1>2
<1>4. \A l \in Jobs : Given(jobs, given)[l] \in Job \cup {NULL}  BY <1>3 DEF SameJob
<1>5. Given(jobs, given) = [l \in Jobs |-> Given(jobs, given)[l]]  BY DEF Given
<1>6. QED  BY <1>3, <1>4, <1>5

(* A load, and an attempt to log out, as they leave the panel *)
LoadBegins(k) ==
  /\ UNCHANGED <<mode, server, stored, faults>> /\ tab' \in Tab /\ jobs[k] = NULL
  /\ tab'.view = "loading" /\ tab'.attempt = tab.attempt + 1 /\ tab'.logouts = tab.logouts
  /\ tab'.leaving = tab.leaving /\ tab'.owner = 0 /\ tab'.shown = Blank
  /\ tab'.closures = "loading" /\ ~tab'.conflict /\ tab'.held["side"] = NULL
  /\ tab'.held["main"] = IF mode \in {"admin", "agent"} THEN NULL ELSE tab.held["main"]
  /\ jobs' \in [Jobs -> Job \cup {NULL}] /\ IsBegun(jobs'[k], tab', "load", "main", "session", stored)
  /\ \A l \in Jobs : l # k =>
       /\ jobs[l] = NULL => jobs'[l] = NULL
       /\ jobs[l] # NULL => SameJob(jobs[l], jobs'[l])
       /\ jobs[l] # NULL /\ (mode = "admin" \/ jobs[l].part = "side") => ~jobs'[l].alive
       /\ jobs[l] # NULL /\ mode # "admin" /\ jobs[l].part = "main" => jobs'[l] = jobs[l]

LEMMA HeldTyped ==
  ASSUME NEW t \in Tab, NEW held,
         held = [p \in Parts |-> IF p = "side" \/ mode \in {"admin", "agent"} THEN NULL ELSE t.held[p]]
  PROVE  /\ held \in [Parts -> Jobs \cup {NULL}] /\ held["side"] = NULL
         /\ held["main"] = IF mode \in {"admin", "agent"} THEN NULL ELSE t.held["main"]
<1>1. t.held \in [Parts -> Jobs \cup {NULL}] /\ "main" \in Parts /\ "side" \in Parts  BY DEF Tab, Parts
<1>2. QED  BY <1>1

LEMMA LoadFields ==
  ASSUME TypeOK, NEW k \in Jobs, Load(k)
  PROVE  LoadBegins(k)
<1> DEFINE held == [p \in Parts |-> IF p = "side" \/ mode \in {"admin", "agent"} THEN NULL ELSE tab.held[p]]
           t == [tab EXCEPT !.attempt = tab.attempt + 1, !.view = "loading", !.owner = 0, !.shown = Blank,
                       !.closures = "loading", !.conflict = FALSE, !.held = held]
           aborted == [l \in Jobs |-> jobs[l] # NULL /\ (mode = "admin" \/ jobs[l].part = "side")]
           b == Begun(t, "load", "main", FALSE, "session", stored)
           g == Given(jobs, aborted)
<1>1. tab \in Tab /\ tab.attempt \in Nat /\ 0 \in 0..MaxLogins /\ now \in Sessions /\ stored \in 0..MaxLogins
      /\ "main" \in Parts /\ "session" \in Step /\ FALSE \in BOOLEAN
  BY PanelAssumption DEF TypeOK, Tab, Parts, Step
<1>2. Blank \in [Parts -> Shown]  BY <1>1 DEF Blank, Nothing, Shown
<1>3. /\ held \in [Parts -> Jobs \cup {NULL}] /\ held["side"] = NULL
      /\ held["main"] = IF mode \in {"admin", "agent"} THEN NULL ELSE tab.held["main"]
  BY <1>1, HeldTyped
<1>4. tab' = t /\ jobs' = [g EXCEPT ![k] = b] /\ jobs[k] = NULL /\ UNCHANGED <<mode, server, stored, faults>>
  BY <1>1 DEF Load, Tab
<1>5. aborted \in [Jobs -> BOOLEAN]  OBVIOUS
<1>6. /\ g \in [Jobs -> Job \cup {NULL}]
      /\ \A l \in Jobs : /\ jobs[l] = NULL => g[l] = NULL
                         /\ jobs[l] # NULL => SameJob(jobs[l], g[l])
                         /\ jobs[l] # NULL /\ aborted[l] => ~g[l].alive
                         /\ ~aborted[l] => g[l] = jobs[l]
  <2> HIDE DEF aborted
  <2> QED  BY <1>5, GivenFields
<1> HIDE DEF held
<1>7. /\ t \in Tab /\ t.view = "loading" /\ t.attempt = tab.attempt + 1 /\ t.logouts = tab.logouts
      /\ t.leaving = tab.leaving /\ t.owner = 0 /\ t.shown = Blank
      /\ t.closures = "loading" /\ ~t.conflict /\ t.held = held
  <2>1. tab.attempt + 1 \in Nat  BY <1>1
  <2>2. t \in Tab  BY <1>1, <1>2, <1>3, <2>1 DEF Tab
  <2>3. t.conflict = FALSE  BY <1>1, Zenon DEF Tab
  <2>4. /\ t.view = "loading" /\ t.attempt = tab.attempt + 1 /\ t.logouts = tab.logouts
        /\ t.leaving = tab.leaving /\ t.owner = 0 /\ t.shown = Blank
        /\ t.closures = "loading" /\ t.held = held
    BY <1>1 DEF Tab
  <2>5. QED  BY <2>2, <2>3, <2>4
<1> HIDE DEF t
<1>8. IsBegun(b, t, "load", "main", "session", stored)
  BY <1>1, <1>7, BegunFields
<1> HIDE DEF b, g
<1>9. b \in Job  BY <1>8 DEF IsBegun
<1>10. jobs' \in [Jobs -> Job \cup {NULL}] /\ jobs'[k] = b /\ \A l \in Jobs : l # k => jobs'[l] = g[l]
  BY <1>4, <1>6, <1>9
<1>11. \A l \in Jobs : l # k =>
       /\ jobs[l] = NULL => jobs'[l] = NULL
       /\ jobs[l] # NULL => SameJob(jobs[l], jobs'[l])
       /\ jobs[l] # NULL /\ (mode = "admin" \/ jobs[l].part = "side") => ~jobs'[l].alive
       /\ jobs[l] # NULL /\ mode # "admin" /\ jobs[l].part = "main" => jobs'[l] = jobs[l]
  BY <1>6, <1>10
<1>12. QED  BY <1>3, <1>4, <1>7, <1>8, <1>10, <1>11 DEF LoadBegins

LogoutBegins(k) ==
  /\ UNCHANGED <<mode, server, stored, faults>> /\ tab' \in Tab /\ jobs[k] = NULL
  /\ tab.view = "ready" /\ ~tab.leaving /\ tab'.view = "ready" /\ tab'.leaving
  /\ tab'.attempt = tab.attempt /\ tab'.logouts = tab.logouts + 1
  /\ tab'.owner = (IF mode = "admin" THEN 0 ELSE tab.owner) /\ tab'.shown = tab.shown
  /\ tab'.closures = tab.closures /\ tab'.conflict = tab.conflict /\ tab'.held["side"] = NULL
  /\ tab'.held["main"] = IF mode \in {"admin", "agent"} THEN NULL ELSE tab.held["main"]
  /\ jobs' \in [Jobs -> Job \cup {NULL}]
  /\ IsBegun(jobs'[k], tab', "logout", IF tab.held["side"] = NULL THEN "main" ELSE "side", "write", stored)
  /\ \A l \in Jobs : l # k =>
       /\ jobs[l] = NULL => jobs'[l] = NULL
       /\ jobs[l] # NULL => SameJob(jobs[l], jobs'[l])
       /\ jobs[l] # NULL /\ (mode = "admin" \/ l = tab.held["side"]) => ~jobs'[l].alive
       /\ jobs[l] # NULL /\ mode # "admin" /\ l # tab.held["side"] => jobs'[l] = jobs[l]

LEMMA LogoutFields ==
  ASSUME TypeOK, NEW k \in Jobs, Logout(k)
  PROVE  LogoutBegins(k)
<1> DEFINE held == [p \in Parts |-> IF p = "side" \/ mode \in {"admin", "agent"} THEN NULL ELSE tab.held[p]]
           t == [tab EXCEPT !.leaving = TRUE, !.logouts = tab.logouts + 1,
                            !.owner = IF mode = "admin" THEN 0 ELSE tab.owner, !.held = held]
           aborted == [l \in Jobs |-> mode = "admin" \/ l = tab.held["side"]]
           part == IF tab.held["side"] = NULL THEN "main" ELSE "side"
           b == Begun(t, "logout", part, TRUE, "write", stored)
           g == Given(jobs, aborted)
<1>1. tab \in Tab /\ tab.logouts \in 0..MaxLogouts /\ tab.owner \in 0..MaxLogins /\ 0 \in 0..MaxLogins
      /\ now \in Sessions /\ stored \in 0..MaxLogins
      /\ part \in Parts /\ "write" \in Step /\ TRUE \in BOOLEAN
  BY PanelAssumption DEF TypeOK, Tab, Parts, Step
<1>2. /\ held \in [Parts -> Jobs \cup {NULL}] /\ held["side"] = NULL
      /\ held["main"] = IF mode \in {"admin", "agent"} THEN NULL ELSE tab.held["main"]
  BY <1>1, HeldTyped
<1>3. /\ tab' = t /\ jobs' = [g EXCEPT ![k] = b] /\ jobs[k] = NULL /\ UNCHANGED <<mode, server, stored, faults>>
      /\ tab.view = "ready" /\ ~tab.leaving /\ tab.logouts < MaxLogouts
  BY <1>1 DEF Logout, Tab
<1>4. aborted \in [Jobs -> BOOLEAN]  OBVIOUS
<1>5. /\ g \in [Jobs -> Job \cup {NULL}]
      /\ \A l \in Jobs : /\ jobs[l] = NULL => g[l] = NULL
                         /\ jobs[l] # NULL => SameJob(jobs[l], g[l])
                         /\ jobs[l] # NULL /\ aborted[l] => ~g[l].alive
                         /\ ~aborted[l] => g[l] = jobs[l]
  <2> HIDE DEF aborted
  <2> QED  BY <1>4, GivenFields
<1> HIDE DEF held
<1>6. tab.logouts + 1 \in 0..MaxLogouts  BY <1>1, <1>3, PanelAssumption
<1>7. /\ t \in Tab /\ t.view = tab.view /\ t.attempt = tab.attempt /\ t.logouts = tab.logouts + 1
      /\ t.leaving /\ t.owner = (IF mode = "admin" THEN 0 ELSE tab.owner) /\ t.shown = tab.shown
      /\ t.closures = tab.closures /\ t.conflict = tab.conflict /\ t.held = held
  BY <1>1, <1>2, <1>6 DEF Tab
<1> HIDE DEF t, part
<1>8. IsBegun(b, t, "logout", part, "write", stored)
  BY <1>1, <1>7, BegunFields
<1> HIDE DEF b, g
<1>9. b \in Job  BY <1>8 DEF IsBegun
<1>10. jobs' \in [Jobs -> Job \cup {NULL}] /\ jobs'[k] = b /\ \A l \in Jobs : l # k => jobs'[l] = g[l]
  BY <1>3, <1>5, <1>9
<1>11. \A l \in Jobs : l # k =>
       /\ jobs[l] = NULL => jobs'[l] = NULL
       /\ jobs[l] # NULL => SameJob(jobs[l], jobs'[l])
       /\ jobs[l] # NULL /\ (mode = "admin" \/ l = tab.held["side"]) => ~jobs'[l].alive
       /\ jobs[l] # NULL /\ mode # "admin" /\ l # tab.held["side"] => jobs'[l] = jobs[l]
  BY <1>5, <1>10
<1>12. QED  BY <1>2, <1>3, <1>7, <1>8, <1>10, <1>11 DEF LogoutBegins, part

SubmitBegins(k, p, step) ==
  LET s == IF mode = "calendar" THEN p ELSE "main" IN
  /\ UNCHANGED <<mode, server, stored, faults>> /\ tab' \in Tab /\ jobs[k] = NULL
  /\ tab.view = "ready" /\ tab'.view = "ready" /\ tab'.attempt = tab.attempt /\ tab'.logouts = tab.logouts
  /\ tab'.leaving = tab.leaving /\ tab'.owner = tab.owner /\ ~tab'.conflict
  /\ tab'.closures = (IF s = "side" THEN "pending" ELSE tab.closures)
  /\ tab.held[s] = NULL /\ tab'.held[s] = k /\ \A q \in Parts : q # s => tab'.held[q] = tab.held[q]
  /\ \A q \in Parts : \/ tab'.shown[q] = tab.shown[q]
                      \/ step = "link" /\ q = "side" /\ tab'.shown[q] = Nothing
  /\ IsBegun(jobs'[k], tab, "act", p, step, stored) /\ jobs' \in [Jobs -> Job \cup {NULL}]
  /\ \A l \in Jobs : l # k => jobs'[l] = jobs[l]

LEMMA SubmitFields ==
  ASSUME TypeOK, NEW k \in Jobs, NEW p \in Parts, NEW step \in Step, NEW work \in BOOLEAN,
         Submits(k, p, work, step)
  PROVE  SubmitBegins(k, p, step)
<1> DEFINE s == IF mode = "calendar" THEN p ELSE "main"
           held == [tab.held EXCEPT ![s] = k]
           closures == IF s = "side" THEN "pending" ELSE tab.closures
           shown == [tab.shown EXCEPT !["side"] = IF step = "link" THEN Nothing ELSE tab.shown["side"]]
           t == [tab EXCEPT !.held = held, !.conflict = FALSE, !.closures = closures, !.shown = shown]
           b == Begun(tab, "act", p, work, step, stored)
<1>1. /\ tab \in Tab /\ tab.held \in [Parts -> Jobs \cup {NULL}] /\ tab.shown \in [Parts -> Shown]
      /\ s \in Parts /\ "side" \in Parts /\ Nothing \in Shown /\ now \in Sessions /\ stored \in 0..MaxLogins
      /\ tab.closures \in {"loading", "error", "ready", "pending"} /\ FALSE \in BOOLEAN
      /\ jobs \in [Jobs -> Job \cup {NULL}]
  BY PanelAssumption DEF TypeOK, Tab, Parts, Nothing, Shown
<1>2. /\ tab' = t /\ jobs' = [jobs EXCEPT ![k] = b] /\ jobs[k] = NULL
      /\ tab.view = "ready" /\ tab.held[s] = NULL /\ UNCHANGED <<mode, server, stored, faults>>
  BY <1>1 DEF Submits, Tab
<1>3. held \in [Parts -> Jobs \cup {NULL}] /\ held[s] = k /\ \A q \in Parts : q # s => held[q] = tab.held[q]
  <2> HIDE DEF s
  <2> QED  BY <1>1
<1>4. closures \in {"loading", "error", "ready", "pending"}  BY <1>1
<1>5. /\ shown \in [Parts -> Shown]
      /\ \A q \in Parts : \/ shown[q] = tab.shown[q]
                          \/ step = "link" /\ q = "side" /\ shown[q] = Nothing
  BY <1>1
<1>6. IsBegun(b, tab, "act", p, step, stored)  BY <1>1, BegunFields
<1> HIDE DEF held, shown, b
<1>7. b \in Job  BY <1>6 DEF IsBegun
<1>8. jobs' \in [Jobs -> Job \cup {NULL}] /\ jobs'[k] = b /\ \A l \in Jobs : l # k => jobs'[l] = jobs[l]
  BY <1>1, <1>2, <1>7
<1>9. closures = (IF s = "side" THEN "pending" ELSE tab.closures)  OBVIOUS
<1> HIDE DEF closures, s
<1>10. t \in Tab  BY <1>1, <1>3, <1>4, <1>5 DEF Tab
<1>11. t.conflict = FALSE  BY <1>1, Zenon DEF Tab
<1>12. /\ t.view = tab.view /\ t.attempt = tab.attempt /\ t.logouts = tab.logouts /\ t.leaving = tab.leaving
       /\ t.owner = tab.owner /\ t.closures = closures /\ t.held = held /\ t.shown = shown
  BY <1>1 DEF Tab
<1> HIDE DEF t
<1>13. QED  BY <1>2, <1>3, <1>5, <1>6, <1>8, <1>9, <1>10, <1>11, <1>12 DEF SubmitBegins, s

ClosuresBegin(k, l) ==
  /\ tab' \in Tab /\ jobs[l] = NULL
  /\ tab'.view = tab.view /\ tab'.attempt = tab.attempt /\ tab'.logouts = tab.logouts
  /\ tab'.leaving = tab.leaving /\ tab'.owner = tab.owner /\ tab'.conflict = tab.conflict /\ tab'.shown = tab.shown
  /\ tab'.held["side"] = l /\ tab'.held["main"] = tab.held["main"]
  /\ IsBegun(jobs'[l], tab, "closures", "side", "read", stored') /\ jobs' \in [Jobs -> Job \cup {NULL}]
  /\ \A m \in Jobs : m # k /\ m # l => jobs'[m] = jobs[m]

LEMMA RetryClosuresFields ==
  ASSUME TypeOK, NEW k \in Jobs, RetryClosures(k)
  PROVE  /\ UNCHANGED <<mode, server, stored, faults>> /\ ClosuresBegin(k, k)
         /\ mode = "calendar" /\ tab.view = "ready" /\ ~tab.leaving /\ tab.held["side"] = NULL
         /\ tab.closures \in {"error", "ready"}
         /\ tab'.closures = IF tab.closures = "ready" THEN "pending" ELSE "loading"
<1> DEFINE held == [tab.held EXCEPT !["side"] = k]
           closures == IF tab.closures = "ready" THEN "pending" ELSE "loading"
           t == [tab EXCEPT !.held = held, !.closures = closures]
           b == Begun(tab, "closures", "side", FALSE, "read", stored)
<1>1. /\ tab \in Tab /\ tab.held \in [Parts -> Jobs \cup {NULL}]
      /\ "side" \in Parts /\ "main" \in Parts /\ now \in Sessions /\ stored \in 0..MaxLogins
      /\ "read" \in Step /\ FALSE \in BOOLEAN /\ jobs \in [Jobs -> Job \cup {NULL}]
  BY DEF TypeOK, Tab, Parts, Step
<1>2. /\ tab' = t /\ jobs' = [jobs EXCEPT ![k] = b] /\ jobs[k] = NULL /\ UNCHANGED <<mode, server, stored, faults>>
      /\ mode = "calendar" /\ tab.view = "ready" /\ ~tab.leaving /\ tab.held["side"] = NULL
      /\ tab.closures \in {"error", "ready"}
  BY <1>1 DEF RetryClosures, Tab
<1>3. held \in [Parts -> Jobs \cup {NULL}] /\ held["side"] = k /\ held["main"] = tab.held["main"]
  BY <1>1
<1>4. closures \in {"loading", "error", "ready", "pending"}  OBVIOUS
<1>5. IsBegun(b, tab, "closures", "side", "read", stored)  BY <1>1, BegunFields
<1> HIDE DEF held, b
<1>6. b \in Job  BY <1>5 DEF IsBegun
<1>7. jobs' \in [Jobs -> Job \cup {NULL}] /\ jobs'[k] = b /\ \A l \in Jobs : l # k => jobs'[l] = jobs[l]
  BY <1>1, <1>2, <1>6
<1>8. t \in Tab  BY <1>1, <1>3, <1>4 DEF Tab
<1>9. /\ t.view = tab.view /\ t.attempt = tab.attempt /\ t.logouts = tab.logouts /\ t.leaving = tab.leaving
      /\ t.owner = tab.owner /\ t.conflict = tab.conflict /\ t.shown = tab.shown
      /\ t.closures = closures /\ t.held = held
  BY <1>1 DEF Tab
<1> HIDE DEF t
<1>10. QED  BY <1>2, <1>3, <1>5, <1>7, <1>8, <1>9 DEF ClosuresBegin

-----------------------------------------------------------------------------
(* The steps of a job, in the same way *)

IsSent(s, j, step, token) ==
  /\ s \in Job /\ s # NULL
  /\ s.kind = j.kind /\ s.part = j.part /\ s.seen = j.seen /\ s.attempt = j.attempt
  /\ s.logouts = j.logouts /\ s.alive = j.alive /\ s.from = j.from
  /\ s.step = step /\ ~s.boot /\ s.cookie = now /\ s.answer = None
  /\ s.csrf = IF Mutates(step) THEN token ELSE 0

Others(k) == \A l \in Jobs : l # k => jobs'[l] = jobs[l]

LEMMA TokenTyped ==
  ASSUME Typed, NEW k \in Jobs, Answered(k)
  PROVE  Token(jobs[k]) \in 0..MaxLogins
<1>1. 0 \in 0..MaxLogins /\ stored \in 0..MaxLogins  BY PanelAssumption DEF Typed, TypeOK
<1>2. jobs[k].boot => "main" \in Asks(jobs[k])
  BY DEF Typed, JobsTyped, GoodJob, Answered, AsksSession, Asks
<1>3. jobs[k].boot => jobs[k].answer["main"].by \in 0..MaxLogins
  BY <1>2, AnswerTyped DEF Typed, Answer
<1>4. QED  BY <1>1, <1>3 DEF Token

LEMMA SeenTyped ==
  ASSUME Typed, NEW k \in Jobs, Answered(k), AsksSession(jobs[k])
  PROVE  Seen(jobs[k]) \in 0..MaxLogins
<1>1. jobs[k].answer["main"] \in Answer /\ jobs[k] \in Job
  BY AnswerTyped DEF AsksSession, Asks, Typed
<1>2. QED  BY <1>1 DEF Seen, Answer, Job

LEMMA SentIs ==
  ASSUME NEW j \in Job, NEW step \in Step, NEW token \in 0..MaxLogins, now \in Sessions
  PROVE  /\ IsSent(Sent(j, step, token), j, step, token)
         /\ Sent(j, step, token).owner = j.owner /\ Sent(j, step, token).loaded = None
  BY SentFields, SentTyped DEF IsSent

LEMMA ResumedFields ==
  ASSUME Typed, NEW k \in Jobs, Answered(k), NEW step \in Step, stored' = Token(jobs[k]),
         jobs' = [jobs EXCEPT ![k] = [Sent(@, step, stored') EXCEPT
                                       !.loaded = IF KeepsAnswers(step) THEN jobs[k].answer ELSE None]]
  PROVE  /\ jobs' \in [Jobs -> Job \cup {NULL}] /\ Others(k)
         /\ IsSent(jobs'[k], jobs[k], step, stored') /\ jobs'[k].owner = jobs[k].owner
         /\ jobs'[k].loaded = IF KeepsAnswers(step) THEN jobs[k].answer ELSE None
<1> DEFINE s == Sent(jobs[k], step, stored')
           loaded == IF KeepsAnswers(step) THEN jobs[k].answer ELSE None
           r == [s EXCEPT !.loaded = loaded]
<1>1. /\ jobs[k] \in Job /\ loaded \in [Parts -> Answer \cup {NULL}] /\ now \in Sessions
      /\ stored' \in 0..MaxLogins /\ jobs \in [Jobs -> Job \cup {NULL}]
  BY AnswerTyped, TokenTyped DEF Typed, TypeOK
<1>2. jobs' = [jobs EXCEPT ![k] = r]  BY <1>1
<1>3. IsSent(s, jobs[k], step, stored') /\ s.owner = jobs[k].owner  BY <1>1, SentIs
<1> HIDE DEF s, loaded
<1>4. s \in Job  BY <1>3 DEF IsSent
<1>5. r \in Job /\ r.loaded = loaded  BY <1>1, <1>4 DEF Job
<1>6. /\ r.kind = s.kind /\ r.part = s.part /\ r.seen = s.seen /\ r.attempt = s.attempt
      /\ r.logouts = s.logouts /\ r.alive = s.alive /\ r.from = s.from /\ r.owner = s.owner
      /\ r.step = s.step /\ r.boot = s.boot /\ r.cookie = s.cookie /\ r.answer = s.answer /\ r.csrf = s.csrf
  BY <1>4 DEF Job
<1> HIDE DEF r
<1>7. IsSent(r, jobs[k], step, stored') /\ r.owner = jobs[k].owner
  BY <1>3, <1>5, <1>6, NullIsNoRecord DEF IsSent
<1>8. QED  BY <1>1, <1>2, <1>5, <1>7 DEF loaded, Others

LEMMA EndsFields ==
  ASSUME TypeOK, NEW k \in Jobs, NEW t, Ends(k, t)
  PROVE  tab' = t /\ jobs' \in [Jobs -> Job \cup {NULL}] /\ Others(k) /\ jobs'[k] = NULL
  BY DEF TypeOK, Ends, Others

LEMMA BootstrapFields ==
  ASSUME Typed, NEW k \in Jobs, Answered(k), Bootstrap(k)
  PROVE  /\ tab' = tab /\ jobs' \in [Jobs -> Job \cup {NULL}] /\ Others(k)
         /\ LET b == jobs'[k]  j == jobs[k] IN
            /\ b \in Job /\ b # NULL /\ AsksSession(j) /\ ~j.boot /\ Ok(j.answer["main"]) /\ stored = 0
            /\ j.answer["main"] # NULL
            /\ b.kind = j.kind /\ b.part = j.part /\ b.step = j.step /\ b.attempt = j.attempt
            /\ b.logouts = j.logouts /\ b.owner = j.owner /\ b.alive = j.alive /\ b.from = j.from
            /\ b.csrf = j.csrf /\ b.loaded = j.loaded
            /\ b.boot /\ b.seen = j.answer["main"].by /\ b.cookie = now /\ b.answer = None
<1> DEFINE j == jobs[k]
           r == [j EXCEPT !.boot = TRUE, !.seen = Seen(j), !.answer = None, !.cookie = now]
<1>1. /\ j \in Job /\ None \in [Parts -> Answer \cup {NULL}] /\ now \in 0..MaxLogins
      /\ jobs \in [Jobs -> Job \cup {NULL}] /\ TRUE \in BOOLEAN
  BY AnswerTyped, PanelAssumption DEF Typed, TypeOK, Sessions
<1>2. AsksSession(j) /\ ~j.boot /\ Ok(j.answer["main"]) /\ stored = 0 /\ tab' = tab /\ jobs' = [jobs EXCEPT ![k] = r]
  BY <1>1 DEF Bootstrap, Bootstraps
<1>3. Seen(j) = j.answer["main"].by /\ Seen(j) \in 0..MaxLogins /\ j.answer["main"] # NULL
  BY <1>2, SeenTyped, AnswerTyped DEF Seen, Typed, AsksSession, Asks
<1>4. r \in Job  BY <1>1, <1>3 DEF Job
<1>5. r.boot = TRUE  BY <1>1, Zenon DEF Job
<1>6. /\ r.kind = j.kind /\ r.part = j.part /\ r.step = j.step /\ r.attempt = j.attempt
      /\ r.logouts = j.logouts /\ r.owner = j.owner /\ r.alive = j.alive /\ r.from = j.from
      /\ r.csrf = j.csrf /\ r.loaded = j.loaded /\ r.seen = Seen(j) /\ r.cookie = now /\ r.answer = None
  BY <1>1 DEF Job
<1> HIDE DEF r
<1>7. QED  BY <1>1, <1>2, <1>3, <1>4, <1>5, <1>6, NullIsNoRecord DEF Others

(* What load shows, once all it needs is read *)
PresentsAs(k, a) ==
  /\ tab' \in Tab /\ tab'.view = "ready"
  /\ tab'.owner = (IF mode \in {"admin", "services"} THEN jobs[k].owner ELSE 0)
  /\ tab'.attempt = tab.attempt /\ tab'.logouts = tab.logouts /\ tab'.leaving = tab.leaving
  /\ tab'.held = tab.held /\ tab'.closures = tab.closures /\ tab'.conflict = tab.conflict
  /\ \A p \in Parts : tab'.shown[p] = IF a[p] # NULL /\ Ok(a[p]) THEN Row(a[p]) ELSE tab.shown[p]
  /\ jobs' \in [Jobs -> Job \cup {NULL}] /\ Others(k)
  /\ \/ mode # "whatsapp" /\ jobs'[k] = NULL
     \/ mode = "whatsapp" /\ IsSent(jobs'[k], jobs[k], "qr", stored') /\ jobs'[k].owner = jobs[k].owner
        /\ jobs'[k].loaded = None

LEMMA PresentsFields ==
  ASSUME Typed, NEW k \in Jobs, Answered(k), stored' = Token(jobs[k]),
         NEW a \in [Parts -> Answer \cup {NULL}], Presents(k, a)
  PROVE  PresentsAs(k, a)
<1> DEFINE s == Showing(tab, a)
           owner == IF mode \in {"admin", "services"} THEN jobs[k].owner ELSE 0
           t == [s EXCEPT !.view = "ready", !.owner = owner]
<1>1. tab \in Tab /\ TypeOK /\ jobs[k] \in Job  BY AnswerTyped DEF Typed, TypeOK
<1>2. /\ s \in Tab /\ s = [tab EXCEPT !.shown = s.shown]
      /\ \A p \in Parts : s.shown[p] = IF a[p] # NULL /\ Ok(a[p]) THEN Row(a[p]) ELSE tab.shown[p]
  BY <1>1, ShowingFields
<1>3. owner \in 0..MaxLogins  BY <1>1, PanelAssumption DEF Job
<1>4. IF mode = "whatsapp" THEN Goes(k, t, "qr") ELSE Ends(k, t)  BY DEF Presents
<1> HIDE DEF s
<1>5. /\ s.attempt = tab.attempt /\ s.logouts = tab.logouts /\ s.leaving = tab.leaving
      /\ s.held = tab.held /\ s.closures = tab.closures /\ s.conflict = tab.conflict
  BY <1>1, <1>2 DEF Tab
<1> HIDE DEF owner
<1>6. t \in Tab /\ t.view = "ready" /\ t.owner = owner
      /\ t.attempt = s.attempt /\ t.logouts = s.logouts /\ t.leaving = s.leaving
      /\ t.held = s.held /\ t.closures = s.closures /\ t.conflict = s.conflict /\ t.shown = s.shown
  BY <1>2, <1>3 DEF Tab
<1> HIDE DEF t
<1>7. CASE mode # "whatsapp"
  <2>1. Ends(k, t)  BY <1>4, <1>7
  <2>2. tab' = t /\ jobs' \in [Jobs -> Job \cup {NULL}] /\ Others(k) /\ jobs'[k] = NULL
    BY <1>1, <2>1, EndsFields
  <2>3. QED  BY <1>2, <1>5, <1>6, <1>7, <2>2 DEF PresentsAs, owner
<1>8. CASE mode = "whatsapp"
  <2>1. "qr" \in Step /\ ~KeepsAnswers("qr")  BY DEF Step, KeepsAnswers
  <2>2. Goes(k, t, "qr")  BY <1>4, <1>8
  <2>3. tab' = t /\ jobs' = [jobs EXCEPT ![k] = [Sent(@, "qr", stored') EXCEPT
                      !.loaded = IF KeepsAnswers("qr") THEN jobs[k].answer ELSE None]]
    BY <1>1, <2>1, <2>2, GoesResumes
  <2>4. /\ jobs' \in [Jobs -> Job \cup {NULL}] /\ Others(k) /\ IsSent(jobs'[k], jobs[k], "qr", stored')
        /\ jobs'[k].owner = jobs[k].owner /\ jobs'[k].loaded = None
    BY <2>1, <2>3, ResumedFields
  <2>5. QED  BY <1>2, <1>5, <1>6, <1>8, <2>3, <2>4 DEF PresentsAs, owner
<1>9. QED  BY <1>7, <1>8

\* A load that ends without having anything to show, and says why
GivesUp(k) ==
  /\ jobs[k].step # "qr"
  /\ jobs' \in [Jobs -> Job \cup {NULL}] /\ Others(k) /\ jobs'[k] = NULL
  /\ \/ ~Current(k) /\ tab' = tab
     \/ /\ Current(k) /\ tab' \in Tab /\ tab'.view \in {"recovery", "error", "denied"}
        /\ tab'.attempt = tab.attempt /\ tab'.logouts = tab.logouts /\ tab'.leaving = tab.leaving
        /\ tab'.owner = tab.owner /\ tab'.held = tab.held /\ tab'.shown = tab.shown
        /\ tab'.closures = tab.closures /\ tab'.conflict = tab.conflict

LEMMA GivesUpFields ==
  ASSUME TypeOK, NEW k \in Jobs, jobs[k].step # "qr",
         \/ ~Current(k) /\ Ends(k, tab)
         \/ Current(k) /\ \E view \in {"recovery", "error", "denied"} : Fails(k, view)
  PROVE  GivesUp(k)
<1>1. tab \in Tab  BY DEF TypeOK
<1>2. CASE ~Current(k) /\ Ends(k, tab)
  BY <1>2, EndsFields DEF GivesUp
<1>3. ASSUME Current(k), NEW view \in {"recovery", "error", "denied"}, Fails(k, view) PROVE GivesUp(k)
  <2> DEFINE t == [tab EXCEPT !.view = view]
  <2>1. Ends(k, t)  BY <1>3 DEF Fails
  <2>2. /\ t \in Tab /\ t.view = view
        /\ t.attempt = tab.attempt /\ t.logouts = tab.logouts /\ t.leaving = tab.leaving
        /\ t.owner = tab.owner /\ t.held = tab.held /\ t.shown = tab.shown
        /\ t.closures = tab.closures /\ t.conflict = tab.conflict
    BY <1>1, <1>3 DEF Tab
  <2> HIDE DEF t
  <2>3. tab' = t /\ jobs' \in [Jobs -> Job \cup {NULL}] /\ Others(k) /\ jobs'[k] = NULL  BY <2>1, EndsFields
  <2>4. QED  BY <1>3, <2>2, <2>3 DEF GivesUp
<1>4. QED  BY <1>2, <1>3

\* A load that knows whose session it is reads what it shows.
Reading(k) ==
  /\ Current(k) /\ Ok(jobs[k].answer["main"]) /\ RoleFits(Seen(jobs[k])) /\ jobs[k].step = "session"
  /\ jobs[k].answer["main"] # NULL
  /\ IsSent(jobs'[k], jobs[k], "read", stored') /\ jobs'[k].owner = Seen(jobs[k]) /\ jobs'[k].loaded = None
  /\ \/ mode # "calendar" /\ tab' = tab /\ jobs' \in [Jobs -> Job \cup {NULL}] /\ Others(k)
     \/ mode = "calendar" /\ \E l \in Jobs : l # k /\ ClosuresBegin(k, l) /\ tab'.closures = tab.closures

LEMMA LoadSessionFields ==
  ASSUME Typed, NEW k \in Jobs, Answered(k), LoadSession(k)
  PROVE  GivesUp(k) \/ Reading(k)
<1> DEFINE j == jobs[k]  owned == [j EXCEPT !.owner = Seen(j)]  s == Sent(owned, "read", stored')
           reading == [jobs EXCEPT ![k] = Sent([@ EXCEPT !.owner = Seen(j)], "read", stored')]
<1>1. /\ TypeOK /\ j \in Job /\ j # NULL /\ j.step = "session" /\ j.answer["main"] # NULL
      /\ stored' = Token(j) /\ mode' = mode /\ jobs \in [Jobs -> Job \cup {NULL}] /\ tab \in Tab
  BY AnswerTyped DEF LoadSession, Resumes, Typed, TypeOK, Asks
<1>2. ~Current(k) /\ Ends(k, tab) => GivesUp(k)  BY <1>1, GivesUpFields
<1>3. ASSUME NEW view \in {"recovery", "error", "denied"}, Current(k), Fails(k, view) PROVE GivesUp(k)
  BY <1>1, <1>3, GivesUpFields
<1>4. ASSUME Current(k), Ok(j.answer["main"]), RoleFits(Seen(j)),
             IF mode # "calendar" THEN tab' = tab /\ jobs' = reading
             ELSE \E l \in Jobs :
               /\ jobs[l] = NULL
               /\ tab' = [tab EXCEPT !.held["side"] = l]
               /\ jobs' = [reading EXCEPT ![l] = Begun(tab, "closures", "side", FALSE, "read", stored')]
      PROVE  Reading(k)
  <2>1. /\ Seen(j) \in 0..MaxLogins /\ stored' \in 0..MaxLogins /\ now \in Sessions /\ "read" \in Step
        /\ "side" \in Parts /\ "main" \in Parts /\ FALSE \in BOOLEAN
    BY <1>1, SeenTyped, TokenTyped DEF AsksSession, TypeOK, Step, Parts
  <2>2. owned \in Job /\ owned.owner = Seen(j)
        /\ owned.kind = j.kind /\ owned.part = j.part /\ owned.seen = j.seen /\ owned.attempt = j.attempt
        /\ owned.logouts = j.logouts /\ owned.alive = j.alive /\ owned.from = j.from
    BY <1>1, <2>1 DEF Job
  <2>3. reading = [jobs EXCEPT ![k] = s]  BY <1>1
  <2> HIDE DEF owned, reading
  <2>4. IsSent(s, j, "read", stored') /\ s.owner = Seen(j) /\ s.loaded = None
    BY <2>1, <2>2, SentIs DEF IsSent
  <2> HIDE DEF s
  <2>5. s \in Job  BY <2>4 DEF IsSent
  <2>6. reading \in [Jobs -> Job \cup {NULL}] /\ reading[k] = s /\ \A l \in Jobs : l # k => reading[l] = jobs[l]
    BY <1>1, <2>3, <2>5
  <2>7. CASE mode # "calendar"
    BY <1>1, <1>4, <2>4, <2>6, <2>7 DEF Reading, Others
  <2>8. CASE mode = "calendar"
    <3>1. PICK l \in Jobs :
            /\ jobs[l] = NULL
            /\ tab' = [tab EXCEPT !.held["side"] = l]
            /\ jobs' = [reading EXCEPT ![l] = Begun(tab, "closures", "side", FALSE, "read", stored')]
      BY <1>4, <2>8
    <3> DEFINE b == Begun(tab, "closures", "side", FALSE, "read", stored')
               held == [tab.held EXCEPT !["side"] = l]
               t == [tab EXCEPT !.held = held]
    <3>2. IsBegun(b, tab, "closures", "side", "read", stored')  BY <1>1, <2>1, BegunFields
    <3>3. tab.held \in [Parts -> Jobs \cup {NULL}]  BY <1>1 DEF Tab
    <3>4. held \in [Parts -> Jobs \cup {NULL}] /\ held["side"] = l /\ held["main"] = tab.held["main"]
      BY <2>1, <3>3
    <3>5. tab' = t  BY <1>1, <3>1 DEF Tab
    <3> HIDE DEF held, b
    <3>6. /\ t \in Tab /\ t.held = held /\ t.view = tab.view /\ t.attempt = tab.attempt
          /\ t.logouts = tab.logouts /\ t.leaving = tab.leaving /\ t.owner = tab.owner
          /\ t.conflict = tab.conflict /\ t.shown = tab.shown /\ t.closures = tab.closures
      BY <1>1, <3>4 DEF Tab
    <3>7. b \in Job /\ l # k  BY <1>1, <3>1, <3>2 DEF IsBegun
    <3>8. /\ jobs' \in [Jobs -> Job \cup {NULL}] /\ jobs'[l] = b /\ jobs'[k] = s
          /\ \A m \in Jobs : m # k /\ m # l => jobs'[m] = jobs[m]
      BY <2>6, <3>1, <3>7 DEF b
    <3> HIDE DEF t
    <3>9. ClosuresBegin(k, l)  BY <3>1, <3>2, <3>4, <3>5, <3>6, <3>8 DEF ClosuresBegin
    <3>10. QED  BY <1>1, <1>4, <2>4, <2>8, <3>5, <3>6, <3>7, <3>8, <3>9 DEF Reading
  <2>9. QED  BY <2>7, <2>8
<1>5. QED  BY <1>2, <1>3, <1>4 DEF LoadSession

Verifying(k) ==
  /\ Current(k) /\ jobs[k].step = "read" /\ tab' = tab /\ mode \in {"services", "admin"}
  /\ \A p \in Reads(jobs[k]) : Ok(jobs[k].answer[p]) \/ (mode = "admin" /\ p = "side")
  /\ jobs' \in [Jobs -> Job \cup {NULL}] /\ Others(k) /\ IsSent(jobs'[k], jobs[k], "verify", stored')
  /\ jobs'[k].owner = jobs[k].owner /\ jobs'[k].loaded = jobs[k].answer
Presenting(k) ==
  \E a \in [Parts -> Answer \cup {NULL}] :
    /\ Current(k) /\ PresentsAs(k, a)
    /\ \/ /\ jobs[k].step = "read" /\ a = jobs[k].answer /\ mode # "services"
          /\ \A p \in Reads(jobs[k]) : Ok(a[p]) \/ (mode = "admin" /\ p = "side")
       \/ /\ jobs[k].step = "verify" /\ a = jobs[k].loaded /\ Same(jobs[k])

LEMMA LoadReadFields ==
  ASSUME Typed, NEW k \in Jobs, Answered(k), LoadRead(k) \/ LoadVerify(k)
  PROVE  GivesUp(k) \/ Verifying(k) \/ Presenting(k)
<1> DEFINE j == jobs[k]
<1>1. TypeOK /\ stored' = Token(j) /\ j.answer \in [Parts -> Answer \cup {NULL}]
      /\ j.loaded \in [Parts -> Answer \cup {NULL}] /\ j.step # "qr"
  BY AnswerTyped DEF LoadRead, LoadVerify, Resumes, Typed
<1>2. ~Current(k) /\ Ends(k, tab) => GivesUp(k)  BY <1>1, GivesUpFields
<1>3. Current(k) /\ Fails(k, "error") => GivesUp(k)  BY <1>1, GivesUpFields
<1>4. CASE LoadRead(k)
  <2> DEFINE failed == \E p \in Reads(j) : ~Ok(j.answer[p]) /\ ~(mode = "admin" /\ p = "side")
  <2>1. j.step = "read"  BY <1>4 DEF LoadRead
  <2>2. CASE Current(k) /\ ~failed /\ Verifies(j.answer) /\ GoesWith(k, tab, "verify")
    <3>1. "verify" \in Step /\ KeepsAnswers("verify")  BY DEF Step, KeepsAnswers
    <3>2. tab' = tab /\ jobs' = [jobs EXCEPT ![k] = [Sent(@, "verify", stored') EXCEPT
                      !.loaded = IF KeepsAnswers("verify") THEN jobs[k].answer ELSE None]]
      BY <1>1, <2>2, <3>1, GoesResumes
    <3>3. QED  BY <1>1, <2>1, <2>2, <3>1, <3>2, ResumedFields DEF Verifying, Verifies
  <2>3. CASE Current(k) /\ ~failed /\ ~Verifies(j.answer) /\ Presents(k, j.answer)
    <3>1. PresentsAs(k, j.answer)  BY <1>1, <2>3, PresentsFields
    <3>2. QED  BY <1>1, <2>1, <2>3, <3>1 DEF Presenting, Verifies
  <2>4. QED  BY <1>2, <1>3, <1>4, <2>2, <2>3 DEF LoadRead
<1>5. CASE LoadVerify(k)
  <2>1. j.step = "verify"  BY <1>5 DEF LoadVerify
  <2>2. CASE Current(k) /\ Same(j) /\ Presents(k, j.loaded)
    <3>1. PresentsAs(k, j.loaded)  BY <1>1, <2>2, PresentsFields
    <3>2. QED  BY <1>1, <2>1, <2>2, <3>1 DEF Presenting
  <2>3. QED  BY <1>2, <1>3, <1>5, <2>2 DEF LoadVerify
<1>6. QED  BY <1>4, <1>5

\* The panel keeps its place: only what is shown, held or said of the closures changes.
Stays ==
  /\ tab' \in Tab /\ tab'.view = tab.view /\ tab'.attempt = tab.attempt /\ tab'.logouts = tab.logouts
  /\ tab'.leaving = tab.leaving /\ tab'.owner = tab.owner

LetGo(k, t) ==
  LET s == Slot(jobs[k]) IN
  /\ Stays /\ s \in Parts /\ tab'.shown = t.shown /\ tab'.conflict = t.conflict
  /\ tab'.held[s] = (IF Owns(tab, k) THEN NULL ELSE tab.held[s])
  /\ \A p \in Parts : p # s => tab'.held[p] = tab.held[p]
  /\ tab'.closures = (IF s = "side" /\ Owns(tab, k) /\ t.closures = "pending" THEN "ready" ELSE t.closures)
  /\ jobs' \in [Jobs -> Job \cup {NULL}] /\ Others(k) /\ jobs'[k] = NULL

GoesOn(k, t, step) ==
  /\ Stays /\ tab' = t /\ tab'.held = tab.held
  /\ Resumed(k, step) /\ jobs' \in [Jobs -> Job \cup {NULL}] /\ Others(k)
  /\ IsSent(jobs'[k], jobs[k], step, stored') /\ jobs'[k].owner = jobs[k].owner
  /\ jobs'[k].loaded = IF KeepsAnswers(step) THEN jobs[k].answer ELSE None

LosesPanel(k) ==
  /\ Current(k) /\ jobs[k].kind = "act" /\ mode \in {"admin", "services"}
  /\ tab' \in Tab /\ tab'.view = "error" /\ tab'.attempt = tab.attempt /\ tab'.logouts = tab.logouts
  /\ tab'.leaving = tab.leaving /\ tab'.owner = 0 /\ tab'.shown = Blank /\ tab'.conflict = tab.conflict
  /\ tab'.closures = tab.closures /\ tab'.held["main"] = NULL /\ tab'.held["side"] = tab.held["side"]
  /\ jobs' \in [Jobs -> Job \cup {NULL}] /\ Others(k) /\ jobs'[k] = NULL

Works(k) ==
  \/ \E t : Fits(k, t) /\ (LetGo(k, t) \/ \E step \in Step : GoesOn(k, t, step))
  \/ LosesPanel(k)

LEMMA WorkFields ==
  ASSUME Typed, NEW k \in Jobs, Answered(k), stored' = Token(jobs[k]), Outcome(k)
  PROVE  Works(k)
<1>1. TypeOK /\ tab \in Tab  BY DEF Typed, TypeOK
<1>2. ASSUME NEW t, Fits(k, t), Done(k, t) PROVE LetGo(k, t)
  <2> DEFINE u == LetsGo(t, k)
  <2>1. t \in Tab /\ SamePanel(tab, t)  BY <1>2 DEF Fits
  <2>2. tab' = u /\ jobs' \in [Jobs -> Job \cup {NULL}] /\ Others(k) /\ jobs'[k] = NULL
    BY <1>1, <1>2, EndsFields DEF Done
  <2>3. /\ u \in Tab /\ u = [t EXCEPT !.held = u.held, !.closures = u.closures]
        /\ Slot(jobs[k]) \in Parts
        /\ u.held[Slot(jobs[k])] = IF Owns(t, k) THEN NULL ELSE t.held[Slot(jobs[k])]
        /\ \A p \in Parts : p # Slot(jobs[k]) => u.held[p] = t.held[p]
        /\ u.closures = IF Slot(jobs[k]) = "side" /\ Owns(t, k) /\ t.closures = "pending" THEN "ready" ELSE t.closures
    BY <2>1, LetsGoFields
  <2>4. Owns(t, k) = Owns(tab, k)  BY <2>1 DEF Owns, SamePanel
  <2> HIDE DEF u
  <2>5. u.view = t.view /\ u.attempt = t.attempt /\ u.logouts = t.logouts /\ u.leaving = t.leaving
        /\ u.owner = t.owner /\ u.shown = t.shown /\ u.conflict = t.conflict
    BY <2>1, <2>3 DEF Tab
  <2>6. QED  BY <2>1, <2>2, <2>3, <2>4, <2>5 DEF LetGo, Stays, SamePanel
<1>3. ASSUME NEW t, NEW step \in Step, Fits(k, t), tab' = t, Resumed(k, step) PROVE GoesOn(k, t, step)
  <2>1. t \in Tab /\ SamePanel(tab, t)  BY <1>3 DEF Fits
  <2>2. /\ jobs' \in [Jobs -> Job \cup {NULL}] /\ Others(k)
        /\ IsSent(jobs'[k], jobs[k], step, stored') /\ jobs'[k].owner = jobs[k].owner
        /\ jobs'[k].loaded = IF KeepsAnswers(step) THEN jobs[k].answer ELSE None
    BY <1>3, ResumedFields DEF Resumed
  <2>3. QED  BY <1>3, <2>1, <2>2 DEF GoesOn, Stays, SamePanel
<1>4. ASSUME Loses(k), Current(k), jobs[k].kind = "act", mode \in {"admin", "services"} PROVE LosesPanel(k)
  <2> DEFINE held == [tab.held EXCEPT !["main"] = NULL]
             t == [tab EXCEPT !.view = "error", !.owner = 0, !.shown = Blank, !.held = held]
  <2>1. /\ tab.held \in [Parts -> Jobs \cup {NULL}] /\ 0 \in 0..MaxLogins /\ Blank \in [Parts -> Shown]
        /\ "main" \in Parts /\ "side" \in Parts
    BY <1>1, PanelAssumption DEF Tab, Blank, Nothing, Shown, Parts
  <2>2. held \in [Parts -> Jobs \cup {NULL}] /\ held["main"] = NULL /\ held["side"] = tab.held["side"]
    BY <2>1
  <2>3. Ends(k, t)  BY <1>1, <1>4 DEF Loses, Tab
  <2>4. tab' = t /\ jobs' \in [Jobs -> Job \cup {NULL}] /\ Others(k) /\ jobs'[k] = NULL
    BY <1>1, <2>3, EndsFields
  <2> HIDE DEF held
  <2>5. /\ t \in Tab /\ t.view = "error" /\ t.attempt = tab.attempt /\ t.logouts = tab.logouts
        /\ t.leaving = tab.leaving /\ t.owner = 0 /\ t.shown = Blank /\ t.conflict = tab.conflict
        /\ t.closures = tab.closures /\ t.held = held
    BY <1>1, <2>1, <2>2 DEF Tab
  <2> HIDE DEF t
  <2>6. QED  BY <1>4, <2>2, <2>4, <2>5 DEF LosesPanel
<1>5. QED  BY <1>2, <1>3, <1>4 DEF Outcome, Works

\* The page is left, or the session logged out.
Leaves ==
  /\ tab' \in Tab /\ tab'.view = "gone" /\ tab'.attempt = tab.attempt /\ tab'.logouts = tab.logouts
  /\ tab'.leaving = tab.leaving /\ tab'.owner = 0 /\ tab'.shown = Blank /\ ~tab'.conflict
  /\ tab'.held = None /\ tab'.closures = "loading" /\ jobs' = [k \in Jobs |-> NULL]

LEMMA GoneFields ==
  ASSUME TypeOK, Gone
  PROVE  Leaves
<1>1. tab \in Tab /\ 0 \in 0..MaxLogins /\ Blank \in [Parts -> Shown] /\ None \in [Parts -> Jobs \cup {NULL}]
      /\ FALSE \in BOOLEAN
  BY PanelAssumption DEF TypeOK, Blank, Nothing, Shown, None
<1>2. Left \in Tab  BY <1>1 DEF Left, Tab
<1>3. Left.conflict = FALSE  BY <1>1, Zenon DEF Left, Tab
<1>4. /\ Left.view = "gone" /\ Left.attempt = tab.attempt /\ Left.logouts = tab.logouts
      /\ Left.leaving = tab.leaving /\ Left.owner = 0 /\ Left.shown = Blank
      /\ Left.held = None /\ Left.closures = "loading"
  BY <1>1 DEF Left, Tab
<1>5. QED  BY <1>2, <1>3, <1>4 DEF Gone, Leaves

\* An attempt to log out that failed
LogoutFails(k) ==
  /\ jobs[k].kind = "logout" /\ tab' \in Tab /\ tab'.view = tab.view /\ tab'.attempt = tab.attempt
  /\ tab'.logouts = tab.logouts /\ ~tab'.leaving /\ tab'.owner = tab.owner /\ tab'.shown = tab.shown
  /\ tab'.conflict = tab.conflict /\ tab'.held = tab.held /\ tab'.closures = Restored(jobs[k])
  /\ jobs' \in [Jobs -> Job \cup {NULL}] /\ Others(k) /\ jobs'[k] = NULL

LEMMA LoggedOutFields ==
  ASSUME TypeOK, NEW k \in Jobs, LoggedOut(k)
  PROVE  Leaves \/ LogoutFails(k)
<1> DEFINE t == [tab EXCEPT !.leaving = FALSE, !.closures = Restored(jobs[k])]
<1>1. tab \in Tab /\ FALSE \in BOOLEAN /\ jobs[k].kind = "logout"
  BY DEF TypeOK, LoggedOut, Resumes
<1>2. Restored(jobs[k]) \in {"loading", "error", "ready", "pending"}
  BY <1>1 DEF Restored, Tab
<1>3. CASE Gone  BY <1>3, GoneFields
<1>4. CASE Ends(k, t)
  <2>1. tab' = t /\ jobs' \in [Jobs -> Job \cup {NULL}] /\ Others(k) /\ jobs'[k] = NULL
    BY <1>4, EndsFields
  <2>2. t \in Tab  BY <1>1, <1>2 DEF Tab
  <2>3. t.leaving = FALSE  BY <1>1, Zenon DEF Tab
  <2>4. /\ t.view = tab.view /\ t.attempt = tab.attempt /\ t.logouts = tab.logouts /\ t.owner = tab.owner
        /\ t.shown = tab.shown /\ t.conflict = tab.conflict /\ t.held = tab.held
        /\ t.closures = Restored(jobs[k])
    BY <1>1 DEF Tab
  <2> HIDE DEF t
  <2>5. QED  BY <1>1, <2>1, <2>2, <2>3, <2>4 DEF LogoutFails
<1>5. QED  BY <1>3, <1>4 DEF LoggedOut

\* The QR that a load shows, or does not
ShowsLoadedQr(k) ==
  /\ Stays /\ tab'.held = tab.held /\ tab'.closures = tab.closures /\ tab'.conflict = tab.conflict
  /\ tab'.shown["main"] = tab.shown["main"] /\ jobs[k].step = "qr"
  /\ \/ tab'.shown["side"] = tab.shown["side"]
     \/ /\ jobs[k].answer["main"] # NULL /\ Ok(jobs[k].answer["main"])
        /\ tab'.shown["side"] = Row(jobs[k].answer["main"])
  /\ jobs' \in [Jobs -> Job \cup {NULL}] /\ Others(k) /\ jobs'[k] = NULL

LEMMA LoadQrFields ==
  ASSUME Typed, NEW k \in Jobs, Answered(k), LoadQr(k)
  PROVE  ShowsLoadedQr(k)
<1> DEFINE a == jobs[k].answer["main"]  s == Showing(tab, Only(a))
<1>1. TypeOK /\ tab \in Tab /\ jobs[k].step = "qr" /\ "side" \in Parts /\ "main" \in Parts
  BY DEF Typed, TypeOK, LoadQr, Parts
<1>2. a \in Answer /\ a # NULL  BY <1>1, AnswerTyped DEF Asks
<1>3. CASE Ends(k, tab)
  <2>1. tab' = tab /\ jobs' \in [Jobs -> Job \cup {NULL}] /\ Others(k) /\ jobs'[k] = NULL
    BY <1>1, <1>3, EndsFields
  <2>2. QED  BY <1>1, <2>1 DEF ShowsLoadedQr, Stays
<1>4. CASE Ok(a) /\ Ends(k, s)
  <2>1. tab' = s /\ jobs' \in [Jobs -> Job \cup {NULL}] /\ Others(k) /\ jobs'[k] = NULL
    BY <1>1, <1>4, EndsFields
  <2>2. /\ s \in Tab /\ s = [tab EXCEPT !.shown = s.shown]
        /\ \A p \in Parts : s.shown[p] = IF Only(a)[p] # NULL /\ Ok(Only(a)[p]) THEN Row(Only(a)[p]) ELSE tab.shown[p]
    BY <1>1, <1>2, OnlyFields, ShowingFields
  <2> HIDE DEF s
  <2>3. s.shown["side"] = Row(a) /\ s.shown["main"] = tab.shown["main"]
    BY <1>1, <1>2, <1>4, <2>2, OnlyFields
  <2>4. /\ s.view = tab.view /\ s.attempt = tab.attempt /\ s.logouts = tab.logouts /\ s.leaving = tab.leaving
        /\ s.owner = tab.owner /\ s.held = tab.held /\ s.closures = tab.closures /\ s.conflict = tab.conflict
    BY <1>1, <2>2 DEF Tab
  <2>5. QED  BY <1>1, <1>2, <1>4, <2>1, <2>2, <2>3, <2>4 DEF ShowsLoadedQr, Stays
<1>5. Ends(k, tab) \/ (Ok(a) /\ Ends(k, s))
  BY DEF LoadQr, Only
<1>6. QED  BY <1>3, <1>4, <1>5

Expires(k) ==
  /\ UNCHANGED <<mode, server, stored, faults>> /\ mode = "whatsapp"
  /\ Stays /\ tab'.held = tab.held /\ tab'.closures = tab.closures /\ tab'.conflict = tab.conflict
  /\ tab'.shown["side"] = Nothing /\ tab'.shown["main"] = tab.shown["main"]
  /\ jobs[k] # NULL /\ jobs[k].kind = "act"
  /\ SameJob(jobs[k], jobs'[k]) /\ Others(k) /\ jobs' \in [Jobs -> Job \cup {NULL}]

LEMMA LinkExpiresFields ==
  ASSUME TypeOK, NEW k \in Jobs, LinkExpires(k)
  PROVE  Expires(k)
<1> DEFINE j == jobs[k]  i == [j EXCEPT !.alive = FALSE]
<1>1. /\ tab \in Tab /\ j \in Job /\ j # NULL /\ jobs \in [Jobs -> Job \cup {NULL}] /\ FALSE \in BOOLEAN
      /\ mode = "whatsapp" /\ j.kind = "act" /\ tab' = NoQr /\ UNCHANGED <<mode, server, stored, faults>>
  BY JobOfPanel DEF TypeOK, LinkExpires, NoQr
<1>2. jobs' = [jobs EXCEPT ![k] = i]  BY <1>1 DEF LinkExpires
<1>3. SameJob(j, i)
  <2>1. i \in Job /\ ~i.alive /\ i = [j EXCEPT !.alive = i.alive]  BY <1>1 DEF Job
  <2> HIDE DEF i
  <2>2. QED  BY <1>1, <2>1, NullIsNoRecord DEF SameJob
<1> HIDE DEF i
<1>4. /\ Fits(k, NoQr) /\ NoQr = [tab EXCEPT !.shown = NoQr.shown]
      /\ NoQr.shown["side"] = Nothing /\ NoQr.shown["main"] = tab.shown["main"]
  <2>1. Fits(k, NoQr)  BY <1>1, FitsNoQr
  <2>2. tab.shown \in [Parts -> Shown] /\ "side" \in Parts /\ "main" \in Parts  BY <1>1 DEF Tab, Parts
  <2>3. NoQr.shown = [tab.shown EXCEPT !["side"] = Nothing]  BY <1>1, <2>2 DEF NoQr, Tab
  <2>4. NoQr = [tab EXCEPT !.shown = NoQr.shown]  BY <1>1 DEF NoQr, Tab
  <2>5. QED  BY <2>1, <2>2, <2>3, <2>4
<1>5. NoQr.closures = tab.closures /\ NoQr.conflict = tab.conflict  BY <1>1, <1>4 DEF Tab
<1>6. jobs'[k] = i /\ Others(k) /\ jobs' \in [Jobs -> Job \cup {NULL}]
  BY <1>1, <1>2, <1>3 DEF SameJob, Others
<1>7. QED  BY <1>1, <1>3, <1>4, <1>5, <1>6 DEF Expires, Stays, Fits, SamePanel

-----------------------------------------------------------------------------
(* Every step, in the same way.  What is around the panel changes only when *)
(* the panel does not, or when a request is served.                         *)

Still == UNCHANGED <<mode, now, tenant, ended, content, faults>>

\* A job that had no token asks for one.
Bootstrapped(k) ==
  /\ tab' = tab /\ jobs' \in [Jobs -> Job \cup {NULL}] /\ Others(k)
  /\ LET b == jobs'[k]  j == jobs[k] IN
     /\ b \in Job /\ b # NULL /\ AsksSession(j) /\ ~j.boot /\ Ok(j.answer["main"]) /\ stored = 0
     /\ j.answer["main"] # NULL
     /\ b.kind = j.kind /\ b.part = j.part /\ b.step = j.step /\ b.attempt = j.attempt
     /\ b.logouts = j.logouts /\ b.owner = j.owner /\ b.alive = j.alive /\ b.from = j.from
     /\ b.csrf = j.csrf /\ b.loaded = j.loaded
     /\ b.boot /\ b.seen = j.answer["main"].by /\ b.cookie = now /\ b.answer = None

LoadGoes(k) ==
  jobs[k].kind = "load" /\ (GivesUp(k) \/ Reading(k) \/ Verifying(k) \/ Presenting(k) \/ ShowsLoadedQr(k))
WorkGoes(k) ==
  /\ jobs[k].kind \in {"act", "closures"} /\ ~Bootstraps(jobs[k]) /\ Works(k)
  /\ jobs[k].kind = "closures" /\ Current(k) => tab'.closures # "loading"
JobGoes(k) ==
  /\ Answered(k) /\ Still /\ stored' = Token(jobs[k])
  /\ \/ jobs[k].kind \in {"load", "act"} /\ Bootstrapped(k)
     \/ LoadGoes(k) \/ WorkGoes(k) \/ LogoutFails(k)

LoadsAgain(k) == LoadBegins(k) /\ (tab.view = "error" \/ (tab.view = "ready" /\ tab.conflict))
RetriesClosures(k) ==
  /\ Still /\ stored' = stored /\ ClosuresBegin(k, k)
  /\ mode = "calendar" /\ tab.view = "ready" /\ ~tab.leaving /\ tab.held["side"] = NULL
  /\ tab.closures \in {"error", "ready"}
  /\ tab'.closures = IF tab.closures = "ready" THEN "pending" ELSE "loading"
Submitted(k) == \E p \in Parts, step \in Step : Starts(k, p, step) /\ SubmitBegins(k, p, step)

LeavesStill == Leaves /\ Still /\ stored' \in {stored, 0}

StepOf ==
  \/ Quiet \/ LeavesStill
  \/ \E k \in Jobs : \/ \E p \in Parts, a \in Answer : Served(k, p, a)
                     \/ JobGoes(k) \/ LoadsAgain(k) \/ RetriesClosures(k) \/ Submitted(k)
                     \/ LogoutBegins(k) \/ Expires(k)

\* Closures that are read are not loading any more.
LEMMA ClosuresEnd ==
  ASSUME Typed, NEW k \in Jobs, Continue(k), jobs[k].kind = "closures", Current(k)
  PROVE  tab'.closures # "loading"
<1>1. TypeOK /\ Answered(k) /\ jobs[k] # NULL  BY DEF Typed, Continue, Answered
<1>2. ~Resumes(k, {"load"}) /\ ~Resumes(k, {"act"}) /\ ~Resumes(k, {"load", "act"}) /\ ~Resumes(k, {"logout"})
  BY DEF Resumes
<1>3. ~WriteAnswered(k) /\ ~ReadAgain(k) /\ \A steps : ~SessionAnswered(k, steps)
  BY <1>2 DEF WriteAnswered, ReadAgain, SessionAnswered
<1>4. ~ReadsBack(k)  BY <1>3 DEF ReadsBack
<1>5. ClosuresRead(k)
  BY <1>2, <1>3, <1>4 DEF Continue, Bootstrap, LoadSession, LoadRead, LoadVerify, LoadQr, ServicesWritten, AdminWritten,
    ResourceWritten, CalendarWritten, ClosureWritten, ProfileSaved, AgentSaved, ServicesRefreshed, AdminRefreshed,
    ListRefreshed, OwnerAnswered, AdminVerified, LoggedOut, LinkAnswered, Monitored
<1>6. ASSUME NEW t \in Tab, Done(k, t), t.closures # "loading" PROVE tab'.closures # "loading"
  <2>1. tab' = LetsGo(t, k)  BY <1>6 DEF Done, Ends
  <2>2. QED  BY <1>6, <2>1, LetsGoFields
<1> DEFINE a == jobs[k].answer["side"]
<1>7. CASE Ok(a) /\ Done(k, [Showing(tab, Only(a)) EXCEPT !.closures = "ready"])
  <2> DEFINE s == Showing(tab, Only(a))  t == [s EXCEPT !.closures = "ready"]
  <2>1. a \in Answer /\ tab \in Tab
    <3>1. "side" \in Asks(jobs[k])  BY <1>1, WorkKind DEF Asks, Reads
    <3>2. QED  BY <1>1, <3>1, AnswerTyped DEF TypeOK
  <2>2. s \in Tab  BY <2>1, OnlyFields, ShowingFields
  <2> HIDE DEF s
  <2>3. t \in Tab /\ t.closures = "ready"  BY <2>2 DEF Tab
  <2>4. Done(k, t)  BY <1>7 DEF s
  <2> HIDE DEF t
  <2>5. QED  BY <1>6, <2>3, <2>4
<1>8. CASE Done(k, [tab EXCEPT !.closures = IF @ = "loading" THEN "error" ELSE @])
  <2> DEFINE c == IF tab.closures = "loading" THEN "error" ELSE tab.closures  t == [tab EXCEPT !.closures = c]
  <2>1. tab \in Tab /\ c \in {"error", "ready", "pending"}  BY <1>1 DEF TypeOK, Tab
  <2>2. Done(k, t)  BY <1>8, <2>1 DEF Tab
  <2> HIDE DEF c
  <2>3. t \in Tab /\ t.closures = c  BY <2>1 DEF Tab
  <2> HIDE DEF t
  <2>4. QED  BY <1>6, <2>1, <2>2, <2>3
<1>9. QED  BY <1>5, <1>7, <1>8 DEF ClosuresRead, Only

LEMMA ContinueGoes ==
  ASSUME Typed, NEW k \in Jobs, Continue(k)
  PROVE  JobGoes(k) \/ LeavesStill
<1>1. TypeOK /\ Answered(k) /\ Still /\ stored' = Token(jobs[k])
  BY ContinueOutcome DEF Typed, Still, server
<1>2. CASE Bootstrap(k) /\ jobs[k].kind \in {"load", "act"}
  BY <1>1, <1>2, BootstrapFields DEF JobGoes, Bootstrapped
<1>3. CASE (LoadSession(k) \/ LoadRead(k) \/ LoadVerify(k) \/ LoadQr(k)) /\ jobs[k].kind = "load"
  BY <1>1, <1>3, LoadSessionFields, LoadReadFields, LoadQrFields DEF JobGoes, LoadGoes
<1>4. CASE Outcome(k) /\ jobs[k].kind \in {"act", "closures"} /\ ~Bootstraps(jobs[k])
  BY <1>1, <1>4, WorkFields, ClosuresEnd DEF JobGoes, WorkGoes
<1>5. CASE LoggedOut(k) /\ jobs[k].kind = "logout"
  <2>1. ~jobs[k].boot  BY <1>1, <1>5 DEF Typed, JobsTyped, GoodJob, Answered
  <2>2. stored' \in {stored, 0}  BY <1>1, <2>1 DEF Token
  <2>3. QED  BY <1>1, <1>5, <2>2, LoggedOutFields DEF JobGoes, LeavesStill
<1>6. QED  BY <1>2, <1>3, <1>4, <1>5, ContinueOutcome

LEMMA StepCases ==
  ASSUME Typed, [Next]_vars
  PROVE  StepOf
<1>1. TypeOK  BY DEF Typed
<1>2. CASE OtherLogin \/ SessionEnds \/ OtherWrite \/ Activity \/ UNCHANGED vars
  BY <1>2, OthersQuiet DEF StepOf
<1>3. CASE Leave
  BY <1>1, <1>3, GoneFields DEF Leave, server, StepOf, LeavesStill, Still
<1>4. ASSUME NEW k \in Jobs,
             \/ (\E p \in Parts : Serve(k, p) \/ NeverServed(k, p)) \/ ServeLogout(k) \/ ServeWrite(k)
             \/ Continue(k) \/ LinkExpires(k) \/ Retry(k) \/ Reload(k) \/ RetryClosures(k)
             \/ Submit(k) \/ Logout(k)
      PROVE  StepOf
  <2>1. CASE (\E p \in Parts : Serve(k, p) \/ NeverServed(k, p)) \/ ServeLogout(k) \/ ServeWrite(k)
    BY <2>1, ServeSteps DEF StepOf
  <2>2. CASE Continue(k)  BY <2>2, ContinueGoes DEF StepOf
  <2>3. CASE LinkExpires(k)  BY <1>1, <2>3, LinkExpiresFields DEF StepOf
  <2>4. CASE Retry(k) \/ Reload(k)
    <3>1. LoadBegins(k)  BY <1>1, <2>4, LoadFields DEF Retry, Reload
    <3>2. QED  BY <2>4, <3>1 DEF Retry, Reload, StepOf, LoadsAgain
  <2>5. CASE RetryClosures(k)
    BY <1>1, <2>5, RetryClosuresFields DEF StepOf, RetriesClosures, Still, server
  <2>6. CASE Submit(k)
    <3>1. PICK p \in Parts, step \in Step : Starts(k, p, step)  BY <2>6, SubmitStarts
    <3>2. SubmitBegins(k, p, step)  BY <1>1, <3>1, SubmitFields DEF Starts
    <3>3. Submitted(k)  BY <3>1, <3>2 DEF Submitted
    <3>4. QED  BY <3>3 DEF StepOf
  <2>7. CASE Logout(k)  BY <1>1, <2>7, LogoutFields DEF StepOf
  <2>8. QED  BY <1>4, <2>1, <2>2, <2>3, <2>4, <2>5, <2>6, <2>7
<1>5. QED  BY <1>2, <1>3, <1>4 DEF Next

-----------------------------------------------------------------------------
(* The same, seen from one job: it is kept, served, goes on or begins. *)

Alike(b, j) ==
  /\ b \in Job /\ b # NULL
  /\ b.kind = j.kind /\ b.part = j.part /\ b.step = j.step /\ b.boot = j.boot /\ b.seen = j.seen
  /\ b.attempt = j.attempt /\ b.logouts = j.logouts /\ b.owner = j.owner /\ b.cookie = j.cookie
  /\ b.csrf = j.csrf /\ b.from = j.from /\ b.base = j.base /\ b.loaded = j.loaded /\ b.work = j.work
Kept(l) ==
  /\ jobs[l] # NULL /\ jobs[l] \in Job /\ Alike(jobs'[l], jobs[l])
  /\ jobs'[l].answer = jobs[l].answer /\ (jobs'[l].alive => jobs[l].alive)
Begins(l) ==
  \/ LoadsAgain(l) \/ RetriesClosures(l) \/ Submitted(l) \/ LogoutBegins(l)
  \/ \E k \in Jobs : JobGoes(k) /\ Reading(k) /\ mode = "calendar" /\ k # l /\ ClosuresBegin(k, l) /\ tab'.closures = tab.closures

LEMMA SameJobFields ==
  ASSUME NEW i \in Job, NEW j, SameJob(i, j)
  PROVE  Alike(j, i) /\ j.answer = i.answer /\ (j.alive => i.alive)
  BY DEF SameJob, Alike, Job

LEMMA KeptAsItWas ==
  ASSUME TypeOK, NEW l \in Jobs, jobs[l] # NULL, jobs'[l] = jobs[l]
  PROVE  Kept(l)
  BY JobOfPanel DEF Kept, Alike

LEMMA KeptSame ==
  ASSUME TypeOK, NEW l \in Jobs, jobs[l] # NULL, SameJob(jobs[l], jobs'[l])
  PROVE  Kept(l)
  BY JobOfPanel, SameJobFields DEF Kept

LEMMA ServedFields ==
  ASSUME TypeOK, NEW k \in Jobs, NEW p, NEW a, Served(k, p, a)
  PROVE  /\ jobs' \in [Jobs -> Job \cup {NULL}] /\ Others(k) /\ jobs[k] \in Job /\ jobs[k] # NULL
         /\ Alike(jobs'[k], jobs[k]) /\ jobs'[k].alive = jobs[k].alive
         /\ jobs'[k].answer[p] = a /\ p \in Asks(jobs[k]) /\ jobs[k].answer[p] = NULL /\ a # NULL
         /\ \A q \in Parts : q # p => jobs'[k].answer[q] = jobs[k].answer[q]
         /\ a \in Answer /\ (Ok(a) => a.by = jobs[k].cookie /\ a.rows = Told(jobs[k], p) /\ Refusal(jobs[k]) = "ok")
<1> DEFINE j == jobs[k]  answer == [j.answer EXCEPT ![p] = a]  b == [j EXCEPT !.answer = answer]
<1>1. j \in Job /\ j # NULL /\ jobs \in [Jobs -> Job \cup {NULL}] /\ p \in Parts /\ a \in Answer
  BY JobOfPanel DEF Served, Waits, TypeOK
<1>2. j.answer \in [Parts -> Answer \cup {NULL}]  BY <1>1 DEF Job
<1>3. answer \in [Parts -> Answer \cup {NULL}] /\ answer[p] = a
      /\ \A q \in Parts : q # p => answer[q] = j.answer[q]
  BY <1>1, <1>2
<1>4. jobs' = [jobs EXCEPT ![k] = b]  BY DEF Served
<1> HIDE DEF answer
<1>5. b \in Job /\ b.answer = answer /\ b.alive = j.alive  BY <1>1, <1>3 DEF Job
<1>6. /\ b.kind = j.kind /\ b.part = j.part /\ b.step = j.step /\ b.boot = j.boot /\ b.seen = j.seen
      /\ b.attempt = j.attempt /\ b.logouts = j.logouts /\ b.owner = j.owner /\ b.cookie = j.cookie
      /\ b.csrf = j.csrf /\ b.from = j.from /\ b.base = j.base /\ b.loaded = j.loaded /\ b.work = j.work
  BY <1>1 DEF Job
<1> HIDE DEF b
<1>7. jobs' \in [Jobs -> Job \cup {NULL}] /\ jobs'[k] = b /\ Others(k)  BY <1>1, <1>4, <1>5 DEF Others
<1>8. p \in Asks(j) /\ j.answer[p] = NULL /\ a \in Answer
      /\ (Ok(a) => a.by = j.cookie /\ a.rows = Told(j, p) /\ Refusal(j) = "ok")
  BY DEF Served, Waits
<1>9. QED  BY <1>1, <1>3, <1>5, <1>6, <1>7, <1>8, NullIsNoRecord DEF Alike

LEMMA Around ==
  ASSUME Typed, StepOf
  PROVE  /\ mode' = mode /\ tenant' = tenant /\ now' \in Sessions /\ now <= now' /\ now \in Sessions
         /\ ended' \subseteq Sessions /\ faults' \in 0..MaxFaults /\ Grows
         /\ content' \in [Tenants \cup {NULL} -> [Parts -> SUBSET Writes]]
         /\ stored' \in 0..MaxLogins /\ jobs' \in [Jobs -> Job \cup {NULL}] /\ tab' \in Tab
<1>1. /\ TypeOK /\ now \in Sessions /\ now <= now /\ ended \subseteq Sessions /\ faults \in 0..MaxFaults
      /\ stored \in 0..MaxLogins /\ 0 \in 0..MaxLogins /\ tab \in Tab /\ jobs \in [Jobs -> Job \cup {NULL}]
  BY PanelAssumption DEF Typed, TypeOK, Sessions
<1>2. CASE Quiet  BY <1>1, <1>2 DEF Quiet
<1>3. CASE LeavesStill  BY <1>1, <1>3, ContentKept DEF LeavesStill, Leaves, Still
<1>4. ASSUME NEW k \in Jobs, NEW p \in Parts, NEW a \in Answer, Served(k, p, a)
      PROVE  /\ mode' = mode /\ tenant' = tenant /\ now' \in Sessions /\ now <= now' /\ now \in Sessions
             /\ ended' \subseteq Sessions /\ faults' \in 0..MaxFaults /\ Grows
             /\ content' \in [Tenants \cup {NULL} -> [Parts -> SUBSET Writes]]
             /\ stored' \in 0..MaxLogins /\ jobs' \in [Jobs -> Job \cup {NULL}] /\ tab' \in Tab
  BY <1>1, <1>4, ServedFields DEF Served
<1>5. ASSUME NEW k \in Jobs, JobGoes(k)
      PROVE  stored' \in 0..MaxLogins /\ jobs' \in [Jobs -> Job \cup {NULL}] /\ tab' \in Tab /\ Still
  <2>1. stored' \in 0..MaxLogins /\ Still  BY <1>5, TokenTyped DEF JobGoes
  <2>2. CASE Bootstrapped(k)  BY <1>1, <2>1, <2>2 DEF Bootstrapped
  <2>3. CASE LoadGoes(k)
    BY <1>1, <2>1, <2>3 DEF LoadGoes, GivesUp, Reading, Verifying, Presenting, PresentsAs, ShowsLoadedQr, Stays,
       ClosuresBegin
  <2>4. CASE WorkGoes(k)
    BY <2>1, <2>4 DEF WorkGoes, Works, LetGo, GoesOn, LosesPanel, Stays
  <2>5. CASE LogoutFails(k)  BY <2>1, <2>5 DEF LogoutFails
  <2>6. QED  BY <1>5, <2>2, <2>3, <2>4, <2>5 DEF JobGoes
<1>6. ASSUME NEW k \in Jobs, LoadsAgain(k) \/ RetriesClosures(k) \/ Submitted(k) \/ LogoutBegins(k) \/ Expires(k)
      PROVE  stored' \in 0..MaxLogins /\ jobs' \in [Jobs -> Job \cup {NULL}] /\ tab' \in Tab /\ Still
  <2>1. CASE LoadsAgain(k)  BY <1>1, <2>1 DEF LoadsAgain, LoadBegins, Still, server
  <2>2. CASE RetriesClosures(k)  BY <1>1, <2>2 DEF RetriesClosures, ClosuresBegin
  <2>3. CASE Submitted(k)  BY <1>1, <2>3 DEF Submitted, SubmitBegins, Still, server
  <2>4. CASE LogoutBegins(k)  BY <1>1, <2>4 DEF LogoutBegins, Still, server
  <2>5. CASE Expires(k)  BY <1>1, <2>5 DEF Expires, Stays, Still, server
  <2>6. QED  BY <1>6, <2>1, <2>2, <2>3, <2>4, <2>5
<1>7. ASSUME Still PROVE /\ mode' = mode /\ tenant' = tenant /\ now' \in Sessions /\ now <= now' /\ now \in Sessions
             /\ ended' \subseteq Sessions /\ faults' \in 0..MaxFaults /\ Grows
             /\ content' \in [Tenants \cup {NULL} -> [Parts -> SUBSET Writes]]
  BY <1>1, <1>7, ContentKept DEF Still
<1>8. ASSUME NEW k \in Jobs, JobGoes(k) \/ LoadsAgain(k) \/ RetriesClosures(k) \/ Submitted(k) \/ LogoutBegins(k) \/ Expires(k)
      PROVE  /\ mode' = mode /\ tenant' = tenant /\ now' \in Sessions /\ now <= now' /\ now \in Sessions
             /\ ended' \subseteq Sessions /\ faults' \in 0..MaxFaults /\ Grows
             /\ content' \in [Tenants \cup {NULL} -> [Parts -> SUBSET Writes]]
             /\ stored' \in 0..MaxLogins /\ jobs' \in [Jobs -> Job \cup {NULL}] /\ tab' \in Tab
  BY <1>5, <1>6, <1>7, <1>8
<1>9. QED  BY <1>2, <1>3, <1>4, <1>8 DEF StepOf

LEMMA JobCases ==
  ASSUME Typed, StepOf, NEW l \in Jobs, jobs'[l] # NULL
  PROVE  Kept(l) \/ (\E p \in Parts, a \in Answer : Served(l, p, a)) \/ JobGoes(l) \/ Begins(l)
<1>1. TypeOK  BY DEF Typed
<1>2. CASE Quiet  BY <1>1, <1>2, KeptAsItWas DEF Quiet
<1>3. CASE LeavesStill  BY <1>3 DEF LeavesStill, Leaves
<1>4. ASSUME NEW k \in Jobs, k # l, Others(k) PROVE Kept(l)
  BY <1>1, <1>4, KeptAsItWas DEF Others
<1>5. ASSUME NEW k \in Jobs, NEW p \in Parts, NEW a \in Answer, Served(k, p, a), k # l PROVE Kept(l)
  BY <1>1, <1>4, <1>5, ServedFields
<1>6. ASSUME NEW k \in Jobs, k # l, JobGoes(k) PROVE Kept(l) \/ Begins(l)
  <2>1. CASE Others(k)  BY <1>4, <1>6, <2>1
  <2>2. CASE ~Others(k)
    <3>1. Reading(k) /\ mode = "calendar"
      BY <1>6, <2>2 DEF JobGoes, Bootstrapped, LoadGoes, WorkGoes, LogoutFails, GivesUp, Reading, Verifying,
                        Presenting, PresentsAs, ShowsLoadedQr, Works, LetGo, GoesOn, LosesPanel
    <3>2. PICK m \in Jobs : m # k /\ ClosuresBegin(k, m) /\ tab'.closures = tab.closures  BY <3>1 DEF Reading
    <3>3. m # l => Kept(l)  BY <1>1, <1>6, <3>2, KeptAsItWas DEF ClosuresBegin
    <3>4. QED  BY <1>6, <3>1, <3>2, <3>3 DEF Begins
  <2>3. QED  BY <2>1, <2>2
<1>7. ASSUME NEW k \in Jobs, k # l, LoadsAgain(k) \/ RetriesClosures(k) \/ Submitted(k) \/ LogoutBegins(k)
      PROVE  Kept(l)
  <2>1. CASE LoadsAgain(k)  BY <1>1, <1>7, <2>1, KeptSame DEF LoadsAgain, LoadBegins
  <2>2. CASE RetriesClosures(k)  BY <1>1, <1>7, <2>2, KeptAsItWas DEF RetriesClosures, ClosuresBegin
  <2>3. CASE Submitted(k)  BY <1>1, <1>7, <2>3, KeptAsItWas DEF Submitted, SubmitBegins
  <2>4. CASE LogoutBegins(k)  BY <1>1, <1>7, <2>4, KeptSame DEF LogoutBegins
  <2>5. QED  BY <1>7, <2>1, <2>2, <2>3, <2>4
<1>8. ASSUME NEW k \in Jobs, Expires(k) PROVE Kept(l)
  BY <1>1, <1>4, <1>8, KeptSame DEF Expires
<1>9. QED  BY <1>2, <1>3, <1>5, <1>6, <1>7, <1>8 DEF StepOf, Begins

-----------------------------------------------------------------------------
(* Types *)

LEMMA TypedInit == Init => Typed
<1>1. SUFFICES ASSUME Init PROVE Typed  OBVIOUS
<1>2. /\ mode \in Modes /\ now = 1 /\ 1 \in Sessions /\ 1 \in 0..MaxLogins /\ 0 \in 0..MaxLogins /\ ended \subseteq Sessions
      /\ tenant \in [Sessions -> Tenants \cup {NULL}] /\ stored \in 0..MaxLogins /\ faults \in 0..MaxFaults
      /\ 0 \in 0..MaxLogouts
  BY <1>1, PanelAssumption DEF Init, Sessions
<1>3. content \in [Tenants \cup {NULL} -> [Parts -> SUBSET Writes]]  BY <1>1 DEF Init
<1>4. Blank \in [Parts -> Shown] /\ None \in [Parts -> Jobs \cup {NULL}]  BY <1>2 DEF Blank, Nothing, Shown, None
<1>5. tab \in Tab
  BY <1>1, <1>2, <1>4, Zenon DEF Init, Tab
<1>6. PICK first \in Jobs : jobs = [k \in Jobs |->
       IF k = first THEN Begun(tab, "load", "main", FALSE, "session", stored) ELSE NULL]
  BY <1>1 DEF Init
<1> DEFINE b == Begun(tab, "load", "main", FALSE, "session", stored)
<1>7. "main" \in Parts /\ "session" \in Step /\ FALSE \in BOOLEAN  BY DEF Parts, Step
<1>8. IsBegun(b, tab, "load", "main", "session", stored)  BY <1>2, <1>5, <1>7, BegunFields
<1> HIDE DEF b
<1>9. b \in Job  BY <1>8 DEF IsBegun
<1>10. jobs \in [Jobs -> Job \cup {NULL}] /\ \A k \in Jobs : jobs[k] # NULL => jobs[k] = b
  BY <1>6, <1>9 DEF b
<1>11. GoodJob(b)  BY <1>2, <1>8 DEF IsBegun, GoodJob, LoadSteps
<1>12. QED  BY <1>2, <1>3, <1>5, <1>10, <1>11 DEF Typed, TypeOK, JobsTyped

LEMMA GoodJobKept ==
  ASSUME NEW l \in Jobs, Alike(jobs'[l], jobs[l]), GoodJob(jobs[l]), now \in Nat, now' \in Nat,
         now <= now', mode' = mode
  PROVE  GoodJob(jobs[l])'
<1>1. jobs'[l].cookie \in 1..now'  BY DEF Alike, GoodJob
<1>2. QED  BY <1>1 DEF Alike, GoodJob, AsksSession, ActSteps, LoadSteps

LEMMA GoodJobBegun ==
  ASSUME Typed, StepOf, NEW l \in Jobs, Begins(l)
  PROVE  GoodJob(jobs[l])'
<1>1. mode' = mode /\ now \in Sessions  BY Around
<1>2. ASSUME NEW t, NEW kind, NEW part, NEW step, NEW token,
             IsBegun(jobs'[l], t, kind, part, step, token), now' = now,
             \/ kind = "load" /\ part = "main" /\ step = "session"
             \/ kind = "closures" /\ mode = "calendar" /\ part = "side" /\ step = "read"
             \/ kind = "act" /\ step \in ActSteps /\ (part = "side" => mode \in {"calendar", "services", "admin"}) /\ step # "after"
             \/ kind = "logout" /\ step = "write"
      PROVE  GoodJob(jobs[l])'
  <2>1. jobs'[l].cookie \in 1..now'  BY <1>1, <1>2 DEF IsBegun, Sessions
  <2>2. QED  BY <1>1, <1>2, <2>1 DEF IsBegun, GoodJob, ActSteps, LoadSteps
<1>3. CASE LoadsAgain(l)
  <2>1. IsBegun(jobs'[l], tab', "load", "main", "session", stored) /\ now' = now  BY <1>3 DEF LoadsAgain, LoadBegins, server
  <2>2. QED  BY <1>2, <2>1
<1>4. CASE RetriesClosures(l)
  <2>1. IsBegun(jobs'[l], tab, "closures", "side", "read", stored') /\ now' = now /\ mode = "calendar"
    BY <1>4 DEF RetriesClosures, ClosuresBegin, Still
  <2>2. QED  BY <1>2, <2>1
<1>5. CASE Submitted(l)
  <2>1. PICK p \in Parts, step \in Step : Starts(l, p, step) /\ SubmitBegins(l, p, step)  BY <1>5 DEF Submitted
  <2>2. IsBegun(jobs'[l], tab, "act", p, step, stored) /\ now' = now  BY <2>1 DEF SubmitBegins, server
  <2>3. step \in ActSteps /\ step # "after" /\ (p = "side" => mode \in {"calendar", "services", "admin"})
    BY <2>1 DEF Starts
  <2>4. QED  BY <1>2, <2>2, <2>3
<1>6. CASE LogoutBegins(l)
  <2>1. PICK part : IsBegun(jobs'[l], tab', "logout", part, "write", stored) /\ now' = now  BY <1>6 DEF LogoutBegins, server
  <2>2. QED  BY <1>2, <2>1
<1>7. ASSUME NEW k \in Jobs, JobGoes(k), mode = "calendar", ClosuresBegin(k, l) PROVE GoodJob(jobs[l])'
  <2>1. IsBegun(jobs'[l], tab, "closures", "side", "read", stored') /\ now' = now
    BY <1>7 DEF ClosuresBegin, JobGoes, Still
  <2>2. QED  BY <1>2, <1>7, <2>1
<1>8. QED  BY <1>3, <1>4, <1>5, <1>6, <1>7 DEF Begins

LEMMA GoodJobGoes ==
  ASSUME Typed, StepOf, NEW l \in Jobs, JobGoes(l), jobs'[l] # NULL
  PROVE  GoodJob(jobs[l])'
<1>1. mode' = mode /\ now' = now /\ now \in Sessions /\ now \in 1..now /\ Answered(l) /\ TypeOK
  BY Around DEF JobGoes, Still, Typed, Sessions
<1>2. jobs[l] # NULL /\ GoodJob(jobs[l])  BY <1>1 DEF Typed, JobsTyped, Answered
<1>3. ASSUME NEW step, IsSent(jobs'[l], jobs[l], step, stored'),
             \/ jobs[l].kind = "load" /\ step \in LoadSteps
             \/ jobs[l].kind = "act" /\ step \in ActSteps,
             step = "after" => jobs'[l].loaded["main"] # NULL
      PROVE  GoodJob(jobs[l])'
  BY <1>1, <1>2, <1>3 DEF IsSent, GoodJob, ActSteps, LoadSteps
<1>4. CASE Bootstrapped(l) /\ jobs[l].kind \in {"load", "act"}
  BY <1>1, <1>2, <1>4 DEF Bootstrapped, GoodJob, ActSteps, LoadSteps, AsksSession
<1>5. CASE LoadGoes(l)
  <2>1. CASE Reading(l)
    <3>1. IsSent(jobs'[l], jobs[l], "read", stored')  BY <2>1 DEF Reading
    <3>2. QED  BY <1>3, <1>5, <3>1 DEF LoadGoes, LoadSteps
  <2>2. CASE Verifying(l)
    <3>1. IsSent(jobs'[l], jobs[l], "verify", stored') /\ mode \in {"services", "admin"}  BY <2>2 DEF Verifying
    <3>2. QED  BY <1>3, <1>5, <3>1 DEF LoadGoes, LoadSteps
  <2>3. CASE Presenting(l)
    <3>1. IsSent(jobs'[l], jobs[l], "qr", stored') /\ mode = "whatsapp"
      BY <2>3 DEF Presenting, PresentsAs
    <3>2. QED  BY <1>3, <1>5, <3>1 DEF LoadGoes, LoadSteps
  <2>4. QED  BY <1>5, <2>1, <2>2, <2>3 DEF LoadGoes, GivesUp, ShowsLoadedQr
<1>6. CASE WorkGoes(l)
  <2>1. PICK step \in Step : \E t : GoesOn(l, t, step)
    BY <1>6 DEF WorkGoes, Works, LetGo, LosesPanel
  <2>2. IsSent(jobs'[l], jobs[l], step, stored') /\ jobs[l].kind = "act" /\ step \in ActSteps
    BY <2>1 DEF GoesOn, Resumed
  <2>3. step = "after" => jobs'[l].loaded["main"] # NULL
    <3>1. SUFFICES ASSUME step = "after" PROVE jobs'[l].loaded["main"] # NULL  OBVIOUS
    <3>2. jobs[l].step = "write" /\ jobs'[l].loaded = jobs[l].answer
      BY <2>1, <3>1 DEF GoesOn, Resumed, KeepsAnswers
    <3>3. "main" \in Asks(jobs[l])  BY <3>2 DEF Asks
    <3>4. QED  BY <1>1, <3>2, <3>3 DEF Answered
  <2>4. QED  BY <1>3, <2>2, <2>3
<1>7. CASE LogoutFails(l)  BY <1>7 DEF LogoutFails
<1>8. QED  BY <1>4, <1>5, <1>6, <1>7 DEF JobGoes

LEMMA TypedStep == Typed /\ [Next]_vars => Typed'
<1>1. SUFFICES ASSUME Typed, [Next]_vars PROVE Typed'  OBVIOUS
<1>2. StepOf  BY <1>1, StepCases
<1>3. /\ mode' = mode /\ tenant' = tenant /\ now' \in Sessions /\ now <= now' /\ now \in Sessions
      /\ ended' \subseteq Sessions /\ faults' \in 0..MaxFaults
      /\ content' \in [Tenants \cup {NULL} -> [Parts -> SUBSET Writes]]
      /\ stored' \in 0..MaxLogins /\ jobs' \in [Jobs -> Job \cup {NULL}] /\ tab' \in Tab
  BY <1>1, <1>2, Around
<1>4. TypeOK'  BY <1>1, <1>3 DEF Typed, TypeOK
<1>5. ASSUME NEW l \in Jobs, jobs'[l] # NULL PROVE GoodJob(jobs[l])'
  <2>1. now \in Nat /\ now' \in Nat  BY <1>3 DEF Sessions
  <2>2. CASE Kept(l)
    <3>1. GoodJob(jobs[l]) /\ Alike(jobs'[l], jobs[l])  BY <1>1, <2>2 DEF Kept, Typed, JobsTyped
    <3>2. QED  BY <1>3, <2>1, <3>1, GoodJobKept
  <2>3. ASSUME NEW p \in Parts, NEW a \in Answer, Served(l, p, a) PROVE GoodJob(jobs[l])'
    <3>1. GoodJob(jobs[l]) /\ Alike(jobs'[l], jobs[l])  BY <1>1, <2>3, ServedFields DEF Typed, JobsTyped
    <3>2. QED  BY <1>3, <2>1, <3>1, GoodJobKept
  <2>4. QED  BY <1>1, <1>2, <1>5, <2>2, <2>3, JobCases, GoodJobBegun, GoodJobGoes
<1>6. QED  BY <1>4, <1>5 DEF Typed, JobsTyped

(* The panel and its jobs are of their types: every step of LivePanel and of *)
(* its screens leaves a state the program can be in, whatever is answered    *)
(* and in whatever order, for any number of requests in flight.              *)
THEOREM PanelTypes == Spec => []TypeOK
<1>1. Spec => []Typed  BY TypedInit, TypedStep, PTL DEF Spec
<1>2. Typed => TypeOK  BY DEF Typed
<1>3. QED  BY <1>1, <1>2, PTL

-----------------------------------------------------------------------------
(* What the panel shows, over a step *)

Presented(k, p, s) ==
  LET a == (IF jobs[k].step = "read" THEN jobs[k].answer ELSE jobs[k].loaded)[p] IN
  /\ jobs[k].kind = "load" /\ Presenting(k) /\ a # NULL /\ Ok(a) /\ s = Row(a)
QrLoaded(k, p, s) ==
  LET a == jobs[k].answer["main"] IN
  /\ jobs[k].kind = "load" /\ ShowsLoadedQr(k) /\ p = "side" /\ a # NULL /\ Ok(a) /\ s = Row(a)
Worked(k, p, s) == WorkGoes(k) /\ (ShowsQr(k, p, s) \/ Replaces(k, p, s) \/ Joins(k, p, s))

Cleared(p) ==
  /\ tab'.shown[p] = Nothing
  /\ \/ tab'.view # "ready" /\ (tab'.closures = "loading" \/ mode \in {"admin", "services"})
     \/ mode = "whatsapp" /\ p = "side"

LEMMA ShownCases ==
  ASSUME Typed, StepOf, NEW p \in Parts
  PROVE  LET s == tab'.shown[p] IN
         \/ s = tab.shown[p] \/ Cleared(p)
         \/ \E k \in Jobs : JobGoes(k) /\ (Presented(k, p, s) \/ QrLoaded(k, p, s) \/ Worked(k, p, s))
<1> DEFINE s == tab'.shown[p]
           goal == \/ s = tab.shown[p] \/ Cleared(p)
                   \/ \E k \in Jobs : JobGoes(k) /\ (Presented(k, p, s) \/ QrLoaded(k, p, s) \/ Worked(k, p, s))
<1>1. Blank[p] = Nothing  BY DEF Blank
<1>2. CASE Quiet \/ LeavesStill  BY <1>1, <1>2 DEF Quiet, LeavesStill, Leaves, Cleared
<1>3. ASSUME NEW k \in Jobs,
             (\E q \in Parts, a \in Answer : Served(k, q, a)) \/ LoadsAgain(k) \/ RetriesClosures(k) \/ LogoutBegins(k)
      PROVE  s = tab.shown[p] \/ Cleared(p)
  BY <1>1, <1>3 DEF Served, LoadsAgain, LoadBegins, RetriesClosures, ClosuresBegin, LogoutBegins, Cleared
<1>4. ASSUME NEW k \in Jobs, Submitted(k) PROVE s = tab.shown[p] \/ Cleared(p)
  <2>1. PICK q \in Parts, step \in Step : Starts(k, q, step) /\ SubmitBegins(k, q, step)  BY <1>4 DEF Submitted
  <2>2. s = tab.shown[p] \/ (step = "link" /\ p = "side" /\ s = Nothing)  BY <2>1 DEF SubmitBegins
  <2>3. step = "link" => mode = "whatsapp"  BY <2>1, PanelAssumption DEF Starts, ActSteps, Typed, TypeOK
  <2>4. QED  BY <2>2, <2>3 DEF Cleared
<1>5. ASSUME NEW k \in Jobs, Expires(k) PROVE s = tab.shown[p] \/ Cleared(p)
  BY <1>5 DEF Expires, Parts, Cleared
<1>6. ASSUME NEW k \in Jobs, JobGoes(k) PROVE goal
  <2>1. CASE Bootstrapped(k) \/ LogoutFails(k)  BY <2>1 DEF Bootstrapped, LogoutFails
  <2>2. CASE LoadGoes(k)
    <3>1. CASE GivesUp(k) \/ Reading(k) \/ Verifying(k)
      BY <3>1 DEF GivesUp, Reading, Verifying, ClosuresBegin
    <3>2. CASE Presenting(k)
      <4>1. PICK a \in [Parts -> Answer \cup {NULL}] :
              PresentsAs(k, a) /\ a = IF jobs[k].step = "read" THEN jobs[k].answer ELSE jobs[k].loaded
        BY <3>2 DEF Presenting
      <4>2. s = IF a[p] # NULL /\ Ok(a[p]) THEN Row(a[p]) ELSE tab.shown[p]  BY <4>1 DEF PresentsAs
      <4>3. s = tab.shown[p] \/ Presented(k, p, s)  BY <2>2, <3>2, <4>1, <4>2 DEF Presented, LoadGoes
      <4>4. QED  BY <1>6, <4>3
    <3>3. CASE ShowsLoadedQr(k)
      <4>1. s = tab.shown[p] \/ QrLoaded(k, p, s)
        BY <2>2, <3>3 DEF ShowsLoadedQr, QrLoaded, LoadGoes, Parts
      <4>2. QED  BY <1>6, <4>1
    <3>4. QED  BY <2>2, <3>1, <3>2, <3>3 DEF LoadGoes
  <2>3. CASE WorkGoes(k)
    <3>1. CASE LosesPanel(k)  BY <1>1, <3>1 DEF LosesPanel, Cleared
    <3>2. ASSUME NEW t, Fits(k, t), LetGo(k, t) \/ \E step \in Step : GoesOn(k, t, step) PROVE goal
      <4>1. tab'.shown = t.shown  BY <3>2 DEF LetGo, GoesOn
      <4>2. Shows(k, p, s)  BY <3>2, <4>1 DEF Fits
      <4>3. s = tab.shown[p] \/ Worked(k, p, s)  BY <2>3, <4>2 DEF Shows, Worked
      <4>4. QED  BY <1>6, <4>3
    <3>3. QED  BY <2>3, <3>1, <3>2 DEF WorkGoes, Works
  <2>4. QED  BY <1>6, <2>1, <2>2, <2>3 DEF JobGoes
<1>7. QED  BY <1>2, <1>3, <1>4, <1>5, <1>6 DEF StepOf

(* The loads are counted, and a load that begins is the last one. *)
LEMMA Attempts ==
  ASSUME Typed, StepOf
  PROVE  /\ tab.attempt \in Nat /\ tab'.attempt \in Nat /\ tab.attempt <= tab'.attempt
         /\ tab'.attempt = tab.attempt \/ \E k \in Jobs : LoadsAgain(k) /\ tab'.attempt = tab.attempt + 1
<1>1. tab.attempt \in Nat /\ tab'.attempt \in Nat  BY Around DEF Typed, TypeOK, Tab
<1>2. ASSUME NEW k \in Jobs, JobGoes(k) PROVE tab'.attempt = tab.attempt
  <2>1. CASE Bootstrapped(k) \/ LogoutFails(k)  BY <2>1 DEF Bootstrapped, LogoutFails
  <2>2. CASE LoadGoes(k)
    BY <2>2 DEF LoadGoes, GivesUp, Reading, ClosuresBegin, Verifying, Presenting, PresentsAs, ShowsLoadedQr, Stays
  <2>3. CASE WorkGoes(k)  BY <2>3 DEF WorkGoes, Works, LetGo, GoesOn, LosesPanel, Stays
  <2>4. QED  BY <1>2, <2>1, <2>2, <2>3 DEF JobGoes
<1>3. CASE \E k \in Jobs : LoadsAgain(k)  BY <1>1, <1>3 DEF LoadsAgain, LoadBegins
<1>4. CASE tab'.attempt = tab.attempt  BY <1>1, <1>4
<1>5. CASE Quiet \/ LeavesStill  BY <1>4, <1>5 DEF Quiet, LeavesStill, Leaves
<1>6. ASSUME NEW k \in Jobs, (\E q \in Parts, a \in Answer : Served(k, q, a)) \/ RetriesClosures(k) \/ LogoutBegins(k)
      PROVE  tab'.attempt = tab.attempt
  BY <1>6 DEF Served, RetriesClosures, ClosuresBegin, LogoutBegins
<1>7. ASSUME NEW k \in Jobs, Submitted(k) \/ Expires(k) PROVE tab'.attempt = tab.attempt
  BY <1>7 DEF Submitted, SubmitBegins, Expires, Stays
<1>8. QED  BY <1>2, <1>3, <1>4, <1>5, <1>6, <1>7 DEF StepOf

-----------------------------------------------------------------------------
(* Nothing is later than now: what a session answers was asked with its     *)
(* cookie, and cookies only go forward.                                     *)

PastJob(j) ==
  /\ j.attempt <= tab.attempt /\ j.from <= j.cookie /\ j.owner <= j.cookie
  /\ j.boot => j.seen \in 1..j.cookie
  /\ \A p \in Parts :
       /\ j.answer[p] # NULL => p \in Asks(j)
       /\ j.answer[p] # NULL /\ Ok(j.answer[p]) => j.answer[p].by = j.cookie
       /\ j.loaded[p] # NULL /\ Ok(j.loaded[p]) => j.loaded[p].by <= j.cookie
Past ==
  /\ stored <= now /\ tab.owner <= now /\ \A p \in Parts : tab.shown[p].by <= now
  /\ \A k \in Jobs : jobs[k] # NULL => PastJob(jobs[k])

LEMMA JobFields ==
  ASSUME NEW j \in Job
  PROVE  /\ j.attempt \in Nat /\ j.from \in Nat /\ j.owner \in Nat /\ j.cookie \in Nat /\ j.seen \in Nat
         /\ j.csrf \in Nat /\ j.logouts \in Nat /\ j.boot \in BOOLEAN /\ j.alive \in BOOLEAN
         /\ j.answer \in [Parts -> Answer \cup {NULL}] /\ j.loaded \in [Parts -> Answer \cup {NULL}]
         /\ \A p \in Parts : (j.answer[p] # NULL => j.answer[p].by \in Nat)
                             /\ (j.loaded[p] # NULL => j.loaded[p].by \in Nat)
<1>1. /\ j.attempt \in Nat /\ j.from \in Nat /\ j.owner \in Nat /\ j.cookie \in Nat /\ j.seen \in Nat
      /\ j.csrf \in Nat /\ j.logouts \in Nat /\ j.boot \in BOOLEAN /\ j.alive \in BOOLEAN
      /\ j.answer \in [Parts -> Answer \cup {NULL}] /\ j.loaded \in [Parts -> Answer \cup {NULL}]
  BY PanelAssumption DEF Job
<1>2. ASSUME NEW a \in Answer PROVE a.by \in Nat  BY PanelAssumption DEF Answer
<1>3. QED  BY <1>1, <1>2

LEMMA Nats ==
  ASSUME TypeOK
  PROVE  /\ now \in Nat /\ now >= 1 /\ stored \in Nat /\ tab.owner \in Nat /\ tab.attempt \in Nat /\ tab.logouts \in Nat
         /\ \A p \in Parts : tab.shown[p] \in Shown /\ tab.shown[p].by \in Nat
         /\ tab.held \in [Parts -> Jobs \cup {NULL}]
<1>1. tab \in Tab /\ now \in Sessions /\ stored \in 0..MaxLogins  BY DEF TypeOK
<1>2. tab.shown \in [Parts -> Shown] /\ tab.owner \in 0..MaxLogins /\ tab.attempt \in Nat
      /\ tab.logouts \in 0..MaxLogouts /\ tab.held \in [Parts -> Jobs \cup {NULL}]
  BY <1>1 DEF Tab
<1>3. \A s \in Shown : s.by \in Nat  BY PanelAssumption DEF Shown
<1>4. QED  BY <1>1, <1>2, <1>3, PanelAssumption DEF Sessions

LEMMA NoneIsNull == \A p \in Parts : None[p] = NULL
  BY DEF None

\* What a job that is answered brings is not later than now.
LEMMA AnsweredPast ==
  ASSUME Typed, Past, NEW k \in Jobs, Answered(k)
  PROVE  /\ jobs[k] \in Job /\ jobs[k].cookie <= now /\ jobs[k].from <= now /\ jobs[k].owner <= now
         /\ AsksSession(jobs[k]) /\ Ok(jobs[k].answer["main"]) => Seen(jobs[k]) <= now /\ Seen(jobs[k]) \in Nat
         /\ \A p \in Parts : /\ jobs[k].answer[p] # NULL /\ Ok(jobs[k].answer[p]) => jobs[k].answer[p].by <= now
                             /\ jobs[k].loaded[p] # NULL /\ Ok(jobs[k].loaded[p]) => jobs[k].loaded[p].by <= now
<1> DEFINE j == jobs[k]
<1>1. j # NULL /\ j \in Job /\ TypeOK /\ GoodJob(j) /\ PastJob(j)
  BY AnswerTyped DEF Typed, JobsTyped, Past
<1>2. j.cookie \in 1..now /\ now \in Nat  BY <1>1, Nats DEF GoodJob
<1>3. /\ j.from \in Nat /\ j.owner \in Nat /\ j.seen \in Nat /\ j.boot \in BOOLEAN
      /\ \A p \in Parts : (j.answer[p] # NULL => j.answer[p].by \in Nat)
                          /\ (j.loaded[p] # NULL => j.loaded[p].by \in Nat)
  BY <1>1, JobFields
<1>4. AsksSession(j) => j.answer["main"] # NULL  BY <1>1 DEF Answered, AsksSession, Asks
<1>5. "main" \in Parts  BY DEF Parts
<1>6. QED  BY <1>1, <1>2, <1>3, <1>4, <1>5 DEF PastJob, Seen

\* The panel when it is opened
LEMMA InitPanel ==
  ASSUME Init
  PROVE  /\ Typed /\ now = 1 /\ stored \in {0, 1} /\ ~tab.leaving /\ tab.owner = 0 /\ tab.held = None
         /\ tab.view = "loading" /\ tab.closures = "loading" /\ ~tab.conflict /\ tab.attempt = 1 /\ tab.logouts = 0
         /\ \A p \in Parts : tab.shown[p] = Nothing
         /\ \E first \in Jobs : /\ IsBegun(jobs[first], tab, "load", "main", "session", stored)
                                /\ \A k \in Jobs : k # first => jobs[k] = NULL
<1>1. /\ Typed /\ now = 1 /\ stored \in {0, 1} /\ ~tab.leaving /\ tab.owner = 0 /\ tab.held = None /\ tab.shown = Blank
      /\ tab.view = "loading" /\ tab.closures = "loading" /\ ~tab.conflict /\ tab.attempt = 1 /\ tab.logouts = 0
  BY TypedInit DEF Init
<1>2. \A p \in Parts : tab.shown[p] = Nothing  BY <1>1 DEF Blank
<1>3. PICK first \in Jobs : jobs = [k \in Jobs |->
       IF k = first THEN Begun(tab, "load", "main", FALSE, "session", stored) ELSE NULL]
  BY DEF Init
<1>4. tab \in Tab /\ now \in Sessions /\ stored \in 0..MaxLogins /\ "main" \in Parts /\ "session" \in Step /\ FALSE \in BOOLEAN
  BY <1>1 DEF Typed, TypeOK, Parts, Step
<1>5. IsBegun(jobs[first], tab, "load", "main", "session", stored)  BY <1>3, <1>4, BegunFields
<1>6. QED  BY <1>1, <1>2, <1>3, <1>5

LEMMA PastInit == Init => Past
<1>1. SUFFICES ASSUME Init PROVE Past  OBVIOUS
<1>2. /\ Typed /\ now = 1 /\ stored \in {0, 1} /\ tab.owner = 0 /\ tab.attempt = 1
      /\ \A p \in Parts : tab.shown[p].by = 0
      /\ \A k \in Jobs : jobs[k] # NULL => IsBegun(jobs[k], tab, "load", "main", "session", stored)
  BY <1>1, InitPanel DEF Nothing
<1>3. "main" \in Parts  BY DEF Parts
<1>4. \A k \in Jobs : jobs[k] # NULL => PastJob(jobs[k])
  BY <1>2, <1>3, NoneIsNull DEF IsBegun, PastJob
<1>5. QED  BY <1>2, <1>4 DEF Past

LEMMA PastShown ==
  ASSUME Typed, Past, StepOf, NEW p \in Parts
  PROVE  tab'.shown[p].by <= now
<1> DEFINE s == tab'.shown[p]
<1>1. TypeOK /\ now \in Nat /\ now >= 1 /\ tab.shown[p].by \in Nat /\ tab.shown[p].by <= now
  BY Nats DEF Typed, Past
<1>2. CASE s = tab.shown[p] \/ Cleared(p)  BY <1>1, <1>2 DEF Nothing, Cleared
<1>3. ASSUME NEW k \in Jobs, JobGoes(k), Presented(k, p, s) \/ QrLoaded(k, p, s) \/ Worked(k, p, s)
      PROVE  s.by <= now
  <2>1. \A q \in Parts : /\ jobs[k].answer[q] # NULL /\ Ok(jobs[k].answer[q]) => jobs[k].answer[q].by <= now
                         /\ jobs[k].loaded[q] # NULL /\ Ok(jobs[k].loaded[q]) => jobs[k].loaded[q].by <= now
    BY <1>3, AnsweredPast DEF JobGoes
  <2>2. "main" \in Parts  BY DEF Parts
  <2>3. CASE Presented(k, p, s) \/ QrLoaded(k, p, s)  BY <2>1, <2>2, <2>3 DEF Presented, QrLoaded, Row
  <2>4. CASE ShowsQr(k, p, s)
    <3>1. CASE s = Nothing  BY <1>1, <3>1 DEF Nothing
    <3>2. CASE s # Nothing
      <4>1. PICK q \in Parts : jobs[k].answer[q] # NULL /\ Ok(jobs[k].answer[q]) /\ s = Row(jobs[k].answer[q])
        BY <2>4, <3>2 DEF ShowsQr
      <4>2. QED  BY <2>1, <4>1 DEF Row
    <3>3. QED  BY <3>1, <3>2
  <2>5. CASE Replaces(k, p, s)  BY <2>1, <2>5 DEF Replaces, Brings, Row
  <2>6. CASE Joins(k, p, s)  BY <1>1, <2>6 DEF Joins
  <2>7. QED  BY <1>3, <2>3, <2>4, <2>5, <2>6 DEF Worked
<1>4. QED  BY <1>2, <1>3, ShownCases

LEMMA PastToken ==
  ASSUME Typed, Past, StepOf
  PROVE  stored' <= now
<1>1. TypeOK /\ now \in Nat /\ stored <= now  BY Nats DEF Typed, Past
<1>2. CASE stored' \in {stored, 0}  BY <1>1, <1>2
<1>3. ASSUME NEW k \in Jobs, JobGoes(k) PROVE stored' <= now
  <2>1. stored' = Token(jobs[k]) /\ Answered(k)  BY <1>3 DEF JobGoes
  <2>2. jobs[k].boot /\ Ok(jobs[k].answer["main"]) => jobs[k].answer["main"].by <= now
    <3>1. jobs[k].boot => AsksSession(jobs[k])  BY <2>1 DEF Typed, JobsTyped, GoodJob, Answered
    <3>2. jobs[k].boot => jobs[k].answer["main"] # NULL /\ "main" \in Parts
      BY <2>1, <3>1 DEF Answered, AsksSession, Asks, Parts
    <3>3. QED  BY <2>1, <3>2, AnsweredPast
  <2>3. QED  BY <1>1, <2>1, <2>2 DEF Token
<1>4. CASE Quiet \/ LeavesStill  BY <1>2, <1>4 DEF Quiet, LeavesStill
<1>5. ASSUME NEW k \in Jobs, \/ (\E q \in Parts, a \in Answer : Served(k, q, a)) \/ LoadsAgain(k) \/ RetriesClosures(k)
                             \/ LogoutBegins(k) \/ Submitted(k) \/ Expires(k)
      PROVE  stored' = stored
  BY <1>5 DEF Served, LoadsAgain, LoadBegins, RetriesClosures, LogoutBegins, Submitted, SubmitBegins, Expires
<1>6. QED  BY <1>1, <1>3, <1>4, <1>5 DEF StepOf

LEMMA PastOwner ==
  ASSUME Typed, Past, StepOf
  PROVE  tab'.owner <= now
<1>1. TypeOK /\ now \in Nat /\ tab.owner <= now  BY Nats DEF Typed, Past
<1>2. CASE tab'.owner \in {tab.owner, 0}  BY <1>1, <1>2
<1>3. ASSUME NEW k \in Jobs, JobGoes(k) PROVE tab'.owner <= now
  <2>1. CASE Bootstrapped(k) \/ LogoutFails(k)  BY <1>2, <2>1 DEF Bootstrapped, LogoutFails
  <2>2. CASE LoadGoes(k)
    <3>1. CASE Presenting(k)
      <4>1. tab'.owner \in {jobs[k].owner, 0}  BY <3>1 DEF Presenting, PresentsAs
      <4>2. jobs[k].owner <= now  BY <1>3, AnsweredPast DEF JobGoes
      <4>3. QED  BY <1>1, <4>1, <4>2
    <3>2. CASE GivesUp(k) \/ Reading(k) \/ Verifying(k) \/ ShowsLoadedQr(k)
      BY <1>2, <3>2 DEF GivesUp, Reading, ClosuresBegin, Verifying, ShowsLoadedQr, Stays
    <3>3. QED  BY <2>2, <3>1, <3>2 DEF LoadGoes
  <2>3. CASE WorkGoes(k)  BY <1>2, <2>3 DEF WorkGoes, Works, LetGo, GoesOn, LosesPanel, Stays
  <2>4. QED  BY <1>3, <2>1, <2>2, <2>3 DEF JobGoes
<1>4. CASE Quiet \/ LeavesStill  BY <1>2, <1>4 DEF Quiet, LeavesStill, Leaves
<1>5. ASSUME NEW k \in Jobs, \/ (\E q \in Parts, a \in Answer : Served(k, q, a)) \/ LoadsAgain(k) \/ RetriesClosures(k)
                             \/ LogoutBegins(k) \/ Submitted(k) \/ Expires(k)
      PROVE  tab'.owner \in {tab.owner, 0}
  BY <1>5 DEF Served, LoadsAgain, LoadBegins, RetriesClosures, ClosuresBegin, LogoutBegins, Submitted, SubmitBegins,
              Expires, Stays
<1>6. QED  BY <1>2, <1>3, <1>4, <1>5 DEF StepOf

LEMMA PastBegun ==
  ASSUME Typed, Past, StepOf, NEW l \in Jobs, Begins(l)
  PROVE  PastJob(jobs[l])'
<1>1. /\ TypeOK /\ now \in Nat /\ tab.owner <= now /\ tab.attempt \in Nat /\ tab'.attempt \in Nat /\ tab.attempt <= tab'.attempt
      /\ \A p \in Parts : tab.shown[p].by <= now /\ tab'.shown[p].by <= now
  BY Nats, Attempts, PastShown DEF Typed, Past
<1>2. ASSUME NEW t \in {tab, tab'}, NEW kind, NEW part \in Parts, NEW step, NEW token,
             IsBegun(jobs'[l], t, kind, part, step, token)
      PROVE  PastJob(jobs[l])'
  <2>1. t.owner <= now /\ t.shown[part].by <= now /\ t.attempt <= tab'.attempt  BY <1>1, PastOwner
  <2>2. QED  BY <1>2, <2>1, NoneIsNull DEF IsBegun, PastJob
<1>3. "main" \in Parts /\ "side" \in Parts  BY DEF Parts
<1>4. CASE LoadsAgain(l)
  <2>1. IsBegun(jobs'[l], tab', "load", "main", "session", stored)  BY <1>4 DEF LoadsAgain, LoadBegins
  <2>2. QED  BY <1>2, <1>3, <2>1
<1>5. CASE RetriesClosures(l)
  <2>1. IsBegun(jobs'[l], tab, "closures", "side", "read", stored')  BY <1>5 DEF RetriesClosures, ClosuresBegin
  <2>2. QED  BY <1>2, <1>3, <2>1
<1>6. CASE Submitted(l)
  <2>1. PICK p \in Parts, step \in Step : SubmitBegins(l, p, step)  BY <1>6 DEF Submitted
  <2>2. IsBegun(jobs'[l], tab, "act", p, step, stored)  BY <2>1 DEF SubmitBegins
  <2>3. QED  BY <1>2, <2>2
<1>7. CASE LogoutBegins(l)
  <2>1. PICK part \in Parts : IsBegun(jobs'[l], tab', "logout", part, "write", stored)  BY <1>3, <1>7 DEF LogoutBegins
  <2>2. QED  BY <1>2, <2>1
<1>8. ASSUME NEW k \in Jobs, ClosuresBegin(k, l) PROVE PastJob(jobs[l])'
  <2>1. IsBegun(jobs'[l], tab, "closures", "side", "read", stored')  BY <1>8 DEF ClosuresBegin
  <2>2. QED  BY <1>2, <1>3, <2>1
<1>9. QED  BY <1>4, <1>5, <1>6, <1>7, <1>8 DEF Begins

LEMMA PastGoes ==
  ASSUME Typed, Past, StepOf, NEW l \in Jobs, JobGoes(l), jobs'[l] # NULL
  PROVE  PastJob(jobs[l])'
<1> DEFINE j == jobs[l]
<1>1. /\ TypeOK /\ now' = now /\ now \in Nat /\ Answered(l) /\ j # NULL /\ j \in Job /\ PastJob(j) /\ GoodJob(j)
      /\ j.attempt \in Nat /\ tab.attempt \in Nat /\ tab'.attempt \in Nat /\ tab.attempt <= tab'.attempt
  BY Nats, Attempts, AnswerTyped, JobFields DEF JobGoes, Still, Typed, Past, JobsTyped
<1>2. j.attempt <= tab'.attempt  BY <1>1 DEF PastJob
<1>3. /\ j.from <= now /\ j.owner <= now
      /\ AsksSession(j) /\ Ok(j.answer["main"]) => Seen(j) <= now /\ Seen(j) \in Nat
      /\ \A p \in Parts : /\ j.answer[p] # NULL /\ Ok(j.answer[p]) => j.answer[p].by <= now
                          /\ j.loaded[p] # NULL /\ Ok(j.loaded[p]) => j.loaded[p].by <= now
  BY <1>1, AnsweredPast
<1>4. ASSUME NEW step, IsSent(jobs'[l], j, step, stored'), jobs'[l].owner <= now,
             jobs'[l].loaded = j.answer \/ jobs'[l].loaded = None
      PROVE  PastJob(jobs[l])'
  BY <1>2, <1>3, <1>4, NoneIsNull DEF IsSent, PastJob
<1>5. CASE Bootstrapped(l)
  <2>1. j.answer["main"].by \in 1..now
    <3>1. "main" \in Parts  BY DEF Parts
    <3>2. QED  BY <1>1, <1>5, <3>1 DEF Bootstrapped, PastJob, GoodJob
  <2>2. QED  BY <1>2, <1>3, <1>5, <2>1, NoneIsNull DEF Bootstrapped, PastJob
<1>6. CASE LoadGoes(l)
  <2>1. CASE Reading(l)
    <3>1. IsSent(jobs'[l], j, "read", stored') /\ jobs'[l].owner = Seen(j) /\ jobs'[l].loaded = None
          /\ AsksSession(j) /\ Ok(j.answer["main"])
      BY <2>1 DEF Reading, AsksSession
    <3>2. QED  BY <1>3, <1>4, <3>1
  <2>2. CASE Verifying(l)
    <3>1. IsSent(jobs'[l], j, "verify", stored') /\ jobs'[l].owner = j.owner /\ jobs'[l].loaded = j.answer
      BY <2>2 DEF Verifying
    <3>2. QED  BY <1>3, <1>4, <3>1
  <2>3. CASE Presenting(l)
    <3>1. IsSent(jobs'[l], j, "qr", stored') /\ jobs'[l].owner = j.owner /\ jobs'[l].loaded = None
      BY <2>3 DEF Presenting, PresentsAs
    <3>2. QED  BY <1>3, <1>4, <3>1
  <2>4. QED  BY <1>6, <2>1, <2>2, <2>3 DEF LoadGoes, GivesUp, ShowsLoadedQr
<1>7. CASE WorkGoes(l)
  <2>1. PICK step \in Step : \E t : GoesOn(l, t, step)
    BY <1>7 DEF WorkGoes, Works, LetGo, LosesPanel
  <2>2. IsSent(jobs'[l], j, step, stored') /\ jobs'[l].owner = j.owner
        /\ (jobs'[l].loaded = j.answer \/ jobs'[l].loaded = None)
    BY <2>1 DEF GoesOn
  <2>3. QED  BY <1>3, <1>4, <2>2
<1>8. CASE LogoutFails(l)  BY <1>8 DEF LogoutFails
<1>9. QED  BY <1>5, <1>6, <1>7, <1>8 DEF JobGoes

LEMMA PastKept ==
  ASSUME Typed, Past, StepOf, NEW l \in Jobs, Kept(l) \/ \E p \in Parts, a \in Answer : Served(l, p, a)
  PROVE  PastJob(jobs[l])'
<1>1. TypeOK /\ tab.attempt \in Nat /\ tab'.attempt \in Nat /\ tab.attempt <= tab'.attempt
  BY Attempts DEF Typed
<1>2. jobs[l] # NULL /\ jobs[l] \in Job /\ Alike(jobs'[l], jobs[l])
  BY <1>1, ServedFields DEF Kept
<1>3. PastJob(jobs[l]) /\ jobs[l].attempt \in Nat  BY <1>2, JobFields DEF Past
<1>4. \A p \in Parts : jobs'[l].answer[p] # NULL /\ Ok(jobs'[l].answer[p]) => jobs'[l].answer[p].by = jobs'[l].cookie
  <2>1. CASE Kept(l)  BY <1>3, <2>1 DEF Kept, Alike, PastJob
  <2>2. ASSUME NEW p \in Parts, NEW a \in Answer, Served(l, p, a), NEW q \in Parts,
               jobs'[l].answer[q] # NULL, Ok(jobs'[l].answer[q])
        PROVE  jobs'[l].answer[q].by = jobs'[l].cookie
    <3>1. CASE q = p
      <4>1. jobs'[l].answer[q] = a /\ (Ok(a) => a.by = jobs[l].cookie)  BY <1>1, <2>2, <3>1, ServedFields
      <4>2. QED  BY <1>2, <2>2, <4>1 DEF Alike
    <3>2. CASE q # p
      <4>1. jobs'[l].answer[q] = jobs[l].answer[q]  BY <1>1, <2>2, <3>2, ServedFields
      <4>2. QED  BY <1>2, <1>3, <2>2, <4>1 DEF PastJob, Alike
    <3>3. QED  BY <3>1, <3>2
  <2>3. QED  BY <2>1, <2>2
<1>5. jobs'[l].attempt <= tab'.attempt  BY <1>1, <1>2, <1>3 DEF Alike, PastJob
<1>6. \A p \in Parts : jobs'[l].answer[p] # NULL => p \in Asks(jobs[l])
  <2>1. CASE Kept(l)  BY <1>3, <2>1 DEF Kept, PastJob
  <2>2. ASSUME NEW p \in Parts, NEW a \in Answer, Served(l, p, a), NEW q \in Parts, jobs'[l].answer[q] # NULL
        PROVE  q \in Asks(jobs[l])
    <3>1. CASE q = p  BY <1>1, <2>2, <3>1, ServedFields
    <3>2. CASE q # p
      <4>1. jobs'[l].answer[q] = jobs[l].answer[q]  BY <1>1, <2>2, <3>2, ServedFields
      <4>2. QED  BY <1>3, <2>2, <4>1 DEF PastJob
    <3>3. QED  BY <3>1, <3>2
  <2>3. QED  BY <2>1, <2>2
<1>7. Asks(jobs[l])' = Asks(jobs[l])
  <2>1. mode' = mode  BY Around
  <2>2. QED  BY <1>2, <2>1 DEF Alike, Asks, Reads
<1>8. QED  BY <1>2, <1>3, <1>4, <1>5, <1>6, <1>7 DEF Alike, PastJob

LEMMA PastStep == Typed /\ Past /\ [Next]_vars => Past'
<1>1. SUFFICES ASSUME Typed, Past, [Next]_vars PROVE Past'  OBVIOUS
<1>2. StepOf  BY <1>1, StepCases
<1>3. TypeOK /\ TypeOK' /\ now <= now' /\ now \in Nat /\ now' \in Nat /\ stored' \in Nat /\ tab'.owner \in Nat
  <2>1. Typed'  BY <1>1, TypedStep
  <2>2. now <= now' /\ now \in Sessions /\ now' \in Sessions /\ stored' \in 0..MaxLogins /\ tab' \in Tab
    BY <1>1, <1>2, Around
  <2>3. tab'.owner \in 0..MaxLogins  BY <2>2 DEF Tab
  <2>4. QED  BY <1>1, <2>1, <2>2, <2>3, PanelAssumption DEF Typed, Sessions
<1>4. stored' <= now' /\ tab'.owner <= now'  BY <1>1, <1>2, <1>3, PastToken, PastOwner
<1>5. ASSUME NEW p \in Parts PROVE tab'.shown[p].by <= now'
  <2>1. tab'.shown[p].by <= now  BY <1>1, <1>2, PastShown
  <2>2. tab'.shown[p] \in Shown  BY <1>3 DEF TypeOK, Tab
  <2>3. tab'.shown[p].by \in Nat  BY <2>2, PanelAssumption DEF Shown
  <2>4. QED  BY <1>3, <2>1, <2>3
<1>6. \A l \in Jobs : jobs'[l] # NULL => PastJob(jobs[l])'
  BY <1>1, <1>2, JobCases, PastKept, PastGoes, PastBegun
<1>7. QED  BY <1>4, <1>5, <1>6 DEF Past

-----------------------------------------------------------------------------
(* What a job remembers as long as it runs *)

LEMMA BeginsFree == ASSUME NEW l \in Jobs, Begins(l) PROVE jobs[l] = NULL
  BY DEF Begins, LoadsAgain, LoadBegins, RetriesClosures, ClosuresBegin, Submitted, SubmitBegins, LogoutBegins

LEMMA NewBegins ==
  ASSUME Typed, StepOf, NEW l \in Jobs, jobs[l] = NULL, jobs'[l] # NULL
  PROVE  Begins(l)
<1>1. ~Kept(l) /\ ~JobGoes(l)  BY DEF Kept, JobGoes, Answered
<1>2. \A p \in Parts, a \in Answer : ~Served(l, p, a)  BY DEF Served, Waits
<1>3. QED  BY <1>1, <1>2, JobCases

\* A job that goes on sends another request, for the same work.
LEMMA JobGoesOn ==
  ASSUME Typed, NEW l \in Jobs, JobGoes(l), jobs'[l] # NULL
  PROVE  /\ jobs'[l] \in Job /\ jobs'[l].kind = jobs[l].kind /\ jobs'[l].part = jobs[l].part
         /\ jobs'[l].attempt = jobs[l].attempt /\ jobs'[l].logouts = jobs[l].logouts
         /\ jobs'[l].from = jobs[l].from /\ jobs'[l].alive = jobs[l].alive /\ jobs'[l].cookie = now
         /\ (jobs[l].kind # "load" => jobs'[l].owner = jobs[l].owner)
         /\ \/ Bootstrapped(l) /\ jobs[l].kind \in {"load", "act"}
            \/ jobs[l].kind = "load" /\ Reading(l) /\ IsSent(jobs'[l], jobs[l], "read", stored')
            \/ jobs[l].kind = "load" /\ Verifying(l) /\ IsSent(jobs'[l], jobs[l], "verify", stored')
            \/ jobs[l].kind = "load" /\ Presenting(l) /\ mode = "whatsapp" /\ IsSent(jobs'[l], jobs[l], "qr", stored')
            \/ jobs[l].kind = "act" /\ WorkGoes(l) /\ \E step \in Step : Resumed(l, step)
                 /\ IsSent(jobs'[l], jobs[l], step, stored') /\ step \in ActSteps
                 /\ jobs'[l].loaded = IF KeepsAnswers(step) THEN jobs[l].answer ELSE None
<1>1. CASE Bootstrapped(l) /\ jobs[l].kind \in {"load", "act"}
  BY <1>1 DEF Bootstrapped
<1>2. CASE LoadGoes(l)
  <2>1. CASE Reading(l)  BY <1>2, <2>1 DEF LoadGoes, Reading, IsSent
  <2>2. CASE Verifying(l)  BY <1>2, <2>2 DEF LoadGoes, Verifying, IsSent
  <2>3. CASE Presenting(l)  BY <1>2, <2>3 DEF LoadGoes, Presenting, PresentsAs, IsSent
  <2>4. QED  BY <1>2, <2>1, <2>2, <2>3 DEF LoadGoes, GivesUp, ShowsLoadedQr
<1>3. CASE WorkGoes(l)
  <2>1. PICK step \in Step : \E t : GoesOn(l, t, step)
    BY <1>3 DEF WorkGoes, Works, LetGo, LosesPanel
  <2>2. /\ Resumed(l, step) /\ IsSent(jobs'[l], jobs[l], step, stored') /\ step \in ActSteps /\ jobs[l].kind = "act"
        /\ jobs'[l].loaded = (IF KeepsAnswers(step) THEN jobs[l].answer ELSE None) /\ jobs'[l].owner = jobs[l].owner
    BY <2>1 DEF GoesOn, Resumed
  <2>3. QED  BY <1>3, <2>2 DEF IsSent
<1>4. QED  BY <1>1, <1>2, <1>3 DEF JobGoes, LogoutFails

LEMMA JobStays ==
  ASSUME Typed, StepOf, NEW l \in Jobs, jobs[l] # NULL, jobs'[l] # NULL
  PROVE  /\ jobs[l] \in Job /\ jobs'[l] \in Job
         /\ jobs'[l].kind = jobs[l].kind /\ jobs'[l].part = jobs[l].part
         /\ jobs'[l].attempt = jobs[l].attempt /\ jobs'[l].logouts = jobs[l].logouts
         /\ jobs'[l].from = jobs[l].from /\ (jobs'[l].alive => jobs[l].alive)
         /\ jobs[l].cookie <= jobs'[l].cookie
         /\ (jobs[l].kind # "load" => jobs'[l].owner = jobs[l].owner)
         /\ (~JobGoes(l) => jobs'[l].step = jobs[l].step)
<1>1. TypeOK /\ jobs[l] \in Job  BY JobOfPanel DEF Typed
<1>2. jobs[l].cookie \in Nat /\ jobs[l].cookie <= now /\ now \in Nat
  <2>1. now \in Nat  BY <1>1, Nats
  <2>2. QED  BY <2>1 DEF Typed, JobsTyped, GoodJob
<1>3. CASE Kept(l)  BY <1>2, <1>3 DEF Kept, Alike
<1>4. CASE \E p \in Parts, a \in Answer : Served(l, p, a)
  <2>1. Alike(jobs'[l], jobs[l]) /\ jobs'[l].alive = jobs[l].alive  BY <1>1, <1>4, ServedFields
  <2>2. QED  BY <1>1, <1>2, <2>1 DEF Alike
<1>5. CASE JobGoes(l)  BY <1>1, <1>2, <1>5, JobGoesOn
<1>6. QED  BY <1>3, <1>4, <1>5, JobCases, BeginsFree

-----------------------------------------------------------------------------
(* There is one load at a time, and nothing is worked on while it reads. *)

IsLoad(k) == jobs[k] # NULL /\ jobs[k].kind = "load"
OneLoad ==
  /\ \A k \in Jobs : IsLoad(k) =>
       /\ jobs[k].attempt = tab.attempt
       /\ tab.view = IF jobs[k].step = "qr" THEN "ready" ELSE "loading"
       /\ \A l \in Jobs : IsLoad(l) => l = k
       /\ jobs[k].step = "session" =>
            \A l \in Jobs : jobs[l] # NULL /\ jobs[l].kind # "logout" /\ jobs[l].attempt = tab.attempt => l = k
  /\ \A k \in Jobs : jobs[k] # NULL /\ jobs[k].kind \in {"act", "logout"} =>
       /\ tab.view = "loading" => jobs[k].attempt # tab.attempt
       /\ jobs[k].kind = "act" /\ mode \in {"resources", "calendar", "profile", "whatsapp"} =>
            tab.view = "ready" /\ jobs[k].attempt = tab.attempt
  /\ tab.conflict => mode = "agent"

LEMMA OneLoadInit == Init => OneLoad
<1>1. SUFFICES ASSUME Init PROVE OneLoad  OBVIOUS
<1>2. PICK first \in Jobs : /\ IsBegun(jobs[first], tab, "load", "main", "session", stored)
                            /\ \A k \in Jobs : k # first => jobs[k] = NULL
  BY <1>1, InitPanel
<1>3. tab.view = "loading" /\ ~tab.conflict  BY <1>1, InitPanel
<1>4. QED  BY <1>2, <1>3 DEF OneLoad, IsLoad, IsBegun

\* With an empty or an unchanged panel
LEMMA LoadsInQr ==
  ASSUME Typed, OneLoad, NEW k \in Jobs, IsLoad(k), tab.view = "ready"
  PROVE  mode = "whatsapp" /\ jobs[k].step = "qr"
<1>1. jobs[k].step = "qr"  BY DEF OneLoad
<1>2. QED  BY <1>1 DEF IsLoad, Typed, JobsTyped, GoodJob, LoadSteps

(* The view changes with a load that begins, presents what it read or gives *)
(* up, with a job that loses the panel, or when the page is left.            *)
LEMMA ViewCases ==
  ASSUME Typed, StepOf
  PROVE  \/ tab'.view = tab.view
         \/ LeavesStill
         \/ \E k \in Jobs : LoadsAgain(k) \/ (JobGoes(k) /\ WorkGoes(k) /\ LosesPanel(k))
                            \/ (JobGoes(k) /\ LoadGoes(k) /\ (Presenting(k) \/ (GivesUp(k) /\ Current(k))))
<1>1. CASE Quiet  BY <1>1 DEF Quiet
<1>2. ASSUME NEW k \in Jobs,
             (\E q \in Parts, a \in Answer : Served(k, q, a)) \/ RetriesClosures(k) \/ LogoutBegins(k) \/ Expires(k)
      PROVE  tab'.view = tab.view
  BY <1>2 DEF Served, RetriesClosures, ClosuresBegin, LogoutBegins, Expires, Stays
<1>3. ASSUME NEW k \in Jobs, Submitted(k) PROVE tab'.view = tab.view
  BY <1>3 DEF Submitted, SubmitBegins
<1>4. ASSUME NEW k \in Jobs, JobGoes(k)
      PROVE  tab'.view = tab.view \/ (WorkGoes(k) /\ LosesPanel(k))
             \/ (LoadGoes(k) /\ (Presenting(k) \/ (GivesUp(k) /\ Current(k))))
  <2>1. CASE Bootstrapped(k) \/ LogoutFails(k)  BY <2>1 DEF Bootstrapped, LogoutFails
  <2>2. CASE LoadGoes(k)
    BY <2>2 DEF LoadGoes, GivesUp, Reading, ClosuresBegin, Verifying, ShowsLoadedQr, Stays
  <2>3. CASE WorkGoes(k)  BY <2>3 DEF WorkGoes, Works, LetGo, GoesOn, Stays
  <2>4. QED  BY <1>4, <2>1, <2>2, <2>3 DEF JobGoes
<1>5. QED  BY <1>1, <1>2, <1>3, <1>4 DEF StepOf

(* A load begins only when none is in flight, and nothing else that another *)
(* load would be mistaken for.                                              *)
LEMMA LoadAlone ==
  ASSUME Typed, Past, OneLoad, StepOf, NEW k \in Jobs, LoadsAgain(k)
  PROVE  /\ \A l \in Jobs : IsLoad(l)' => l = k
         /\ \A l \in Jobs : l # k /\ jobs'[l] # NULL => jobs'[l].attempt # tab'.attempt
         /\ mode \in {"resources", "calendar", "profile", "whatsapp"} =>
              \A l \in Jobs : jobs'[l] # NULL => jobs'[l].kind # "act"
<1>1. \A l \in Jobs : ~IsLoad(l)
  <2>1. CASE tab.view = "error"  BY <2>1 DEF OneLoad
  <2>2. CASE tab.view = "ready" /\ tab.conflict  BY <2>2, LoadsInQr DEF OneLoad
  <2>3. QED  BY <2>1, <2>2 DEF LoadsAgain
<1>2. ASSUME NEW l \in Jobs, l # k, jobs'[l] # NULL PROVE jobs[l] # NULL
  BY <1>2 DEF LoadsAgain, LoadBegins
<1>3. tab.attempt \in Nat /\ tab'.attempt = tab.attempt + 1
  BY Attempts DEF LoadsAgain, LoadBegins
<1>4. ASSUME NEW l \in Jobs, l # k, jobs'[l] # NULL PROVE jobs'[l].attempt # tab'.attempt /\ jobs'[l].kind # "load"
  <2>1. jobs[l] # NULL  BY <1>2, <1>4
  <2>2. jobs'[l].attempt = jobs[l].attempt /\ jobs'[l].kind = jobs[l].kind /\ jobs[l] \in Job  BY <1>4, <2>1, JobStays
  <2>3. jobs[l].attempt <= tab.attempt /\ jobs[l].attempt \in Nat  BY <2>1, <2>2, JobFields DEF Past, PastJob
  <2>4. QED  BY <1>1, <1>3, <2>1, <2>2, <2>3 DEF IsLoad
<1>5. ASSUME mode \in {"resources", "calendar", "profile", "whatsapp"}, NEW l \in Jobs, jobs'[l] # NULL
      PROVE  jobs'[l].kind # "act"
  <2>1. CASE l = k  BY <2>1 DEF LoadsAgain, LoadBegins, IsBegun
  <2>2. CASE l # k
    <3>1. tab.view = "error"  BY <1>5 DEF LoadsAgain, OneLoad
    <3>2. jobs[l] # NULL /\ jobs'[l].kind = jobs[l].kind  BY <1>2, <1>5, <2>2, JobStays
    <3>3. QED  BY <1>5, <3>1, <3>2 DEF OneLoad
  <2>3. QED  BY <2>1, <2>2
<1>6. QED  BY <1>4, <1>5 DEF IsLoad

LEMMA ConflictCases ==
  ASSUME Typed, StepOf, tab'.conflict
  PROVE  tab.conflict \/ mode = "agent"
<1>1. CASE Quiet \/ LeavesStill  BY <1>1 DEF Quiet, LeavesStill, Leaves
<1>2. ASSUME NEW k \in Jobs,
             \/ (\E q \in Parts, a \in Answer : Served(k, q, a)) \/ LoadsAgain(k) \/ RetriesClosures(k)
             \/ LogoutBegins(k) \/ Submitted(k) \/ Expires(k)
      PROVE  tab.conflict
  BY <1>2 DEF Served, LoadsAgain, LoadBegins, RetriesClosures, ClosuresBegin, LogoutBegins, Submitted, SubmitBegins, Expires
<1>3. ASSUME NEW k \in Jobs, JobGoes(k) PROVE tab.conflict \/ mode = "agent"
  <2>1. CASE Bootstrapped(k) \/ LogoutFails(k)  BY <2>1 DEF Bootstrapped, LogoutFails
  <2>2. CASE LoadGoes(k)
    BY <2>2 DEF LoadGoes, GivesUp, Reading, ClosuresBegin, Verifying, Presenting, PresentsAs, ShowsLoadedQr
  <2>3. CASE WorkGoes(k)
    BY <2>3 DEF WorkGoes, Works, Fits, LetGo, GoesOn, LosesPanel
  <2>4. QED  BY <1>3, <2>1, <2>2, <2>3 DEF JobGoes
<1>4. QED  BY <1>1, <1>2, <1>3 DEF StepOf

\* What begins while nothing is loaded, begins in a panel that is ready.
LEMMA BeginsReady ==
  ASSUME Typed, StepOf, NEW l \in Jobs, Begins(l), ~LoadsAgain(l)
  PROVE  \/ /\ tab.view = "ready" /\ tab'.view = "ready" /\ jobs'[l].kind # "load" /\ jobs'[l].attempt = tab'.attempt
         \/ /\ jobs'[l].kind = "closures" /\ mode = "calendar"
            /\ \E k \in Jobs : JobGoes(k) /\ Reading(k) /\ ClosuresBegin(k, l)
<1>1. CASE RetriesClosures(l)  BY <1>1 DEF RetriesClosures, ClosuresBegin, IsBegun
<1>2. CASE Submitted(l)  BY <1>2 DEF Submitted, SubmitBegins, IsBegun
<1>3. CASE LogoutBegins(l)  BY <1>3 DEF LogoutBegins, IsBegun
<1>4. ASSUME NEW k \in Jobs, JobGoes(k), Reading(k), mode = "calendar", ClosuresBegin(k, l)
      PROVE  /\ jobs'[l].kind = "closures" /\ mode = "calendar"
             /\ \E m \in Jobs : JobGoes(m) /\ Reading(m) /\ ClosuresBegin(m, l)
  BY <1>4 DEF ClosuresBegin, IsBegun
<1>5. QED  BY <1>1, <1>2, <1>3, <1>4 DEF Begins

LEMMA WorkCurrent ==
  ASSUME NEW k, Current(k), jobs[k].kind \in {"act", "closures"}, mode \in {"admin", "services"}
  PROVE  jobs[k].attempt = tab.attempt /\ ~tab.leaving
  BY DEF Current, Slot

LEMMA OneLoadStep == Typed /\ Past /\ OneLoad /\ [Next]_vars => OneLoad'
<1>1. SUFFICES ASSUME Typed, Past, OneLoad, [Next]_vars PROVE OneLoad'  OBVIOUS
<1>2. StepOf /\ mode' = mode  BY <1>1, StepCases, Around
<1>3. tab'.conflict => mode' = "agent"  BY <1>1, <1>2, ConflictCases DEF OneLoad
<1>4. CASE \E k \in Jobs : LoadsAgain(k)
  <2>1. PICK k \in Jobs : LoadsAgain(k)  BY <1>4
  <2>2. /\ \A l \in Jobs : IsLoad(l)' => l = k
        /\ \A l \in Jobs : l # k /\ jobs'[l] # NULL => jobs'[l].attempt # tab'.attempt
        /\ mode \in {"resources", "calendar", "profile", "whatsapp"} =>
             \A l \in Jobs : jobs'[l] # NULL => jobs'[l].kind # "act"
    BY <1>1, <1>2, <2>1, LoadAlone
  <2>3. tab'.view = "loading" /\ IsBegun(jobs'[k], tab', "load", "main", "session", stored)
    BY <2>1 DEF LoadsAgain, LoadBegins
  <2>4. jobs'[k].attempt = tab'.attempt /\ jobs'[k].kind = "load" /\ jobs'[k].step = "session"
    BY <2>3 DEF IsBegun
  <2>5. \A l \in Jobs : IsLoad(l)' =>
       /\ jobs'[l].attempt = tab'.attempt
       /\ tab'.view = IF jobs'[l].step = "qr" THEN "ready" ELSE "loading"
       /\ \A m \in Jobs : IsLoad(m)' => m = l
       /\ jobs'[l].step = "session" =>
            \A m \in Jobs : jobs'[m] # NULL /\ jobs'[m].kind # "logout" /\ jobs'[m].attempt = tab'.attempt => m = l
    BY <2>2, <2>3, <2>4
  <2>6. \A l \in Jobs : jobs'[l] # NULL /\ jobs'[l].kind \in {"act", "logout"} => l # k  BY <2>4
  <2>7. QED  BY <1>2, <1>3, <2>2, <2>5, <2>6 DEF OneLoad
<1>5. CASE ~\E k \in Jobs : LoadsAgain(k)
  <2>1. tab'.attempt = tab.attempt  BY <1>1, <1>2, <1>5, Attempts
  <2>2. ASSUME NEW l \in Jobs, IsLoad(l)'
        PROVE  /\ IsLoad(l) /\ jobs'[l].attempt = tab'.attempt
               /\ jobs[l].step # "qr" => tab.view = "loading"
    <3>1. jobs'[l] # NULL /\ jobs'[l].kind = "load"  BY <2>2 DEF IsLoad
    <3>2. jobs[l] # NULL
      <4>1. SUFFICES ASSUME jobs[l] = NULL PROVE FALSE  OBVIOUS
      <4>2. Begins(l)  BY <1>1, <1>2, <3>1, <4>1, NewBegins
      <4>3. QED  BY <1>1, <1>2, <1>5, <3>1, <4>2, BeginsReady
    <3>3. QED  BY <1>1, <1>2, <2>1, <3>1, <3>2, JobStays DEF OneLoad, IsLoad
  <2>3. ASSUME NEW l \in Jobs, IsLoad(l)'
        PROVE  tab'.view = IF jobs'[l].step = "qr" THEN "ready" ELSE "loading"
    <3>1. IsLoad(l) /\ jobs'[l] # NULL  BY <2>2, <2>3 DEF IsLoad
    <3>2. CASE JobGoes(l)
      <4>1. tab.view = IF jobs[l].step = "qr" THEN "ready" ELSE "loading"  BY <1>1, <3>1 DEF OneLoad
      <4>2. CASE Bootstrapped(l)  BY <4>1, <4>2 DEF Bootstrapped
      <4>3. CASE Reading(l) /\ IsSent(jobs'[l], jobs[l], "read", stored')
        BY <4>1, <4>3 DEF Reading, ClosuresBegin, IsSent
      <4>4. CASE Verifying(l) /\ IsSent(jobs'[l], jobs[l], "verify", stored')
        BY <4>1, <4>4 DEF Verifying, IsSent
      <4>5. CASE Presenting(l) /\ IsSent(jobs'[l], jobs[l], "qr", stored')
        BY <4>5 DEF Presenting, PresentsAs, IsSent
      <4>6. QED  BY <1>1, <3>1, <3>2, <4>2, <4>3, <4>4, <4>5, JobGoesOn DEF IsLoad
    <3>3. CASE ~JobGoes(l)
      <4>1. jobs'[l].step = jobs[l].step  BY <1>1, <1>2, <3>1, <3>3, JobStays DEF IsLoad
      <4>2. CASE tab'.view = tab.view  BY <1>1, <3>1, <4>1, <4>2 DEF OneLoad
      <4>3. CASE LeavesStill  BY <3>1, <4>3 DEF LeavesStill, Leaves
      <4>4. ASSUME NEW k \in Jobs, JobGoes(k), LoadGoes(k) PROVE FALSE
        <5>1. IsLoad(k)  BY <4>4 DEF JobGoes, LoadGoes, Answered, IsLoad
        <5>2. k = l  BY <1>1, <3>1, <5>1 DEF OneLoad
        <5>3. QED  BY <3>3, <4>4, <5>2
      <4>5. ASSUME NEW k \in Jobs, JobGoes(k), LosesPanel(k) PROVE FALSE
        <5>1. /\ jobs[k] # NULL /\ jobs[k].kind = "act" /\ mode \in {"admin", "services"} /\ Current(k)
          BY <4>5 DEF JobGoes, Answered, LosesPanel
        <5>2. tab.view # "loading"  BY <1>1, <5>1, WorkCurrent DEF OneLoad
        <5>3. tab.view = "ready"  BY <1>1, <3>1, <5>2 DEF OneLoad
        <5>4. QED  BY <1>1, <3>1, <5>1, <5>3, LoadsInQr
      <4>6. QED  BY <1>1, <1>2, <1>5, <4>2, <4>3, <4>4, <4>5, ViewCases
    <3>4. QED  BY <3>2, <3>3
  <2>4. ASSUME NEW l \in Jobs, IsLoad(l)', jobs'[l].step = "session",
               NEW m \in Jobs, jobs'[m] # NULL, jobs'[m].kind # "logout", jobs'[m].attempt = tab'.attempt
        PROVE  m = l
    <3>1. IsLoad(l) /\ jobs[l] # NULL /\ jobs'[l] # NULL /\ jobs[l].kind = "load"  BY <2>2, <2>4 DEF IsLoad
    <3>2. jobs[l].step = "session" /\ (JobGoes(l) => ~Reading(l))
      <4>1. CASE JobGoes(l)
        <5>1. ~Reading(l) /\ ~Verifying(l) /\ Bootstrapped(l)
          BY <1>1, <2>4, <3>1, <4>1, JobGoesOn DEF Reading, Verifying, IsSent
        <5>2. QED  BY <2>4, <5>1 DEF Bootstrapped
      <4>2. CASE ~JobGoes(l)  BY <1>1, <1>2, <2>4, <3>1, <4>2, JobStays
      <4>3. QED  BY <4>1, <4>2
    <3>3. tab.view = "loading"  BY <1>1, <3>1, <3>2 DEF OneLoad
    <3>4. CASE jobs[m] # NULL
      <4>1. jobs[m].kind = jobs'[m].kind /\ jobs[m].attempt = jobs'[m].attempt
        BY <1>1, <1>2, <2>4, <3>4, JobStays
      <4>2. QED  BY <1>1, <2>1, <2>4, <3>1, <3>2, <3>4, <4>1 DEF OneLoad
    <3>5. CASE jobs[m] = NULL
      <4>1. Begins(m)  BY <1>1, <1>2, <2>4, <3>5, NewBegins
      <4>2. PICK k \in Jobs : JobGoes(k) /\ Reading(k)  BY <1>1, <1>2, <1>5, <3>3, <4>1, BeginsReady
      <4>3. IsLoad(k)
        <5>1. jobs[k] # NULL /\ jobs[k].step = "session"  BY <4>2 DEF JobGoes, Answered, Reading
        <5>2. mode = "calendar"  BY <1>1, <1>2, <1>5, <3>3, <4>1, BeginsReady
        <5>3. jobs[k].kind = "load"
          BY <1>1, <5>1, <5>2 DEF Typed, JobsTyped, GoodJob, ActSteps, TypeOK, Job
        <5>4. QED  BY <5>1, <5>3 DEF IsLoad
      <4>4. k = l  BY <1>1, <3>1, <4>3 DEF OneLoad
      <4>5. QED  BY <3>2, <4>2, <4>4
    <3>6. QED  BY <3>4, <3>5
  <2>5. ASSUME NEW l \in Jobs, jobs'[l] # NULL, jobs'[l].kind \in {"act", "logout"}
        PROVE  /\ tab'.view = "loading" => jobs'[l].attempt # tab'.attempt
               /\ jobs'[l].kind = "act" /\ mode' \in {"resources", "calendar", "profile", "whatsapp"} =>
                    tab'.view = "ready" /\ jobs'[l].attempt = tab'.attempt
    <3>1. CASE jobs[l] = NULL
      <4>1. Begins(l)  BY <1>1, <1>2, <2>5, <3>1, NewBegins
      <4>2. tab'.view = "ready" /\ jobs'[l].attempt = tab'.attempt
        BY <1>1, <1>2, <1>5, <2>5, <4>1, BeginsReady
      <4>3. QED  BY <4>2
    <3>2. CASE jobs[l] # NULL
      <4>1. jobs[l].kind = jobs'[l].kind /\ jobs[l].attempt = jobs'[l].attempt
        BY <1>1, <1>2, <2>5, <3>2, JobStays
      <4>2. /\ tab.view = "loading" => jobs[l].attempt # tab.attempt
            /\ jobs[l].kind = "act" /\ mode \in {"resources", "calendar", "profile", "whatsapp"} =>
                    tab.view = "ready" /\ jobs[l].attempt = tab.attempt
        BY <1>1, <2>5, <3>2, <4>1 DEF OneLoad
      <4>3. CASE tab'.view = tab.view  BY <1>2, <2>1, <4>1, <4>2, <4>3
      <4>4. CASE LeavesStill  BY <2>5, <4>4 DEF LeavesStill, Leaves
      <4>5. ASSUME NEW k \in Jobs, JobGoes(k), LosesPanel(k)
            PROVE  tab'.view = "error" /\ mode \in {"admin", "services"}
        BY <4>5 DEF LosesPanel
      <4>6. ASSUME NEW k \in Jobs, JobGoes(k), LoadGoes(k), Presenting(k)
            PROVE  tab'.view = "ready"
        BY <4>6 DEF Presenting, PresentsAs
      <4>7. ASSUME NEW k \in Jobs, JobGoes(k), LoadGoes(k), GivesUp(k), Current(k)
            PROVE  tab'.view # "loading" /\ tab.view = "loading"
        <5>1. IsLoad(k) /\ jobs[k].step # "qr"  BY <4>7 DEF JobGoes, LoadGoes, Answered, IsLoad, GivesUp
        <5>2. QED  BY <1>1, <4>7, <5>1 DEF OneLoad, GivesUp
      <4>8. QED  BY <1>1, <1>2, <1>5, <2>1, <4>1, <4>2, <4>3, <4>4, <4>5, <4>6, <4>7, ViewCases
    <3>3. QED  BY <3>1, <3>2
  <2>6. \A l \in Jobs : IsLoad(l)' => \A m \in Jobs : IsLoad(m)' => m = l
    BY <1>1, <2>2 DEF OneLoad
  <2>7. QED  BY <1>2, <1>3, <2>2, <2>3, <2>4, <2>5, <2>6 DEF OneLoad
<1>6. QED  BY <1>4, <1>5

-----------------------------------------------------------------------------
(* The buttons of a part wait for a job that runs, that is of that part and *)
(* that the panel still waits for.                                          *)

HeldWell(p) ==
  LET k == tab.held[p] IN
  k # NULL =>
    /\ jobs[k] # NULL /\ jobs[k].kind \in {"act", "closures"} /\ Slot(jobs[k]) = p
    /\ p = "side" \/ mode \in {"admin", "profile", "agent", "calendar"} => Current(k)
Held ==
  /\ tab.held["main"] # NULL => tab.view = "ready"
  /\ \A p \in Parts : HeldWell(p)
  /\ mode \in {"services", "resources", "profile", "whatsapp"} =>
       \A k \in Jobs : jobs[k] # NULL /\ jobs[k].kind = "act" => tab.held["main"] = k

LEMMA HeldInit == Init => Held
<1>1. SUFFICES ASSUME Init PROVE Held  OBVIOUS
<1>2. tab.held = None /\ \E first \in Jobs : /\ jobs[first].kind = "load"
                                           /\ \A k \in Jobs : k # first => jobs[k] = NULL
  BY <1>1, InitPanel DEF IsBegun
<1>3. "main" \in Parts  BY DEF Parts
<1>4. QED  BY <1>2, <1>3, NoneIsNull DEF Held, HeldWell

LEMMA HeldJob ==
  ASSUME Typed, NEW p \in Parts, HeldWell(p), tab.held[p] # NULL
  PROVE  /\ tab.held[p] \in Jobs /\ jobs[tab.held[p]] # NULL /\ jobs[tab.held[p]] \in Job
         /\ jobs[tab.held[p]].kind \in {"act", "closures"} /\ Slot(jobs[tab.held[p]]) = p
<1>1. tab.held[p] \in Jobs  BY Nats DEF Typed
<1>2. QED  BY <1>1, JobOfPanel DEF HeldWell, Typed

\* What is held stays so while its job runs and the panel does not move on.
LEMMA HeldCarried ==
  ASSUME Typed, NEW p \in Parts, HeldWell(p), tab'.held[p] = tab.held[p], tab.held[p] # NULL, mode' = mode,
         jobs'[tab.held[p]] # NULL,
         LET i == jobs[tab.held[p]]  j == jobs'[tab.held[p]] IN
           /\ j.kind = i.kind /\ j.part = i.part /\ j.attempt = i.attempt /\ j.logouts = i.logouts
           /\ j.alive = i.alive \/ (p = "main" /\ mode \in {"services", "resources", "whatsapp"}),
         tab'.attempt = tab.attempt,
         \/ tab'.logouts = tab.logouts /\ (tab'.leaving => tab.leaving)
         \/ p = "main" /\ mode \notin {"admin", "agent"}
  PROVE  HeldWell(p)'
<1> DEFINE h == tab.held[p]
<1>1. h \in Jobs /\ jobs[h] # NULL /\ jobs[h].kind \in {"act", "closures"} /\ Slot(jobs[h]) = p
  BY HeldJob
<1>2. Slot(jobs[h])' = p  BY <1>1 DEF Slot
<1>3. (p = "side" \/ mode \in {"admin", "profile", "agent", "calendar"}) => Current(h)'
  <2>1. SUFFICES ASSUME p = "side" \/ mode \in {"admin", "profile", "agent", "calendar"} PROVE Current(h)'
    OBVIOUS
  <2>2. Current(h) /\ jobs'[h].alive = jobs[h].alive  BY <1>1, <2>1 DEF HeldWell, Parts
  <2>3. jobs'[h].kind # "load" /\ jobs[h].kind # "load"  BY <1>1
  <2>4. CASE p = "side"  BY <1>1, <1>2, <2>2, <2>3, <2>4 DEF Current
  <2>5. CASE p = "main" /\ mode \in {"admin", "profile", "agent", "calendar"}
    BY <1>1, <1>2, <2>2, <2>3, <2>5 DEF Current
  <2>6. QED  BY <2>1, <2>4, <2>5 DEF Parts
<1>4. QED  BY <1>1, <1>2, <1>3 DEF HeldWell

\* A job that begins is held by its part.
LEMMA HeldBegun ==
  ASSUME Typed, NEW p \in Parts, NEW k \in Jobs, tab'.held[p] = k, mode' = mode,
         NEW kind \in {"act", "closures"}, NEW part, NEW step, NEW token,
         IsBegun(jobs'[k], tab, kind, part, step, token), tab'.attempt = tab.attempt, tab'.logouts = tab.logouts,
         p = IF mode = "calendar" /\ part = "side" THEN "side" ELSE "main",
         p = "side" \/ mode \in {"admin", "agent"} => ~tab'.leaving
  PROVE  HeldWell(p)'
<1>1. /\ jobs'[k] # NULL /\ jobs'[k].kind = kind /\ jobs'[k].part = part /\ jobs'[k].alive
      /\ jobs'[k].attempt = tab.attempt /\ jobs'[k].logouts = tab.logouts
  BY DEF IsBegun
<1>2. Slot(jobs[k])' = p  BY <1>1 DEF Slot
<1>3. (p = "side" \/ mode \in {"admin", "profile", "agent", "calendar"}) => Current(k)'
  BY <1>1, <1>2 DEF Current
<1>4. QED  BY <1>1, <1>2, <1>3 DEF HeldWell

\* What the buttons of the main part wait for changes with an action, or when its job ends.
LEMMA HeldMain ==
  ASSUME Typed, StepOf
  PROVE  \/ tab'.held["main"] = tab.held["main"]
         \/ LeavesStill /\ tab'.held["main"] = NULL
         \/ /\ tab'.held["main"] = NULL /\ mode \in {"admin", "agent"}
            /\ \E k \in Jobs : LoadsAgain(k) \/ LogoutBegins(k)
         \/ /\ tab'.held["main"] = NULL
            /\ \E k \in Jobs : /\ JobGoes(k) /\ WorkGoes(k) /\ jobs'[k] = NULL
                               /\ Current(k) \/ (Slot(jobs[k]) = "main" /\ Owns(tab, k))
         \/ \E k \in Jobs : Submitted(k) /\ tab.held["main"] = NULL /\ tab'.held["main"] = k
<1>1. "main" \in Parts /\ "side" \in Parts  BY DEF Parts
<1>2. CASE Quiet \/ LeavesStill  BY <1>1, <1>2, NoneIsNull DEF Quiet, LeavesStill, Leaves
<1>3. ASSUME NEW k \in Jobs, (\E q \in Parts, a \in Answer : Served(k, q, a)) \/ RetriesClosures(k) \/ Expires(k)
      PROVE  tab'.held["main"] = tab.held["main"]
  BY <1>3 DEF Served, RetriesClosures, ClosuresBegin, Expires
<1>4. ASSUME NEW k \in Jobs, LoadsAgain(k) \/ LogoutBegins(k)
      PROVE  \/ tab'.held["main"] = tab.held["main"]
             \/ tab'.held["main"] = NULL /\ mode \in {"admin", "agent"}
  BY <1>4 DEF LoadsAgain, LoadBegins, LogoutBegins
<1>5. ASSUME NEW k \in Jobs, Submitted(k)
      PROVE  \/ tab'.held["main"] = tab.held["main"]
             \/ tab.held["main"] = NULL /\ tab'.held["main"] = k
  BY <1>1, <1>5 DEF Submitted, SubmitBegins, Parts
<1>6. ASSUME NEW k \in Jobs, JobGoes(k)
      PROVE  \/ tab'.held["main"] = tab.held["main"]
             \/ /\ tab'.held["main"] = NULL /\ WorkGoes(k) /\ jobs'[k] = NULL
                /\ Current(k) \/ (Slot(jobs[k]) = "main" /\ Owns(tab, k))
  <2>1. CASE Bootstrapped(k) \/ LogoutFails(k)  BY <2>1 DEF Bootstrapped, LogoutFails
  <2>2. CASE LoadGoes(k)
    BY <2>2 DEF LoadGoes, GivesUp, Reading, ClosuresBegin, Verifying, Presenting, PresentsAs, ShowsLoadedQr
  <2>3. CASE WorkGoes(k)  BY <1>1, <2>3 DEF WorkGoes, Works, LetGo, GoesOn, LosesPanel
  <2>4. QED  BY <1>6, <2>1, <2>2, <2>3 DEF JobGoes
<1>7. QED  BY <1>2, <1>3, <1>4, <1>5, <1>6 DEF StepOf

\* While a load begins or goes on, and when an attempt to log out fails
LEMMA HeldLoads ==
  ASSUME Typed, OneLoad, Held, NEW k \in Jobs, NEW p \in Parts, mode' = mode,
         \/ LoadsAgain(k)
         \/ Answered(k) /\ (LoadGoes(k) \/ LogoutFails(k))
  PROVE  HeldWell(p)'
<1>1. "main" \in Parts /\ "side" \in Parts /\ HeldWell(p)  BY DEF Parts, Held
<1>2. CASE LoadsAgain(k)
  <2>1. tab.held["main"] = NULL \/ mode = "agent"  BY <1>2 DEF LoadsAgain, Held, OneLoad
  <2>2. tab'.held["main"] = NULL /\ tab'.held["side"] = NULL  BY <1>2, <2>1 DEF LoadsAgain, LoadBegins
  <2>3. tab'.held[p] = NULL  BY <2>2 DEF Parts
  <2>4. QED  BY <2>3 DEF HeldWell
<1>3. CASE Others(k) /\ tab'.held = tab.held /\ tab'.attempt = tab.attempt /\ tab'.logouts = tab.logouts
           /\ (tab'.leaving => tab.leaving) /\ jobs[k].kind \in {"load", "logout"}
  <2>1. CASE tab.held[p] = NULL  BY <1>3, <2>1 DEF HeldWell
  <2>2. CASE tab.held[p] # NULL
    <3>1. tab.held[p] \in Jobs /\ tab.held[p] # k /\ jobs[tab.held[p]] # NULL  BY <1>1, <1>3, <2>2, HeldJob
    <3>2. jobs'[tab.held[p]] = jobs[tab.held[p]]  BY <1>3, <3>1 DEF Others
    <3>3. QED  BY <1>1, <1>3, <2>2, <3>1, <3>2, HeldCarried
  <2>3. QED  BY <2>1, <2>2
<1>4. CASE LogoutFails(k)  BY <1>3, <1>4 DEF LogoutFails
<1>5. CASE Answered(k) /\ LoadGoes(k)
  <2>1. CASE GivesUp(k)  BY <1>3, <1>5, <2>1 DEF LoadGoes, GivesUp
  <2>2. CASE Verifying(k)  BY <1>3, <1>5, <2>2 DEF LoadGoes, Verifying
  <2>3. CASE Presenting(k)  BY <1>3, <1>5, <2>3 DEF LoadGoes, Presenting, PresentsAs
  <2>4. CASE ShowsLoadedQr(k)  BY <1>3, <1>5, <2>4 DEF LoadGoes, ShowsLoadedQr, Stays
  <2>5. CASE Reading(k) /\ mode # "calendar"  BY <1>3, <1>5, <2>5 DEF LoadGoes, Reading
  <2>6. CASE Reading(k) /\ mode = "calendar"
    <3>1. PICK l \in Jobs : l # k /\ ClosuresBegin(k, l) /\ tab'.closures = tab.closures  BY <2>6 DEF Reading
    <3>2. ~tab.leaving  BY <1>5, <2>6 DEF LoadGoes, Reading, Current
    <3>3. HeldWell("side")'
      <4>1. /\ tab'.held["side"] = l /\ IsBegun(jobs'[l], tab, "closures", "side", "read", stored')
            /\ tab'.attempt = tab.attempt /\ tab'.logouts = tab.logouts /\ ~tab'.leaving
        BY <3>1, <3>2 DEF ClosuresBegin
      <4>2. QED  BY <1>1, <2>6, <4>1, HeldBegun
    <3>4. tab.held["main"] = NULL
      <4>1. IsLoad(k) /\ jobs[k].step = "session"  BY <1>5, <2>6 DEF LoadGoes, Reading, IsLoad, Answered
      <4>2. tab.view = "loading"  BY <4>1 DEF OneLoad
      <4>3. QED  BY <4>2 DEF Held
    <3>5. HeldWell("main")'  BY <3>1, <3>4 DEF ClosuresBegin, HeldWell
    <3>6. QED  BY <3>3, <3>5 DEF Parts
  <2>7. QED  BY <1>5, <2>1, <2>2, <2>3, <2>4, <2>5, <2>6 DEF LoadGoes
<1>6. QED  BY <1>2, <1>4, <1>5

\* While the panel is worked on, or a request is served
LEMMA HeldWorks ==
  ASSUME Typed, Held, NEW k \in Jobs, NEW p \in Parts, mode' = mode, jobs[k] # NULL,
         \/ \E q \in Parts, a \in Answer : Served(k, q, a)
         \/ jobs[k].kind \in {"load", "act"} /\ Bootstrapped(k)
         \/ WorkGoes(k) \/ Expires(k)
  PROVE  HeldWell(p)'
<1>1. "main" \in Parts /\ "side" \in Parts /\ HeldWell(p) /\ TypeOK  BY DEF Parts, Held, Typed
<1> DEFINE h == tab.held[p]
<1>2. CASE tab'.held[p] = NULL  BY <1>2 DEF HeldWell
<1>3. CASE tab'.held[p] = h /\ h # k /\ Others(k) /\ tab'.attempt = tab.attempt /\ tab'.logouts = tab.logouts
           /\ tab'.leaving = tab.leaving
  <2>1. CASE h = NULL  BY <1>2, <1>3, <2>1
  <2>2. CASE h # NULL
    <3>1. h \in Jobs /\ jobs[h] # NULL  BY <1>1, <2>2, HeldJob
    <3>2. jobs'[h] = jobs[h]  BY <1>3, <3>1 DEF Others
    <3>3. QED  BY <1>1, <1>3, <2>2, <3>1, <3>2, HeldCarried
  <2>3. QED  BY <2>1, <2>2
<1>4. CASE /\ tab'.held[p] = h /\ h = k /\ tab'.attempt = tab.attempt /\ tab'.logouts = tab.logouts
           /\ tab'.leaving = tab.leaving /\ jobs'[k] # NULL
           /\ LET i == jobs[k]  j == jobs'[k] IN
              /\ j.kind = i.kind /\ j.part = i.part /\ j.attempt = i.attempt /\ j.logouts = i.logouts
              /\ j.alive = i.alive \/ (p = "main" /\ mode \in {"services", "resources", "whatsapp"})
  BY <1>1, <1>4, HeldCarried, PanelAssumption
<1>5. ASSUME NEW q \in Parts, NEW a \in Answer, Served(k, q, a) PROVE HeldWell(p)'
  <2>1. Others(k) /\ Alike(jobs'[k], jobs[k]) /\ jobs'[k].alive = jobs[k].alive /\ tab' = tab
    BY <1>1, <1>5, ServedFields DEF Served
  <2>2. QED  BY <1>3, <1>4, <2>1 DEF Alike
<1>6. CASE Bootstrapped(k)  BY <1>3, <1>4, <1>6 DEF Bootstrapped
<1>7. CASE Expires(k)
  <2>1. Alike(jobs'[k], jobs[k]) /\ Others(k) /\ mode = "whatsapp" /\ tab'.held = tab.held /\ Stays
    BY <1>1, <1>7, JobOfPanel, SameJobFields DEF Expires
  <2>2. p = "main" \/ h = NULL  BY <1>1, <2>1, HeldJob DEF Parts, Slot
  <2>3. QED  BY <1>2, <1>3, <1>4, <2>1, <2>2 DEF Alike, Stays
<1>8. ASSUME NEW t, LetGo(k, t), WorkGoes(k) PROVE HeldWell(p)'
  <2> DEFINE s == Slot(jobs[k])
  <2>1. /\ Stays /\ s \in Parts /\ tab'.held[s] = (IF Owns(tab, k) THEN NULL ELSE tab.held[s])
        /\ (p # s => tab'.held[p] = tab.held[p]) /\ Others(k)
    BY <1>8 DEF LetGo
  <2>2. CASE p # s
    <3>1. h = NULL \/ h # k  BY <1>1, <2>2, HeldJob
    <3>2. QED  BY <1>2, <1>3, <2>1, <2>2, <3>1 DEF Stays
  <2>3. CASE p = s /\ Owns(tab, k)  BY <1>2, <2>1, <2>3
  <2>4. CASE p = s /\ ~Owns(tab, k)
    <3>1. h # k
      <4>1. SUFFICES ASSUME h = k PROVE FALSE  OBVIOUS
      <4>2. h # NULL  BY <4>1, PanelAssumption
      <4>3. Current(k) \/ ~(p = "side" \/ mode \in {"admin", "profile", "agent", "calendar"})
        BY <1>1, <4>1, <4>2 DEF HeldWell
      <4>4. mode \in {"admin", "services", "resources", "calendar", "profile", "agent", "whatsapp"}
        BY <1>1, PanelAssumption DEF TypeOK
      <4>5. QED  BY <2>4, <4>1, <4>3, <4>4 DEF Owns
    <3>2. QED  BY <1>3, <2>1, <2>4, <3>1 DEF Stays
  <2>5. QED  BY <2>2, <2>3, <2>4
<1>9. ASSUME NEW t, NEW step \in Step, GoesOn(k, t, step) PROVE HeldWell(p)'
  BY <1>3, <1>4, <1>9 DEF GoesOn, Stays, IsSent
<1>10. CASE LosesPanel(k)
  <2>1. h = NULL \/ p = "main"  BY <1>1, <1>10, HeldJob DEF Parts, Slot, LosesPanel
  <2>2. QED  BY <1>2, <1>10, <2>1 DEF LosesPanel, Parts
<1>11. CASE WorkGoes(k)  BY <1>8, <1>9, <1>10, <1>11 DEF WorkGoes, Works
<1>12. QED  BY <1>5, <1>6, <1>7, <1>11

\* When a request of the panel begins, or an attempt to log out
LEMMA HeldBegins ==
  ASSUME Typed, Held, NEW k \in Jobs, NEW p \in Parts, mode' = mode,
         RetriesClosures(k) \/ Submitted(k) \/ LogoutBegins(k)
  PROVE  HeldWell(p)'
<1>1. "main" \in Parts /\ "side" \in Parts /\ HeldWell(p) /\ TypeOK  BY DEF Parts, Held, Typed
<1> DEFINE h == tab.held[p]
<1>2. CASE tab'.held[p] = NULL  BY <1>2 DEF HeldWell
<1>3. CASE /\ tab'.held[p] = h /\ (h # NULL /\ h # k => jobs'[h] = jobs[h]) /\ tab'.attempt = tab.attempt /\ jobs[k] = NULL
           /\ \/ tab'.logouts = tab.logouts /\ (tab'.leaving => tab.leaving)
              \/ p = "main" /\ mode \notin {"admin", "agent"}
  <2>1. CASE h = NULL  BY <1>2, <1>3, <2>1
  <2>2. CASE h # NULL
    <3>1. h \in Jobs /\ jobs[h] # NULL  BY <1>1, <2>2, HeldJob
    <3>2. jobs'[h] = jobs[h]  BY <1>3, <2>2, <3>1
    <3>3. QED  BY <1>1, <1>3, <2>2, <3>1, <3>2, HeldCarried
  <2>3. QED  BY <2>1, <2>2
<1>4. CASE RetriesClosures(k)
  <2>1. CASE p = "side"
    <3>1. /\ tab'.held["side"] = k /\ IsBegun(jobs'[k], tab, "closures", "side", "read", stored')
          /\ tab'.attempt = tab.attempt /\ tab'.logouts = tab.logouts /\ ~tab'.leaving /\ mode = "calendar"
      BY <1>4 DEF RetriesClosures, ClosuresBegin
    <3>2. QED  BY <2>1, <3>1, HeldBegun
  <2>2. CASE p = "main"
    <3>1. h # NULL => h \in Jobs  BY <1>1, HeldJob
    <3>2. QED  BY <1>3, <1>4, <2>2, <3>1 DEF RetriesClosures, ClosuresBegin
  <2>3. QED  BY <2>1, <2>2 DEF Parts
<1>5. CASE Submitted(k)
  <2>1. PICK part \in Parts, step \in Step : Starts(k, part, step) /\ SubmitBegins(k, part, step)
    BY <1>5 DEF Submitted
  <2> DEFINE s == IF mode = "calendar" THEN part ELSE "main"
  <2>2. /\ tab'.held[s] = k /\ (p # s => tab'.held[p] = tab.held[p])
        /\ IsBegun(jobs'[k], tab, "act", part, step, stored) /\ jobs[k] = NULL
        /\ tab'.attempt = tab.attempt /\ tab'.logouts = tab.logouts /\ tab'.leaving = tab.leaving
        /\ \A l \in Jobs : l # k => jobs'[l] = jobs[l]
    BY <2>1 DEF SubmitBegins
  <2>3. CASE p = s
    <3>1. p = "side" \/ mode \in {"admin", "agent"} => ~tab.leaving  BY <2>1, <2>3 DEF Starts
    <3>2. p = IF mode = "calendar" /\ part = "side" THEN "side" ELSE "main"  BY <2>3 DEF Parts
    <3>3. QED  BY <2>2, <2>3, <3>1, <3>2, HeldBegun
  <2>4. CASE p # s
    <3>1. h # NULL => h \in Jobs  BY <1>1, HeldJob
    <3>2. QED  BY <1>3, <2>2, <2>4, <3>1
  <2>5. QED  BY <2>3, <2>4
<1>6. CASE LogoutBegins(k)
  <2>1. CASE p = "main" /\ mode \notin {"admin", "agent"}
    <3>1. h # NULL => h \in Jobs /\ jobs[h] # NULL /\ h # tab.held["side"]
      <4>1. SUFFICES ASSUME h # NULL, h = tab.held["side"] \/ h \notin Jobs \/ jobs[h] = NULL PROVE FALSE  OBVIOUS
      <4>2. Slot(jobs[h]) = "main" /\ h \in Jobs /\ jobs[h] # NULL  BY <1>1, <2>1, <4>1, HeldJob
      <4>3. HeldWell("side")  BY <1>1 DEF Held
      <4>4. Slot(jobs[h]) = "side"  BY <1>1, <4>1, <4>2, <4>3, HeldJob
      <4>5. QED  BY <4>2, <4>4
    <3>2. QED  BY <1>3, <1>6, <2>1, <3>1 DEF LogoutBegins
  <2>2. CASE p = "side" \/ mode \in {"admin", "agent"}  BY <1>2, <1>6, <2>2 DEF LogoutBegins, Parts
  <2>3. QED  BY <2>1, <2>2 DEF Parts
<1>7. QED  BY <1>4, <1>5, <1>6

LEMMA HeldWellStep ==
  ASSUME Typed, OneLoad, Held, StepOf, NEW p \in Parts
  PROVE  HeldWell(p)'
<1>1. mode' = mode /\ HeldWell(p) /\ TypeOK  BY Around DEF Held, Typed
<1>2. CASE Quiet
  <2>1. tab' = tab /\ jobs' = jobs  BY <1>2 DEF Quiet
  <2>2. CASE tab.held[p] = NULL  BY <2>1, <2>2 DEF HeldWell
  <2>3. CASE tab.held[p] # NULL
    <3>1. jobs[tab.held[p]] # NULL  BY <1>1, <2>3, HeldJob
    <3>2. QED  BY <1>1, <2>1, <2>3, <3>1, HeldCarried
  <2>4. QED  BY <2>2, <2>3
<1>3. CASE LeavesStill  BY <1>3, NoneIsNull DEF LeavesStill, Leaves, HeldWell
<1>4. ASSUME NEW k \in Jobs, (\E q \in Parts, a \in Answer : Served(k, q, a)) \/ Expires(k) PROVE HeldWell(p)'
  BY <1>1, <1>4, HeldWorks DEF Served, Waits, Expires
<1>5. ASSUME NEW k \in Jobs, JobGoes(k) PROVE HeldWell(p)'
  <2>1. Answered(k) /\ jobs[k] # NULL  BY <1>5 DEF JobGoes, Answered
  <2>2. QED  BY <1>1, <1>5, <2>1, HeldLoads, HeldWorks DEF JobGoes
<1>6. ASSUME NEW k \in Jobs, LoadsAgain(k) \/ RetriesClosures(k) \/ Submitted(k) \/ LogoutBegins(k) PROVE HeldWell(p)'
  BY <1>1, <1>6, HeldLoads, HeldBegins
<1>7. QED  BY <1>2, <1>3, <1>4, <1>5, <1>6 DEF StepOf

LEMMA HeldStep == Typed /\ Past /\ OneLoad /\ Held /\ [Next]_vars => Held'
<1>1. SUFFICES ASSUME Typed, Past, OneLoad, Held, [Next]_vars PROVE Held'  OBVIOUS
<1>2. StepOf /\ mode' = mode  BY <1>1, StepCases, Around
<1>3. \A p \in Parts : HeldWell(p)'  BY <1>1, <1>2, HeldWellStep
<1>4. "main" \in Parts /\ HeldWell("main")  BY <1>1 DEF Held, Parts
<1>5. tab'.held["main"] # NULL => tab'.view = "ready"
  <2>1. SUFFICES ASSUME tab'.held["main"] # NULL PROVE tab'.view = "ready"  OBVIOUS
  <2>2. ASSUME NEW k \in Jobs, Submitted(k) PROVE tab'.view = "ready"  BY <2>2 DEF Submitted, SubmitBegins
  <2>3. CASE tab'.held["main"] = tab.held["main"]
    <3>1. tab.view = "ready"  BY <1>1, <2>1, <2>3 DEF Held
    <3>2. CASE LeavesStill  BY <1>4, <2>1, <3>2, NoneIsNull DEF LeavesStill, Leaves
    <3>3. ASSUME NEW k \in Jobs, LoadsAgain(k) PROVE FALSE
      BY <1>1, <2>1, <2>3, <3>1, <3>3 DEF LoadsAgain, LoadBegins, OneLoad
    <3>4. ASSUME NEW k \in Jobs, LosesPanel(k) PROVE FALSE  BY <2>1, <3>4 DEF LosesPanel
    <3>5. ASSUME NEW k \in Jobs, Presenting(k) PROVE tab'.view = "ready"  BY <3>5 DEF Presenting, PresentsAs
    <3>6. ASSUME NEW k \in Jobs, JobGoes(k), LoadGoes(k), GivesUp(k) PROVE FALSE
      <4>1. IsLoad(k) /\ jobs[k].step # "qr"  BY <3>6 DEF JobGoes, Answered, LoadGoes, GivesUp, IsLoad
      <4>2. QED  BY <1>1, <3>1, <4>1 DEF OneLoad
    <3>7. QED  BY <1>1, <1>2, <3>1, <3>2, <3>3, <3>4, <3>5, <3>6, ViewCases
  <2>4. QED  BY <1>1, <1>2, <2>1, <2>2, <2>3, HeldMain
<1>6. ASSUME mode \in {"services", "resources", "profile", "whatsapp"}, NEW l \in Jobs, jobs'[l] # NULL, jobs'[l].kind = "act" PROVE tab'.held["main"] = l
  <2>1. CASE jobs[l] = NULL
    <3>1. Begins(l)  BY <1>1, <1>2, <1>6, <2>1, NewBegins
    <3>2. Submitted(l)
      BY <1>6, <3>1 DEF Begins, LoadsAgain, LoadBegins, RetriesClosures, LogoutBegins, ClosuresBegin, IsBegun
    <3>3. QED  BY <1>6, <3>2 DEF Submitted, SubmitBegins
  <2>2. CASE jobs[l] # NULL
    <3>1. jobs[l].kind = "act" /\ tab.held["main"] = l /\ l # NULL
      BY <1>1, <1>2, <1>6, <2>2, JobStays, PanelAssumption DEF Held
    <3>2. ~LeavesStill  BY <1>6 DEF LeavesStill, Leaves
    <3>3. ASSUME NEW k \in Jobs, JobGoes(k), WorkGoes(k), jobs'[k] = NULL PROVE FALSE
      <4>1. jobs[k] # NULL /\ jobs[k].kind = "act"
        BY <1>1, <1>6, <3>3 DEF WorkGoes, JobGoes, Answered, Typed, JobsTyped, GoodJob
      <4>2. k = l  BY <1>1, <1>6, <3>1, <4>1 DEF Held
      <4>3. QED  BY <1>6, <3>3, <4>2
    <3>4. QED  BY <1>1, <1>2, <1>6, <3>1, <3>2, <3>3, HeldMain
  <2>3. QED  BY <2>1, <2>2
<1>7. QED  BY <1>2, <1>3, <1>5, <1>6 DEF Held

-----------------------------------------------------------------------------
(* The tab's token is not younger than the requests and the data of the     *)
(* panel: only a job that asks for the session brings one, and no other job *)
(* of the panel runs by then. The administrator's panel is left out: what   *)
(* it does after a refusal asks again while other work goes on.             *)

TokenOlder ==
  mode # "admin" =>
    \A k \in Jobs : jobs[k] # NULL /\ jobs[k].kind # "logout" /\ jobs[k].attempt = tab.attempt
                    => stored <= jobs[k].cookie

\* A token is kept, is taken away or comes with an answer about the session.
LEMMA TokenCases ==
  ASSUME Typed, Past, StepOf
  PROVE  \/ stored' \in {stored, 0}
         \/ \E k \in Jobs : JobGoes(k) /\ jobs[k] # NULL /\ jobs[k].boot /\ AsksSession(jobs[k])
                            /\ stored' = jobs[k].cookie
<1>1. ASSUME NEW k \in Jobs, JobGoes(k), stored' \notin {stored, 0}
      PROVE  jobs[k] # NULL /\ jobs[k].boot /\ AsksSession(jobs[k]) /\ stored' = jobs[k].cookie
  <2>1. jobs[k] # NULL /\ GoodJob(jobs[k]) /\ PastJob(jobs[k]) /\ Answered(k) /\ stored' = Token(jobs[k])
    BY <1>1 DEF JobGoes, Answered, Typed, JobsTyped, Past
  <2>2. jobs[k].boot /\ Ok(jobs[k].answer["main"]) /\ stored' = jobs[k].answer["main"].by
    BY <1>1, <2>1 DEF Token
  <2>3. AsksSession(jobs[k])  BY <2>1, <2>2 DEF GoodJob
  <2>4. jobs[k].answer["main"] # NULL /\ "main" \in Parts  BY <2>1, <2>3 DEF Answered, AsksSession, Asks, Parts
  <2>5. jobs[k].answer["main"].by = jobs[k].cookie  BY <2>1, <2>2, <2>4 DEF PastJob
  <2>6. QED  BY <2>1, <2>2, <2>3, <2>5
<1>2. CASE Quiet \/ LeavesStill  BY <1>2 DEF Quiet, LeavesStill
<1>3. ASSUME NEW k \in Jobs, \/ (\E q \in Parts, a \in Answer : Served(k, q, a)) \/ LoadsAgain(k) \/ RetriesClosures(k)
                             \/ LogoutBegins(k) \/ Submitted(k) \/ Expires(k)
      PROVE  stored' = stored
  BY <1>3 DEF Served, LoadsAgain, LoadBegins, RetriesClosures, LogoutBegins, Submitted, SubmitBegins, Expires
<1>4. QED  BY <1>1, <1>2, <1>3 DEF StepOf

\* Who asks for the session is alone.
LEMMA SoleAsker ==
  ASSUME Typed, OneLoad, Held, mode # "admin", NEW k \in Jobs, jobs[k] # NULL, jobs[k].boot, AsksSession(jobs[k]),
         NEW l \in Jobs, jobs[l] # NULL, jobs[l].kind # "logout", jobs[l].attempt = tab.attempt
  PROVE  l = k
<1>1. /\ GoodJob(jobs[k]) /\ GoodJob(jobs[l]) /\ jobs[k] \in Job /\ jobs[l] \in Job
      /\ mode \in {"admin", "services", "resources", "calendar", "profile", "agent", "whatsapp"}
  BY JobOfPanel, PanelAssumption DEF Typed, TypeOK, JobsTyped
<1>2. jobs[k].kind \in {"load", "act"} /\ jobs[l].kind \in {"load", "act", "closures"}
  <2>1. jobs[k].kind \in {"load", "closures", "act", "logout"} /\ jobs[l].kind \in {"load", "closures", "act", "logout"}
    BY <1>1 DEF Job
  <2>2. QED  BY <1>1, <2>1 DEF GoodJob, AsksSession
<1>3. CASE jobs[k].kind = "load" /\ jobs[k].step = "session"  BY <1>3 DEF OneLoad, IsLoad
<1>4. CASE jobs[k].kind = "load" /\ jobs[k].step # "session"
  <2>1. jobs[k].step = "verify" /\ mode = "services"  BY <1>1, <1>4 DEF GoodJob, LoadSteps, AsksSession
  <2>2. tab.view = "loading"  BY <1>4, <2>1 DEF OneLoad, IsLoad
  <2>3. QED  BY <1>1, <1>2, <1>4, <2>1, <2>2 DEF OneLoad, IsLoad, GoodJob
<1>5. CASE jobs[k].kind = "act"
  <2>1. mode = "services"  BY <1>1, <1>5 DEF GoodJob, ActSteps, AsksSession
  <2>2. tab.held["main"] = k /\ tab.view = "ready"  BY <1>5, <2>1, PanelAssumption DEF Held
  <2>3. jobs[l].kind = "act"  BY <1>1, <1>2, <2>1, <2>2, LoadsInQr DEF IsLoad, GoodJob
  <2>4. QED  BY <2>1, <2>2, <2>3 DEF Held
<1>6. QED  BY <1>2, <1>3, <1>4, <1>5

LEMMA BegunNow ==
  ASSUME NEW l \in Jobs, Begins(l)
  PROVE  /\ jobs'[l].cookie = now /\ now' = now /\ jobs'[l].seen = 0 /\ ~jobs'[l].boot
         /\ jobs'[l].step \in {"session", "read", "write", "before", "link"}
<1>1. CASE LoadsAgain(l)  BY <1>1 DEF LoadsAgain, LoadBegins, IsBegun, server
<1>2. CASE RetriesClosures(l)  BY <1>2 DEF RetriesClosures, ClosuresBegin, IsBegun, Still
<1>3. CASE Submitted(l)
  <2>1. PICK p \in Parts, step \in Step : Starts(l, p, step) /\ SubmitBegins(l, p, step)  BY <1>3 DEF Submitted
  <2>2. step \in {"write", "read", "before", "link"}  BY <2>1 DEF Starts
  <2>3. QED  BY <2>1, <2>2 DEF SubmitBegins, IsBegun, server
<1>4. CASE LogoutBegins(l)  BY <1>4 DEF LogoutBegins, IsBegun, server
<1>5. ASSUME NEW k \in Jobs, JobGoes(k), Reading(k), ClosuresBegin(k, l)
      PROVE  /\ jobs'[l].cookie = now /\ now' = now /\ jobs'[l].seen = 0 /\ ~jobs'[l].boot
             /\ jobs'[l].step \in {"session", "read", "write", "before", "link"}
  BY <1>5 DEF ClosuresBegin, IsBegun, JobGoes, Still
<1>6. QED  BY <1>1, <1>2, <1>3, <1>4, <1>5 DEF Begins

LEMMA TokenOlderStep ==
  ASSUME Typed, Past, OneLoad, Held, TokenOlder, StepOf
  PROVE  TokenOlder'
<1>1. mode' = mode /\ stored' <= now /\ stored <= now /\ now \in Nat /\ stored \in Nat /\ stored' \in Nat
  <2>1. stored' \in 0..MaxLogins  BY Around
  <2>2. QED  BY <2>1, Around, Nats, PastToken, PanelAssumption DEF Past, Typed
<1>2. SUFFICES ASSUME mode # "admin", NEW l \in Jobs, jobs'[l] # NULL, jobs'[l].kind # "logout",
                      jobs'[l].attempt = tab'.attempt
               PROVE  stored' <= jobs'[l].cookie
  BY <1>1 DEF TokenOlder
<1>3. CASE jobs[l] = NULL
  <2>1. jobs'[l].cookie = now  BY <1>2, <1>3, NewBegins, BegunNow
  <2>2. QED  BY <1>1, <2>1
<1>4. CASE jobs[l] # NULL /\ tab'.attempt = tab.attempt
  <2>1. jobs[l].kind # "logout" /\ jobs[l].attempt = tab.attempt /\ jobs[l].cookie <= jobs'[l].cookie
        /\ jobs[l].cookie \in Nat /\ jobs'[l].cookie \in Nat
    BY <1>2, <1>4, JobStays, JobFields
  <2>2. stored <= jobs[l].cookie  BY <1>2, <1>4, <2>1 DEF TokenOlder
  <2>3. CASE stored' \in {stored, 0}  BY <1>1, <2>1, <2>2, <2>3
  <2>4. ASSUME NEW k \in Jobs, jobs[k] # NULL, jobs[k].boot, AsksSession(jobs[k]), stored' = jobs[k].cookie
        PROVE  stored' <= jobs'[l].cookie
    BY <1>2, <1>4, <2>1, <2>4, SoleAsker
  <2>5. QED  BY <2>3, <2>4, TokenCases
<1>5. CASE jobs[l] # NULL /\ tab'.attempt # tab.attempt
  <2>1. PICK k \in Jobs : LoadsAgain(k)  BY <1>5, Attempts
  <2>2. l = k  BY <1>2, <2>1, LoadAlone
  <2>3. QED  BY <1>5, <2>1, <2>2 DEF LoadsAgain, LoadBegins
<1>6. QED  BY <1>3, <1>4, <1>5

-----------------------------------------------------------------------------
(* What may become of the closures *)

ClosuresLoaded(k) ==
  /\ WorkGoes(k) /\ jobs[k].kind = "closures" /\ Current(k)
  /\ \/ /\ tab'.closures = "ready" /\ jobs[k].answer["side"] # NULL /\ Ok(jobs[k].answer["side"])
        /\ tab'.shown["side"] = Row(jobs[k].answer["side"])
     \/ tab'.closures = "error" /\ tab.closures = "loading"
ClosuresFree(k) ==
  /\ WorkGoes(k) /\ Slot(jobs[k]) = "side" /\ Owns(tab, k) /\ jobs'[k] = NULL
  /\ tab.closures = "pending" /\ tab'.closures = "ready" /\ tab'.held["side"] = NULL

LEMMA ClosuresCases ==
  ASSUME Typed, StepOf
  PROVE  \/ tab'.closures = tab.closures
         \/ tab'.closures = "loading" /\ (LeavesStill \/ \E k \in Jobs : LoadsAgain(k))
         \/ \E k \in Jobs :
              \/ RetriesClosures(k)
              \/ Submitted(k) /\ mode = "calendar" /\ tab.closures = "ready" /\ tab'.closures = "pending"
              \/ JobGoes(k) /\ (ClosuresLoaded(k) \/ ClosuresFree(k) \/ (LogoutFails(k) /\ tab'.closures = Restored(jobs[k])))
<1>1. CASE Quiet \/ LeavesStill  BY <1>1 DEF Quiet, LeavesStill, Leaves
<1>2. ASSUME NEW k \in Jobs,
             (\E q \in Parts, a \in Answer : Served(k, q, a)) \/ LogoutBegins(k) \/ Expires(k)
      PROVE  tab'.closures = tab.closures
  BY <1>2 DEF Served, LogoutBegins, Expires
<1>3. ASSUME NEW k \in Jobs, LoadsAgain(k) PROVE tab'.closures = "loading"  BY <1>3 DEF LoadsAgain, LoadBegins
<1>4. ASSUME NEW k \in Jobs, Submitted(k)
      PROVE  \/ tab'.closures = tab.closures
             \/ mode = "calendar" /\ tab.closures = "ready" /\ tab'.closures = "pending"
  BY <1>4 DEF Submitted, Starts, SubmitBegins
<1>5. ASSUME NEW k \in Jobs, JobGoes(k)
      PROVE  tab'.closures = tab.closures \/ ClosuresLoaded(k) \/ ClosuresFree(k)
             \/ (LogoutFails(k) /\ tab'.closures = Restored(jobs[k]))
  <2>1. CASE Bootstrapped(k) \/ LogoutFails(k)  BY <2>1 DEF Bootstrapped, LogoutFails
  <2>2. CASE LoadGoes(k)
    BY <2>2 DEF LoadGoes, GivesUp, Reading, Verifying, Presenting, PresentsAs, ShowsLoadedQr
  <2>3. ASSUME NEW t, Fits(k, t), WorkGoes(k), LetGo(k, t)
        PROVE  tab'.closures = tab.closures \/ ClosuresLoaded(k) \/ ClosuresFree(k)
    <3>1. ShowsClosures(k, t)  BY <2>3 DEF Fits
    <3>2. tab'.shown = t.shown /\ jobs'[k] = NULL
          /\ tab'.closures = IF Slot(jobs[k]) = "side" /\ Owns(tab, k) /\ t.closures = "pending" THEN "ready" ELSE t.closures
      BY <2>3 DEF LetGo
    <3>3. CASE t.closures = tab.closures
      <4>1. Slot(jobs[k]) = "side" /\ Owns(tab, k) => tab'.held["side"] = NULL  BY <2>3 DEF LetGo
      <4>2. QED  BY <2>3, <3>2, <3>3, <4>1 DEF ClosuresFree
    <3>4. CASE t.closures # tab.closures  BY <2>3, <3>1, <3>2, <3>4 DEF ShowsClosures, ClosuresLoaded
    <3>5. QED  BY <3>3, <3>4
  <2>4. ASSUME NEW t, NEW step \in Step, Fits(k, t), WorkGoes(k), GoesOn(k, t, step)
        PROVE  tab'.closures = tab.closures
    <3>1. jobs[k].kind = "act" /\ tab' = t  BY <2>4 DEF GoesOn, Resumed
    <3>2. QED  BY <2>4, <3>1 DEF Fits, ShowsClosures
  <2>5. CASE LosesPanel(k)  BY <2>5 DEF LosesPanel
  <2>6. CASE WorkGoes(k)  BY <2>3, <2>4, <2>5, <2>6 DEF WorkGoes, Works
  <2>7. QED  BY <1>5, <2>1, <2>2, <2>6 DEF JobGoes
<1>6. QED  BY <1>1, <1>2, <1>3, <1>4, <1>5 DEF StepOf

-----------------------------------------------------------------------------
(* What is shown is not older than the token, where it is shown to be changed. *)

ShownNotOlder ==
  mode \in {"resources", "calendar", "profile", "agent"} =>
    /\ tab.view = "ready" => stored <= tab.shown["main"].by
    /\ mode = "calendar" /\ tab.closures \in {"ready", "pending"} => stored <= tab.shown["side"].by
    /\ \A k \in Jobs : IsLoad(k) /\ jobs[k].step = "session" => tab.closures = "loading"

\* Work that the panel still waits for is of this attempt.
LEMMA OfThisAttempt ==
  ASSUME Typed, OneLoad, NEW k \in Jobs, jobs[k] # NULL, jobs[k].kind # "logout", Current(k),
         mode # "whatsapp"
  PROVE  jobs[k].attempt = tab.attempt
<1>1. jobs[k].kind \in {"load", "act", "closures"} /\ GoodJob(jobs[k])
      /\ mode \in {"admin", "services", "resources", "calendar", "profile", "agent", "whatsapp"}
  BY JobOfPanel, PanelAssumption DEF Typed, TypeOK, JobsTyped, Job
<1>2. CASE jobs[k].kind = "load"  BY <1>2 DEF OneLoad, IsLoad
<1>3. CASE jobs[k].kind = "closures"  BY <1>1, <1>3 DEF GoodJob, Current, Slot
<1>4. CASE jobs[k].kind = "act"  BY <1>1, <1>4 DEF OneLoad, Current, Slot
<1>5. QED  BY <1>1, <1>2, <1>3, <1>4

\* What is shown next, if the token does not change
LEMMA ShownNext ==
  ASSUME Typed, Past, OneLoad, TokenOlder, StepOf, mode \in {"resources", "calendar", "profile", "agent"},
         NEW p \in Parts, stored <= tab.shown[p].by,
         \/ p = "main" /\ tab'.view = "ready"
         \/ p = "side" /\ mode = "calendar" /\ tab'.closures \in {"ready", "pending"}
  PROVE  stored <= tab'.shown[p].by
<1> DEFINE s == tab'.shown[p]
<1>1. ~Cleared(p)  BY DEF Cleared
<1>2. ASSUME NEW k \in Jobs, JobGoes(k), Presented(k, p, s) \/ QrLoaded(k, p, s) \/ Worked(k, p, s), s # tab.shown[p]
      PROVE  stored <= s.by
  <2>1. jobs[k] # NULL /\ GoodJob(jobs[k]) /\ PastJob(jobs[k]) /\ jobs[k] \in Job
    BY <1>2, JobOfPanel DEF JobGoes, Answered, Typed, JobsTyped, Past
  <2>2. jobs[k].step \notin {"verify", "checked", "qr", "after"} /\ jobs[k].kind \in {"load", "act", "closures", "logout"}
    BY <2>1 DEF GoodJob, LoadSteps, ActSteps, Job
  <2>3. CASE Presented(k, p, s)
    <3>1. jobs[k].kind = "load" /\ jobs[k].step = "read" /\ jobs[k].answer[p] # NULL /\ Ok(jobs[k].answer[p])
          /\ s = Row(jobs[k].answer[p])
      BY <2>2, <2>3 DEF Presented, Presenting
    <3>2. s.by = jobs[k].cookie  BY <2>1, <3>1 DEF PastJob, Row
    <3>3. jobs[k].attempt = tab.attempt  BY <2>1, <3>1 DEF OneLoad, IsLoad
    <3>4. QED  BY <2>1, <3>1, <3>2, <3>3 DEF TokenOlder
  <2>4. CASE QrLoaded(k, p, s)  BY <2>2, <2>4 DEF QrLoaded, ShowsLoadedQr
  <2>5. CASE Replaces(k, p, s) /\ WorkGoes(k)
    <3>1. jobs[k].answer[p] # NULL /\ Ok(jobs[k].answer[p]) /\ s = Row(jobs[k].answer[p]) /\ Current(k)
          /\ jobs[k].kind # "logout"
      BY <2>2, <2>5 DEF Replaces, Brings, WorkGoes
    <3>2. s.by = jobs[k].cookie  BY <2>1, <3>1 DEF PastJob, Row
    <3>3. jobs[k].attempt = tab.attempt  BY <2>1, <3>1, OfThisAttempt
    <3>4. QED  BY <2>1, <3>1, <3>2, <3>3 DEF TokenOlder
  <2>6. CASE Joins(k, p, s)  BY <2>6 DEF Joins
  <2>7. QED  BY <1>2, <2>3, <2>4, <2>5, <2>6 DEF Worked, ShowsQr
<1>3. QED  BY <1>1, <1>2, ShownCases

LEMMA ShownNotOlderStep ==
  ASSUME Typed, Past, OneLoad, OneLoad', Held, TokenOlder, ShownNotOlder, StepOf
  PROVE  ShownNotOlder'
<1>1. /\ mode' = mode /\ stored \in Nat /\ stored' \in Nat /\ "main" \in Parts /\ "side" \in Parts
      /\ \A p \in Parts : tab.shown[p].by \in Nat /\ tab'.shown[p].by \in Nat
  <2>1. stored' \in 0..MaxLogins /\ mode' = mode /\ tab' \in Tab  BY Around
  <2>2. tab'.shown \in [Parts -> Shown]  BY <2>1 DEF Tab
  <2>3. \A s \in Shown : s.by \in Nat  BY PanelAssumption DEF Shown
  <2>4. QED  BY <2>1, <2>2, <2>3, Nats, PanelAssumption DEF Typed, Parts
<1>2. SUFFICES ASSUME mode \in {"resources", "calendar", "profile", "agent"} PROVE ShownNotOlder'
  BY <1>1 DEF ShownNotOlder
\* A load that brings a token shows nothing yet.
<1>3. CASE stored' \notin {stored, 0}
  <2>1. PICK k \in Jobs : JobGoes(k) /\ jobs[k] # NULL /\ jobs[k].boot /\ AsksSession(jobs[k])
    BY <1>3, TokenCases
  <2>2. GoodJob(jobs[k]) /\ jobs[k] \in Job /\ jobs[k].kind \in {"load", "act", "closures", "logout"}
    BY <2>1, JobOfPanel DEF Typed, JobsTyped, Job
  <2>3. jobs[k].kind = "load" /\ jobs[k].step = "session"
    BY <1>2, <2>1, <2>2 DEF GoodJob, AsksSession, LoadSteps, ActSteps
  <2>4. tab.view = "loading" /\ tab.closures = "loading"  BY <1>2, <2>1, <2>3 DEF OneLoad, ShownNotOlder, IsLoad
  <2>5. tab'.view # "ready" /\ tab'.closures = "loading"
    <3>1. GivesUp(k) \/ Reading(k)
      BY <2>1, <2>3 DEF JobGoes, Bootstrapped, LoadGoes, WorkGoes, LogoutFails, Verifying, Presenting, ShowsLoadedQr
    <3>2. CASE GivesUp(k)  BY <2>4, <3>2 DEF GivesUp
    <3>3. CASE Reading(k)  BY <2>4, <3>3 DEF Reading, ClosuresBegin
    <3>4. QED  BY <3>1, <3>2, <3>3
  <2>6. QED  BY <2>5 DEF ShownNotOlder
<1>4. CASE stored' \in {stored, 0}
  <2>1. ASSUME NEW p \in Parts, stored <= tab'.shown[p].by PROVE stored' <= tab'.shown[p].by
    BY <1>1, <1>4, <2>1
  <2>2. tab'.view = "ready" => stored <= tab'.shown["main"].by
    <3>1. SUFFICES ASSUME tab'.view = "ready" PROVE stored <= tab'.shown["main"].by  OBVIOUS
    <3>2. CASE tab.view = "ready"
      BY <1>1, <1>2, <3>1, <3>2, ShownNext DEF ShownNotOlder
    <3>3. CASE tab.view # "ready"
      <4>1. PICK k \in Jobs : JobGoes(k) /\ LoadGoes(k) /\ Presenting(k)
        BY <1>2, <3>1, <3>3, ViewCases DEF LeavesStill, Leaves, LoadsAgain, LoadBegins, LosesPanel, GivesUp
      <4>2. jobs[k] # NULL /\ GoodJob(jobs[k]) /\ PastJob(jobs[k]) /\ jobs[k] \in Job /\ jobs[k].kind = "load" /\ Answered(k)
        BY <4>1, JobOfPanel DEF JobGoes, Answered, Typed, JobsTyped, Past, LoadGoes
      <4>3. jobs[k].step = "read"  BY <1>2, <4>1, <4>2 DEF Presenting, GoodJob, LoadSteps
      <4>4. "main" \in Reads(jobs[k]) /\ Asks(jobs[k]) = Reads(jobs[k])
        BY <1>1, <4>2, <4>3 DEF GoodJob, Reads, Asks, Parts
      <4>5. jobs[k].answer["main"] # NULL /\ Ok(jobs[k].answer["main"])
            /\ tab'.shown["main"] = Row(jobs[k].answer["main"])
        <5>1. PICK a \in [Parts -> Answer \cup {NULL}] :
                /\ PresentsAs(k, a) /\ a = jobs[k].answer
                /\ \A p \in Reads(jobs[k]) : Ok(a[p]) \/ (mode = "admin" /\ p = "side")
          BY <4>1, <4>3 DEF Presenting
        <5>2. a["main"] # NULL /\ Ok(a["main"])  BY <4>2, <4>4, <5>1 DEF Answered
        <5>3. QED  BY <1>1, <5>1, <5>2 DEF PresentsAs
      <4>6. tab'.shown["main"].by = jobs[k].cookie  BY <1>1, <4>2, <4>5 DEF PastJob, Row
      <4>7. jobs[k].attempt = tab.attempt  BY <4>2 DEF OneLoad, IsLoad
      <4>8. QED  BY <1>2, <4>2, <4>6, <4>7 DEF TokenOlder
    <3>4. QED  BY <3>2, <3>3
  <2>3. mode = "calendar" /\ tab'.closures \in {"ready", "pending"} => stored <= tab'.shown["side"].by
    <3>1. SUFFICES ASSUME mode = "calendar", tab'.closures \in {"ready", "pending"} PROVE stored <= tab'.shown["side"].by
      OBVIOUS
    <3>2. CASE tab.closures \in {"ready", "pending"}
      BY <1>1, <1>2, <3>1, <3>2, ShownNext DEF ShownNotOlder
    <3>3. ASSUME NEW k \in Jobs, JobGoes(k), ClosuresLoaded(k) PROVE stored <= tab'.shown["side"].by
      <4>1. /\ jobs[k] # NULL /\ PastJob(jobs[k]) /\ jobs[k].kind = "closures" /\ Current(k)
            /\ jobs[k].answer["side"] # NULL /\ Ok(jobs[k].answer["side"])
            /\ tab'.shown["side"] = Row(jobs[k].answer["side"])
        BY <3>1, <3>3 DEF JobGoes, Answered, Past, ClosuresLoaded
      <4>2. tab'.shown["side"].by = jobs[k].cookie  BY <1>1, <4>1 DEF PastJob, Row
      <4>3. jobs[k].attempt = tab.attempt  BY <1>2, <4>1, OfThisAttempt
      <4>4. QED  BY <1>2, <4>1, <4>2, <4>3 DEF TokenOlder
    <3>4. CASE tab.closures \notin {"ready", "pending"}
      <4>1. ASSUME NEW k \in Jobs, RetriesClosures(k) PROVE FALSE  BY <3>1, <3>4, <4>1 DEF RetriesClosures
      <4>2. ASSUME NEW k \in Jobs, LogoutFails(k), tab'.closures = Restored(jobs[k]) PROVE FALSE
        BY <3>1, <3>4, <4>2 DEF Restored
      <4>3. QED  BY <3>1, <3>3, <3>4, <4>1, <4>2, ClosuresCases DEF ClosuresFree
    <3>5. QED  BY <3>2, <3>4
  <2>4. ASSUME NEW l \in Jobs, IsLoad(l)', jobs'[l].step = "session" PROVE tab'.closures = "loading"
    <3>1. CASE \E k \in Jobs : LoadsAgain(k)  BY <3>1 DEF LoadsAgain, LoadBegins
    <3>2. CASE \A k \in Jobs : ~LoadsAgain(k)
      <4>1. tab'.view = "loading"  BY <2>4 DEF OneLoad, IsLoad
      <4>2. jobs[l] # NULL
        <5>1. SUFFICES ASSUME jobs[l] = NULL PROVE FALSE  OBVIOUS
        <5>2. Begins(l)  BY <2>4, <5>1, NewBegins DEF IsLoad
        <5>3. QED  BY <2>4, <3>2, <5>2, BeginsReady DEF IsLoad
      <4>3. jobs[l].kind = "load" /\ jobs[l].step = "session"
        <5>1. jobs[l].kind = "load" /\ (~JobGoes(l) => jobs[l].step = "session")
          BY <2>4, <4>2, JobStays DEF IsLoad
        <5>2. ASSUME JobGoes(l) PROVE jobs[l].step = "session"
          BY <2>4, <5>1, <5>2, JobGoesOn DEF IsLoad, Bootstrapped, IsSent
        <5>3. QED  BY <5>1, <5>2
      <4>4. tab.view = "loading" /\ tab.closures = "loading"
        BY <1>2, <4>2, <4>3 DEF OneLoad, ShownNotOlder, IsLoad
      <4>5. ASSUME NEW k \in Jobs, RetriesClosures(k) \/ Submitted(k) PROVE FALSE
        BY <4>4, <4>5 DEF RetriesClosures, Submitted, SubmitBegins
      <4>6. ASSUME NEW k \in Jobs, JobGoes(k), ClosuresLoaded(k) PROVE FALSE
        <5>1. jobs[k] # NULL /\ jobs[k].kind = "closures" /\ Current(k)
          BY <4>6 DEF JobGoes, Answered, ClosuresLoaded
        <5>2. jobs[k].attempt = tab.attempt  BY <1>2, <5>1, OfThisAttempt
        <5>3. k = l  BY <4>2, <4>3, <5>1, <5>2 DEF OneLoad, IsLoad
        <5>4. QED  BY <4>3, <5>1, <5>3
      <4>7. ASSUME NEW k \in Jobs, JobGoes(k), LogoutFails(k) PROVE Restored(jobs[k]) = tab.closures
        <5>1. jobs[k] # NULL /\ jobs[k].kind = "logout"  BY <4>7 DEF JobGoes, Answered, LogoutFails
        <5>2. jobs[k].attempt # tab.attempt  BY <4>4, <5>1 DEF OneLoad
        <5>3. QED  BY <5>2 DEF Restored
      <4>8. QED  BY <3>2, <4>4, <4>5, <4>6, <4>7, ClosuresCases DEF ClosuresFree
    <3>3. QED  BY <3>1, <3>2
  <2>5. QED  BY <1>1, <2>1, <2>2, <2>3, <2>4 DEF ShownNotOlder
<1>5. QED  BY <1>3, <1>4

-----------------------------------------------------------------------------
(* The token of a change is not younger than the data it was made from;     *)
(* what the services loaded is of the session that was asked for before and *)
(* after; and so what they show is of the session that owns the panel.      *)

TokenGoesWithData ==
  mode # "admin" =>
    \A k \in Jobs : jobs[k] # NULL /\ jobs[k].kind = "act" =>
      /\ jobs[k].step = "write" /\ jobs[k].seen = 0 => jobs[k].csrf <= jobs[k].from
      /\ mode = "services" => jobs[k].from = jobs[k].owner

Bracketed(j) ==
  \A p \in Parts :
    /\ j.step \in {"verify", "checked", "after"} /\ j.loaded[p] # NULL =>
         Ok(j.loaded[p]) /\ j.loaded[p].by \in j.owner..(IF j.boot THEN j.seen ELSE j.cookie)
    /\ j.step = "verify" => j.loaded[p] # NULL
LoadedBetween == mode = "services" => \A k \in Jobs : jobs[k] # NULL => Bracketed(jobs[k])

LEMMA TokenGoesStep ==
  ASSUME Typed, Past, OneLoad, Held, TokenOlder, ShownNotOlder, TokenGoesWithData, ServicesOfOwner, StepOf
  PROVE  TokenGoesWithData'
<1>1. mode' = mode /\ stored \in Nat /\ "main" \in Parts /\ "side" \in Parts
      /\ mode \in {"admin", "services", "resources", "calendar", "profile", "agent", "whatsapp"}
  BY Around, Nats, PanelAssumption DEF Typed, Parts, TypeOK
<1>2. SUFFICES ASSUME mode # "admin", NEW l \in Jobs, jobs'[l] # NULL, jobs'[l].kind = "act"
               PROVE  /\ jobs'[l].step = "write" /\ jobs'[l].seen = 0 => jobs'[l].csrf <= jobs'[l].from
                      /\ mode = "services" => jobs'[l].from = jobs'[l].owner
  BY <1>1 DEF TokenGoesWithData
<1>3. CASE jobs[l] = NULL
  <2>1. Begins(l)  BY <1>2, <1>3, NewBegins
  <2>2. Submitted(l)
    BY <1>2, <2>1 DEF Begins, LoadsAgain, LoadBegins, RetriesClosures, LogoutBegins, ClosuresBegin, IsBegun
  <2>3. PICK p \in Parts, step \in Step : Starts(l, p, step) /\ SubmitBegins(l, p, step)  BY <2>2 DEF Submitted
  <2>4. /\ jobs'[l].from = tab.shown[p].by /\ jobs'[l].owner = tab.owner /\ tab.view = "ready"
        /\ jobs'[l].csrf = (IF Mutates(step) THEN stored ELSE 0) /\ jobs'[l].step = step
    BY <2>3 DEF SubmitBegins, IsBegun
  <2>5. CASE mode = "services"  BY <2>3, <2>4, <2>5 DEF Starts, ServicesOfOwner
  <2>6. CASE mode # "services" /\ step = "write"
    <3>1. mode # "whatsapp"  BY <2>3, <2>6 DEF Starts, ActSteps
    <3>2. (p = "main" \/ (p = "side" /\ mode = "calendar" /\ tab.closures = "ready"))
      BY <1>1, <1>2, <2>3, <2>6 DEF Starts, Parts
    <3>3. stored <= tab.shown[p].by  BY <1>1, <1>2, <2>4, <2>6, <3>1, <3>2 DEF ShownNotOlder
    <3>4. QED  BY <2>4, <2>6, <3>3 DEF Mutates
  <2>7. QED  BY <2>4, <2>5, <2>6
<1>4. CASE jobs[l] # NULL /\ ~JobGoes(l)
  <2>1. CASE Kept(l)  BY <1>1, <1>2, <1>4, <2>1 DEF Kept, Alike, TokenGoesWithData
  <2>2. CASE \E p \in Parts, a \in Answer : Served(l, p, a)
    <3>1. Alike(jobs'[l], jobs[l])  BY <2>2, ServedFields DEF Typed
    <3>2. QED  BY <1>1, <1>2, <1>4, <3>1 DEF Alike, TokenGoesWithData
  <2>3. QED  BY <1>2, <1>4, <2>1, <2>2, JobCases, BeginsFree
<1>5. CASE jobs[l] # NULL /\ JobGoes(l)
  <2>1. /\ jobs[l].kind = "act" /\ jobs'[l].from = jobs[l].from /\ jobs'[l].owner = jobs[l].owner
        /\ jobs[l] \in Job /\ PastJob(jobs[l]) /\ GoodJob(jobs[l]) /\ Answered(l)
    BY <1>2, <1>5, JobGoesOn, JobOfPanel DEF Typed, JobsTyped, Past, JobGoes
  <2>2. mode = "services" => jobs[l].from = jobs[l].owner  BY <1>2, <1>5, <2>1 DEF TokenGoesWithData
  <2>3. SUFFICES ASSUME jobs'[l].step = "write", jobs'[l].seen = 0 PROVE jobs'[l].csrf <= jobs'[l].from
    BY <2>1, <2>2
  <2>4. ~Bootstrapped(l)  BY <2>3 DEF Bootstrapped, AsksSession
  <2>5. PICK step \in Step : Resumed(l, step) /\ IsSent(jobs'[l], jobs[l], step, stored')
    BY <1>2, <1>5, <2>1, <2>4, JobGoesOn
  <2>6. /\ mode = "services" /\ jobs[l].step = "before" /\ Same(jobs[l]) /\ Current(l)
        /\ jobs'[l].csrf = stored' /\ jobs[l].seen = 0
    BY <2>3, <2>5 DEF Resumed, IsSent, Mutates
  <2>7. ~jobs[l].boot  BY <2>1, <2>6, JobFields DEF PastJob
  <2>8. jobs[l].answer["main"] # NULL  BY <2>1, <2>6 DEF Answered, Asks
  <2>9. jobs[l].cookie = jobs[l].owner  BY <1>1, <2>1, <2>6, <2>7, <2>8 DEF Same, Seen, PastJob
  <2>10. jobs[l].attempt = tab.attempt  BY <1>2, <1>5, <2>1, <2>6, OfThisAttempt
  <2>11. stored <= jobs[l].cookie  BY <1>2, <1>5, <2>1, <2>10 DEF TokenOlder
  <2>12. stored' \in {stored, 0}  BY <1>5, <2>7 DEF JobGoes, Token
  <2>13. jobs'[l].csrf <= jobs[l].cookie /\ jobs[l].cookie = jobs[l].from
    BY <1>1, <2>1, <2>2, <2>6, <2>9, <2>11, <2>12, JobFields
  <2>14. QED  BY <2>1, <2>13
<1>6. QED  BY <1>3, <1>4, <1>5

LEMMA LoadedBetweenStep ==
  ASSUME Typed, Past, LoadedBetween, StepOf
  PROVE  LoadedBetween'
<1>1. mode' = mode /\ now \in Nat  BY Around, Nats DEF Typed
<1>2. SUFFICES ASSUME mode = "services", NEW l \in Jobs, jobs'[l] # NULL PROVE Bracketed(jobs'[l])
  BY <1>1 DEF LoadedBetween, Bracketed, Ok
<1>3. CASE jobs[l] = NULL
  <2>1. jobs'[l].step \notin {"verify", "checked", "after"}  BY <1>2, <1>3, NewBegins, BegunNow
  <2>2. QED  BY <2>1 DEF Bracketed
<1>4. CASE jobs[l] # NULL /\ ~JobGoes(l)
  <2>1. Alike(jobs'[l], jobs[l])
    <3>1. CASE Kept(l)  BY <3>1 DEF Kept
    <3>2. CASE \E p \in Parts, a \in Answer : Served(l, p, a)  BY <3>2, ServedFields DEF Typed
    <3>3. QED  BY <1>2, <1>4, <3>1, <3>2, JobCases, BeginsFree
  <2>2. Bracketed(jobs[l])  BY <1>2, <1>4 DEF LoadedBetween
  <2>3. QED  BY <2>1, <2>2 DEF Alike, Bracketed
<1>5. CASE jobs[l] # NULL /\ JobGoes(l)
  <2> DEFINE j == jobs[l]  b == jobs'[l]
  <2>1. /\ j \in Job /\ b \in Job /\ PastJob(j) /\ GoodJob(j) /\ Answered(l) /\ Bracketed(j) /\ b.cookie = now
        /\ j.cookie <= now /\ j.cookie \in Nat /\ j.owner \in Nat /\ (j.kind # "load" => b.owner = j.owner)
    BY <1>1, <1>2, <1>5, JobGoesOn, JobOfPanel, JobFields DEF Typed, JobsTyped, Past, JobGoes, LoadedBetween, GoodJob
  <2>2. CASE Bootstrapped(l)
    <3>1. /\ b.step = j.step /\ b.loaded = j.loaded /\ b.owner = j.owner /\ b.boot /\ ~j.boot /\ Ok(j.answer["main"])
          /\ b.seen = j.answer["main"].by /\ j.answer["main"] # NULL
      BY <2>2 DEF Bootstrapped
    <3>2. b.seen = j.cookie  BY <2>1, <3>1 DEF PastJob, Parts
    <3>3. QED  BY <2>1, <3>1, <3>2 DEF Bracketed
  <2>3. ASSUME b.loaded = j.answer, b.owner = j.owner, ~b.boot, \A p \in Asks(j) : Ok(j.answer[p]),
               (j.kind = "load" /\ j.step = "read") \/ b.step # "verify"
        PROVE  Bracketed(b)
    <3>1. \A p \in Parts : j.answer[p] # NULL => Ok(j.answer[p]) /\ j.answer[p].by = j.cookie
      BY <2>1, <2>3 DEF PastJob
    <3>2. j.owner <= j.cookie  BY <2>1 DEF PastJob
    <3>3. j.kind = "load" /\ j.step = "read" => \A p \in Parts : j.answer[p] # NULL
      BY <1>2, <2>1 DEF Answered, Asks, Reads
    <3>4. \A p \in Parts : b.loaded[p] # NULL => Ok(b.loaded[p]) /\ b.loaded[p].by \in b.owner..b.cookie
      BY <2>1, <2>3, <3>1, <3>2
    <3>5. QED  BY <2>3, <3>3, <3>4 DEF Bracketed
  <2>4. CASE j.kind = "load" /\ Verifying(l)
    <3>1. /\ b.loaded = j.answer /\ b.owner = j.owner /\ ~b.boot /\ j.step = "read"
          /\ \A p \in Reads(j) : Ok(j.answer[p])
      BY <1>2, <2>4 DEF Verifying, IsSent
    <3>2. QED  BY <2>3, <2>4, <3>1 DEF Asks
  <2>5. CASE b.step \notin {"verify", "checked", "after"}  BY <2>5 DEF Bracketed
  <2>6. CASE j.kind = "act" /\ b.step \in {"verify", "checked", "after"} /\ ~Bootstrapped(l)
    <3>1. PICK step \in Step : /\ Resumed(l, step) /\ IsSent(b, j, step, stored') /\ step \in ActSteps
                               /\ b.loaded = IF KeepsAnswers(step) THEN j.answer ELSE None
      BY <1>2, <1>5, <2>6, JobGoesOn
    <3>2. step \in {"checked", "after"} /\ b.step = step /\ ~b.boot  BY <1>2, <2>6, <3>1 DEF IsSent, ActSteps
    <3>3. b.loaded = j.answer /\ \A p \in Asks(j) : Ok(j.answer[p])
      BY <3>1, <3>2 DEF Resumed, KeepsAnswers, Asks
    <3>4. QED  BY <2>1, <2>3, <2>6, <3>2, <3>3
  <2>7. QED
    BY <1>2, <1>5, <2>2, <2>4, <2>5, <2>6, JobGoesOn DEF IsSent
<1>6. QED  BY <1>3, <1>4, <1>5

\* What was asked for between two answers of the owner's session is the owner's.
LEMMA BracketOfOwner ==
  ASSUME Typed, Past, NEW k \in Jobs, Answered(k), Bracketed(jobs[k]), Same(jobs[k]),
         jobs[k].step \in {"verify", "checked", "after"}, NEW p \in Parts, jobs[k].loaded[p] # NULL
  PROVE  Ok(jobs[k].loaded[p]) /\ jobs[k].loaded[p].by = jobs[k].owner
<1>1. jobs[k] \in Job /\ PastJob(jobs[k])  BY JobOfPanel DEF Answered, Typed, Past
<1>2. jobs[k].answer["main"] # NULL /\ "main" \in Parts  BY DEF Answered, Asks, Parts
<1>3. (IF jobs[k].boot THEN jobs[k].seen ELSE jobs[k].cookie) = jobs[k].owner
  BY <1>1, <1>2 DEF Same, Seen, PastJob
<1>4. jobs[k].owner \in Nat /\ Ok(jobs[k].loaded[p])
      /\ jobs[k].loaded[p].by \in jobs[k].owner..(IF jobs[k].boot THEN jobs[k].seen ELSE jobs[k].cookie)
  BY <1>1, JobFields DEF Bracketed
<1>5. QED  BY <1>3, <1>4

LEMMA OwnerCases ==
  ASSUME Typed, StepOf, mode = "services", tab.view = "ready", tab'.view = "ready"
  PROVE  tab'.owner = tab.owner \/ \E k \in Jobs : JobGoes(k) /\ LoadGoes(k) /\ Presenting(k)
<1>1. CASE Quiet \/ LeavesStill  BY <1>1 DEF Quiet, LeavesStill, Leaves
<1>2. ASSUME NEW k \in Jobs, (\E q \in Parts, a \in Answer : Served(k, q, a)) \/ RetriesClosures(k) \/ Expires(k)
      PROVE  tab'.owner = tab.owner
  BY <1>2 DEF Served, RetriesClosures, ClosuresBegin, Expires, Stays
<1>3. ASSUME NEW k \in Jobs, LoadsAgain(k) \/ Submitted(k) \/ LogoutBegins(k) PROVE tab'.owner = tab.owner
  BY <1>3 DEF LoadsAgain, LoadBegins, Submitted, SubmitBegins, LogoutBegins
<1>4. ASSUME NEW k \in Jobs, JobGoes(k)
      PROVE  tab'.owner = tab.owner \/ (JobGoes(k) /\ LoadGoes(k) /\ Presenting(k))
  <2>1. CASE Bootstrapped(k) \/ LogoutFails(k)  BY <2>1 DEF Bootstrapped, LogoutFails
  <2>2. CASE LoadGoes(k)
    BY <1>4, <2>2 DEF LoadGoes, GivesUp, Reading, ClosuresBegin, Verifying, ShowsLoadedQr, Stays
  <2>3. CASE WorkGoes(k)  BY <2>3 DEF WorkGoes, Works, LetGo, GoesOn, LosesPanel, Stays
  <2>4. QED  BY <1>4, <2>1, <2>2, <2>3 DEF JobGoes
<1>5. QED  BY <1>1, <1>2, <1>3, <1>4 DEF StepOf

LEMMA ServicesStep ==
  ASSUME Typed, Past, OneLoad, LoadedBetween, ServicesOfOwner, StepOf
  PROVE  ServicesOfOwner'
<1>1. mode' = mode  BY Around
<1>2. SUFFICES ASSUME mode = "services", tab'.view = "ready", NEW p \in Parts
               PROVE  tab'.shown[p].by = tab'.owner
  BY <1>1 DEF ServicesOfOwner
<1>3. ASSUME NEW k \in Jobs, JobGoes(k), LoadGoes(k), Presenting(k) PROVE tab'.shown[p].by = tab'.owner
  <2>1. /\ jobs[k] # NULL /\ Answered(k) /\ Bracketed(jobs[k])
    BY <1>2, <1>3 DEF JobGoes, Answered, LoadedBetween
  <2>2. jobs[k].step = "verify" /\ Same(jobs[k]) /\ PresentsAs(k, jobs[k].loaded)
    BY <1>2, <1>3 DEF Presenting
  <2>3. jobs[k].loaded[p] # NULL  BY <2>1, <2>2 DEF Bracketed
  <2>4. Ok(jobs[k].loaded[p]) /\ jobs[k].loaded[p].by = jobs[k].owner
    BY <2>1, <2>2, <2>3, BracketOfOwner
  <2>5. tab'.shown[p] = Row(jobs[k].loaded[p]) /\ tab'.owner = jobs[k].owner
    BY <1>2, <2>2, <2>3, <2>4 DEF PresentsAs
  <2>6. QED  BY <2>4, <2>5 DEF Row
<1>4. CASE tab.view = "ready" /\ \A k \in Jobs : ~(JobGoes(k) /\ LoadGoes(k) /\ Presenting(k))
  <2> DEFINE s == tab'.shown[p]
  <2>1. tab'.owner = tab.owner /\ tab.shown[p].by = tab.owner  BY <1>2, <1>4, OwnerCases DEF ServicesOfOwner
  <2>2. ~Cleared(p)  BY <1>2 DEF Cleared
  <2>3. ASSUME NEW k \in Jobs, JobGoes(k), Presented(k, p, s) \/ QrLoaded(k, p, s) \/ Worked(k, p, s)
        PROVE  s.by = tab.owner
    <3>1. jobs[k] # NULL /\ Answered(k) /\ GoodJob(jobs[k]) /\ Bracketed(jobs[k])
      BY <1>2, <2>3 DEF JobGoes, Answered, Typed, JobsTyped, LoadedBetween
    <3>2. ~Presented(k, p, s)  BY <1>4, <2>3 DEF Presented, LoadGoes
    <3>3. ~QrLoaded(k, p, s)  BY <1>2, <3>1 DEF QrLoaded, ShowsLoadedQr, GoodJob, LoadSteps
    <3>4. CASE Replaces(k, p, s) /\ WorkGoes(k)
      <4>1. /\ jobs[k].step = "checked" /\ Same(jobs[k]) /\ jobs[k].loaded[p] # NULL
            /\ s = Row(jobs[k].loaded[p]) /\ Current(k)
        BY <1>2, <3>4 DEF Replaces, Brings
      <4>2. s.by = jobs[k].owner  BY <3>1, <4>1, BracketOfOwner DEF Row
      <4>3. jobs[k].kind = "act"  BY <1>2, <3>1, <3>4 DEF WorkGoes, GoodJob
      <4>4. jobs[k].owner = tab.owner  BY <1>2, <4>1, <4>3 DEF Current, Slot
      <4>5. QED  BY <4>2, <4>4
    <3>5. CASE Joins(k, p, s)  BY <2>1, <3>5 DEF Joins
    <3>6. QED  BY <1>2, <2>3, <3>2, <3>3, <3>4, <3>5 DEF Worked, ShowsQr
  <2>4. QED  BY <2>1, <2>2, <2>3, ShownCases
<1>5. CASE tab.view # "ready"
  <2>1. \E k \in Jobs : JobGoes(k) /\ LoadGoes(k) /\ Presenting(k)
    BY <1>2, <1>5, ViewCases DEF LeavesStill, Leaves, LoadsAgain, LoadBegins, LosesPanel, GivesUp
  <2>2. QED  BY <1>3, <2>1
<1>6. QED  BY <1>3, <1>4, <1>5

-----------------------------------------------------------------------------
(* The inductive invariant about whose data and token are used *)

SessionInv ==
  /\ Typed /\ Past /\ OneLoad /\ Held
  /\ TokenOlder /\ ShownNotOlder /\ TokenGoesWithData /\ LoadedBetween /\ ServicesOfOwner

LEMMA SessionInit == Init => SessionInv
<1>1. SUFFICES ASSUME Init PROVE SessionInv  OBVIOUS
<1>2. /\ Typed /\ Past /\ OneLoad /\ Held /\ now = 1 /\ stored \in {0, 1}
      /\ tab.view = "loading" /\ tab.closures = "loading"
      /\ \A k \in Jobs : jobs[k] # NULL => IsBegun(jobs[k], tab, "load", "main", "session", stored)
  BY <1>1, InitPanel, PastInit, OneLoadInit, HeldInit
<1>3. TokenOlder  BY <1>2 DEF TokenOlder, IsBegun
<1>4. ShownNotOlder  BY <1>2 DEF ShownNotOlder
<1>5. TokenGoesWithData  BY <1>2 DEF TokenGoesWithData, IsBegun
<1>6. LoadedBetween  BY <1>2 DEF LoadedBetween, Bracketed, IsBegun
<1>7. ServicesOfOwner  BY <1>2 DEF ServicesOfOwner
<1>8. QED  BY <1>2, <1>3, <1>4, <1>5, <1>6, <1>7 DEF SessionInv

LEMMA SessionStep == SessionInv /\ [Next]_vars => SessionInv'
<1>1. SUFFICES ASSUME SessionInv, [Next]_vars PROVE SessionInv'  OBVIOUS
<1>2. Typed /\ Past /\ OneLoad /\ Held /\ TokenOlder /\ ShownNotOlder /\ TokenGoesWithData /\ LoadedBetween /\ ServicesOfOwner
  BY <1>1 DEF SessionInv
<1>3. StepOf  BY <1>1, <1>2, StepCases
<1>4. Typed' /\ Past' /\ OneLoad' /\ Held'  BY <1>1, <1>2, TypedStep, PastStep, OneLoadStep, HeldStep
<1>5. TokenOlder'  BY <1>2, <1>3, TokenOlderStep
<1>6. ShownNotOlder'  BY <1>2, <1>3, <1>4, ShownNotOlderStep
<1>7. TokenGoesWithData'  BY <1>2, <1>3, TokenGoesStep
<1>8. LoadedBetween'  BY <1>2, <1>3, LoadedBetweenStep
<1>9. ServicesOfOwner'  BY <1>2, <1>3, ServicesStep
<1>10. QED  BY <1>4, <1>5, <1>6, <1>7, <1>8, <1>9 DEF SessionInv

LEMMA SessionInvariant == Spec => []SessionInv
<1>1. QED  BY SessionInit, SessionStep, PTL DEF Spec

(* Services and categories that are shown together were both read in the    *)
(* session that owns the panel, whoever logged in from another tab while    *)
(* they were loaded or read again.                                          *)
THEOREM ServicesAreOfOwner == Spec => []ServicesOfOwner
<1>1. SessionInv => ServicesOfOwner  BY DEF SessionInv
<1>2. QED  BY <1>1, SessionInvariant, PTL

(* A change made from the data of one session is never carried out in       *)
(* another one: an API that admits the request was sent the token of the    *)
(* request's own session, and that token is not younger than the data. Left *)
(* out, as in the property: the administrator's panel, and a change of the  *)
(* services whose check had to ask for a token.                             *)
THEOREM ChangesStayInTheirSession == Spec => []WritesWhereRead
<1>1. SessionInv => WritesWhereRead
  <2>1. SUFFICES ASSUME SessionInv, mode # "admin", NEW k \in Jobs, jobs[k] # NULL,
                        jobs[k].kind = "act", jobs[k].step = "write", jobs[k].seen = 0, Refusal(jobs[k]) = "ok"
                 PROVE  jobs[k].from = jobs[k].cookie
    BY DEF WritesWhereRead
  <2>2. Typed /\ Past /\ TokenGoesWithData  BY <2>1 DEF SessionInv
  <2>3. jobs[k].csrf = jobs[k].cookie  BY <2>1 DEF Refusal, Mutates, Admits
  <2>4. jobs[k].csrf <= jobs[k].from  BY <2>1, <2>2 DEF TokenGoesWithData
  <2>5. jobs[k].from <= jobs[k].cookie  BY <2>1, <2>2 DEF Past, PastJob
  <2>6. jobs[k].from \in Nat /\ jobs[k].cookie \in Nat  BY <2>1, <2>2, JobOfPanel, JobFields DEF Typed
  <2>7. QED  BY <2>3, <2>4, <2>5, <2>6
<1>2. QED  BY <1>1, SessionInvariant, PTL

-----------------------------------------------------------------------------
(* Nobody waits in vain: what loads goes on until the panel shows something, *)
(* and what waits for the closures waits for a job that will say.            *)

LoadingIsLoaded ==
  /\ \A k \in Jobs : IsLoad(k) => jobs[k].alive
  /\ mode # "agent" =>
       /\ tab.leaving => tab.view \in {"ready", "gone"}
       /\ tab.view = "loading" => \E k \in Jobs : IsLoad(k)

\* A job that goes on leaves the others as they are.
LEMMA OthersGoOn ==
  ASSUME Typed, NEW k \in Jobs, JobGoes(k), NEW l \in Jobs, l # k, jobs[l] # NULL
  PROVE  jobs'[l] = jobs[l]
<1>1. CASE Others(k)  BY <1>1 DEF Others
<1>2. CASE ~Others(k)
  <2>1. Reading(k) /\ mode = "calendar"
    BY <1>2 DEF JobGoes, Bootstrapped, LoadGoes, WorkGoes, LogoutFails, GivesUp, Reading, Verifying,
                Presenting, PresentsAs, ShowsLoadedQr, Works, LetGo, GoesOn, LosesPanel
  <2>2. PICK m \in Jobs : m # k /\ ClosuresBegin(k, m) /\ tab'.closures = tab.closures  BY <2>1 DEF Reading
  <2>3. QED  BY <2>2 DEF ClosuresBegin
<1>3. QED  BY <1>1, <1>2

\* A job ends when it goes on to its end, or when the page is left.
LEMMA JobEnds ==
  ASSUME Typed, StepOf, NEW l \in Jobs, jobs[l] # NULL, jobs'[l] = NULL
  PROVE  LeavesStill \/ JobGoes(l)
<1>1. TypeOK  BY DEF Typed
<1>2. ~Quiet  BY DEF Quiet
<1>3. ASSUME NEW k \in Jobs, NEW p \in Parts, NEW a \in Answer, Served(k, p, a) PROVE FALSE
  <2>1. Others(k) /\ jobs'[k] # NULL  BY <1>1, <1>3, ServedFields DEF Alike
  <2>2. QED  BY <2>1 DEF Others
<1>4. ASSUME NEW k \in Jobs, JobGoes(k), k # l PROVE FALSE  BY <1>4, OthersGoOn
<1>5. ASSUME NEW k \in Jobs, LoadsAgain(k) \/ RetriesClosures(k) \/ Submitted(k) \/ LogoutBegins(k) PROVE FALSE
  <2>1. CASE LoadsAgain(k)  BY <2>1 DEF LoadsAgain, LoadBegins, SameJob
  <2>2. CASE RetriesClosures(k)  BY <2>2 DEF RetriesClosures, ClosuresBegin
  <2>3. CASE Submitted(k)  BY <2>3 DEF Submitted, SubmitBegins
  <2>4. CASE LogoutBegins(k)  BY <2>4 DEF LogoutBegins, SameJob
  <2>5. QED  BY <1>5, <2>1, <2>2, <2>3, <2>4
<1>6. ASSUME NEW k \in Jobs, Expires(k) PROVE FALSE  BY <1>6 DEF Expires, Others, SameJob
<1>7. QED  BY <1>2, <1>3, <1>4, <1>5, <1>6 DEF StepOf

\* Only a load that begins, an attempt to log out and the end of a link's time give up a job.
LEMMA LoadsStayAlive ==
  ASSUME Typed, Past, OneLoad, Held, LoadingIsLoaded, StepOf, NEW l \in Jobs, IsLoad(l)'
  PROVE  jobs'[l].alive
<1>1. TypeOK /\ jobs'[l] # NULL /\ jobs'[l].kind = "load"  BY DEF Typed, IsLoad
<1>2. CASE jobs[l] = NULL
  <2>1. Begins(l)  BY <1>1, <1>2, NewBegins
  <2>2. LoadsAgain(l)  BY <1>1, <2>1, BeginsReady
  <2>3. QED  BY <2>2 DEF LoadsAgain, LoadBegins, IsBegun
<1>3. CASE jobs[l] # NULL
  <2>1. jobs[l].kind = "load" /\ jobs[l].alive /\ IsLoad(l)
    BY <1>1, <1>3, JobStays DEF LoadingIsLoaded, IsLoad
  <2>2. CASE Quiet  BY <2>1, <2>2 DEF Quiet
  <2>3. CASE LeavesStill  BY <1>1, <2>3 DEF LeavesStill, Leaves
  <2>4. CASE JobGoes(l)  BY <1>1, <2>1, <2>4, JobGoesOn
  <2>5. ASSUME NEW k \in Jobs, JobGoes(k), k # l PROVE jobs'[l] = jobs[l]  BY <1>3, <2>5, OthersGoOn
  <2>6. ASSUME NEW k \in Jobs, NEW p \in Parts, NEW a \in Answer, Served(k, p, a) PROVE jobs'[l].alive
    BY <1>1, <2>1, <2>6, ServedFields DEF Others
  <2>7. ASSUME NEW k \in Jobs, LoadsAgain(k) PROVE FALSE
    <3>1. l = k  BY <2>7, LoadAlone
    <3>2. QED  BY <1>3, <2>7, <3>1 DEF LoadsAgain, LoadBegins
  <2>8. ASSUME NEW k \in Jobs, RetriesClosures(k) \/ Submitted(k) PROVE jobs'[l] = jobs[l]
    BY <1>3, <2>8 DEF RetriesClosures, ClosuresBegin, Submitted, SubmitBegins
  <2>9. ASSUME NEW k \in Jobs, LogoutBegins(k) PROVE jobs'[l] = jobs[l]
    <3>1. mode = "whatsapp" /\ l # k  BY <1>3, <2>1, <2>9, LoadsInQr DEF LogoutBegins
    <3>2. l # tab.held["side"]
      <4>1. SUFFICES ASSUME l = tab.held["side"] PROVE FALSE  OBVIOUS
      <4>2. HeldWell("side") /\ tab.held["side"] # NULL  BY <4>1, PanelAssumption DEF Held, Parts
      <4>3. QED  BY <2>1, <4>1, <4>2 DEF HeldWell
    <3>3. QED  BY <1>3, <2>9, <3>1, <3>2 DEF LogoutBegins
  <2>10. ASSUME NEW k \in Jobs, Expires(k) PROVE jobs'[l] = jobs[l]  BY <2>1, <2>10 DEF Expires, Others
  <2>11. QED  BY <2>1, <2>2, <2>3, <2>4, <2>5, <2>6, <2>7, <2>8, <2>9, <2>10 DEF StepOf
<1>4. QED  BY <1>2, <1>3

LEMMA LeavingCases ==
  ASSUME Typed, StepOf, tab'.leaving
  PROVE  tab.leaving \/ \E k \in Jobs : LogoutBegins(k)
<1>1. CASE Quiet \/ LeavesStill  BY <1>1 DEF Quiet, LeavesStill, Leaves
<1>2. ASSUME NEW k \in Jobs, \/ (\E q \in Parts, a \in Answer : Served(k, q, a)) \/ LoadsAgain(k) \/ RetriesClosures(k)
                             \/ Submitted(k) \/ Expires(k)
      PROVE  tab.leaving
  BY <1>2 DEF Served, LoadsAgain, LoadBegins, RetriesClosures, ClosuresBegin, Submitted, SubmitBegins, Expires, Stays
<1>3. ASSUME NEW k \in Jobs, JobGoes(k) PROVE tab.leaving
  <2>1. CASE Bootstrapped(k) \/ LogoutFails(k)  BY <2>1 DEF Bootstrapped, LogoutFails
  <2>2. CASE LoadGoes(k)
    BY <2>2 DEF LoadGoes, GivesUp, Reading, ClosuresBegin, Verifying, Presenting, PresentsAs, ShowsLoadedQr, Stays
  <2>3. CASE WorkGoes(k)  BY <2>3 DEF WorkGoes, Works, LetGo, GoesOn, LosesPanel, Stays
  <2>4. QED  BY <1>3, <2>1, <2>2, <2>3 DEF JobGoes
<1>4. QED  BY <1>1, <1>2, <1>3 DEF StepOf

LEMMA LoadingStep ==
  ASSUME Typed, Past, OneLoad, Held, LoadingIsLoaded, StepOf
  PROVE  LoadingIsLoaded'
<1>1. mode' = mode  BY Around
<1>2. \A k \in Jobs : IsLoad(k)' => jobs'[k].alive  BY LoadsStayAlive
<1>3. ASSUME NEW k \in Jobs, LoadsAgain(k) PROVE mode = "agent" \/ tab.view = "error"
  BY <1>3 DEF LoadsAgain, OneLoad
<1>4. ASSUME NEW k \in Jobs, JobGoes(k), LoadGoes(k) PROVE IsLoad(k) /\ jobs[k].alive /\ jobs[k].attempt = tab.attempt
  BY <1>4 DEF JobGoes, Answered, LoadGoes, IsLoad, OneLoad, LoadingIsLoaded
<1>5. ASSUME mode # "agent", tab'.leaving PROVE tab'.view \in {"ready", "gone"}
  <2>1. CASE \E k \in Jobs : LogoutBegins(k)  BY <2>1 DEF LogoutBegins
  <2>2. CASE tab.leaving
    <3>1. tab.view \in {"ready", "gone"}  BY <1>5, <2>2 DEF LoadingIsLoaded
    <3>2. ASSUME NEW k \in Jobs, LosesPanel(k) PROVE FALSE  BY <2>2, <3>2, WorkCurrent DEF LosesPanel
    <3>3. ASSUME NEW k \in Jobs, JobGoes(k), LoadGoes(k), GivesUp(k), Current(k) PROVE FALSE
      BY <2>2, <3>3 DEF LoadGoes, Current
    <3>4. ASSUME NEW k \in Jobs, Presenting(k) PROVE tab'.view = "ready"  BY <3>4 DEF Presenting, PresentsAs
    <3>5. LeavesStill => tab'.view = "gone"  BY DEF LeavesStill, Leaves
    <3>6. QED  BY <1>3, <1>5, <3>1, <3>2, <3>3, <3>4, <3>5, ViewCases
  <2>3. QED  BY <1>5, <2>1, <2>2, LeavingCases
<1>6. ASSUME mode # "agent", tab'.view = "loading" PROVE \E k \in Jobs : IsLoad(k)'
  <2>1. ASSUME NEW k \in Jobs, LoadsAgain(k) PROVE IsLoad(k)'
    BY <2>1 DEF LoadsAgain, LoadBegins, IsBegun, IsLoad
  <2>2. CASE \A k \in Jobs : ~LoadsAgain(k)
    <3>1. tab.view = "loading" /\ ~LeavesStill
      BY <1>6, <2>2, ViewCases DEF LeavesStill, Leaves, LosesPanel, Presenting, PresentsAs, GivesUp
    <3>2. PICK k \in Jobs : IsLoad(k)  BY <1>6, <3>1 DEF LoadingIsLoaded
    <3>3. jobs[k] # NULL /\ jobs[k].kind = "load" /\ jobs[k].step # "qr" /\ jobs[k].attempt = tab.attempt /\ jobs[k].alive
      BY <3>1, <3>2 DEF IsLoad, OneLoad, LoadingIsLoaded
    <3>4. ~tab.leaving  BY <1>6, <3>1 DEF LoadingIsLoaded
    <3>5. Current(k)  BY <3>3, <3>4 DEF Current
    <3>6. jobs'[k] # NULL
      <4>1. SUFFICES ASSUME jobs'[k] = NULL PROVE FALSE  OBVIOUS
      <4>2. JobGoes(k)  BY <3>1, <3>3, <4>1, JobEnds
      <4>3. LoadGoes(k)
        BY <3>3, <4>1, <4>2 DEF JobGoes, Bootstrapped, WorkGoes, LogoutFails
      <4>4. CASE GivesUp(k)  BY <1>6, <3>5, <4>4 DEF GivesUp
      <4>5. CASE Presenting(k)  BY <1>6, <4>5 DEF Presenting, PresentsAs
      <4>6. CASE Reading(k) \/ Verifying(k) \/ ShowsLoadedQr(k)
        BY <3>3, <4>1, <4>6 DEF Reading, Verifying, ShowsLoadedQr, IsSent
      <4>7. QED  BY <4>3, <4>4, <4>5, <4>6 DEF LoadGoes
    <3>7. QED  BY <3>3, <3>6, JobStays DEF IsLoad
  <2>3. QED  BY <2>1, <2>2
<1>7. QED  BY <1>1, <1>2, <1>5, <1>6 DEF LoadingIsLoaded

ClosuresWait == tab.closures \in {"loading", "pending"}
ClosuresAwaited ==
  mode = "calendar" =>
    /\ (\/ tab.view = "ready" /\ ~tab.leaving
        \/ \E k \in Jobs : IsLoad(k) /\ jobs[k].step = "read")
       => (ClosuresWait => tab.held["side"] # NULL)
    /\ \A k \in Jobs : jobs[k] # NULL /\ jobs[k].kind = "logout" =>
         /\ tab.view = "ready" /\ tab.leaving /\ jobs[k].attempt = tab.attempt
         /\ jobs[k].part = "main" => ~ClosuresWait
         /\ \A l \in Jobs : jobs[l] # NULL /\ jobs[l].kind = "logout" => l = k
    /\ \A k \in Jobs : tab.held["side"] = k /\ jobs[k].kind = "act" => tab.closures # "loading"

\* What the buttons of the closures wait for
LEMMA HeldSide ==
  ASSUME Typed, StepOf
  PROVE  \/ tab'.held["side"] = tab.held["side"]
         \/ tab'.held["side"] = NULL /\ (LeavesStill \/ \E k \in Jobs : LoadsAgain(k) \/ LogoutBegins(k))
         \/ \E k \in Jobs : /\ JobGoes(k) /\ WorkGoes(k) /\ Slot(jobs[k]) = "side" /\ tab.held["side"] = k
                            /\ tab'.held["side"] = NULL
                            /\ \E t : Fits(k, t) /\ LetGo(k, t)
         \/ \E k \in Jobs : /\ tab'.held["side"] = k /\ jobs[k] = NULL /\ jobs'[k] # NULL
                            /\ jobs'[k].kind = "act" => tab'.closures = "pending"
<1>1. "side" \in Parts  BY DEF Parts
<1>2. CASE Quiet \/ LeavesStill  BY <1>1, <1>2, NoneIsNull DEF Quiet, LeavesStill, Leaves
<1>3. ASSUME NEW k \in Jobs, (\E q \in Parts, a \in Answer : Served(k, q, a)) \/ Expires(k)
      PROVE  tab'.held["side"] = tab.held["side"]
  BY <1>3 DEF Served, Expires
<1>4. ASSUME NEW k \in Jobs, LoadsAgain(k) \/ LogoutBegins(k) PROVE tab'.held["side"] = NULL
  BY <1>4 DEF LoadsAgain, LoadBegins, LogoutBegins
<1>5. ASSUME NEW l \in Jobs, NEW k, ClosuresBegin(k, l)
      PROVE  /\ tab'.held["side"] = l /\ jobs[l] = NULL /\ jobs'[l] # NULL
             /\ jobs'[l].kind = "act" => tab'.closures = "pending"
  BY <1>5 DEF ClosuresBegin, IsBegun
<1>6. ASSUME NEW k \in Jobs, RetriesClosures(k) PROVE ClosuresBegin(k, k)  BY <1>6 DEF RetriesClosures
<1>7. ASSUME NEW k \in Jobs, Submitted(k)
      PROVE  \/ tab'.held["side"] = tab.held["side"]
             \/ tab'.held["side"] = k /\ jobs[k] = NULL /\ jobs'[k] # NULL /\ tab'.closures = "pending"
  <2>1. PICK p \in Parts, step \in Step : SubmitBegins(k, p, step)  BY <1>7 DEF Submitted
  <2>2. CASE mode = "calendar" /\ p = "side"  BY <2>1, <2>2 DEF SubmitBegins, IsBegun
  <2>3. CASE ~(mode = "calendar" /\ p = "side")  BY <1>1, <2>1, <2>3 DEF SubmitBegins, Parts
  <2>4. QED  BY <2>2, <2>3
<1>8. ASSUME NEW k \in Jobs, JobGoes(k), \A l \in Jobs : ~ClosuresBegin(k, l)
      PROVE  \/ tab'.held["side"] = tab.held["side"]
             \/ /\ WorkGoes(k) /\ Slot(jobs[k]) = "side" /\ tab.held["side"] = k /\ tab'.held["side"] = NULL
                /\ \E t : Fits(k, t) /\ LetGo(k, t)
  <2>1. CASE Bootstrapped(k) \/ LogoutFails(k)  BY <2>1 DEF Bootstrapped, LogoutFails
  <2>2. CASE LoadGoes(k)
    BY <1>8, <2>2 DEF LoadGoes, GivesUp, Reading, Verifying, Presenting, PresentsAs, ShowsLoadedQr
  <2>3. ASSUME NEW t, WorkGoes(k), Fits(k, t), LetGo(k, t)
        PROVE  \/ tab'.held["side"] = tab.held["side"]
               \/ Slot(jobs[k]) = "side" /\ tab.held["side"] = k /\ tab'.held["side"] = NULL
    BY <1>1, <2>3 DEF LetGo, Owns
  <2>4. CASE WorkGoes(k)  BY <2>3, <2>4 DEF WorkGoes, Works, GoesOn, LosesPanel
  <2>5. QED  BY <1>8, <2>1, <2>2, <2>4 DEF JobGoes
<1>9. QED  BY <1>2, <1>3, <1>4, <1>5, <1>6, <1>7, <1>8 DEF StepOf

\* An action on the closures does not leave them loading.
LEMMA ActionNotLoading ==
  ASSUME Typed, Held, ClosuresAwaited, StepOf, mode = "calendar",
         NEW h \in Jobs, tab'.held["side"] = h, jobs'[h].kind = "act"
  PROVE  tab'.closures # "loading"
<1>1. "side" \in Parts /\ HeldWell("side") /\ h # NULL  BY PanelAssumption DEF Parts, Held
<1>2. CASE tab.held["side"] = h
  <2>1. jobs[h] # NULL /\ jobs[h].kind \in {"act", "closures"}  BY <1>1, <1>2, HeldJob
  <2>2. ~LeavesStill /\ \A k \in Jobs : ~LoadsAgain(k)
    BY <1>1, NoneIsNull DEF LeavesStill, Leaves, LoadsAgain, LoadBegins
  <2>3. jobs'[h] # NULL
    <3>1. SUFFICES ASSUME jobs'[h] = NULL PROVE FALSE  OBVIOUS
    <3>2. JobGoes(h)  BY <2>1, <2>2, <3>1, JobEnds
    <3>3. WorkGoes(h)  BY <2>1, <3>1, <3>2 DEF JobGoes, Bootstrapped, LoadGoes, LogoutFails
    <3>4. Slot(jobs[h]) = "side"  BY <1>1, <1>2, HeldJob
    <3>5. tab'.held["side"] = NULL
      <4>1. \E t : LetGo(h, t)  BY <3>1, <3>3, <3>4 DEF WorkGoes, Works, GoesOn, IsSent, LosesPanel, Slot
      <4>2. QED  BY <1>2, <3>4, <4>1 DEF LetGo, Owns
    <3>6. QED  BY <1>1, <3>5
  <2>4. jobs[h].kind = "act"  BY <2>1, <2>3, JobStays
  <2>5. tab.closures # "loading"  BY <1>2, <2>4 DEF ClosuresAwaited
  <2>6. ASSUME NEW k \in Jobs, RetriesClosures(k) PROVE FALSE
    BY <1>1, <1>2, <2>6 DEF RetriesClosures
  <2>7. ASSUME NEW k \in Jobs PROVE Restored(jobs[k]) # "loading"  BY <2>5 DEF Restored
  <2>8. QED  BY <2>2, <2>5, <2>6, <2>7, ClosuresCases DEF ClosuresLoaded, ClosuresFree
<1>3. CASE tab.held["side"] # h  BY <1>1, <1>3, HeldSide
<1>4. QED  BY <1>2, <1>3

\* While the panel is being left, it stays, and what it shows of the closures with it.
LEMMA LogoutWaits ==
  ASSUME Typed, Past, OneLoad, OneLoad', Held, ClosuresAwaited, StepOf, mode = "calendar",
         NEW l \in Jobs, jobs'[l] # NULL, jobs'[l].kind = "logout"
  PROVE  /\ tab'.view = "ready" /\ tab'.leaving /\ jobs'[l].attempt = tab'.attempt
         /\ jobs'[l].part = "main" => ~ClosuresWait'
         /\ \A m \in Jobs : jobs'[m] # NULL /\ jobs'[m].kind = "logout" => m = l
<1>1. ASSUME NEW m \in Jobs, jobs'[m] # NULL, jobs'[m].kind = "logout", jobs[m] = NULL PROVE LogoutBegins(m)
  <2>1. Begins(m)  BY <1>1, NewBegins
  <2>2. QED
    BY <1>1, <2>1 DEF Begins, LoadsAgain, LoadBegins, RetriesClosures, Submitted, SubmitBegins, ClosuresBegin, IsBegun
<1>2. ASSUME NEW m \in Jobs, jobs'[m] # NULL, jobs'[m].kind = "logout", jobs[m] # NULL
      PROVE  /\ jobs[m].kind = "logout" /\ tab.view = "ready" /\ tab.leaving /\ jobs[m].attempt = tab.attempt
             /\ jobs'[m].attempt = jobs[m].attempt /\ jobs'[m].part = jobs[m].part
             /\ jobs[m].part = "main" => ~ClosuresWait
             /\ \A n \in Jobs : jobs[n] # NULL /\ jobs[n].kind = "logout" => n = m
  BY <1>2, JobStays DEF ClosuresAwaited
<1>3. CASE jobs[l] = NULL
  <2>1. LogoutBegins(l)  BY <1>1, <1>3
  <2>2. /\ tab.view = "ready" /\ ~tab.leaving /\ tab'.view = "ready" /\ tab'.leaving
        /\ jobs'[l].attempt = tab'.attempt /\ tab'.closures = tab.closures
        /\ jobs'[l].part = (IF tab.held["side"] = NULL THEN "main" ELSE "side")
        /\ \A m \in Jobs : m # l /\ jobs[m] = NULL => jobs'[m] = NULL
    BY <2>1 DEF LogoutBegins, IsBegun
  <2>3. jobs'[l].part = "main" => ~ClosuresWait  BY <2>2 DEF ClosuresAwaited
  <2>4. QED  BY <1>2, <2>2, <2>3 DEF ClosuresWait
<1>4. CASE jobs[l] # NULL
  <2>1. /\ jobs[l].kind = "logout" /\ tab.view = "ready" /\ tab.leaving /\ jobs[l].attempt = tab.attempt
        /\ jobs'[l].attempt = jobs[l].attempt /\ jobs'[l].part = jobs[l].part
        /\ jobs[l].part = "main" => ~ClosuresWait
        /\ \A n \in Jobs : jobs[n] # NULL /\ jobs[n].kind = "logout" => n = l
    BY <1>2, <1>4
  <2>2. ~LeavesStill  BY DEF LeavesStill, Leaves
  <2>3. ASSUME NEW k \in Jobs PROVE ~LoadsAgain(k) /\ ~RetriesClosures(k) /\ ~LogoutBegins(k)
    BY <2>1 DEF LoadsAgain, OneLoad, RetriesClosures, LogoutBegins
  <2>4. tab'.view = "ready"
    <3>1. ASSUME NEW k \in Jobs, JobGoes(k), LoadGoes(k) PROVE FALSE
      BY <2>1, <3>1, LoadsInQr DEF JobGoes, Answered, LoadGoes, IsLoad
    <3>2. QED  BY <2>1, <2>2, <2>3, <3>1, ViewCases DEF LosesPanel
  <2>5. tab'.attempt = tab.attempt  BY <2>3, Attempts
  <2>6. \A k \in Jobs : ~LogoutFails(k) \/ ~JobGoes(k)
    <3>1. SUFFICES ASSUME NEW k \in Jobs, JobGoes(k), LogoutFails(k) PROVE FALSE  OBVIOUS
    <3>2. k = l  BY <2>1, <3>1 DEF JobGoes, Answered, LogoutFails
    <3>3. QED  BY <3>1, <3>2 DEF LogoutFails
  <2>7. tab'.leaving
    <3>1. CASE Quiet  BY <2>1, <3>1 DEF Quiet
    <3>2. ASSUME NEW k \in Jobs, (\E q \in Parts, a \in Answer : Served(k, q, a)) \/ Submitted(k) \/ Expires(k)
          PROVE  tab'.leaving
      BY <2>1, <3>2 DEF Served, Submitted, SubmitBegins, Expires, Stays
    <3>3. ASSUME NEW k \in Jobs, JobGoes(k) PROVE tab'.leaving
      <4>1. CASE Bootstrapped(k)  BY <2>1, <4>1 DEF Bootstrapped
      <4>2. CASE LoadGoes(k)
        BY <2>1, <4>2 DEF LoadGoes, GivesUp, Reading, ClosuresBegin, Verifying, Presenting, PresentsAs, ShowsLoadedQr, Stays
      <4>3. CASE WorkGoes(k)  BY <2>1, <4>3 DEF WorkGoes, Works, LetGo, GoesOn, LosesPanel, Stays
      <4>4. QED  BY <2>6, <3>3, <4>1, <4>2, <4>3 DEF JobGoes
    <3>4. QED  BY <2>2, <2>3, <3>1, <3>2, <3>3 DEF StepOf
  <2>8. ~ClosuresWait => ~ClosuresWait'
    <3>1. SUFFICES ASSUME ~ClosuresWait PROVE ~ClosuresWait'  OBVIOUS
    <3>2. ASSUME NEW k \in Jobs, Submitted(k), tab.closures = "ready", tab'.closures = "pending" PROVE FALSE
      <4>1. PICK p \in Parts, step \in Step : Starts(k, p, step) /\ SubmitBegins(k, p, step)
        BY <3>2 DEF Submitted
      <4>2. p # "side"  BY <2>1, <4>1 DEF Starts
      <4>3. QED  BY <3>2, <4>1, <4>2 DEF SubmitBegins
    <3>3. ASSUME NEW k \in Jobs, JobGoes(k), ClosuresLoaded(k) PROVE FALSE
      <4>1. jobs[k].kind = "closures" /\ Current(k) /\ GoodJob(jobs[k])
        BY <3>3 DEF ClosuresLoaded, JobGoes, Answered, Typed, JobsTyped
      <4>2. QED  BY <2>1, <4>1 DEF GoodJob, Current, Slot
    <3>4. QED
      BY <2>2, <2>3, <2>6, <3>1, <3>2, <3>3, ClosuresCases DEF ClosuresWait, ClosuresFree
  <2>9. ASSUME NEW m \in Jobs, jobs'[m] # NULL, jobs'[m].kind = "logout" PROVE m = l
    BY <1>1, <1>2, <2>1, <2>3, <2>9
  <2>10. QED  BY <2>1, <2>4, <2>5, <2>7, <2>8, <2>9
<1>5. QED  BY <1>3, <1>4

\* The closures of a panel that reads them, or waits for an action on them, wait for a job.
Watched ==
  \/ tab.view = "ready" /\ ~tab.leaving
  \/ \E k \in Jobs : IsLoad(k) /\ jobs[k].step = "read"

LEMMA LoadReads ==
  ASSUME Typed, StepOf, NEW l \in Jobs, IsLoad(l)', jobs'[l].step = "read"
  PROVE  (IsLoad(l) /\ jobs[l].step = "read") \/ (JobGoes(l) /\ jobs[l].kind = "load" /\ Reading(l))
<1>1. jobs'[l] # NULL /\ jobs'[l].kind = "load"  BY DEF IsLoad
<1>2. jobs[l] # NULL
  <2>1. SUFFICES ASSUME jobs[l] = NULL PROVE FALSE  OBVIOUS
  <2>2. LoadsAgain(l)  BY <1>1, <2>1, NewBegins, BeginsReady
  <2>3. QED  BY <2>2 DEF LoadsAgain, LoadBegins, IsBegun
<1>3. jobs[l].kind = "load" /\ (~JobGoes(l) => jobs[l].step = "read")  BY <1>1, <1>2, JobStays
<1>4. CASE JobGoes(l)
  BY <1>1, <1>2, <1>3, <1>4, JobGoesOn DEF Bootstrapped, AsksSession, IsSent
<1>5. QED  BY <1>2, <1>3, <1>4 DEF IsLoad

LEMMA WatchedStep ==
  ASSUME Typed, Past, OneLoad, OneLoad', Held, ClosuresAwaited, StepOf, mode = "calendar",
         Watched', ClosuresWait', tab'.held["side"] = NULL
  PROVE  FALSE
<1>1. "side" \in Parts /\ HeldWell("side")  BY DEF Parts, Held
<1>2. \A l \in Jobs : IsLoad(l)' /\ jobs'[l].step = "read" => tab'.view = "loading"
  BY DEF OneLoad, IsLoad
<1>3. ~LeavesStill  BY <1>2 DEF LeavesStill, Leaves, Watched
<1>4. ASSUME NEW k \in Jobs PROVE ~LoadsAgain(k)
  <2>1. SUFFICES ASSUME LoadsAgain(k) PROVE FALSE  OBVIOUS
  <2>2. tab'.view = "loading" /\ jobs'[k].step = "session"  BY <2>1 DEF LoadsAgain, LoadBegins, IsBegun
  <2>3. \A l \in Jobs : IsLoad(l)' => l = k  BY <2>1, LoadAlone
  <2>4. QED  BY <2>2, <2>3 DEF Watched
<1>5. ASSUME NEW k \in Jobs PROVE ~LogoutBegins(k)
  <2>1. SUFFICES ASSUME LogoutBegins(k) PROVE FALSE  OBVIOUS
  <2>2. tab'.view = "ready" /\ tab'.leaving  BY <2>1 DEF LogoutBegins
  <2>3. QED  BY <1>2, <2>2 DEF Watched
<1>6. ASSUME NEW k \in Jobs PROVE ~(JobGoes(k) /\ Reading(k)) /\ ~RetriesClosures(k)
  BY PanelAssumption DEF Reading, RetriesClosures, ClosuresBegin
\* An attempt to log out that fails
<1>7. ASSUME NEW k \in Jobs, JobGoes(k), LogoutFails(k) PROVE FALSE
  <2>1. jobs[k] # NULL /\ jobs[k].kind = "logout" /\ jobs[k] \in Job
    BY <1>7, JobOfPanel DEF JobGoes, Answered, LogoutFails, Typed
  <2>2. tab.held["side"] = NULL /\ tab'.closures = Restored(jobs[k])  BY <1>7 DEF LogoutFails
  <2>3. jobs[k].attempt = tab.attempt /\ (jobs[k].part = "main" => ~ClosuresWait) /\ jobs[k].part \in {"main", "side"}
    BY <2>1 DEF ClosuresAwaited, Job, Parts
  <2>4. QED  BY <2>2, <2>3 DEF Restored, ClosuresWait
\* Else the panel was watched before.
<1>8. Watched
  <2>1. CASE \E l \in Jobs : IsLoad(l)' /\ jobs'[l].step = "read"  BY <1>6, <2>1, LoadReads DEF Watched
  <2>2. CASE tab'.view = "ready" /\ ~tab'.leaving /\ tab.view = "ready"
    <3>1. ~tab.leaving
      <4>1. CASE Quiet  BY <2>2, <4>1 DEF Quiet
      <4>2. ASSUME NEW k \in Jobs, (\E q \in Parts, a \in Answer : Served(k, q, a)) \/ Submitted(k) \/ Expires(k)
            PROVE  ~tab.leaving
        BY <2>2, <4>2 DEF Served, Submitted, SubmitBegins, Expires, Stays
      <4>3. ASSUME NEW k \in Jobs, JobGoes(k) PROVE ~tab.leaving
        <5>1. CASE Bootstrapped(k)  BY <2>2, <5>1 DEF Bootstrapped
        <5>2. CASE LoadGoes(k)
          BY <2>2, <5>2 DEF LoadGoes, GivesUp, Reading, ClosuresBegin, Verifying, Presenting, PresentsAs, ShowsLoadedQr, Stays
        <5>3. CASE WorkGoes(k)  BY <2>2, <5>3 DEF WorkGoes, Works, LetGo, GoesOn, LosesPanel, Stays
        <5>4. QED  BY <1>7, <4>3, <5>1, <5>2, <5>3 DEF JobGoes
      <4>4. QED  BY <1>3, <1>4, <1>5, <1>6, <4>1, <4>2, <4>3 DEF StepOf
    <3>2. QED  BY <2>2, <3>1 DEF Watched
  <2>3. CASE tab'.view = "ready" /\ tab.view # "ready"
    <3>1. PICK k \in Jobs : JobGoes(k) /\ LoadGoes(k) /\ Presenting(k)
      BY <1>3, <1>4, <2>3, ViewCases DEF LosesPanel, GivesUp
    <3>2. IsLoad(k) /\ GoodJob(jobs[k])
      BY <3>1 DEF JobGoes, Answered, LoadGoes, IsLoad, Typed, JobsTyped
    <3>3. jobs[k].step = "read"  BY <3>1, <3>2 DEF Presenting, GoodJob, LoadSteps, IsLoad
    <3>4. QED  BY <3>2, <3>3 DEF Watched
  <2>4. QED  BY <2>1, <2>2, <2>3 DEF Watched
<1>9. ClosuresWait => tab.held["side"] # NULL  BY <1>8 DEF ClosuresAwaited, Watched
\* A job of the closures that ends leaves nothing to wait for.
<1>10. ASSUME NEW k \in Jobs, NEW t, JobGoes(k), WorkGoes(k), Slot(jobs[k]) = "side", tab.held["side"] = k,
              Fits(k, t), LetGo(k, t)
       PROVE  FALSE
  <2>1. Current(k) /\ jobs[k] # NULL /\ jobs[k].kind \in {"act", "closures"}
    BY <1>1, <1>10, PanelAssumption DEF HeldWell
  <2>2. Owns(tab, k)  BY <1>10 DEF Owns
  <2>3. tab'.closures = IF t.closures = "pending" THEN "ready" ELSE t.closures  BY <1>10, <2>2 DEF LetGo
  <2>4. CASE jobs[k].kind = "closures"  BY <1>10, <2>1, <2>3, <2>4 DEF WorkGoes, ClosuresWait
  <2>5. CASE jobs[k].kind = "act"
    <3>1. t.closures = tab.closures  BY <1>10, <2>5 DEF Fits, ShowsClosures
    <3>2. tab.closures # "loading"  BY <1>10, <2>5 DEF ClosuresAwaited
    <3>3. QED  BY <2>3, <3>1, <3>2 DEF ClosuresWait
  <2>6. QED  BY <2>1, <2>4, <2>5
<1>11. tab.held["side"] = NULL
  BY <1>3, <1>4, <1>5, <1>10, HeldSide, PanelAssumption
<1>12. ~ClosuresWait  BY <1>9, <1>11
<1>13. ASSUME NEW k \in Jobs, ClosuresLoaded(k), JobGoes(k) PROVE FALSE
  <2>1. jobs[k].kind = "closures" /\ Current(k) /\ GoodJob(jobs[k])
    BY <1>13 DEF ClosuresLoaded, JobGoes, Answered, Typed, JobsTyped
  <2>2. QED  BY <1>11, <2>1, PanelAssumption DEF GoodJob, Current, Slot
<1>14. ASSUME NEW k \in Jobs, Submitted(k), tab'.closures = "pending", tab.closures = "ready" PROVE FALSE
  <2>1. PICK p \in Parts, step \in Step : SubmitBegins(k, p, step)  BY <1>14 DEF Submitted
  <2>2. p = "side"  BY <1>14, <2>1 DEF SubmitBegins, Parts
  <2>3. QED  BY <1>1, <2>1, <2>2, PanelAssumption DEF SubmitBegins
<1>15. QED
  BY <1>3, <1>4, <1>6, <1>7, <1>12, <1>13, <1>14, ClosuresCases DEF ClosuresWait, ClosuresFree

LEMMA AwaitedStep ==
  ASSUME Typed, Past, OneLoad, OneLoad', Held, ClosuresAwaited, StepOf
  PROVE  ClosuresAwaited'
<1>1. mode' = mode  BY Around
<1>2. SUFFICES ASSUME mode = "calendar" PROVE ClosuresAwaited'  BY <1>1 DEF ClosuresAwaited
<1>3. Watched' => (ClosuresWait' => tab'.held["side"] # NULL)  BY <1>2, WatchedStep
<1>4. QED  BY <1>1, <1>2, <1>3, LogoutWaits, ActionNotLoading DEF ClosuresAwaited, Watched

WaitInv == Typed /\ Past /\ OneLoad /\ Held /\ LoadingIsLoaded /\ ClosuresAwaited

LEMMA WaitInit == Init => WaitInv
<1>1. SUFFICES ASSUME Init PROVE WaitInv  OBVIOUS
<1>2. /\ Typed /\ Past /\ OneLoad /\ Held /\ ~tab.leaving /\ tab.view = "loading" /\ tab.held = None
      /\ \E first \in Jobs : /\ IsBegun(jobs[first], tab, "load", "main", "session", stored)
                             /\ \A k \in Jobs : k # first => jobs[k] = NULL
  BY <1>1, InitPanel, PastInit, OneLoadInit, HeldInit
<1>3. PICK first \in Jobs : /\ jobs[first] # NULL /\ jobs[first].kind = "load" /\ jobs[first].step = "session" /\ jobs[first].alive
                            /\ \A k \in Jobs : k # first => jobs[k] = NULL
  BY <1>2 DEF IsBegun
<1>4. LoadingIsLoaded  BY <1>2, <1>3 DEF LoadingIsLoaded, IsLoad
<1>5. tab.held["side"] = NULL  BY <1>2, NoneIsNull DEF Parts
<1>6. ClosuresAwaited  BY <1>2, <1>3, <1>5, PanelAssumption DEF ClosuresAwaited, IsLoad
<1>7. QED  BY <1>2, <1>4, <1>6 DEF WaitInv

LEMMA WaitStep == WaitInv /\ [Next]_vars => WaitInv'
<1>1. SUFFICES ASSUME WaitInv, [Next]_vars PROVE WaitInv'  OBVIOUS
<1>2. Typed /\ Past /\ OneLoad /\ Held /\ LoadingIsLoaded /\ ClosuresAwaited  BY <1>1 DEF WaitInv
<1>3. StepOf  BY <1>1, <1>2, StepCases
<1>4. Typed' /\ Past' /\ OneLoad' /\ Held'  BY <1>1, <1>2, TypedStep, PastStep, OneLoadStep, HeldStep
<1>5. LoadingIsLoaded'  BY <1>2, <1>3, LoadingStep
<1>6. ClosuresAwaited'  BY <1>2, <1>3, <1>4, AwaitedStep
<1>7. QED  BY <1>4, <1>5, <1>6 DEF WaitInv

LEMMA WaitsForJobs == WaitInv => NobodyWaitsInVain
<1>1. SUFFICES ASSUME WaitInv PROVE NobodyWaitsInVain  OBVIOUS
<1>2. OneLoad /\ Held /\ LoadingIsLoaded /\ ClosuresAwaited  BY <1>1 DEF WaitInv
<1>3. \A p \in Parts : tab.held[p] # NULL => Awaited(p)  BY <1>2 DEF Held, HeldWell, Awaited
<1>4. mode = "calendar" /\ tab.view = "ready" /\ ClosuresWait => tab.leaving \/ Awaited("side")
  BY <1>2, <1>3 DEF ClosuresAwaited, Parts
<1>5. tab.view = "loading" /\ mode # "agent" =>
        \E k \in Jobs : jobs[k] # NULL /\ jobs[k].kind = "load" /\ jobs[k].attempt = tab.attempt
  BY <1>2 DEF LoadingIsLoaded, OneLoad, IsLoad
<1>6. QED  BY <1>3, <1>4, <1>5 DEF NobodyWaitsInVain, ClosuresWait

(* Nobody waits in vain: buttons that are held back wait for a job that      *)
(* runs, closures that are loading or being changed are waited for unless    *)
(* the panel is leaving, and a panel that says it is loading is being        *)
(* loaded, however sessions end, requests are lost and attempts to log out   *)
(* interrupt what runs.                                                      *)
THEOREM PanelWaitsForJobs == Spec => []NobodyWaitsInVain
<1>1. Spec => []WaitInv  BY WaitInit, WaitStep, PTL DEF Spec
<1>2. QED  BY <1>1, WaitsForJobs, PTL

-----------------------------------------------------------------------------
(* Nothing disappears. Who may still change what is shown is the one job    *)
(* that the buttons of the part wait for.                                   *)

CurrentIsHeld ==
  \A k \in Jobs : jobs[k] # NULL /\ jobs[k].kind = "act" =>
    /\ mode = "admin" => (jobs[k].alive /\ jobs[k].attempt = tab.attempt => tab.held["main"] = k)
    /\ mode = "agent" =>
         /\ jobs[k].logouts <= tab.logouts
         /\ jobs[k].logouts = tab.logouts /\ jobs[k].attempt = tab.attempt => tab.held["main"] = k

\* Attempts to log out are counted.
LEMMA LogoutsCounted ==
  ASSUME Typed, StepOf
  PROVE  \/ tab'.logouts = tab.logouts
         \/ tab'.logouts = tab.logouts + 1 /\ \E k \in Jobs : LogoutBegins(k)
<1>1. CASE Quiet \/ LeavesStill  BY <1>1 DEF Quiet, LeavesStill, Leaves
<1>2. ASSUME NEW k \in Jobs, \/ (\E q \in Parts, a \in Answer : Served(k, q, a)) \/ LoadsAgain(k) \/ RetriesClosures(k)
                             \/ Submitted(k) \/ Expires(k)
      PROVE  tab'.logouts = tab.logouts
  BY <1>2 DEF Served, LoadsAgain, LoadBegins, RetriesClosures, ClosuresBegin, Submitted, SubmitBegins, Expires, Stays
<1>3. ASSUME NEW k \in Jobs, JobGoes(k) PROVE tab'.logouts = tab.logouts
  <2>1. CASE Bootstrapped(k) \/ LogoutFails(k)  BY <2>1 DEF Bootstrapped, LogoutFails
  <2>2. CASE LoadGoes(k)
    BY <2>2 DEF LoadGoes, GivesUp, Reading, ClosuresBegin, Verifying, Presenting, PresentsAs, ShowsLoadedQr, Stays
  <2>3. CASE WorkGoes(k)  BY <2>3 DEF WorkGoes, Works, LetGo, GoesOn, LosesPanel, Stays
  <2>4. QED  BY <1>3, <2>1, <2>2, <2>3 DEF JobGoes
<1>4. ASSUME NEW k \in Jobs, LogoutBegins(k) PROVE tab'.logouts = tab.logouts + 1  BY <1>4 DEF LogoutBegins
<1>5. QED  BY <1>1, <1>2, <1>3, <1>4 DEF StepOf

LEMMA CurrentHolds ==
  ASSUME Typed, Held, CurrentIsHeld, NEW k \in Jobs, jobs[k] # NULL, jobs[k].kind \in {"act", "closures"}, Current(k)
  PROVE  tab.held[Slot(jobs[k])] = k
<1>1. GoodJob(jobs[k]) /\ mode \in {"admin", "services", "resources", "calendar", "profile", "agent", "whatsapp"}
  BY PanelAssumption DEF Typed, TypeOK, JobsTyped
<1>2. CASE mode \in {"services", "resources", "profile", "whatsapp"}
  BY <1>1, <1>2 DEF Held, GoodJob, Slot
<1>3. CASE mode = "calendar"  BY <1>3 DEF Current, Slot
<1>4. CASE mode \in {"admin", "agent"}  BY <1>1, <1>4 DEF Current, Slot, CurrentIsHeld, GoodJob
<1>5. QED  BY <1>1, <1>2, <1>3, <1>4

LEMMA CurrentIsHeldStep ==
  ASSUME Typed, Past, OneLoad, Held, CurrentIsHeld, StepOf
  PROVE  CurrentIsHeld'
<1>1. mode' = mode /\ tab.logouts \in Nat  BY Around, Nats DEF Typed
<1>2. SUFFICES ASSUME NEW l \in Jobs, jobs'[l] # NULL, jobs'[l].kind = "act", mode \in {"admin", "agent"}
      PROVE  /\ mode = "admin" => (jobs'[l].alive /\ jobs'[l].attempt = tab'.attempt => tab'.held["main"] = l)
             /\ mode = "agent" =>
                  /\ jobs'[l].logouts <= tab'.logouts
                  /\ jobs'[l].logouts = tab'.logouts /\ jobs'[l].attempt = tab'.attempt => tab'.held["main"] = l
  BY <1>1 DEF CurrentIsHeld
<1>3. CASE jobs[l] = NULL
  <2>1. Begins(l)  BY <1>2, <1>3, NewBegins
  <2>2. Submitted(l)
    BY <1>2, <2>1 DEF Begins, LoadsAgain, LoadBegins, RetriesClosures, LogoutBegins, ClosuresBegin, IsBegun
  <2>3. tab'.held["main"] = l /\ jobs'[l].logouts = tab'.logouts
    BY <1>2, <2>2 DEF Submitted, SubmitBegins, IsBegun
  <2>4. tab'.logouts = tab.logouts  BY <2>2 DEF Submitted, SubmitBegins
  <2>5. QED  BY <1>1, <2>3, <2>4
<1>4. CASE jobs[l] # NULL
  <2>1. /\ jobs[l].kind = "act" /\ jobs'[l].attempt = jobs[l].attempt /\ jobs'[l].logouts = jobs[l].logouts
        /\ (jobs'[l].alive => jobs[l].alive) /\ jobs[l] \in Job
    BY <1>2, <1>4, JobStays
  <2>2. jobs[l].logouts \in Nat /\ jobs[l].attempt \in Nat /\ jobs[l].attempt <= tab.attempt /\ tab.attempt \in Nat
    <3>1. jobs[l].logouts \in 0..MaxLogouts  BY <2>1 DEF Job
    <3>2. QED  BY <1>4, <2>1, <3>1, JobFields, Attempts, PanelAssumption DEF Past, PastJob
  <2>3. CASE (\E k \in Jobs : LoadsAgain(k))
    <3>1. PICK k \in Jobs : LoadsAgain(k)  BY <2>3
    <3>2. tab'.attempt = tab.attempt + 1 /\ tab'.logouts = tab.logouts  BY <3>1 DEF LoadsAgain, LoadBegins
    <3>3. mode = "agent" => jobs[l].logouts <= tab.logouts  BY <1>4, <2>1 DEF CurrentIsHeld
    <3>4. QED  BY <2>1, <2>2, <3>2, <3>3
  <2>4. CASE (\E k \in Jobs : LogoutBegins(k))
    <3>1. PICK k \in Jobs : LogoutBegins(k)  BY <2>4
    <3>2. tab'.logouts = tab.logouts + 1  BY <3>1 DEF LogoutBegins
    <3>3. mode = "admin" => ~jobs'[l].alive  BY <1>4, <3>1 DEF LogoutBegins
    <3>4. mode = "agent" => jobs[l].logouts <= tab.logouts  BY <1>4, <2>1 DEF CurrentIsHeld
    <3>5. QED  BY <1>1, <2>1, <2>2, <3>2, <3>3, <3>4
  <2>5. CASE \A k \in Jobs : ~LoadsAgain(k) /\ ~LogoutBegins(k)
    <3>1. tab'.attempt = tab.attempt /\ tab'.logouts = tab.logouts  BY <2>5, Attempts, LogoutsCounted
    <3>2. SUFFICES ASSUME tab.held["main"] = l PROVE tab'.held["main"] = l
      BY <1>2, <1>4, <2>1, <3>1 DEF CurrentIsHeld
    <3>3. l # NULL  BY PanelAssumption
    <3>4. ~LeavesStill  BY <1>2 DEF LeavesStill, Leaves
    <3>5. ASSUME NEW k \in Jobs, JobGoes(k), WorkGoes(k), jobs'[k] = NULL,
                 Current(k) \/ (Slot(jobs[k]) = "main" /\ Owns(tab, k))
          PROVE  FALSE
      <4>1. Current(k) /\ jobs[k] # NULL /\ jobs[k].kind \in {"act", "closures"} /\ Slot(jobs[k]) = "main"
        BY <1>2, <3>5 DEF JobGoes, Answered, WorkGoes, Owns, Slot
      <4>2. tab.held["main"] = k  BY <4>1, CurrentHolds
      <4>3. QED  BY <1>2, <3>2, <3>5, <4>2
    <3>6. QED  BY <2>5, <3>2, <3>3, <3>4, <3>5, HeldMain
  <2>6. QED  BY <2>3, <2>4, <2>5
<1>5. QED  BY <1>3, <1>4

(* What is shown of a part, and what was answered about it, was written for *)
(* the business of the session that was asked, whose role fits the panel.   *)

Of(j, p) ==
  IF j.step = "write" THEN j.part
  ELSE IF mode = "whatsapp" /\ j.step \notin {"status", "read"} THEN "side" ELSE p
PastRows(a, p) == a.by # 0 /\ RoleFits(a.by) /\ a.rows \subseteq content[tenant[a.by]][p]
PastAnswers(j) ==
  \A p \in Parts :
    /\ j.answer[p] # NULL /\ Ok(j.answer[p]) /\ ~AsksSession(j) =>
         /\ PastRows(j.answer[p], Of(j, p))
         /\ j.step = "write" => j.csrf = j.cookie
    /\ j.loaded[p] # NULL /\ Ok(j.loaded[p]) /\ j.step \in {"after", "checked", "verify"} =>
         PastRows(j.loaded[p], IF j.step = "after" THEN j.part ELSE p)
AnswersPast == \A k \in Jobs : jobs[k] # NULL /\ jobs[k].kind # "logout" => PastAnswers(jobs[k])
ShownPast == \A p \in Parts : tab.shown[p].by # 0 => PastRows(tab.shown[p], p)

\* The same after the step, of something that the step does not change
PastLater(a, p) ==
  a.by # 0 /\ (mode' = "admin") = (tenant'[a.by] = NULL) /\ a.rows \subseteq content'[tenant'[a.by]][p]

LEMMA StaysPast ==
  ASSUME Typed, StepOf, NEW p \in Parts, NEW a, a.by \in 0..MaxLogins, PastRows(a, p)
  PROVE  PastLater(a, p)
<1>1. a.by \in Sessions  BY PanelAssumption DEF PastRows, Sessions
<1>2. tenant[a.by] \in Tenants \cup {NULL}  BY <1>1 DEF Typed, TypeOK
<1>3. mode' = mode /\ tenant' = tenant /\ Grows  BY Around
<1>4. content[tenant[a.by]][p] \subseteq content'[tenant[a.by]][p]  BY <1>2, <1>3 DEF Grows
<1>5. QED  BY <1>3, <1>4, Zenon DEF PastRows, PastLater, RoleFits

\* The steps that are answered with all that a part holds
Catches(j) == j.step \in {"read", "checked", "verify", "status"} \/ (j.step = "write" /\ Whole(j))

\* What a route tells is of the part it is asked about, and all of it when it is read.
LEMMA RoutesTell ==
  ASSUME Typed, NEW k \in Jobs, jobs[k] # NULL, jobs[k].kind # "logout", ~AsksSession(jobs[k]), NEW p \in Asks(jobs[k])
  PROVE  /\ Told(jobs[k], p) \subseteq All(jobs[k], Of(jobs[k], p)) /\ Of(jobs[k], p) \in Parts
         /\ Catches(jobs[k]) => Told(jobs[k], p) = All(jobs[k], p) /\ Of(jobs[k], p) = p
<1> DEFINE j == jobs[k]
<1>1. /\ GoodJob(j) /\ j \in Job /\ j.part \in {"main", "side"} /\ j.kind \in {"load", "closures", "act"}
      /\ mode \in {"admin", "services", "resources", "calendar", "profile", "agent", "whatsapp"}
  BY JobOfPanel, PanelAssumption DEF Typed, TypeOK, JobsTyped, Job, Parts
<1>2. Record(j) \subseteq All(j, j.part)  BY DEF Record
<1>3. p \in Parts /\ (j.step # "read" => p = "main") /\ (j.step = "read" => p \in Reads(j))
  BY <1>1 DEF Asks, Reads, Parts
<1>4. CASE mode \in {"services", "resources", "admin"}
  <2>1. Told(j, p) = ListOrRecord(j, p)
    BY <1>4 DEF Told, ServiceRoutes, ResourceRoutes, AdministrationRoutes
  <2>2. QED  BY <1>1, <1>2, <1>3, <1>4, <2>1 DEF ListOrRecord, Of, Catches, Whole, AsksSession, Parts
<1>5. CASE mode \in {"profile", "agent"}
  <2>1. Told(j, p) = All(j, "main")  BY <1>5 DEF Told, ProfileRoutes, AgentRoutes
  <2>2. j.part = "main" /\ p = "main"  BY <1>1, <1>3, <1>5 DEF GoodJob, Reads
  <2>3. QED  BY <1>5, <2>1, <2>2 DEF Of, Parts
<1>6. CASE mode = "calendar" /\ j.part = "main"
  <2>1. Told(j, p) = All(j, "main")  BY <1>6 DEF Told, CalendarRoutes
  <2>2. p = "main"  BY <1>1, <1>3, <1>6 DEF Reads
  <2>3. QED  BY <1>6, <2>1, <2>2 DEF Of, Parts
<1>7. CASE mode = "calendar" /\ j.part = "side"
  <2>1. Told(j, p) = ListOrRecord(j, "side")  BY <1>7 DEF Told, ClosureRoutes, ListOrRecord
  <2>2. j.step \in {"write", "read"}  BY <1>1, <1>7 DEF GoodJob, ActSteps
  <2>3. j.step = "read" => p = "side"  BY <1>1, <1>3, <1>7 DEF Reads
  <2>4. QED  BY <1>2, <1>7, <2>1, <2>2, <2>3 DEF ListOrRecord, Of, Catches, Whole, Parts
<1>8. CASE mode = "whatsapp"
  <2>1. Told(j, p) = All(j, IF j.step = "status" \/ j.step = "read" THEN "main" ELSE "side")
    BY <1>8 DEF Told, WhatsAppRoutes
  <2>2. j.step \in {"read", "qr", "link", "status"}  BY <1>1, <1>8 DEF GoodJob, ActSteps, LoadSteps, AsksSession
  <2>3. p = "main"  BY <1>1, <1>3, <1>8, <2>2 DEF Reads, GoodJob
  <2>4. QED  BY <1>8, <2>1, <2>2, <2>3 DEF Of, Catches, Parts
<1>9. QED  BY <1>1, <1>4, <1>5, <1>6, <1>7, <1>8

LEMMA TellsPast ==
  ASSUME Typed, StepOf, NEW k \in Jobs, NEW p \in Parts, NEW a \in Answer, Served(k, p, a), Ok(a),
         jobs[k].kind # "logout", ~AsksSession(jobs[k])
  PROVE  /\ PastLater(a, Of(jobs[k], p)) /\ a.by = jobs[k].cookie
         /\ jobs[k].step = "write" => jobs[k].csrf = jobs[k].cookie
         /\ Catches(jobs[k]) => a.rows = content'[tenant'[a.by]][p] /\ Of(jobs[k], p) = p
<1> DEFINE j == jobs[k]
<1>1. /\ j # NULL /\ p \in Asks(j) /\ a.by = j.cookie /\ a.rows = Told(j, p) /\ Refusal(j) = "ok"
  BY ServedFields DEF Typed
<1>2. (j.step = "write" => Admits(j)) /\ ~Misplaced(j)
  BY <1>1, Zenon DEF Refusal, Mutates
<1>3. RoleFits(j.cookie)  BY <1>2 DEF Misplaced
<1>4. mode' = mode /\ tenant' = tenant /\ j.cookie \in Sessions  BY <1>1, Around, CookieTenant
<1>5. j.cookie # 0  BY <1>4, PanelAssumption DEF Sessions
<1>6. a.rows \subseteq content'[tenant[j.cookie]][Of(j, p)]  BY <1>1, RoutesTell DEF All
<1>7. Catches(j) => a.rows = content'[tenant[j.cookie]][p] /\ Of(j, p) = p  BY <1>1, RoutesTell DEF All
<1>8. PastLater(a, Of(j, p))  BY <1>1, <1>3, <1>4, <1>5, <1>6, Zenon DEF PastLater, RoleFits
<1>9. QED  BY <1>1, <1>2, <1>4, <1>7, <1>8 DEF Admits

LEMMA PastUnchanged ==
  ASSUME Typed, StepOf, NEW l \in Jobs, jobs[l] # NULL, PastAnswers(jobs[l]), Alike(jobs'[l], jobs[l]),
         NEW p \in Parts
  PROVE  /\ /\ jobs'[l].answer[p] = jobs[l].answer[p]
            /\ jobs'[l].answer[p] # NULL /\ Ok(jobs'[l].answer[p]) /\ ~AsksSession(jobs'[l])
            => /\ PastLater(jobs'[l].answer[p], Of(jobs[l], p))
               /\ jobs'[l].step = "write" => jobs'[l].csrf = jobs'[l].cookie
         /\ jobs'[l].loaded[p] # NULL /\ Ok(jobs'[l].loaded[p]) /\ jobs'[l].step \in {"after", "checked", "verify"} =>
              PastLater(jobs'[l].loaded[p], IF jobs'[l].step = "after" THEN jobs'[l].part ELSE p)
<1> DEFINE j == jobs[l]  b == jobs'[l]
<1>1. j \in Job /\ j.part \in Parts  BY JobOfPanel DEF Typed, Job
<1>2. j.answer \in [Parts -> Answer \cup {NULL}] /\ j.loaded \in [Parts -> Answer \cup {NULL}]  BY <1>1, JobFields
<1>3. \A a \in Answer : a.by \in 0..MaxLogins  BY DEF Answer
<1>4. b.step = j.step /\ b.part = j.part /\ b.loaded = j.loaded /\ b.csrf = j.csrf /\ b.cookie = j.cookie
  BY DEF Alike
<1>5. Of(j, p) \in Parts  BY <1>1 DEF Of, Parts
<1>6. ASSUME b.answer[p] = j.answer[p], b.answer[p] # NULL, Ok(b.answer[p]), ~AsksSession(b)
      PROVE  PastLater(b.answer[p], Of(j, p)) /\ (b.step = "write" => b.csrf = b.cookie)
  <2>1. ~AsksSession(j)  BY <1>4, <1>6 DEF AsksSession
  <2>2. j.answer[p] \in Answer  BY <1>2, <1>6
  <2>3. PastRows(j.answer[p], Of(j, p)) /\ (j.step = "write" => j.csrf = j.cookie)
    BY <1>6, <2>1 DEF PastAnswers
  <2>4. QED  BY <1>3, <1>4, <1>5, <1>6, <2>2, <2>3, StaysPast
<1>7. ASSUME b.loaded[p] # NULL, Ok(b.loaded[p]), b.step \in {"after", "checked", "verify"}
      PROVE  PastLater(b.loaded[p], IF b.step = "after" THEN b.part ELSE p)
  <2> DEFINE q == IF j.step = "after" THEN j.part ELSE p
  <2>1. j.loaded[p] \in Answer /\ q \in Parts  BY <1>1, <1>2, <1>4, <1>7
  <2>2. PastRows(j.loaded[p], q)  BY <1>4, <1>7 DEF PastAnswers
  <2>3. PastLater(j.loaded[p], q)  BY <1>3, <2>1, <2>2, StaysPast
  <2>4. QED  BY <1>4, <2>3
<1>8. QED  BY <1>6, <1>7

LEMMA AnswersPastKept ==
  ASSUME Typed, StepOf, AnswersPast, NEW l \in Jobs, jobs'[l] # NULL, jobs'[l].kind # "logout",
         Kept(l) \/ \E q \in Parts, a \in Answer : Served(l, q, a)
  PROVE  PastAnswers(jobs[l])'
<1> DEFINE j == jobs[l]  b == jobs'[l]
<1>1. j # NULL /\ Alike(b, j) /\ mode' = mode
  BY ServedFields, Around DEF Kept, Typed
<1>2. b.step = j.step /\ b.part = j.part /\ b.kind = j.kind /\ b.csrf = j.csrf /\ b.cookie = j.cookie
  BY <1>1 DEF Alike
<1>3. PastAnswers(j)  BY <1>1, <1>2 DEF AnswersPast
<1>4. SUFFICES ASSUME NEW p \in Parts
      PROVE  /\ b.answer[p] # NULL /\ Ok(b.answer[p]) /\ ~AsksSession(b) =>
                  /\ PastLater(b.answer[p], Of(j, p))
                  /\ b.step = "write" => b.csrf = b.cookie
             /\ b.loaded[p] # NULL /\ Ok(b.loaded[p]) /\ b.step \in {"after", "checked", "verify"} =>
                  PastLater(b.loaded[p], IF b.step = "after" THEN b.part ELSE p)
  BY <1>1, <1>2 DEF PastAnswers, PastLater, PastRows, RoleFits, Of, Ok, AsksSession
<1>5. b.loaded[p] # NULL /\ Ok(b.loaded[p]) /\ b.step \in {"after", "checked", "verify"} =>
        PastLater(b.loaded[p], IF b.step = "after" THEN b.part ELSE p)
  BY <1>1, <1>3, PastUnchanged
<1>6. CASE b.answer[p] = j.answer[p]  BY <1>1, <1>3, <1>5, <1>6, PastUnchanged
<1>7. ASSUME NEW q \in Parts, NEW a \in Answer, Served(l, q, a), b.answer[p] # j.answer[p],
             b.answer[p] # NULL, Ok(b.answer[p]), ~AsksSession(b)
      PROVE  PastLater(b.answer[p], Of(j, p)) /\ (b.step = "write" => b.csrf = b.cookie)
  <2>1. p = q /\ b.answer[p] = a  BY <1>7, ServedFields DEF Typed
  <2>2. ~AsksSession(j)  BY <1>2, <1>7 DEF AsksSession
  <2>3. Ok(a)  BY <1>7, <2>1
  <2>4. PastLater(a, Of(j, p)) /\ (j.step = "write" => j.csrf = j.cookie)
    BY <1>2, <1>7, <2>1, <2>2, <2>3, TellsPast
  <2>5. QED  BY <1>2, <2>1, <2>4
<1>8. CASE Kept(l)  BY <1>5, <1>6, <1>8 DEF Kept
<1>9. QED  BY <1>5, <1>6, <1>7, <1>8

LEMMA AnswersPastGoes ==
  ASSUME Typed, StepOf, AnswersPast, NEW l \in Jobs, JobGoes(l), jobs'[l] # NULL
  PROVE  PastAnswers(jobs[l])'
<1> DEFINE j == jobs[l]  b == jobs'[l]
<1>1. j # NULL /\ j \in Job /\ mode' = mode  BY JobOfPanel, Around DEF JobGoes, Answered, Typed
<1>2. j.kind \in {"load", "act"} /\ b.part = j.part /\ PastAnswers(j)
  <2>1. j.kind \in {"load", "act"} /\ b.part = j.part  BY JobGoesOn
  <2>2. QED  BY <1>1, <2>1 DEF AnswersPast
<1>3. \A p \in Parts : b.answer[p] = NULL
  BY JobGoesOn, NoneIsNull DEF Bootstrapped, IsSent
<1>4. SUFFICES ASSUME NEW p \in Parts, b.loaded[p] # NULL, Ok(b.loaded[p]), b.step \in {"after", "checked", "verify"}
      PROVE  PastLater(b.loaded[p], IF b.step = "after" THEN b.part ELSE p)
  BY <1>3 DEF PastAnswers, PastLater, PastRows, RoleFits, Ok
<1>5. j.answer \in [Parts -> Answer \cup {NULL}] /\ j.loaded \in [Parts -> Answer \cup {NULL}] /\ j.part \in Parts
  BY <1>1, JobFields DEF Job
<1>6. \A a \in Answer : a.by \in 0..MaxLogins  BY DEF Answer
<1>7. CASE Bootstrapped(l)
  <2> DEFINE q == IF j.step = "after" THEN j.part ELSE p
  <2>1. b.step = j.step /\ b.loaded = j.loaded  BY <1>7 DEF Bootstrapped
  <2>2. PastRows(j.loaded[p], q) /\ j.loaded[p] \in Answer /\ q \in Parts
    BY <1>2, <1>4, <1>5, <2>1 DEF PastAnswers
  <2>3. PastLater(j.loaded[p], q)  BY <1>6, <2>2, StaysPast
  <2>4. QED  BY <1>2, <2>1, <2>3
<1>8. ASSUME b.loaded = j.answer, b.step = "after" => j.step = "write", b.step \in {"checked", "verify"} => j.step = "read"
      PROVE  PastLater(b.loaded[p], IF b.step = "after" THEN b.part ELSE p)
  <2>1. ~AsksSession(j) /\ j.answer[p] \in Answer  BY <1>4, <1>5, <1>8 DEF AsksSession
  <2>2. PastRows(j.answer[p], Of(j, p))  BY <1>2, <1>4, <1>8, <2>1 DEF PastAnswers
  <2>3. Of(j, p) = IF b.step = "after" THEN b.part ELSE p  BY <1>2, <1>4, <1>8 DEF Of
  <2>4. Of(j, p) \in Parts  BY <1>2, <1>5, <2>3
  <2>5. PastLater(j.answer[p], Of(j, p))  BY <1>6, <2>1, <2>2, <2>4, StaysPast
  <2>6. QED  BY <1>8, <2>3, <2>5
<1>9. CASE j.kind = "load" /\ (Reading(l) \/ Presenting(l)) /\ \E step \in {"read", "qr"} : IsSent(b, j, step, stored')
  BY <1>4, <1>9 DEF IsSent
<1>10. CASE j.kind = "load" /\ Verifying(l) /\ IsSent(b, j, "verify", stored')
  BY <1>8, <1>10 DEF Verifying, IsSent
<1>11. ASSUME NEW step \in Step, Resumed(l, step), IsSent(b, j, step, stored'),
              b.loaded = IF KeepsAnswers(step) THEN j.answer ELSE None
       PROVE  PastLater(b.loaded[p], IF b.step = "after" THEN b.part ELSE p)
  <2>1. b.step = step /\ KeepsAnswers(step)  BY <1>4, <1>11 DEF IsSent, KeepsAnswers
  <2>2. QED  BY <1>8, <1>11, <2>1 DEF Resumed
<1>12. QED  BY <1>7, <1>9, <1>10, <1>11, JobGoesOn

LEMMA AnswersPastStep ==
  ASSUME Typed, Past, AnswersPast, StepOf
  PROVE  AnswersPast'
<1>1. SUFFICES ASSUME NEW l \in Jobs, jobs'[l] # NULL, jobs'[l].kind # "logout" PROVE PastAnswers(jobs[l])'
  BY DEF AnswersPast
<1>2. CASE Begins(l)
  <2>1. jobs'[l].answer = None /\ jobs'[l].loaded = None
    BY <1>2 DEF Begins, LoadsAgain, LoadBegins, RetriesClosures, Submitted, SubmitBegins, LogoutBegins,
                ClosuresBegin, IsBegun
  <2>2. QED  BY <2>1, NoneIsNull DEF PastAnswers
<1>3. QED  BY <1>1, <1>2, JobCases, AnswersPastKept, AnswersPastGoes

(* Where the work on a part is held, and that a panel which is worked on is *)
(* changed by that work alone.                                              *)

Place(p) == IF mode = "calendar" THEN p ELSE "main"
QrPart(p) == mode = "whatsapp" /\ p = "side"

LEMMA WorkerHolds ==
  ASSUME Typed, Past, Held, CurrentIsHeld, NEW k \in Jobs, JobGoes(k), WorkGoes(k), NEW p \in Parts, NEW s,
         Replaces(k, p, s) \/ Joins(k, p, s)
  PROVE  tab.held[Place(p)] = k /\ tab.held[Slot(jobs[k])] = k /\ Slot(jobs[k]) = Place(p)
<1>1. /\ jobs[k] # NULL /\ jobs[k].kind \in {"act", "closures"} /\ Current(k) /\ GoodJob(jobs[k])
      /\ PastJob(jobs[k]) /\ jobs[k] \in Job /\ jobs[k].part \in {"main", "side"} /\ p \in {"main", "side"}
  BY JobOfPanel DEF JobGoes, Answered, WorkGoes, Replaces, Joins, Typed, JobsTyped, Past, Job, Parts
<1>2. tab.held[Slot(jobs[k])] = k  BY <1>1, CurrentHolds
<1>3. CASE mode # "calendar"  BY <1>2, <1>3 DEF Slot, Place
<1>4. CASE mode = "calendar"
  <2>1. jobs[k].step \in {"write", "read"}  BY <1>1, <1>4 DEF GoodJob, ActSteps
  <2>2. CASE Joins(k, p, s)  BY <1>1, <1>2, <1>4, <2>2 DEF Joins, Slot, Place
  <2>3. CASE Replaces(k, p, s)
    <3>1. p \in Asks(jobs[k])  BY <1>1, <2>1, <2>3 DEF Replaces, Brings, PastJob
    <3>2. p = jobs[k].part
      BY <1>1, <1>4, <2>1, <2>3, <3>1 DEF Replaces, Asks, Reads, Whole
    <3>3. QED  BY <1>1, <1>2, <1>4, <3>2 DEF Slot, Place
  <2>4. QED  BY <2>2, <2>3
<1>5. QED  BY <1>3, <1>4

\* A load presents nothing in a part that is worked on.
LEMMA LoadsKeepAway ==
  ASSUME Typed, Past, OneLoad, Held, NEW k \in Jobs, JobGoes(k), NEW p \in Parts, ~QrPart(p), NEW s,
         Presented(k, p, s) \/ QrLoaded(k, p, s)
  PROVE  (tab.view # "ready" /\ tab.held[Place(p)] = NULL) \/ (mode = "calendar" /\ p = "side")
<1>1. /\ IsLoad(k) /\ GoodJob(jobs[k])
  BY DEF JobGoes, Answered, Presented, QrLoaded, IsLoad, Typed, JobsTyped
<1>2. mode = "whatsapp" => p = "main"  BY DEF QrPart, Parts
<1>3. jobs[k].step # "qr"
  <2>1. CASE Presented(k, p, s)  BY <2>1 DEF Presented, Presenting
  <2>2. CASE QrLoaded(k, p, s)
    <3>1. jobs[k].step = "qr" /\ p = "side"  BY <2>2 DEF QrLoaded, ShowsLoadedQr
    <3>2. mode = "whatsapp"  BY <1>1, <3>1 DEF GoodJob, LoadSteps, IsLoad
    <3>3. QED  BY <3>1, <3>2 DEF QrPart
  <2>3. QED  BY <2>1, <2>2
<1>4. tab.view = "loading"  BY <1>1, <1>3 DEF OneLoad
<1>5. tab.held["main"] = NULL  BY <1>4 DEF Held
<1>6. QED  BY <1>4, <1>5 DEF Place, Parts

LEMMA LoadsLeaveClosures ==
  ASSUME Typed, Past, NEW k \in Jobs, JobGoes(k), mode = "calendar", NEW s
  PROVE  ~Presented(k, "side", s) /\ ~QrLoaded(k, "side", s)
<1>1. jobs[k] # NULL /\ jobs[k] \in Job /\ GoodJob(jobs[k]) /\ PastJob(jobs[k]) /\ "side" \in Parts
  BY JobOfPanel DEF JobGoes, Answered, Typed, JobsTyped, Past, Parts
<1>2. ASSUME Presented(k, "side", s) PROVE FALSE
  <2>1. jobs[k].kind = "load" /\ jobs[k].part = "main" /\ jobs[k].step \in {"session", "read"}
    BY <1>1, <1>2 DEF Presented, GoodJob, LoadSteps
  <2>2. jobs[k].step = "read"  BY <1>2, <2>1 DEF Presented, Presenting
  <2>3. jobs[k].answer["side"] # NULL  BY <1>2, <2>2 DEF Presented
  <2>4. "side" \in Asks(jobs[k])  BY <1>1, <2>3 DEF PastJob
  <2>5. QED  BY <2>1, <2>2, <2>4 DEF Asks, Reads
<1>3. ASSUME QrLoaded(k, "side", s) PROVE FALSE
  <2>1. jobs[k].kind = "load" /\ jobs[k].step = "qr"  BY <1>3 DEF QrLoaded, ShowsLoadedQr
  <2>2. QED  BY <1>1, <2>1 DEF GoodJob, LoadSteps
<1>4. QED  BY <1>2, <1>3

\* What is shown of a part that is worked on changes with that work, or is taken away.
LEMMA WorkedOn ==
  ASSUME Typed, Past, OneLoad, Held, CurrentIsHeld, StepOf, NEW p \in Parts, ~QrPart(p),
         tab.held[Place(p)] # NULL \/ tab.view = "ready"
  PROVE  LET s == tab'.shown[p] IN
         \/ s = tab.shown[p] \/ Cleared(p)
         \/ \E k \in Jobs : /\ JobGoes(k) /\ WorkGoes(k) /\ (Replaces(k, p, s) \/ Joins(k, p, s))
                            /\ tab.held[Place(p)] = k
<1> DEFINE s == tab'.shown[p]
<1>1. ASSUME NEW k \in Jobs, JobGoes(k), Presented(k, p, s) \/ QrLoaded(k, p, s) PROVE FALSE
  BY <1>1, LoadsKeepAway, LoadsLeaveClosures
<1>2. ASSUME NEW k \in Jobs, JobGoes(k), Worked(k, p, s)
      PROVE  WorkGoes(k) /\ (Replaces(k, p, s) \/ Joins(k, p, s)) /\ tab.held[Place(p)] = k
  <2>1. WorkGoes(k) /\ (Replaces(k, p, s) \/ Joins(k, p, s))
    BY <1>2 DEF Worked, ShowsQr, QrPart
  <2>2. QED  BY <1>2, <2>1, WorkerHolds
<1>3. QED  BY <1>1, <1>2, ShownCases

(* Where a change is made from what is shown, what is shown stays of the    *)
(* session that it was made from while the change is on its way.            *)

NeverAsked ==
  mode \in {"resources", "calendar"} => \A k \in Jobs : jobs[k] # NULL /\ jobs[k].kind = "act" => jobs[k].seen = 0
MadeFromShown ==
  mode \in {"resources", "calendar"} =>
    \A p \in Parts : LET k == tab.held[p] IN
      k # NULL /\ jobs[k].kind = "act" /\ jobs[k].step = "write" => jobs[k].from = tab.shown[p].by

LEMMA ListSteps ==
  ASSUME Typed, mode \in {"resources", "calendar"}, NEW k \in Jobs, jobs[k] # NULL, jobs[k].kind = "act"
  PROVE  /\ jobs[k].step \in {"write", "read"} /\ Slot(jobs[k]) = jobs[k].part /\ jobs[k].part \in Parts
         /\ ~Bootstrapped(k)
         /\ ~\E step \in Step : Resumed(k, step) /\ IsSent(jobs'[k], jobs[k], step, stored') /\ jobs'[k].step = "write"
<1>1. GoodJob(jobs[k]) /\ jobs[k] \in Job /\ jobs[k].part \in Parts
  BY JobOfPanel DEF Typed, JobsTyped, Job
<1>2. jobs[k].step \in {"write", "read"}  BY <1>1 DEF GoodJob, ActSteps
<1>3. Slot(jobs[k]) = jobs[k].part  BY <1>1 DEF GoodJob, Slot, Parts
<1>4. ~Bootstrapped(k)  BY <1>2 DEF Bootstrapped, AsksSession
<1>5. QED  BY <1>1, <1>2, <1>3, <1>4 DEF Resumed, IsSent

LEMMA NeverAskedStep ==
  ASSUME Typed, NeverAsked, StepOf
  PROVE  NeverAsked'
<1>1. mode' = mode  BY Around
<1>2. SUFFICES ASSUME mode \in {"resources", "calendar"}, NEW l \in Jobs, jobs'[l] # NULL, jobs'[l].kind = "act"
      PROVE  jobs'[l].seen = 0
  BY <1>1 DEF NeverAsked
<1>3. CASE Begins(l)  BY <1>3, BegunNow
<1>4. CASE Kept(l) \/ \E p \in Parts, a \in Answer : Served(l, p, a)
  <2>1. Alike(jobs'[l], jobs[l]) /\ jobs[l] # NULL  BY <1>4, ServedFields DEF Kept, Typed
  <2>2. QED  BY <1>2, <2>1 DEF Alike, NeverAsked
<1>5. CASE JobGoes(l)
  <2>1. jobs[l] # NULL /\ jobs[l].kind = "act"  BY <1>2, <1>5, JobGoesOn DEF JobGoes, Answered
  <2>2. ~Bootstrapped(l)  BY <1>2, <2>1, ListSteps
  <2>3. \E step \in Step : IsSent(jobs'[l], jobs[l], step, stored')  BY <1>2, <1>5, <2>1, <2>2, JobGoesOn
  <2>4. QED  BY <1>2, <2>1, <2>3 DEF IsSent, NeverAsked
<1>6. QED  BY <1>2, <1>3, <1>4, <1>5, JobCases

\* What the buttons of a part wait for is what they waited for, or begins.
LEMMA HeldOrBegins ==
  ASSUME Typed, Held, StepOf, NEW p \in Parts, tab'.held[p] # NULL, tab'.held[p] # tab.held[p],
         p = "main" \/ mode = "calendar"
  PROVE  tab'.held[p] \in Jobs /\ Begins(tab'.held[p])
<1>1. tab' \in Tab /\ jobs' \in [Jobs -> Job \cup {NULL}]  BY Around
<1>2. tab'.held[p] \in Jobs  BY <1>1 DEF Tab
<1>3. CASE p = "main"
  <2>1. Submitted(tab'.held["main"])  BY <1>3, HeldMain
  <2>2. QED  BY <1>2, <1>3, <2>1 DEF Begins
<1>4. CASE p = "side"
  <2>1. jobs[tab'.held[p]] = NULL /\ jobs'[tab'.held[p]] # NULL  BY <1>4, HeldSide
  <2>2. QED  BY <1>2, <2>1, NewBegins
<1>5. QED  BY <1>3, <1>4 DEF Parts

LEMMA MadeFromShownStep ==
  ASSUME Typed, Typed', Past, OneLoad, OneLoad', Held, Held', CurrentIsHeld, MadeFromShown, StepOf
  PROVE  MadeFromShown'
<1>1. mode' = mode  BY Around
<1>2. SUFFICES ASSUME mode \in {"resources", "calendar"}, NEW p \in Parts, NEW l \in Jobs, tab'.held[p] = l,
                      jobs'[l].kind = "act", jobs'[l].step = "write"
      PROVE  jobs'[l].from = tab'.shown[p].by
  <2>1. tab'.held \in [Parts -> Jobs \cup {NULL}]  BY Around DEF Tab
  <2>2. QED  BY <1>1, <2>1 DEF MadeFromShown
<1>3. l # NULL  BY PanelAssumption
<1>4. jobs'[l] # NULL /\ (mode' = "calendar" /\ jobs'[l].part = "side" <=> p = "side")
  <2>1. HeldWell(p)'  BY DEF Held
  <2>2. QED  BY <1>2, <1>3, <2>1 DEF HeldWell, Slot, Parts
<1>5. tab'.view = "ready"  BY <1>1, <1>2, <1>4 DEF OneLoad
<1>6. p = "main" \/ mode = "calendar"  BY <1>1, <1>4 DEF Parts
<1>7. CASE jobs[l] = NULL
  <2>1. Begins(l)  BY <1>4, <1>7, NewBegins
  <2>2. PICK q \in Parts, step \in Step : Starts(l, q, step) /\ SubmitBegins(l, q, step)
    BY <1>2, <2>1
    DEF Begins, LoadsAgain, LoadBegins, RetriesClosures, LogoutBegins, ClosuresBegin, IsBegun, Submitted
  <2>3. jobs'[l].from = tab.shown[q].by /\ jobs'[l].part = q /\ jobs'[l].step = step
    BY <2>2 DEF SubmitBegins, IsBegun
  <2>4. q = p
    <3>1. mode = "resources" => q = "main"  BY <1>2, <2>2 DEF Starts, Parts
    <3>2. QED  BY <1>1, <1>2, <1>4, <1>6, <2>3, <3>1 DEF Parts
  <2>5. tab'.shown[p] = tab.shown[p]  BY <1>2, <2>2, <2>3 DEF SubmitBegins
  <2>6. QED  BY <2>3, <2>4, <2>5
<1>8. CASE jobs[l] # NULL
  <2>1. tab.held[p] = l
    <3>1. ~Begins(l)  BY <1>8, BeginsFree
    <3>2. QED  BY <1>2, <1>3, <1>6, <3>1, HeldOrBegins
  <2>2. jobs[l].kind = "act" /\ jobs'[l].from = jobs[l].from  BY <1>2, <1>4, <1>8, JobStays
  <2>3. ~JobGoes(l)
    <3>1. SUFFICES ASSUME JobGoes(l) PROVE FALSE  OBVIOUS
    <3>2. QED  BY <1>2, <1>4, <1>8, <2>2, <3>1, JobGoesOn, ListSteps
  <2>4. jobs[l].step = "write"  BY <1>2, <1>4, <1>8, <2>3, JobStays
  <2>5. jobs[l].from = tab.shown[p].by  BY <1>2, <1>3, <2>1, <2>2, <2>4 DEF MadeFromShown
  <2>6. tab'.shown[p] = tab.shown[p]
    <3>1. ~QrPart(p) /\ p = Place(p)  BY <1>2, <1>6 DEF QrPart, Place
    <3>2. ~Cleared(p)  BY <1>2, <1>5 DEF Cleared
    <3>3. QED  BY <1>3, <2>1, <2>3, <3>1, <3>2, WorkedOn
  <2>7. QED  BY <2>2, <2>5, <2>6
<1>9. QED  BY <1>7, <1>8

\* What joins a part is of the session of what is shown, or of the same business.
LEMMA JoinsPast ==
  ASSUME Typed, Past, OneLoad, Held, CurrentIsHeld, TokenGoesWithData, LoadedBetween, ServicesOfOwner,
         AnswersPast, ShownPast, NeverAsked, MadeFromShown, StepOf,
         NEW k \in Jobs, JobGoes(k), WorkGoes(k), NEW p \in Parts, NEW s, Joins(k, p, s), s.by # 0
  PROVE  PastLater(s, p)
<1> DEFINE j == jobs[k]
           a == IF j.step = "after" THEN j.loaded["main"] ELSE j.answer["main"]
           t == tab.shown[p]
<1>1. /\ j # NULL /\ j \in Job /\ PastJob(j) /\ j.kind \in {"act", "closures"} /\ GoodJob(j) /\ Current(k) /\ Answered(k)
      /\ p = j.part /\ a # NULL /\ ~Whole(j) /\ "main" \in Parts
  BY JobOfPanel DEF JobGoes, Answered, WorkGoes, Joins, Typed, JobsTyped, Past, Parts
<1>2. s = [by |-> t.by, rows |-> t.rows \cup a.rows]  BY DEF Joins
<1>3. \/ j.step = "write" /\ mode \in {"admin", "resources", "calendar"} /\ Ok(a)
      \/ j.step = "after" /\ Same(j)
  BY DEF Joins
<1>4. PastAnswers(j)
  <2>1. j.kind # "logout"  BY <1>1
  <2>2. QED  BY <1>1, <2>1 DEF AnswersPast
<1>5. a \in Answer /\ a.by \in 0..MaxLogins
  <2>1. j.answer \in [Parts -> Answer \cup {NULL}] /\ j.loaded \in [Parts -> Answer \cup {NULL}]  BY <1>1, JobFields
  <2>2. a \in Answer  BY <1>1, <2>1
  <2>3. QED  BY <2>2 DEF Answer
<1>6. t.by \in 0..MaxLogins /\ t.by # 0 /\ PastRows(t, p)
  <2>1. tab.shown[p] \in Shown  BY Nats DEF Typed
  <2>2. t.by # 0  BY <1>2
  <2>3. QED  BY <2>1, <2>2 DEF Shown, ShownPast
<1>7. PastLater(t, p)  BY <1>6, StaysPast
<1>8. PastRows(a, p) /\ (j.step = "write" => Ok(a) /\ j.csrf = j.cookie)
  <2>1. CASE j.step = "write"
    <3>1. a = j.answer["main"] /\ Ok(a) /\ ~AsksSession(j) /\ Of(j, "main") = p
      BY <1>1, <1>3, <2>1 DEF AsksSession, Of
    <3>2. QED  BY <1>1, <1>4, <2>1, <3>1 DEF PastAnswers
  <2>2. CASE j.step = "after"
    <3>1. a = j.loaded["main"] /\ j.step \in {"after", "checked", "verify"}  BY <2>2
    <3>2. mode = "services"
      BY <1>1, <2>2, PanelAssumption DEF GoodJob, ActSteps, Typed, TypeOK
    <3>3. Ok(a)  BY <1>1, <3>1, <3>2 DEF LoadedBetween, Bracketed
    <3>4. QED  BY <1>1, <1>4, <2>2, <3>1, <3>3 DEF PastAnswers
  <2>3. QED  BY <1>3, <2>1, <2>2
<1>9. PastLater(a, p)  BY <1>5, <1>8, StaysPast
<1>10. tenant'[a.by] = tenant'[t.by]
  <2>1. CASE mode = "admin"
    <3>1. mode' = "admin"  BY <2>1, Around
    <3>2. QED  BY <1>7, <1>9, <3>1 DEF PastLater
  <2>2. CASE j.step = "write" /\ mode \in {"resources", "calendar"}
    <3>1. j.kind = "act"  BY <1>1, <2>2 DEF GoodJob
    <3>2. tab.held[p] = k
      BY <1>1, <2>2, <3>1, WorkerHolds, ListSteps
    <3>3. j.from = t.by  BY <1>1, <2>2, <3>1, <3>2, PanelAssumption DEF MadeFromShown
    <3>4. j.csrf <= j.from  BY <1>1, <2>2, <3>1 DEF TokenGoesWithData, NeverAsked
    <3>5. j.from <= j.cookie /\ j.from \in Nat /\ j.cookie \in Nat  BY <1>1, JobFields DEF PastJob
    <3>6. a.by = j.cookie  BY <1>1, <1>8, <2>2 DEF PastJob
    <3>7. QED  BY <1>8, <2>2, <3>3, <3>4, <3>5, <3>6
  <2>3. CASE j.step = "after"
    <3>1. mode = "services" /\ j.kind = "act" /\ Same(j)
      BY <1>1, <1>3, <2>3, PanelAssumption DEF GoodJob, ActSteps, Typed, TypeOK
    <3>2. a.by = j.owner  BY <1>1, <2>3, <3>1, BracketOfOwner DEF LoadedBetween
    <3>3. j.owner = tab.owner  BY <1>1, <3>1 DEF Current, Slot
    <3>4. tab.held["main"] = k /\ k # NULL  BY <1>1, <3>1, CurrentHolds, PanelAssumption DEF Slot
    <3>5. t.by = tab.owner  BY <3>1, <3>4 DEF Held, ServicesOfOwner
    <3>6. QED  BY <3>2, <3>3, <3>5
  <2>4. QED  BY <1>3, <2>1, <2>2, <2>3
<1>11. s.by = t.by /\ s.rows = t.rows \cup a.rows  BY <1>2
<1> HIDE DEF a, t
<1>12. QED  BY <1>7, <1>9, <1>10, <1>11 DEF PastLater

LEMMA ShownPastStep ==
  ASSUME Typed, Past, OneLoad, Held, CurrentIsHeld, TokenGoesWithData, LoadedBetween, ServicesOfOwner,
         AnswersPast, ShownPast, NeverAsked, MadeFromShown, StepOf
  PROVE  ShownPast'
<1>1. SUFFICES ASSUME NEW p \in Parts, tab'.shown[p].by # 0 PROVE PastLater(tab'.shown[p], p)
  BY DEF ShownPast, PastRows, PastLater, RoleFits
<1> DEFINE s == tab'.shown[p]
<1>2. CASE s = tab.shown[p]
  <2>1. tab.shown[p] \in Shown  BY Nats DEF Typed
  <2>2. tab.shown[p].by \in 0..MaxLogins /\ PastRows(tab.shown[p], p)  BY <1>1, <1>2, <2>1 DEF Shown, ShownPast
  <2>3. PastLater(tab.shown[p], p)  BY <2>2, StaysPast
  <2>4. QED  BY <1>2, <2>3
<1>3. CASE Cleared(p)  BY <1>1, <1>3 DEF Cleared, Nothing
<1>4. ASSUME NEW k \in Jobs, JobGoes(k), jobs[k].kind # "logout"
      PROVE  /\ jobs[k] \in Job /\ jobs[k] # NULL /\ GoodJob(jobs[k]) /\ PastJob(jobs[k]) /\ PastAnswers(jobs[k])
             /\ \A q \in Parts : /\ jobs[k].answer[q] # NULL => jobs[k].answer[q] \in Answer
                                 /\ jobs[k].loaded[q] # NULL => jobs[k].loaded[q] \in Answer
  <2>1. jobs[k] \in Job /\ jobs[k] # NULL  BY <1>4, JobOfPanel DEF JobGoes, Answered, Typed
  <2>2. QED  BY <1>4, <2>1, JobFields DEF Typed, JobsTyped, Past, AnswersPast
<1>5. ASSUME NEW a \in Answer, PastRows(a, p), s = Row(a) PROVE PastLater(s, p)
  <2>1. a.by \in 0..MaxLogins  BY DEF Answer
  <2>2. PastLater(a, p)  BY <1>5, <2>1, StaysPast
  <2>3. s.by = a.by /\ s.rows = a.rows  BY <1>5 DEF Row
  <2>4. QED  BY <2>2, <2>3 DEF PastLater
<1>6. ASSUME NEW k \in Jobs, JobGoes(k), jobs[k].kind # "logout", NEW q \in Parts, jobs[k].answer[q] # NULL,
             Ok(jobs[k].answer[q]), ~AsksSession(jobs[k]), Of(jobs[k], q) = p, s = Row(jobs[k].answer[q])
      PROVE  PastLater(s, p)
  <2>1. jobs[k].answer[q] \in Answer /\ PastRows(jobs[k].answer[q], p)  BY <1>4, <1>6 DEF PastAnswers
  <2>2. QED  BY <1>5, <1>6, <2>1
<1>7. ASSUME NEW k \in Jobs, JobGoes(k), jobs[k].kind # "logout", jobs[k].loaded[p] # NULL,
             Ok(jobs[k].loaded[p]), jobs[k].step \in {"checked", "verify"}, s = Row(jobs[k].loaded[p])
      PROVE  PastLater(s, p)
  <2>1. jobs[k].loaded[p] \in Answer /\ PastRows(jobs[k].loaded[p], p)  BY <1>4, <1>7 DEF PastAnswers
  <2>2. QED  BY <1>5, <1>7, <2>1
<1>8. ASSUME NEW k \in Jobs, JobGoes(k), Presented(k, p, s) PROVE PastLater(s, p)
  <2>1. jobs[k].kind = "load" /\ jobs[k].step \in {"read", "verify"}  BY <1>8 DEF Presented, Presenting
  <2>2. CASE jobs[k].step = "read"
    BY <1>6, <1>8, <2>1, <2>2 DEF Presented, AsksSession, Of
  <2>3. CASE jobs[k].step = "verify"
    BY <1>7, <1>8, <2>1, <2>3 DEF Presented
  <2>4. QED  BY <2>1, <2>2, <2>3
<1>9. ASSUME NEW k \in Jobs, JobGoes(k), QrLoaded(k, p, s) PROVE PastLater(s, p)
  <2>1. jobs[k].kind = "load" /\ jobs[k].step = "qr" /\ p = "side" /\ "main" \in Parts
    BY <1>9 DEF QrLoaded, ShowsLoadedQr, Parts
  <2>2. mode = "whatsapp"  BY <1>4, <1>9, <2>1 DEF GoodJob, LoadSteps
  <2>3. QED  BY <1>6, <1>9, <2>1, <2>2 DEF QrLoaded, AsksSession, Of
<1>10. ASSUME NEW k \in Jobs, JobGoes(k), Worked(k, p, s) PROVE PastLater(s, p)
  <2>1. WorkGoes(k) /\ jobs[k].kind \in {"act", "closures"} /\ jobs[k].kind # "logout"
    BY <1>10 DEF Worked, WorkGoes
  <2>2. CASE ShowsQr(k, p, s)
    <3>1. mode = "whatsapp" /\ p = "side" /\ s # Nothing  BY <1>1, <2>2 DEF ShowsQr, Nothing
    <3>2. PICK q \in Parts : /\ jobs[k].answer[q] # NULL /\ Ok(jobs[k].answer[q]) /\ s = Row(jobs[k].answer[q])
                             /\ (q = "side" \/ jobs[k].step # "status")
      BY <2>2, <3>1 DEF ShowsQr
    <3>3. jobs[k].kind = "act" /\ jobs[k].step \in {"link", "status", "qr"} /\ jobs[k].part \in {"main", "side"}
      BY <1>4, <1>10, <2>1, <3>1 DEF GoodJob, ActSteps, Job, Parts
    <3>4. q = "main"
      <4>1. q \in Asks(jobs[k])  BY <1>4, <1>10, <2>1, <3>2 DEF PastJob
      <4>2. QED  BY <3>3, <4>1 DEF Asks
    <3>5. QED  BY <1>6, <1>10, <2>1, <3>1, <3>2, <3>3, <3>4 DEF AsksSession, Of
  <2>3. CASE Replaces(k, p, s)
    <3>1. CASE jobs[k].step \in {"checked", "verify"}  BY <1>7, <1>10, <2>1, <2>3, <3>1 DEF Replaces, Brings
    <3>2. CASE jobs[k].step \in {"read", "status"}
      BY <1>6, <1>10, <2>1, <2>3, <3>2 DEF Replaces, Brings, AsksSession, Of
    <3>3. CASE jobs[k].step = "write" /\ Whole(jobs[k])
      <4>1. jobs[k].answer[p] # NULL  BY <2>3, <3>3 DEF Replaces, Brings
      <4>2. p \in Asks(jobs[k])  BY <1>4, <1>10, <2>1, <4>1 DEF PastJob
      <4>3. p = "main"  BY <3>3, <4>2 DEF Asks
      <4>4. jobs[k].part = "main"
        BY <1>4, <1>10, <2>1, <3>3 DEF Whole, GoodJob, Job, Parts
      <4>5. QED  BY <1>6, <1>10, <2>1, <2>3, <3>3, <4>3, <4>4 DEF Replaces, Brings, AsksSession, Of
    <3>4. QED  BY <2>3, <3>1, <3>2, <3>3 DEF Replaces
  <2>4. CASE Joins(k, p, s)  BY <1>1, <1>10, <2>1, <2>4, JoinsPast
  <2>5. QED  BY <1>10, <2>2, <2>3, <2>4 DEF Worked
<1>11. QED  BY <1>2, <1>3, <1>8, <1>9, <1>10, ShownCases

(* Work that replaces what is shown was told all of it, if it was told by   *)
(* the same session.                                                        *)

CatchesUp ==
  \A p \in Parts : LET k == tab.held[Place(p)] IN
    k # NULL /\ ~QrPart(p) /\ Catches(jobs[k]) =>
      LET a == Brings(jobs[k], p) IN
        a # NULL /\ Ok(a) /\ a.by = tab.shown[p].by => tab.shown[p].rows \subseteq a.rows

\* What is shown after the step, in a part that is worked on and goes on to be
LEMMA ShownOfWork ==
  ASSUME Typed, Past, OneLoad, Held, CurrentIsHeld, StepOf, NEW p \in Parts, ~QrPart(p),
         NEW k \in Jobs, tab.held[Place(p)] = k
  PROVE  \/ tab'.shown[p] = tab.shown[p] \/ tab'.shown[p].rows = {}
         \/ /\ JobGoes(k) /\ WorkGoes(k)
            /\ (Replaces(k, p, tab'.shown[p]) \/ Joins(k, p, tab'.shown[p]))
<1>1. k # NULL  BY PanelAssumption
<1>2. QED  BY <1>1, WorkedOn DEF Cleared, Nothing

\* A request that is answered
LEMMA CatchesUpServed ==
  ASSUME Typed, Past, Held, ShownPast, CatchesUp, StepOf, NEW p \in Parts, ~QrPart(p), NEW k \in Jobs, tab.held[Place(p)] = k,
         NEW q \in Parts, NEW a \in Answer, Served(k, q, a), Catches(jobs'[k]),
         Brings(jobs'[k], p) # NULL, Ok(Brings(jobs'[k], p)), Brings(jobs'[k], p).by = tab.shown[p].by
  PROVE  tab.shown[p].rows \subseteq Brings(jobs'[k], p).rows
<1> DEFINE j == jobs[k]  b == jobs'[k]  t == tab.shown[p]
<1>1. k # NULL  BY PanelAssumption
<1>2. /\ b.step = j.step /\ b.part = j.part /\ b.loaded = j.loaded /\ mode' = mode
      /\ b.answer[q] = a /\ \A r \in Parts : r # q => b.answer[r] = j.answer[r]
  BY ServedFields, Around DEF Alike, Typed
<1>3. Catches(j)  BY <1>2 DEF Catches, Whole
<1>4. CASE Brings(b, p) = Brings(j, p)  BY <1>1, <1>3, <1>4 DEF CatchesUp
<1>5. CASE Brings(b, p) # Brings(j, p)
  <2>1. p = q /\ Brings(b, p) = a /\ j.step \notin {"checked", "verify"}  BY <1>2, <1>5 DEF Brings
  <2>2. ~AsksSession(j)  BY <1>3, <2>1 DEF Catches, AsksSession
  <2>3. j.kind # "logout"
    <3>1. Place(p) \in Parts  BY DEF Place, Parts
    <3>2. HeldWell(Place(p))  BY <3>1 DEF Held
    <3>3. QED  BY <1>1, <3>2 DEF HeldWell
  <2>4. Ok(a)  BY <2>1
  <2>5. a.rows = content'[tenant'[a.by]][p] /\ a.by = j.cookie
    BY <1>3, <2>1, <2>2, <2>3, <2>4, TellsPast
  <2>6. t \in Shown /\ a.by = t.by  BY <2>1, Nats DEF Typed
  <2>7. t.by # 0 /\ t.by \in 0..MaxLogins
    <3>1. j # NULL  BY ServedFields DEF Typed
    <3>2. j.cookie \in Sessions  BY <3>1, CookieTenant
    <3>3. QED  BY <2>5, <2>6, <3>2, PanelAssumption DEF Sessions
  <2>8. PastLater(t, p)  BY <2>7, StaysPast DEF ShownPast
  <2>9. QED  BY <2>1, <2>5, <2>6, <2>8 DEF PastLater
<1>6. QED  BY <1>4, <1>5

\* Work that goes on keeps what it read, if it keeps anything.
LEMMA CatchesUpGoes ==
  ASSUME Typed, Past, OneLoad, Held, CurrentIsHeld, CatchesUp, StepOf, NEW p \in Parts, ~QrPart(p),
         NEW k \in Jobs, tab.held[Place(p)] = k, JobGoes(k), jobs'[k] # NULL,
         Catches(jobs'[k]), Brings(jobs'[k], p) # NULL, Ok(Brings(jobs'[k], p)),
         Brings(jobs'[k], p).by = tab'.shown[p].by
  PROVE  tab'.shown[p].rows \subseteq Brings(jobs'[k], p).rows
<1> DEFINE j == jobs[k]  b == jobs'[k]  s == tab'.shown[p]
<1>1. k # NULL  BY PanelAssumption
<1>2. j.kind \in {"act", "closures"}
  <2>1. Place(p) \in Parts  BY DEF Place, Parts
  <2>2. HeldWell(Place(p))  BY <2>1 DEF Held
  <2>3. QED  BY <1>1, <2>2 DEF HeldWell
<1>3. CASE Bootstrapped(k)
  <2>1. b.step = j.step /\ b.loaded = j.loaded /\ tab' = tab /\ b.answer[p] = NULL
    BY <1>3, NoneIsNull DEF Bootstrapped
  <2>2. b.step \in {"checked", "verify"}  BY <2>1 DEF Brings
  <2>3. Catches(j) /\ Brings(j, p) = Brings(b, p)  BY <2>1, <2>2 DEF Catches, Brings
  <2>4. QED  BY <1>1, <2>1, <2>3 DEF CatchesUp
<1>4. ASSUME NEW step \in Step, Resumed(k, step), IsSent(b, j, step, stored'),
             b.loaded = IF KeepsAnswers(step) THEN j.answer ELSE None
      PROVE  s.rows \subseteq Brings(b, p).rows
  <2>1. b.step = step /\ b.answer[p] = NULL  BY <1>4, NoneIsNull DEF IsSent
  <2>2. step \in {"checked", "verify"}  BY <2>1 DEF Brings
  <2>3. j.step = "read" /\ b.loaded = j.answer  BY <1>4, <2>2 DEF Resumed, KeepsAnswers
  <2>4. Brings(b, p) = j.answer[p] /\ Brings(j, p) = j.answer[p] /\ Catches(j)
    BY <2>1, <2>2, <2>3 DEF Brings, Catches
  <2>5. CASE s = tab.shown[p]  BY <1>1, <2>4, <2>5 DEF CatchesUp
  <2>6. CASE s.rows = {}  BY <2>6
  <2>7. CASE Replaces(k, p, s)
    <3>1. s = Row(j.answer[p])  BY <2>4, <2>7 DEF Replaces
    <3>2. s.rows = j.answer[p].rows  BY <3>1 DEF Row
    <3>3. QED  BY <2>4, <3>2
  <2>8. ~Joins(k, p, s)  BY <2>3 DEF Joins
  <2>9. QED  BY <2>5, <2>6, <2>7, <2>8, ShownOfWork
<1>5. QED  BY <1>2, <1>3, <1>4, JobGoesOn

LEMMA CatchesUpStep ==
  ASSUME Typed, Past, OneLoad, Held, Held', CurrentIsHeld, ShownPast, CatchesUp, StepOf
  PROVE  CatchesUp'
<1>1. mode' = mode  BY Around
<1>2. SUFFICES ASSUME NEW p \in Parts, ~QrPart(p), NEW k \in Jobs, tab'.held[Place(p)] = k, Catches(jobs'[k]),
                      Brings(jobs'[k], p) # NULL, Ok(Brings(jobs'[k], p)),
                      Brings(jobs'[k], p).by = tab'.shown[p].by
      PROVE  tab'.shown[p].rows \subseteq Brings(jobs'[k], p).rows
  <2>1. tab'.held \in [Parts -> Jobs \cup {NULL}] /\ \A p \in Parts : Place(p) \in Parts
    BY Around DEF Tab, Place, Parts
  <2>2. QED  BY <1>1, <2>1 DEF CatchesUp, Catches, Whole, Place, QrPart, Brings, Ok
<1>3. k # NULL /\ Place(p) \in Parts /\ (Place(p) = "main" \/ mode = "calendar")
  BY PanelAssumption DEF Place, Parts
<1>4. jobs'[k] # NULL
  <2>1. \A q \in Parts : tab'.held[q] # NULL => jobs'[tab'.held[q]] # NULL  BY DEF Held, HeldWell
  <2>2. QED  BY <1>2, <1>3, <2>1
<1>5. CASE Begins(k)
  <2>1. jobs'[k].answer = None /\ jobs'[k].loaded = None
    BY <1>5 DEF Begins, LoadsAgain, LoadBegins, RetriesClosures, Submitted, SubmitBegins, LogoutBegins,
                ClosuresBegin, IsBegun
  <2>2. QED  BY <1>2, <2>1, NoneIsNull DEF Brings
<1>6. CASE ~Begins(k)
  <2>1. tab.held[Place(p)] = k  BY <1>2, <1>3, <1>6, HeldOrBegins
  <2>2. CASE JobGoes(k)  BY <1>2, <1>4, <2>1, <2>2, CatchesUpGoes
  <2>3. CASE ~JobGoes(k)
    <3>1. tab'.shown[p] = tab.shown[p] \/ tab'.shown[p].rows = {}  BY <1>2, <2>1, <2>3, ShownOfWork
    <3>2. CASE Kept(k)
      <4>1. /\ jobs'[k].step = jobs[k].step /\ jobs'[k].part = jobs[k].part /\ jobs'[k].loaded = jobs[k].loaded
            /\ jobs'[k].answer = jobs[k].answer
        BY <3>2 DEF Kept, Alike
      <4>2. Catches(jobs[k]) /\ Brings(jobs[k], p) = Brings(jobs'[k], p)  BY <1>2, <4>1 DEF Catches, Whole, Brings
      <4>3. QED  BY <1>2, <1>3, <2>1, <3>1, <4>2 DEF CatchesUp
    <3>3. ASSUME NEW q \in Parts, NEW a \in Answer, Served(k, q, a)
          PROVE  tab'.shown[p].rows \subseteq Brings(jobs'[k], p).rows
      <4>1. tab' = tab  BY <3>3 DEF Served
      <4>2. QED  BY <1>2, <2>1, <3>3, <4>1, CatchesUpServed
    <3>4. QED  BY <1>4, <1>6, <2>3, <3>2, <3>3, JobCases
  <2>4. QED  BY <2>2, <2>3
<1>7. QED  BY <1>5, <1>6

-----------------------------------------------------------------------------
(* The inductive invariant about what stays shown *)

ShownInv ==
  /\ SessionInv /\ CurrentIsHeld
  /\ NeverAsked /\ MadeFromShown /\ AnswersPast /\ ShownPast /\ CatchesUp

LEMMA ShownInit == Init => ShownInv
<1>1. SUFFICES ASSUME Init PROVE ShownInv  OBVIOUS
<1>2. SessionInv  BY <1>1, SessionInit
<1>3. PICK first \in Jobs : /\ IsBegun(jobs[first], tab, "load", "main", "session", stored)
                            /\ \A k \in Jobs : k # first => jobs[k] = NULL
  BY <1>1, InitPanel
<1>4. \A k \in Jobs : jobs[k] # NULL => jobs[k].kind = "load" /\ jobs[k].answer = None /\ jobs[k].loaded = None
  BY <1>3 DEF IsBegun
<1>5. tab.held = None /\ \A p \in Parts : tab.shown[p] = Nothing  BY <1>1, InitPanel
<1>6. CurrentIsHeld /\ NeverAsked  BY <1>4 DEF CurrentIsHeld, NeverAsked
<1>7. \A p \in Parts : tab.held[p] = NULL /\ Place(p) \in Parts  BY <1>5, NoneIsNull DEF Place, Parts
<1>8. MadeFromShown /\ CatchesUp  BY <1>7 DEF MadeFromShown, CatchesUp
<1>9. AnswersPast  BY <1>4, NoneIsNull DEF AnswersPast, PastAnswers
<1>10. ShownPast  BY <1>5 DEF ShownPast, Nothing
<1>11. QED  BY <1>2, <1>6, <1>8, <1>9, <1>10 DEF ShownInv

LEMMA ShownStep == ShownInv /\ [Next]_vars => ShownInv'
<1>1. SUFFICES ASSUME ShownInv, [Next]_vars PROVE ShownInv'  OBVIOUS
<1>2. SessionInv' /\ StepOf  BY <1>1, SessionStep, StepCases DEF ShownInv, SessionInv
<1>3. /\ Typed /\ Past /\ OneLoad /\ Held /\ TokenGoesWithData /\ LoadedBetween /\ ServicesOfOwner
      /\ Typed' /\ OneLoad' /\ Held'
  BY <1>1, <1>2 DEF ShownInv, SessionInv
<1>4. CurrentIsHeld /\ NeverAsked /\ MadeFromShown /\ AnswersPast /\ ShownPast /\ CatchesUp
  BY <1>1 DEF ShownInv
<1>5. CurrentIsHeld' /\ NeverAsked' /\ MadeFromShown'
  BY <1>2, <1>3, <1>4, CurrentIsHeldStep, NeverAskedStep, MadeFromShownStep
<1>6. AnswersPast' /\ ShownPast' /\ CatchesUp'
  BY <1>2, <1>3, <1>4, AnswersPastStep, ShownPastStep, CatchesUpStep
<1>7. QED  BY <1>2, <1>5, <1>6 DEF ShownInv

(* Answers that come late never take away what the panel already showed of a *)
(* business: what replaces a part was told all of it by the session that is   *)
(* shown, and nothing else changed the part since; what joins it is of the    *)
(* same business. However requests overlap, are lost or come late, and        *)
(* whoever logs in meanwhile.                                                 *)
THEOREM NothingShownDisappears == Spec => NothingDisappears
<1> DEFINE Stay ==
      \A p \in Parts :
       /\ tab.view = "ready" /\ tab'.view = "ready" /\ tab'.attempt = tab.attempt
       /\ ~(mode = "whatsapp" /\ p = "side")
       /\ tab.shown[p].by # 0 /\ tab'.shown[p].by = tab.shown[p].by
       => tab.shown[p].rows \subseteq tab'.shown[p].rows
<1>1. ASSUME ShownInv, [Next]_vars PROVE Stay
  <2>1. /\ Typed /\ Past /\ OneLoad /\ Held /\ CurrentIsHeld /\ CatchesUp /\ StepOf
    BY <1>1, StepCases DEF ShownInv, SessionInv
  <2>2. SUFFICES ASSUME NEW p \in Parts, tab.view = "ready", tab'.view = "ready", ~QrPart(p),
                        tab.shown[p].by # 0, tab'.shown[p].by = tab.shown[p].by
                 PROVE  tab.shown[p].rows \subseteq tab'.shown[p].rows
    BY DEF QrPart
  <2>3. ~Cleared(p)  BY <2>2 DEF Cleared, Nothing
  <2>4. ASSUME NEW k \in Jobs, Replaces(k, p, tab'.shown[p]), tab.held[Place(p)] = k
        PROVE  tab.shown[p].rows \subseteq tab'.shown[p].rows
    <3>1. k # NULL /\ Catches(jobs[k])  BY <2>4, PanelAssumption DEF Replaces, Catches
    <3>2. LET a == Brings(jobs[k], p) IN a # NULL /\ Ok(a) /\ tab'.shown[p] = Row(a)
      BY <2>4 DEF Replaces
    <3>3. tab'.shown[p].by = Brings(jobs[k], p).by /\ tab'.shown[p].rows = Brings(jobs[k], p).rows
      BY <3>2 DEF Row
    <3>4. QED  BY <2>1, <2>2, <2>4, <3>1, <3>2, <3>3 DEF CatchesUp
  <2>5. ASSUME NEW k \in Jobs, Joins(k, p, tab'.shown[p])
        PROVE  tab.shown[p].rows \subseteq tab'.shown[p].rows
    BY <2>5 DEF Joins
  <2>6. QED  BY <2>1, <2>2, <2>3, <2>4, <2>5, WorkedOn
<1>2. ASSUME ShownInv, [Next]_vars PROVE [Stay]_vars  BY <1>1, <1>2
<1>3. Spec => []ShownInv
  BY ShownInit, ShownStep, PTL DEF Spec
<1>4. QED  BY <1>2, <1>3, PTL DEF Spec, NothingDisappears
=============================================================================
