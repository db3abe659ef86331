------------------------------- MODULE Agenda -------------------------------
(***************************************************************************)
(* The agenda dialogue of one customer with the agent: quotes that are     *)
(* prepared, presented in a reply, confirmed in a later message and saved  *)
(* as an appointment (PostgresWhatsAppAgenda and AgentToolSession of the   *)
(* message worker).                                                        *)
(*                                                                         *)
(* A session is one transaction. It holds the locks of the conversation,   *)
(* of the dialogue and of the business calendar, so while it lasts nothing *)
(* but the clock moves: messages, deliveries and edits of the panel come   *)
(* between sessions. Until it commits, `dialogue`, `appts` and `clients`   *)
(* are what it found, and `session` holds what it will write.              *)
(*                                                                         *)
(* The model calls the tools in any order. Tools that only read, preferences *)
(* for a resource, changes of service, partial names and the day asked for *)
(* are left out.                                                           *)
(***************************************************************************)
EXTENDS Naturals

CONSTANTS
  MaxMessage,   \* bound: messages of the customer
  MaxSlot,      \* bound: start times, in order
  Texts,        \* bound: what messages may say
  MaxEdits,     \* bound: slots that pass and edits of the panel or of other customers
  MaxCalls,     \* calls of tools in a session, 16 in the code
  Names,        \* names a message may give
  NULL

ASSUME AgendaAssumption ==
  /\ MaxMessage \in Nat /\ MaxSlot \in Nat \ {0} /\ MaxEdits \in Nat /\ MaxCalls \in Nat
  /\ Texts \subseteq {"yes", "other", "anonymous"} \cup Names
  /\ NULL \notin Nat \cup Names \cup {"names", "slot", "book", "change"}

Messages == 1..MaxMessage
Slots == 1..MaxSlot
Appts == 0..MaxMessage     \* 0 is the panel's; the session of message m creates m

VARIABLES
  text,        \* what each message says, as far as the guards tell
  turn,        \* each message and its reply
  presented,   \* what each reply presents
  passed,      \* the slots up to this one have started
  closed,      \* slots that are closed or taken by somebody else
  terms,       \* edition of the service's price and duration
  appts,       \* appointments of this customer
  clients,     \* clients registered so far
  holder,      \* the client this phone belongs to, 0 for none
  dialogue,    \* whatsapp_agenda_dialogues
  session,     \* the transaction in progress
  spent,       \* replies whose quote was saved
  edits

world == <<closed, terms, edits>>
saved == <<appts, clients, holder, dialogue, spent>>
vars == <<text, turn, presented, passed, world, saved, session>>

(* `anonymous`: no verified sender. A name: "me llamo ...". *)
Text == {"yes", "other", "anonymous"} \cup Names
Turn == {"absent", "pending", "superseded", "silent", "generated", "sending", "sent", "lost"}
Snapshot == [slot : Slots, terms : Nat, state : {"confirmed", "cancelled"}]
Core == [kind : {"book"}, ap : {NULL}, slot : Slots, terms : Nat, previous : {NULL}]
        \cup [kind : {"change"}, ap : Appts, slot : Slots, terms : Nat, previous : Snapshot]
Quote == [core : Core, names : Names \cup {NULL}, source : Messages, outbound : Messages \cup {NULL}]
ASSUME NullIsNoRecord == NULL \notin Core \cup Quote
Dialogue == [quote : Quote \cup {NULL}, awaitingNames : BOOLEAN,
             awaiting : {"names", "slot", NULL}, names : Names \cup {NULL},
             fields : Names \cup {NULL}, accepted : Quote \cup {NULL},
             reschedule : [ap : Appts, previous : Snapshot] \cup {NULL}]
Action == [op : {"book", "change", "cancel", "note"}, ap : Appts, slot : Slots,
           terms : Nat, shown : Messages \cup {NULL}, agreed : Messages \cup {NULL}]
Session == [source : Messages, draft : Dialogue, namesOnly : Quote \cup {NULL},
            staged : Action \cup {NULL}, calls : 0..MaxCalls]

Empty == [quote |-> NULL, awaitingNames |-> FALSE, awaiting |-> NULL, names |-> NULL,
          fields |-> NULL, accepted |-> NULL, reschedule |-> NULL]

TypeOK ==
  /\ text \in [Messages -> Text] /\ turn \in [Messages -> Turn]
  /\ presented \in [Messages -> Core \cup {NULL}]
  /\ passed \in 0..MaxSlot /\ closed \subseteq Slots /\ terms \in Nat
  /\ appts \in [Appts -> [now : Snapshot, client : Nat] \cup {NULL}]
  /\ clients \in Nat /\ holder \in 0..clients
  /\ dialogue \in Dialogue /\ session \in Session \cup {NULL}
  /\ spent \subseteq Messages /\ edits \in 0..MaxEdits

(* The customer either is a client with one appointment or is unknown. *)
Init ==
  /\ text = [m \in Messages |-> "other"] /\ turn = [m \in Messages |-> "absent"]
  /\ presented = [m \in Messages |-> NULL]
  /\ passed = 0 /\ closed = {} /\ terms = 1 /\ edits = 0
  /\ \/ /\ clients = 1 /\ holder = 1
        /\ appts = [a \in Appts |-> IF a # 0 THEN NULL
             ELSE [now |-> [slot |-> MaxSlot, terms |-> 1, state |-> "confirmed"], client |-> 1]]
     \/ clients = 0 /\ holder = 0 /\ appts = [a \in Appts |-> NULL]
  /\ dialogue = Empty /\ session = NULL /\ spent = {}

-----------------------------------------------------------------------------
(* What the guards look at *)

Arrived(m) == turn[m] # "absent"
Latest(m) == Arrived(m) /\ \A k \in Messages : k > m => ~Arrived(k)

(* currentGroup: the messages since the last one that was answered or left silent *)
Closes(k) == turn[k] \in {"silent", "sending", "sent", "lost"}
Group(m) == {k \in 1..m : \A j \in k..(m - 1) : ~Closes(j)}
Said(m) == {text[k] : k \in Group(m)} \cap Names

Owned(a) == appts[a] # NULL /\ appts[a].client = holder /\ holder # 0
Confirmed(a) == appts[a] # NULL /\ appts[a].now.state = "confirmed"

(* What the calendar offers to appointment a, NULL for a new one *)
Available(s, a) ==
  /\ s > passed /\ s \notin closed
  /\ \A b \in Appts \ {a} : Confirmed(b) => appts[b].now.slot # s

(* Terms a quote is checked against and an appointment saved with: a change *)
(* that keeps the service keeps the terms agreed on.                        *)
TermsFor(a) == IF a = NULL THEN terms ELSE appts[a].now.terms

Kind(q) == IF q = NULL THEN NULL ELSE q.core.kind
Delivered(q) == q.outbound # NULL /\ turn[q.outbound] = "sent"
(* Mutant: any acceptance that is still on record will do. *)
AcceptedSomething(d) == Kind(d.quote) = "book" /\ d.accepted # NULL
AcceptedMatches(d) == Kind(d.quote) = "book" /\ d.accepted = d.quote

-----------------------------------------------------------------------------
(* Around the sessions *)

Receive(m, t) ==
  /\ session = NULL
  /\ ~Arrived(m) /\ \A k \in 1..(m - 1) : Arrived(k)
  /\ text' = [text EXCEPT ![m] = t]
  /\ turn' = [k \in Messages |-> IF k = m THEN "pending"
                ELSE IF turn[k] \in {"pending", "generated"} THEN "superseded" ELSE turn[k]]
  /\ UNCHANGED <<presented, passed, world, saved, session>>

(* The manager claims a reply and closes it; `lost` stands for failed and unknown. *)
Deliver(m) ==
  /\ session = NULL
  /\ \/ turn[m] = "generated" /\ turn' = [turn EXCEPT ![m] = "sending"]
     \/ turn[m] = "sending" /\ \E r \in {"sent", "lost"} : turn' = [turn EXCEPT ![m] = r]
  /\ UNCHANGED <<text, presented, passed, world, saved, session>>

Change == edits < MaxEdits /\ edits' = edits + 1

SlotPasses ==
  /\ Change /\ passed < MaxSlot /\ passed' = passed + 1
  /\ UNCHANGED <<text, turn, presented, closed, terms, saved, session>>

Edit == Change /\ session = NULL
EditsCalendar ==
  /\ Edit
  /\ \/ terms' = terms + 1 /\ UNCHANGED closed
     \/ \E s \in Slots : closed' = (closed \ {s}) \cup ({s} \ closed) /\ UNCHANGED terms
  /\ UNCHANGED <<text, turn, presented, passed, saved, session>>

EditsAppointment(a) ==
  /\ Edit /\ Confirmed(a)
  /\ \/ appts' = [appts EXCEPT ![a].now.state = "cancelled"]
     \/ \E s \in Slots : Available(s, a) /\ passed < appts[a].now.slot
                         /\ appts' = [appts EXCEPT ![a].now.slot = s]
  /\ UNCHANGED <<text, turn, presented, passed, closed, terms, clients, holder, dialogue, spent, session>>

(* The panel gives the phone to another client, to a new one or to nobody. *)
EditsClients ==
  /\ Edit
  /\ \/ holder' \in 0..clients \ {holder} /\ UNCHANGED clients
     \/ holder = 0 /\ clients' = clients + 1 /\ holder' = clients'
  /\ UNCHANGED <<text, turn, presented, passed, closed, terms, appts, dialogue, spent, session>>

-----------------------------------------------------------------------------
(* A session *)

Open(m) ==
  /\ session = NULL /\ turn[m] = "pending" /\ Latest(m)
  /\ session' = [source |-> m, namesOnly |-> NULL, staged |-> NULL, calls |-> 0,
                 draft |-> IF text[m] = "anonymous" THEN Empty ELSE dialogue]
  /\ UNCHANGED <<text, turn, presented, passed, world, saved>>

(* A delivered quote of an earlier message may be accepted in any words. *)
Natural ==
  LET q == dialogue.quote IN
  /\ text[session.source] # "anonymous"
  /\ q # NULL /\ (dialogue.awaitingNames => Kind(q) = "book")
  /\ q.source # session.source /\ Delivered(q)
Retained == Natural /\ AcceptedMatches(dialogue)

InSession == session # NULL /\ session.calls < MaxCalls /\ UNCHANGED <<text, turn, presented, passed, world, saved>>
Tool == InSession /\ session.staged = NULL /\ text[session.source] # "anonymous"

(* The draft as a tool leaves it. Only collected names keep a quote good for *)
(* the acceptance that is about the one the session began with.              *)
Leaves(d, only) ==
  session' = [session EXCEPT !.draft = d, !.namesOnly = only, !.calls = @ + 1]
Keeps(d) == Leaves(d, NULL)
(* Mutant: the quote stays pending once it is saved. *)
StagesOnly(action) ==
  session' = [session EXCEPT !.namesOnly = NULL, !.calls = @ + 1, !.staged = action]
Stages(action) ==
  session' = [session EXCEPT !.draft = Empty, !.namesOnly = NULL, !.calls = @ + 1, !.staged = action]

(* A call that is refused leaves its attempt behind: after a staged action, *)
(* without a verified sender, over the limit, with a binding of another turn *)
Refused ==
  /\ InSession
  /\ \E only \in {NULL, session.namesOnly} :
       session' = [session EXCEPT !.calls = @ + 1, !.namesOnly = only]

ClearPending == Tool /\ Keeps(Empty)

(* rejectPreparation: no quote is left to confirm. *)
Rejected(d) == [d EXCEPT !.quote = NULL, !.awaitingNames = FALSE,
                         !.awaiting = IF @ = "names" THEN NULL ELSE @]
InvalidPreparation == Tool /\ Keeps(Rejected(session.draft))

PrepareBooking(s) ==
  LET d == session.draft  m == session.source
      context == d.reschedule = NULL /\ Kind(d.quote) # "change"
      names == IF holder # 0 THEN NULL ELSE IF text[m] \in Names THEN text[m]
               ELSE IF context THEN d.names ELSE NULL
      core == [kind |-> "book", ap |-> NULL, slot |-> s, terms |-> terms, previous |-> NULL]
  IN /\ Tool
     /\ \/ ~Available(s, NULL) /\ Keeps([Rejected(d) EXCEPT !.awaiting = "slot"])
        \/ /\ Available(s, NULL) /\ Kind(d.quote) = "book" /\ context
           /\ d.quote.core = core /\ d.quote.names = names
           /\ Keeps(d)
        \/ /\ Available(s, NULL)
           /\ (Kind(d.quote) = "book" /\ context) => (d.quote.core # core \/ d.quote.names # names)
           /\ LET missing == holder = 0 /\ names = NULL IN
              Keeps([Empty EXCEPT !.names = names, !.awaitingNames = missing,
                       !.fields = IF names = NULL /\ context THEN d.fields ELSE names,
                       !.awaiting = IF missing THEN "names" ELSE NULL,
                       !.quote = [core |-> core, names |-> names, source |-> m, outbound |-> NULL]])

PrepareChange(a, s) ==
  LET d == session.draft
      now == appts[a].now
      bound == [ap |-> a, previous |-> now]
      core == [kind |-> "change", ap |-> a, slot |-> s, terms |-> now.terms, previous |-> now]
      pending == Kind(d.quote) = "change"
      otherTarget == (pending /\ d.quote.core.ap # a) \/ (d.reschedule # NULL /\ d.reschedule.ap # a)
      outdated == (pending /\ d.quote.core.previous # now) \/ (d.reschedule # NULL /\ d.reschedule.previous # now)
  IN /\ Tool /\ Owned(a) /\ Confirmed(a) /\ passed < now.slot
     /\ \/ otherTarget /\ Keeps(Rejected(d))
        \/ ~otherTarget /\ outdated /\ Keeps([Rejected(d) EXCEPT !.reschedule = NULL])
        \/ /\ ~otherTarget /\ ~outdated /\ ~Available(s, a)
           /\ Keeps([Rejected(d) EXCEPT !.awaiting = "slot", !.reschedule = bound])
        \/ ~otherTarget /\ ~outdated /\ Available(s, a) /\ s = now.slot /\ Keeps(Empty)
        \/ /\ ~otherTarget /\ ~outdated /\ Available(s, a) /\ s # now.slot
           /\ IF pending /\ d.quote.core = core THEN Keeps(d)
              ELSE Keeps([Empty EXCEPT !.reschedule = bound,
                            !.quote = [core |-> core, names |-> NULL,
                                       source |-> session.source, outbound |-> NULL]])

(* Mutant: the appointment is only looked up by its id. *)
CurrentById(c) == c.kind = "change" => Confirmed(c.ap)

(* A change is about the appointment as it was when the change was prepared. *)
Current(c) == c.kind = "change" => appts[c.ap].now = c.previous

(* The guarded branch of respond: d's quote is accepted, by a literal yes, in *)
(* words of the customer, or by an acceptance of an earlier message.          *)
Accept(d, by, defer) ==
  LET q == d.quote  c == q.core  natural == by = "natural"
      due == Delivered(q) /\ q.source # session.source
      mine == c.kind = "change" => Owned(c.ap)
      offered == Available(c.slot, c.ap)
      nameless == c.kind = "book" /\ holder = 0 /\ q.names = NULL
      deferred == c.kind = "book" /\ natural /\ defer
      accepted == IF natural THEN [d EXCEPT !.accepted = q] ELSE d
  IN \/ ~due /\ Keeps(d)
     \/ due /\ ~mine /\ Keeps(session.draft)
     \/ due /\ mine /\ ~Current(c) /\ Keeps(Empty)
     \/ /\ due /\ mine /\ Current(c)
        /\ \/ /\ ~offered
              /\ Keeps(IF c.kind = "change" THEN Empty
                       ELSE [d EXCEPT !.quote = NULL, !.awaitingNames = FALSE,
                                      !.awaiting = "slot", !.names = q.names])
           \/ /\ offered /\ TermsFor(c.ap) # c.terms
              /\ Keeps([d EXCEPT !.accepted = NULL, !.quote.core.terms = TermsFor(c.ap),
                                 !.quote.source = session.source, !.quote.outbound = NULL])
           \/ /\ offered /\ TermsFor(c.ap) = c.terms
              /\ \/ nameless /\ Keeps([accepted EXCEPT !.awaitingNames = TRUE])
                 \/ ~nameless /\ deferred /\ Keeps(accepted)
                 \/ /\ ~nameless /\ ~deferred
                    /\ Stages([op |-> c.kind, ap |-> IF c.kind = "change" THEN c.ap ELSE session.source,
                               slot |-> c.slot, terms |-> TermsFor(c.ap), shown |-> q.outbound,
                               agreed |-> IF by = "retained" THEN d.accepted.outbound ELSE q.outbound])

(* confirm_quote and finish_accepted_booking: a literal name answers a     *)
(* question for names; otherwise a literal yes or a retained acceptance.   *)
Respond(by) ==
  LET d == session.draft  t == text[session.source]  asked == d.quote # NULL /\ d.awaitingNames
      accepting == by = "retained" \/ t = "yes"
  IN \/ asked /\ t \notin Names /\ Keeps(d)
     \/ /\ asked /\ t \in Names
        /\ Keeps([d EXCEPT !.names = t, !.fields = t, !.awaitingNames = FALSE, !.awaiting = NULL,
                    !.quote.names = t, !.quote.source = session.source, !.quote.outbound = NULL])
     \/ ~asked /\ d.quote # NULL /\ accepting /\ Accept(d, by, FALSE)
     \/ ~asked /\ (d.quote = NULL \/ ~accepting) /\ Keeps(d)

ConfirmQuote == Tool /\ Respond("yes")
FinishAccepted ==
  /\ Tool /\ Retained
  /\ session.draft.quote = dialogue.quote /\ AcceptedMatches(session.draft)
  /\ Respond("retained")

(* confirm_quote_naturally: the quote the session began with, or that quote *)
(* with nothing but names added, which gets its provenance back.            *)
ConfirmNaturally(defer) ==
  LET d == session.draft  q == dialogue.quote  named == session.namesOnly # NULL /\ d.quote = session.namesOnly
  IN /\ Tool /\ Natural /\ d.quote # NULL
     /\ named \/ d.quote = q
     /\ Accept(IF named THEN [d EXCEPT !.quote.source = q.source, !.quote.outbound = q.outbound] ELSE d,
               "natural", defer)

(* collect_booking_names *)
NamesOnly(before, d) ==
  LET q == dialogue.quote IN
  IF /\ Kind(q) = "book" /\ Kind(d.quote) = "book" /\ before.quote \in {q, session.namesOnly}
     /\ d.quote.core = q.core
     /\ dialogue.fields \in {NULL, d.fields} /\ before.fields \in {NULL, d.fields}
  THEN d.quote ELSE NULL

CollectNames(v, defer) ==
  LET d == session.draft
      previous == IF d.fields # NULL THEN d.fields ELSE d.names
      accepted == AcceptedMatches(d) /\ previous = NULL
      base == [d EXCEPT !.names = v, !.fields = v, !.accepted = IF accepted THEN @ ELSE NULL]
      kept == IF Kind(d.quote) # "book" THEN base
              ELSE [base EXCEPT !.awaitingNames = FALSE, !.awaiting = NULL, !.quote.names = v,
                      !.quote.source = IF accepted THEN @ ELSE session.source,
                      !.quote.outbound = IF accepted THEN @ ELSE NULL]
  IN /\ Tool /\ v \in Said(session.source)
     /\ holder = 0 /\ d.reschedule = NULL /\ (Kind(d.quote) = "book" \/ d.awaiting # NULL)
     /\ \/ v = previous /\ Leaves(d, session.namesOnly)
        \/ v # previous /\ ~accepted /\ Leaves(kept, NamesOnly(d, kept))
        \/ /\ v # previous /\ accepted /\ defer
           /\ Leaves([kept EXCEPT !.accepted = kept.quote], NamesOnly(d, kept))
        \* an accepted quote is delivered and older: nothing of it is left afterwards
        \/ v # previous /\ accepted /\ ~defer /\ Accept(kept, "retained", FALSE)

(* An owned appointment, inspected in this session, is cancelled or annotated. *)
ChangeState(a, op) ==
  /\ Tool /\ Owned(a) /\ Confirmed(a)
  /\ Stages([op |-> op, ap |-> a, slot |-> appts[a].now.slot, terms |-> appts[a].now.terms,
             shown |-> NULL, agreed |-> NULL])

-----------------------------------------------------------------------------
(* The end of a session *)

(* Mutant: some quote is pending and some quote was issued. *)
PresentsAny(ref) == ref = NULL \/ session.draft.quote # NULL

(* The answer refers to the quote it presents: one issued in this session, *)
(* which has to be the one that is pending.                                *)
Presents(ref) == ref = NULL \/ (session.draft.quote # NULL /\ ref = session.draft.quote)

Saves(staged) ==
  LET s == staged  m == session.source
      client == IF s.op = "book" /\ holder = 0 THEN clients + 1 ELSE holder
      now == [slot |-> s.slot, terms |-> s.terms, state |-> IF s.op = "cancel" THEN "cancelled" ELSE "confirmed"]
  IN /\ appts' = [appts EXCEPT ![s.ap] =
                   [now |-> now, client |-> IF s.op = "book" THEN client ELSE appts[s.ap].client]]
     /\ holder' = client
     /\ clients' = IF client > clients THEN client ELSE clients
     /\ spent' = spent \cup ({s.shown} \ {NULL})

Commit(ref) ==
  LET m == session.source  d == session.draft IN
  /\ session # NULL /\ Presents(ref)
  /\ turn' = [turn EXCEPT ![m] = "generated"]
  /\ presented' = [presented EXCEPT ![m] = IF ref = NULL THEN NULL ELSE ref.core]
  /\ dialogue' = IF text[m] = "anonymous" THEN dialogue
                 ELSE IF ref = NULL THEN d
                 ELSE [d EXCEPT !.quote.outbound = m, !.quote.source = m]
  /\ IF session.staged = NULL THEN UNCHANGED <<appts, clients, holder, spent>> ELSE Saves(session.staged)
  /\ session' = NULL
  /\ UNCHANGED <<text, passed, world>>

(* An answer with no text ends the turn, if no tool was tried. *)
Silent ==
  /\ session # NULL /\ session.calls = 0
  /\ turn' = [turn EXCEPT ![session.source] = "silent"]
  /\ session' = NULL
  /\ UNCHANGED <<text, presented, passed, world, saved>>

(* A timeout, a limit, a wrong answer, a failed call or a crash: the message *)
(* stays pending and is taken up again.                                      *)
Rollback ==
  /\ session # NULL /\ session' = NULL
  /\ UNCHANGED <<text, turn, presented, passed, world, saved>>

References == {NULL, dialogue.quote, session.draft.quote}

Next ==
  \/ \E m \in Messages : (\E t \in Texts : Receive(m, t)) \/ Deliver(m) \/ Open(m)
  \/ SlotPasses \/ EditsCalendar \/ EditsClients
  \/ \E a \in Appts : EditsAppointment(a) \/ (\E op \in {"cancel", "note"} : ChangeState(a, op))
                      \/ (\E s \in Slots : PrepareChange(a, s))
  \/ Refused \/ ClearPending \/ InvalidPreparation \/ (\E s \in Slots : PrepareBooking(s))
  \/ ConfirmQuote \/ FinishAccepted
  \/ \E defer \in BOOLEAN : ConfirmNaturally(defer) \/ (\E v \in Names : CollectNames(v, defer))
  \/ Silent \/ Rollback \/ (session # NULL /\ \E ref \in References : Commit(ref))

Spec == Init /\ [][Next]_vars

-----------------------------------------------------------------------------
(* Properties *)

(* What a yes can confirm is the last thing the customer was shown: a quote  *)
(* that says in which reply it went out is the one presented there, and no   *)
(* later reply presents another.                                             *)
DeliveredIsPresented ==
  LET q == dialogue.quote IN
  q # NULL /\ q.outbound # NULL =>
    /\ presented[q.outbound] = q.core
    /\ \A k \in Messages : k > q.outbound => presented[k] = NULL

Structural == session # NULL /\ session.staged # NULL /\ session.staged.op \in {"book", "change"}

(* The agent saves only what an earlier reply, which was delivered, presented: *)
(* the slot, the terms, and for a change the appointment as it still is.       *)
SavedAsPresented ==
  Structural =>
    LET s == session.staged  c == presented[s.shown] IN
    /\ s.shown \in 1..(session.source - 1) /\ turn[s.shown] = "sent"
    /\ c # NULL /\ c.kind = s.op /\ c.slot = s.slot /\ c.terms = s.terms
    /\ s.op = "change" => c.ap = s.ap /\ c.previous = appts[s.ap].now /\ Owned(s.ap)

(* An acceptance kept from an earlier message or call is used for the very *)
(* reply it was given for, not for a quote that was presented anew since.   *)
AcceptanceIsForThisQuote == Structural => session.staged.agreed = session.staged.shown

(* One presentation is good for one appointment or one change, however often *)
(* it is confirmed and whatever became of what was saved.                    *)
OneSavePerQuote == Structural => session.staged.shown \notin spent
=============================================================================
