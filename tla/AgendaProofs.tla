---------------------------- MODULE AgendaProofs ----------------------------
(***************************************************************************)
(* For any number of messages, slots, names and edits: the types, and that *)
(* the agent saves only what it presented, once, and for the very reply    *)
(* that was accepted.                                                      *)
(*                                                                         *)
(* The invariant says where quotes come from. A quote that names the reply *)
(* it went out in is the one presented there, nothing was presented later  *)
(* and nothing was saved from it (Issued). This holds of the dialogue and  *)
(* of a session's draft; a tool either drops the draft's quote, issues one *)
(* that names no reply, or changes the names of the one that is there.     *)
(***************************************************************************)
EXTENDS Agenda, TLAPS

Issued(q) ==
  q # NULL /\ q.outbound # NULL =>
    /\ presented[q.outbound] = q.core /\ q.outbound \notin spent
    /\ \A k \in Messages : k > q.outbound => presented[k] = NULL

PresentedIsPast == \A k \in Messages : presented[k] # NULL => turn[k] \notin {"absent", "pending"}
SpentIsPresented == \A k \in spent : presented[k] # NULL
SessionIsLatest == session # NULL => turn[session.source] = "pending" /\ Latest(session.source)

(* The quote collected names were added to is the dialogue's. *)
OfDialogue(only) ==
  only # NULL => only \in Quote /\ dialogue.quote # NULL /\ only.core = dialogue.quote.core

(* What a session may stage: an edit of the state, or what was presented. *)
Staged(s, m) ==
  IF s.op \in {"book", "change"}
  THEN /\ s.shown \in 1..(m - 1) /\ turn[s.shown] = "sent"
       /\ presented[s.shown] # NULL /\ presented[s.shown].kind = s.op
       /\ presented[s.shown].slot = s.slot /\ presented[s.shown].terms = s.terms
       /\ s.op = "change" => /\ presented[s.shown].ap = s.ap
                             /\ presented[s.shown].previous = appts[s.ap].now
                             /\ Owned(s.ap)
       /\ s.agreed = s.shown /\ s.shown \notin spent
  ELSE s.shown = NULL /\ Owned(s.ap)

SessionOK ==
  session # NULL =>
    /\ Issued(session.draft.quote) /\ OfDialogue(session.namesOnly)
    /\ text[session.source] = "anonymous" => session.draft = Empty /\ session.staged = NULL
    /\ session.staged # NULL => session.draft = Empty /\ Staged(session.staged, session.source)

IInv ==
  /\ TypeOK /\ Issued(dialogue.quote) /\ PresentedIsPast /\ SpentIsPresented
  /\ SessionIsLatest /\ SessionOK

-----------------------------------------------------------------------------
(* Types *)

LEMMA EmptyType == Empty \in Dialogue
  BY DEF Empty, Dialogue

(* The parts of a quote *)
LEMMA QuoteParts ==
  ASSUME NEW q \in Quote
  PROVE  /\ q.core \in Core /\ q.names \in Names \cup {NULL} /\ q.source \in Messages
         /\ q.outbound \in Messages \cup {NULL}
  BY DEF Quote

LEMMA CoreParts ==
  ASSUME NEW c \in Core
  PROVE  /\ c.kind \in {"book", "change"} /\ c.slot \in Slots /\ c.terms \in Nat
         /\ c.kind = "book" => c.ap = NULL /\ c.previous = NULL
         /\ c.kind = "change" => c.ap \in Appts /\ c.previous \in Snapshot
  BY DEF Core

LEMMA DialogueParts ==
  ASSUME NEW d \in Dialogue
  PROVE  /\ d.quote \in Quote \cup {NULL} /\ d.awaitingNames \in BOOLEAN
         /\ d.awaiting \in {"names", "slot", NULL} /\ d.names \in Names \cup {NULL}
         /\ d.fields \in Names \cup {NULL} /\ d.accepted \in Quote \cup {NULL}
         /\ d.reschedule \in [ap : Appts, previous : Snapshot] \cup {NULL}
  BY DEF Dialogue

LEMMA SessionParts ==
  ASSUME TypeOK, session # NULL
  PROVE  /\ session \in Session /\ session.source \in Messages /\ session.draft \in Dialogue
         /\ session.namesOnly \in Quote \cup {NULL} /\ session.staged \in Action \cup {NULL}
         /\ session.calls \in 0..MaxCalls
  BY DEF TypeOK, Session

LEMMA MessagesAreAppts == Messages \subseteq Appts
  BY AgendaAssumption DEF Messages, Appts

(* A booking or a change is about a quote that exists. *)
LEMMA KindMeansQuote ==
  ASSUME NEW q, Kind(q) \in {"book", "change"}
  PROVE  q # NULL
  BY AgendaAssumption DEF Kind

-----------------------------------------------------------------------------
(* Steps that only change the session *)

Rest == <<text, turn, presented, passed, world, saved>>

LEMMA LeavesStep ==
  ASSUME IInv, session # NULL, session.staged = NULL, session.calls < MaxCalls, UNCHANGED Rest,
         text[session.source] # "anonymous",
         NEW d \in Dialogue, NEW only, Issued(d.quote), OfDialogue(only), Leaves(d, only)
  PROVE  IInv'
<1>1. session \in Session /\ session.calls \in 0..MaxCalls
  BY SessionParts DEF IInv
<1>2. only \in Quote \cup {NULL}
  BY DEF OfDialogue
<1>3. /\ session' \in Session /\ session'.source = session.source /\ session'.draft = d
      /\ session'.namesOnly = only /\ session'.staged = NULL
  <2>1. session.calls + 1 \in 0..MaxCalls
    BY <1>1, AgendaAssumption
  <2>2. session' = [session EXCEPT !.draft = d, !.namesOnly = only, !.calls = session.calls + 1]
    BY DEF Leaves
  <2> QED
    BY <2>1, <2>2, <1>1, <1>2 DEF Session
<1>4. TypeOK'
  BY <1>3 DEF IInv, TypeOK, Rest, world, saved
<1>5. Issued(dialogue.quote)' /\ PresentedIsPast' /\ SpentIsPresented'
  BY DEF IInv, Issued, PresentedIsPast, SpentIsPresented, Rest, world, saved
<1>6. SessionIsLatest'
  BY <1>3 DEF IInv, SessionIsLatest, Latest, Arrived, Rest, world, saved
<1>7. Issued(session.draft.quote)' /\ OfDialogue(session.namesOnly)'
  BY <1>3 DEF Issued, OfDialogue, Rest, world, saved
<1>8. SessionOK'
  BY <1>3, <1>7 DEF SessionOK, Rest, world, saved
<1> QED
  BY <1>4, <1>5, <1>6, <1>8 DEF IInv

LEMMA StagesStep ==
  ASSUME IInv, session # NULL, session.staged = NULL, session.calls < MaxCalls, UNCHANGED Rest,
         text[session.source] # "anonymous",
         NEW a \in Action, Staged(a, session.source), Stages(a)
  PROVE  IInv'
<1>1. session \in Session /\ session.calls \in 0..MaxCalls
  BY SessionParts DEF IInv
<1>2. /\ session' \in Session /\ session'.source = session.source /\ session'.draft = Empty
      /\ session'.namesOnly = NULL /\ session'.staged = a
  <2>1. session.calls + 1 \in 0..MaxCalls
    BY <1>1, AgendaAssumption
  <2>2. session' = [session EXCEPT !.draft = Empty, !.namesOnly = NULL, !.calls = session.calls + 1,
                                   !.staged = a]
    BY DEF Stages
  <2> QED
    BY <2>1, <2>2, <1>1, EmptyType DEF Session
<1>3. TypeOK'
  BY <1>2 DEF IInv, TypeOK, Rest, world, saved
<1>4. Issued(dialogue.quote)' /\ PresentedIsPast' /\ SpentIsPresented'
  BY DEF IInv, Issued, PresentedIsPast, SpentIsPresented, Rest, world, saved
<1>5. SessionIsLatest'
  BY <1>2 DEF IInv, SessionIsLatest, Latest, Arrived, Rest, world, saved
<1>6. Issued(session.draft.quote)' /\ OfDialogue(session.namesOnly)'
  BY <1>2 DEF Issued, OfDialogue, Empty
<1>7. Staged(session.staged, session.source)'
  BY <1>2 DEF Staged, Owned, Rest, world, saved
<1>8. SessionOK'
  BY <1>2, <1>6, <1>7 DEF SessionOK, Rest, world, saved
<1> QED
  BY <1>3, <1>4, <1>5, <1>8 DEF IInv

-----------------------------------------------------------------------------
(* What is accepted *)

LEMMA ApptParts ==
  ASSUME TypeOK, NEW a \in Appts, appts[a] # NULL
  PROVE  /\ appts[a].now \in Snapshot /\ appts[a].client \in Nat
         /\ appts[a].now.slot \in Slots /\ appts[a].now.terms \in Nat
  BY DEF TypeOK, Snapshot

(* A delivered reply to another message answers an earlier one. *)
LEMMA DeliveredIsEarlier ==
  ASSUME IInv, session # NULL, NEW q \in Quote, Delivered(q)
  PROVE  q.outbound \in 1..(session.source - 1) /\ turn[q.outbound] = "sent"
<1>1. q.outbound \in Messages /\ turn[q.outbound] = "sent"
  BY QuoteParts DEF Delivered
<1>2. session.source \in Messages /\ turn[session.source] = "pending" /\ Latest(session.source)
  BY SessionParts DEF IInv, SessionIsLatest
<1>3. ~(q.outbound > session.source)
  BY <1>1, <1>2 DEF Latest, Arrived
<1>4. q.outbound # session.source
  BY <1>1, <1>2
<1> QED
  BY <1>1, <1>2, <1>3, <1>4, AgendaAssumption DEF Messages

(* A quote re-priced in a session names no reply. *)
LEMMA RepricedType ==
  ASSUME NEW d \in Dialogue, d.quote # NULL, NEW t \in Nat, NEW m \in Messages
  PROVE  LET e == [d EXCEPT !.accepted = NULL, !.quote.core.terms = t,
                            !.quote.source = m, !.quote.outbound = NULL]
         IN  e \in Dialogue /\ e.quote.outbound = NULL
<1> DEFINE q == d.quote
           c == [q.core EXCEPT !.terms = t]
           r == [q EXCEPT !.core = c, !.source = m, !.outbound = NULL]
           e == [d EXCEPT !.accepted = NULL, !.quote = r]
<1>1. q \in Quote /\ q.core \in Core
  BY DialogueParts, QuoteParts
<1>2. c \in Core
  BY <1>1 DEF Core
<1>3. r \in Quote /\ r.outbound = NULL
  <2> HIDE DEF c, q
  <2> QED  BY <1>1, <1>2 DEF Quote
<1>4. e \in Dialogue /\ e.quote = r
  <2> HIDE DEF r, q
  <2> QED  BY <1>3 DEF Dialogue
<1>5. e = [d EXCEPT !.accepted = NULL, !.quote.core.terms = t,
                    !.quote.source = m, !.quote.outbound = NULL]
  <2>1. [q EXCEPT !.core.terms = t, !.source = m, !.outbound = NULL] = r
    BY <1>1 DEF Quote
  <2> QED  BY <2>1 DEF Dialogue
<1> QED
  BY <1>3, <1>4, <1>5

LEMMA AcceptedStep ==
  ASSUME IInv, Tool, NEW d \in Dialogue, d.quote # NULL, Issued(d.quote), NEW by, NEW defer,
         by = "retained" => d.accepted.outbound = d.quote.outbound,
         Accept(d, by, defer)
  PROVE  IInv'
<1> DEFINE q == d.quote
           c == q.core
           accepted == IF by = "natural" THEN [d EXCEPT !.accepted = q] ELSE d
           action == [op |-> c.kind, ap |-> IF c.kind = "change" THEN c.ap ELSE session.source,
                      slot |-> c.slot, terms |-> TermsFor(c.ap), shown |-> q.outbound,
                      agreed |-> IF by = "retained" THEN d.accepted.outbound ELSE q.outbound]
<1>1. /\ session # NULL /\ session.staged = NULL /\ session.calls < MaxCalls /\ UNCHANGED Rest
      /\ text[session.source] # "anonymous" /\ TypeOK
  BY DEF Tool, InSession, Rest, IInv
<1>2. q \in Quote /\ c \in Core
  BY DialogueParts, QuoteParts
<1>3. session.source \in Messages /\ session.draft \in Dialogue
  BY <1>1, SessionParts
<1>4. OfDialogue(NULL)
  BY DEF OfDialogue
<1>5. accepted \in Dialogue /\ accepted.quote = q
  BY <1>2 DEF Dialogue
<1>6. CASE \E e \in Dialogue : Issued(e.quote) /\ Keeps(e)
  BY <1>6, <1>1, <1>4, LeavesStep DEF Keeps
<1>7. CASE Keeps(d)
  BY <1>7, <1>6
<1>8. CASE Keeps(session.draft)
  <2>1. Issued(session.draft.quote)
    BY <1>1 DEF IInv, SessionOK
  <2> QED
    BY <2>1, <1>8, <1>3, <1>6
<1>9. CASE Keeps(Empty)
  <2>1. Issued(Empty.quote)
    BY DEF Empty, Issued
  <2> QED
    BY <2>1, <1>9, EmptyType, <1>6
<1>10. CASE Keeps([d EXCEPT !.quote = NULL, !.awaitingNames = FALSE, !.awaiting = "slot", !.names = q.names])
  <2>1. q.names \in Names \cup {NULL}
    BY <1>2, QuoteParts
  <2>2. [d EXCEPT !.quote = NULL, !.awaitingNames = FALSE, !.awaiting = "slot", !.names = q.names] \in Dialogue
    BY <2>1 DEF Dialogue
  <2>3. [d EXCEPT !.quote = NULL, !.awaitingNames = FALSE, !.awaiting = "slot", !.names = q.names].quote = NULL
    BY DEF Dialogue
  <2> QED
    BY <2>2, <2>3, <1>10, <1>6 DEF Issued
<1>11. ASSUME c.kind = "change" => Owned(c.ap)
       PROVE  TermsFor(c.ap) \in Nat
  <2>1. CASE c.kind = "book"
    BY <2>1, <1>1, <1>2, CoreParts DEF TermsFor, TypeOK
  <2>2. CASE c.kind = "change"
    <3>1. c.ap \in Appts /\ appts[c.ap] # NULL
      BY <2>2, <1>2, <1>11, CoreParts DEF Owned
    <3>2. c.ap # NULL
      BY <3>1, AgendaAssumption DEF Appts
    <3> QED
      BY <3>1, <3>2, <1>1, ApptParts DEF TermsFor
  <2> QED
    BY <2>1, <2>2, <1>2, CoreParts
<1>12. CASE /\ c.kind = "change" => Owned(c.ap)
            /\ Keeps([d EXCEPT !.accepted = NULL, !.quote.core.terms = TermsFor(c.ap),
                               !.quote.source = session.source, !.quote.outbound = NULL])
  <2>1. TermsFor(c.ap) \in Nat
    BY <1>11, <1>12
  <2> DEFINE e == [d EXCEPT !.accepted = NULL, !.quote.core.terms = TermsFor(c.ap),
                            !.quote.source = session.source, !.quote.outbound = NULL]
  <2>2. e \in Dialogue /\ e.quote.outbound = NULL
    BY <2>1, <1>3, RepricedType
  <2>3. Issued(e.quote)
    BY <2>2 DEF Issued
  <2>4. Keeps(e)
    BY <1>12
  <2> HIDE DEF e
  <2> QED
    BY <2>2, <2>3, <2>4, <1>6
<1>13. CASE Keeps(accepted) \/ Keeps([accepted EXCEPT !.awaitingNames = TRUE])
  <2> HIDE DEF accepted, q
  <2>1. /\ [accepted EXCEPT !.awaitingNames = TRUE] \in Dialogue
        /\ [accepted EXCEPT !.awaitingNames = TRUE].quote = q
    BY <1>5 DEF Dialogue
  <2>2. Issued(q)
    BY DEF q
  <2> QED
    BY <2>1, <2>2, <1>13, <1>5, <1>6
<1>14. CASE /\ Delivered(q) /\ (c.kind = "change" => Owned(c.ap)) /\ Current(c)
            /\ TermsFor(c.ap) = c.terms /\ Stages(action)
  <2>1. q.outbound \in 1..(session.source - 1) /\ turn[q.outbound] = "sent"
    BY <1>14, <1>1, <1>2, DeliveredIsEarlier
  <2>2. /\ q.outbound # NULL /\ presented[q.outbound] = c /\ q.outbound \notin spent
        /\ q.outbound \in Messages
    BY <1>14, <1>2, QuoteParts DEF Issued, Delivered
  <2>3. c # NULL
    BY <1>2, NullIsNoRecord
  <2>4. /\ c.kind \in {"book", "change"} /\ c.slot \in Slots /\ c.terms \in Nat
        /\ c.kind = "change" => c.ap \in Appts
    BY <1>2, CoreParts
  <2>5. action.agreed = q.outbound
    OBVIOUS
  <2>6. action \in Action
    BY <2>2, <2>4, <2>5, <1>3, <1>14, MessagesAreAppts DEF Action
  <2>7. Staged(action, session.source)
    <3>1. c.kind = "change" => appts[c.ap].now = c.previous /\ Owned(c.ap)
      BY <1>14 DEF Current
    <3> HIDE DEF c, q
    <3>2. action.op \in {"book", "change"} /\ action.shown = q.outbound /\ action.agreed = action.shown
      BY <2>4, <2>5
    <3>3. /\ presented[action.shown].kind = action.op /\ presented[action.shown].slot = action.slot
          /\ presented[action.shown].terms = action.terms /\ presented[action.shown] # NULL
      BY <2>2, <2>3, <1>14
    <3>4. action.op = "change" => /\ presented[action.shown].ap = action.ap
                                  /\ presented[action.shown].previous = appts[action.ap].now
                                  /\ Owned(action.ap)
      BY <3>1, <2>2
    <3> HIDE DEF action
    <3> QED
      BY <3>2, <3>3, <3>4, <2>1, <2>2 DEF Staged
  <2> HIDE DEF action
  <2> QED
    BY <2>6, <2>7, <1>14, <1>1, StagesStep
<1> QED
  BY <1>7, <1>8, <1>9, <1>10, <1>12, <1>13, <1>14 DEF Accept

-----------------------------------------------------------------------------
(* Tools *)

LEMMA KeepsStep ==
  ASSUME IInv, Tool, NEW d \in Dialogue, Issued(d.quote), NEW only, OfDialogue(only), Leaves(d, only)
  PROVE  IInv'
  BY LeavesStep DEF Tool, InSession, Rest

LEMMA InTool ==
  ASSUME IInv, Tool
  PROVE  /\ TypeOK /\ session # NULL /\ session.source \in Messages /\ session.draft \in Dialogue
         /\ Issued(session.draft.quote) /\ OfDialogue(NULL) /\ OfDialogue(session.namesOnly)
         /\ text[session.source] \in Text
  BY SessionParts DEF Tool, InSession, IInv, SessionOK, OfDialogue, TypeOK

LEMMA RefusedStep ==
  ASSUME IInv, Refused
  PROVE  IInv'
<1>1. session # NULL /\ session.calls < MaxCalls /\ UNCHANGED Rest
  BY DEF Refused, InSession, Rest
<1>2. PICK only \in {NULL, session.namesOnly} :
        session' = [session EXCEPT !.calls = session.calls + 1, !.namesOnly = only]
  BY DEF Refused
<1>3. session \in Session /\ session.calls + 1 \in 0..MaxCalls /\ only \in Quote \cup {NULL}
  BY <1>1, <1>2, SessionParts, AgendaAssumption DEF IInv
<1>4. /\ session' \in Session /\ session'.source = session.source /\ session'.draft = session.draft
      /\ session'.namesOnly = only /\ session'.staged = session.staged
  BY <1>2, <1>3 DEF Session
<1>5. TypeOK'
  BY <1>1, <1>4 DEF IInv, TypeOK, Rest, world, saved
<1>6. Issued(dialogue.quote)' /\ PresentedIsPast' /\ SpentIsPresented'
  BY <1>1 DEF IInv, Issued, PresentedIsPast, SpentIsPresented, Rest, world, saved
<1>7. SessionIsLatest'
  BY <1>1, <1>4 DEF IInv, SessionIsLatest, Latest, Arrived, Rest, world, saved
<1>8. Issued(session.draft.quote)' /\ OfDialogue(session.namesOnly)'
  BY <1>1, <1>2, <1>4 DEF IInv, SessionOK, Issued, OfDialogue, Rest, world, saved
<1>9. session'.staged # NULL => Staged(session.staged, session.source)'
  BY <1>1, <1>4 DEF IInv, SessionOK, Staged, Owned, Rest, world, saved
<1>10. SessionOK'
  BY <1>1, <1>4, <1>8, <1>9 DEF IInv, SessionOK, Rest, world, saved
<1> QED
  BY <1>5, <1>6, <1>7, <1>10 DEF IInv

LEMMA RejectedType ==
  ASSUME NEW d \in Dialogue
  PROVE  Rejected(d) \in Dialogue /\ Rejected(d).quote = NULL
<1> DEFINE a == IF d.awaiting = "names" THEN NULL ELSE d.awaiting
<1>1. a \in {"names", "slot", NULL}
  BY DialogueParts
<1>2. Rejected(d) = [d EXCEPT !.quote = NULL, !.awaitingNames = FALSE, !.awaiting = a]
  BY DEF Rejected, Dialogue
<1> HIDE DEF a
<1> QED
  BY <1>1, <1>2 DEF Dialogue

LEMMA ClearPendingStep ==
  ASSUME IInv, ClearPending
  PROVE  IInv'
<1>1. Tool /\ Leaves(Empty, NULL)
  BY DEF ClearPending, Keeps
<1>2. Issued(Empty.quote)
  BY DEF Empty, Issued
<1> QED
  BY <1>1, <1>2, EmptyType, InTool, KeepsStep

LEMMA InvalidPreparationStep ==
  ASSUME IInv, InvalidPreparation
  PROVE  IInv'
<1>1. Tool /\ Leaves(Rejected(session.draft), NULL)
  BY DEF InvalidPreparation, Keeps
<1>2. Rejected(session.draft) \in Dialogue /\ Issued(Rejected(session.draft).quote)
  BY <1>1, InTool, RejectedType DEF Issued
<1> QED
  BY <1>1, <1>2, InTool, KeepsStep

LEMMA PrepareBookingStep ==
  ASSUME IInv, NEW s \in Slots, PrepareBooking(s)
  PROVE  IInv'
<1> DEFINE d == session.draft
           m == session.source
           context == d.reschedule = NULL /\ Kind(d.quote) # "change"
           names == IF holder # 0 THEN NULL ELSE IF text[m] \in Names THEN text[m]
                    ELSE IF context THEN d.names ELSE NULL
           core == [kind |-> "book", ap |-> NULL, slot |-> s, terms |-> terms, previous |-> NULL]
           missing == holder = 0 /\ names = NULL
           fields == IF names = NULL /\ context THEN d.fields ELSE names
           quote == [core |-> core, names |-> names, source |-> m, outbound |-> NULL]
           new == [Empty EXCEPT !.names = names, !.awaitingNames = missing, !.fields = fields,
                                !.awaiting = IF missing THEN "names" ELSE NULL, !.quote = quote]
<1>1. Tool
  BY DEF PrepareBooking
<1>2. d \in Dialogue /\ m \in Messages /\ Issued(d.quote) /\ OfDialogue(NULL) /\ terms \in Nat
  BY <1>1, InTool DEF TypeOK
<1>3. names \in Names \cup {NULL} /\ fields \in Names \cup {NULL}
  BY <1>2, DialogueParts
<1>4. new \in Dialogue /\ new.quote.outbound = NULL
  <2>1. core \in Core
    BY <1>2 DEF Core
  <2> HIDE DEF core, names, fields
  <2>2. quote \in Quote /\ quote.outbound = NULL
    BY <2>1, <1>2, <1>3 DEF Quote
  <2>3. missing \in BOOLEAN
    OBVIOUS
  <2> HIDE DEF quote, missing
  <2> QED
    BY <2>2, <2>3, <1>3, EmptyType DEF Dialogue
<1>5. CASE Keeps(new)
  <2> HIDE DEF new
  <2>1. Issued(new.quote)
    BY <1>4 DEF Issued
  <2> QED
    BY <2>1, <1>4, <1>5, <1>1, <1>2, KeepsStep DEF Keeps
<1>6. CASE Keeps([Rejected(d) EXCEPT !.awaiting = "slot"])
  <2> DEFINE e == [Rejected(d) EXCEPT !.awaiting = "slot"]
  <2>1. e \in Dialogue /\ e.quote = NULL
    BY <1>2, RejectedType DEF Dialogue
  <2>2. Keeps(e)
    BY <1>6
  <2> HIDE DEF e
  <2> QED
    BY <2>1, <2>2, <1>1, <1>2, KeepsStep DEF Keeps, Issued
<1>7. CASE Keeps(d)
  BY <1>7, <1>1, <1>2, KeepsStep DEF Keeps
<1> QED
  BY <1>5, <1>6, <1>7 DEF PrepareBooking

LEMMA PrepareChangeStep ==
  ASSUME IInv, NEW a \in Appts, NEW s \in Slots, PrepareChange(a, s)
  PROVE  IInv'
<1> DEFINE d == session.draft
           now == appts[a].now
           bound == [ap |-> a, previous |-> now]
           core == [kind |-> "change", ap |-> a, slot |-> s, terms |-> now.terms, previous |-> now]
           quote == [core |-> core, names |-> NULL, source |-> session.source, outbound |-> NULL]
           free == [Rejected(d) EXCEPT !.reschedule = NULL]
           taken == [Rejected(d) EXCEPT !.awaiting = "slot", !.reschedule = bound]
           new == [Empty EXCEPT !.reschedule = bound, !.quote = quote]
<1>1. Tool /\ appts[a] # NULL
  BY DEF PrepareChange, Owned
<1>2. d \in Dialogue /\ Issued(d.quote) /\ OfDialogue(NULL) /\ session.source \in Messages
  BY <1>1, InTool
<1>3. now \in Snapshot /\ now.terms \in Nat /\ bound \in [ap : Appts, previous : Snapshot]
  BY <1>1, InTool, ApptParts
<1>4. /\ Rejected(d) \in Dialogue /\ Rejected(d).quote = NULL
      /\ free \in Dialogue /\ free.quote = NULL /\ taken \in Dialogue /\ taken.quote = NULL
  <2>1. Rejected(d) \in Dialogue /\ Rejected(d).quote = NULL
    BY <1>2, RejectedType
  <2> HIDE DEF bound, now
  <2> QED
    BY <2>1, <1>3 DEF Dialogue
<1>5. new \in Dialogue /\ new.quote.outbound = NULL
  <2>1. core \in Core
    BY <1>3 DEF Core
  <2> HIDE DEF core, bound, now
  <2>2. quote \in Quote /\ quote.outbound = NULL
    BY <2>1, <1>2 DEF Quote
  <2> HIDE DEF quote
  <2> QED
    BY <2>2, <1>3, EmptyType DEF Dialogue
<1>6. CASE \E e \in Dialogue : Issued(e.quote) /\ Keeps(e)
  BY <1>6, <1>1, <1>2, KeepsStep DEF Keeps
<1>7. Issued(Rejected(d).quote) /\ Issued(free.quote) /\ Issued(taken.quote)
  BY <1>4 DEF Issued
<1>8. Issued(new.quote)
  BY <1>5 DEF Issued
<1>9. Issued(Empty.quote)
  BY DEF Issued, Empty
<1>10. Keeps(Rejected(d)) \/ Keeps(free) \/ Keeps(taken) \/ Keeps(Empty) \/ Keeps(d) \/ Keeps(new)
  BY DEF PrepareChange
<1> HIDE DEF free, taken, new, d
<1> QED
  BY <1>2, <1>4, <1>5, <1>6, <1>7, <1>8, <1>9, <1>10, EmptyType

LEMMA RespondStep ==
  ASSUME IInv, Tool, NEW by,
         by = "retained" => AcceptedMatches(session.draft),
         Respond(by)
  PROVE  IInv'
<1> DEFINE d == session.draft
           t == text[session.source]
           r == [d.quote EXCEPT !.names = t, !.source = session.source, !.outbound = NULL]
           answered == [d EXCEPT !.names = t, !.fields = t, !.awaitingNames = FALSE, !.awaiting = NULL,
                                 !.quote = r]
<1>1. d \in Dialogue /\ session.source \in Messages /\ Issued(d.quote) /\ OfDialogue(NULL)
  BY InTool
<1>2. CASE Keeps(d)
  BY <1>1, <1>2, KeepsStep DEF Keeps
<1>3. CASE /\ d.quote # NULL /\ t \in Names
           /\ Keeps([d EXCEPT !.names = t, !.fields = t, !.awaitingNames = FALSE, !.awaiting = NULL,
                       !.quote.names = t, !.quote.source = session.source, !.quote.outbound = NULL])
  <2>1. d.quote \in Quote
    BY <1>1, <1>3, DialogueParts
  <2>2. r \in Quote /\ r.outbound = NULL
    BY <2>1, <1>1, <1>3 DEF Quote
  <2>3. Keeps(answered)
    BY <1>3, <1>1, <2>1 DEF Dialogue, Quote
  <2>4. answered \in Dialogue /\ answered.quote = r
    <3> HIDE DEF r, t
    <3> QED
      BY <1>1, <1>3, <2>2 DEF Dialogue
  <2>5. Issued(answered.quote)
    BY <2>2, <2>4 DEF Issued
  <2> HIDE DEF answered
  <2> QED
    BY <2>3, <2>4, <2>5, <1>1, KeepsStep DEF Keeps
<1>4. CASE d.quote # NULL /\ Accept(d, by, FALSE)
  <2>1. by = "retained" => d.accepted.outbound = d.quote.outbound
    BY DEF AcceptedMatches
  <2> QED
    BY <2>1, <1>1, <1>4, AcceptedStep
<1> QED
  BY <1>2, <1>3, <1>4 DEF Respond

LEMMA ConfirmNaturallyStep ==
  ASSUME IInv, NEW defer, ConfirmNaturally(defer)
  PROVE  IInv'
<1> DEFINE d == session.draft
           q == dialogue.quote
           named == session.namesOnly # NULL /\ d.quote = session.namesOnly
           r == [d.quote EXCEPT !.source = q.source, !.outbound = q.outbound]
           e == [d EXCEPT !.quote = r]
<1>1. Tool /\ Natural /\ d.quote # NULL
  BY DEF ConfirmNaturally
<1>2. d \in Dialogue /\ Issued(d.quote) /\ OfDialogue(session.namesOnly)
  BY <1>1, InTool
<1>3. q # NULL /\ q \in Quote /\ Issued(q)
  BY <1>1 DEF Natural, IInv, TypeOK, Dialogue
<1>4. d.quote \in Quote
  BY <1>1, <1>2, DialogueParts
<1>5. CASE ~named /\ Accept(d, "natural", defer)
  BY <1>1, <1>2, <1>5, AcceptedStep
<1>6. CASE named /\ Accept([d EXCEPT !.quote.source = q.source, !.quote.outbound = q.outbound],
                           "natural", defer)
  <2>1. r \in Quote /\ r.core = q.core /\ r.outbound = q.outbound
    BY <1>2, <1>3, <1>4, <1>6 DEF Quote, OfDialogue
  <2>2. Accept(e, "natural", defer)
    BY <1>6, <1>2, <1>4 DEF Dialogue, Quote
  <2>3. e \in Dialogue /\ e.quote = r
    <3> HIDE DEF r
    <3> QED
      BY <2>1, <1>2 DEF Dialogue
  <2>4. Issued(r)
    BY <2>1, <1>3 DEF Issued
  <2>5. e.quote # NULL
    BY <2>1, <2>3, NullIsNoRecord
  <2> HIDE DEF e, r
  <2> QED
    BY <2>2, <2>3, <2>4, <2>5, <1>1, AcceptedStep
<1> QED
  BY <1>1, <1>5, <1>6 DEF ConfirmNaturally

LEMMA ChangeStateStep ==
  ASSUME IInv, NEW a \in Appts, NEW op \in {"cancel", "note"}, ChangeState(a, op)
  PROVE  IInv'
<1> DEFINE action == [op |-> op, ap |-> a, slot |-> appts[a].now.slot, terms |-> appts[a].now.terms,
                      shown |-> NULL, agreed |-> NULL]
<1>1. Tool /\ Owned(a) /\ appts[a] # NULL /\ Stages(action)
  BY DEF ChangeState, Owned
<1>2. action \in Action
  BY <1>1, InTool, ApptParts DEF Action
<1>3. Staged(action, session.source)
  BY <1>1 DEF Staged
<1> HIDE DEF action
<1> QED
  BY <1>1, <1>2, <1>3, StagesStep DEF Tool, InSession, Rest

(* What collected names leave of a pending booking. *)
LEMMA CollectNamesStep ==
  ASSUME IInv, NEW v \in Names, NEW defer, CollectNames(v, defer)
  PROVE  IInv'
<1> DEFINE d == session.draft
           previous == IF d.fields # NULL THEN d.fields ELSE d.names
           accepted == AcceptedMatches(d) /\ previous = NULL
           base == [d EXCEPT !.names = v, !.fields = v, !.accepted = IF accepted THEN d.accepted ELSE NULL]
           r == [d.quote EXCEPT !.names = v,
                   !.source = IF accepted THEN d.quote.source ELSE session.source,
                   !.outbound = IF accepted THEN d.quote.outbound ELSE NULL]
           renamed == [base EXCEPT !.awaitingNames = FALSE, !.awaiting = NULL, !.quote = r]
           kept == IF Kind(d.quote) # "book" THEN base ELSE renamed
<1>1. Tool
  BY DEF CollectNames
<1>2. /\ d \in Dialogue /\ Issued(d.quote) /\ OfDialogue(session.namesOnly) /\ OfDialogue(NULL)
      /\ session.source \in Messages
  BY <1>1, InTool
<1>3. base \in Dialogue /\ base.quote = d.quote /\ (accepted => base.accepted = d.accepted)
  BY <1>2, DialogueParts DEF Dialogue
<1>4. Kind(d.quote) = "book" => /\ d.quote \in Quote /\ r \in Quote
                                /\ r.core = d.quote.core
                                /\ r.outbound = IF accepted THEN d.quote.outbound ELSE NULL
  <2> SUFFICES ASSUME Kind(d.quote) = "book"  PROVE /\ d.quote \in Quote /\ r \in Quote
                                /\ r.core = d.quote.core
                                /\ r.outbound = IF accepted THEN d.quote.outbound ELSE NULL
    OBVIOUS
  <2>1. d.quote \in Quote
    BY <1>2, KindMeansQuote, DialogueParts
  <2> HIDE DEF accepted
  <2> QED
    BY <2>1, <1>2 DEF Quote
<1>5. Kind(d.quote) = "book" =>
        renamed \in Dialogue /\ renamed.quote = r /\ renamed.accepted = base.accepted
  <2> HIDE DEF r, base
  <2> QED
    BY <1>3, <1>4 DEF Dialogue
<1>6. kept \in Dialogue /\ (kept.quote # NULL => kept.quote \in Quote)
  <2> HIDE DEF base, renamed
  <2> QED
    BY <1>3, <1>5, DialogueParts
<1>7. Issued(kept.quote)
  <2>1. CASE Kind(d.quote) # "book"
    BY <2>1, <1>2, <1>3
  <2>2. CASE Kind(d.quote) = "book"
    <3>1. d.quote # NULL
      BY <2>2, KindMeansQuote
    <3>2. Issued(r)
      <4> HIDE DEF r
      <4> QED  BY <3>1, <2>2, <1>2, <1>4 DEF Issued
    <3> HIDE DEF r, renamed
    <3> QED
      BY <3>2, <2>2, <1>5
  <2> QED
    BY <2>1, <2>2
<1>8. OfDialogue(NamesOnly(d, kept))
  <2> HIDE DEF kept
  <2>1. Kind(dialogue.quote) = "book" => dialogue.quote # NULL
    BY KindMeansQuote
  <2>2. Kind(kept.quote) = "book" => kept.quote # NULL
    BY KindMeansQuote
  <2> QED
    BY <2>1, <2>2, <1>6 DEF OfDialogue, NamesOnly
<1>9. CASE Leaves(d, session.namesOnly)
  BY <1>9, <1>1, <1>2, KeepsStep
<1>10. CASE Leaves(kept, NamesOnly(d, kept))
  <2> HIDE DEF kept
  <2> QED
    BY <1>1, <1>6, <1>7, <1>8, <1>10, KeepsStep
<1>11. CASE Leaves([kept EXCEPT !.accepted = kept.quote], NamesOnly(d, kept))
  <2> DEFINE e == [kept EXCEPT !.accepted = kept.quote]
  <2> HIDE DEF kept
  <2>1. e \in Dialogue /\ e.quote = kept.quote
    BY <1>6, DialogueParts DEF Dialogue
  <2>2. Leaves(e, NamesOnly(d, kept))
    BY <1>11
  <2> HIDE DEF e
  <2> QED
    BY <1>1, <1>7, <1>8, <2>1, <2>2, KeepsStep
<1>12. CASE accepted /\ Accept(kept, "retained", FALSE)
  <2>1. Kind(d.quote) = "book" /\ d.accepted = d.quote
    BY <1>12 DEF AcceptedMatches
  <2>2. kept = renamed /\ kept.quote = r /\ kept.accepted = d.quote
    <3> HIDE DEF r, base, renamed
    <3> QED
      BY <2>1, <1>3, <1>5, <1>12
  <2>3. kept.accepted.outbound = kept.quote.outbound
    <3> HIDE DEF r, kept
    <3> QED
      BY <2>1, <2>2, <1>4, <1>12
  <2>4. kept.quote # NULL
    <3> HIDE DEF r, kept
    <3> QED
      BY <2>1, <2>2, <1>4, NullIsNoRecord
  <2> HIDE DEF kept, renamed, r, base
  <2> QED
    BY <1>1, <1>6, <1>7, <1>12, <2>3, <2>4, AcceptedStep
<1> DEFINE written == IF Kind(d.quote) # "book" THEN base
              ELSE [base EXCEPT !.awaitingNames = FALSE, !.awaiting = NULL, !.quote.names = v,
                      !.quote.source = IF accepted THEN @ ELSE session.source,
                      !.quote.outbound = IF accepted THEN @ ELSE NULL]
<1>13. written = kept
  <2>1. CASE Kind(d.quote) = "book"
    <3> HIDE DEF accepted
    <3>1. base.quote = d.quote /\ base \in Dialogue
      BY <1>3
    <3> HIDE DEF base
    <3> QED
      BY <2>1, <3>1, <1>4 DEF Dialogue, Quote
  <2> QED
    BY <2>1
<1>14. \/ Leaves(d, session.namesOnly) \/ Leaves(written, NamesOnly(d, written))
       \/ Leaves([written EXCEPT !.accepted = written.quote], NamesOnly(d, written))
       \/ accepted /\ Accept(written, "retained", FALSE)
  BY DEF CollectNames
<1> HIDE DEF written, kept, accepted, d
<1> QED
  BY <1>9, <1>10, <1>11, <1>12, <1>13, <1>14

-----------------------------------------------------------------------------
(* Between the sessions *)

LEMMA InitHolds ==
  ASSUME Init
  PROVE  IInv
<1>1. Empty.quote = NULL /\ spent = {} /\ session = NULL /\ dialogue = Empty
  BY DEF Init, Empty
<1>2. Issued(dialogue.quote) /\ PresentedIsPast /\ SpentIsPresented /\ SessionIsLatest /\ SessionOK
  BY <1>1 DEF Init, Issued, PresentedIsPast, SpentIsPresented, SessionIsLatest, SessionOK
<1>3. /\ text \in [Messages -> Text] /\ turn \in [Messages -> Turn]
      /\ presented \in [Messages -> Core \cup {NULL}] /\ passed \in 0..MaxSlot
      /\ closed \subseteq Slots /\ terms \in Nat /\ edits \in 0..MaxEdits
  BY AgendaAssumption DEF Init, Text, Turn
<1>4. appts \in [Appts -> [now : Snapshot, client : Nat] \cup {NULL}] /\ clients \in Nat /\ holder \in 0..clients
  <2>1. [slot |-> MaxSlot, terms |-> 1, state |-> "confirmed"] \in Snapshot
    BY AgendaAssumption DEF Snapshot, Slots
  <2>2. CASE holder = 1
    BY <2>1, <2>2 DEF Init
  <2>3. CASE holder = 0
    BY <2>3 DEF Init
  <2> QED
    BY <2>2, <2>3 DEF Init
<1>5. TypeOK
  BY <1>1, <1>3, <1>4, EmptyType DEF TypeOK
<1> QED
  BY <1>2, <1>5 DEF IInv

LEMMA ReceiveStep ==
  ASSUME IInv, NEW m \in Messages, NEW t \in Texts, Receive(m, t)
  PROVE  IInv'
<1>1. t \in Text
  BY AgendaAssumption DEF Text
<1>2. text' \in [Messages -> Text] /\ turn' \in [Messages -> Turn]
  <2>1. \A k \in Messages : turn[k] \in Turn
    BY DEF IInv, TypeOK
  <2>2. {"pending", "superseded"} \subseteq Turn
    BY DEF Turn
  <2> QED
    BY <1>1, <2>1, <2>2 DEF Receive, IInv, TypeOK
<1>3. TypeOK'
  BY <1>2 DEF IInv, TypeOK, Receive, world, saved
<1>4. PresentedIsPast'
  BY DEF IInv, PresentedIsPast, Receive, Arrived
<1>5. Issued(dialogue.quote)' /\ SpentIsPresented' /\ SessionIsLatest' /\ SessionOK'
  BY DEF IInv, Issued, SpentIsPresented, SessionIsLatest, SessionOK, Receive, saved
<1> QED
  BY <1>3, <1>4, <1>5 DEF IInv

LEMMA DeliverStep ==
  ASSUME IInv, NEW m \in Messages, Deliver(m)
  PROVE  IInv'
<1>1. PICK r \in {"sending", "sent", "lost"} : turn' = [turn EXCEPT ![m] = r]
  BY DEF Deliver
<1>2. turn \in [Messages -> Turn]
  BY DEF IInv, TypeOK
<1>3. turn' \in [Messages -> Turn]
  BY <1>1, <1>2 DEF Turn
<1>4. TypeOK'
  BY <1>3 DEF IInv, TypeOK, Deliver, world, saved
<1>5. PresentedIsPast'
  BY <1>1, <1>2 DEF IInv, PresentedIsPast, Deliver
<1>6. Issued(dialogue.quote)' /\ SpentIsPresented' /\ SessionIsLatest' /\ SessionOK'
  BY DEF IInv, Issued, SpentIsPresented, SessionIsLatest, SessionOK, Deliver, saved
<1> QED
  BY <1>4, <1>5, <1>6 DEF IInv

(* What the panel, other customers and the clock change is not part of the *)
(* invariant, but for the appointments a session may change.               *)
LEMMA WorldStep ==
  ASSUME IInv, TypeOK', UNCHANGED <<turn, presented, dialogue, spent, session, text>>,
         session = NULL \/ UNCHANGED <<appts, holder>>
  PROVE  IInv'
<1>1. Issued(dialogue.quote)' /\ PresentedIsPast' /\ SpentIsPresented' /\ SessionIsLatest'
  BY DEF IInv, Issued, PresentedIsPast, SpentIsPresented, SessionIsLatest, Latest, Arrived
<1>2. ASSUME session = NULL  PROVE SessionOK'
  BY <1>2 DEF SessionOK
<1>3. ASSUME session # NULL, UNCHANGED <<appts, holder>>  PROVE SessionOK'
  <2>1. Issued(session.draft.quote)' /\ OfDialogue(session.namesOnly)'
    BY <1>3 DEF IInv, SessionOK, Issued, OfDialogue
  <2>2. session.staged # NULL => Staged(session.staged, session.source)'
    BY <1>3 DEF IInv, SessionOK, Staged, Owned
  <2> QED
    BY <2>1, <2>2, <1>3 DEF IInv, SessionOK
<1> QED
  BY <1>1, <1>2, <1>3 DEF IInv

LEMMA SlotPassesStep ==
  ASSUME IInv, SlotPasses
  PROVE  IInv'
<1>1. TypeOK'
  BY AgendaAssumption DEF IInv, TypeOK, SlotPasses, Change, saved
<1> QED
  BY <1>1, WorldStep DEF SlotPasses, saved

LEMMA EditsCalendarStep ==
  ASSUME IInv, EditsCalendar
  PROVE  IInv'
<1>1. terms' \in Nat /\ closed' \subseteq Slots /\ edits' \in 0..MaxEdits
  BY AgendaAssumption DEF IInv, TypeOK, EditsCalendar, Edit, Change
<1>2. TypeOK'
  BY <1>1 DEF IInv, TypeOK, EditsCalendar, saved
<1> QED
  BY <1>2, WorldStep DEF EditsCalendar, Edit, saved

LEMMA EditsAppointmentStep ==
  ASSUME IInv, NEW a \in Appts, EditsAppointment(a)
  PROVE  IInv'
<1>1. appts[a] # NULL /\ appts \in [Appts -> [now : Snapshot, client : Nat] \cup {NULL}]
  BY DEF EditsAppointment, Confirmed, IInv, TypeOK
<1>2. appts' \in [Appts -> [now : Snapshot, client : Nat] \cup {NULL}]
  <2>1. CASE appts' = [appts EXCEPT ![a].now.state = "cancelled"]
    BY <1>1, <2>1 DEF Snapshot
  <2>2. CASE \E s \in Slots : appts' = [appts EXCEPT ![a].now.slot = s]
    BY <1>1, <2>2 DEF Snapshot
  <2> QED
    BY <2>1, <2>2 DEF EditsAppointment
<1>3. edits' \in 0..MaxEdits
  BY AgendaAssumption DEF IInv, TypeOK, EditsAppointment, Edit, Change
<1>4. TypeOK'
  BY <1>2, <1>3 DEF IInv, TypeOK, EditsAppointment
<1> QED
  BY <1>4, WorldStep DEF EditsAppointment, Edit

LEMMA EditsClientsStep ==
  ASSUME IInv, EditsClients
  PROVE  IInv'
<1>1. clients' \in Nat /\ holder' \in 0..clients' /\ edits' \in 0..MaxEdits
  BY AgendaAssumption DEF IInv, TypeOK, EditsClients, Edit, Change
<1>2. TypeOK'
  BY <1>1 DEF IInv, TypeOK, EditsClients
<1> QED
  BY <1>2, WorldStep DEF EditsClients, Edit

-----------------------------------------------------------------------------
(* The session itself *)

LEMMA OpenStep ==
  ASSUME IInv, NEW m \in Messages, Open(m)
  PROVE  IInv'
<1> DEFINE first == IF text[m] = "anonymous" THEN Empty ELSE dialogue
<1>1. first \in Dialogue
  BY EmptyType DEF IInv, TypeOK
<1>2. /\ session' \in Session /\ session'.source = m /\ session'.draft = first
      /\ session'.namesOnly = NULL /\ session'.staged = NULL
  <2> HIDE DEF first
  <2>1. session' = [source |-> m, namesOnly |-> NULL, staged |-> NULL, calls |-> 0, draft |-> first]
    BY DEF Open, first
  <2>2. 0 \in 0..MaxCalls
    BY AgendaAssumption
  <2> QED
    BY <2>1, <2>2, <1>1 DEF Session
<1>3. TypeOK'
  BY <1>2 DEF IInv, TypeOK, Open, world, saved
<1>4. Issued(dialogue.quote)' /\ PresentedIsPast' /\ SpentIsPresented'
  BY DEF IInv, Issued, PresentedIsPast, SpentIsPresented, Open, saved
<1>5. SessionIsLatest'
  BY <1>2 DEF SessionIsLatest, Latest, Arrived, Open
<1>6. Issued(Empty.quote)
  BY DEF Issued, Empty
<1>7. Issued(session.draft.quote)' /\ OfDialogue(session.namesOnly)'
  BY <1>2, <1>6 DEF IInv, Issued, OfDialogue, Open, saved
<1>8. SessionOK'
  BY <1>2, <1>7 DEF SessionOK, Open
<1> QED
  BY <1>3, <1>4, <1>5, <1>8 DEF IInv

LEMMA RollbackStep ==
  ASSUME IInv, Rollback
  PROVE  IInv'
<1>1. TypeOK'
  BY DEF IInv, TypeOK, Rollback, world, saved
<1> QED
  BY <1>1 DEF IInv, Issued, PresentedIsPast, SpentIsPresented, SessionIsLatest, SessionOK, Rollback, saved

LEMMA SilentStep ==
  ASSUME IInv, Silent
  PROVE  IInv'
<1>1. /\ session # NULL /\ session.source \in Messages /\ turn \in [Messages -> Turn]
      /\ turn' = [turn EXCEPT ![session.source] = "silent"]
  BY SessionParts DEF Silent, IInv, TypeOK
<1>2. turn' \in [Messages -> Turn]
  BY <1>1 DEF Turn
<1>3. TypeOK'
  BY <1>2 DEF IInv, TypeOK, Silent, world, saved
<1>4. PresentedIsPast'
  BY <1>1 DEF IInv, PresentedIsPast, Silent
<1>5. Issued(dialogue.quote)' /\ SpentIsPresented' /\ SessionIsLatest' /\ SessionOK'
  BY DEF IInv, Issued, SpentIsPresented, SessionIsLatest, SessionOK, Silent, saved
<1> QED
  BY <1>3, <1>4, <1>5 DEF IInv

(* What is saved keeps the types, and marks the reply it was presented in. *)
LEMMA SavesType ==
  ASSUME IInv, session # NULL, session.staged # NULL, Saves(session.staged)
  PROVE  /\ appts' \in [Appts -> [now : Snapshot, client : Nat] \cup {NULL}]
         /\ clients' \in Nat /\ holder' \in 0..clients' /\ spent' \subseteq Messages
         /\ \A k \in spent' : presented[k] # NULL
<1> DEFINE s == session.staged
           client == IF s.op = "book" /\ holder = 0 THEN clients + 1 ELSE holder
           now == [slot |-> s.slot, terms |-> s.terms, state |-> IF s.op = "cancel" THEN "cancelled" ELSE "confirmed"]
           owner == IF s.op = "book" THEN client ELSE appts[s.ap].client
<1>1. /\ s \in Action /\ s.ap \in Appts /\ s.slot \in Slots /\ s.terms \in Nat
      /\ s.shown \in Messages \cup {NULL}
  BY SessionParts DEF IInv, Action
<1>2. clients \in Nat /\ holder \in 0..clients
      /\ appts \in [Appts -> [now : Snapshot, client : Nat] \cup {NULL}] /\ spent \subseteq Messages
  BY DEF IInv, TypeOK
<1>3. now \in Snapshot /\ client \in Nat
  BY <1>1, <1>2 DEF Snapshot
<1>4. /\ appts' = [appts EXCEPT ![s.ap] = [now |-> now, client |-> owner]]
      /\ holder' = client /\ clients' = IF client > clients THEN client ELSE clients
      /\ spent' = spent \cup ({s.shown} \ {NULL})
  BY DEF Saves
<1>5. clients' \in Nat /\ holder' \in 0..clients'
  <2> HIDE DEF s
  <2> QED
    BY <1>2, <1>3, <1>4
<1>6. spent' \subseteq Messages /\ \A k \in spent' : presented[k] # NULL
  <2>1. s.shown = NULL \/ presented[s.shown] # NULL
    BY DEF IInv, SessionOK, Staged
  <2> HIDE DEF s
  <2> QED
    BY <2>1, <1>1, <1>2, <1>4 DEF IInv, SpentIsPresented
<1>7. owner \in Nat
  <2>1. CASE s.op = "book"
    BY <2>1, <1>3
  <2>2. CASE s.op = "change"
    <3>1. appts[s.ap] # NULL
      BY <2>2 DEF IInv, SessionOK, Staged, Owned
    <3> QED
      BY <3>1, <2>2, <1>1, <1>2
  <2>3. CASE s.op \in {"cancel", "note"}
    <3>1. appts[s.ap] # NULL
      BY <2>3 DEF IInv, SessionOK, Staged, Owned
    <3> QED
      BY <3>1, <2>3, <1>1, <1>2
  <2> QED
    BY <2>1, <2>2, <2>3, <1>1 DEF Action
<1>8. appts' \in [Appts -> [now : Snapshot, client : Nat] \cup {NULL}]
  <2> HIDE DEF now, owner, s
  <2> QED
    BY <1>1, <1>2, <1>3, <1>4, <1>7
<1> QED
  BY <1>5, <1>6, <1>8

LEMMA CommitStep ==
  ASSUME IInv, session # NULL, NEW ref \in References, Commit(ref)
  PROVE  IInv'
<1> DEFINE m == session.source
           d == session.draft
           core == IF ref = NULL THEN NULL ELSE ref.core
           r == [d.quote EXCEPT !.outbound = m, !.source = m]
           sent == [d EXCEPT !.quote = r]
<1>1. /\ m \in Messages /\ d \in Dialogue /\ Issued(d.quote) /\ turn[m] = "pending" /\ Latest(m)
      /\ presented[m] = NULL /\ m \notin spent
  BY SessionParts DEF IInv, SessionOK, SessionIsLatest, PresentedIsPast, SpentIsPresented
<1>2. /\ turn \in [Messages -> Turn] /\ presented \in [Messages -> Core \cup {NULL}]
      /\ turn' = [turn EXCEPT ![m] = "generated"] /\ presented' = [presented EXCEPT ![m] = core]
      /\ session' = NULL /\ UNCHANGED <<text, passed, world>>
  BY DEF Commit, IInv, TypeOK
<1>3. ref # NULL => ref = d.quote /\ d.quote \in Quote /\ d.quote # NULL
  BY <1>1, DialogueParts DEF Commit, Presents
<1>4. core \in Core \cup {NULL}
  BY <1>3, QuoteParts
<1>5. turn' \in [Messages -> Turn] /\ presented' \in [Messages -> Core \cup {NULL}]
  <2>1. "generated" \in Turn
    BY DEF Turn
  <2> HIDE DEF core
  <2> QED
    BY <2>1, <1>1, <1>2, <1>4
<1>6. Empty.quote = NULL
  BY DEF Empty
<1>7. ref # NULL => session.staged = NULL /\ text[m] # "anonymous"
  BY <1>3, <1>6 DEF IInv, SessionOK
<1>8. /\ appts' \in [Appts -> [now : Snapshot, client : Nat] \cup {NULL}]
      /\ clients' \in Nat /\ holder' \in 0..clients' /\ spent' \subseteq Messages
      /\ \A k \in spent' : presented[k] # NULL
      /\ ref # NULL => spent' = spent
      /\ session.staged = NULL => spent' = spent
  <2>1. CASE session.staged = NULL
    BY <2>1 DEF Commit, IInv, TypeOK, SpentIsPresented
  <2>2. CASE session.staged # NULL
    BY <2>2, <1>7, SavesType DEF Commit
  <2> QED
    BY <2>1, <2>2
<1>9. ref # NULL => sent \in Dialogue /\ sent.quote = r /\ r \in Quote /\ r.outbound = m /\ r.core = d.quote.core
  <2> SUFFICES ASSUME ref # NULL
               PROVE  sent \in Dialogue /\ sent.quote = r /\ r \in Quote /\ r.outbound = m /\ r.core = d.quote.core
    OBVIOUS
  <2>1. r \in Quote /\ r.outbound = m /\ r.core = d.quote.core
    BY <1>1, <1>3 DEF Quote
  <2>2. sent \in Dialogue /\ sent.quote = r
    <3> HIDE DEF r
    <3> QED
      BY <2>1, <1>1 DEF Dialogue
  <2> QED
    BY <2>1, <2>2
<1>10. dialogue' = IF text[m] = "anonymous" THEN dialogue
                   ELSE IF ref = NULL THEN d ELSE sent
  <2>1. ref # NULL => sent = [d EXCEPT !.quote.outbound = m, !.quote.source = m]
    BY <1>1, <1>3 DEF Dialogue, Quote
  <2> QED
    BY <2>1 DEF Commit
<1>11. TypeOK'
  <2>1. dialogue' \in Dialogue
    <3> HIDE DEF sent
    <3> QED
      BY <1>1, <1>9, <1>10 DEF IInv, TypeOK
  <2>2. text' \in [Messages -> Text] /\ passed' \in 0..MaxSlot /\ closed' \subseteq Slots
        /\ terms' \in Nat /\ edits' \in 0..MaxEdits
    BY <1>2 DEF IInv, TypeOK, world
  <2> QED
    BY <2>1, <2>2, <1>2, <1>5, <1>8 DEF TypeOK
<1>12. PresentedIsPast'
  <2> HIDE DEF core
  <2> QED
    BY <1>1, <1>2 DEF IInv, PresentedIsPast
<1>13. \A k \in Messages : presented[k] # NULL => presented'[k] = presented[k]
  BY <1>1, <1>2
<1>14. SpentIsPresented'
  BY <1>8, <1>13 DEF SpentIsPresented
<1>15. SessionIsLatest' /\ SessionOK'
  BY <1>2 DEF SessionIsLatest, SessionOK
<1>16. Issued(dialogue.quote)'
  <2>1. CASE ref # NULL
    <3>1. \A k \in Messages : k > m => presented[k] = NULL
      BY <1>1 DEF IInv, PresentedIsPast, Latest, Arrived
    <3>2. presented'[m] = d.quote.core /\ \A k \in Messages : k > m => presented'[k] = NULL
      BY <3>1, <2>1, <1>1, <1>2, <1>3 DEF Messages
    <3>3. dialogue' = sent /\ m \notin spent'
      BY <2>1, <1>1, <1>7, <1>8, <1>10
    <3> HIDE DEF sent, r
    <3> QED
      BY <3>2, <3>3, <2>1, <1>9 DEF Issued
  <2>2. CASE ref = NULL
    <3>1. presented' = presented
      BY <2>2, <1>1, <1>2
    <3>2. CASE text[m] = "anonymous"
      <4>1. session.staged = NULL
        BY <3>2 DEF IInv, SessionOK
      <4> QED
        BY <4>1, <3>1, <3>2, <1>8, <1>10 DEF IInv, Issued
    <3>3. CASE text[m] # "anonymous" /\ session.staged = NULL
      BY <3>1, <3>3, <2>2, <1>1, <1>8, <1>10 DEF Issued
    <3>4. CASE text[m] # "anonymous" /\ session.staged # NULL
      <4>1. dialogue' = Empty
        BY <3>4, <2>2, <1>10 DEF IInv, SessionOK
      <4> QED
        BY <4>1, <1>6 DEF Issued
    <3> QED
      BY <3>2, <3>3, <3>4
  <2> QED
    BY <2>1, <2>2
<1> QED
  BY <1>11, <1>12, <1>14, <1>15, <1>16 DEF IInv

-----------------------------------------------------------------------------
(* Theorems *)

LEMMA StepHolds ==
  ASSUME IInv, [Next]_vars
  PROVE  IInv'
<1>1. ASSUME UNCHANGED vars  PROVE IInv'
  <2>1. TypeOK'
    BY <1>1 DEF IInv, TypeOK, vars, world, saved
  <2> QED
    BY <2>1, <1>1, WorldStep DEF vars, saved
<1>2. CASE \E m \in Messages : (\E t \in Texts : Receive(m, t)) \/ Deliver(m) \/ Open(m)
  BY <1>2, ReceiveStep, DeliverStep, OpenStep
<1>3. CASE SlotPasses \/ EditsCalendar \/ EditsClients
  BY <1>3, SlotPassesStep, EditsCalendarStep, EditsClientsStep
<1>4. CASE \E a \in Appts : EditsAppointment(a) \/ (\E op \in {"cancel", "note"} : ChangeState(a, op))
                            \/ (\E s \in Slots : PrepareChange(a, s))
  BY <1>4, EditsAppointmentStep, ChangeStateStep, PrepareChangeStep
<1>5. CASE Refused \/ ClearPending \/ InvalidPreparation \/ (\E s \in Slots : PrepareBooking(s))
  BY <1>5, RefusedStep, ClearPendingStep, InvalidPreparationStep, PrepareBookingStep
<1>6. CASE ConfirmQuote
  <2>1. Tool /\ Respond("yes")
    BY <1>6 DEF ConfirmQuote
  <2> QED
    BY <2>1, RespondStep
<1>7. CASE FinishAccepted
  <2>1. Tool /\ AcceptedMatches(session.draft) /\ Respond("retained")
    BY <1>7 DEF FinishAccepted
  <2> QED
    BY <2>1, RespondStep
<1>8. CASE \E defer \in BOOLEAN : ConfirmNaturally(defer) \/ (\E v \in Names : CollectNames(v, defer))
  BY <1>8, ConfirmNaturallyStep, CollectNamesStep
<1>9. CASE Silent \/ Rollback
  BY <1>9, SilentStep, RollbackStep
<1>10. CASE session # NULL /\ \E ref \in References : Commit(ref)
  BY <1>10, CommitStep
<1> QED
  BY <1>1, <1>2, <1>3, <1>4, <1>5, <1>6, <1>7, <1>8, <1>9, <1>10 DEF Next

LEMMA Invariance == Spec => []IInv
<1>1. Init => IInv
  BY InitHolds
<1>2. IInv /\ [Next]_vars => IInv'
  BY StepHolds
<1> QED
  BY <1>1, <1>2, PTL DEF Spec

(* What was staged and what was presented agree: the invariant about sessions *)
(* gives the three properties about what the agent saves.                     *)
LEMMA StagedIsGood ==
  ASSUME IInv
  PROVE  SavedAsPresented /\ AcceptanceIsForThisQuote /\ OneSavePerQuote
<1> SUFFICES ASSUME Structural
             PROVE  SavedAsPresented /\ AcceptanceIsForThisQuote /\ OneSavePerQuote
  BY DEF SavedAsPresented, AcceptanceIsForThisQuote, OneSavePerQuote
<1>1. Staged(session.staged, session.source) /\ session.staged.op \in {"book", "change"}
  BY DEF Structural, IInv, SessionOK
<1>2. SavedAsPresented
  BY <1>1 DEF Staged, SavedAsPresented
<1> QED
  BY <1>1, <1>2 DEF Staged, AcceptanceIsForThisQuote, OneSavePerQuote

(* The dialogue, the sessions and what they save have their types, whatever *)
(* the order the tools are called in.                                       *)
THEOREM Types == Spec => []TypeOK
<1>1. IInv => TypeOK
  BY DEF IInv
<1> QED
  BY <1>1, Invariance, PTL

(* A quote that says in which reply it went out is the last one presented:  *)
(* respond (agenda.ts) lets a yes accept nothing the customer was not shown. *)
THEOREM DeliveredQuotes == Spec => []DeliveredIsPresented
<1>1. IInv => DeliveredIsPresented
  BY DEF IInv, Issued, DeliveredIsPresented
<1> QED
  BY <1>1, Invariance, PTL

(* The agent books or changes only what an earlier, delivered reply presented, *)
(* on the terms presented, and a change only if the appointment is unchanged.  *)
THEOREM SavesWhatWasPresented == Spec => []SavedAsPresented
<1>1. IInv => SavedAsPresented
  BY StagedIsGood
<1> QED
  BY <1>1, Invariance, PTL

(* An acceptance that is finished after a question for names or in a later  *)
(* call was given for the reply that presented the quote being saved.       *)
THEOREM AcceptanceFits == Spec => []AcceptanceIsForThisQuote
<1>1. IInv => AcceptanceIsForThisQuote
  BY StagedIsGood
<1> QED
  BY <1>1, Invariance, PTL

(* No presentation is saved twice, by a repeated yes or a retried session. *)
THEOREM SavedOnce == Spec => []OneSavePerQuote
<1>1. IInv => OneSavePerQuote
  BY StagedIsGood
<1> QED
  BY <1>1, Invariance, PTL
=============================================================================
