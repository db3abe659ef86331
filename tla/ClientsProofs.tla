--------------------------- MODULE ClientsProofs ----------------------------
(***************************************************************************)
(* For any number of tabs, clients, writes and losses: the types, and that *)
(* the browser keeps the note of a creation in doubt.                      *)
(*                                                                         *)
(* The note is erased by a tab that holds it as its mark. The invariant    *)
(* says what a mark is worth: either the tab is locked over the very draft *)
(* it marks, or the user was told of a creation with that draft. So who    *)
(* erases the note of a creation that is alone with its draft erases it    *)
(* because the user is told of that creation, now or before.               *)
(***************************************************************************)
EXTENDS Clients, TLAPS

(* Creations of a draft, and those the user was told of, among the writes W *)
Created(W, d) == \E n \in Attempts : W[n] # None /\ W[n].id = None /\ W[n].draft = d
Settled(W, d) ==
  \E n \in Attempts : W[n] # None /\ W[n].id = None /\ W[n].draft = d /\ W[n].told # "no"

Marked(tab, W) ==
  tab.mark # None => (tab.fenced /\ tab.draft = tab.mark) \/ Settled(W, tab.mark)
SavesMark(tab, W) ==
  tab.saving # None =>
    /\ W[tab.saving] # None
    /\ IF W[tab.saving].id = None THEN W[tab.saving].draft = tab.mark ELSE ~tab.fenced
TabOK(tab, W) == Marked(tab, W) /\ SavesMark(tab, W)

(* A creation in doubt that is alone with its draft: what the note is for *)
Doubtful(W, n) ==
  /\ W[n] # None /\ W[n].id = None /\ W[n].told = "no"
  /\ \A m \in Attempts \ {n} : W[m] # None /\ W[m].id = None => W[m].draft # W[n].draft
Noted(nt, W) == \A n \in Attempts : Doubtful(W, n) => nt = W[n].draft

IInv ==
  /\ ClientsTypeOK
  /\ \A t \in Tabs : TabOK(tabs[t], writes)
  /\ note # None => Created(writes, note)
  /\ Noted(note, writes)

(* What is shown, and what was answered, is of the past. *)
Below(c, R) == R[c.id] # None /\ c.version <= R[c.id].version
Once(S) == \A c, d \in S : c.id = d.id => c = d
Newer(S, L) == \A c \in L, d \in S : c.id = d.id => c.version <= d.version
RequestOK(q, L, R) ==
  q # None /\ q.rows # None => (\A c \in q.rows : Below(c, R)) /\ Once(q.rows) /\ Newer(q.rows, L)
SavesNewer(tab, W) ==
  tab.saving # None =>
    /\ tab.reading = None /\ tab.checking = None
    /\ W[tab.saving].state = "done" => W[tab.saving].saved # None
    /\ W[tab.saving].saved # None => Newer({W[tab.saving].saved}, tab.list)
ShowsPast(tab, R) ==
  /\ (\A c \in tab.list : Below(c, R)) /\ Once(tab.list)
  /\ tab.selected # None => R[tab.selected] # None
  /\ RequestOK(tab.reading, tab.list, R) /\ RequestOK(tab.checking, tab.list, R)
  /\ tab.checking # None => tab.reading = None
WriteKnown(w, R) ==
  w # None => /\ w.id # None => R[w.id] # None
              /\ w.saved # None => Below(w.saved, R)

VInv ==
  /\ \A i \in Ids : registry[i] # None => registry[i].id = i
  /\ \A n \in Attempts : WriteKnown(writes[n], registry)
  /\ \A t \in Tabs : ShowsPast(tabs[t], registry) /\ SavesNewer(tabs[t], writes)
  /\ \A t, u \in Tabs : tabs[t].saving # None /\ tabs[t].saving = tabs[u].saving => t = u

(* Writes are added and settled, and never change what they ask for. *)
Grows(V, W) ==
  \A n \in Attempts : V[n] # None =>
    /\ W[n] # None /\ W[n].id = V[n].id /\ W[n].draft = V[n].draft
    /\ V[n].told # "no" => W[n].told # "no"

(* ... and none of them is a new creation. *)
Ages(V, W) ==
  Grows(V, W) /\ \A n \in Attempts : W[n] # None /\ W[n].id = None => V[n] # None

-----------------------------------------------------------------------------
(* Types of the parts *)

LEMMA TabParts ==
  ASSUME NEW tab \in Tab
  PROVE  /\ tab.open \in BOOLEAN /\ tab.fenced \in BOOLEAN /\ tab.uncertain \in BOOLEAN
         /\ tab.mark \in Draft \cup {None} /\ tab.draft \in Draft \cup {None}
         /\ tab.selected \in Ids \cup {None} /\ tab.query \in Phones \cup {None}
         /\ tab.list \in SUBSET Client /\ tab.reading \in Reading \cup {None}
         /\ tab.saving \in Attempts \cup {None} /\ tab.checking \in Reading \cup {None}
  BY DEF Tab

LEMMA ClosedType == Closed \in Tab
  BY DEF Closed, Tab

LEMMA ListType ==
  ASSUME ClientsTypeOK, NEW q
  PROVE  List(q) \in SUBSET Client
  <1> SUFFICES ASSUME NEW c \in Rows PROVE c \in Client BY DEF List
  <1>1. PICK i \in Ids : c = registry[i] /\ c # None BY DEF Rows
  <1> QED BY <1>1 DEF ClientsTypeOK

LEMMA ListingType ==
  ASSUME NEW tab \in Tab, NEW q \in Phones \cup {None}
  PROVE  /\ Listing(tab, q) \in Tab
         /\ Listing(tab, q).mark = tab.mark /\ Listing(tab, q).draft = tab.draft
         /\ Listing(tab, q).fenced = tab.fenced /\ Listing(tab, q).saving = tab.saving
  <1>1. Asked(q) \in Reading BY DEF Asked, Reading
  <1> DEFINE l == [tab EXCEPT !.reading = Asked(q), !.query = q]
  <1>2. /\ l \in Tab /\ l.mark = tab.mark /\ l.draft = tab.draft
        /\ l.fenced = tab.fenced /\ l.saving = tab.saving
    <2> HIDE DEF Asked
    <2> QED BY <1>1 DEF Tab
  <1>3. Listing(tab, q) = tab \/ Listing(tab, q) = l BY DEF Listing
  <1> HIDE DEF l
  <1> QED BY <1>2, <1>3

LEMMA SelectingType ==
  ASSUME NEW tab \in Tab, NEW i \in Ids \cup {None}
  PROVE  /\ Selecting(tab, i) \in Tab /\ Selecting(tab, i).mark = tab.mark
         /\ Selecting(tab, i).fenced = tab.fenced /\ Selecting(tab, i).saving = tab.saving
  BY DEF Selecting, Tab

LEMMA ClearedType ==
  ASSUME NEW tab \in Tab
  PROVE  /\ Cleared(tab) \in Tab /\ Cleared(tab).mark = tab.mark
         /\ Cleared(tab).saving = tab.saving
  BY DEF Cleared, Tab

LEMMA SavedType ==
  ASSUME NEW tab \in Tab, NEW c \in Client, NEW created \in BOOLEAN
  PROVE  /\ Adopted(tab, c, created) \in Tab
         /\ Adopted(tab, c, created).mark = tab.mark /\ Adopted(tab, c, created).saving = None
  <1> DEFINE others == {r \in tab.list : r.id # c.id}
  <1> DEFINE shown == [tab EXCEPT !.saving = None, !.selected = c.id, !.draft = None,
                           !.query = IF created THEN None ELSE @,
                           !.list = IF created \/ \E r \in tab.list : r.id = c.id
                                    THEN others \cup {c} ELSE @]
  <1>1. c.id \in Ids BY DEF Client
  <1>2. others \cup {c} \in SUBSET Client BY TabParts
  <1> HIDE DEF others
  <1>3. shown \in Tab /\ shown.mark = tab.mark /\ shown.saving = None
    BY <1>1, <1>2 DEF Tab
  <1>4. Adopted(tab, c, created) = Listing(shown, shown.query) BY DEF Adopted, others
  <1> HIDE DEF shown
  <1> QED BY <1>3, <1>4, ListingType, TabParts

-----------------------------------------------------------------------------
(* What is kept while writes are added and settled *)

LEMMA KeepsTab ==
  ASSUME NEW V, NEW W, NEW tab \in Tab, None \notin Nat, TabOK(tab, V), Grows(V, W)
  PROVE  TabOK(tab, W)
  <1>1. Marked(tab, W)
    <2> SUFFICES ASSUME tab.mark # None, Settled(V, tab.mark) PROVE Settled(W, tab.mark)
      BY DEF TabOK, Marked
    <2>1. PICK n \in Attempts : V[n] # None /\ V[n].id = None /\ V[n].draft = tab.mark /\ V[n].told # "no"
      BY DEF Settled
    <2> QED BY <2>1 DEF Settled, Grows
  <1>2. SavesMark(tab, W)
    <2> SUFFICES ASSUME tab.saving # None PROVE
        /\ W[tab.saving] # None
        /\ IF W[tab.saving].id = None THEN W[tab.saving].draft = tab.mark ELSE ~tab.fenced
      BY DEF SavesMark
    <2>1. tab.saving \in Attempts BY TabParts
    <2> QED BY <2>1 DEF TabOK, SavesMark, Grows
  <1> QED BY <1>1, <1>2 DEF TabOK

LEMMA CreatedGrows ==
  ASSUME NEW V, NEW W, NEW d, Grows(V, W), Created(V, d)
  PROVE  Created(W, d)
  <1>1. PICK n \in Attempts : V[n] # None /\ V[n].id = None /\ V[n].draft = d BY DEF Created
  <1> QED BY <1>1 DEF Created, Grows

LEMMA DoubtfulBefore ==
  ASSUME NEW V, NEW W, NEW n \in Attempts, Grows(V, W), V[n] # None, Doubtful(W, n)
  PROVE  Doubtful(V, n) /\ V[n].draft = W[n].draft
  <1>1. V[n].id = None /\ V[n].told = "no" /\ V[n].draft = W[n].draft
    BY DEF Grows, Doubtful
  <1>2. ASSUME NEW m \in Attempts \ {n}, V[m] # None, V[m].id = None PROVE V[m].draft # V[n].draft
    BY <1>1, <1>2 DEF Grows, Doubtful
  <1> QED BY <1>1, <1>2 DEF Doubtful

LEMMA NotedAges ==
  ASSUME NEW V, NEW W, NEW nt, Ages(V, W), Noted(nt, V)
  PROVE  Noted(nt, W)
  <1> SUFFICES ASSUME NEW n \in Attempts, Doubtful(W, n) PROVE nt = W[n].draft BY DEF Noted
  <1>1. V[n] # None BY DEF Ages, Doubtful
  <1> QED BY <1>1, DoubtfulBefore DEF Ages, Noted

LEMMA SameAges == ASSUME NEW W PROVE Ages(W, W)
  BY DEF Ages, Grows

(* One tab moves, the others keep what they have. *)
LEMMA TabStep ==
  ASSUME IInv, NEW t \in Tabs, NEW tab \in Tab, Becomes(t, tab),
         Grows(writes, writes'), TabOK(tab, writes')
  PROVE  tabs' \in [Tabs -> Tab] /\ \A u \in Tabs : TabOK(tabs'[u], writes')
  <1>1. tabs \in [Tabs -> Tab] /\ \A u \in Tabs : TabOK(tabs[u], writes) BY DEF IInv, ClientsTypeOK
  <1>2. tabs' = [tabs EXCEPT ![t] = tab] BY DEF Becomes
  <1>3. tabs' \in [Tabs -> Tab] /\ tabs'[t] = tab /\ \A u \in Tabs \ {t} : tabs'[u] = tabs[u]
    BY <1>1, <1>2
  <1>4. ASSUME NEW u \in Tabs \ {t} PROVE TabOK(tabs[u], writes')
    BY ClientsAssumption, <1>1, KeepsTab
  <1> QED BY <1>3, <1>4

(* Steps that leave the note alone *)
LEMMA NoteStays ==
  ASSUME IInv, note' = note, Ages(writes, writes'),
         registry' \in [Ids -> Client \cup {None}], losses' \in 0..MaxLosses,
         writes' \in [Attempts -> Write \cup {None}],
         tabs' \in [Tabs -> Tab], \A u \in Tabs : TabOK(tabs'[u], writes')
  PROVE  IInv'
  <1>1. note' # None => Created(writes', note') BY CreatedGrows DEF IInv, Ages
  <1>2. Noted(note', writes') BY NotedAges DEF IInv
  <1>3. note' \in Draft \cup {None} BY DEF IInv, ClientsTypeOK
  <1> QED BY <1>1, <1>2, <1>3 DEF IInv, ClientsTypeOK

(* Steps that erase it *)
LEMMA NoteErased ==
  ASSUME IInv, note' = None, Ages(writes, writes'), registry' = registry,
         losses' \in 0..MaxLosses, writes' \in [Attempts -> Write \cup {None}],
         tabs' \in [Tabs -> Tab], \A u \in Tabs : TabOK(tabs'[u], writes'),
         \A n \in Attempts : Doubtful(writes, n) /\ note = writes[n].draft => writes'[n].told # "no"
  PROVE  IInv'
  <1>1. Noted(None, writes')
    <2> SUFFICES ASSUME NEW n \in Attempts, Doubtful(writes', n) PROVE FALSE BY DEF Noted
    <2>1. writes[n] # None BY DEF Ages, Doubtful
    <2>2. Doubtful(writes, n) BY <2>1, DoubtfulBefore DEF Ages
    <2> QED BY <2>2 DEF IInv, Noted, Doubtful
  <1> QED BY <1>1 DEF IInv, ClientsTypeOK

(* Only a tab moves. *)
LEMMA OnlyTab ==
  ASSUME IInv, NEW t \in Tabs, NEW tab \in Tab, Becomes(t, tab), TabOK(tab, writes),
         UNCHANGED <<registry, note, writes>>, losses' \in 0..MaxLosses
  PROVE  IInv'
  <1>1. writes' = writes /\ registry' = registry /\ note' = note OBVIOUS
  <1>2. Ages(writes, writes') BY <1>1, SameAges
  <1>3. tabs' \in [Tabs -> Tab] /\ \A u \in Tabs : TabOK(tabs'[u], writes')
    BY <1>1, <1>2, TabStep DEF Ages
  <1> QED BY <1>1, <1>2, <1>3, NoteStays DEF IInv, ClientsTypeOK

LEMMA FaultType == ASSUME ClientsTypeOK, Loss PROVE losses' \in 0..MaxLosses
  BY ClientsAssumption DEF Loss, ClientsTypeOK

LEMMA OwnTab ==
  ASSUME IInv, NEW t \in Tabs
  PROVE  tabs[t] \in Tab /\ TabOK(tabs[t], writes)
  BY DEF IInv, ClientsTypeOK

-----------------------------------------------------------------------------
(* The steps of the server *)

LEMMA WriteParts ==
  ASSUME NEW w \in Write
  PROVE  /\ w.id \in Ids \cup {None} /\ w.draft \in Draft
         /\ w.state \in {"sent", "done", "refused"} /\ w.saved \in Client \cup {None}
         /\ w.told \in {"no", "answered", "found"}
  BY DEF Write

LEMMA AnsweredStep ==
  ASSUME ClientsTypeOK, NEW n \in Attempts, writes[n] # None, NEW c \in Client \cup {None}, Answered(n, c)
  PROVE  writes' \in [Attempts -> Write \cup {None}] /\ Ages(writes, writes')
  <1> DEFINE w == [writes[n] EXCEPT !.state = IF c = None THEN "refused" ELSE "done", !.saved = c]
  <1>1. writes[n] \in Write BY DEF ClientsTypeOK
  <1>2. w \in Write /\ w.id = writes[n].id /\ w.draft = writes[n].draft /\ w.told = writes[n].told
    BY <1>1 DEF Write
  <1>3. writes' = [writes EXCEPT ![n] = w] BY DEF Answered
  <1>4. writes \in [Attempts -> Write \cup {None}] BY DEF ClientsTypeOK
  <1>5. w # None BY ClientsAssumption, <1>2
  <1> HIDE DEF w
  <1> QED BY <1>2, <1>3, <1>4, <1>5 DEF Ages, Grows

LEMMA ServerStep ==
  ASSUME IInv, NEW n \in Attempts, writes[n] # None, NEW c \in Client \cup {None},
         Answered(n, c), registry' \in [Ids -> Client \cup {None}],
         UNCHANGED <<note, tabs>>, losses' \in 0..MaxLosses
  PROVE  IInv'
  <1>1. writes' \in [Attempts -> Write \cup {None}] /\ Ages(writes, writes')
    BY AnsweredStep DEF IInv
  <1>2. tabs' \in [Tabs -> Tab] BY DEF IInv, ClientsTypeOK
  <1>3. ASSUME NEW u \in Tabs PROVE TabOK(tabs'[u], writes')
    <2>1. tabs[u] \in Tab /\ TabOK(tabs[u], writes) BY OwnTab
    <2>2. TabOK(tabs[u], writes') BY ClientsAssumption, <1>1, <2>1, KeepsTab DEF Ages
    <2>3. tabs' = tabs OBVIOUS
    <2> QED BY <2>2, <2>3
  <1>4. note' = note OBVIOUS
  <1> QED BY <1>1, <1>2, <1>3, <1>4, NoteStays

(* The client a write leaves *)
LEMMA ExecutedType ==
  ASSUME IInv, VInv, NEW n \in Attempts, writes[n] # None, NEW i \in Ids,
         writes[n].id # None => i = writes[n].id
  PROVE  [id |-> i, draft |-> writes[n].draft,
          version |-> IF writes[n].id = None THEN 1 ELSE registry[i].version + 1] \in Client
  <1>1. writes[n] \in Write BY DEF IInv, ClientsTypeOK
  <1>2. writes[n].draft \in Draft BY <1>1, WriteParts
  <1>3. writes[n].id # None => registry[i] \in Client
    BY DEF VInv, WriteKnown, IInv, ClientsTypeOK
  <1>4. (IF writes[n].id = None THEN 1 ELSE registry[i].version + 1) \in Nat BY <1>3 DEF Client
  <1> QED BY <1>2, <1>4 DEF Client

LEMMA ExecuteStep ==
  ASSUME IInv, VInv, NEW n \in Attempts, Execute(n)
  PROVE  IInv'
  <1>1. writes[n] # None /\ UNCHANGED <<note, tabs, losses>> BY DEF Execute
  <1>2. losses' \in 0..MaxLosses BY <1>1 DEF IInv, ClientsTypeOK
  <1>3. registry \in [Ids -> Client \cup {None}] BY DEF IInv, ClientsTypeOK
  <1>4. CASE Answered(n, None) /\ UNCHANGED registry
    BY <1>1, <1>2, <1>3, <1>4, ServerStep
  <1>5. CASE \E i \in Ids :
               /\ IF writes[n].id # None THEN i = writes[n].id
                  ELSE registry[i] = None /\ \A j \in 1..(i - 1) : registry[j] # None
               /\ LET saved == [id |-> i, draft |-> writes[n].draft,
                                version |-> IF writes[n].id = None THEN 1 ELSE registry[i].version + 1]
                  IN registry' = [registry EXCEPT ![i] = saved] /\ Answered(n, saved)
    <2>1. PICK i \in Ids :
               /\ writes[n].id # None => i = writes[n].id
               /\ LET saved == [id |-> i, draft |-> writes[n].draft,
                                version |-> IF writes[n].id = None THEN 1 ELSE registry[i].version + 1]
                  IN registry' = [registry EXCEPT ![i] = saved] /\ Answered(n, saved)
      BY <1>5
    <2> DEFINE saved == [id |-> i, draft |-> writes[n].draft,
                         version |-> IF writes[n].id = None THEN 1 ELSE registry[i].version + 1]
    <2>2. saved \in Client BY <1>1, <2>1, ExecutedType
    <2>3. registry' = [registry EXCEPT ![i] = saved] /\ Answered(n, saved) BY <2>1
    <2> HIDE DEF saved
    <2>4. registry' \in [Ids -> Client \cup {None}] BY <1>3, <2>2, <2>3
    <2> QED BY <1>1, <1>2, <2>2, <2>3, <2>4, ServerStep
  <1> QED BY <1>4, <1>5 DEF Execute

LEMMA RefuseStep ==
  ASSUME IInv, NEW n \in Attempts, Refuse(n)
  PROVE  IInv'
  <1>1. writes[n] # None /\ Loss /\ Answered(n, None) /\ UNCHANGED <<registry, note, tabs>> BY DEF Refuse
  <1>2. losses' \in 0..MaxLosses BY <1>1, FaultType DEF IInv
  <1>3. registry' \in [Ids -> Client \cup {None}] BY <1>1 DEF IInv, ClientsTypeOK
  <1> QED BY <1>1, <1>2, <1>3, ServerStep

LEMMA OtherWriteStep ==
  ASSUME IInv, OtherWrite
  PROVE  IInv'
  <1>1. Loss /\ UNCHANGED <<note, tabs, writes>> BY DEF OtherWrite
  <1>2. PICK i \in Ids, d \in Draft :
           registry' = [registry EXCEPT ![i] =
             [id |-> i, draft |-> d, version |-> IF @ = None THEN 1 ELSE @.version + 1]]
    BY DEF OtherWrite
  <1>3. registry \in [Ids -> Client \cup {None}] BY DEF IInv, ClientsTypeOK
  <1>4. (IF registry[i] = None THEN 1 ELSE registry[i].version + 1) \in Nat BY <1>3 DEF Client
  <1>5. [id |-> i, draft |-> d, version |-> IF registry[i] = None THEN 1 ELSE registry[i].version + 1] \in Client
    BY <1>4 DEF Client
  <1>6. registry' \in [Ids -> Client \cup {None}] BY <1>2, <1>3, <1>5
  <1>7. writes' = writes /\ tabs' = tabs /\ note' = note BY <1>1
  <1>8. Ages(writes, writes') BY <1>7, SameAges
  <1>9. losses' \in 0..MaxLosses BY <1>1, FaultType DEF IInv
  <1> QED BY <1>6, <1>7, <1>8, <1>9, NoteStays DEF IInv, ClientsTypeOK

-----------------------------------------------------------------------------
(* The steps of a tab *)

LEMMA StillOK ==
  ASSUME NEW W, NEW old \in Tab, NEW tab \in Tab, TabOK(old, W), tab.mark = old.mark,
         tab.saving = None \/ (tab.saving = old.saving /\ tab.fenced = old.fenced),
         ~old.fenced \/ (tab.fenced = old.fenced /\ tab.draft = old.draft)
  PROVE  TabOK(tab, W)
  BY DEF TabOK, Marked, SavesMark

(* A tab that keeps its mark, and its draft while it is locked *)
LEMMA TabKeeps ==
  ASSUME IInv, NEW t \in Tabs, NEW tab \in Tab, Becomes(t, tab),
         UNCHANGED <<registry, note, writes>>, losses' \in 0..MaxLosses,
         tab.mark = tabs[t].mark, tab.saving = None \/ (tab.saving = tabs[t].saving /\ tab.fenced = tabs[t].fenced),
         ~tabs[t].fenced \/ (tab.fenced = tabs[t].fenced /\ tab.draft = tabs[t].draft)
  PROVE  IInv'
  <1>1. tabs[t] \in Tab /\ TabOK(tabs[t], writes) BY OwnTab
  <1>2. TabOK(tab, writes) BY <1>1, StillOK
  <1> QED BY <1>2, OnlyTab

LEMMA OpenStep ==
  ASSUME IInv, NEW t \in Tabs, Open(t)
  PROVE  IInv'
  <1> DEFINE tab == Listing([Closed EXCEPT !.open = TRUE], None)
  <1>1. UNCHANGED <<registry, note, writes>> BY DEF Open
  <1>2. [Closed EXCEPT !.open = TRUE] \in Tab BY DEF Closed, Tab
  <1>3. tab \in Tab /\ tab.mark = None /\ tab.saving = None /\ tab.fenced = TRUE
    BY <1>2, ListingType DEF Closed
  <1>4. note \in Draft \cup {None} /\ losses \in 0..MaxLosses BY DEF IInv, ClientsTypeOK
  <1>5. \/ note = None /\ Becomes(t, [tab EXCEPT !.fenced = FALSE]) /\ UNCHANGED losses
        \/ note # None /\ UNCHANGED losses
           /\ Becomes(t, [tab EXCEPT !.uncertain = TRUE, !.mark = note, !.draft = note])
        \/ Loss /\ Becomes(t, tab)
    BY DEF Open
  <1> HIDE DEF tab
  <1>6. CASE Becomes(t, [tab EXCEPT !.fenced = FALSE]) /\ UNCHANGED losses
    <2> DEFINE new == [tab EXCEPT !.fenced = FALSE]
    <2>1. new \in Tab /\ new.mark = None /\ new.saving = None BY <1>3 DEF Tab
    <2>2. Becomes(t, new) BY <1>6
    <2> HIDE DEF new
    <2>3. TabOK(new, writes) BY <2>1 DEF TabOK, Marked, SavesMark
    <2> QED BY <1>1, <1>4, <1>6, <2>1, <2>2, <2>3, OnlyTab
  <1>7. CASE /\ note # None /\ UNCHANGED losses
             /\ Becomes(t, [tab EXCEPT !.uncertain = TRUE, !.mark = note, !.draft = note])
    <2> DEFINE new == [tab EXCEPT !.uncertain = TRUE, !.mark = note, !.draft = note]
    <2>1. new \in Tab /\ new.mark = note /\ new.draft = note /\ new.saving = None /\ new.fenced
      BY <1>3, <1>4 DEF Tab
    <2>2. Becomes(t, new) BY <1>7
    <2> HIDE DEF new
    <2>3. TabOK(new, writes) BY <2>1 DEF TabOK, Marked, SavesMark
    <2> QED BY <1>1, <1>4, <1>7, <2>1, <2>2, <2>3, OnlyTab
  <1>8. CASE Loss /\ Becomes(t, tab)
    <2>1. TabOK(tab, writes) BY <1>3 DEF TabOK, Marked, SavesMark
    <2> QED BY <1>1, <1>3, <1>8, <2>1, OnlyTab, FaultType DEF IInv
  <1> QED BY <1>5, <1>6, <1>7, <1>8

LEMMA CloseStep ==
  ASSUME IInv, NEW t \in Tabs, Close(t)
  PROVE  IInv'
  <1>1. TabOK(Closed, writes) BY DEF TabOK, Marked, SavesMark, Closed
  <1> QED BY <1>1, ClosedType, OnlyTab DEF Close, IInv, ClientsTypeOK

LEMMA LogoutFailsStep ==
  ASSUME IInv, NEW t \in Tabs, LogoutFails(t)
  PROVE  IInv'
  <1> DEFINE new == Interrupted(tabs[t])
  <1>1. tabs[t] \in Tab BY OwnTab
  <1>2. /\ new \in Tab /\ new.mark = tabs[t].mark /\ new.saving = None
        /\ new.fenced = tabs[t].fenced /\ new.draft = tabs[t].draft
    BY <1>1 DEF Interrupted, Tab
  <1>3. Becomes(t, new) /\ UNCHANGED <<registry, note, writes, losses>> BY DEF LogoutFails
  <1> HIDE DEF new
  <1> QED BY <1>2, <1>3, TabKeeps DEF IInv, ClientsTypeOK

LEMMA ServeStep ==
  ASSUME IInv, NEW t \in Tabs, Serve(t)
  PROVE  IInv'
  <1>1. tabs[t] \in Tab /\ tabs \in [Tabs -> Tab] BY DEF IInv, ClientsTypeOK
  <1>2. UNCHANGED <<registry, note, writes, losses>> BY DEF Serve
  <1>3. losses' \in 0..MaxLosses BY <1>2 DEF IInv, ClientsTypeOK
  <1>4. ASSUME NEW q \in Reading, NEW rows \in SUBSET Client PROVE [q EXCEPT !.rows = rows] \in Reading
    BY DEF Reading
  <1>5. CASE tabs[t].reading # None /\ tabs' = [tabs EXCEPT ![t].reading.rows = List(tabs[t].reading.query)]
    <2> DEFINE q == [tabs[t].reading EXCEPT !.rows = List(tabs[t].reading.query)]
    <2>1. q \in Reading BY <1>1, <1>4, <1>5, TabParts, ListType DEF IInv
    <2> DEFINE new == [tabs[t] EXCEPT !.reading = q]
    <2>2. Becomes(t, new) BY <1>5 DEF Becomes
    <2> HIDE DEF q
    <2>3. /\ new \in Tab /\ new.mark = tabs[t].mark /\ new.saving = tabs[t].saving
          /\ new.fenced = tabs[t].fenced /\ new.draft = tabs[t].draft
      BY <1>1, <2>1 DEF Tab
    <2> HIDE DEF new
    <2> QED BY <1>2, <1>3, <2>2, <2>3, TabKeeps
  <1>6. CASE tabs[t].checking # None /\ tabs' = [tabs EXCEPT ![t].checking.rows = List(None)]
    <2> DEFINE q == [tabs[t].checking EXCEPT !.rows = List(None)]
    <2>1. q \in Reading BY <1>1, <1>4, <1>6, TabParts, ListType DEF IInv
    <2> DEFINE new == [tabs[t] EXCEPT !.checking = q]
    <2>2. Becomes(t, new) BY <1>6 DEF Becomes
    <2> HIDE DEF q
    <2>3. /\ new \in Tab /\ new.mark = tabs[t].mark /\ new.saving = tabs[t].saving
          /\ new.fenced = tabs[t].fenced /\ new.draft = tabs[t].draft
      BY <1>1, <2>1 DEF Tab
    <2> HIDE DEF new
    <2> QED BY <1>2, <1>3, <2>2, <2>3, TabKeeps
  <1> QED BY <1>5, <1>6 DEF Serve

LEMMA ListComesStep ==
  ASSUME IInv, NEW t \in Tabs, ListComes(t)
  PROVE  IInv'
  <1>1. tabs[t] \in Tab BY OwnTab
  <1>2. UNCHANGED <<registry, note, writes>> BY DEF ListComes
  <1>3. losses' \in 0..MaxLosses BY FaultType DEF ListComes, IInv, ClientsTypeOK
  <1>4. PICK l \in SUBSET Client : Becomes(t, [tabs[t] EXCEPT !.reading = None, !.list = l])
    <2>1. CASE tabs[t].reading # None /\ tabs[t].reading.rows # None
               /\ Becomes(t, [tabs[t] EXCEPT !.reading = None, !.list = tabs[t].reading.rows])
      <3>1. tabs[t].reading.rows \in SUBSET Client BY <1>1, <2>1, TabParts DEF Reading
      <3> QED BY <2>1, <3>1
    <2>2. CASE Becomes(t, [tabs[t] EXCEPT !.reading = None])
      <3>1. [tabs[t] EXCEPT !.reading = None] = [tabs[t] EXCEPT !.reading = None, !.list = tabs[t].list]
        BY <1>1 DEF Tab
      <3> QED BY <1>1, <2>2, <3>1, TabParts
    <2> QED BY <2>1, <2>2 DEF ListComes
  <1> DEFINE new == [tabs[t] EXCEPT !.reading = None, !.list = l]
  <1>5. /\ new \in Tab /\ new.mark = tabs[t].mark /\ new.saving = tabs[t].saving
        /\ new.fenced = tabs[t].fenced /\ new.draft = tabs[t].draft
    BY <1>1 DEF Tab
  <1>6. Becomes(t, new) BY <1>4
  <1> HIDE DEF new
  <1> QED BY <1>2, <1>3, <1>5, <1>6, TabKeeps

(* Selecting, searching and reading again: the tab is not locked. *)
LEMMA BrowseStep ==
  ASSUME IInv, NEW t \in Tabs, SelectClient(t) \/ Search(t) \/ Refresh(t)
  PROVE  IInv'
  <1>1. tabs[t] \in Tab BY OwnTab
  <1>2. UNCHANGED <<registry, note, writes, losses>> /\ ~tabs[t].fenced /\ tabs[t].saving = None
    BY DEF SelectClient, Search, Refresh, Free, Quiet
  <1>3. losses' \in 0..MaxLosses BY <1>2 DEF IInv, ClientsTypeOK
  <1>4. PICK new \in Tab : Becomes(t, new) /\ new.mark = tabs[t].mark /\ new.saving = tabs[t].saving
    <2>1. CASE SelectClient(t)
      <3>1. PICK c \in tabs[t].list : Becomes(t, Selecting(tabs[t], c.id)) BY <2>1 DEF SelectClient
      <3>2. c.id \in Ids BY <1>1, TabParts DEF Client
      <3> QED BY <1>1, <3>1, <3>2, SelectingType
    <2>2. CASE Search(t)
      <3>1. PICK q \in Phones \cup {None} : Becomes(t, Listing(Selecting(tabs[t], None), q))
        BY ClientsAssumption, <2>2 DEF Search
      <3>2. Selecting(tabs[t], None) \in Tab BY <1>1, SelectingType
      <3> QED BY <1>1, <3>1, <3>2, SelectingType, ListingType
    <2>3. CASE Refresh(t)
      <3>1. tabs[t].query \in Phones \cup {None} BY <1>1, TabParts
      <3> QED BY <1>1, <2>3, <3>1, ListingType DEF Refresh
    <2> QED BY <2>1, <2>2, <2>3
  <1> QED BY <1>2, <1>3, <1>4, TabKeeps

-----------------------------------------------------------------------------
(* Saving *)

LEMMA SendsStep ==
  ASSUME IInv, NEW t \in Tabs, NEW tab \in Tab, NEW i \in Ids \cup {None}, NEW d \in Draft,
         NEW n \in Attempts, Sends(t, tab, i, d, n),
         Marked(tab, writes), IF i = None THEN tab.mark = d ELSE ~tab.fenced
  PROVE  /\ writes' \in [Attempts -> Write \cup {None}] /\ Grows(writes, writes')
         /\ tabs' \in [Tabs -> Tab] /\ \A u \in Tabs : TabOK(tabs'[u], writes')
         /\ writes[n] = None /\ writes'[n] # None /\ writes'[n].id = i /\ writes'[n].draft = d
         /\ \A m \in Attempts \ {n} : writes'[m] = writes[m]
  <1> DEFINE w == [id |-> i, draft |-> d, state |-> "sent", saved |-> None, told |-> "no"]
  <1> DEFINE new == [GivesUpReading(tab) EXCEPT !.saving = n]
  <1>1. w \in Write /\ w.id = i /\ w.draft = d BY DEF Write
  <1>2. writes[n] = None /\ writes' = [writes EXCEPT ![n] = w] /\ Becomes(t, new) BY DEF Sends
  <1>3. writes \in [Attempts -> Write \cup {None}] BY DEF IInv, ClientsTypeOK
  <1>4. /\ new \in Tab /\ new.saving = n /\ new.mark = tab.mark
        /\ new.fenced = tab.fenced /\ new.draft = tab.draft
    BY DEF GivesUpReading, Tab
  <1>5. w # None BY ClientsAssumption, <1>1
  <1> HIDE DEF w, new
  <1>6. /\ writes' \in [Attempts -> Write \cup {None}] /\ writes'[n] = w
        /\ \A m \in Attempts \ {n} : writes'[m] = writes[m]
    BY <1>1, <1>2, <1>3
  <1>7. Grows(writes, writes') BY <1>2, <1>6 DEF Grows
  <1>8. Marked(new, writes')
    <2> DEFINE none == [tab EXCEPT !.saving = None]
    <2>1. none \in Tab /\ none.saving = None /\ none.mark = tab.mark
          /\ none.fenced = tab.fenced /\ none.draft = tab.draft
      BY DEF Tab
    <2> HIDE DEF none
    <2>2. TabOK(none, writes) BY <2>1 DEF TabOK, Marked, SavesMark
    <2>3. TabOK(none, writes') BY ClientsAssumption, <1>7, <2>1, <2>2, KeepsTab
    <2> QED BY <1>4, <2>1, <2>3 DEF TabOK, Marked
  <1>9. SavesMark(new, writes') BY <1>1, <1>4, <1>5, <1>6 DEF SavesMark
  <1>10. tabs' \in [Tabs -> Tab] /\ \A u \in Tabs : TabOK(tabs'[u], writes')
    BY <1>2, <1>4, <1>7, <1>8, <1>9, TabStep DEF TabOK
  <1> QED BY <1>1, <1>2, <1>5, <1>6, <1>7, <1>10

LEMMA SaveEditStep ==
  ASSUME IInv, NEW t \in Tabs, SaveEdit(t)
  PROVE  IInv'
  <1>1. tabs[t] \in Tab /\ TabOK(tabs[t], writes) BY OwnTab
  <1>2. PICK d \in Draft, n \in Attempts : Sends(t, tabs[t], tabs[t].selected, d, n)
    BY DEF SaveEdit
  <1>3. tabs[t].selected \in Ids /\ tabs[t].selected # None /\ ~tabs[t].fenced
    BY <1>1, TabParts DEF SaveEdit, Free
  <1>4. /\ writes' \in [Attempts -> Write \cup {None}] /\ Grows(writes, writes')
        /\ tabs' \in [Tabs -> Tab] /\ \A u \in Tabs : TabOK(tabs'[u], writes')
        /\ writes[n] = None /\ writes'[n].id = tabs[t].selected
        /\ \A m \in Attempts \ {n} : writes'[m] = writes[m]
    BY <1>1, <1>2, <1>3, SendsStep DEF TabOK
  <1>5. Ages(writes, writes') BY <1>3, <1>4 DEF Ages
  <1>6. UNCHANGED <<registry, note, losses>> BY DEF SaveEdit
  <1> QED BY <1>4, <1>5, <1>6, NoteStays DEF IInv, ClientsTypeOK

LEMMA LockedType ==
  ASSUME NEW tab \in Tab, NEW d \in Draft
  PROVE  LET lock == [tab EXCEPT !.draft = d, !.fenced = TRUE, !.uncertain = TRUE]
         IN  /\ lock \in Tab /\ lock.mark = tab.mark /\ lock.saving = tab.saving
             /\ lock.fenced /\ lock.draft = d
  BY DEF Tab

LEMMA SaveNewStep ==
  ASSUME IInv, NEW t \in Tabs, SaveNew(t)
  PROVE  IInv'
  <1> DEFINE idle == Selecting(tabs[t], None)
  <1> DEFINE locked(d) == [idle EXCEPT !.draft = d, !.fenced = TRUE, !.uncertain = TRUE]
  <1> DEFINE marked(d) == [locked(d) EXCEPT !.mark = d]
  <1>1. tabs[t] \in Tab /\ TabOK(tabs[t], writes) /\ idle \in Tab
        /\ idle.mark = tabs[t].mark /\ idle.saving = tabs[t].saving
    BY OwnTab, SelectingType
  <1>2. Free(tabs[t]) /\ registry' = registry BY DEF SaveNew
  <1>3. ~tabs[t].fenced /\ tabs[t].saving = None BY <1>2 DEF Free, Quiet
  <1>4. PICK d \in Draft :
          \/ /\ note = None /\ note' = d /\ UNCHANGED losses
             /\ \E n \in Attempts : Sends(t, marked(d), None, d, n)
          \/ note # None /\ Becomes(t, locked(d)) /\ UNCHANGED <<note, writes, losses>>
          \/ note = None /\ Loss /\ Becomes(t, marked(d)) /\ UNCHANGED <<note, writes>>
    BY DEF SaveNew
  <1> DEFINE lock == locked(d)
  <1> DEFINE mark == marked(d)
  <1>5. d \in Draft BY <1>4
  <1> HIDE DEF idle
  <1>7. lock \in Tab /\ lock.mark = tabs[t].mark /\ lock.saving = None /\ lock.fenced /\ lock.draft = d
    BY <1>1, <1>3, <1>5, LockedType
  <1>8. mark \in Tab /\ mark.mark = d /\ mark.saving = None /\ mark.fenced /\ mark.draft = d
    <2>1. mark = [lock EXCEPT !.mark = d] OBVIOUS
    <2> HIDE DEF lock, mark
    <2> QED BY <1>5, <1>7, <2>1 DEF Tab
  <1>9. CASE note = None /\ note' = d /\ UNCHANGED losses /\ \E n \in Attempts : Sends(t, mark, None, d, n)
    <2> HIDE DEF mark
    <2>1. PICK n \in Attempts : Sends(t, mark, None, d, n) BY <1>9
    <2>2. Marked(mark, writes) BY <1>8 DEF Marked
    <2>3. /\ writes' \in [Attempts -> Write \cup {None}] /\ Grows(writes, writes')
          /\ tabs' \in [Tabs -> Tab] /\ \A u \in Tabs : TabOK(tabs'[u], writes')
          /\ writes[n] = None /\ writes'[n] # None /\ writes'[n].id = None /\ writes'[n].draft = d
          /\ \A m \in Attempts \ {n} : writes'[m] = writes[m]
      BY <1>8, <2>1, <2>2, SendsStep
    <2>4. Created(writes', d) BY <2>3 DEF Created
    <2>5. Noted(d, writes')
      <3> SUFFICES ASSUME NEW m \in Attempts, Doubtful(writes', m) PROVE d = writes'[m].draft BY DEF Noted
      <3>1. CASE m = n BY <2>3, <3>1
      <3>2. CASE m # n
        <4>1. writes[m] # None BY <2>3, <3>2 DEF Doubtful
        <4>2. Doubtful(writes, m) /\ writes[m].draft \in Draft
          BY <2>3, <4>1, DoubtfulBefore, WriteParts DEF IInv, ClientsTypeOK
        <4> QED BY ClientsAssumption, <1>9, <4>2 DEF IInv, Noted
      <3> QED BY <3>1, <3>2
    <2> QED BY <1>2, <1>9, <2>3, <2>4, <2>5 DEF IInv, ClientsTypeOK
  <1>10. CASE Becomes(t, lock) /\ UNCHANGED <<note, writes, losses>>
    <2> HIDE DEF lock
    <2>1. UNCHANGED <<registry, note, writes>> BY <1>2, <1>10
    <2>2. losses' \in 0..MaxLosses BY <1>10 DEF IInv, ClientsTypeOK
    <2> QED BY <1>3, <1>7, <1>10, <2>1, <2>2, TabKeeps
  <1>11. CASE Loss /\ Becomes(t, mark) /\ UNCHANGED <<note, writes>>
    <2> HIDE DEF mark
    <2>1. TabOK(mark, writes) BY <1>8 DEF TabOK, Marked, SavesMark
    <2> QED BY <1>2, <1>8, <1>11, <2>1, OnlyTab, FaultType DEF IInv
  <1> QED BY <1>4, <1>9, <1>10, <1>11

-----------------------------------------------------------------------------
(* Answers *)

LEMMA ToldStep ==
  ASSUME ClientsTypeOK, NEW n \in Attempts, writes[n] # None, NEW how \in {"answered", "found"}
  PROVE  /\ Told(n, how) \in [Attempts -> Write \cup {None}] /\ Ages(writes, Told(n, how))
         /\ Told(n, how)[n].told # "no"
         /\ \A m \in Attempts \ {n} : Told(n, how)[m] = writes[m]
  <1> DEFINE w == [writes[n] EXCEPT !.told = IF writes[n].told = "no" THEN how ELSE writes[n].told,
                                    !.saved = None]
  <1>1. writes[n] \in Write /\ writes \in [Attempts -> Write \cup {None}] BY DEF ClientsTypeOK
  <1>2. (IF writes[n].told = "no" THEN how ELSE writes[n].told) \in {"answered", "found"}
    BY <1>1, WriteParts
  <1>3. /\ w \in Write /\ w.id = writes[n].id /\ w.draft = writes[n].draft
        /\ w.told \in {"answered", "found"}
    BY <1>1, <1>2 DEF Write
  <1>4. Told(n, how) = [writes EXCEPT ![n] = w] BY <1>1 DEF Told
  <1>5. w # None BY ClientsAssumption, <1>3
  <1> HIDE DEF w
  <1>6. Told(n, how)[n] = w /\ \A m \in Attempts \ {n} : Told(n, how)[m] = writes[m] BY <1>1, <1>4
  <1>7. Told(n, how) \in [Attempts -> Write \cup {None}] BY <1>1, <1>3, <1>4
  <1>8. Ages(writes, Told(n, how)) BY <1>3, <1>5, <1>6 DEF Ages, Grows
  <1> QED BY <1>3, <1>6, <1>7, <1>8

(* The user is told of the creation this tab is saving, and its note is erased. *)
LEMMA DecidedStep ==
  ASSUME IInv, NEW t \in Tabs, NEW tab \in Tab, Becomes(t, tab), tab.saving = None,
         tabs[t].saving # None, writes[tabs[t].saving].id = None, tab.mark = tabs[t].mark,
         Owns(tabs[t]), note' = None, UNCHANGED <<registry, losses>>,
         writes' = Told(tabs[t].saving, "answered")
  PROVE  IInv'
  <1> DEFINE n == tabs[t].saving
  <1>1. tabs[t] \in Tab /\ TabOK(tabs[t], writes) BY OwnTab
  <1>2. n \in Attempts BY <1>1, TabParts
  <1>3. writes[n] # None /\ writes[n].draft = tabs[t].mark BY <1>1 DEF TabOK, SavesMark
  <1>4. /\ writes' \in [Attempts -> Write \cup {None}] /\ Ages(writes, writes')
        /\ writes'[n].told # "no"
    BY <1>2, <1>3, ToldStep DEF IInv
  <1>5. tabs[t].mark # None /\ note = tabs[t].mark BY DEF Owns
  <1>6. writes'[n] # None /\ writes'[n].id = None /\ writes'[n].draft = tabs[t].mark
    BY <1>2, <1>3, <1>4 DEF Ages, Grows
  <1>7. TabOK(tab, writes') BY <1>2, <1>4, <1>6 DEF TabOK, Marked, Settled, SavesMark
  <1>8. tabs' \in [Tabs -> Tab] /\ \A u \in Tabs : TabOK(tabs'[u], writes')
    BY <1>4, <1>7, TabStep DEF Ages
  <1>9. ASSUME NEW m \in Attempts, Doubtful(writes, m), note = writes[m].draft
        PROVE writes'[m].told # "no"
    BY <1>2, <1>3, <1>4, <1>5, <1>9 DEF Doubtful
  <1>10. losses' \in 0..MaxLosses BY DEF IInv, ClientsTypeOK
  <1> QED BY <1>4, <1>8, <1>9, <1>10, NoteErased

LEMMA UndecidedType ==
  ASSUME NEW tab \in Tab
  PROVE  /\ Undecided(tab) \in Tab /\ Undecided(tab).saving = None /\ Undecided(tab).mark = tab.mark
         /\ Undecided(tab).fenced = tab.fenced /\ Undecided(tab).draft = tab.draft
  BY DEF Undecided, Tab

(* The note is kept: the tab only stops waiting. *)
LEMMA UndecidedStep ==
  ASSUME IInv, NEW t \in Tabs, Becomes(t, Undecided(tabs[t])),
         UNCHANGED <<registry, note, writes>>, losses' \in 0..MaxLosses
  PROVE  IInv'
  <1>1. tabs[t] \in Tab BY OwnTab
  <1> QED BY <1>1, UndecidedType, TabKeeps

LEMMA KeptType ==
  ASSUME IInv, NEW t \in Tabs, Kept(tabs[t])
  PROVE  note' = note /\ losses' \in 0..MaxLosses
  <1>1. losses \in 0..MaxLosses BY DEF IInv, ClientsTypeOK
  <1> QED BY <1>1, FaultType DEF Kept, IInv

LEMMA SaveDoneStep ==
  ASSUME IInv, VInv, NEW t \in Tabs, SaveDone(t)
  PROVE  IInv'
  <1> DEFINE n == tabs[t].saving
  <1>1. /\ tabs[t] \in Tab /\ TabOK(tabs[t], writes) /\ n # None /\ n \in Attempts
        /\ writes[n] # None /\ writes[n].state = "done" /\ registry' = registry
    BY OwnTab, TabParts DEF SaveDone, TabOK, SavesMark
  <1>2. writes[n] \in Write BY <1>1 DEF IInv, ClientsTypeOK
  <1>3. writes[n].saved \in Client BY <1>1, <1>2, WriteParts DEF VInv, SavesNewer
  <1>4. CASE /\ writes[n].id # None /\ Becomes(t, Adopted(tabs[t], writes[n].saved, FALSE))
             /\ writes' = Told(n, "answered") /\ UNCHANGED <<note, losses>>
    <2> DEFINE new == Adopted(tabs[t], writes[n].saved, FALSE)
    <2>1. new \in Tab /\ new.mark = tabs[t].mark /\ new.saving = None BY <1>1, <1>3, SavedType
    <2>2. Becomes(t, new) BY <1>4
    <2> HIDE DEF new
    <2>3. writes' \in [Attempts -> Write \cup {None}] /\ Ages(writes, writes')
      BY <1>1, <1>4, ToldStep DEF IInv
    <2>4. TabOK(tabs[t], writes') BY ClientsAssumption, <1>1, <2>3, KeepsTab DEF Ages
    <2>5. TabOK(new, writes')
      <3>1. ~tabs[t].fenced BY <1>1, <1>4 DEF TabOK, SavesMark
      <3> QED BY <1>1, <2>1, <2>4, <3>1, StillOK
    <2>6. tabs' \in [Tabs -> Tab] /\ \A u \in Tabs : TabOK(tabs'[u], writes')
      BY <2>1, <2>2, <2>3, <2>5, TabStep DEF Ages
    <2>7. note' = note /\ losses' \in 0..MaxLosses BY <1>4 DEF IInv, ClientsTypeOK
    <2>8. registry' \in [Ids -> Client \cup {None}] BY <1>1 DEF IInv, ClientsTypeOK
    <2> QED BY <2>3, <2>6, <2>7, <2>8, NoteStays
  <1>5. CASE /\ writes[n].id = None /\ Owns(tabs[t]) /\ Erased /\ writes' = Told(n, "answered")
             /\ Becomes(t, Adopted(Cleared(tabs[t]), writes[n].saved, TRUE))
    <2> DEFINE new == Adopted(Cleared(tabs[t]), writes[n].saved, TRUE)
    <2>1. Cleared(tabs[t]) \in Tab /\ Cleared(tabs[t]).mark = tabs[t].mark BY <1>1, ClearedType
    <2>2. new \in Tab /\ new.mark = tabs[t].mark /\ new.saving = None BY <1>3, <2>1, SavedType
    <2>3. Becomes(t, new) BY <1>5
    <2> HIDE DEF new
    <2>4. note' = None /\ UNCHANGED <<registry, losses>> BY <1>1, <1>5 DEF Erased
    <2> QED BY <1>1, <1>5, <2>2, <2>3, <2>4, DecidedStep
  <1>6. CASE Kept(tabs[t]) /\ Becomes(t, Undecided(tabs[t])) /\ UNCHANGED writes
    <2>1. note' = note /\ losses' \in 0..MaxLosses BY <1>6, KeptType
    <2> QED BY <1>1, <1>6, <2>1, UndecidedStep
  <1> QED BY <1>4, <1>5, <1>6 DEF SaveDone

LEMMA SaveFailsStep ==
  ASSUME IInv, NEW t \in Tabs, SaveFails(t)
  PROVE  IInv'
  <1> DEFINE n == tabs[t].saving
  <1>1. tabs[t] \in Tab /\ n # None /\ registry' = registry BY OwnTab DEF SaveFails
  <1>2. PICK code \in {"refused", "fails"} :
          \/ /\ writes[n].id = None /\ Rejects(code) /\ Owns(tabs[t]) /\ note' = None
             /\ Becomes(t, Cleared(Undecided(tabs[t])))
             /\ IF code = "fails" THEN Loss /\ UNCHANGED writes
                ELSE writes' = Told(n, "answered") /\ UNCHANGED losses
          \/ /\ Kept(tabs[t]) /\ Becomes(t, Undecided(tabs[t])) /\ UNCHANGED writes
          \/ /\ IF code = "fails" THEN Loss ELSE UNCHANGED losses
             /\ Becomes(t, Undecided(tabs[t])) /\ UNCHANGED <<note, writes>>
    BY DEF SaveFails
  <1>3. CASE /\ writes[n].id = None /\ Owns(tabs[t]) /\ note' = None
             /\ Becomes(t, Cleared(Undecided(tabs[t])))
             /\ writes' = Told(n, "answered") /\ UNCHANGED losses
    <2> DEFINE new == Cleared(Undecided(tabs[t]))
    <2>1. new \in Tab /\ new.mark = tabs[t].mark /\ new.saving = None
      BY <1>1, UndecidedType, ClearedType
    <2>2. Becomes(t, new) BY <1>3
    <2> HIDE DEF new
    <2> QED BY <1>1, <1>3, <2>1, <2>2, DecidedStep
  <1>4. CASE Kept(tabs[t]) /\ Becomes(t, Undecided(tabs[t])) /\ UNCHANGED writes
    <2>1. note' = note /\ losses' \in 0..MaxLosses BY <1>4, KeptType
    <2> QED BY <1>1, <1>4, <2>1, UndecidedStep
  <1>5. CASE /\ IF code = "fails" THEN Loss ELSE UNCHANGED losses
             /\ Becomes(t, Undecided(tabs[t])) /\ UNCHANGED <<note, writes>>
    <2>1. losses' \in 0..MaxLosses BY <1>5, FaultType DEF IInv, ClientsTypeOK
    <2> QED BY <1>1, <1>5, <2>1, UndecidedStep
  <1>6. Rejects(code) => code = "refused" BY DEF Rejects
  <1> QED BY <1>2, <1>3, <1>4, <1>5, <1>6

LEMMA CheckStep ==
  ASSUME IInv, NEW t \in Tabs, Check(t)
  PROVE  IInv'
  <1> DEFINE new == [tabs[t] EXCEPT !.reading = None, !.checking = Asked(None)]
  <1>1. tabs[t] \in Tab BY OwnTab
  <1>2. Asked(None) \in Reading BY DEF Asked, Reading
  <1>3. /\ new \in Tab /\ new.mark = tabs[t].mark /\ new.saving = tabs[t].saving
        /\ new.fenced = tabs[t].fenced /\ new.draft = tabs[t].draft
    <2> HIDE DEF Asked
    <2> QED BY <1>1, <1>2 DEF Tab
  <1>4. Becomes(t, new) /\ UNCHANGED <<registry, note, writes, losses>> BY DEF Check
  <1> HIDE DEF new
  <1> QED BY <1>3, <1>4, TabKeeps DEF IInv, ClientsTypeOK

(* The check found the client: whoever created that draft is told. *)
LEMMA FoundStep ==
  ASSUME IInv, NEW t \in Tabs, NEW tab \in Tab, Becomes(t, tab), tab.saving = None,
         tab.mark = tabs[t].mark, Owns(tabs[t]), note' = None, UNCHANGED <<registry, losses>>,
         writes' = [n \in Attempts |->
             IF writes[n] # None /\ writes[n].id = None /\ writes[n].draft = tabs[t].draft /\ writes[n].told = "no"
             THEN [writes[n] EXCEPT !.told = "found"] ELSE writes[n]]
  PROVE  IInv'
  <1>1. tabs[t] \in Tab /\ TabOK(tabs[t], writes) /\ tabs[t].mark # None /\ note = tabs[t].mark
    BY OwnTab DEF Owns
  <1>2. writes \in [Attempts -> Write \cup {None}] BY DEF IInv, ClientsTypeOK
  <1>3. ASSUME NEW w \in Write
        PROVE  /\ [w EXCEPT !.told = "found"] \in Write
               /\ [w EXCEPT !.told = "found"].id = w.id /\ [w EXCEPT !.told = "found"].draft = w.draft
               /\ [w EXCEPT !.told = "found"].told = "found"
    BY DEF Write
  <1>4. ASSUME NEW n \in Attempts, writes[n] # None
        PROVE  /\ writes'[n] \in Write /\ writes'[n].id = writes[n].id /\ writes'[n].draft = writes[n].draft
               /\ writes[n].told # "no" => writes'[n].told # "no"
               /\ writes[n].id = None /\ writes[n].draft = tabs[t].draft => writes'[n].told # "no"
    BY <1>2, <1>3, <1>4
  <1>5. ASSUME NEW n \in Attempts, writes[n] = None PROVE writes'[n] = None BY <1>5
  <1>6. writes' \in [Attempts -> Write \cup {None}] BY <1>2, <1>3
  <1>7. Ages(writes, writes') BY ClientsAssumption, <1>4, <1>5 DEF Ages, Grows
  <1>8. Settled(writes', tabs[t].mark)
    <2>1. CASE Settled(writes, tabs[t].mark)
      <3>1. PICK n \in Attempts : /\ writes[n] # None /\ writes[n].id = None
                                  /\ writes[n].draft = tabs[t].mark /\ writes[n].told # "no"
        BY <2>1 DEF Settled
      <3> QED BY <1>7, <3>1 DEF Ages, Grows, Settled
    <2>2. CASE tabs[t].draft = tabs[t].mark
      <3>1. PICK n \in Attempts : writes[n] # None /\ writes[n].id = None /\ writes[n].draft = note
        BY <1>1 DEF IInv, Created
      <3> QED BY <1>1, <1>4, <1>7, <2>2, <3>1 DEF Ages, Grows, Settled
    <2> QED BY <1>1, <2>1, <2>2 DEF TabOK, Marked
  <1>9. TabOK(tab, writes') BY <1>8 DEF TabOK, Marked, SavesMark
  <1>10. tabs' \in [Tabs -> Tab] /\ \A u \in Tabs : TabOK(tabs'[u], writes')
    BY <1>7, <1>9, TabStep DEF Ages
  <1>11. ASSUME NEW m \in Attempts, Doubtful(writes, m), note = writes[m].draft
         PROVE  writes'[m].told # "no"
    <2>1. PICK n \in Attempts : /\ writes'[n] # None /\ writes'[n].id = None
                                /\ writes'[n].draft = note /\ writes'[n].told # "no"
      BY <1>1, <1>8 DEF Settled
    <2>2. writes[n] # None BY <2>1, <1>5
    <2>3. writes[n].id = None /\ writes[n].draft = note BY <1>4, <2>1, <2>2
    <2> QED BY <1>11, <2>1, <2>2, <2>3 DEF Doubtful
  <1>12. losses' \in 0..MaxLosses BY DEF IInv, ClientsTypeOK
  <1> QED BY <1>6, <1>7, <1>10, <1>11, <1>12, NoteErased

LEMMA CheckComesStep ==
  ASSUME IInv, VInv, NEW t \in Tabs, CheckComes(t)
  PROVE  IInv'
  <1> DEFINE done == [tabs[t] EXCEPT !.checking = None]
  <1>1. tabs[t] \in Tab /\ tabs[t].checking # None /\ registry' = registry BY OwnTab DEF CheckComes
  <1>2. /\ done \in Tab /\ done.mark = tabs[t].mark /\ done.saving = tabs[t].saving
        /\ done.fenced = tabs[t].fenced /\ done.draft = tabs[t].draft
    BY <1>1 DEF Tab
  <1>3. tabs[t].saving = None BY <1>1 DEF VInv, SavesNewer
  <1> HIDE DEF done
  <1>4. CASE Becomes(t, done) /\ UNCHANGED <<note, writes>> /\ losses' \in 0..MaxLosses
    BY <1>1, <1>2, <1>4, TabKeeps
  <1>5. CASE /\ tabs[t].checking.rows # None /\ Found(tabs[t]) # {} /\ Owns(tabs[t]) /\ Erased
             /\ writes' = [n \in Attempts |->
                 IF writes[n] # None /\ writes[n].id = None /\ writes[n].draft = tabs[t].draft /\ writes[n].told = "no"
                 THEN [writes[n] EXCEPT !.told = "found"] ELSE writes[n]]
             /\ \E c \in Found(tabs[t]) :
                  Becomes(t, [Selecting(Cleared(done), c.id) EXCEPT !.list = tabs[t].checking.rows, !.query = None])
    <2>1. tabs[t].checking.rows \in SUBSET Client BY <1>1, <1>5, TabParts DEF Reading
    <2>2. PICK c \in Found(tabs[t]) :
            Becomes(t, [Selecting(Cleared(done), c.id) EXCEPT !.list = tabs[t].checking.rows, !.query = None])
      BY <1>5
    <2>3. c.id \in Ids BY <2>1, <2>2 DEF Found, Client
    <2> DEFINE cleared == Selecting(Cleared(done), c.id)
    <2>4. cleared \in Tab /\ cleared.mark = tabs[t].mark /\ cleared.saving = None
      BY <1>2, <1>3, <2>3, ClearedType, SelectingType
    <2> HIDE DEF cleared
    <2> DEFINE new == [cleared EXCEPT !.list = tabs[t].checking.rows, !.query = None]
    <2>5. new \in Tab /\ new.mark = tabs[t].mark /\ new.saving = None BY <2>1, <2>4 DEF Tab
    <2>6. Becomes(t, new) BY <2>2 DEF cleared
    <2> HIDE DEF new
    <2>7. note' = None /\ UNCHANGED <<registry, losses>> BY <1>1, <1>5 DEF Erased
    <2> QED BY <1>5, <2>5, <2>6, <2>7, FoundStep
  <1>6. Loss => losses' \in 0..MaxLosses BY FaultType DEF IInv
  <1>7. UNCHANGED losses => losses' \in 0..MaxLosses BY DEF IInv, ClientsTypeOK
  <1>8. Kept(tabs[t]) => note' = note /\ losses' \in 0..MaxLosses BY KeptType
  <1> QED BY <1>4, <1>5, <1>6, <1>7, <1>8 DEF CheckComes, done

-----------------------------------------------------------------------------
(* What is shown is of the past: the steps of the server *)

(* Clients are not lost and their versions do not go back. *)
RGrows(R, S) ==
  \A i \in Ids : R[i] # None => S[i] # None /\ R[i].version <= S[i].version

Stays ==
  \A t \in Tabs : tabs[t].open /\ tabs'[t].open => Newer(tabs'[t].list, tabs[t].list)

LEMMA ClientParts ==
  ASSUME NEW c \in Client
  PROVE  c.id \in Ids /\ c.draft \in Draft /\ c.version \in Nat
  BY DEF Client

LEMMA BelowGrows ==
  ASSUME NEW R \in [Ids -> Client \cup {None}], NEW S \in [Ids -> Client \cup {None}], RGrows(R, S),
         NEW c \in Client, Below(c, R)
  PROVE  Below(c, S)
  <1>1. c.id \in Ids /\ c.version \in Nat BY ClientParts
  <1>2. R[c.id] # None /\ c.version <= R[c.id].version BY DEF Below
  <1>3. S[c.id] # None /\ R[c.id].version <= S[c.id].version BY <1>1, <1>2 DEF RGrows
  <1>4. R[c.id].version \in Nat /\ S[c.id].version \in Nat BY <1>1, <1>2, <1>3, ClientParts
  <1> QED BY <1>1, <1>2, <1>3, <1>4 DEF Below

LEMMA RequestGrows ==
  ASSUME NEW R \in [Ids -> Client \cup {None}], NEW S \in [Ids -> Client \cup {None}], RGrows(R, S),
         NEW q \in Reading \cup {None}, NEW L, RequestOK(q, L, R)
  PROVE  RequestOK(q, L, S)
  <1> SUFFICES ASSUME q # None, q.rows # None, NEW c \in q.rows PROVE Below(c, S)
    BY DEF RequestOK
  <1>1. c \in Client BY DEF Reading
  <1>2. Below(c, R) BY DEF RequestOK
  <1> QED BY <1>1, <1>2, BelowGrows

LEMMA ShowsGrows ==
  ASSUME NEW R \in [Ids -> Client \cup {None}], NEW S \in [Ids -> Client \cup {None}], RGrows(R, S),
         NEW tab \in Tab, ShowsPast(tab, R)
  PROVE  ShowsPast(tab, S)
  <1>1. ASSUME NEW c \in tab.list PROVE Below(c, S)
    <2>1. c \in Client BY TabParts
    <2>2. Below(c, R) BY DEF ShowsPast
    <2> QED BY <2>1, <2>2, BelowGrows
  <1>2. tab.selected # None => S[tab.selected] # None BY TabParts DEF ShowsPast, RGrows
  <1>3. RequestOK(tab.reading, tab.list, S) /\ RequestOK(tab.checking, tab.list, S)
    BY TabParts, RequestGrows DEF ShowsPast
  <1> QED BY <1>1, <1>2, <1>3 DEF ShowsPast

LEMMA KnownGrows ==
  ASSUME NEW R \in [Ids -> Client \cup {None}], NEW S \in [Ids -> Client \cup {None}], RGrows(R, S),
         NEW w \in Write \cup {None}, WriteKnown(w, R)
  PROVE  WriteKnown(w, S)
  <1> SUFFICES ASSUME w # None PROVE WriteKnown(w, S) BY DEF WriteKnown
  <1>1. w.id \in Ids \cup {None} /\ w.saved \in Client \cup {None} BY WriteParts
  <1>2. w.id # None => S[w.id] # None BY <1>1 DEF WriteKnown, RGrows
  <1>3. w.saved # None => Below(w.saved, S) BY <1>1, BelowGrows DEF WriteKnown
  <1> QED BY <1>2, <1>3 DEF WriteKnown

LEMMA SameIsNewer ==
  ASSUME NEW L \in SUBSET Client, Once(L)
  PROVE  Newer(L, L)
  BY ClientParts DEF Once, Newer

LEMMA NothingMoves ==
  ASSUME ClientsTypeOK, VInv, tabs' = tabs
  PROVE  Stays
  <1> SUFFICES ASSUME NEW t \in Tabs PROVE Newer(tabs[t].list, tabs[t].list) BY DEF Stays
  <1>1. tabs[t] \in Tab /\ Once(tabs[t].list) BY DEF ClientsTypeOK, VInv, ShowsPast
  <1> QED BY <1>1, TabParts, SameIsNewer

LEMMA VServer ==
  ASSUME ClientsTypeOK, VInv, tabs' = tabs, registry' \in [Ids -> Client \cup {None}],
         RGrows(registry, registry'), \A i \in Ids : registry'[i] # None => registry'[i].id = i,
         \A n \in Attempts : WriteKnown(writes'[n], registry'),
         \A u \in Tabs : SavesNewer(tabs[u], writes')
  PROVE  VInv' /\ Stays
  <1>1. registry \in [Ids -> Client \cup {None}] BY DEF ClientsTypeOK
  <1>2. ASSUME NEW u \in Tabs PROVE ShowsPast(tabs[u], registry')
    <2>1. tabs[u] \in Tab /\ ShowsPast(tabs[u], registry) BY DEF ClientsTypeOK, VInv
    <2> QED BY <1>1, <2>1, ShowsGrows
  <1> QED BY <1>2, NothingMoves DEF VInv

(* A request is carried out. *)
LEMMA VAnswered ==
  ASSUME ClientsTypeOK, VInv, tabs' = tabs, registry' \in [Ids -> Client \cup {None}],
         RGrows(registry, registry'), \A i \in Ids : registry'[i] # None => registry'[i].id = i,
         NEW n \in Attempts, writes[n] # None, NEW c \in Client \cup {None}, Answered(n, c),
         c # None => Below(c, registry')
                     /\ \A l \in Client : Below(l, registry) /\ l.id = c.id => l.version <= c.version
  PROVE  VInv' /\ Stays
  <1> DEFINE w == [writes[n] EXCEPT !.state = IF c = None THEN "refused" ELSE "done", !.saved = c]
  <1>1. writes[n] \in Write /\ writes \in [Attempts -> Write \cup {None}]
        /\ registry \in [Ids -> Client \cup {None}] BY DEF ClientsTypeOK
  <1>2. w \in Write /\ w.id = writes[n].id /\ w.saved = c /\ (w.state = "done" => c # None)
    BY <1>1 DEF Write
  <1>3. writes' = [writes EXCEPT ![n] = w] BY DEF Answered
  <1> HIDE DEF w
  <1>4. writes'[n] = w /\ \A m \in Attempts \ {n} : writes'[m] = writes[m] BY <1>1, <1>3
  <1>5. ASSUME NEW m \in Attempts PROVE WriteKnown(writes'[m], registry')
    <2>1. WriteKnown(writes[m], registry) /\ writes[m] \in Write \cup {None} BY <1>1 DEF VInv
    <2>2. WriteKnown(writes[m], registry') BY <1>1, <2>1, KnownGrows
    <2>3. CASE m # n BY <1>4, <2>2, <2>3
    <2>4. CASE m = n BY <1>2, <1>4, <2>2, <2>4 DEF WriteKnown
    <2> QED BY <2>3, <2>4
  <1>6. ASSUME NEW u \in Tabs PROVE SavesNewer(tabs[u], writes')
    <2>1. tabs[u] \in Tab /\ SavesNewer(tabs[u], writes) /\ ShowsPast(tabs[u], registry)
      BY DEF ClientsTypeOK, VInv
    <2>2. CASE tabs[u].saving # n
      <3>1. tabs[u].saving # None => tabs[u].saving \in Attempts \ {n} BY <2>1, <2>2, TabParts
      <3> QED BY <1>4, <2>1, <3>1 DEF SavesNewer
    <2>3. CASE tabs[u].saving = n
      <3>1. ASSUME c # None PROVE Newer({c}, tabs[u].list)
        <4>1. tabs[u].list \in SUBSET Client BY <2>1, TabParts
        <4> QED BY <2>1, <3>1, <4>1 DEF Newer, ShowsPast
      <3> QED BY <1>2, <1>4, <2>1, <2>3, <3>1 DEF SavesNewer
    <2> QED BY <2>2, <2>3
  <1> QED BY <1>5, <1>6, VServer

LEMMA SameGrows ==
  ASSUME NEW R \in [Ids -> Client \cup {None}]
  PROVE  RGrows(R, R)
  <1> SUFFICES ASSUME NEW i \in Ids, R[i] # None PROVE R[i].version <= R[i].version BY DEF RGrows
  <1> QED BY ClientParts

(* A client is created or replaced by a later version. *)
LEMMA SetGrows ==
  ASSUME ClientsTypeOK, VInv, NEW i \in Ids, NEW c \in Client, c.id = i,
         registry' = [registry EXCEPT ![i] = c], registry[i] # None => registry[i].version < c.version
  PROVE  /\ registry' \in [Ids -> Client \cup {None}] /\ RGrows(registry, registry')
         /\ \A j \in Ids : registry'[j] # None => registry'[j].id = j
         /\ Below(c, registry')
         /\ \A l \in Client : Below(l, registry) /\ l.id = c.id => l.version <= c.version
  <1>1. registry \in [Ids -> Client \cup {None}] /\ c # None BY ClientsAssumption DEF ClientsTypeOK
  <1>2. registry'[i] = c /\ \A j \in Ids \ {i} : registry'[j] = registry[j] BY <1>1
  <1>3. ASSUME NEW j \in Ids, registry[j] # None
        PROVE  registry'[j] # None /\ registry[j].version <= registry'[j].version
    <2>1. registry[j].version \in Nat /\ c.version \in Nat BY <1>1, <1>3, ClientParts
    <2>2. CASE j = i BY <1>1, <1>2, <1>3, <2>1, <2>2
    <2>3. CASE j # i BY <1>2, <1>3, <2>1, <2>3
    <2> QED BY <2>2, <2>3
  <1>4. Below(c, registry') BY <1>1, <1>2, ClientParts DEF Below
  <1>5. ASSUME NEW l \in Client, Below(l, registry), l.id = c.id PROVE l.version <= c.version
    <2>1. registry[i] # None /\ l.version <= registry[i].version BY <1>5 DEF Below
    <2>2. registry[i].version \in Nat /\ c.version \in Nat /\ l.version \in Nat
      BY <1>1, <2>1, ClientParts
    <2> QED BY <2>1, <2>2
  <1>6. RGrows(registry, registry') BY <1>3 DEF RGrows
  <1>7. \A j \in Ids : registry'[j] # None => registry'[j].id = j BY <1>2 DEF VInv
  <1>8. registry' \in [Ids -> Client \cup {None}] BY <1>1
  <1> QED BY <1>4, <1>5, <1>6, <1>7, <1>8

LEMMA VExecute ==
  ASSUME IInv, VInv, NEW n \in Attempts, Execute(n)
  PROVE  VInv' /\ Stays
  <1>1. writes[n] # None /\ tabs' = tabs /\ ClientsTypeOK BY DEF Execute, IInv
  <1>2. registry \in [Ids -> Client \cup {None}] BY <1>1 DEF ClientsTypeOK
  <1>3. CASE Answered(n, None) /\ UNCHANGED registry
    <2>1. \A i \in Ids : registry'[i] # None => registry'[i].id = i BY <1>3 DEF VInv
    <2>2. registry' \in [Ids -> Client \cup {None}] /\ RGrows(registry, registry') BY <1>2, <1>3, SameGrows
    <2> QED BY <1>1, <1>3, <2>1, <2>2, VAnswered
  <1>4. CASE \E i \in Ids :
               /\ IF writes[n].id # None THEN i = writes[n].id
                  ELSE registry[i] = None /\ \A j \in 1..(i - 1) : registry[j] # None
               /\ LET saved == [id |-> i, draft |-> writes[n].draft,
                                version |-> IF writes[n].id = None THEN 1 ELSE registry[i].version + 1]
                  IN registry' = [registry EXCEPT ![i] = saved] /\ Answered(n, saved)
    <2>1. PICK i \in Ids :
               /\ IF writes[n].id # None THEN i = writes[n].id ELSE registry[i] = None
               /\ LET saved == [id |-> i, draft |-> writes[n].draft,
                                version |-> IF writes[n].id = None THEN 1 ELSE registry[i].version + 1]
                  IN registry' = [registry EXCEPT ![i] = saved] /\ Answered(n, saved)
      BY <1>4
    <2> DEFINE saved == [id |-> i, draft |-> writes[n].draft,
                         version |-> IF writes[n].id = None THEN 1 ELSE registry[i].version + 1]
    <2>2. saved \in Client BY <1>1, <2>1, ExecutedType
    <2>3. registry' = [registry EXCEPT ![i] = saved] /\ Answered(n, saved) BY <2>1
    <2>4. registry[i] # None => registry[i].version < saved.version
      <3>1. registry[i] # None => registry[i].version \in Nat BY <1>2, ClientParts
      <3> QED BY <2>1, <3>1
    <2>5. saved.id = i OBVIOUS
    <2> HIDE DEF saved
    <2>6. /\ registry' \in [Ids -> Client \cup {None}] /\ RGrows(registry, registry')
          /\ \A j \in Ids : registry'[j] # None => registry'[j].id = j
          /\ Below(saved, registry')
          /\ \A l \in Client : Below(l, registry) /\ l.id = saved.id => l.version <= saved.version
      BY <1>1, <2>2, <2>3, <2>4, <2>5, SetGrows
    <2> QED BY <1>1, <2>2, <2>3, <2>6, VAnswered
  <1> QED BY <1>3, <1>4 DEF Execute

LEMMA VRefuse ==
  ASSUME IInv, VInv, NEW n \in Attempts, Refuse(n)
  PROVE  VInv' /\ Stays
  <1>1. writes[n] # None /\ Answered(n, None) /\ tabs' = tabs /\ registry' = registry /\ ClientsTypeOK
    BY DEF Refuse, IInv
  <1>2. registry \in [Ids -> Client \cup {None}] BY <1>1 DEF ClientsTypeOK
  <1>3. \A i \in Ids : registry'[i] # None => registry'[i].id = i BY <1>1 DEF VInv
  <1>4. registry' \in [Ids -> Client \cup {None}] /\ RGrows(registry, registry') BY <1>1, <1>2, SameGrows
  <1> QED BY <1>1, <1>3, <1>4, VAnswered

LEMMA VOtherWrite ==
  ASSUME IInv, VInv, OtherWrite
  PROVE  VInv' /\ Stays
  <1>1. tabs' = tabs /\ writes' = writes /\ ClientsTypeOK BY DEF OtherWrite, IInv
  <1>2. PICK i \in Ids, d \in Draft :
           registry' = [registry EXCEPT ![i] =
             [id |-> i, draft |-> d, version |-> IF @ = None THEN 1 ELSE @.version + 1]]
    BY DEF OtherWrite
  <1>3. registry \in [Ids -> Client \cup {None}] BY <1>1 DEF ClientsTypeOK
  <1> DEFINE c == [id |-> i, draft |-> d, version |-> IF registry[i] = None THEN 1 ELSE registry[i].version + 1]
  <1>4. registry[i] # None => registry[i].version \in Nat BY <1>3, ClientParts
  <1>5. c \in Client /\ c.id = i /\ (registry[i] # None => registry[i].version < c.version)
    BY <1>4 DEF Client
  <1>6. registry' = [registry EXCEPT ![i] = c] BY <1>2, <1>3
  <1> HIDE DEF c
  <1>7. /\ registry' \in [Ids -> Client \cup {None}] /\ RGrows(registry, registry')
        /\ \A j \in Ids : registry'[j] # None => registry'[j].id = j
    BY <1>1, <1>5, <1>6, SetGrows
  <1>8. ASSUME NEW n \in Attempts PROVE WriteKnown(writes'[n], registry')
    <2>1. writes[n] \in Write \cup {None} /\ WriteKnown(writes[n], registry) BY <1>1 DEF ClientsTypeOK, VInv
    <2> QED BY <1>1, <1>3, <1>7, <2>1, KnownGrows
  <1>9. \A u \in Tabs : SavesNewer(tabs[u], writes') BY <1>1 DEF VInv
  <1> QED BY <1>1, <1>7, <1>8, <1>9, VServer

-----------------------------------------------------------------------------
(* What is shown is of the past: the steps of a tab *)

LEMMA VTab ==
  ASSUME ClientsTypeOK, VInv, registry' = registry, NEW t \in Tabs, NEW tab \in Tab, Becomes(t, tab),
         ShowsPast(tab, registry), SavesNewer(tab, writes'),
         \A n \in Attempts : WriteKnown(writes'[n], registry),
         \A u \in Tabs \ {t} : SavesNewer(tabs[u], writes'),
         tab.saving # None => \A u \in Tabs \ {t} : tabs[u].saving # tab.saving,
         tabs[t].open /\ tab.open => Newer(tab.list, tabs[t].list)
  PROVE  VInv' /\ Stays
  <1>1. tabs \in [Tabs -> Tab] /\ tabs' = [tabs EXCEPT ![t] = tab] BY DEF ClientsTypeOK, Becomes
  <1>2. tabs'[t] = tab /\ \A u \in Tabs \ {t} : tabs'[u] = tabs[u] BY <1>1
  <1>3. \A i \in Ids : registry'[i] # None => registry'[i].id = i BY DEF VInv
  <1>4. ASSUME NEW u \in Tabs PROVE ShowsPast(tabs'[u], registry') /\ SavesNewer(tabs'[u], writes')
    <2>1. CASE u = t BY <1>2, <2>1
    <2>2. CASE u # t BY <1>2, <2>2 DEF VInv
    <2> QED BY <2>1, <2>2
  <1>5. ASSUME NEW u \in Tabs, NEW v \in Tabs, tabs'[u].saving # None, tabs'[u].saving = tabs'[v].saving
        PROVE u = v
    <2>1. CASE u = t /\ v # t BY <1>2, <1>5, <2>1
    <2>2. CASE u # t /\ v = t BY <1>2, <1>5, <2>2
    <2>3. CASE u # t /\ v # t BY <1>2, <1>5, <2>3 DEF VInv
    <2> QED BY <2>1, <2>2, <2>3
  <1>6. Stays
    <2> SUFFICES ASSUME NEW u \in Tabs, tabs[u].open, tabs'[u].open PROVE Newer(tabs'[u].list, tabs[u].list)
      BY DEF Stays
    <2>1. CASE u = t BY <1>2, <2>1
    <2>2. CASE u # t
      <3>1. tabs[u] \in Tab /\ Once(tabs[u].list) BY <1>1 DEF VInv, ShowsPast
      <3> QED BY <1>2, <2>2, <3>1, TabParts, SameIsNewer
    <2> QED BY <2>1, <2>2
  <1> QED BY <1>3, <1>4, <1>5, <1>6 DEF VInv

LEMMA VOwn ==
  ASSUME ClientsTypeOK, VInv, NEW t \in Tabs
  PROVE  /\ tabs[t] \in Tab /\ ShowsPast(tabs[t], registry) /\ SavesNewer(tabs[t], writes)
         /\ tabs[t].list \in SUBSET Client /\ Newer(tabs[t].list, tabs[t].list)
  <1>1. tabs[t] \in Tab /\ ShowsPast(tabs[t], registry) /\ SavesNewer(tabs[t], writes)
    BY DEF ClientsTypeOK, VInv
  <1>2. tabs[t].list \in SUBSET Client BY <1>1, TabParts
  <1> QED BY <1>1, <1>2, SameIsNewer DEF ShowsPast

(* Only the tab moves, and it saves nothing that it did not save. *)
LEMMA VOnlyTab ==
  ASSUME ClientsTypeOK, VInv, registry' = registry, writes' = writes,
         NEW t \in Tabs, NEW tab \in Tab, Becomes(t, tab),
         ShowsPast(tab, registry), SavesNewer(tab, writes),
         tab.saving = None \/ tab.saving = tabs[t].saving,
         tabs[t].open /\ tab.open => Newer(tab.list, tabs[t].list)
  PROVE  VInv' /\ Stays
  <1>1. \A n \in Attempts : WriteKnown(writes'[n], registry) BY DEF VInv
  <1>2. \A u \in Tabs \ {t} : SavesNewer(tabs[u], writes') BY DEF VInv
  <1>3. tab.saving # None => \A u \in Tabs \ {t} : tabs[u].saving # tab.saving BY DEF VInv
  <1> QED BY <1>1, <1>2, <1>3, VTab

LEMMA AskedOK == ASSUME NEW q, NEW L, NEW R PROVE Asked(q) # None => RequestOK(Asked(q), L, R)
  BY DEF Asked, RequestOK

LEMMA NoRequestOK == ASSUME NEW L, NEW R PROVE RequestOK(None, L, R)
  BY DEF RequestOK

LEMMA VListing ==
  ASSUME NEW tab \in Tab, NEW q \in Phones \cup {None}, NEW R, NEW W,
         ShowsPast(tab, R), SavesNewer(tab, W)
  PROVE  /\ ShowsPast(Listing(tab, q), R) /\ SavesNewer(Listing(tab, q), W)
         /\ Listing(tab, q).list = tab.list /\ Listing(tab, q).open = tab.open
  <1> DEFINE l == [tab EXCEPT !.reading = Asked(q), !.query = q]
  <1>1. CASE Listing(tab, q) = tab BY <1>1
  <1>2. CASE Listing(tab, q) = l /\ Quiet(tab)
    <2>1. /\ l.list = tab.list /\ l.open = tab.open /\ l.selected = tab.selected
          /\ l.saving = None /\ l.checking = None /\ l.reading = Asked(q)
      <3> HIDE DEF Asked
      <3> QED BY <1>2 DEF Tab, Quiet
    <2> HIDE DEF l
    <2>2. RequestOK(l.reading, l.list, R) /\ RequestOK(l.checking, l.list, R)
      BY <2>1, AskedOK, NoRequestOK DEF RequestOK
    <2> QED BY <1>2, <2>1, <2>2 DEF ShowsPast, SavesNewer
  <1> QED BY <1>1, <1>2 DEF Listing

LEMMA VSelecting ==
  ASSUME NEW tab \in Tab, NEW i \in Ids \cup {None}, NEW R, NEW W,
         ShowsPast(tab, R), SavesNewer(tab, W), i # None => R[i] # None
  PROVE  /\ ShowsPast(Selecting(tab, i), R) /\ SavesNewer(Selecting(tab, i), W)
         /\ Selecting(tab, i).list = tab.list /\ Selecting(tab, i).open = tab.open
  <1> DEFINE l == Selecting(tab, i)
  <1>1. /\ l.list = tab.list /\ l.open = tab.open /\ l.selected = i
        /\ l.saving = tab.saving /\ l.checking = tab.checking /\ l.reading = tab.reading
    BY DEF Tab, Selecting
  <1> HIDE DEF l
  <1>2. ShowsPast(l, R) /\ SavesNewer(l, W) BY <1>1 DEF ShowsPast, SavesNewer
  <1> QED BY <1>1, <1>2 DEF l

LEMMA VOpen ==
  ASSUME ClientsTypeOK, VInv, NEW t \in Tabs, Open(t)
  PROVE  VInv' /\ Stays
  <1> DEFINE closed == [Closed EXCEPT !.open = TRUE]
  <1> DEFINE tab == Listing(closed, None)
  <1>1. /\ closed \in Tab /\ closed.list = {} /\ closed.selected = None /\ closed.saving = None
        /\ closed.reading = None /\ closed.checking = None
    BY DEF Closed, Tab
  <1> HIDE DEF closed
  <1>2. ShowsPast(closed, registry) /\ SavesNewer(closed, writes)
    BY <1>1, NoRequestOK DEF ShowsPast, SavesNewer, Once
  <1>3. tab \in Tab /\ ShowsPast(tab, registry) /\ SavesNewer(tab, writes) /\ tab.saving = None
    BY <1>1, <1>2, ListingType, VListing
  <1>4. ~tabs[t].open /\ registry' = registry /\ writes' = writes BY DEF Open
  <1>5. \/ Becomes(t, [tab EXCEPT !.fenced = FALSE])
        \/ Becomes(t, [tab EXCEPT !.uncertain = TRUE, !.mark = note, !.draft = note])
        \/ Becomes(t, tab)
    BY DEF Open, closed
  <1> HIDE DEF tab
  <1>6. note \in Draft \cup {None} BY DEF ClientsTypeOK
  <1>7. PICK new \in Tab : /\ Becomes(t, new) /\ new.list = tab.list /\ new.selected = tab.selected
                           /\ new.saving = tab.saving /\ new.reading = tab.reading
                           /\ new.checking = tab.checking
    <2>1. CASE Becomes(t, [tab EXCEPT !.fenced = FALSE])
      <3> DEFINE new == [tab EXCEPT !.fenced = FALSE]
      <3>1. /\ new \in Tab /\ new.list = tab.list /\ new.selected = tab.selected /\ new.saving = tab.saving
            /\ new.reading = tab.reading /\ new.checking = tab.checking
        BY <1>3 DEF Tab
      <3> QED BY <2>1, <3>1
    <2>2. CASE Becomes(t, [tab EXCEPT !.uncertain = TRUE, !.mark = note, !.draft = note])
      <3> DEFINE new == [tab EXCEPT !.uncertain = TRUE, !.mark = note, !.draft = note]
      <3>1. /\ new \in Tab /\ new.list = tab.list /\ new.selected = tab.selected /\ new.saving = tab.saving
            /\ new.reading = tab.reading /\ new.checking = tab.checking
        BY <1>3, <1>6 DEF Tab
      <3> QED BY <2>2, <3>1
    <2> QED BY <1>3, <1>5, <2>1, <2>2
  <1>8. ShowsPast(new, registry) /\ SavesNewer(new, writes) BY <1>3, <1>7 DEF ShowsPast, SavesNewer
  <1> QED BY <1>3, <1>4, <1>7, <1>8, VOnlyTab

LEMMA VClose ==
  ASSUME ClientsTypeOK, VInv, NEW t \in Tabs, Close(t)
  PROVE  VInv' /\ Stays
  <1>1. /\ Closed \in Tab /\ Closed.list = {} /\ Closed.selected = None /\ Closed.saving = None
        /\ Closed.reading = None /\ Closed.checking = None /\ ~Closed.open
    BY ClosedType DEF Closed
  <1>2. ShowsPast(Closed, registry) /\ SavesNewer(Closed, writes)
    BY <1>1, NoRequestOK DEF ShowsPast, SavesNewer, Once
  <1> QED BY <1>1, <1>2, VOnlyTab DEF Close

LEMMA VLogoutFails ==
  ASSUME ClientsTypeOK, VInv, NEW t \in Tabs, LogoutFails(t)
  PROVE  VInv' /\ Stays
  <1> DEFINE new == Interrupted(tabs[t])
  <1>1. tabs[t] \in Tab /\ ShowsPast(tabs[t], registry) /\ Newer(tabs[t].list, tabs[t].list) BY VOwn
  <1>2. /\ new \in Tab /\ new.list = tabs[t].list /\ new.selected = tabs[t].selected
        /\ new.saving = None /\ new.reading = None /\ new.checking = None
    BY <1>1 DEF Interrupted, Tab
  <1>3. Becomes(t, new) /\ registry' = registry /\ writes' = writes BY DEF LogoutFails
  <1> HIDE DEF new
  <1>4. ShowsPast(new, registry) /\ SavesNewer(new, writes)
    BY <1>1, <1>2, NoRequestOK DEF ShowsPast, SavesNewer
  <1> QED BY <1>1, <1>2, <1>3, <1>4, VOnlyTab

(* A list that is served is what the registry holds now. *)
LEMMA ServedOK ==
  ASSUME ClientsTypeOK, VInv, NEW q, NEW L \in SUBSET Client, \A c \in L : Below(c, registry)
  PROVE  /\ List(q) \in SUBSET Client /\ \A c \in List(q) : Below(c, registry)
         /\ Once(List(q)) /\ Newer(List(q), L)
  <1>1. ASSUME NEW c \in List(q)
        PROVE  c \in Client /\ c.id \in Ids /\ registry[c.id] = c /\ c # None
    <2>1. PICK i \in Ids : c = registry[i] /\ c # None BY DEF List, Rows
    <2> QED BY <2>1 DEF ClientsTypeOK, VInv
  <1>2. ASSUME NEW c \in List(q) PROVE Below(c, registry) BY <1>1, ClientParts DEF Below
  <1>3. Newer(List(q), L)
    <2> SUFFICES ASSUME NEW c \in L, NEW d \in List(q), c.id = d.id PROVE c.version <= d.version
      BY DEF Newer
    <2> QED BY <1>1 DEF Below
  <1>4. Once(List(q)) BY <1>1 DEF Once
  <1> QED BY <1>1, <1>2, <1>3, <1>4

LEMMA VServe ==
  ASSUME ClientsTypeOK, VInv, NEW t \in Tabs, Serve(t)
  PROVE  VInv' /\ Stays
  <1>1. /\ tabs \in [Tabs -> Tab] /\ tabs[t] \in Tab /\ ShowsPast(tabs[t], registry)
        /\ SavesNewer(tabs[t], writes)
        /\ tabs[t].list \in SUBSET Client /\ Newer(tabs[t].list, tabs[t].list)
    BY VOwn DEF ClientsTypeOK
  <1>2. registry' = registry /\ writes' = writes BY DEF Serve
  <1>3. ASSUME NEW q \in Reading, NEW k
        PROVE  LET s == [q EXCEPT !.rows = List(k)]
               IN  s \in Reading /\ RequestOK(s, tabs[t].list, registry)
    <2>1. /\ List(k) \in SUBSET Client /\ \A c \in List(k) : Below(c, registry)
          /\ Once(List(k)) /\ Newer(List(k), tabs[t].list)
      BY <1>1, ServedOK DEF ShowsPast
    <2> HIDE DEF List
    <2> DEFINE s == [q EXCEPT !.rows = List(k)]
    <2>2. s \in Reading /\ s.rows = List(k) BY <2>1 DEF Reading
    <2> HIDE DEF s
    <2>3. RequestOK(s, tabs[t].list, registry) BY <2>1, <2>2 DEF RequestOK
    <2> QED BY <2>2, <2>3 DEF s
  <1>4. CASE tabs[t].reading # None /\ tabs' = [tabs EXCEPT ![t].reading.rows = List(tabs[t].reading.query)]
    <2> DEFINE s == [tabs[t].reading EXCEPT !.rows = List(tabs[t].reading.query)]
    <2> DEFINE new == [tabs[t] EXCEPT !.reading = s]
    <2>1. s \in Reading /\ RequestOK(s, tabs[t].list, registry) BY <1>1, <1>3, <1>4, TabParts
    <2>2. Becomes(t, new) BY <1>4 DEF Becomes
    <2> HIDE DEF s
    <2>3. /\ new \in Tab /\ new.list = tabs[t].list /\ new.selected = tabs[t].selected
          /\ new.saving = tabs[t].saving /\ new.reading = s /\ new.checking = tabs[t].checking
      BY <1>1, <2>1 DEF Tab
    <2> HIDE DEF new
    <2>4. ShowsPast(new, registry) /\ SavesNewer(new, writes)
      BY <1>1, <1>4, <2>1, <2>3 DEF ShowsPast, SavesNewer
    <2> QED BY <1>1, <1>2, <2>2, <2>3, <2>4, VOnlyTab
  <1>5. CASE tabs[t].checking # None /\ tabs' = [tabs EXCEPT ![t].checking.rows = List(None)]
    <2> DEFINE s == [tabs[t].checking EXCEPT !.rows = List(None)]
    <2> DEFINE new == [tabs[t] EXCEPT !.checking = s]
    <2>1. s \in Reading /\ RequestOK(s, tabs[t].list, registry) BY <1>1, <1>3, <1>5, TabParts
    <2>2. Becomes(t, new) BY <1>5 DEF Becomes
    <2> HIDE DEF s
    <2>3. /\ new \in Tab /\ new.list = tabs[t].list /\ new.selected = tabs[t].selected
          /\ new.saving = tabs[t].saving /\ new.reading = tabs[t].reading /\ new.checking = s
      BY <1>1, <2>1 DEF Tab
    <2> HIDE DEF new
    <2>4. ShowsPast(new, registry) /\ SavesNewer(new, writes)
      BY <1>1, <1>5, <2>1, <2>3 DEF ShowsPast, SavesNewer
    <2> QED BY <1>1, <1>2, <2>2, <2>3, <2>4, VOnlyTab
  <1> QED BY <1>4, <1>5 DEF Serve

LEMMA VListComes ==
  ASSUME ClientsTypeOK, VInv, NEW t \in Tabs, ListComes(t)
  PROVE  VInv' /\ Stays
  <1>1. /\ tabs[t] \in Tab /\ ShowsPast(tabs[t], registry) /\ SavesNewer(tabs[t], writes)
        /\ tabs[t].list \in SUBSET Client /\ Newer(tabs[t].list, tabs[t].list)
    BY VOwn
  <1>2. registry' = registry /\ writes' = writes /\ tabs[t].reading # None BY DEF ListComes
  <1>3. tabs[t].saving = None /\ tabs[t].checking = None BY <1>1, <1>2 DEF ShowsPast, SavesNewer
  <1>4. CASE /\ tabs[t].reading.rows # None
             /\ Becomes(t, [tabs[t] EXCEPT !.reading = None, !.list = tabs[t].reading.rows])
    <2> DEFINE new == [tabs[t] EXCEPT !.reading = None, !.list = tabs[t].reading.rows]
    <2>1. tabs[t].reading.rows \in SUBSET Client BY <1>1, <1>2, <1>4, TabParts DEF Reading
    <2>2. /\ new \in Tab /\ new.list = tabs[t].reading.rows /\ new.selected = tabs[t].selected
          /\ new.saving = None /\ new.reading = None /\ new.checking = None
      BY <1>1, <1>3, <2>1 DEF Tab
    <2>3. Becomes(t, new) BY <1>4
    <2> HIDE DEF new
    <2>4. /\ \A c \in tabs[t].reading.rows : Below(c, registry)
          /\ Once(tabs[t].reading.rows) /\ Newer(tabs[t].reading.rows, tabs[t].list)
      BY <1>1, <1>2, <1>4 DEF ShowsPast, RequestOK
    <2>5. ShowsPast(new, registry) /\ SavesNewer(new, writes)
      BY <1>1, <2>2, <2>4, NoRequestOK DEF ShowsPast, SavesNewer
    <2> QED BY <1>2, <2>2, <2>3, <2>4, <2>5, VOnlyTab
  <1>5. CASE Becomes(t, [tabs[t] EXCEPT !.reading = None])
    <2> DEFINE new == [tabs[t] EXCEPT !.reading = None]
    <2>1. /\ new \in Tab /\ new.list = tabs[t].list /\ new.selected = tabs[t].selected
          /\ new.saving = None /\ new.reading = None /\ new.checking = None
      BY <1>1, <1>3 DEF Tab
    <2>2. Becomes(t, new) BY <1>5
    <2> HIDE DEF new
    <2>3. ShowsPast(new, registry) /\ SavesNewer(new, writes)
      BY <1>1, <2>1, NoRequestOK DEF ShowsPast, SavesNewer
    <2> QED BY <1>1, <1>2, <2>1, <2>2, <2>3, VOnlyTab
  <1> QED BY <1>4, <1>5 DEF ListComes

LEMMA VBrowse ==
  ASSUME ClientsTypeOK, VInv, NEW t \in Tabs, SelectClient(t) \/ Search(t) \/ Refresh(t)
  PROVE  VInv' /\ Stays
  <1>1. /\ tabs[t] \in Tab /\ ShowsPast(tabs[t], registry) /\ SavesNewer(tabs[t], writes)
        /\ tabs[t].list \in SUBSET Client /\ Newer(tabs[t].list, tabs[t].list)
    BY VOwn
  <1>2. registry' = registry /\ writes' = writes BY DEF SelectClient, Search, Refresh
  <1>3. PICK new \in Tab : /\ Becomes(t, new) /\ new.saving = tabs[t].saving /\ new.list = tabs[t].list
                           /\ ShowsPast(new, registry) /\ SavesNewer(new, writes)
    <2>1. CASE SelectClient(t)
      <3>1. PICK c \in tabs[t].list : Becomes(t, Selecting(tabs[t], c.id)) BY <2>1 DEF SelectClient
      <3>2. c.id \in Ids /\ registry[c.id] # None BY <1>1, ClientParts DEF ShowsPast, Below
      <3> QED BY <1>1, <3>1, <3>2, SelectingType, VSelecting
    <2>2. CASE Search(t)
      <3>1. PICK q \in Phones \cup {None} : Becomes(t, Listing(Selecting(tabs[t], None), q))
        BY ClientsAssumption, <2>2 DEF Search
      <3> DEFINE idle == Selecting(tabs[t], None)
      <3>2. idle \in Tab /\ ShowsPast(idle, registry) /\ SavesNewer(idle, writes)
            /\ idle.saving = tabs[t].saving /\ idle.list = tabs[t].list
        BY <1>1, SelectingType, VSelecting
      <3> HIDE DEF idle
      <3>3. Becomes(t, Listing(idle, q)) BY <3>1 DEF idle
      <3> QED BY <3>1, <3>2, <3>3, ListingType, VListing
    <2>3. CASE Refresh(t)
      <3>1. tabs[t].query \in Phones \cup {None} BY <1>1, TabParts
      <3> QED BY <1>1, <2>3, <3>1, ListingType, VListing DEF Refresh
    <2> QED BY <2>1, <2>2, <2>3
  <1> QED BY <1>1, <1>2, <1>3, VOnlyTab

LEMMA VSends ==
  ASSUME IInv, VInv, registry' = registry, NEW t \in Tabs, NEW tab \in Tab,
         NEW i \in Ids \cup {None}, NEW d \in Draft, NEW n \in Attempts, Sends(t, tab, i, d, n),
         ShowsPast(tab, registry), tab.checking = None, tab.list = tabs[t].list,
         i # None => registry[i] # None
  PROVE  VInv' /\ Stays
  <1> DEFINE w == [id |-> i, draft |-> d, state |-> "sent", saved |-> None, told |-> "no"]
  <1> DEFINE new == [GivesUpReading(tab) EXCEPT !.saving = n]
  <1>1. /\ tabs[t].list \in SUBSET Client /\ Newer(tabs[t].list, tabs[t].list) /\ ClientsTypeOK
        /\ writes \in [Attempts -> Write \cup {None}]
    BY VOwn DEF IInv, ClientsTypeOK
  <1>2. w.id = i /\ w.state = "sent" /\ w.saved = None OBVIOUS
  <1>3. writes[n] = None /\ writes' = [writes EXCEPT ![n] = w] /\ Becomes(t, new) BY DEF Sends
  <1>4. /\ new \in Tab /\ new.saving = n /\ new.list = tab.list /\ new.selected = tab.selected
        /\ new.reading = None /\ new.checking = None
    BY DEF GivesUpReading, Tab
  <1> HIDE DEF w, new
  <1>5. writes'[n] = w /\ \A m \in Attempts \ {n} : writes'[m] = writes[m] BY <1>1, <1>3
  <1>6. ASSUME NEW m \in Attempts PROVE WriteKnown(writes'[m], registry)
    <2>1. CASE m = n BY <1>2, <1>5, <2>1 DEF WriteKnown
    <2>2. CASE m # n BY <1>5, <2>2 DEF VInv
    <2> QED BY <2>1, <2>2
  <1>7. ASSUME NEW u \in Tabs PROVE tabs[u].saving # None => tabs[u].saving \in Attempts \ {n}
    <2>1. tabs[u] \in Tab /\ SavesMark(tabs[u], writes) BY OwnTab DEF TabOK
    <2> QED BY <1>3, <2>1, TabParts DEF SavesMark
  <1>8. ASSUME NEW u \in Tabs \ {t} PROVE SavesNewer(tabs[u], writes')
    <2>1. SavesNewer(tabs[u], writes) BY DEF VInv
    <2> QED BY <1>5, <1>7, <2>1 DEF SavesNewer
  <1>9. ShowsPast(new, registry) BY <1>4, NoRequestOK DEF ShowsPast
  <1>10. SavesNewer(new, writes') BY <1>2, <1>4, <1>5 DEF SavesNewer
  <1>11. \A u \in Tabs \ {t} : tabs[u].saving # new.saving
    <2>1. n \in Nat BY ClientsAssumption DEF Attempts
    <2>2. n # None BY ClientsAssumption, <2>1
    <2> QED BY <1>4, <1>7, <2>2
  <1> QED BY <1>1, <1>3, <1>4, <1>6, <1>8, <1>9, <1>10, <1>11, VTab

LEMMA VSaveEdit ==
  ASSUME IInv, VInv, NEW t \in Tabs, SaveEdit(t)
  PROVE  VInv' /\ Stays
  <1>1. tabs[t] \in Tab /\ ShowsPast(tabs[t], registry) BY VOwn DEF IInv
  <1>2. PICK d \in Draft, n \in Attempts : Sends(t, tabs[t], tabs[t].selected, d, n)
    BY DEF SaveEdit
  <1>3. tabs[t].selected \in Ids /\ registry[tabs[t].selected] # None
    BY <1>1, TabParts DEF SaveEdit, ShowsPast
  <1>4. tabs[t].checking = None /\ registry' = registry BY DEF SaveEdit, Free, Quiet
  <1> QED BY <1>1, <1>2, <1>3, <1>4, VSends

LEMMA VSaveNew ==
  ASSUME IInv, VInv, NEW t \in Tabs, SaveNew(t)
  PROVE  VInv' /\ Stays
  <1> DEFINE idle == Selecting(tabs[t], None)
  <1> DEFINE locked(d) == [idle EXCEPT !.draft = d, !.fenced = TRUE, !.uncertain = TRUE]
  <1>1. /\ tabs[t] \in Tab /\ ShowsPast(tabs[t], registry) /\ SavesNewer(tabs[t], writes)
        /\ tabs[t].list \in SUBSET Client /\ Newer(tabs[t].list, tabs[t].list)
    BY VOwn DEF IInv
  <1>2. tabs[t].saving = None /\ tabs[t].checking = None /\ registry' = registry
    BY DEF SaveNew, Free, Quiet
  <1>3. /\ idle \in Tab /\ idle.list = tabs[t].list /\ idle.saving = None /\ idle.checking = None
        /\ ShowsPast(idle, registry) /\ SavesNewer(idle, writes)
    <2>1. Selecting(tabs[t], None).checking = tabs[t].checking BY <1>1 DEF Selecting, Tab
    <2> QED BY <1>1, <1>2, <2>1, SelectingType, VSelecting
  <1>4. PICK d \in Draft :
          \/ \E n \in Attempts : Sends(t, [locked(d) EXCEPT !.mark = d], None, d, n)
          \/ Becomes(t, locked(d)) /\ UNCHANGED writes
          \/ Becomes(t, [locked(d) EXCEPT !.mark = d]) /\ UNCHANGED writes
    BY DEF SaveNew
  <1> HIDE DEF idle
  <1> DEFINE lock == locked(d)
  <1> DEFINE mark == [lock EXCEPT !.mark = d]
  <1>5. d \in Draft BY <1>4
  <1>6. /\ lock \in Tab /\ lock.list = idle.list /\ lock.selected = idle.selected /\ lock.saving = None
        /\ lock.reading = idle.reading /\ lock.checking = None
    <2>1. ASSUME NEW tab \in Tab
          PROVE  LET l == [tab EXCEPT !.draft = d, !.fenced = TRUE, !.uncertain = TRUE]
                 IN  /\ l \in Tab /\ l.list = tab.list /\ l.selected = tab.selected
                     /\ l.saving = tab.saving /\ l.reading = tab.reading /\ l.checking = tab.checking
      BY <1>5 DEF Tab
    <2> QED BY <1>3, <2>1
  <1> HIDE DEF lock
  <1>7. /\ mark \in Tab /\ mark.list = idle.list /\ mark.selected = idle.selected /\ mark.saving = None
        /\ mark.reading = idle.reading /\ mark.checking = None
    BY <1>5, <1>6 DEF Tab
  <1> HIDE DEF mark
  <1>8. /\ ShowsPast(lock, registry) /\ SavesNewer(lock, writes)
        /\ ShowsPast(mark, registry) /\ SavesNewer(mark, writes)
    BY <1>3, <1>6, <1>7 DEF ShowsPast, SavesNewer
  <1>9. CASE \E n \in Attempts : Sends(t, mark, None, d, n)
    BY <1>2, <1>3, <1>5, <1>7, <1>8, <1>9, VSends
  <1>10. CASE Becomes(t, lock) /\ UNCHANGED writes
    BY <1>1, <1>2, <1>3, <1>6, <1>8, <1>10, VOnlyTab DEF IInv
  <1>11. CASE Becomes(t, mark) /\ UNCHANGED writes
    BY <1>1, <1>2, <1>3, <1>7, <1>8, <1>11, VOnlyTab DEF IInv
  <1> QED BY <1>4, <1>9, <1>10, <1>11 DEF lock, mark

LEMMA VCheck ==
  ASSUME ClientsTypeOK, VInv, NEW t \in Tabs, Check(t)
  PROVE  VInv' /\ Stays
  <1> DEFINE new == [tabs[t] EXCEPT !.reading = None, !.checking = Asked(None)]
  <1>1. /\ tabs[t] \in Tab /\ ShowsPast(tabs[t], registry)
        /\ tabs[t].list \in SUBSET Client /\ Newer(tabs[t].list, tabs[t].list)
    BY VOwn
  <1>2. Asked(None) \in Reading /\ tabs[t].saving = None BY DEF Asked, Reading, Check, Quiet
  <1>3. /\ new \in Tab /\ new.list = tabs[t].list /\ new.selected = tabs[t].selected
        /\ new.saving = None /\ new.reading = None /\ new.checking = Asked(None)
    <2> HIDE DEF Asked
    <2> QED BY <1>1, <1>2 DEF Tab
  <1>4. Becomes(t, new) /\ registry' = registry /\ writes' = writes BY DEF Check
  <1> HIDE DEF new
  <1>5. RequestOK(new.reading, new.list, registry) /\ RequestOK(new.checking, new.list, registry)
    BY <1>3, AskedOK, NoRequestOK DEF RequestOK
  <1>6. ShowsPast(new, registry) /\ SavesNewer(new, writes)
    BY <1>1, <1>3, <1>5 DEF ShowsPast, SavesNewer
  <1> QED BY <1>1, <1>3, <1>4, <1>6, VOnlyTab

(* The user is told: the other tabs save other writes. *)
LEMMA VTold ==
  ASSUME ClientsTypeOK, VInv, NEW t \in Tabs, tabs[t].saving # None, writes[tabs[t].saving] # None,
         writes' = Told(tabs[t].saving, "answered")
  PROVE  /\ \A n \in Attempts : WriteKnown(writes'[n], registry)
         /\ \A u \in Tabs \ {t} : SavesNewer(tabs[u], writes')
  <1> DEFINE k == tabs[t].saving
  <1>1. tabs[t] \in Tab /\ writes \in [Attempts -> Write \cup {None}] BY DEF ClientsTypeOK
  <1>2. k \in Attempts /\ writes[k] \in Write BY <1>1, TabParts
  <1>3. /\ Told(k, "answered")[k].id = writes[k].id /\ Told(k, "answered")[k].saved = None
        /\ \A m \in Attempts \ {k} : Told(k, "answered")[m] = writes[m]
    <2> DEFINE told == IF writes[k].told = "no" THEN "answered" ELSE writes[k].told
    <2> DEFINE w == [writes[k] EXCEPT !.told = told, !.saved = None]
    <2>1. Told(k, "answered") = [writes EXCEPT ![k] = w] BY <1>1, <1>2 DEF Told
    <2> HIDE DEF told
    <2>2. w.id = writes[k].id /\ w.saved = None BY <1>2 DEF Write
    <2> HIDE DEF w
    <2> QED BY <1>1, <1>2, <2>1, <2>2
  <1>4. ASSUME NEW m \in Attempts PROVE WriteKnown(writes'[m], registry)
    <2>1. WriteKnown(writes[m], registry) BY DEF VInv
    <2> QED BY <1>2, <1>3, <2>1 DEF WriteKnown
  <1>5. ASSUME NEW u \in Tabs \ {t} PROVE SavesNewer(tabs[u], writes')
    <2>1. tabs[u] \in Tab /\ SavesNewer(tabs[u], writes) BY DEF ClientsTypeOK, VInv
    <2>2. tabs[u].saving # None => tabs[u].saving \in Attempts \ {k} BY <2>1, TabParts DEF VInv
    <2> QED BY <1>3, <2>1, <2>2 DEF SavesNewer
  <1> QED BY <1>4, <1>5

LEMMA VSaved ==
  ASSUME ClientsTypeOK, NEW tab \in Tab, NEW c \in Client, NEW created \in BOOLEAN, NEW W,
         ShowsPast(tab, registry), Below(c, registry), tab.reading = None, tab.checking = None,
         Newer({c}, tab.list)
  PROVE  /\ ShowsPast(Adopted(tab, c, created), registry) /\ SavesNewer(Adopted(tab, c, created), W)
         /\ Newer(Adopted(tab, c, created).list, tab.list)
  <1> DEFINE others == {r \in tab.list : r.id # c.id}
  <1> DEFINE list == IF created \/ \E r \in tab.list : r.id = c.id THEN others \cup {c} ELSE tab.list
  <1> DEFINE query == IF created THEN None ELSE tab.query
  <1> DEFINE shown == [tab EXCEPT !.saving = None, !.selected = c.id, !.draft = None,
                                  !.query = query, !.list = list]
  <1>1. tab.list \in SUBSET Client /\ c.id \in Ids /\ query \in Phones \cup {None} BY TabParts, ClientParts
  <1>2. list \in SUBSET Client BY <1>1
  <1>3. \A r \in tab.list : Below(r, registry) BY DEF ShowsPast
  <1>4. Once(tab.list) BY DEF ShowsPast
  <1>5. \A r \in list : Below(r, registry) BY <1>3
  <1>6. Once(list) BY <1>4 DEF Once
  <1>7. Newer(list, tab.list)
    <2>1. Newer(tab.list, tab.list) BY <1>1, <1>4, SameIsNewer
    <2> QED BY <2>1 DEF Newer
  <1>8. Adopted(tab, c, created) = Listing(shown, shown.query) BY DEF Adopted
  <1> HIDE DEF list, query
  <1>9. /\ shown \in Tab /\ shown.list = list /\ shown.selected = c.id /\ shown.saving = None
        /\ shown.reading = None /\ shown.checking = None /\ shown.query \in Phones \cup {None}
    BY <1>1, <1>2 DEF Tab
  <1> HIDE DEF shown
  <1>10. ShowsPast(shown, registry) /\ SavesNewer(shown, W)
    BY <1>5, <1>6, <1>9, NoRequestOK DEF ShowsPast, SavesNewer, Below
  <1> QED BY <1>7, <1>8, <1>9, <1>10, VListing

LEMMA VUndecided ==
  ASSUME ClientsTypeOK, VInv, NEW t \in Tabs
  PROVE  LET new == Undecided(tabs[t]) IN
         /\ new \in Tab /\ ShowsPast(new, registry) /\ \A W : SavesNewer(new, W)
         /\ new.saving = None /\ Newer(new.list, tabs[t].list)
         /\ new.list = tabs[t].list /\ new.selected = tabs[t].selected
         /\ new.reading = tabs[t].reading /\ new.checking = tabs[t].checking
  <1> DEFINE new == Undecided(tabs[t])
  <1>1. tabs[t] \in Tab /\ ShowsPast(tabs[t], registry) /\ Newer(tabs[t].list, tabs[t].list) BY VOwn
  <1>2. /\ new \in Tab /\ new.list = tabs[t].list /\ new.selected = tabs[t].selected
        /\ new.saving = None /\ new.reading = tabs[t].reading /\ new.checking = tabs[t].checking
    BY <1>1 DEF Undecided, Tab
  <1> HIDE DEF new
  <1>3. ShowsPast(new, registry) /\ \A W : SavesNewer(new, W) BY <1>1, <1>2 DEF ShowsPast, SavesNewer
  <1> QED BY <1>1, <1>2, <1>3 DEF new

LEMMA VCleared ==
  ASSUME NEW tab \in Tab, NEW R, NEW W, ShowsPast(tab, R), SavesNewer(tab, W)
  PROVE  /\ ShowsPast(Cleared(tab), R) /\ SavesNewer(Cleared(tab), W)
         /\ Cleared(tab).list = tab.list /\ Cleared(tab).reading = tab.reading
         /\ Cleared(tab).checking = tab.checking /\ Cleared(tab).open = tab.open
  <1> DEFINE l == Cleared(tab)
  <1>1. /\ l.list = tab.list /\ l.open = tab.open /\ l.selected = tab.selected
        /\ l.saving = tab.saving /\ l.checking = tab.checking /\ l.reading = tab.reading
    BY DEF Tab, Cleared
  <1> HIDE DEF l
  <1>2. ShowsPast(l, R) /\ SavesNewer(l, W) BY <1>1 DEF ShowsPast, SavesNewer
  <1> QED BY <1>1, <1>2 DEF l

LEMMA VSaveDone ==
  ASSUME IInv, VInv, NEW t \in Tabs, SaveDone(t)
  PROVE  VInv' /\ Stays
  <1> DEFINE n == tabs[t].saving
  <1> DEFINE c == writes[n].saved
  <1>1. /\ tabs[t] \in Tab /\ ShowsPast(tabs[t], registry) /\ SavesNewer(tabs[t], writes)
        /\ Newer(tabs[t].list, tabs[t].list) /\ ClientsTypeOK
    BY VOwn DEF IInv
  <1>2. n # None /\ n \in Attempts /\ writes[n].state = "done" /\ registry' = registry
    BY <1>1, TabParts DEF SaveDone
  <1>3. writes[n] # None /\ writes[n] \in Write
    BY <1>2, OwnTab DEF TabOK, SavesMark, IInv, ClientsTypeOK
  <1>4. /\ c \in Client /\ Newer({c}, tabs[t].list)
        /\ tabs[t].reading = None /\ tabs[t].checking = None
    BY <1>1, <1>2, <1>3, WriteParts DEF SavesNewer
  <1>5. Below(c, registry) BY <1>2, <1>3, <1>4 DEF VInv, WriteKnown, SavesNewer
  <1>6. CASE Becomes(t, Adopted(tabs[t], c, FALSE)) /\ writes' = Told(n, "answered")
    <2> DEFINE new == Adopted(tabs[t], c, FALSE)
    <2>1. new \in Tab /\ new.saving = None BY <1>1, <1>4, SavedType
    <2>2. ShowsPast(new, registry) /\ SavesNewer(new, writes') /\ Newer(new.list, tabs[t].list)
      BY <1>1, <1>4, <1>5, VSaved
    <2>3. Becomes(t, new) BY <1>6
    <2> HIDE DEF new
    <2>4. /\ \A m \in Attempts : WriteKnown(writes'[m], registry)
          /\ \A u \in Tabs \ {t} : SavesNewer(tabs[u], writes')
      BY <1>1, <1>2, <1>3, <1>6, VTold
    <2> QED BY <1>1, <1>2, <2>1, <2>2, <2>3, <2>4, VTab
  <1>7. CASE Becomes(t, Adopted(Cleared(tabs[t]), c, TRUE)) /\ writes' = Told(n, "answered")
    <2> DEFINE cleared == Cleared(tabs[t])
    <2>1. /\ cleared \in Tab /\ cleared.list = tabs[t].list /\ cleared.reading = None
          /\ cleared.checking = None /\ ShowsPast(cleared, registry)
      BY <1>1, <1>4, ClearedType, VCleared
    <2> DEFINE new == Adopted(cleared, c, TRUE)
    <2>2. Becomes(t, new) BY <1>7
    <2> HIDE DEF cleared
    <2>3. new \in Tab /\ new.saving = None BY <1>4, <2>1, SavedType
    <2>4. ShowsPast(new, registry) /\ SavesNewer(new, writes') /\ Newer(new.list, tabs[t].list)
      BY <1>1, <1>4, <1>5, <2>1, VSaved
    <2> HIDE DEF new
    <2>5. /\ \A m \in Attempts : WriteKnown(writes'[m], registry)
          /\ \A u \in Tabs \ {t} : SavesNewer(tabs[u], writes')
      BY <1>1, <1>2, <1>3, <1>7, VTold
    <2> QED BY <1>1, <1>2, <2>2, <2>3, <2>4, <2>5, VTab
  <1>8. CASE Becomes(t, Undecided(tabs[t])) /\ UNCHANGED writes
    <2>1. writes' = writes BY <1>8
    <2> QED BY <1>1, <1>2, <1>8, <2>1, VUndecided, VOnlyTab
  <1> QED BY <1>6, <1>7, <1>8 DEF SaveDone

LEMMA VSaveFails ==
  ASSUME IInv, VInv, NEW t \in Tabs, SaveFails(t)
  PROVE  VInv' /\ Stays
  <1> DEFINE n == tabs[t].saving
  <1> DEFINE idle == Undecided(tabs[t])
  <1>1. /\ ClientsTypeOK /\ idle \in Tab /\ ShowsPast(idle, registry) /\ (\A W : SavesNewer(idle, W))
        /\ idle.saving = None /\ Newer(idle.list, tabs[t].list)
    BY VUndecided DEF IInv
  <1>2. n # None /\ registry' = registry BY DEF SaveFails
  <1>3. writes[n] # None BY <1>2, OwnTab DEF TabOK, SavesMark
  <1>4. \/ Becomes(t, Cleared(idle)) /\ UNCHANGED writes
        \/ Becomes(t, Cleared(idle)) /\ writes' = Told(n, "answered")
        \/ Becomes(t, idle) /\ UNCHANGED writes
    BY DEF SaveFails
  <1> HIDE DEF idle
  <1> DEFINE new == Cleared(idle)
  <1>5. /\ new \in Tab /\ ShowsPast(new, registry) /\ (\A W : SavesNewer(new, W))
        /\ new.saving = None /\ Newer(new.list, tabs[t].list)
    BY <1>1, ClearedType, VCleared DEF SavesNewer
  <1>6. CASE Becomes(t, new) /\ UNCHANGED writes
    <2> HIDE DEF new
    <2> QED BY <1>1, <1>2, <1>5, <1>6, VOnlyTab
  <1>7. CASE Becomes(t, new) /\ writes' = Told(n, "answered")
    <2> HIDE DEF new
    <2>1. /\ \A m \in Attempts : WriteKnown(writes'[m], registry)
          /\ \A u \in Tabs \ {t} : SavesNewer(tabs[u], writes')
      BY <1>1, <1>2, <1>3, <1>7, VTold
    <2> QED BY <1>1, <1>2, <1>5, <1>7, <2>1, VTab
  <1>8. CASE Becomes(t, idle) /\ UNCHANGED writes
    BY <1>1, <1>2, <1>8, VOnlyTab
  <1> QED BY <1>4, <1>6, <1>7, <1>8

LEMMA VCheckComes ==
  ASSUME IInv, VInv, NEW t \in Tabs, CheckComes(t)
  PROVE  VInv' /\ Stays
  <1> DEFINE done == [tabs[t] EXCEPT !.checking = None]
  <1>1. /\ tabs[t] \in Tab /\ ShowsPast(tabs[t], registry) /\ SavesNewer(tabs[t], writes)
        /\ Newer(tabs[t].list, tabs[t].list) /\ ClientsTypeOK
    BY VOwn DEF IInv
  <1>2. tabs[t].checking # None /\ registry' = registry BY DEF CheckComes
  <1>3. tabs[t].saving = None /\ tabs[t].reading = None BY <1>1, <1>2 DEF ShowsPast, SavesNewer
  <1>4. /\ done \in Tab /\ done.list = tabs[t].list /\ done.selected = tabs[t].selected
        /\ done.saving = None /\ done.reading = None /\ done.checking = None
    BY <1>1, <1>3 DEF Tab
  <1> HIDE DEF done
  <1>5. ShowsPast(done, registry) /\ \A W : SavesNewer(done, W)
    BY <1>1, <1>4, NoRequestOK DEF ShowsPast, SavesNewer
  <1>6. CASE Becomes(t, done) /\ UNCHANGED writes
    BY <1>1, <1>2, <1>4, <1>5, <1>6, VOnlyTab
  <1>7. CASE /\ tabs[t].checking.rows # None
             /\ writes' = [n \in Attempts |->
                 IF writes[n] # None /\ writes[n].id = None /\ writes[n].draft = tabs[t].draft /\ writes[n].told = "no"
                 THEN [writes[n] EXCEPT !.told = "found"] ELSE writes[n]]
             /\ \E c \in Found(tabs[t]) :
                  Becomes(t, [Selecting(Cleared(done), c.id) EXCEPT !.list = tabs[t].checking.rows, !.query = None])
    <2> DEFINE rows == tabs[t].checking.rows
    <2>1. rows \in SUBSET Client BY <1>1, <1>2, <1>7, TabParts DEF Reading
    <2>2. (\A r \in rows : Below(r, registry)) /\ Once(rows) /\ Newer(rows, tabs[t].list)
      BY <1>1, <1>2, <1>7 DEF ShowsPast, RequestOK
    <2>3. PICK c \in Found(tabs[t]) :
            Becomes(t, [Selecting(Cleared(done), c.id) EXCEPT !.list = rows, !.query = None])
      BY <1>7
    <2>4. c \in rows /\ c.id \in Ids BY <2>1, <2>3, ClientParts DEF Found
    <2> DEFINE cleared == Selecting(Cleared(done), c.id)
    <2>5. /\ cleared \in Tab /\ cleared.selected = c.id /\ cleared.saving = None
          /\ cleared.reading = None /\ cleared.checking = None
      <3>1. /\ Cleared(done) \in Tab /\ Cleared(done).saving = None
            /\ Cleared(done).reading = None /\ Cleared(done).checking = None
        BY <1>4, <1>5, ClearedType, VCleared
      <3>2. ASSUME NEW tab \in Tab
            PROVE  /\ Selecting(tab, c.id) \in Tab /\ Selecting(tab, c.id).selected = c.id
                   /\ Selecting(tab, c.id).saving = tab.saving
                   /\ Selecting(tab, c.id).reading = tab.reading
                   /\ Selecting(tab, c.id).checking = tab.checking
        BY <2>4 DEF Selecting, Tab
      <3> QED BY <3>1, <3>2
    <2> DEFINE new == [cleared EXCEPT !.list = rows, !.query = None]
    <2>6. Becomes(t, new) BY <2>3
    <2> HIDE DEF cleared, rows
    <2>7. /\ new \in Tab /\ new.list = rows /\ new.selected = c.id /\ new.saving = None
          /\ new.reading = None /\ new.checking = None
      BY <2>1, <2>5 DEF Tab
    <2> HIDE DEF new
    <2>8. ShowsPast(new, registry) /\ SavesNewer(new, writes')
      BY <2>2, <2>4, <2>7, NoRequestOK DEF ShowsPast, SavesNewer, Below
    <2>9. writes \in [Attempts -> Write \cup {None}] BY <1>1 DEF ClientsTypeOK
    <2>10. ASSUME NEW m \in Attempts, writes[m] # None
           PROVE  /\ writes'[m].id = writes[m].id /\ writes'[m].saved = writes[m].saved
                  /\ writes'[m].state = writes[m].state
      <3>1. writes[m] \in Write BY <2>9, <2>10
      <3>2. LET w == [writes[m] EXCEPT !.told = "found"]
            IN  w.id = writes[m].id /\ w.saved = writes[m].saved /\ w.state = writes[m].state
        BY <3>1 DEF Write
      <3> QED BY <1>7, <3>2
    <2>11. ASSUME NEW m \in Attempts PROVE WriteKnown(writes'[m], registry)
      <3>1. WriteKnown(writes[m], registry) BY DEF VInv
      <3>2. writes[m] = None => writes'[m] = None BY <1>7
      <3> QED BY <2>10, <3>1, <3>2 DEF WriteKnown
    <2>12. ASSUME NEW u \in Tabs \ {t} PROVE SavesNewer(tabs[u], writes')
      <3>1. /\ tabs[u] \in Tab /\ SavesNewer(tabs[u], writes) /\ SavesMark(tabs[u], writes)
        BY OwnTab DEF VInv, TabOK
      <3>2. tabs[u].saving # None => tabs[u].saving \in Attempts /\ writes[tabs[u].saving] # None
        BY <3>1, TabParts DEF SavesMark
      <3> QED BY <2>10, <3>1, <3>2 DEF SavesNewer
    <2> QED BY <1>1, <1>2, <2>2, <2>6, <2>7, <2>8, <2>11, <2>12, VTab
  <1> QED BY <1>6, <1>7 DEF CheckComes, done

-----------------------------------------------------------------------------
(* The theorems *)

LEMMA InitHolds == ASSUME ClientsInit PROVE IInv /\ VInv
  <1>1. ClientsTypeOK BY ClientsAssumption, ClosedType DEF ClientsInit, ClientsTypeOK
  <1>2. ASSUME NEW t \in Tabs
        PROVE  TabOK(tabs[t], writes) /\ ShowsPast(tabs[t], registry) /\ SavesNewer(tabs[t], writes)
    <2>1. tabs[t] = Closed BY DEF ClientsInit
    <2>2. /\ Closed.mark = None /\ Closed.saving = None /\ Closed.list = {} /\ Closed.selected = None
          /\ Closed.reading = None /\ Closed.checking = None
      BY DEF Closed
    <2>3. TabOK(Closed, writes) BY <2>2 DEF TabOK, Marked, SavesMark
    <2>4. ShowsPast(Closed, registry) /\ SavesNewer(Closed, writes)
      BY <2>2, NoRequestOK DEF ShowsPast, SavesNewer, Once
    <2> QED BY <2>1, <2>3, <2>4
  <1>3. \A t \in Tabs : tabs[t].saving = None BY DEF ClientsInit, Closed
  <1>4. Noted(note, writes) /\ note = None BY DEF ClientsInit, Noted, Doubtful
  <1>5. \A n \in Attempts : WriteKnown(writes[n], registry) BY DEF ClientsInit, WriteKnown
  <1>6. \A i \in Ids : registry[i] # None => registry[i].id = i BY DEF ClientsInit
  <1> QED BY <1>1, <1>2, <1>3, <1>4, <1>5, <1>6 DEF IInv, VInv

LEMMA StepHolds == ASSUME IInv, VInv, ClientsNext PROVE IInv' /\ VInv' /\ Stays
  <1>0. ClientsTypeOK BY DEF IInv
  <1>1. CASE OtherWrite BY <1>1, OtherWriteStep, VOtherWrite
  <1>2. ASSUME NEW n \in Attempts, Execute(n) PROVE IInv' /\ VInv' /\ Stays
    BY <1>2, ExecuteStep, VExecute
  <1>3. ASSUME NEW n \in Attempts, Refuse(n) PROVE IInv' /\ VInv' /\ Stays
    BY <1>3, RefuseStep, VRefuse
  <1>4. ASSUME NEW t \in Tabs, Open(t) \/ Close(t) \/ LogoutFails(t) PROVE IInv' /\ VInv' /\ Stays
    BY <1>0, <1>4, OpenStep, VOpen, CloseStep, VClose, LogoutFailsStep, VLogoutFails
  <1>5. ASSUME NEW t \in Tabs, Serve(t) \/ ListComes(t) PROVE IInv' /\ VInv' /\ Stays
    BY <1>0, <1>5, ServeStep, VServe, ListComesStep, VListComes
  <1>6. ASSUME NEW t \in Tabs, SelectClient(t) \/ Search(t) \/ Refresh(t) PROVE IInv' /\ VInv' /\ Stays
    BY <1>0, <1>6, BrowseStep, VBrowse
  <1>7. ASSUME NEW t \in Tabs, SaveEdit(t) \/ SaveNew(t) PROVE IInv' /\ VInv' /\ Stays
    BY <1>7, SaveEditStep, VSaveEdit, SaveNewStep, VSaveNew
  <1>8. ASSUME NEW t \in Tabs, SaveDone(t) \/ SaveFails(t) PROVE IInv' /\ VInv' /\ Stays
    BY <1>8, SaveDoneStep, VSaveDone, SaveFailsStep, VSaveFails
  <1>9. ASSUME NEW t \in Tabs, Check(t) \/ CheckComes(t) PROVE IInv' /\ VInv' /\ Stays
    BY <1>0, <1>9, CheckStep, VCheck, CheckComesStep, VCheckComes
  <1> QED BY <1>1, <1>2, <1>3, <1>4, <1>5, <1>6, <1>7, <1>8, <1>9 DEF ClientsNext

LEMMA StutterHolds == ASSUME IInv, VInv, UNCHANGED clients PROVE IInv' /\ VInv' /\ Stays
  <1>1. /\ registry' = registry /\ note' = note /\ tabs' = tabs /\ writes' = writes /\ losses' = losses
    BY DEF clients
  <1>2. IInv' BY <1>1 DEF IInv, ClientsTypeOK
  <1>3. VInv' BY <1>1 DEF VInv
  <1>4. Stays BY <1>1, NothingMoves DEF IInv
  <1> QED BY <1>2, <1>3, <1>4

LEMMA Invariance == ClientsSpec => [](IInv /\ VInv)
  <1>1. ClientsInit => IInv /\ VInv BY InitHolds
  <1>2. IInv /\ VInv /\ [ClientsNext]_clients => (IInv /\ VInv)' BY StepHolds, StutterHolds
  <1> QED BY <1>1, <1>2, PTL DEF ClientsSpec

(* The types: every tab, note, request and client is what Clients says. *)
THEOREM Types == ClientsSpec => []ClientsTypeOK
  <1>1. IInv => ClientsTypeOK BY DEF IInv
  <1> QED BY <1>1, Invariance, PTL

(* Whatever answers are lost, whatever tabs are closed and opened again and whoever *)
(* else writes: the note of a creation in doubt stays until the user is told of it,  *)
(* so that no tab sends a second one.                                                *)
THEOREM DoubtOutlivesTabs == ClientsSpec => []DoubtIsKept
  <1>1. IInv => DoubtIsKept
    <2> SUFFICES ASSUME IInv, NEW n \in InDoubt, Alone(n)
                 PROVE  note = writes[n].draft /\ \A m \in InDoubt : Alone(m) => m = n
      BY DEF DoubtIsKept
    <2>1. ASSUME NEW m \in InDoubt, Alone(m) PROVE m \in Attempts /\ note = writes[m].draft
      <3>1. m \in Attempts /\ Doubtful(writes, m) BY <2>1 DEF InDoubt, Alone, Doubtful
      <3> QED BY <3>1 DEF IInv, Noted
    <2>2. ASSUME NEW m \in InDoubt, Alone(m) PROVE m = n
      <3>1. writes[m].draft = writes[n].draft BY <2>1, <2>2
      <3> QED BY <2>1, <2>2, <3>1 DEF Alone, InDoubt
    <2> QED BY <2>1, <2>2
  <1> QED BY <1>1, Invariance, PTL

(* No list that comes late, of a search, a check or a refresh, shows a client as he *)
(* was before what the tab already shows of him.                                     *)
THEOREM ListsMoveForward == ClientsSpec => SavedStays
  <1>1. IInv /\ VInv /\ [ClientsNext]_clients => Stays BY StepHolds, StutterHolds
  <1>2. Stays => \A t \in Tabs :
                   tabs[t].open /\ tabs'[t].open =>
                     \A c \in tabs[t].list, d \in tabs'[t].list : c.id = d.id => c.version <= d.version
    BY DEF Stays, Newer
  <1> QED BY <1>1, <1>2, Invariance, PTL DEF ClientsSpec, SavedStays
=============================================================================
