------------------------------ MODULE Clients -------------------------------
(***************************************************************************)
(* The panel's clients screen, open in several tabs of one browser. A      *)
(* client that is being created is written down in localStorage before the *)
(* request is sent; while its outcome is unknown no tab creates another    *)
(* one, and only an answer, or the sight of the client in the list, erases *)
(* the note. The tabs are those of one identity: the note is its own.      *)
(*                                                                         *)
(* Left out: the appointments of the selected client, the typing in the    *)
(* forms, and where the focus goes.                                        *)
(***************************************************************************)
EXTENDS Naturals

CONSTANTS
  Tabs, Phones, Names,
  Searches,     \* what is looked for: a phone; None lists every client
  MaxClients,   \* bound: clients of the business
  MaxWrites,    \* bound: clients created or changed from this browser
  MaxLosses,    \* bound: lost answers, refusals, failures of the storage
  None

Ids == 1..MaxClients
Draft == [phone : Phones, name : Names]
Client == [id : Ids, draft : Draft, version : Nat]

VARIABLES
  registry,   \* what the server holds under each identifier
  note,       \* localStorage: agendia.client-create
  tabs,
  writes,     \* requests that create or change a client, in the order they were sent
  losses

clients == <<registry, note, tabs, writes, losses>>

Attempts == 1..MaxWrites

Write == [id : Ids \cup {None},                    \* None: a client is created
          draft : Draft,
          state : {"sent", "done", "refused"}, saved : Client \cup {None},
          told : {"no", "answered", "found"}]      \* how the user learns what became of it

(* A request of a tab that reads clients, and the rows the server answered *)
Reading == [query : Phones \cup {None}, rows : (SUBSET Client) \cup {None}]

ASSUME ClientsAssumption ==
  /\ MaxClients \in Nat /\ MaxWrites \in Nat /\ MaxLosses \in Nat
  /\ Searches \subseteq Phones \cup {None}
  /\ None \notin Nat \cup Draft \cup Write \cup Reading \cup Client

Tab == [open : BOOLEAN,
        fenced : BOOLEAN, uncertain : BOOLEAN,
        mark : Draft \cup {None},           \* journalValue
        draft : Draft \cup {None},         \* the client being created, once it was sent
        selected : Ids \cup {None},
        query : Phones \cup {None}, list : SUBSET Client,
        reading : Reading \cup {None},      \* listRequest
        saving : Attempts \cup {None},      \* mutation, when it is a write
        checking : Reading \cup {None}]     \* mutation, when it is a check

ClientsTypeOK ==
  /\ registry \in [Ids -> Client \cup {None}]
  /\ note \in Draft \cup {None}
  /\ tabs \in [Tabs -> Tab]
  /\ writes \in [Attempts -> Write \cup {None}]
  /\ losses \in 0..MaxLosses

Asked(q) == [query |-> q, rows |-> None]

Closed == [open |-> FALSE, fenced |-> TRUE, uncertain |-> FALSE, mark |-> None,
           draft |-> None, selected |-> None, query |-> None, list |-> {},
           reading |-> None, saving |-> None, checking |-> None]

ClientsInit ==
  /\ registry = [i \in Ids |-> None]
  /\ note = None
  /\ tabs = [t \in Tabs |-> Closed]
  /\ writes = [n \in Attempts |-> None]
  /\ losses = 0

Loss == losses < MaxLosses /\ losses' = losses + 1

-----------------------------------------------------------------------------
(* The server *)

Rows == {registry[i] : i \in Ids} \ {None}
Taken(phone, i) == \E c \in Rows : c.draft.phone = phone /\ c.id # i

Answered(n, saved) ==
  writes' = [writes EXCEPT ![n].state = IF saved = None THEN "refused" ELSE "done", ![n].saved = saved]

(* createClient, updateClient: the phone is unique in the business. *)
Execute(n) ==
  LET w == writes[n] IN
  /\ w # None /\ w.state = "sent"
  /\ \/ Taken(w.draft.phone, w.id) /\ Answered(n, None) /\ UNCHANGED registry
     \/ /\ ~Taken(w.draft.phone, w.id)
        /\ \E i \in Ids :
             /\ IF w.id # None THEN i = w.id
                ELSE registry[i] = None /\ \A j \in 1..(i - 1) : registry[j] # None
             /\ LET saved == [id |-> i, draft |-> w.draft,
                              version |-> IF w.id = None THEN 1 ELSE registry[i].version + 1]
                IN registry' = [registry EXCEPT ![i] = saved] /\ Answered(n, saved)
  /\ UNCHANGED <<note, tabs, losses>>

(* 400, 401, 403, 404 *)
Refuse(n) ==
  /\ writes[n] # None /\ writes[n].state = "sent" /\ Loss
  /\ Answered(n, None) /\ UNCHANGED <<registry, note, tabs>>

(* listClients *)
List(q) == {c \in Rows : q = None \/ c.draft.phone = q}

Serve(t) ==
  /\ \/ tabs[t].reading # None /\ tabs[t].reading.rows = None
        /\ tabs' = [tabs EXCEPT ![t].reading.rows = List(tabs[t].reading.query)]
     \/ tabs[t].checking # None /\ tabs[t].checking.rows = None
        /\ tabs' = [tabs EXCEPT ![t].checking.rows = List(None)]
  /\ UNCHANGED <<registry, note, writes, losses>>

(* Other devices, the agent and the booking form create and change clients too. *)
OtherWrite ==
  /\ Loss
  /\ \E i \in Ids, d \in Draft :
       /\ registry[i] # None \/ \A j \in 1..(i - 1) : registry[j] # None
       /\ ~Taken(d.phone, i)
       /\ registry' = [registry EXCEPT ![i] =
            [id |-> i, draft |-> d, version |-> IF @ = None THEN 1 ELSE @.version + 1]]
  /\ UNCHANGED <<note, tabs, writes>>

-----------------------------------------------------------------------------
(* A tab *)

Becomes(t, tab) == tabs' = [tabs EXCEPT ![t] = tab]
Quiet(tab) == tab.saving = None /\ tab.checking = None
Free(tab) == tab.open /\ Quiet(tab) /\ ~tab.fenced

(* loadList *)
Listing(tab, q) ==
  IF ~Quiet(tab) \/ (tab.reading # None /\ tab.query = q) THEN tab
  ELSE [tab EXCEPT !.reading = Asked(q), !.query = q]

(* clearJournal: the note must be the one this tab wrote or found. *)
Owns(tab) == tab.mark # None /\ note = tab.mark
Cleared(tab) == [tab EXCEPT !.fenced = FALSE, !.uncertain = FALSE]

Open(t) ==
  LET tab == Listing([Closed EXCEPT !.open = TRUE], None) IN
  /\ ~tabs[t].open
  /\ \/ note = None /\ Becomes(t, [tab EXCEPT !.fenced = FALSE]) /\ UNCHANGED losses
     \/ note # None /\ UNCHANGED losses
        /\ Becomes(t, [tab EXCEPT !.uncertain = TRUE, !.mark = note, !.draft = note])
     \/ Loss /\ Becomes(t, tab)        \* the storage cannot be read: the screen stays locked
  /\ UNCHANGED <<registry, note, writes>>

(* The page is left or loaded again. What was sent goes on. *)
Close(t) ==
  tabs[t].open /\ Becomes(t, Closed) /\ UNCHANGED <<registry, note, writes, losses>>

(* A logout gives up what the screen waits for; when it fails the screen goes on. *)
Interrupted(tab) == [tab EXCEPT !.reading = None, !.saving = None, !.checking = None]
LogoutFails(t) ==
  tabs[t].open /\ Becomes(t, Interrupted(tabs[t])) /\ UNCHANGED <<registry, note, writes, losses>>

Selecting(tab, i) == [tab EXCEPT !.selected = i, !.draft = None]

SelectClient(t) ==
  /\ Free(tabs[t]) /\ \E c \in tabs[t].list : Becomes(t, Selecting(tabs[t], c.id))
  /\ UNCHANGED <<registry, note, writes, losses>>

Search(t) ==
  /\ Free(tabs[t])
  /\ \E q \in Searches : Becomes(t, Listing(Selecting(tabs[t], None), q))
  /\ UNCHANGED <<registry, note, writes, losses>>

(* The list answered, or failed. *)
ListComes(t) ==
  LET tab == tabs[t] IN
  /\ tab.reading # None
  /\ \/ tab.reading.rows # None /\ UNCHANGED losses
        /\ Becomes(t, [tab EXCEPT !.reading = None, !.list = tab.reading.rows])
     \/ Loss /\ Becomes(t, [tab EXCEPT !.reading = None])
  /\ UNCHANGED <<registry, note, writes>>

(* The button under a list that failed *)
Refresh(t) ==
  /\ Free(tabs[t]) /\ tabs[t].reading = None /\ Becomes(t, Listing(tabs[t], tabs[t].query))
  /\ UNCHANGED <<registry, note, writes, losses>>

-----------------------------------------------------------------------------
(* Saving *)

(* Mutant: a list asked for before the save is still waited for. *)
KeepsReading(tab) == tab

(* A save gives up the list that is being read. *)
GivesUpReading(tab) == [tab EXCEPT !.reading = None]

Sends(t, tab, i, d, n) ==
  /\ writes[n] = None /\ \A m \in 1..(n - 1) : writes[m] # None
  /\ writes' = [writes EXCEPT ![n] =
       [id |-> i, draft |-> d, state |-> "sent", saved |-> None, told |-> "no"]]
  /\ Becomes(t, [GivesUpReading(tab) EXCEPT !.saving = n])

(* The form of a client that is selected, filled in and sent *)
SaveEdit(t) ==
  /\ Free(tabs[t]) /\ tabs[t].selected # None
  /\ \E d \in Draft, n \in Attempts : Sends(t, tabs[t], tabs[t].selected, d, n)
  /\ UNCHANGED <<registry, note, losses>>

(* The form of a new client: it is sent only once its note is in the storage. *)
SaveNew(t) ==
  LET locked(d) == [Selecting(tabs[t], None) EXCEPT !.draft = d, !.fenced = TRUE, !.uncertain = TRUE]
      marked(d) == [locked(d) EXCEPT !.mark = d]
  IN /\ Free(tabs[t])
     /\ \E d \in Draft :
          \/ /\ note = None /\ note' = d /\ UNCHANGED losses
             /\ \E n \in Attempts : Sends(t, marked(d), None, d, n)
          \/ note # None /\ Becomes(t, locked(d)) /\ UNCHANGED <<note, writes, losses>>
          \/ note = None /\ Loss /\ Becomes(t, marked(d)) /\ UNCHANGED <<note, writes>>   \* storage full
     /\ UNCHANGED registry

Told(n, how) == [writes EXCEPT ![n].told = IF @ = "no" THEN how ELSE @, ![n].saved = None]
Undecided(tab) == [tab EXCEPT !.saving = None]

(* The note is erased, unless it is another's or the storage fails. *)
Erased == note' = None /\ UNCHANGED losses
Kept(tab) == UNCHANGED note /\ ((~Owns(tab) /\ UNCHANGED losses) \/ (Owns(tab) /\ Loss))

(* What a confirmed save leaves on the screen; then the list is read again. *)
Adopted(tab, c, created) ==
  LET others == {r \in tab.list : r.id # c.id}
      shown == [tab EXCEPT !.saving = None, !.selected = c.id, !.draft = None,
                           !.query = IF created THEN None ELSE @,
                           !.list = IF created \/ \E r \in tab.list : r.id = c.id
                                    THEN others \cup {c} ELSE @]
  IN Listing(shown, shown.query)

SaveDone(t) ==
  LET tab == tabs[t]  n == tab.saving  w == writes[n] IN
  /\ n # None /\ w.state = "done"
  /\ \/ /\ w.id # None /\ Becomes(t, Adopted(tab, w.saved, FALSE))
        /\ writes' = Told(n, "answered") /\ UNCHANGED <<note, losses>>
     \/ /\ w.id = None /\ Owns(tab) /\ Erased /\ writes' = Told(n, "answered")
        /\ Becomes(t, Adopted(Cleared(tab), w.saved, TRUE))
     \/ w.id = None /\ Kept(tab) /\ Becomes(t, Undecided(tab)) /\ UNCHANGED writes
  /\ UNCHANGED registry

(* Mutant: whatever goes wrong, the client was not created. *)
AnyErrorRejects(code) == code \in {"refused", "fails"}

(* rejected: an answer that says nothing was done *)
Rejects(code) == code = "refused"

(* The answer is a refusal, an error, or does not come. *)
SaveFails(t) ==
  LET tab == tabs[t]  n == tab.saving IN
  /\ n # None
  /\ \E code \in {"refused", "fails"} :
       /\ code = "refused" => writes[n].state = "refused"
       /\ \/ /\ writes[n].id = None /\ Rejects(code) /\ Owns(tab) /\ note' = None
             /\ Becomes(t, Cleared(Undecided(tab)))
             /\ IF code = "fails" THEN Loss /\ UNCHANGED writes
                ELSE writes' = Told(n, "answered") /\ UNCHANGED losses
          \/ /\ writes[n].id = None /\ Rejects(code) /\ Kept(tab)
             /\ Becomes(t, Undecided(tab)) /\ UNCHANGED writes
          \/ /\ writes[n].id # None \/ ~Rejects(code)
             /\ IF code = "fails" THEN Loss ELSE UNCHANGED losses
             /\ Becomes(t, Undecided(tab)) /\ UNCHANGED <<note, writes>>
  /\ UNCHANGED registry

(* checkClient: is the client in doubt in the list? *)
Check(t) ==
  LET tab == tabs[t] IN
  /\ tab.open /\ tab.uncertain /\ tab.draft # None /\ Quiet(tab)
  /\ Becomes(t, [tab EXCEPT !.reading = None, !.checking = Asked(None)])
  /\ UNCHANGED <<registry, note, writes, losses>>

Found(tab) == {c \in tab.checking.rows : c.draft = tab.draft}

CheckComes(t) ==
  LET tab == tabs[t]  done == [tab EXCEPT !.checking = None] IN
  /\ tab.checking # None
  /\ \/ Loss /\ Becomes(t, done) /\ UNCHANGED <<note, writes>>
     \/ /\ tab.checking.rows # None /\ Found(tab) = {}
        /\ Becomes(t, done) /\ UNCHANGED <<note, writes, losses>>
     \/ /\ tab.checking.rows # None /\ Found(tab) # {} /\ Kept(tab)
        /\ Becomes(t, done) /\ UNCHANGED writes
     \/ /\ tab.checking.rows # None /\ Found(tab) # {} /\ Owns(tab) /\ Erased
        /\ writes' = [n \in Attempts |->
             IF writes[n] # None /\ writes[n].id = None /\ writes[n].draft = tab.draft /\ writes[n].told = "no"
             THEN [writes[n] EXCEPT !.told = "found"] ELSE writes[n]]
        /\ \E c \in Found(tab) :
             Becomes(t, [Selecting(Cleared(done), c.id) EXCEPT !.list = tab.checking.rows, !.query = None])
  /\ UNCHANGED registry

ClientsNext ==
  \/ OtherWrite
  \/ \E n \in Attempts : Execute(n) \/ Refuse(n)
  \/ \E t \in Tabs :
       \/ Open(t) \/ Close(t) \/ LogoutFails(t) \/ Serve(t) \/ ListComes(t) \/ Refresh(t)
       \/ SelectClient(t) \/ Search(t) \/ SaveEdit(t) \/ SaveNew(t)
       \/ SaveDone(t) \/ SaveFails(t) \/ Check(t) \/ CheckComes(t)

ClientsSpec == ClientsInit /\ [][ClientsNext]_clients

-----------------------------------------------------------------------------
(* Properties *)

InDoubt == {n \in Attempts : writes[n] # None /\ writes[n].id = None /\ writes[n].told = "no"}

(* The note tells attempts apart by what they create. *)
Alone(n) ==
  \A m \in Attempts \ {n} : writes[m] # None /\ writes[m].id = None => writes[m].draft # writes[n].draft

(* While the user does not know what became of a client he created, the browser *)
(* does, in every tab and after every reload, and no second one is sent. Left   *)
(* out: a client that is typed in again, whose attempts have the same note.     *)
DoubtIsKept ==
  \A n \in InDoubt : Alone(n) => note = writes[n].draft /\ \A m \in InDoubt : Alone(m) => m = n

(* A list that was read before a save never replaces what the save left on the screen. *)
SavedStays ==
  [][\A t \in Tabs :
       tabs[t].open /\ tabs'[t].open =>
         \A c \in tabs[t].list, d \in tabs'[t].list : c.id = d.id => c.version <= d.version]_clients
=============================================================================
