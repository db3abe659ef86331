------------------------------ MODULE Throttle ------------------------------
(***************************************************************************)
(* admit_login: the budgets that every login is charged before any work is *)
(* done for it, one of all accounts and one of each, and the table of the  *)
(* second (0000_base.sql).  The row of the first is locked before the      *)
(* clock is read, so an admission is one step.                             *)
(***************************************************************************)
EXTENDS Integers, FiniteSets

CONSTANTS
  Accounts,    \* digests of e-mails, of accounts that exist or not
  Global,      \* logins of all accounts in a minute: 120
  PerAccount,  \* logins of one account in a horizon: 20
  Minute, Horizon,
  Batch,       \* rows an admission purges: 128
  MaxInstant   \* bound: the clock

ASSUME ThrottleAssumption ==
  /\ {Global, PerAccount, Minute, Horizon, Batch} \subseteq Nat \ {0} /\ MaxInstant \in Nat
  /\ Horizon = Minute * (Horizon \div Minute)  \* a whole number of minutes: 15

VARIABLES instant, budget, table
throttle == <<instant, budget, table>>

Budget == [attempts : 0..Global, resetsAt : Nat]
AccountRow == [account : Accounts, attempts : 1..PerAccount, resetsAt : Nat]

ThrottleTypeOK ==
  /\ instant \in 0..MaxInstant /\ budget \in Budget /\ table \subseteq AccountRow

ThrottleInit == instant = 0 /\ budget = [attempts |-> 0, resetsAt |-> 0] /\ table = {}

ClockTicks == instant < MaxInstant /\ instant' = instant + 1 /\ UNCHANGED <<budget, table>>

Over(r) == r.resetsAt <= instant

\* The oldest rows that are over, up to a batch of them.
Purges(old) ==
  LET over == {r \in table : Over(r)} IN
  /\ old \subseteq over /\ Cardinality(old) <= Batch
  /\ old # over => Cardinality(old) = Batch
  /\ \A r \in old, kept \in over \ old : r.resetsAt <= kept.resetsAt

Renewed == IF Over(budget) THEN [attempts |-> 0, resetsAt |-> instant + Minute] ELSE budget

\* insert ... on conflict do update: a row that is over and not purged starts again.
Charged(a, kept) ==
  IF \A r \in kept : r.account = a => Over(r)
  THEN {r \in kept : r.account # a} \cup {[account |-> a, attempts |-> 1, resetsAt |-> instant + Horizon]}
  ELSE {IF r.account = a /\ r.attempts < PerAccount THEN [r EXCEPT !.attempts = @ + 1] ELSE r : r \in kept}

(* Mutant: the account is charged before the budget of all. *)
TableAllocatedFirst(a, kept) == Charged(a, kept)
\* Nothing is allocated for an account that the budget of all does not admit.
TableAfter(a, kept) == IF Renewed.attempts < Global THEN Charged(a, kept) ELSE kept

BudgetAfter == IF Renewed.attempts < Global THEN [Renewed EXCEPT !.attempts = @ + 1] ELSE budget

AdmitLogin(a) ==
  \E old \in SUBSET table :
    /\ Purges(old) /\ table' = TableAfter(a, table \ old) /\ budget' = BudgetAfter
    /\ UNCHANGED instant

ThrottleNext == ClockTicks \/ \E a \in Accounts : AdmitLogin(a)
ThrottleSpec == ThrottleInit /\ [][ThrottleNext]_throttle

-----------------------------------------------------------------------------
(* However many accounts are tried, the table has one row of an account and *)
(* no more rows than the windows that reach into one horizon admit: one     *)
(* more than it lasts minutes, since a window may have begun before it.     *)
(* It is so although an admission purges only a batch (admit_login).        *)
TableIsBounded ==
  /\ \A r, other \in table : r.account = other.account => r = other
  /\ Cardinality(table) < Global * (Horizon \div Minute + 1)
=============================================================================
