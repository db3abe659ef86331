------------------------------ MODULE Delivery ------------------------------
(***************************************************************************)
(* What the domain package promises about an outbound WhatsApp command     *)
(* (packages/domain/src/messaging/outbound-delivery.ts): a table of        *)
(* allowed state changes with three terminal states.  To the table this    *)
(* module adds the promise the manager makes around it: the provider is    *)
(* called at most once per command, and only after the command was         *)
(* claimed.  Messaging.tla is shown to implement this specification.       *)
(***************************************************************************)
EXTENDS Naturals

CONSTANT Command        \* the outbound commands

VARIABLES state,        \* state of every command
          sends         \* provider calls made for every command

deliveryVars == <<state, sends>>

DeliveryState == {"pending", "processing", "generated", "sending",
                  "sent", "failed", "delivery_unknown"}

\* DELIVERY_TRANSITIONS: the states that may follow each state.
DeliveryTransitions ==
  [from \in DeliveryState |->
     CASE from = "pending"    -> {"processing"}
       [] from = "processing" -> {"generated", "failed"}
       [] from = "generated"  -> {"sending", "failed"}
       [] from = "sending"    -> {"sent", "failed", "delivery_unknown"}
       [] OTHER               -> {}]

CanTransitionDelivery(from, to) == to \in DeliveryTransitions[from]

DeliveryInit ==
  /\ state = [c \in Command |-> "pending"]
  /\ sends = [c \in Command |-> 0]

\* One transaction may move several commands: a new customer message both
\* opens a command and retires the one it supersedes.
Advance ==
  /\ state' \in [Command -> DeliveryState]
  /\ \A c \in Command : \/ state'[c] = state[c]
                        \/ CanTransitionDelivery(state[c], state'[c])
  /\ UNCHANGED sends

\* The provider is called for a claimed command.  The row may already read
\* delivery_unknown: the connection can be taken over between claim and call.
CallProvider(c) ==
  /\ state[c] \in {"sending", "delivery_unknown"}
  /\ sends[c] = 0
  /\ sends' = [sends EXCEPT ![c] = 1]
  /\ UNCHANGED state

DeliveryNext == Advance \/ \E c \in Command : CallProvider(c)

DeliverySpec == DeliveryInit /\ [][DeliveryNext]_deliveryVars
=============================================================================
