-------------------------------- MODULE Orders --------------------------------
(***************************************************************************)
(* One order: its status, which requests move by compare-and-swap, the     *)
(* event each move is announced with, and its payment link, made by the    *)
(* provider after a confirmation or set by hand. PAYMENT_PROVIDER is       *)
(* razorpay; with none nothing is created.                                 *)
(***************************************************************************)
EXTENDS Naturals

CONSTANTS
    Clerks,          \* concurrent status requests
    MaxLinkEdits,    \* bound: links set or cleared by hand
    MaxOrderFaults   \* bound: failed calls and crashes

ASSUME OrdersAssumption == {MaxLinkEdits, MaxOrderFaults} \subseteq Nat

Targets == {"confirmed", "paid", "cancelled"}

VARIABLES
    order,         \* orders.status, "none" before the order is created
    paymentLink,   \* payment_link: "none", "provider" or "manual"
    statusRequest, \* per clerk: its target, the link its UPDATE returned, and what is next
    announced,     \* per status: commerce.order.event published
    linksMade,     \* payment links made at the provider
    linkEdits, orderFaults,
    setByHand      \* history: a link set by hand that no confirmation under way had missed

ordersVars == <<order, paymentLink, statusRequest, announced, linksMade, linkEdits, orderFaults,
                setByHand>>

NoStatusRequest == [at |-> "idle", target |-> "none", link |-> "none"]

OrdersInit ==
    /\ order = "none"
    /\ paymentLink = "none"
    /\ statusRequest = [c \in Clerks |-> NoStatusRequest]
    /\ announced = [s \in Targets |-> 0]
    /\ linksMade = 0
    /\ linkEdits = 0
    /\ orderFaults = 0
    /\ setByHand = FALSE

ContinueRequest(c, step) == statusRequest' = [statusRequest EXCEPT ![c].at = step]
EndStatusRequest(c) == statusRequest' = [statusRequest EXCEPT ![c] = NoStatusRequest]
OrderFault == orderFaults < MaxOrderFaults /\ orderFaults' = orderFaults + 1

CreateOrder ==
    /\ order = "none"
    /\ order' = "created"
    /\ UNCHANGED <<paymentLink, statusRequest, announced, linksMade, linkEdits, orderFaults,
                   setByHand>>

-----------------------------------------------------------------------------
(***************************************************************************)
(* POST /orders/:id/status. The UPDATE names the statuses it may leave,    *)
(* and a request it does not match is answered 409. The event, and for a   *)
(* confirmed order without a link the provider's link, come after it: when *)
(* one of these fails the order stays where it is.                         *)
(***************************************************************************)
AllowedFrom == [confirmed |-> {"created"}, paid |-> {"confirmed"},
                cancelled |-> {"created", "confirmed"}]

MovesTo(c, target) ==
    /\ statusRequest[c].at = "idle"
    /\ order' = target
    /\ statusRequest' = [statusRequest EXCEPT
                           ![c] = [at |-> "publish", target |-> target, link |-> paymentLink]]
    /\ UNCHANGED <<paymentLink, announced, linksMade, linkEdits, orderFaults, setByHand>>

TransitionUnchecked(c, target) ==   \* mutant: the UPDATE names only the id
    order # "none" /\ MovesTo(c, target)

Transition(c, target) == order \in AllowedFrom[target] /\ MovesTo(c, target)

\* The audit entry that follows is best effort, and nothing else hangs on it.
PublishOrderEvent(c) ==
    LET r == statusRequest[c] IN
    /\ r.at = "publish"
    /\ announced' = [announced EXCEPT ![r.target] = @ + 1]
    /\ IF r.target = "confirmed" /\ r.link = "none" THEN ContinueRequest(c, "create")
       ELSE EndStatusRequest(c)
    /\ UNCHANGED <<order, paymentLink, linksMade, linkEdits, orderFaults, setByHand>>

\* The publish throws, or the process dies, before or after it took effect.
PublishOrderEventFails(c) ==
    /\ statusRequest[c].at = "publish"
    /\ OrderFault
    /\ \/ UNCHANGED announced
       \/ announced' = [announced EXCEPT ![statusRequest[c].target] = @ + 1]
    /\ EndStatusRequest(c)
    /\ UNCHANGED <<order, paymentLink, linksMade, linkEdits, setByHand>>

CreatePaymentLink(c) ==
    /\ statusRequest[c].at = "create"
    /\ linksMade' = linksMade + 1
    /\ ContinueRequest(c, "attach")
    /\ UNCHANGED <<order, paymentLink, announced, linkEdits, orderFaults, setByHand>>

\* Refused, or timed out with or without a link made; the request is answered 200.
CreatePaymentLinkFails(c) ==
    /\ statusRequest[c].at = "create"
    /\ OrderFault
    /\ linksMade' \in {linksMade, linksMade + 1}
    /\ EndStatusRequest(c)
    /\ UNCHANGED <<order, paymentLink, announced, linkEdits, setByHand>>

AttachPaymentLink(c) ==
    /\ statusRequest[c].at = "attach"
    /\ \/ paymentLink' = "provider" /\ UNCHANGED orderFaults
       \/ OrderFault /\ UNCHANGED paymentLink
    /\ EndStatusRequest(c)
    /\ UNCHANGED <<order, announced, linksMade, linkEdits, setByHand>>

-----------------------------------------------------------------------------
(***************************************************************************)
(* PATCH /orders/:id sets or clears the link, whatever the order's status  *)
(* and whatever a confirmation under way is about to attach.               *)
(***************************************************************************)
Confirming ==
    \E c \in Clerks : statusRequest[c].target = "confirmed" /\ statusRequest[c].link = "none"

SetPaymentLink(l) ==
    /\ order # "none"
    /\ linkEdits < MaxLinkEdits
    /\ linkEdits' = linkEdits + 1
    /\ paymentLink' = l
    /\ setByHand' = (l = "manual" /\ ~Confirming)
    /\ UNCHANGED <<order, statusRequest, announced, linksMade, orderFaults>>

OrdersNext ==
    \/ CreateOrder
    \/ \E c \in Clerks :
          \/ \E target \in Targets : Transition(c, target)
          \/ PublishOrderEvent(c) \/ PublishOrderEventFails(c)
          \/ CreatePaymentLink(c) \/ CreatePaymentLinkFails(c)
          \/ AttachPaymentLink(c)
    \/ \E l \in {"manual", "none"} : SetPaymentLink(l)

OrdersSpec == OrdersInit /\ [][OrdersNext]_ordersVars

-----------------------------------------------------------------------------
\* However many requests race, a customer is asked to pay once and told one
\* outcome: no status is announced twice, an order is not both paid and
\* cancelled, the provider makes one link, and a confirmation that begins later
\* does not replace a link set by hand.
OneOutcome ==
    /\ \A s \in Targets : announced[s] <= 1
    /\ announced["paid"] = 0 \/ announced["cancelled"] = 0
    /\ linksMade <= 1
    /\ setByHand => paymentLink = "manual"

===============================================================================
