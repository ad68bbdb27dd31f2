---- MODULE BillingPolicy ----
(***************************************************************************)
(* The pure tables of billing_policy.py and the status map of              *)
(* service.subscription_state.  Event types are the strings the program    *)
(* stores in BillingEvent.event_type.                                      *)
(***************************************************************************)

\* "No lifecycle event yet": Python's None for previous_event_type.
NoEvent == "none"

\* Types accepted by POST /billing/simulate-event.
GatewayTypes ==
    {"payment_method_attached", "checkout_completed", "invoice_paid",
     "invoice_payment_failed", "usage_charge", "subscription_canceled"}

\* Types the other simulate endpoints issue; none is a gateway type.
DirectTypes == {"subscription", "estimate_charge", "refund"}

EventTypes == GatewayTypes \cup DirectTypes

\* Types that move the subscription.
LifecycleTypes ==
    {"subscription", "checkout_completed", "invoice_paid",
     "invoice_payment_failed", "subscription_canceled"}

ActiveOrPastDueTypes ==
    {"subscription", "checkout_completed", "invoice_paid",
     "invoice_payment_failed"}

\* The allowed_previous table; a type absent from it is never refused.
AllowedPrevious ==
    [t \in {"checkout_completed", "invoice_paid", "invoice_payment_failed",
            "usage_charge", "subscription_canceled"} |->
        IF t = "checkout_completed"
        THEN {NoEvent, "payment_method_attached", "subscription_canceled"}
        ELSE ActiveOrPastDueTypes]

\* validate_gateway_lifecycle_transition does not raise.
TransitionAllowed(type, previous) ==
    type \in DOMAIN AllowedPrevious => previous \in AllowedPrevious[type]

\* subscription_state: the status shown for the latest lifecycle event.
SubscriptionStatus(last) ==
    CASE last = NoEvent                  -> "not_started"
      [] last = "subscription_canceled"  -> "canceled"
      [] last = "invoice_payment_failed" -> "past_due"
      [] last \in {"checkout_completed", "invoice_paid", "subscription"} -> "active"
====
