---- MODULE MCBillingLedger ----
(* Finite instances of BillingLedger. *)
EXTENDS BillingLedger, TLC

KeyedCommands == {"estimate_charge", "checkout_completed"}
LifecycleCommands ==
    {"checkout_completed", "subscription_canceled", "usage_charge",
     "invoice_payment_failed"}
RetryCommands == {"checkout_completed", "subscription_canceled"}

\* Calls differ only in the arguments Init gives them.
RequestSymmetry == Permutations(Requests)
====
