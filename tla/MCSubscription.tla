---------------------------- MODULE MCSubscription ----------------------------
(* Model checking of Subscription with the times of the code in seconds:   *)
(* sleep(5), CLSET_TIMEOUT 5, sleep(90), LEASE_TIMEOUT_MS.                 *)
EXTENDS Subscription
=============================================================================
