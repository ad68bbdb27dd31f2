---- MODULE MCRateLimiter ----
(* A finite instance of RateLimiter. *)
EXTENDS RateLimiter
====
