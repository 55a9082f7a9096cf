---------------------------- MODULE MCRateLimiter ----------------------------
(***************************************************************************)
(* Small instance of RateLimiter.                                          *)
(***************************************************************************)
EXTENDS RateLimiter
=============================================================================
