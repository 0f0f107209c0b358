--------------------------- MODULE MCRateLimiter ----------------------------
(* Small instances of RateLimiter for TLC.                                 *)
EXTENDS RateLimiter, TLC

\* identities and request ids are only compared
Symmetric == Permutations(Identities) \cup Permutations(Requests)
=============================================================================
