--------------------------- MODULE MCRateLimiter ---------------------------
(***************************************************************************)
(* Instances of RateLimiter for TLC.                                       *)
(***************************************************************************)
EXTENDS RateLimiter, TLC

CONSTANTS n1, n2, n3, n4, proxy

(* n3 and n4 share an IPv6 /64. *)
MCSubnet == [x \in {n1, n2, n3, n4, proxy} |-> IF x = n4 THEN n3 ELSE x]

MCSymmetry == Permutations({n1, n2})
=============================================================================
