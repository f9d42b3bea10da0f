----------------------------- MODULE MCLimiter -----------------------------
(* Instances of RateLimiter for TLC: time stops at MaxTime. *)
EXTENDS RateLimiter

CONSTANT MaxTime

MCInit == now = 0 /\ LimiterInit

MCNext ==
  \/ now < MaxTime /\ Tick
  \/ \E p \in Pairs : Check(p)

MCSpec == MCInit /\ [][MCNext]_limiterVars
=============================================================================
