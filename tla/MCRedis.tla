------------------------------- MODULE MCRedis -------------------------------
(* The two users of Redis for TLC: the summary cache and the limiters.  They    *)
(* have no variable in common, and no property is about both: one of them acts, *)
(* while the other waits in its initial state.                                  *)
EXTENDS SummaryCache, RateLimit

MCInit == Init /\ LimiterInit

CacheOnly(A) == LimiterInit /\ A /\ UNCHANGED limiterVars
LimitersOnly(A) == Init /\ A /\ UNCHANGED vars

MCNext == CacheOnly(Next) \/ LimitersOnly(LimiterNext)

\* The fairness of FairSpec and of FairLimiterSpec.
MCFairness ==
    /\ WF_vars(CacheOnly(Tick))
    /\ \A r \in Readers : WF_vars(CacheOnly(Compute(r) \/ Set(r) \/ AbortGet(r)))
    /\ \A w \in Writers : WF_vars(CacheOnly(Invalidate(w) \/ InvalidateLost(w)))
    /\ WF_limiterVars(LimitersOnly(LimiterTick))

MCSpec == MCInit /\ [][MCNext]_<<vars, limiterVars>> /\ MCFairness

=============================================================================
