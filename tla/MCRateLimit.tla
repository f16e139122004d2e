----------------------------- MODULE MCRateLimit -----------------------------
(***************************************************************************)
(* RateLimit with four jobs: one empty file, two that share the capacity   *)
(* only in part, and one larger than the whole capacity.                   *)
(***************************************************************************)
EXTENDS RateLimit

MCJobs == {"empty", "small", "large", "oversize"}

MCSize == [j \in MCJobs |-> CASE j = "empty" -> 0
                              [] j = "small" -> 1
                              [] j = "large" -> 2
                              [] j = "oversize" -> 4]
=============================================================================
