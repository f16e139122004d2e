------------------------------- MODULE MCStatus -------------------------------
(***************************************************************************)
(* Two tools: one that runs three actions in parallel goroutines, and one  *)
(* that runs two; totals below, at and above what is started.              *)
(***************************************************************************)
EXTENDS Status

MCActions == {"a1", "a2", "a3", "b1", "b2"}
MCTools == {"A", "B"}
MCToolOf == [a \in MCActions |-> IF a \in {"b1", "b2"} THEN "B" ELSE "A"]
=============================================================================
