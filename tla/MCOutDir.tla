------------------------------ MODULE MCOutDir -------------------------------
(***************************************************************************)
(* Two variants of a product and another product; two files, of which the  *)
(* variants install different ones, and a change of the sources.           *)
(***************************************************************************)
EXTENDS OutDir

MCConfigs == {"a-eng", "a-user", "b-eng"}
MCSuffixOf == [c \in MCConfigs |-> IF c = "b-eng" THEN "-b" ELSE "-a"]
MCPaths == <<"bin/sh", "bin/su">>
MCRulesBefore == [c \in MCConfigs |-> IF c = "a-user" THEN {"bin/sh"} ELSE {"bin/sh", "bin/su"}]
MCRulesAfter == [c \in MCConfigs |-> IF c = "b-eng" THEN {"bin/su"} ELSE {"bin/sh"}]
MCRevisions == <<MCRulesBefore, MCRulesAfter>>
=============================================================================
