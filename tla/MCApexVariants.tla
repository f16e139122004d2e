---------------------------- MODULE MCApexVariants ----------------------------
(***************************************************************************)
(* All trees of three modules with every tag, below pairs of APEXes that   *)
(* can be merged, that cannot, that have one name, of which one is a       *)
(* prebuilt, or of which one takes the VNDK libraries for stable.          *)
(***************************************************************************)
EXTENDS ApexVariants

MCModules == 1 .. 3

Source == [name |-> "com.a", minSdkVersion |-> 29, apis |-> "public", type |-> "apex",
           useVndkAsStable |-> FALSE, deps |-> {1}]
Second == {[Source EXCEPT !.name = "com.b"],
           [Source EXCEPT !.name = "com.b", !.minSdkVersion = 30],
           [Source EXCEPT !.name = "com.b", !.apis = "private"],
           [Source EXCEPT !.name = "com.b", !.type = "prebuilt_apex"],
           [Source EXCEPT !.name = "com.b", !.useVndkAsStable = TRUE],
           Source}

MCTrees ==
    LET kinds == [{"12", "13", "23"} -> Tags]
    IN  {[d \in MCModules \X MCModules |->
            CASE d = <<1, 2>> -> k["12"] [] d = <<1, 3>> -> k["13"] [] d = <<2, 3>> -> k["23"]
              [] OTHER -> "none"] : k \in kinds}

MCWorlds ==
    {w \in [bundles : {[a |-> [Source EXCEPT !.deps = x], b |-> [s EXCEPT !.deps = y]] :
                            x \in {{1}, {1, 3}}, s \in Second, y \in {{1}, {2}, {2, 3}}},
            tag : MCTrees, unique : {{}, {2}, {3}}, vndk : {{3}}] : WellFormed(w)}
==============================================================================
