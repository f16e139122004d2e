------------------------------ MODULE MCOncePer ------------------------------
(***************************************************************************)
(* Four calls race for key k1; the constructor of one of them needs k2,    *)
(* which another call wants at the same time.                              *)
(***************************************************************************)
EXTENDS OncePer

MCCalls == {"a", "ab", "b", "c", "d", "e"}
MCKeyOf == [c \in MCCalls |-> IF c \in {"ab", "e"} THEN "k2" ELSE "k1"]
MCOpOf == [c \in MCCalls |-> CASE c \in {"a", "ab", "d"} -> "Once"
                               [] c \in {"b", "e"} -> "Typed"
                               [] c = "c" -> "Get"]
MCNested == [c \in MCCalls |-> IF c = "a" THEN {"ab"} ELSE {}]
=============================================================================
