------------------------------- MODULE OnceCell -------------------------------
(***************************************************************************)
(* What OncePer promises (onceper.go:42): a cell for every key, empty      *)
(* until the constructor of one of the calls with that key has settled it, *)
(* and never changed after that.  Calls answer with what is in the cell.   *)
(* There are no waiters, channels or maps here, and no call sees an empty  *)
(* cell or one that is about to change.                                    *)
(***************************************************************************)
CONSTANTS Calls, Keys, KeyOf

VARIABLES
    cell,   \* cell[k]: what is known of key k
    answer  \* answer[c]: what call c has returned

Empty == [is |-> "absent", by |-> {}]

\* A constructor that panicked settles its key too, with nil.
Outcomes(c) == {[is |-> "nil", by |-> {}], [is |-> "value", by |-> {c}]}

Init ==
    /\ cell = [k \in Keys |-> Empty]
    /\ answer = [c \in Calls |-> Empty]

Settle(c) ==
    /\ cell[KeyOf[c]] = Empty
    /\ \E v \in Outcomes(c) : cell' = [cell EXCEPT ![KeyOf[c]] = v]
    /\ UNCHANGED answer

Answer(c) ==
    /\ cell[KeyOf[c]] # Empty
    /\ answer' = [answer EXCEPT ![c] = cell[KeyOf[c]]]
    /\ UNCHANGED cell

Next == \E c \in Calls : Settle(c) \/ Answer(c)

Spec == Init /\ [][Next]_<<cell, answer>>
===============================================================================
