------------------------------ MODULE RliFarm ------------------------------
(***************************************************************************)
(* What calculateIndex (r.li.daemon) promises: the index is applied once to *)
(* every area of the setup file, in some order, each result that is due is  *)
(* put in the output once, and then it returns.                             *)
(***************************************************************************)
EXTENDS Naturals

CONSTANT Areas       \* the areas there may be

VARIABLES due,       \* those of the setup file whose result is to be put out
          written,   \* how often the result of an area was put in the output
          returned   \* calculateIndex has returned

Init == due \subseteq Areas /\ written = [a \in Areas |-> 0] /\ returned = FALSE

Write(a) ==
    /\ ~returned /\ written[a] = 0
    /\ written' = [written EXCEPT ![a] = 1]
    /\ UNCHANGED <<due, returned>>

Return ==
    /\ ~returned /\ \A a \in due : written[a] = 1
    /\ returned' = TRUE
    /\ UNCHANGED <<due, written>>

Next == (\E a \in due : Write(a)) \/ Return

Safely == Init /\ [][Next]_<<due, written, returned>>
Spec == Safely /\ WF_<<due, written, returned>>(Next)
=============================================================================
