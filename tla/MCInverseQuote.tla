--------------------------- MODULE MCInverseQuote ---------------------------
(***************************************************************************)
(* Every monotone pool of eight inputs and outputs up to three, and pools  *)
(* that pay less for more at one point.                                    *)
(***************************************************************************)
EXTENDS InverseQuote

\* The output grows by one at each of the inputs a, b and c.
Steps(a, b, c) == [x \in 1 .. MaxInput |->
    (IF x >= a THEN 1 ELSE 0) + (IF x >= b THEN 1 ELSE 0) + (IF x >= c THEN 1 ELSE 0)]

\* The output falls from p to q at input 5.
Dip(p, q) == [x \in 1 .. MaxInput |-> IF x < 5 THEN p ELSE q]

MCCurves == {Steps(a, b, c) : a, b, c \in 1 .. MaxInput + 1}
            \cup {Dip(p, q) : p \in 1 .. 3, q \in 0 .. 2}

ASSUME SearchPowers == PowersDouble

=============================================================================
