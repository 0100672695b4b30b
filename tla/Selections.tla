------------------------------ MODULE Selections ------------------------------
(***************************************************************************)
(* The elements of a sequence at the positions I, in their order: what a     *)
(* filter over an iterator leaves.  It is a recursive function and not the   *)
(* SelectSeq of Sequences because it is reasoned about, not only evaluated.  *)
(***************************************************************************)
EXTENDS Naturals, Sequences

Picked(s, I) ==
    LET upto[n \in 0 .. Len(s)] ==
            IF n = 0 THEN <<>>
            ELSE IF n \in I THEN Append(upto[n - 1], s[n]) ELSE upto[n - 1]
    IN  upto[Len(s)]
===============================================================================
