----------------------------- MODULE Filtering -----------------------------
(* What is left of a list when it is filtered (Array.filter, and loops that   *)
(* push what passes), with the places that pass given as a set; and the first *)
(* place of some (Array.find, Array.findIndex).                               *)
EXTENDS Integers, Sequences

Picked(s, keep) ==
    LET upTo[n \in 0..Len(s)] ==
            IF n = 0 THEN <<>>
            ELSE IF n \in keep THEN Append(upTo[n - 1], s[n]) ELSE upTo[n - 1]
    IN  upTo[Len(s)]

Least(S) == CHOOSE n \in S : \A m \in S : n <= m
=============================================================================
