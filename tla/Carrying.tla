------------------------------ MODULE Carrying ------------------------------
(***************************************************************************)
(* What the queues of closures of the multiplexers hold: the operations    *)
(* that the closures of one kind carry, oldest first.                      *)
(***************************************************************************)
EXTENDS Naturals, Sequences

\* Those in O that the first n closures of w carry, if of kind k; and all.
CarriedTo(w, k, O) ==
  LET f[n \in 0..Len(w)] ==
        IF n = 0 THEN <<>>
        ELSE IF w[n].k = k /\ w[n].op \in O THEN Append(f[n - 1], w[n].op)
        ELSE f[n - 1]
  IN  f

Carried(w, k, O) == CarriedTo(w, k, O)[Len(w)]
=============================================================================
