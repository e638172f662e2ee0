------------------------------ MODULE MCConsole ------------------------------
(* Messages for Console.  While it boots, the BSP may print any one of a   *)
(* set of directives over all flags, a few widths and precisions and the   *)
(* numbers at the ends of their ranges; afterwards the messages are short. *)
EXTENDS Console

FlagSets == {f \in SUBSET AllFlags : Cardinality(f) <= 2}

Integers ==
  {<<Directive(f, w[1], w[2], p # -1, p, TRUE, v, n)>> :
     f \in FlagSets, w \in {<<-1, FALSE>>, <<5, FALSE>>, <<-3, TRUE>>}, p \in {-1, 3},
     v \in {"o", "x", "d", "u"}, n \in {0, 9, 2 ^ (LongBits - 1), 2 ^ LongBits - 1}}
Unqualified ==
  {<<Directive({}, -1, FALSE, FALSE, 0, FALSE, v, 2 ^ LongBits - 1)>> :
     v \in {"o", "x", "X", "d", "i", "u", "p", "n", "%", "end", "?"}}
Words ==
  LET Written(f, w, dot, conv, text) ==
        [Directive(f, w, FALSE, dot, 1, FALSE, conv, 0) EXCEPT !.text = text]
  IN {<<Written(f, w, dot, "s", <<"a", "b">>)>> : f \in {{}, {"LEFT"}}, w \in {-1, 4}, dot \in BOOLEAN}
       \cup {<<Written(f, w, FALSE, "c", <<"a">>)>> : f \in {{}, {"LEFT"}}, w \in {-1, 3}}

Boot == Integers \cup Unqualified \cup Words \cup {<<Plain("a"), Plain("\n")>>}

Short == {<<Plain("a"), Plain("\t")>>, <<Plain("\n")>>}
Erasing == {<<Plain("a"), Plain("\n")>>, <<Plain("BS")>>}
Decimal == {<<Directive({}, -1, FALSE, FALSE, 0, FALSE, "d", 2 ^ LongBits - 1)>>}

\* Every vector once, the selector faults and the page fault with the
\* error codes that make them say something else.
AllVectors ==
  {[vector |-> v, code |-> 0] : v \in Vectors}
    \cup {[vector |-> 13, code |-> e] : e \in {3, 5}}
    \cup {[vector |-> 14, code |-> e] : e \in {7, 24}}
    \cup {[vector |-> 17, code |-> 1]}
Interrupting == {[vector |-> 2, code |-> 0], [vector |-> 0, code |-> 0]}
=============================================================================
