------------------------------- MODULE Sieve --------------------------------
(***************************************************************************)
(* What is left of a sequence when only some of its elements are kept, and *)
(* the arrangements of a set: a test or an order is given as a set, of the *)
(* elements that pass it, of the pairs it puts one before the other.  And  *)
(* a function with one value more, or another.                             *)
(***************************************************************************)
EXTENDS Naturals, Sequences, SequencesExt

\* The elements of a sequence that are in a set, in their order.
Sifted(seq, set) ==
    LET kept[i \in 0..Len(seq)] ==
          IF i = 0 THEN <<>>
          ELSE IF seq[i] \in set THEN Append(kept[i - 1], seq[i]) ELSE kept[i - 1]
    IN  kept[Len(seq)]

\* A sequence of the elements of a set, each once, that puts none after one it
\* comes before.
Arranged(set, before) ==
    CHOOSE seq \in SetToSeqs(set) :
       \A i, j \in DOMAIN seq : <<seq[i], seq[j]>> \in before => i < j

Put(map, key, value) == [k \in DOMAIN map \cup {key} |-> IF k = key THEN value ELSE map[k]]
=============================================================================
