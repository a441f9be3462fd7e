------------------------------- MODULE Ordered -------------------------------
(***************************************************************************)
(* Picking from sequences and sorting them: what a comprehension with a    *)
(* condition and sorted() do. Each is told by how many elements come       *)
(* before one, so that the proofs can expand it; SelectSeq and SortSeq of  *)
(* the library are defined by recursion and by TLC.                        *)
(***************************************************************************)
EXTENDS Integers, FiniteSets

(* A set of numbers from the least to the greatest. *)
Ascending(S) == [k \in 1 .. Cardinality(S) |->
    CHOOSE i \in S : Cardinality({j \in S : j < i}) = k - 1]

(* The elements that pass, in their order. *)
Picked(seq, Test(_)) ==
    LET at == Ascending({i \in DOMAIN seq : Test(seq[i])})
    IN  [k \in DOMAIN at |-> seq[at[k]]]

(* The elements of seq as a strict order of its positions has them. *)
Arranged(seq, earlier) == [k \in DOMAIN seq |->
    seq[CHOOSE i \in DOMAIN seq : Cardinality({j \in DOMAIN seq : <<j, i>> \in earlier}) = k - 1]]

(* sorted() is stable: what neither comes before the other keeps its order. *)
Sorted(seq, Before(_, _)) ==
    LET Earlier(j, i) == Before(seq[j], seq[i]) \/ (~Before(seq[i], seq[j]) /\ j < i)
    IN  Arranged(seq, {p \in (DOMAIN seq) \X (DOMAIN seq) : Earlier(p[1], p[2])})

=============================================================================
