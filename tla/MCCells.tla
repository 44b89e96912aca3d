------------------------------ MODULE MCCells ------------------------------
(* Instances of Cells small enough for TLC.                                *)
EXTENDS Cells, TLC

AnyAddress == Permutations(Cell)

\* Limits and batches of food, viruses, phages and mothers.
Amounts(f, v, p, m) ==
    [k \in Counted |-> CASE k = "food" -> f [] k = "virus" -> v
                         [] k = "phage" -> p [] k = "mother" -> m]

\* Mothers come from a virus and a phage.
WithoutMothers == Amounts(1, 1, 1, 0)
OneVirus == Amounts(0, 1, 0, 0)

=============================================================================
