---------------------------- MODULE MCKeyReader ----------------------------
(* The two runs of GenerateKeys are interchangeable, and few of the calls  *)
(* whose failure is ignored fail: a bound for the run beside a reader.     *)
EXTENDS KeyReader, TLC

CONSTANT MaxIgnored  \* how many failures go unnoticed, at most

Symmetry == Permutations(Runs)

Overlooked == {g \in Runs : missed[g] # {}}
StuckTiers == {t \in Tiers : <<t, Stuck>> \in held}

FewIgnored ==
  Cardinality(Overlooked) + Cardinality(jammed) + Cardinality(StuckTiers) <= MaxIgnored
=============================================================================
