--------------------------- MODULE MCRuleRevision ---------------------------
\* Three administrators who edit one rule.
EXTENDS RuleRevision, TLC

Symmetry == Permutations(Calls)
=============================================================================
