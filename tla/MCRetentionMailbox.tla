------------------------- MODULE MCRetentionMailbox -------------------------
EXTENDS RetentionMailbox, TLC

MCRequests == [ver : 1..3, before : 1..2]
MCSymmetry == Permutations(Callers)
=============================================================================
