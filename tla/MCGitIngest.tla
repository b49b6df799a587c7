---------------------------- MODULE MCGitIngest ----------------------------
EXTENDS GitIngest, TLC

Symmetric == Permutations(Callers)

=============================================================================
