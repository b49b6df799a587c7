---------------------------- MODULE MCCasServer ----------------------------
EXTENDS CasServer

\* The empty blob, and one blob of two bytes.
MCDigests == {[hash |-> "empty", size |-> 0], [hash |-> "h1", size |-> 2]}
MCEmptySha == "empty"

=============================================================================
