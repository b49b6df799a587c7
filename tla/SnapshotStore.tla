--------------------------- MODULE SnapshotStore ---------------------------
(***************************************************************************)
(* What ingestion into a git DB promises its callers, with the subprocess  *)
(* steps left out: a call either fails and stores nothing, or in one step  *)
(* stores a snapshot with everything it needs and returns it.  Nothing is  *)
(* stored that is not returned, and nothing stored is removed.             *)
(***************************************************************************)
CONSTANTS
    Callers,
    Trees,       \* the tree objects
    Commits,     \* the commit objects
    TreeOf(_),   \* the tree of a commit
    Nil

VARIABLES
    stored,   \* the snapshots the data repository holds with all they refer to
    out       \* per caller: what its last call returned

Snapshots ==
    [err : {"nil"}, sha : Trees, kind : {"KindFSSnapshot"}]
        \cup [err : {"nil"}, sha : Commits, kind : {"KindGitCommitSnapshot"}]

Failed == [err |-> "error", sha |-> Nil, kind |-> Nil]

\* A tree snapshot needs its tree, a commit snapshot its commit and tree.
Needs(s) == IF s.sha \in Commits THEN {s.sha, TreeOf(s.sha)} ELSE {s.sha}

Store(c, s) ==
    /\ stored' = stored \cup Needs(s)
    /\ out' = [out EXCEPT ![c] = s]

Fail(c) ==
    /\ out' = [out EXCEPT ![c] = Failed]
    /\ UNCHANGED stored

Init ==
    /\ stored = {}
    /\ out = [c \in Callers |-> Failed]

Next == \E c \in Callers : Fail(c) \/ \E s \in Snapshots : Store(c, s)

Spec == Init /\ [][Next]_<<stored, out>>

=============================================================================
