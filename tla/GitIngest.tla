----------------------------- MODULE GitIngest -----------------------------
(***************************************************************************)
(* Ingestion of a directory, a commit or a working directory into the data *)
(* repository of a git DB (package gitdb, create.go).  Every git or cp     *)
(* subprocess is one step: it may fail, and other callers' steps run       *)
(* between two of them.  What the callers share is the object store of the *)
(* data repository and that of the repository they ingest from.            *)
(*                                                                         *)
(* File contents are told apart as members of Dirs: git add of a work tree  *)
(* with contents d writes Blob(d), the tree written for it is Tree(d), a   *)
(* commit of it Commit(d).  moveCommit is not part of the source; from its *)
(* use, it copies a commit with what it refers to into the data repository *)
(* or fails.                                                               *)
(***************************************************************************)
EXTENDS Naturals

\* Callers: the goroutines that ingest.  Dirs: the contents a work tree can
\* have.  Committed: the contents the ingest repository has a commit of.
\* Faulty: a subprocess or TempDir may fail.
CONSTANTS Callers, Dirs, Committed, Faulty, Nil

ASSUME Committed \subseteq Dirs /\ Faulty \in BOOLEAN

VARIABLES
    data,     \* the objects in db.dataRepo
    ingest,   \* the objects in ingestRepo
    tmp,      \* the temporary index directories that exist, by their owner
    pc,       \* per caller: "idle" or the subprocess it runs next
    loc,      \* per caller: the function it is in and the sha it holds
    ret       \* per caller: the snapshot or error of its last call

vars == <<data, ingest, tmp, pc, loc, ret>>

-----------------------------------------------------------------------------
Blob(d) == <<"blob", d>>
Tree(d) == <<"tree", d>>
Commit(d) == <<"commit", d>>
Objects == {Blob(d) : d \in Dirs} \cup {Tree(d) : d \in Dirs} \cup {Commit(d) : d \in Dirs}

NoSha(sha, kind) == [err |-> "nil", sha |-> Nil, kind |-> kind]

\* &localSnapshot{sha, kind}, and the error return.
Snapshot(sha, kind) == [err |-> "nil", sha |-> sha, kind |-> kind]
Failed == [err |-> "error", sha |-> Nil, kind |-> Nil]

\* A return of ingestGitCommit, and of the others before TempDir succeeded.
Return(c, reply) ==
    /\ pc' = [pc EXCEPT ![c] = "idle"]
    /\ loc' = [loc EXCEPT ![c] = Nil]
    /\ ret' = [ret EXCEPT ![c] = reply]
    /\ UNCHANGED tmp

\* A return of ingestDir or ingestGitWorkingDir past its defer: the deferred
\* os.RemoveAll(indexDir.Dir) runs, and its error is dropped.
DeferredReturn(c, reply) ==
    /\ pc' = [pc EXCEPT ![c] = "idle"]
    /\ loc' = [loc EXCEPT ![c] = Nil]
    /\ ret' = [ret EXCEPT ![c] = reply]
    /\ tmp' = tmp \ {c} \/ (Faulty /\ tmp' = tmp)

\* The function goes on to its next subprocess.
Goto(c, label, fn, sha) ==
    /\ pc' = [pc EXCEPT ![c] = label]
    /\ loc' = [loc EXCEPT ![c] = [fn |-> fn, sha |-> sha]]
    /\ UNCHANGED <<ret, tmp>>

\* A subprocess fails and the function returns its error.
Fails(c) == Faulty /\ DeferredReturn(c, Failed)

AddedNothing(objects, d) == objects

\* git add --all writes the work tree's files into the object store.
Added(objects, d) == objects \cup {Blob(d)}

\* moveCommit(ingestRepo, db.dataRepo, sha) succeeded.
Moved(sha) == data \cup {sha, Tree(sha[2]), Blob(sha[2])}

\* The repository ingestDirWithRepo was given.
InDataRepo(c) == loc[c].fn = "ingestDir"

-----------------------------------------------------------------------------
\* db.tmp.TempDir fails, or the call owns an index directory.
TempDir(c, fn, label) ==
    \/ Faulty /\ Return(c, Failed)
    \/ /\ pc' = [pc EXCEPT ![c] = label]
       /\ loc' = [loc EXCEPT ![c] = [fn |-> fn, sha |-> Nil]]
       /\ tmp' = tmp \cup {c}
       /\ UNCHANGED ret

\* ingestDir up to ingestDirWithRepo on the data repository.
IngestDir(c) ==
    /\ pc[c] = "idle"
    /\ TempDir(c, "ingestDir", "add")
    /\ UNCHANGED <<data, ingest>>

\* ingestGitWorkingDir up to the cp of the index.
IngestGitWorkingDir(c) ==
    /\ pc[c] = "idle"
    /\ TempDir(c, "ingestGitWorkingDir", "cp")
    /\ UNCHANGED <<data, ingest>>

\* cp of the repository's .git/index into the temporary directory.
Cp(c) ==
    /\ pc[c] = "cp"
    /\ Fails(c) \/ Goto(c, "add", loc[c].fn, Nil)
    /\ UNCHANGED <<data, ingest>>

\* ingestDirWithRepo: git add --all of the work tree, whose contents are d,
\* into the repository it was given.
Add(c, d) ==
    /\ pc[c] = "add"
    /\ \/ Fails(c) /\ UNCHANGED <<data, ingest>>
       \/ /\ Goto(c, "write-tree", loc[c].fn, Tree(d))
          /\ \/ InDataRepo(c) /\ data' = Added(data, d) /\ UNCHANGED ingest
             \/ ~InDataRepo(c) /\ ingest' = Added(ingest, d) /\ UNCHANGED data

\* ingestDirWithRepo: git write-tree into the repository it was given;
\* ingestDir returns the tree, ingestGitWorkingDir goes on.
WriteTree(c) ==
    /\ pc[c] = "write-tree"
    /\ \/ Fails(c) /\ UNCHANGED <<data, ingest>>
       \/ /\ InDataRepo(c)
          /\ data' = data \cup {loc[c].sha}
          /\ DeferredReturn(c, Snapshot(loc[c].sha, "KindFSSnapshot"))
          /\ UNCHANGED ingest
       \/ /\ ~InDataRepo(c)
          /\ ingest' = ingest \cup {loc[c].sha}
          /\ Goto(c, "commit-tree", loc[c].fn, loc[c].sha)
          /\ UNCHANGED data

\* ingestGitWorkingDir: git commit-tree of the tree just written.
CommitTree(c) ==
    /\ pc[c] = "commit-tree"
    /\ LET sha == Commit(loc[c].sha[2])
       IN  \/ Fails(c) /\ UNCHANGED ingest
           \/ ingest' = ingest \cup {sha} /\ Goto(c, "moveCommit", loc[c].fn, sha)
    /\ UNCHANGED data

\* ingestGitCommit up to shaPresent: rev-parse of commitish^{commit}.
IngestGitCommit(c, commitish) ==
    /\ pc[c] = "idle"
    /\ \/ (Faulty \/ Commit(commitish) \notin ingest) /\ Return(c, Failed)
       \/ /\ Commit(commitish) \in ingest
          /\ Goto(c, "shaPresent", "ingestGitCommit", Commit(commitish))
    /\ UNCHANGED <<data, ingest>>

AlwaysPresent(sha) == TRUE

\* shaPresent may return nil: rev-parse finds the object in the data repository.
shaPresent(sha) == sha \in data

\* ingestGitCommit: the commit is there already, or is to be moved; any
\* error of rev-parse means absent.
ShaPresent(c) ==
    /\ pc[c] = "shaPresent"
    /\ \/ shaPresent(loc[c].sha) /\ Return(c, Snapshot(loc[c].sha, "KindGitCommitSnapshot"))
       \/ /\ Faulty \/ ~shaPresent(loc[c].sha)
          /\ Goto(c, "moveCommit", loc[c].fn, loc[c].sha)
    /\ UNCHANGED <<data, ingest>>

\* ingestGitCommit: the commit that was absent is moved, or moveCommit fails.
MoveGitCommit(c) ==
    /\ pc[c] = "moveCommit" /\ loc[c].fn = "ingestGitCommit"
    /\ \/ Faulty /\ Return(c, Failed) /\ UNCHANGED data
       \/ data' = Moved(loc[c].sha) /\ Return(c, Snapshot(loc[c].sha, "KindGitCommitSnapshot"))
    /\ UNCHANGED ingest

\* ingestGitWorkingDir: the commit of the working directory is moved, or
\* moveCommit fails.
MoveCommit(c) ==
    /\ pc[c] = "moveCommit" /\ loc[c].fn = "ingestGitWorkingDir"
    /\ \/ Fails(c) /\ UNCHANGED data
       \/ /\ data' = Moved(loc[c].sha)
          /\ DeferredReturn(c, Snapshot(loc[c].sha, "KindGitCommitSnapshot"))
    /\ UNCHANGED ingest

-----------------------------------------------------------------------------
Init ==
    /\ data = {} /\ tmp = {}
    /\ ingest = UNION {{Commit(d), Tree(d), Blob(d)} : d \in Committed}
    /\ pc = [c \in Callers |-> "idle"]
    /\ loc = [c \in Callers |-> Nil]
    /\ ret = [c \in Callers |-> Failed]

Next ==
    \E c \in Callers :
        \/ IngestDir(c) \/ IngestGitWorkingDir(c) \/ Cp(c)
        \/ \E d \in Dirs : Add(c, d) \/ IngestGitCommit(c, d)
        \/ WriteTree(c) \/ CommitTree(c) \/ ShaPresent(c) \/ MoveGitCommit(c) \/ MoveCommit(c)

Spec == Init /\ [][Next]_vars

-----------------------------------------------------------------------------
TypeOK ==
    /\ data \subseteq Objects /\ ingest \subseteq Objects /\ tmp \subseteq Callers
    /\ pc \in [Callers -> {"idle", "cp", "add", "write-tree", "commit-tree",
                           "shaPresent", "moveCommit"}]
    /\ \A c \in Callers :
          /\ loc[c] \in {Nil} \cup [fn : {"ingestDir", "ingestGitWorkingDir", "ingestGitCommit"},
                                    sha : Objects \cup {Nil}]
          /\ ret[c] \in {Failed} \cup [err : {"nil"}, sha : Objects,
                                       kind : {"KindFSSnapshot", "KindGitCommitSnapshot"}]

\* What a snapshot refers to, itself included.
Closure(sha) ==
    {Blob(sha[2])} \cup {o \in {Tree(sha[2]), sha} : sha[1] \in {"tree", "commit"}}

\* The snapshots the data repository can check out: trees and commits with
\* everything they refer to.
Complete == {sha \in data : sha[1] # "blob" /\ Closure(sha) \subseteq data}

TreeOfCommit(sha) == Tree(sha[2])

Store ==
    INSTANCE SnapshotStore
    WITH stored <- Complete, out <- ret, TreeOf <- TreeOfCommit,
         Trees <- {Tree(d) : d \in Dirs}, Commits <- {Commit(d) : d \in Dirs}

\* Ingestion implements the atomic store of SnapshotStore: the step in which
\* ingestDir, ingestGitCommit or ingestGitWorkingDir returns a snapshot is
\* the one after which the data repository has its sha with everything it
\* refers to, the files that git add wrote included, as a tree for
\* KindFSSnapshot and as a commit with its tree for KindGitCommitSnapshot;
\* the steps before it (TempDir, cp, add, write-tree and commit-tree in the
\* other repository, shaPresent) and every error return add no snapshot,
\* whatever the other callers write between them.
IngestIsAtomicStore == Store!Spec

=============================================================================
