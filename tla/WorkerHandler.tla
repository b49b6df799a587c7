--------------------------- MODULE WorkerHandler ---------------------------
(***************************************************************************)
(* The worker server's handler (package server, cluster.go from line 144): *)
(* the Thrift server runs every RPC on the goroutine of its connection, so *)
(* QueryWorker, Run, Abort and Erase of different clients interleave, and  *)
(* a stats goroutine samples the runner twice a second.                    *)
(*                                                                         *)
(* h.mu guards h.timeLastRpc alone.  h.currentCmd and h.currentRunID are   *)
(* read and written by Run with no lock held, so every access to them is a *)
(* step of its own.  As in SagaLog, a critical section of h.mu is one      *)
(* step, and `mu` is TRUE only when a section ended without Unlock.        *)
(*                                                                         *)
(* runner.Service is not part of the source; the Runner* operators model   *)
(* it from the specification of the worker runner: one active run at a     *)
(* time, QueueFull for a second one.  Pending, Preparing and Running are   *)
(* one state here ("Running"): the handler tells states apart by IsDone    *)
(* and FAILED only.                                                        *)
(***************************************************************************)
EXTENDS Naturals, FiniteSets

CONSTANTS
    Clients,          \* the goroutines that serve RPCs
    Argvs,            \* the command lines clients ask to run
    MaxRuns,          \* bound on the runs the runner accepts
    Nil               \* the nil *runner.Command

ASSUME MaxRuns \in Nat \ {0} /\ Nil \notin Argvs

VARIABLES
    runs,           \* the runner's cache: run id -> [argv, state]
    mu,             \* h.mu is held (outside any critical section)
    currentCmd,     \* h.currentCmd: Nil or the argv of the command
    currentRunID,   \* h.currentRunID: 0 is the empty RunID
    pc,             \* per client: "idle" or where its RPC stands
    req,            \* per client: its RPC and the argument (an argv or a run id)
    status,         \* per client: the status and err locals of Run
    ret,            \* per client: the status its last Run returned
    origin,         \* history, per client: the run its run.Run made or was refused for
    raced,          \* history: some Run was called while another was in progress
    panicked

vars == <<runs, mu, currentCmd, currentRunID, pc, req, status, ret, origin,
          raced, panicked>>

RunIDs == 1..MaxRuns
Done == {"Completed", "Failed", "Aborted"}
States == {"Running", "BadRequest", "Unknown"} \cup Done
Errors == {"nil", "QueueFull", "NotFound", "StatusAllFailed"}
RunStatus == [runID : 0..MaxRuns, state : States, err : Errors]

\* The zero RunStatus a failed runner call returns beside its error.
Failure(err) == [runID |-> 0, state |-> "Unknown", err |-> err]

-----------------------------------------------------------------------------
(* runner.Service, from the specification                                  *)

Cached == {id \in DOMAIN runs : runs[id].state # "Erased"}
Active == {id \in Cached : runs[id].state \notin Done}
StatusOf(id) == [runID |-> id, state |-> runs[id].state, err |-> "nil"]

NewRun(argv) == [argv |-> argv, state |-> "Running"]

\* Run: QueueFull while a run is active, else a new run.
RunnerRun(argv) ==
    IF Active # {}
    THEN [runs |-> runs, status |-> Failure("QueueFull")]
    ELSE LET id == Cardinality(DOMAIN runs) + 1
         IN  [runs |-> [k \in DOMAIN runs \cup {id} |-> IF k = id THEN NewRun(argv) ELSE runs[k]],
              status |-> [runID |-> id, state |-> "Running", err |-> "nil"]]

RunnerStatus(id) == IF id \in Cached THEN StatusOf(id) ELSE Failure("NotFound")

\* Abort ends an active run; a finished one keeps its state.
RunnerAbort(id) == IF id \in Active THEN [runs EXCEPT ![id].state = "Aborted"] ELSE runs

\* Erase drops a finished run from the cache.
RunnerErase(id) == IF id \in Cached \ Active THEN [runs EXCEPT ![id].state = "Erased"] ELSE runs

\* The process adapter ends the active run.
RunnerProgress(id, end) ==
    /\ panicked = FALSE
    /\ id \in Active
    /\ runs' = [runs EXCEPT ![id].state = end]
    /\ UNCHANGED <<mu, currentCmd, currentRunID, pc, req, status, ret, origin,
                   raced, panicked>>

-----------------------------------------------------------------------------
(* The handler                                                             *)

RequestNoArg(rpc, arg) == [rpc |-> rpc, arg |-> Nil]

\* The request as the handler holds it: ThriftRunCommandToDomain keeps argv.
Request(rpc, arg) == [rpc |-> rpc, arg |-> arg]

InRun == {c \in Clients : pc[c] # "idle" /\ req[c].rpc = "Run"}

Goto(c, label) == pc' = [pc EXCEPT ![c] = label]

\* Run returns: its locals die, the reply is kept for the properties.
Return(c, statuses) ==
    /\ Goto(c, "idle")
    /\ ret' = [ret EXCEPT ![c] = statuses]
    /\ status' = [status EXCEPT ![c] = Failure("nil")]

\* QueryWorker, Abort and Erase return: their reply is a function of the
\* runner's cache alone, so nothing of it is kept.
Reply(c) ==
    /\ Goto(c, "idle")
    /\ req' = [req EXCEPT ![c] = Request("none", Nil)]

\* stats(), `if err != nil { continue }`: the iteration ends with h.mu held.
StatsLeaks(err) == err # "nil"

IsDupAnyArgv(err, argv) == err = "QueueFull"

\* Run's test for a duplicate retry; h.currentCmd is not nil when it is made.
IsDupRetry(err, argv) == err = "QueueFull" /\ argv = currentCmd

KeptRunID(st) == currentRunID

\* The RunID Run stores in h.currentRunID.
StoredRunID(st) == st.runID

\* An RPC arrives: the counter, then updateTimeLastRpc's h.mu.Lock().
Call(c, rpc, arg) ==
    /\ panicked = FALSE /\ pc[c] = "idle"
    /\ rpc = "Run" => Cardinality(DOMAIN runs) + Cardinality(InRun) < MaxRuns
    /\ Goto(c, "lock")
    /\ req' = [req EXCEPT ![c] = Request(rpc, arg)]
    /\ ret' = [ret EXCEPT ![c] = {}]
    /\ origin' = [origin EXCEPT ![c] = 0]
    /\ raced' = (raced \/ (rpc = "Run" /\ InRun # {}))
    /\ UNCHANGED <<runs, mu, currentCmd, currentRunID, status, panicked>>

\* updateTimeLastRpc: Lock, set h.timeLastRpc, Unlock.
UpdateTimeLastRpc(c) ==
    /\ panicked = FALSE /\ ~mu
    /\ pc[c] = "lock"
    /\ Goto(c, req[c].rpc)
    /\ UNCHANGED <<runs, mu, currentCmd, currentRunID, req, status, ret, origin,
                   raced, panicked>>

\* One tick of stats(): Lock, StatusAll, the gauges, Unlock; on an error of
\* StatusAll `continue`, with no Unlock.  The gauges leave the process and
\* nothing reads them back, so a tick changes `mu` alone.
Stats ==
    /\ panicked = FALSE /\ ~mu
    /\ \E err \in {"nil", "StatusAllFailed"} : mu' = StatsLeaks(err)
    /\ UNCHANGED <<runs, currentCmd, currentRunID, pc, req, status, ret, origin, raced,
                   panicked>>

\* QueryWorker: every cached status, or one UNKNOWN status for an error;
\* it changes nothing of the handler or the runner.
QueryWorker(c) ==
    /\ panicked = FALSE /\ pc[c] = "QueryWorker"
    /\ Reply(c)
    /\ UNCHANGED <<runs, mu, currentCmd, currentRunID, status, ret, origin, raced,
                   panicked>>

\* Run, `status, err := h.run.Run(c)`.
Run(c) ==
    /\ panicked = FALSE /\ pc[c] = "Run"
    /\ LET r == RunnerRun(req[c].arg)
       IN  /\ runs' = r.runs
           /\ status' = [status EXCEPT ![c] = r.status]
           /\ origin' = [origin EXCEPT ![c] = IF r.status.err = "nil" THEN r.status.runID
                                               ELSE CHOOSE id \in Active : TRUE]
    /\ Goto(c, "RunCheck")
    /\ UNCHANGED <<mu, currentCmd, currentRunID, req, ret, raced, panicked>>

\* Run, the condition of line 269: h.currentCmd.Argv is read when the error
\* is QueueFull, and that is a nil dereference while h.currentCmd is nil.
RunCheck(c) ==
    /\ panicked = FALSE /\ pc[c] = "RunCheck"
    /\ IF status[c].err = "QueueFull" /\ currentCmd = Nil
       THEN panicked' = TRUE /\ UNCHANGED pc
       ELSE /\ Goto(c, IF IsDupRetry(status[c].err, req[c].arg) THEN "RunStatus" ELSE "RunFinish")
            /\ UNCHANGED panicked
    /\ UNCHANGED <<runs, mu, currentCmd, currentRunID, req, status, ret, origin, raced>>

\* Run, the duplicate retry: `status, err = h.run.Status(h.currentRunID)`.
RunStatusOfCurrent(c) ==
    /\ panicked = FALSE /\ pc[c] = "RunStatus"
    /\ status' = [status EXCEPT ![c] = RunnerStatus(currentRunID)]
    /\ Goto(c, "RunFinish")
    /\ UNCHANGED <<runs, mu, currentCmd, currentRunID, req, ret, origin, raced,
                   panicked>>

\* Run, `if err != nil`: return BADREQUEST, or store the command.
RunFinish(c) ==
    /\ panicked = FALSE /\ pc[c] = "RunFinish"
    /\ IF status[c].err # "nil"
       THEN /\ Return(c, {[status[c] EXCEPT !.state = "BadRequest"]})
            /\ UNCHANGED currentCmd
       ELSE /\ currentCmd' = req[c].arg
            /\ Goto(c, "RunSetID")
            /\ UNCHANGED <<ret, status>>
    /\ UNCHANGED <<runs, mu, currentRunID, req, origin, raced, panicked>>

\* Run, `h.currentRunID = status.RunID` and the return.
RunSetID(c) ==
    /\ panicked = FALSE /\ pc[c] = "RunSetID"
    /\ currentRunID' = StoredRunID(status[c])
    /\ Return(c, {status[c]})
    /\ UNCHANGED <<runs, mu, currentCmd, req, origin, raced, panicked>>

\* Abort: the status after the abort, or UNKNOWN with the id for an error.
Abort(c) ==
    /\ panicked = FALSE /\ pc[c] = "Abort"
    /\ runs' = RunnerAbort(req[c].arg)
    /\ Reply(c)
    /\ UNCHANGED <<mu, currentCmd, currentRunID, status, ret, origin, raced, panicked>>

Erase(c) ==
    /\ panicked = FALSE /\ pc[c] = "Erase"
    /\ runs' = RunnerErase(req[c].arg)
    /\ Reply(c)
    /\ UNCHANGED <<mu, currentCmd, currentRunID, status, ret, origin, raced, panicked>>

-----------------------------------------------------------------------------
\* NewHandler: no command, no run, the stats goroutine started.
Init ==
    /\ runs = <<>>
    /\ mu = FALSE
    /\ currentCmd = Nil
    /\ currentRunID = 0
    /\ pc = [c \in Clients |-> "idle"]
    /\ req = [c \in Clients |-> Request("none", Nil)]
    /\ status = [c \in Clients |-> Failure("nil")]
    /\ ret = [c \in Clients |-> {}]
    /\ origin = [c \in Clients |-> 0]
    /\ raced = FALSE
    /\ panicked = FALSE

Next ==
    \/ \E c \in Clients :
          \/ Call(c, "QueryWorker", Nil)
          \/ \E argv \in Argvs : Call(c, "Run", argv)
          \/ \E id \in RunIDs : Call(c, "Abort", id) \/ Call(c, "Erase", id)
          \/ UpdateTimeLastRpc(c)
          \/ QueryWorker(c)
          \/ Run(c) \/ RunCheck(c) \/ RunStatusOfCurrent(c) \/ RunFinish(c) \/ RunSetID(c)
          \/ Abort(c)
          \/ Erase(c)
    \/ Stats
    \/ \E id \in RunIDs, end \in {"Completed", "Failed"} : RunnerProgress(id, end)

Spec == Init /\ [][Next]_vars

\* Every goroutine that can take a step takes one; sync.Mutex hands the
\* lock to a goroutine that keeps waiting for it.
Fairness ==
    \A c \in Clients :
        /\ SF_vars(UpdateTimeLastRpc(c))
        /\ WF_vars(QueryWorker(c) \/ Abort(c) \/ Erase(c))
        /\ WF_vars(Run(c) \/ RunCheck(c) \/ RunStatusOfCurrent(c) \/ RunFinish(c) \/ RunSetID(c))

FairSpec == Spec /\ Fairness

-----------------------------------------------------------------------------
TypeOK ==
    /\ DOMAIN runs \subseteq RunIDs
    /\ \A id \in DOMAIN runs : runs[id] \in [argv : Argvs, state : Done \cup {"Running", "Erased"}]
    /\ mu \in BOOLEAN /\ raced \in BOOLEAN /\ panicked \in BOOLEAN
    /\ currentCmd \in Argvs \cup {Nil}
    /\ currentRunID \in 0..MaxRuns
    /\ pc \in [Clients -> {"idle", "lock", "QueryWorker", "Run", "RunCheck", "RunStatus",
                           "RunFinish", "RunSetID", "Abort", "Erase"}]
    /\ req \in [Clients -> [rpc : {"none", "QueryWorker", "Run", "Abort", "Erase"},
                            arg : Argvs \cup RunIDs \cup {Nil}]]
    /\ status \in [Clients -> RunStatus]
    /\ ret \in [Clients -> SUBSET RunStatus]
    /\ origin \in [Clients -> 0..MaxRuns]

\* What Run returned to client c, when it has returned a run.
Answered(c) ==
    IF pc[c] = "idle" /\ req[c].rpc = "Run"
    THEN {st \in ret[c] : st.state # "BadRequest"}
    ELSE {}

\* "If the new command's argv equals the currently-active command's argv, the
\* call is a duplicate retry and returns the live RunStatus": a run that Run
\* answers with is a run of the caller's command, and it is the run this very
\* call started or the run that made the runner refuse it (Run's use of
\* h.currentCmd and h.currentRunID, which it reads and writes without a lock).
RunAnswersLiveRun ==
    \A c \in Clients : \A st \in Answered(c) :
        st.runID = origin[c] /\ runs[st.runID].argv = req[c].arg

\* The same, for clients that never have two Run calls in progress at once
\* (the scheduler gives a worker one task at a time).
SerialRunAnswersLiveRun == ~raced => RunAnswersLiveRun

\* With one Run at a time, h.currentCmd and h.currentRunID name the active
\* run whenever no Run is in progress, whatever Abort, Erase and the end of
\* earlier runs did in between; and Run never dereferences a nil currentCmd.
SerialRunsTrackActiveRun ==
    ~raced =>
        /\ ~panicked
        /\ InRun = {} =>
              \A id \in Active : currentRunID = id /\ currentCmd = runs[id].argv

\* "Sampling must not block Run/Status calls": every RPC returns, unless the
\* process has died of a panic.  stats() keeps h.mu when StatusAll fails, and
\* every RPC starts by locking it.
EveryRpcReturns ==
    \A c \in Clients : (pc[c] # "idle") ~> (pc[c] = "idle" \/ panicked)

=============================================================================
