----------------------------- MODULE Scheduler -----------------------------
(***************************************************************************)
(* The execution server, the scheduler and the saga log together: Execute  *)
(* hands a one-task job to the scheduler loop, which starts its saga,      *)
(* dispatches the task to a free worker, and ends the saga when a Task     *)
(* Runner reports the task; the cluster removes workers meanwhile.         *)
(*                                                                         *)
(* Execution and SagaLog are the modules of the source.  The scheduler     *)
(* loop and the Task Runner are not part of the source: they follow the    *)
(* specification (admission, dispatch policy, worker loss, completion,     *)
(* RunTask).  The loop is one thread and handles one event at a time; its  *)
(* log calls (StartSaga, EndSaga) block it.  A Task Runner is a thread per *)
(* attempt, named after its worker.  The Saga handle of the source wraps   *)
(* the whole log, so IsTaskStarted is a GetMessages of the job's saga.     *)
(* A task's outcome (completed or failed) is not told apart.               *)
(***************************************************************************)
EXTENDS Naturals, Sequences, FiniteSets

CONSTANTS
    Clients, Actions, MaxJobs, Faulty, Nil,   \* as in Execution
    Requests,      \* the requests clients send to Execute
    Workers,       \* the nodes of the cluster, all members at the start
    MaxRemoved,    \* bound on the workers the cluster removes
    JobIds,        \* the job ids the scheduler assigns, in order
    MaxLen,        \* as in SagaLog
    Loop           \* the thread of the scheduler loop

ASSUME /\ Len(JobIds) >= MaxJobs
       /\ MaxRemoved < Cardinality(Workers)
       /\ Loop \notin Workers
       /\ Requests \subseteq [action : Actions, cmdValid : BOOLEAN, inputValid : BOOLEAN,
                               timeout : {"negative", "zero", "positive", "overflow"}] \cup {Nil}

VARIABLES
    jobs, pc, job, ret,                     \* Execution
    sagas, locked, logPc, logArg, logRet,   \* SagaLog
    state,    \* JobState: per job its task's status, "absent" without one
    loop,     \* what the scheduler loop is in the middle of
    free,     \* freeWorkers
    gone,     \* the workers the cluster has removed
    task,     \* per worker: the job of the Task Runner spawned on it last
    rpc,      \* per worker: where its Task Runner is in RunTask
    events    \* the workers whose Task Runner has a completion to deliver

execVars == <<jobs, pc, job, ret>>
logVars == <<sagas, locked, logPc, logArg, logRet>>
schedVars == <<state, loop, free, gone, task, rpc, events>>
vars == <<execVars, logVars, schedVars>>

Exec == INSTANCE Execution WITH Initialized <- TRUE

Log ==
    INSTANCE SagaLog
    WITH Threads <- Workers \cup {Loop}, SagaIds <- {JobIds[n] : n \in 1..MaxJobs},
         MsgTypes <- {"StartTask", "EndTask", "EndSaga"}, TaskIds <- Actions,
         pc <- logPc, arg <- logArg, ret <- logRet

-----------------------------------------------------------------------------
\* task.TaskID of the job Execute builds: named after the digest of the action.
TaskID(def) == def.tasks[1].bazelRequest.action

\* The saga message of kind `type` for job n.
Msg(n, type) ==
    [sagaId |-> JobIds[n], msgType |-> type,
     taskId |-> IF type = "EndSaga" THEN "" ELSE TaskID(jobs[n])]

Idle == [op |-> "idle", of |-> Nil]
Admitting(c) == [op |-> "admit", of |-> c]
Ending(n) == [op |-> "end", of |-> n]

AnyUnfinished == {n \in DOMAIN state : state[n] \in {"NotStarted", "Started"}}

\* Dispatch step 1: the tasks with status NotStarted (none has dependencies).
Candidates == {n \in DOMAIN state : state[n] = "NotStarted"}

\* A worker the scheduler has assigned to a task and not released.
Assigned(w) == w \notin free \cup gone

\* Worker loss: the task of an assigned worker goes back to NotStarted.
Reverted(w) ==
    IF Assigned(w) /\ state[task[w]] = "Started"
    THEN [state EXCEPT ![task[w]] = "NotStarted"]
    ELSE state

\* saga.IsTaskStarted, from the messages of the saga.
TaskStarted(msgs) == \E i \in DOMAIN msgs : msgs[i].msgType = "StartTask"

\* A Task Runner goes on to its next step; the scheduler's state is not its own.
Goto(w, label) ==
    /\ rpc' = [rpc EXCEPT ![w] = label]
    /\ UNCHANGED <<execVars, state, loop, free, gone, task>>

-----------------------------------------------------------------------------
\* Execute and GetOperation of the execution server.
Execute(c, req) == Exec!Execute(c, req) /\ UNCHANGED <<logVars, schedVars>>
GetOperation(c, name) == Exec!GetOperation(c, name) /\ UNCHANGED <<logVars, schedVars>>

\* Admission: the loop takes a submission, assigns the next job id and calls
\* SagaLog.StartSaga.
Admit(c) ==
    /\ loop = Idle /\ pc[c] = "ScheduleJob"
    /\ Log!Call(Loop, "StartSaga", Log!ForSaga(JobIds[Len(jobs) + 1]))
    /\ loop' = Admitting(c)
    /\ UNCHANGED <<execVars, state, free, gone, task, rpc, events>>

\* ScheduleJob returns to Execute: StartSaga has returned, the loop inserts
\* the JobState and responds with the job id; or the submission fails
\* before the loop took it.
ScheduleJob(c) ==
    /\ Exec!ScheduleJob(c)
    /\ \/ /\ loop = Admitting(c) /\ jobs' # jobs
          /\ Log!StartSaga(Loop)
          /\ state' = [state EXCEPT ![Len(jobs')] = "NotStarted"]
          /\ loop' = Idle
          /\ UNCHANGED <<free, gone, task, rpc, events>>
       \/ loop # Admitting(c) /\ jobs' = jobs /\ UNCHANGED <<logVars, schedVars>>

\* Dispatch steps 2 and 3: the candidate admitted first (every job of
\* Execute has priority P0) gets any free worker and a Task Runner.
Dispatch(n, w) ==
    /\ loop = Idle /\ w \in free
    /\ n \in Candidates /\ \A m \in Candidates : n <= m
    /\ state' = [state EXCEPT ![n] = "Started"]
    /\ free' = free \ {w}
    /\ task' = [task EXCEPT ![w] = n]
    /\ rpc' = [rpc EXCEPT ![w] = "IsTaskStarted"]
    /\ UNCHANGED <<execVars, logVars, loop, gone, events>>

\* Worker loss: Removed(w) arrives from the cluster; the Task Runner of an
\* assigned worker is told to abandon, which it sees as w \in gone.
Removed(w) ==
    /\ loop = Idle /\ w \notin gone /\ Cardinality(gone) < MaxRemoved
    /\ gone' = gone \cup {w} /\ free' = free \ {w}
    /\ state' = Reverted(w)
    /\ UNCHANGED <<execVars, logVars, loop, task, rpc, events>>

\* Completion: the loop takes a notification, marks the task, releases the
\* worker if it is still a member and, every task of the job being
\* terminal, appends EndSaga.
Complete(w) ==
    /\ loop = Idle /\ w \in events
    /\ events' = events \ {w}
    /\ free' = IF w \in gone THEN free ELSE free \cup {w}
    /\ \/ state[task[w]] = "absent" /\ UNCHANGED <<logVars, state, loop>>
       \/ /\ state[task[w]] # "absent"
          /\ state' = [state EXCEPT ![task[w]] = "Completed"]
          /\ Log!Call(Loop, "LogMessage", Msg(task[w], "EndSaga"))
          /\ loop' = Ending(task[w])
    /\ UNCHANGED <<execVars, gone, task, rpc>>

\* Completion: EndSaga is appended and the JobState removed.
EndSaga(n) ==
    /\ loop = Ending(n)
    /\ Log!LogMessage(Loop)
    /\ state' = [state EXCEPT ![n] = "absent"]
    /\ loop' = Idle
    /\ UNCHANGED <<execVars, free, gone, task, rpc, events>>

-----------------------------------------------------------------------------
\* RunTask step 1: the Task Runner asks the saga whether the task is started.
IsTaskStarted(w) ==
    /\ rpc[w] = "IsTaskStarted" /\ Goto(w, "GetMessages")
    /\ Log!Call(w, "GetMessages", Log!ForSaga(JobIds[task[w]]))
    /\ UNCHANGED events

GetMessages(w) ==
    /\ rpc[w] = "GetMessages" /\ Goto(w, "StartTask")
    /\ Log!GetMessages(w)
    /\ UNCHANGED events

\* RunTask step 1: append StartTask unless the saga had one.
StartTask(w) ==
    /\ rpc[w] = "StartTask"
    /\ \/ TaskStarted(logRet[w].msgs) /\ Goto(w, "Run") /\ UNCHANGED logVars
       \/ /\ ~TaskStarted(logRet[w].msgs) /\ Goto(w, "LogMessage")
          /\ Log!Call(w, "LogMessage", Msg(task[w], "StartTask"))
    /\ UNCHANGED events

LogMessage(w) ==
    /\ rpc[w] = "LogMessage" /\ Goto(w, "Run")
    /\ Log!LogMessage(w)
    /\ UNCHANGED events

\* RunTask steps 2 to 5: worker.Run and the polling of its status up to a
\* terminal one, then the call that appends EndTask; an abandoned runner
\* returns WorkerLost and appends nothing.
Run(w) ==
    /\ rpc[w] = "Run"
    /\ \/ w \in gone /\ Goto(w, "idle") /\ UNCHANGED logVars
       \/ /\ w \notin gone /\ Goto(w, "EndTask")
          /\ Log!Call(w, "LogMessage", Msg(task[w], "EndTask"))
    /\ UNCHANGED events

\* RunTask steps 4 and 5: EndTask is appended and the scheduler notified.
EndTask(w) ==
    /\ rpc[w] = "EndTask" /\ Goto(w, "idle")
    /\ Log!LogMessage(w)
    /\ events' = events \cup {w}

-----------------------------------------------------------------------------
Init ==
    /\ Exec!Init /\ Log!Init
    /\ state = [n \in 1..MaxJobs |-> "absent"]
    /\ loop = Idle
    /\ free = Workers /\ gone = {} /\ events = {}
    /\ task = [w \in Workers |-> Nil]
    /\ rpc = [w \in Workers |-> "idle"]

Next ==
    \/ \E c \in Clients :
          \/ \E req \in Requests : Execute(c, req)
          \/ \E name \in 1..MaxJobs : GetOperation(c, name)
          \/ Admit(c) \/ ScheduleJob(c)
    \/ \E w \in Workers :
          \/ \E n \in 1..MaxJobs : Dispatch(n, w)
          \/ Removed(w) \/ Complete(w)
          \/ IsTaskStarted(w) \/ GetMessages(w) \/ StartTask(w)
          \/ LogMessage(w) \/ Run(w) \/ EndTask(w)
    \/ \E n \in 1..MaxJobs : EndSaga(n)

Spec == Init /\ [][Next]_vars

\* What the scheduler loop and the Task Runner on w can do next.
LoopStep ==
    \/ \E c \in Clients : Admit(c) \/ (loop = Admitting(c) /\ ScheduleJob(c))
    \/ \E w \in Workers : Complete(w) \/ \E n \in 1..MaxJobs : Dispatch(n, w)
    \/ \E n \in 1..MaxJobs : EndSaga(n)

RunTask(w) ==
    IsTaskStarted(w) \/ GetMessages(w) \/ StartTask(w) \/ LogMessage(w) \/ Run(w) \/ EndTask(w)

\* The loop and the Task Runners are threads that run when they can, and
\* the mutex of the log is free whenever they wait for it; nothing obliges
\* a client to call or the cluster to remove a worker.
Fairness == WF_vars(LoopStep) /\ \A w \in Workers : WF_vars(RunTask(w))

FairSpec == Spec /\ Fairness

-----------------------------------------------------------------------------
TypeOK ==
    /\ Exec!TypeOK /\ Log!TypeOK
    /\ state \in [1..MaxJobs -> {"absent", "NotStarted", "Started", "Completed"}]
    /\ loop \in {Idle} \cup {Admitting(c) : c \in Clients} \cup {Ending(n) : n \in 1..MaxJobs}
    /\ free \subseteq Workers /\ gone \subseteq Workers /\ events \subseteq Workers
    /\ task \in [Workers -> 1..MaxJobs \cup {Nil}]
    /\ rpc \in [Workers -> {"idle", "IsTaskStarted", "GetMessages", "StartTask",
                            "LogMessage", "Run", "EndTask"}]

\* Every job the loop admitted came from a request that validateExecRequest
\* accepts, with the timeout Execute derived from it, although the loop
\* admits while earlier jobs are dispatched and run.
ScheduledJobsAreRunnable == Exec!ScheduledJobsAreRunnable

Count(msgs, type) == Cardinality({i \in DOMAIN msgs : msgs[i].msgType = type})

\* What the specification asks of every saga: StartSaga is first, EndSaga
\* comes at most once and last, a task has at most one EndTask, and a
\* StartTask before it.
WellFormed(msgs) ==
    /\ msgs # <<>> /\ msgs[1].msgType = "StartSaga"
    /\ Count(msgs, "EndSaga") <= 1 /\ Count(msgs, "EndTask") <= 1
    /\ \A i \in DOMAIN msgs :
          /\ msgs[i].msgType = "EndSaga" => i = Len(msgs)
          /\ msgs[i].msgType = "EndTask" => \E j \in 1..(i - 1) : msgs[j].msgType = "StartTask"

\* Every saga in the log is well formed, whatever the scheduler loop and the
\* Task Runners (RunTask, Completion, Worker loss) do: LogMessage appends
\* what it is given, so the order of the log is the order of their calls.
SagasWellFormed == \A id \in DOMAIN sagas : WellFormed(sagas[id])

\* The same while the cluster has removed no worker: the StartTask that
\* RunTask appends after IsTaskStarted, the EndTask of the one attempt and
\* the EndSaga of Completion reach LogMessage in that order, for every
\* interleaving of the jobs' Task Runners and the loop.
SagasWellFormedUntilRemoved == gone = {} => SagasWellFormed

\* Dispatch is exclusive (Dispatch, Worker loss, Completion): a task has at
\* most one Task Runner that was not abandoned, and a worker in the free
\* pool has none, neither running nor with a completion to deliver.
DispatchIsExclusive ==
    /\ \A n \in 1..MaxJobs :
          Cardinality({w \in Workers \ gone : rpc[w] # "idle" /\ task[w] = n}) <= 1
    /\ \A w \in free : rpc[w] = "idle" /\ w \notin events

\* Every job that ScheduleJob admitted gets its EndSaga, also a job whose
\* Execute answered codes.Internal after admission and a job whose worker
\* the cluster removed (Worker loss reverts the task, Dispatch gives it to
\* a worker that is left), as long as one worker stays.
EveryJobEnds ==
    \A n \in 1..MaxJobs :
        (n \in DOMAIN jobs) ~>
            (JobIds[n] \in DOMAIN sagas /\ Count(sagas[JobIds[n]], "EndSaga") >= 1)

=============================================================================
