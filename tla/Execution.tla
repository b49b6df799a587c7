----------------------------- MODULE Execution -----------------------------
(***************************************************************************)
(* The Bazel execution server (package execution).  Execute turns an       *)
(* ExecuteRequest into a one-task job, validates it, hands it to the       *)
(* scheduler and answers with a long-running operation named after the job *)
(* id; GetOperation answers for any name.  gRPC runs every call on a       *)
(* goroutine of its own; the calls meet in the scheduler, which admits one *)
(* job at a time.                                                          *)
(*                                                                         *)
(* A request is what the handler looks at: the action, whether its command *)
(* and input root digests are valid, and its timeout as one of four cases. *)
(* sched.ValidateJob and Scheduler.ScheduleJob are not part of the source  *)
(* and follow the specification (job validation, admission).               *)
(***************************************************************************)
EXTENDS Naturals, Sequences, FiniteSets

CONSTANTS
    Clients,       \* the goroutines serving calls
    Actions,       \* the actions clients ask to execute
    MaxJobs,       \* bound on the jobs the scheduler admits
    Initialized,   \* MakeExecutionServer was given a scheduler
    Faulty,        \* TRUE: serializing and the scheduler's log may fail
    Nil

ASSUME MaxJobs \in Nat \ {0} /\ Initialized \in BOOLEAN /\ Faulty \in BOOLEAN

VARIABLES
    jobs,   \* the scheduler: the admitted jobs, a job's id is its position
    pc,     \* per client: "idle", or "ScheduleJob" while the scheduler has its job
    job,    \* per client: the job it handed to the scheduler
    ret     \* per client: the reply to the call it made last

vars == <<jobs, pc, job, ret>>

-----------------------------------------------------------------------------
\* Action.Timeout after GetMsFromDuration and time.ParseDuration: a duration
\* below zero, zero (absent), above zero, or one ParseDuration rejects.
Timeouts == {"negative", "zero", "positive", "overflow"}

ExecuteRequest ==
    [action : Actions, cmdValid : BOOLEAN, inputValid : BOOLEAN, timeout : Timeouts]

\* sched.thrift: Command, TaskDefinition and JobDefinition as Execute fills them.
Command == [argv : {<<"BZ_PLACEHOLDER">>}, timeout : Timeouts, snapshotValid : BOOLEAN]
TaskDefinition == [command : Command, bazelRequest : ExecuteRequest]
JobDefinition == [priority : {"P0"}, tasks : Seq(TaskDefinition)]

\* IsInitialized: the server and its scheduler are there.
IsInitialized == Initialized

ValidInputOnly(req) == req # Nil /\ req.inputValid

\* validateExecRequest returns nil.
validateExecRequest(req) == req # Nil /\ req.cmdValid /\ req.inputValid

\* execReqToScoot: the job definition, or Nil for an error.
execReqToScoot(req) ==
    IF validateExecRequest(req) /\ req.timeout # "overflow"
    THEN [priority |-> "P0",
          tasks |-> <<[command |-> [argv |-> <<"BZ_PLACEHOLDER">>, timeout |-> req.timeout,
                                    snapshotValid |-> req.inputValid],
                       bazelRequest |-> req]>>]
    ELSE Nil

\* sched.ValidateJob returns nil: tasks, an argv for each, no negative
\* timeout, a well-formed snapshot id.
ValidateJob(def) ==
    /\ def.tasks # <<>>
    /\ \A i \in DOMAIN def.tasks :
          LET cmd == def.tasks[i].command
          IN  cmd.argv # <<>> /\ cmd.timeout # "negative" /\ cmd.snapshotValid

NameBefore(id) == id - 1

\* op.Name for the job the scheduler admitted as `id`.
OperationName(id) == id

\* The longrunning.Operation both calls answer with: done, stage COMPLETED,
\* exit code 0.
Operation(name, digest) == [err |-> "nil", name |-> name, done |-> TRUE, digest |-> digest]
Error(code) == [err |-> code, name |-> Nil, done |-> FALSE, digest |-> Nil]
Internal == Error("Internal")

Return(c, reply) ==
    /\ pc' = [pc EXCEPT ![c] = "idle"]
    /\ job' = [job EXCEPT ![c] = Nil]
    /\ ret' = [ret EXCEPT ![c] = reply]

\* marshalAny returns an error, which the caller returns with `code`.
marshalAny(c, code) == Faulty /\ Return(c, Error(code))

\* The jobs admitted and on their way to the scheduler.
Submitted == Len(jobs) + Cardinality({c \in Clients : pc[c] = "ScheduleJob"})

-----------------------------------------------------------------------------
\* Execute up to s.scheduler.ScheduleJob: the digest of the action, the
\* conversion and the validation of the job; any failure is codes.Internal.
Execute(c, req) ==
    /\ pc[c] = "idle"
    /\ Submitted < MaxJobs
    /\ LET def == execReqToScoot(req)
           accepted == IsInitialized /\ def # Nil /\ ValidateJob(def)
       IN  \/ (~accepted \/ Faulty) /\ Return(c, Internal)
           \/ /\ accepted
              /\ pc' = [pc EXCEPT ![c] = "ScheduleJob"]
              /\ job' = [job EXCEPT ![c] = def]
              /\ UNCHANGED ret
    /\ UNCHANGED jobs

\* The scheduler admits the job or fails; Execute goes on from ScheduleJob to
\* its return: the operation named after the job id, or codes.Internal when
\* the scheduler failed or a message does not marshal.
ScheduleJob(c) ==
    /\ pc[c] = "ScheduleJob"
    /\ \/ Faulty /\ Return(c, Internal) /\ UNCHANGED jobs
       \/ /\ jobs' = Append(jobs, job[c])
          /\ \/ Return(c, Operation(OperationName(Len(jobs')),
                                    job[c].tasks[1].bazelRequest.action))
             \/ marshalAny(c, "Internal")

\* GetOperation: the same operation for whatever name the client sends; an
\* error of marshalAny is returned as it is.
GetOperation(c, name) ==
    /\ pc[c] = "idle"
    /\ \/ ~IsInitialized /\ Return(c, Internal)
       \/ IsInitialized /\ (Return(c, Operation(name, Nil)) \/ marshalAny(c, "Unknown"))
    /\ UNCHANGED jobs

-----------------------------------------------------------------------------
Init ==
    /\ jobs = <<>>
    /\ pc = [c \in Clients |-> "idle"]
    /\ job = [c \in Clients |-> Nil]
    /\ ret = [c \in Clients |-> Internal]

Next ==
    \E c \in Clients :
        \/ \E req \in ExecuteRequest \cup {Nil} : Execute(c, req)
        \/ ScheduleJob(c)
        \/ \E name \in 1..MaxJobs : GetOperation(c, name)

Spec == Init /\ [][Next]_vars

-----------------------------------------------------------------------------
TypeOK ==
    /\ jobs \in Seq(JobDefinition) /\ Len(jobs) <= MaxJobs
    /\ pc \in [Clients -> {"idle", "ScheduleJob"}]
    /\ job \in [Clients -> JobDefinition \cup {Nil}]
    /\ \A c \in Clients :
          ret[c] \in [err : {"nil", "Internal", "Unknown"}, name : 1..MaxJobs \cup {Nil},
                      done : BOOLEAN, digest : Actions \cup {Nil}]

\* What the scheduler is given can run: every admitted job has one task
\* whose request passed validateExecRequest and whose timeout is one the
\* scheduler accepts, whichever checks of Execute, execReqToScoot and
\* ValidateJob the request met on its way.
ScheduledJobsAreRunnable ==
    \A id \in DOMAIN jobs :
        /\ Len(jobs[id].tasks) = 1
        /\ LET task == jobs[id].tasks[1]
           IN  /\ task.bazelRequest.cmdValid /\ task.bazelRequest.inputValid
               /\ task.command.timeout \in {"zero", "positive"}

=============================================================================
