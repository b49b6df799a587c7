------------------------------ MODULE SagaLog ------------------------------
(***************************************************************************)
(* The in-memory saga log (package saga, inMemorySagaLog): a map from a    *)
(* saga id to the sequence of messages logged for it, guarded by one       *)
(* sync.RWMutex.  Callers are goroutines that call LogMessage, StartSaga   *)
(* and GetMessages concurrently.                                           *)
(*                                                                         *)
(* A call is two steps: the caller enters the method and waits for the     *)
(* mutex (Call...), then runs the whole critical section in one step (the  *)
(* mutex makes it atomic for every other caller).  `locked` is therefore   *)
(* TRUE in a reachable state only when a critical section returned without *)
(* unlocking.                                                              *)
(***************************************************************************)
EXTENDS Naturals, Sequences, FiniteSets

CONSTANTS
    Threads,       \* the calling goroutines
    SagaIds,       \* saga ids the callers use
    MsgTypes,      \* the message types callers pass to LogMessage
    TaskIds,       \* task ids carried by messages
    MaxLen         \* bound on the length of one saga's log

ASSUME /\ MaxLen \in Nat \ {0}
       /\ "StartSaga" \notin MsgTypes

VARIABLES
    sagas,    \* log.sagas: a function from the started saga ids to their logs
    locked,   \* log.mutex is write-locked (outside any critical section)
    pc,       \* per thread: "idle" or the method it is blocked in
    arg,      \* per thread: the argument of the pending call
    ret       \* per thread: what its last call returned

vars == <<sagas, locked, pc, arg, ret>>

-----------------------------------------------------------------------------
Message == [sagaId : SagaIds, msgType : MsgTypes \cup {"StartSaga"}, taskId : TaskIds \cup {""}]

\* StartSagaMessageFactory(sagaId, job); the job blob is not told apart.
StartSagaMessage(id) == [sagaId |-> id, msgType |-> "StartSaga", taskId |-> ""]

\* The messages the Saga layer hands to LogMessage.
LoggedMessage == [sagaId : SagaIds, msgType : MsgTypes, taskId : TaskIds]

StartedEmpty(startMsg) == <<>>

\* The value StartSaga stores under the saga id.
StartedLog(startMsg) == <<startMsg>>

NotAppended(msgs, msg) == msgs

\* The value LogMessage stores under the saga id.
AppendedLog(msgs, msg) == Append(msgs, msg)

Started(id) == id \in DOMAIN sagas

\* The goroutines waiting to append to saga id.
Appending(id) == {u \in Threads : pc[u] = "LogMessage" /\ arg[u].sagaId = id}

\* m[k] = v for a Go map: the key is added when absent.
MapPut(m, k, v) == [x \in DOMAIN m \cup {k} |-> IF x = k THEN v ELSE m[x]]

\* The argument of a call: a message, or a saga id alone.
NoArg == [sagaId |-> "", msgType |-> "", taskId |-> ""]
ForSaga(id) == [NoArg EXCEPT !.sagaId = id]

\* What a method returns: the error (or "nil") and, for GetMessages, the slice.
Result(err, msgs) == [err |-> err, msgs |-> msgs]

Return(t, result) ==
    /\ pc' = [pc EXCEPT ![t] = "idle"]
    /\ arg' = [arg EXCEPT ![t] = NoArg]
    /\ ret' = [ret EXCEPT ![t] = result]

-----------------------------------------------------------------------------
\* A goroutine enters one of the three methods and reaches its Lock/RLock.
\* Any caller may start any saga id, started before or not.  MaxLen bounds a
\* log, counting the appends that are already on their way.
Call(t, method, a) ==
    /\ pc[t] = "idle"
    /\ method = "LogMessage" /\ Started(a.sagaId) =>
          Len(sagas[a.sagaId]) + Cardinality(Appending(a.sagaId)) < MaxLen
    /\ pc' = [pc EXCEPT ![t] = method]
    /\ arg' = [arg EXCEPT ![t] = a]
    /\ UNCHANGED <<sagas, locked, ret>>

\* LogMessage: Lock; look the saga up; when it is missing return the error
\* with the mutex still held; otherwise append, Unlock and return nil.
LogMessage(t) ==
    /\ pc[t] = "LogMessage"
    /\ ~locked
    /\ LET msg == arg[t]
       IN  \/ /\ ~Started(msg.sagaId)
              /\ locked' = TRUE
              /\ Return(t, Result("NotStarted", <<>>))
              /\ UNCHANGED sagas
           \/ /\ Started(msg.sagaId)
              /\ sagas' = MapPut(sagas, msg.sagaId, AppendedLog(sagas[msg.sagaId], msg))
              /\ Return(t, Result("nil", <<>>))
              /\ UNCHANGED locked

\* StartSaga: Lock; store the one-message log under the id, replacing
\* whatever was there; Unlock; return nil.
StartSaga(t) ==
    /\ pc[t] = "StartSaga"
    /\ ~locked
    /\ sagas' = MapPut(sagas, arg[t].sagaId, StartedLog(StartSagaMessage(arg[t].sagaId)))
    /\ Return(t, Result("nil", <<>>))
    /\ UNCHANGED locked

\* GetMessages: RLock; read the slice; RUnlock; return it (nil when the saga
\* is missing, which an empty slice models).
GetMessages(t) ==
    /\ pc[t] = "GetMessages"
    /\ ~locked
    /\ Return(t, Result("nil", IF Started(arg[t].sagaId) THEN sagas[arg[t].sagaId] ELSE <<>>))
    /\ UNCHANGED <<sagas, locked>>

-----------------------------------------------------------------------------
Init ==
    /\ sagas = <<>>
    /\ locked = FALSE
    /\ pc = [t \in Threads |-> "idle"]
    /\ arg = [t \in Threads |-> NoArg]
    /\ ret = [t \in Threads |-> Result("nil", <<>>)]

Next ==
    \E t \in Threads :
        \/ \E msg \in LoggedMessage : Call(t, "LogMessage", msg)
        \/ \E id \in SagaIds : Call(t, "StartSaga", ForSaga(id))
        \/ \E id \in SagaIds : Call(t, "GetMessages", ForSaga(id))
        \/ LogMessage(t)
        \/ StartSaga(t)
        \/ GetMessages(t)

Spec == Init /\ [][Next]_vars

\* A goroutine blocked on the mutex gets it when it is free often enough
\* (sync.RWMutex queues its waiters); nothing obliges a caller to call.
Fairness ==
    \A t \in Threads :
        /\ SF_vars(LogMessage(t))
        /\ SF_vars(StartSaga(t))
        /\ SF_vars(GetMessages(t))

FairSpec == Spec /\ Fairness

-----------------------------------------------------------------------------
TypeOK ==
    /\ DOMAIN sagas \subseteq SagaIds
    /\ \A id \in DOMAIN sagas : sagas[id] \in Seq(Message) /\ Len(sagas[id]) \in 1..MaxLen
    /\ locked \in BOOLEAN
    /\ pc \in [Threads -> {"idle", "LogMessage", "StartSaga", "GetMessages"}]
    /\ \A t \in Threads : /\ ret[t].err \in {"nil", "NotStarted"}
                         /\ ret[t].msgs \in Seq(Message)

IsPrefixOf(s, t) == Len(s) <= Len(t) /\ \A i \in 1..Len(s) : s[i] = t[i]

\* The log is append-only: once a saga is started it stays started and a
\* step changes its log only by adding messages at the end (the contract of
\* StartSaga, "AlreadyStarted" for a saga that exists, and of LogMessage).
\* inMemorySagaLog.StartSaga stores a fresh one-message log under the id
\* whatever was there, so a second StartSaga drops what was logged.
AppendOnly ==
    [][\A id \in DOMAIN sagas :
          /\ id \in DOMAIN sagas'
          /\ IsPrefixOf(sagas[id], sagas'[id])
          /\ sagas'[id][1].msgType = "StartSaga"]_sagas

\* Every call returns (the contract of all three methods: they take the mutex
\* for the length of one map access).  The early return of LogMessage for a
\* saga that was never started keeps the mutex, so it does not hold.
EveryCallReturns ==
    \A t \in Threads : (pc[t] # "idle") ~> (pc[t] = "idle")

=============================================================================
