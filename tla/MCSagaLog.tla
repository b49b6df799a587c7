----------------------------- MODULE MCSagaLog -----------------------------
(***************************************************************************)
(* SagaLog for TLC: the message types and the task id of its runs.         *)
(***************************************************************************)
EXTENDS SagaLog

MCMsgTypes == {"StartTask", "EndTask", "EndSaga"}
MCTaskIds == {"task1"}

=============================================================================
