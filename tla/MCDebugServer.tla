--------------------------- MODULE MCDebugServer ----------------------------
(* The instance of DebugServer that TLC checks: connections that may submit *)
(* for ever, and batches small enough to leave requests behind.             *)
EXTENDS DebugServer

MCMaxBatch == 1   \* eight in the code
MCMaxInbox == 1
=============================================================================
