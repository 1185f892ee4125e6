----------------------------- MODULE MCMailbox ------------------------------
(* The instance of Mailbox that TLC checks: three jobs, so that calls of an  *)
(* earlier one may still be served while a later one is submitted.           *)
EXTENDS Mailbox

MCCommands == {"X"}
=============================================================================
