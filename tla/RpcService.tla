----------------------------- MODULE RpcService -----------------------------
(***************************************************************************)
(* What the debug server promises the threads that serve its connections:  *)
(* a submitted request is answered once, by the emulator thread, and the   *)
(* answer is collected by the thread that asked.  DebugServer.tla is shown *)
(* to implement this specification.                                        *)
(***************************************************************************)
CONSTANT Clients   \* the connections a debug server can hold

VARIABLE status    \* what each connection's request has come to

Init == status = [c \in Clients |-> "idle"]

Ask(c) == status[c] = "idle" /\ status' = [status EXCEPT ![c] = "asked"]

Answer(c) == status[c] = "asked" /\ status' = [status EXCEPT ![c] = "answered"]

Collect(c) == status[c] = "answered" /\ status' = [status EXCEPT ![c] = "idle"]

Next == \E c \in Clients : Ask(c) \/ Answer(c) \/ Collect(c)

Spec == /\ Init
        /\ [][Next]_status
        /\ \A c \in Clients : WF_status(Answer(c)) /\ WF_status(Collect(c))
=============================================================================
