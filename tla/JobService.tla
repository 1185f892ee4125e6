----------------------------- MODULE JobService -----------------------------
(***************************************************************************)
(* What a host program wants of the DOS mailbox: a job is run by the guest *)
(* at most once, however often the host gives up waiting, and the result   *)
(* the host takes for a job is the one of that job's own run.              *)
(* Mailbox.tla is shown to implement this specification.                   *)
(***************************************************************************)
CONSTANT Jobs

VARIABLES runs,     \* how often the guest has run each job
          results   \* jobs whose result the host has in hand

Init == runs = [j \in Jobs |-> 0] /\ results = {}

Run(j) == /\ runs[j] = 0
          /\ runs' = [runs EXCEPT ![j] = 1]
          /\ UNCHANGED results

TakeResult(j) == /\ runs[j] = 1
                 /\ results' = results \cup {j}
                 /\ UNCHANGED runs

Next == \E j \in Jobs : Run(j) \/ TakeResult(j)

Spec == Init /\ [][Next]_<<runs, results>>
=============================================================================
