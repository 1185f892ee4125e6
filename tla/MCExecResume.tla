---------------------------- MODULE MCExecResume ----------------------------
(* ExecControl with a history variable, for one sentence of the API's         *)
(* documentation.                                                             *)
EXTENDS MCExecControl

VARIABLE passed   \* breakpoints resumed over since the last Tick

ResumedOver == skip' # None /\ paused /\ ~paused'

HistoryInit == Init /\ passed = {}

HistoryNext ==
  /\ Next
  /\ passed' = IF phase' \notin {"poll"} \/ phase # "poll" \/ FastBatch \/ Pause THEN {}
               ELSE IF ResumedOver THEN passed \cup {skip'}
               ELSE passed

HistorySpec == HistoryInit /\ [][HistoryNext]_<<vars, passed>>

\* "Resuming an execution or pre-dispatch software-INT stop skips that
\* breakpoint for one CPU Tick so execution can proceed"
\* (JSON_RPC_API.md:669-670): a breakpoint the client resumed over is not hit
\* again before the CPU has ticked, unless a pause came in between.
SkippedForOneTick ==
  [][~paused /\ paused' /\ lastStop'.kind = "breakpoint"
       => lastStop'.id \notin passed]_<<vars, passed>>
=============================================================================
