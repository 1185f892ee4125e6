------------------------------ MODULE Mailbox -------------------------------
(***************************************************************************)
(* guest/dos_control.py and guest/dos_control.asm: a host client submits   *)
(* commands to the DOS worker through a mailbox in guest memory, by        *)
(* JSON-RPC calls to the emulator that may fail before they are sent, or   *)
(* take effect although their replies never arrive.                        *)
(*                                                                         *)
(* The client is a program of calls (CallAt, OnReply, OnError); one        *)
(* controller uses it as guest/RECOVERY.md asks: it submits a job again only *)
(* when the client says that it was not published.  The emulator serves    *)
(* calls in the order they were sent, those of connections the client has  *)
(* given up included.  A job's number exists only in the model: the        *)
(* mailbox has no request ids.                                             *)
(***************************************************************************)
EXTENDS Naturals, Sequences, FiniteSets

CONSTANTS
  Commands,   \* commands other than Q
  MaxJobs,    \* bound: jobs the controller ever has
  MaxQueue    \* bound: calls the emulator has not served yet

ASSUME MailboxAssumption ==
  /\ "Q" \notin Commands
  /\ MaxJobs \in Nat /\ MaxQueue \in Nat

VARIABLES
  mode,      \* the machine: "free", "running" an operation, or "paused"
  mail,      \* the mailbox at D800:0000
  worker,    \* where DOSCTRL.COM is
  queue,     \* calls sent and not served
  pc,        \* the client's next call, or "caller" outside of any
  waiting,   \* is the client waiting for the reply to its last call?
  reply,     \* that reply, once it is there
  job, cmd,  \* the controller's current job
  fate,      \* what the controller knows of it
  ran,       \* how often the worker has run each job
  results,   \* the job whose answer the client took for each job's, or 0
  resumed    \* has execution.continue been "sent" since the last pause was, has
             \* it at least been "tried", or is it still "owed"?

hostVars == <<pc, waiting, reply, job, cmd, fate, results, resumed>>
vars == <<mode, mail, worker, queue, ran, hostVars>>

Jobs == 1..MaxJobs
NoData == [job |-> 0, kind |-> "rubbish"]
NoReply == [kind |-> "none"]

Init ==
  /\ mode = "free"
  /\ mail = [run1 |-> FALSE, state |-> 0, cmd |-> "none", job |-> 0, data |-> NoData]
  /\ worker = "absent"
  /\ queue = <<>>
  /\ pc = "caller" /\ waiting = FALSE /\ reply = NoReply
  /\ job = 0 /\ cmd = "none" /\ fate = "done"
  /\ ran = [j \in Jobs |-> 0]
  /\ results = [j \in Jobs |-> 0]
  /\ resumed = "sent"

-----------------------------------------------------------------------------
(* The worker, which executes while the machine is not paused. *)

WorkerStep == mode # "paused" /\ UNCHANGED <<mode, queue, hostVars>>

\* start: somebody runs DOSCTRL.COM.
WorkerStart ==
  /\ WorkerStep
  /\ worker = "absent"
  /\ worker' = "poll"
  /\ mail' = [mail EXCEPT !.run1 = TRUE, !.state = 3]
  /\ UNCHANGED ran

\* poll, dispatch
WorkerDispatch ==
  /\ WorkerStep
  /\ worker = "poll" /\ mail.state = 1
  /\ worker' = "busy"
  /\ ran' = [ran EXCEPT ![mail.job] = @ + 1]
  /\ UNCHANGED mail

\* The command's handler leaves its answer in the data area.
WorkerFinish ==
  /\ WorkerStep
  /\ worker = "busy"
  /\ worker' = "done"
  /\ mail' = [mail EXCEPT !.data = [job |-> mail.job, kind |-> "answer"]]
  /\ UNCHANGED ran

\* done
WorkerReply ==
  /\ WorkerStep
  /\ worker = "done"
  /\ worker' = "wait_ack"
  /\ mail' = [mail EXCEPT !.state = 2]
  /\ UNCHANGED ran

\* .acknowledged: Q ends the worker and leaves the mailbox as it is.
WorkerAcknowledged ==
  /\ WorkerStep
  /\ worker = "wait_ack" /\ mail.state = 0
  /\ IF mail.cmd = "Q"
     THEN worker' = "absent" /\ UNCHANGED mail
     ELSE worker' = "poll" /\ mail' = [mail EXCEPT !.state = 3]
  /\ UNCHANGED ran

Worker == \/ WorkerStart \/ WorkerDispatch \/ WorkerFinish
          \/ WorkerReply \/ WorkerAcknowledged

-----------------------------------------------------------------------------
(* The emulator, serving the calls (main.py). *)

\* Only the reply to the call the client still waits for reaches it.
Answer(ok) ==
  /\ queue' = Tail(queue)
  /\ reply' = IF waiting /\ Len(queue) = 1 THEN [kind |-> "reply", ok |-> ok, mail |-> mail]
              ELSE reply
  /\ UNCHANGED <<worker, ran, pc, waiting, job, cmd, fate, results, resumed>>

Calls(kinds) == queue # <<>> /\ Head(queue).call \in kinds

ServeRead == Calls({"read"}) /\ Answer(TRUE) /\ UNCHANGED <<mode, mail>>

ServePause == Calls({"pause"}) /\ Answer(TRUE) /\ mode' = "paused" /\ UNCHANGED mail

\* rpc_start_operation refuses while an operation is running.
ServeContinue ==
  /\ Calls({"continue"})
  /\ Answer(mode # "running")
  /\ mode' = "running"
  /\ UNCHANGED mail

Written(call) ==
  CASE call.call = "data"   -> [mail EXCEPT !.data = [job |-> call.job, kind |-> "request"]]
    [] call.call = "header" -> [mail EXCEPT !.state = 1, !.cmd = call.cmd, !.job = call.job]
    [] call.call = "ack"    -> [mail EXCEPT !.state = 0]

\* memory.write needs a paused machine.
ServeWrite ==
  /\ Calls({"data", "header", "ack"})
  /\ Answer(mode = "paused")
  /\ mail' = IF mode = "paused" THEN Written(Head(queue)) ELSE mail
  /\ UNCHANGED mode

Serve == ServeRead \/ ServePause \/ ServeContinue \/ ServeWrite

-----------------------------------------------------------------------------
(* The client: DOSControl.request, collect and ready as a program of calls. *)

CallAt ==
  [check |-> "read", pause |-> "pause", data |-> "data", header |-> "header",
   resume |-> "continue", resume_again |-> "continue",
   undo |-> "continue", undo_again |-> "continue",
   poll |-> "read", payload |-> "read", ack_pause |-> "pause", ack |-> "ack",
   ack_resume |-> "continue", ack_resume_again |-> "continue",
   drop |-> "continue", drop_again |-> "continue",
   confirm |-> "read", ready |-> "read"]

\* _resume_after_pause tries twice when its first call ran out of time.
Again == [resume |-> "resume_again", undo |-> "undo_again",
          ack_resume |-> "ack_resume_again", drop |-> "drop_again"]

Return(verdict) == pc' = "caller" /\ fate' = verdict
GoTo(p) == pc' = p /\ UNCHANGED fate

\* request refuses unless the worker is there and ready: nothing is published.
Checked(m) == IF m.run1 /\ m.state = 3 THEN GoTo("pause") ELSE Return("new")

\* Mutant: a worker that is still busy is taken for an idle one.
PolledBusyIsIdle(m) ==
  CASE ~m.run1                                 -> Return(fate)
    [] m.run1 /\ m.state \in {1, 3}            -> Return(IF fate = "known" THEN "done" ELSE "new")
    [] m.run1 /\ m.state = 2 /\ m.cmd = cmd    -> GoTo("payload")
    [] OTHER                                   -> Return(fate)

\* Mutant: the answer is read before the worker has replied.
PolledEarly(m) ==
  CASE ~m.run1                                 -> Return(fate)
    [] m.run1 /\ m.state = 3                   -> Return(IF fate = "known" THEN "done" ELSE "new")
    [] m.run1 /\ m.state \in {1, 2} /\ m.cmd = cmd -> GoTo("payload")
    [] OTHER                                   -> Return(fate)

\* collect's look at the header.  What it raises leaves the job as it was, but
\* for "no pending DOS worker reply", which tells that it was not published.
Polled(m) ==
  CASE ~m.run1                                 -> Return(fate)
    [] m.run1 /\ m.state = 3                   -> Return(IF fate = "known" THEN "done" ELSE "new")
    [] m.run1 /\ m.state = 2 /\ m.cmd = cmd    -> GoTo("payload")
    [] m.run1 /\ m.state = 1 /\ m.cmd = cmd    -> GoTo("poll")
    [] OTHER                                   -> Return(fate)

OnReply(m) ==
  CASE pc = "check"      -> Checked(m)
    [] pc = "pause"      -> GoTo("data")
    [] pc = "data"       -> GoTo("header")
    [] pc = "header"     -> GoTo("resume")
    [] pc \in {"resume", "resume_again"} -> GoTo("poll")
    [] pc \in {"undo", "undo_again"}     -> Return(fate)
    [] pc = "poll"       -> Polled(m)
    [] pc = "payload"    -> pc' = "ack_pause" /\ fate' = "known"
    [] pc = "ack_pause"  -> GoTo("ack")
    [] pc = "ack"        -> GoTo("ack_resume")
    [] pc \in {"ack_resume", "ack_resume_again"} ->
         IF cmd = "Q" THEN Return("done") ELSE GoTo("confirm")
    [] pc \in {"drop", "drop_again"}     -> Return(fate)
    [] pc = "confirm"    -> IF m.state = 3 THEN Return("done") ELSE GoTo("confirm")
    [] pc = "ready"      -> Return(IF m.run1 /\ m.state = 3 THEN "done" ELSE fate)

\* Mutant: only a pause that failed is undone.
OnErrorHasty(expired) ==
  CASE pc = "pause"                 -> GoTo("undo")
    [] pc \in {"ack_pause", "ack"}  -> GoTo("drop")
    [] pc \in DOMAIN Again          -> IF expired THEN GoTo(Again[pc]) ELSE Return(fate)
    [] OTHER                        -> Return(fate)

\* Mutant: a data write that was not confirmed is taken for done.
OnErrorCareless(expired) ==
  CASE pc \in {"pause", "header"}   -> GoTo("undo")
    [] pc = "data"                  -> GoTo("header")
    [] pc \in {"ack_pause", "ack"}  -> GoTo("drop")
    [] pc \in DOMAIN Again          -> IF expired THEN GoTo(Again[pc]) ELSE Return(fate)
    [] OTHER                        -> Return(fate)

\* Whatever fails once the machine may be paused resumes it before it raises.
OnError(expired) ==
  CASE pc \in {"pause", "data", "header"} -> GoTo("undo")
    [] pc \in {"ack_pause", "ack"}        -> GoTo("drop")
    [] pc \in DOMAIN Again                -> IF expired THEN GoTo(Again[pc]) ELSE Return(fate)
    [] OTHER                              -> Return(fate)

\* RPC.call, up to sendall
Send ==
  /\ pc \in DOMAIN CallAt /\ ~waiting /\ reply = NoReply
  /\ Len(queue) < MaxQueue
  /\ queue' = Append(queue, [call |-> CallAt[pc], job |-> job, cmd |-> cmd])
  /\ waiting' = TRUE
  /\ resumed' = CASE CallAt[pc] = "continue" -> "sent"
                  [] CallAt[pc] = "pause"    -> "owed"
                  [] OTHER                   -> resumed
  /\ UNCHANGED <<mode, mail, worker, ran, pc, reply, job, cmd, fate, results>>

\* RPC.call, the reply: a rejection is an error like any other.
Receive ==
  /\ reply # NoReply
  /\ IF reply.ok THEN OnReply(reply.mail) ELSE OnError(FALSE)
  /\ results' = IF pc = "payload" THEN [results EXCEPT ![job] = reply.mail.data.job]
                ELSE results
  /\ waiting' = FALSE /\ reply' = NoReply
  /\ UNCHANGED <<mode, mail, worker, queue, ran, job, cmd, resumed>>

\* Mutant: the channel of a failed call is kept.
FailKeepsChannel(expired) ==
  /\ pc \in DOMAIN CallAt
  /\ OnError(expired)
  /\ reply' = NoReply
  /\ UNCHANGED <<mode, mail, worker, queue, ran, waiting, job, cmd, results, resumed>>

\* RPC.call, any exception: the connection is closed, nothing is replayed, and
\* what was sent stays sent.  `expired` when the caller's deadline has passed.
Fail(expired) ==
  /\ pc \in DOMAIN CallAt
  /\ OnError(expired)
  /\ waiting' = FALSE /\ reply' = NoReply
  /\ resumed' = IF CallAt[pc] = "continue" /\ resumed = "owed" THEN "tried" ELSE resumed
  /\ UNCHANGED <<mode, mail, worker, queue, ran, job, cmd, results>>

\* The controller.
Start(entry, verdict) ==
  /\ pc = "caller"
  /\ pc' = entry /\ fate' = verdict
  /\ UNCHANGED <<mode, mail, worker, queue, ran, waiting, reply, job, cmd, results, resumed>>

Request == fate = "new" /\ Start("check", "open")
Collect == fate \in {"open", "known"} /\ Start("poll", fate)
Ready == fate = "known" /\ Start("ready", fate)

NextJob ==
  /\ pc = "caller" /\ fate \in {"new", "done"}
  /\ job < MaxJobs
  /\ job' = job + 1
  /\ cmd' \in Commands \cup {"Q"}
  /\ fate' = "new"
  /\ UNCHANGED <<mode, mail, worker, queue, ran, pc, waiting, reply, results, resumed>>

Client == \/ Send \/ Receive \/ \E expired \in BOOLEAN : Fail(expired)
          \/ Request \/ Collect \/ Ready \/ NextJob

-----------------------------------------------------------------------------
Next == Worker \/ Serve \/ Client

Spec == Init /\ [][Next]_vars

-----------------------------------------------------------------------------
(* Properties *)

TypeOK ==
  /\ mode \in {"free", "running", "paused"}
  /\ mail.state \in 0..3 /\ mail.job \in 0..MaxJobs
  /\ worker \in {"absent", "poll", "busy", "done", "wait_ack"}
  /\ Len(queue) <= MaxQueue
  /\ pc \in DOMAIN CallAt \cup {"caller"}
  /\ waiting => queue # <<>> \/ reply # NoReply
  /\ fate \in {"new", "open", "known", "done"}
  /\ ran \in [Jobs -> Nat]
  /\ results \in [Jobs -> 0..MaxJobs]

\* When the client's verdict is that a job was not published -- "absent or
\* busy", or "no pending reply" after any number of failed calls
\* (dos_control.py:252, :304) -- nothing of it is in the mailbox, with the
\* worker, or among the calls the emulator has yet to serve.
RerunIsSafe ==
  fate = "new" =>
    /\ ran[job] = 0
    /\ mail.job # job
    /\ \A i \in DOMAIN queue : queue[i].call = "header" => queue[i].job # job

\* The worker never starts on a request whose data is another one's or half
\* there, and the client never reads an answer a late write has overwritten
\* (dos_control.py:256): publication is the last write of a paused machine.
MessagesWhole ==
  /\ TypeOK
  /\ worker = "poll" /\ mail.state = 1
       => mail.data = [job |-> mail.job, kind |-> "request"]
  /\ mail.state = 2 => mail.data = [job |-> mail.job, kind |-> "answer"]

\* The machine is not left paused (dos_control.py:216): whichever call failed,
\* and however late it took effect, the client tries to resume the machine
\* before it returns; if that could be sent at all, the machine runs once the
\* emulator has served what is queued.
NotLeftPaused ==
  pc = "caller" =>
    /\ resumed # "owed"
    /\ queue = <<>> /\ resumed = "sent" => mode # "paused"

\* Refinement: an answer taken for another job's is none of JobService's.
taken == {IF results[j] = j THEN j ELSE 0 : j \in {k \in Jobs : results[k] # 0}}

Service == INSTANCE JobService WITH runs <- ran, results <- taken

\* Lost replies, timeouts, collections by command and acknowledgements that
\* took effect unnoticed: no job runs twice, no result is another job's.
ImplementsJobs == Service!Spec
=============================================================================
