---------------------------- MODULE MailboxProofs ----------------------------
(* Proofs about Mailbox.tla, for any commands, number of jobs and bound of the *)
(* emulator's queue.                                                          *)
EXTENDS Mailbox, TLAPS, SequenceTheorems

Kinds == {"read", "pause", "continue", "data", "header", "ack"}
Requests == [call : Kinds, job : 0..MaxJobs, cmd : Commands \cup {"Q", "none"}]

Types ==
  /\ mode \in {"free", "running", "paused"}
  /\ DOMAIN mail = {"run1", "state", "cmd", "job", "data"}
  /\ mail.state \in 0..3 /\ mail.job \in 0..MaxJobs
  /\ worker \in {"absent", "poll", "busy", "done", "wait_ack"}
  /\ queue \in Seq(Requests) /\ Len(queue) <= MaxQueue
  /\ pc \in DOMAIN CallAt \cup {"caller"}
  /\ job \in 0..MaxJobs /\ cmd \in Commands \cup {"Q", "none"}
  /\ fate \in {"new", "open", "known", "done"}
  /\ ran \in [Jobs -> Nat]
  /\ results \in [Jobs -> 0..MaxJobs]
  /\ resumed \in {"sent", "tried", "owed"}

-----------------------------------------------------------------------------
(* The invariants. *)

Call(i) == queue[i].call
Data(kind, j) == [job |-> j, kind |-> kind]

\* Places of the client, by what the controller knows: the job was submitted,
\* it is being collected, or its answer is in hand.
Asked == {"check", "pause", "data", "header", "resume", "resume_again", "undo",
          "undo_again"}
Collecting == {"poll", "payload"}
Answered == {"ack_pause", "ack", "ack_resume", "ack_resume_again", "drop",
             "drop_again", "confirm", "ready"}

\* Places reached by replies only, so that no earlier call is under way, and
\* those where the machine may be paused for the client.
Fresh == {"check", "pause", "data", "header", "resume", "payload", "ack_pause", "ack",
          "ack_resume", "confirm"}
Pausing == {"pause", "data", "header", "resume", "resume_again", "undo", "undo_again",
            "ack_pause", "ack", "ack_resume", "ack_resume_again", "drop", "drop_again"}

\* Calls that write, and those that give the mailbox a new state.
Writes == {"data", "header", "ack"}

\* The worker and the header agree.
WorkerInv ==
  /\ worker = "absent" => mail.state = 0
  /\ worker = "poll" => mail.state \in {1, 3}
  /\ worker \in {"busy", "done"} => mail.state = 1
  /\ worker = "wait_ack" => mail.state \in {0, 2}
  /\ worker = "poll" /\ mail.state = 1 => /\ mail.data = Data("request", mail.job)
                                          /\ ran[mail.job] = 0
  /\ worker \in {"busy", "done"} \/ mail.state = 2 => ran[mail.job] = 1
  /\ worker = "done" \/ mail.state = 2 => mail.data = Data("answer", mail.job)

\* A job not published yet has neither run nor given a result.
Counts ==
  /\ \A j \in Jobs : results[j] \in {0, j}
  /\ \A j \in Jobs : j > job \/ (j = job /\ mail.job # job) => ran[j] = 0 /\ results[j] = 0

\* What the controller knows is what became of the job.
Published ==
  /\ mail.job <= job
  /\ mail.state \in {1, 2} => mail.job = job /\ job # 0 /\ fate \in {"open", "known"}
  /\ mail.job = job /\ mail.state \in {0, 3} => fate \in {"known", "done"}
  /\ fate = "known" => mail.job = job /\ mail.state # 1 /\ job # 0 /\ ran[job] = 1
  /\ fate # "done" => job \in Jobs

\* Where the client is tells the state of the job and of the mailbox.
Where ==
  /\ pc \in Asked => fate = "open"
  /\ pc \in Collecting => fate \in {"open", "known"}
  /\ pc \in Answered => fate = "known"
  /\ pc \in {"check", "pause", "data"} => mail.job # job
  /\ pc \in {"pause", "data"} => mail.state = 3
  /\ pc = "header" /\ ~waiting => /\ mail.state = 3 /\ mail.job # job
                                  /\ mail.data = Data("request", job)
  /\ pc \in {"payload", "ack_pause"} => mail.state = 2
  /\ pc = "ack" /\ ~waiting => mail.state = 2
  /\ pc \in {"ack_resume", "ack_resume_again", "confirm"} => mail.state \in {0, 3}

\* The calls not served yet are all of one job, its last call is the one the
\* client waits for, and one of them at most writes.
QueueInv ==
  /\ pc = "caller" => ~waiting /\ reply = NoReply
  /\ pc = "caller" /\ fate \in {"new", "done"} => queue = <<>>
  /\ reply # NoReply => waiting /\ queue = <<>>
  /\ waiting /\ reply = NoReply => Len(queue) > 0 /\ Call(Len(queue)) = CallAt[pc]
  /\ pc \in Fresh /\ waiting /\ reply = NoReply => Len(queue) = 1
  /\ pc \in Fresh /\ ~waiting => queue = <<>>
  /\ \A i \in DOMAIN queue : queue[i].job = job
  /\ \A i, j \in DOMAIN queue : Call(i) \in Writes /\ Call(j) \in Writes => i = j

\* A write not served yet will find what it was sent for, however late it is.
WritesInv ==
  \A i \in DOMAIN queue :
    /\ Call(i) \in {"data", "header"} => mail.job # job /\ mail.state = 3 /\ fate = "open"
    /\ Call(i) = "header" => mail.data = Data("request", job)
    /\ Call(i) = "ack" => mail.state = 2 /\ fate = "known"

\* What the reply says still holds when the client takes it.
ReplyInv ==
  reply # NoReply =>
    /\ CallAt[pc] = "read" => /\ reply.mail.state = 3 => mail.state = 3
                              /\ reply.mail.state = 2 => mail.state = 2
    /\ pc = "payload" => reply.ok /\ reply.mail.data = mail.data
    /\ pc = "data" /\ reply.ok => mail.data = Data("request", job)
    /\ pc = "ack" /\ reply.ok => mail.state \in {0, 3}

\* Every pause, served or not, has a continue behind it once one was sent.
PauseInv ==
  /\ resumed = "owed" => pc \in Pausing
  /\ waiting /\ CallAt[pc] = "continue" => resumed = "sent"
  /\ resumed = "sent" =>
       /\ mode = "paused" => \E j \in DOMAIN queue : Call(j) = "continue"
       /\ \A i \in DOMAIN queue : Call(i) = "pause" =>
            \E j \in DOMAIN queue : j > i /\ Call(j) = "continue"

MailboxInv == /\ Types /\ WorkerInv /\ Counts /\ Published /\ Where
              /\ QueueInv /\ WritesInv /\ ReplyInv /\ PauseInv

-----------------------------------------------------------------------------
(* The constants' forms, and sequences of calls. *)

LEMMA Places ==
  /\ DOMAIN CallAt = {"check", "pause", "data", "header", "resume", "resume_again",
                      "undo", "undo_again", "poll", "payload", "ack_pause", "ack",
                      "ack_resume", "ack_resume_again", "drop", "drop_again", "confirm",
                      "ready"}
  /\ DOMAIN Again = {"resume", "undo", "ack_resume", "drop"}
  /\ \A p \in DOMAIN CallAt : CallAt[p] \in Kinds
BY DEF CallAt, Again, Kinds

LEMMA CallsAt ==
  /\ \A p \in {"check", "poll", "payload", "confirm", "ready"} : CallAt[p] = "read"
  /\ \A p \in {"pause", "ack_pause"} : CallAt[p] = "pause"
  /\ \A p \in {"resume", "resume_again", "undo", "undo_again", "ack_resume",
               "ack_resume_again", "drop", "drop_again"} : CallAt[p] = "continue"
  /\ \A p \in {"data", "header", "ack"} : CallAt[p] = p
BY DEF CallAt

LEMMA Agains == /\ Again["resume"] = "resume_again" /\ Again["undo"] = "undo_again"
                /\ Again["ack_resume"] = "ack_resume_again" /\ Again["drop"] = "drop_again"
BY DEF Again

\* What one call fewer, or one more, leaves of the queue.
LEMMA Dequeued ==
  ASSUME queue \in Seq(Requests), queue # <<>>, queue' = Tail(queue)
  PROVE  /\ Len(queue) \in Nat \ {0} /\ DOMAIN queue = 1..Len(queue)
         /\ Head(queue) = queue[1] /\ queue[1] \in Requests
         /\ queue' \in Seq(Requests) /\ Len(queue') = Len(queue) - 1
         /\ DOMAIN queue' = 1..(Len(queue) - 1)
         /\ \A i \in 1..(Len(queue) - 1) : queue'[i] = queue[i + 1]
         /\ Len(queue) = 1 => queue' = <<>>
<1>1. Len(queue) \in Nat \ {0} /\ DOMAIN queue = 1..Len(queue)
  BY EmptySeq, LenProperties
<1>2. Head(queue) = queue[1] /\ queue[1] \in Requests
  BY <1>1, ElementOfSeq
<1>3. /\ queue' \in Seq(Requests) /\ Len(queue') = Len(queue) - 1
      /\ \A i \in 1..Len(queue') : queue'[i] = queue[i + 1]
  BY HeadTailProperties
<1>4. DOMAIN queue' = 1..(Len(queue) - 1)
  BY <1>3, LenProperties
<1>5. Len(queue) = 1 => queue' = <<>>
  BY <1>3, EmptySeq
<1> QED
  BY <1>1, <1>2, <1>3, <1>4, <1>5

LEMMA Enqueued ==
  ASSUME queue \in Seq(Requests), NEW c \in Requests, queue' = Append(queue, c)
  PROVE  /\ Len(queue) \in Nat /\ DOMAIN queue = 1..Len(queue)
         /\ queue' \in Seq(Requests) /\ Len(queue') = Len(queue) + 1
         /\ DOMAIN queue' = 1..(Len(queue) + 1)
         /\ \A i \in 1..Len(queue) : queue'[i] = queue[i]
         /\ queue'[Len(queue) + 1] = c
         /\ queue' # <<>>
<1>1. Len(queue) \in Nat /\ DOMAIN queue = 1..Len(queue)
  BY LenProperties
<1>2. /\ queue' \in Seq(Requests) /\ queue' # <<>> /\ Len(queue') = Len(queue) + 1
      /\ \A i \in 1..Len(queue) : queue'[i] = queue[i]
      /\ queue'[Len(queue) + 1] = c
  BY AppendProperties
<1>3. DOMAIN queue' = 1..(Len(queue) + 1)
  BY <1>2, LenProperties
<1> QED
  BY <1>1, <1>2, <1>3

-----------------------------------------------------------------------------
(* The worker's steps. *)

\* What the worker leaves alone: everything but its own place and the mailbox
\* of a published or acknowledged job.
LEMMA WorkerLeaves ==
  ASSUME MailboxInv, Worker
  PROVE  /\ UNCHANGED <<mode, queue, pc, waiting, reply, job, cmd, fate, results, resumed>>
         /\ mail'.job = mail.job
         /\ mail.state \in {2, 3} => mail'.state = mail.state /\ mail'.data = mail.data
         /\ mail.state \in {0, 3} => mail'.state \in {0, 3}
         /\ mail.state = 1 => mail'.state \in {1, 2}
         /\ ran' = ran \/ (mail.state = 1 /\ ran' = [ran EXCEPT ![mail.job] = @ + 1])
<1> USE DEF MailboxInv, Types, WorkerInv, WorkerStep, hostVars
<1>1. CASE WorkerStart
  BY <1>1 DEF WorkerStart
<1>2. CASE WorkerDispatch
  BY <1>2 DEF WorkerDispatch
<1>3. CASE WorkerFinish
  BY <1>3 DEF WorkerFinish
<1>4. CASE WorkerReply
  BY <1>4 DEF WorkerReply
<1>5. CASE WorkerAcknowledged
  BY <1>5 DEF WorkerAcknowledged
<1> QED
  BY <1>1, <1>2, <1>3, <1>4, <1>5 DEF Worker

LEMMA WorkerTypes ==
  ASSUME MailboxInv, Worker
  PROVE  Types' /\ WorkerInv'
<1> USE DEF WorkerStep, hostVars
<1>1. mail.state = 1 => mail.job \in Jobs
  BY DEF MailboxInv, Types, Published, Jobs
<1>2. ran \in [Jobs -> Nat]
  BY DEF MailboxInv, Types
<1>3. CASE WorkerStart
  BY <1>3 DEF WorkerStart, MailboxInv, Types, WorkerInv
<1>4. CASE WorkerDispatch
  <2>1. ran' \in [Jobs -> Nat] /\ ran'[mail.job] = 1
    BY <1>1, <1>2, <1>4 DEF WorkerDispatch, MailboxInv, WorkerInv
  <2> QED
    BY <1>4, <2>1 DEF WorkerDispatch, MailboxInv, Types, WorkerInv
<1>5. CASE WorkerFinish
  BY <1>5 DEF WorkerFinish, MailboxInv, Types, WorkerInv, Data
<1>6. CASE WorkerReply
  BY <1>6 DEF WorkerReply, MailboxInv, Types, WorkerInv
<1>7. CASE WorkerAcknowledged
  BY <1>7 DEF WorkerAcknowledged, MailboxInv, Types, WorkerInv
<1> QED
  BY <1>3, <1>4, <1>5, <1>6, <1>7 DEF Worker

LEMMA WorkerKeeps ==
  ASSUME MailboxInv, Worker
  PROVE  MailboxInv'
<1> USE WorkerLeaves
<1>1. Types' /\ WorkerInv'
  BY WorkerTypes
<1>2. Counts' /\ Published'
  <2>1. \A j \in Jobs : ran'[j] = ran[j] \/ (j = mail.job /\ mail.job = job /\ mail.state = 1)
    BY DEF MailboxInv, Types, Published
  <2>2. fate = "known" => ran'[job] = 1
    BY <2>1 DEF MailboxInv, Types, Published, Jobs
  <2>3. \A j \in Jobs : j > job \/ (j = job /\ mail.job # job) => ran'[j] = ran[j]
    BY <2>1 DEF MailboxInv, Types, Jobs
  <2>4. Counts'
    BY <2>3 DEF MailboxInv, Counts
  <2> QED
    BY <2>2, <2>4 DEF MailboxInv, Types, Published
<1>3. Where'
  BY DEF MailboxInv, Types, Where
<1>4. QueueInv'
  BY DEF MailboxInv, QueueInv, Call
<1>5. WritesInv'
  BY DEF MailboxInv, WritesInv, Call
<1>6. ReplyInv'
  <2>1. pc = "payload" => mail.state = 2
    BY DEF MailboxInv, Where
  <2>2. pc = "data" => mail.state = 3
    BY DEF MailboxInv, Where
  <2> QED
    BY <2>1, <2>2 DEF MailboxInv, Types, ReplyInv
<1>7. PauseInv'
  BY DEF MailboxInv, PauseInv, Call
<1> QED
  BY <1>1, <1>2, <1>3, <1>4, <1>5, <1>6, <1>7 DEF MailboxInv

-----------------------------------------------------------------------------
(* The emulator's steps. *)

LEMMA ServedCalls ==
  ASSUME MailboxInv, Serve
  PROVE  /\ queue # <<>> /\ queue' = Tail(queue) /\ reply = NoReply
         /\ UNCHANGED <<worker, ran, pc, waiting, job, cmd, fate, results, resumed>>
         /\ queue \in Seq(Requests) /\ Head(queue) = queue[1]
<1>1. /\ queue # <<>> /\ queue' = Tail(queue)
      /\ UNCHANGED <<worker, ran, pc, waiting, job, cmd, fate, results, resumed>>
  BY DEF Serve, ServeRead, ServePause, ServeContinue, ServeWrite, Calls, Answer
<1>2. queue \in Seq(Requests)
  BY DEF MailboxInv, Types
<1>3. reply = NoReply
  BY <1>1 DEF MailboxInv, QueueInv
<1> QED
  BY <1>1, <1>2, <1>3, Dequeued

\* Only a write to a paused machine changes the mailbox.
LEMMA ServedMail ==
  ASSUME MailboxInv, Serve
  PROVE  \/ mail' = mail
         \/ /\ Call(1) = "data" /\ mode = "paused"
            /\ mail' = [mail EXCEPT !.data = Data("request", job)]
         \/ /\ Call(1) = "header" /\ mode = "paused"
            /\ mail' = [mail EXCEPT !.state = 1, !.cmd = queue[1].cmd, !.job = job]
         \/ Call(1) = "ack" /\ mode = "paused" /\ mail' = [mail EXCEPT !.state = 0]
<1>1. queue[1].job = job
  BY ServedCalls, Dequeued DEF MailboxInv, QueueInv
<1>2. CASE ServeRead \/ ServePause \/ ServeContinue
  BY <1>2 DEF ServeRead, ServePause, ServeContinue
<1>3. CASE ServeWrite
  BY <1>1, <1>3, ServedCalls DEF ServeWrite, Calls, Written, Call, Data
<1> QED
  BY <1>2, <1>3 DEF Serve

LEMMA ServedState ==
  ASSUME MailboxInv, Serve
  PROVE  \/ mail' = mail
         \/ Call(1) = "data" /\ mail'.state = mail.state /\ mail'.job = mail.job
         \/ Call(1) = "header" /\ mail'.state = 1 /\ mail'.job = job
         \/ Call(1) = "ack" /\ mail'.state = 0 /\ mail'.job = mail.job
BY ServedMail DEF MailboxInv, Types

LEMMA ServedMode ==
  ASSUME MailboxInv, Serve
  PROVE  /\ mode' \in {"free", "running", "paused"}
         /\ mode' = "paused" => Call(1) = "pause" \/ (mode = "paused" /\ Call(1) # "continue")
BY ServedCalls DEF Serve, ServeRead, ServePause, ServeContinue, ServeWrite, Calls, Call,
                   MailboxInv, Types

\* A reply tells the mailbox as it is.
LEMMA ServedReply ==
  ASSUME MailboxInv, Serve, reply' # NoReply
  PROVE  /\ waiting /\ Len(queue) = 1
         /\ reply'.mail = mail
         /\ Call(1) = "read" => reply'.ok
         /\ reply'.ok /\ Call(1) = "data" =>
              mail' = [mail EXCEPT !.data = Data("request", job)]
         /\ reply'.ok /\ Call(1) = "ack" => mail' = [mail EXCEPT !.state = 0]
<1>1. queue[1].job = job
  BY ServedCalls, Dequeued DEF MailboxInv, QueueInv
<1>2. ASSUME NEW ok, Answer(ok)
      PROVE  waiting /\ Len(queue) = 1 /\ reply' = [kind |-> "reply", ok |-> ok, mail |-> mail]
  BY <1>2, ServedCalls DEF Answer
<1>3. CASE ServeRead
  <2>1. reply' = [kind |-> "reply", ok |-> TRUE, mail |-> mail] /\ waiting /\ Len(queue) = 1
    BY <1>2, <1>3 DEF ServeRead
  <2>2. Call(1) = "read"
    BY <1>3, ServedCalls DEF ServeRead, Calls, Call
  <2> QED
    BY <2>1, <2>2
<1>4. CASE ServePause \/ ServeContinue
  <2>1. \E ok : reply' = [kind |-> "reply", ok |-> ok, mail |-> mail]
                /\ waiting /\ Len(queue) = 1
    BY <1>2, <1>4 DEF ServePause, ServeContinue
  <2>2. Call(1) \in {"pause", "continue"}
    BY <1>4, ServedCalls DEF ServePause, ServeContinue, Calls, Call
  <2> QED
    BY <2>1, <2>2
<1>5. CASE ServeWrite
  <2>1. /\ reply' = [kind |-> "reply", ok |-> (mode = "paused"), mail |-> mail]
        /\ waiting /\ Len(queue) = 1
    BY <1>2, <1>5 DEF ServeWrite
  <2>2. reply'.mail = mail
    BY <2>1
  <2>3. reply'.ok <=> mode = "paused"
    BY <2>1
  <2>4. Call(1) \in {"data", "header", "ack"} /\ Head(queue) = queue[1]
    BY <1>5, ServedCalls DEF ServeWrite, Calls, Call
  <2>5. mode = "paused" => mail' = Written(queue[1])
    BY <1>5, <2>4 DEF ServeWrite
  <2> QED
    BY <1>1, <2>1, <2>2, <2>3, <2>4, <2>5 DEF Written, Call, Data
<1> QED
  BY <1>3, <1>4, <1>5 DEF Serve

\* A client that got where it is by replies has one call under way at most.
LEMMA FreshCall ==
  ASSUME MailboxInv, queue # <<>>, reply = NoReply, pc \in Fresh
  PROVE  waiting /\ Len(queue) = 1 /\ Call(1) = CallAt[pc]
BY DEF MailboxInv, QueueInv

\* A write finds the mailbox it was sent for.
LEMMA WriteFinds ==
  ASSUME MailboxInv, Serve
  PROVE  /\ Call(1) \in {"data", "header"} => /\ mail.job # job /\ mail.state = 3
                                              /\ fate = "open" /\ worker = "poll"
         /\ Call(1) = "header" => mail.data = Data("request", job)
         /\ Call(1) = "ack" => /\ mail.state = 2 /\ fate = "known" /\ worker = "wait_ack"
                               /\ mail.job = job
<1>1. 1 \in DOMAIN queue
  BY ServedCalls, Dequeued
<1>2. /\ Call(1) \in {"data", "header"} => mail.job # job /\ mail.state = 3 /\ fate = "open"
      /\ Call(1) = "header" => mail.data = Data("request", job)
      /\ Call(1) = "ack" => mail.state = 2 /\ fate = "known"
  BY <1>1 DEF MailboxInv, WritesInv
<1>3. /\ mail.state = 3 => worker = "poll"
      /\ mail.state = 2 => worker = "wait_ack" /\ mail.job = job
  BY DEF MailboxInv, Types, WorkerInv, Published
<1> QED
  BY <1>2, <1>3

LEMMA ServeTypes ==
  ASSUME MailboxInv, Serve
  PROVE  Types' /\ WorkerInv'
<1>1. /\ queue' \in Seq(Requests) /\ Len(queue') <= MaxQueue
  <2>1. Len(queue) <= MaxQueue /\ Len(queue) \in Nat /\ Len(queue') = Len(queue) - 1
    BY ServedCalls, Dequeued DEF MailboxInv, Types
  <2> QED
    BY <2>1, ServedCalls, Dequeued, MailboxAssumption
<1>2. /\ DOMAIN mail' = {"run1", "state", "cmd", "job", "data"}
      /\ mail'.state \in 0..3 /\ mail'.job \in 0..MaxJobs
  <2>1. /\ DOMAIN mail' = DOMAIN mail
        /\ mail'.state \in {mail.state, 0, 1} /\ mail'.job \in {mail.job, job}
    BY ServedMail, ServedState
  <2>2. /\ DOMAIN mail = {"run1", "state", "cmd", "job", "data"} /\ mail.state \in 0..3
        /\ mail.job \in 0..MaxJobs /\ job \in 0..MaxJobs
    BY DEF MailboxInv, Types
  <2> QED
    BY <2>1, <2>2
<1>3. Types'
  BY <1>1, <1>2, ServedCalls, ServedMode DEF MailboxInv, Types
<1>4. Call(1) = "header" => ran[job] = 0
  BY WriteFinds DEF MailboxInv, Counts, Published
<1>5. WorkerInv'
  <2>1. CASE mail' = mail
    BY <2>1, ServedCalls DEF MailboxInv, WorkerInv
  <2>2. CASE Call(1) = "data" /\ mail' = [mail EXCEPT !.data = Data("request", job)]
    BY <2>2, ServedCalls, WriteFinds DEF MailboxInv, Types, WorkerInv
  <2>3. CASE /\ Call(1) = "header"
             /\ mail' = [mail EXCEPT !.state = 1, !.cmd = queue[1].cmd, !.job = job]
    BY <1>4, <2>3, ServedCalls, WriteFinds DEF MailboxInv, Types, WorkerInv
  <2>4. CASE Call(1) = "ack" /\ mail' = [mail EXCEPT !.state = 0]
    BY <2>4, ServedCalls, WriteFinds DEF MailboxInv, Types, WorkerInv
  <2> QED
    BY <2>1, <2>2, <2>3, <2>4, ServedMail
<1> QED
  BY <1>3, <1>5

LEMMA ServeWhere ==
  ASSUME MailboxInv, Serve
  PROVE  Counts' /\ Published' /\ Where'
<1>1. \/ mail' = mail
      \/ Call(1) = "data" /\ mail'.state = mail.state /\ mail'.job = mail.job
      \/ Call(1) = "header" /\ mail'.state = 1 /\ mail'.job = job
      \/ Call(1) = "ack" /\ mail'.state = 0 /\ mail'.job = mail.job
  BY ServedState
<1>2. job \in 0..MaxJobs
  BY DEF MailboxInv, Types
<1>3. Counts'
  BY <1>1, ServedCalls DEF MailboxInv, Counts
<1>4. Published'
  BY <1>1, <1>2, ServedCalls, WriteFinds DEF MailboxInv, Published, Jobs
<1>5. pc \in {"check", "pause", "payload", "ack_pause", "ack_resume", "confirm"} => mail' = mail
  <2>1. pc \in {"check", "pause", "payload", "ack_pause", "ack_resume", "confirm"}
          => Call(1) \in {"read", "pause", "continue"}
    BY ServedCalls, FreshCall, CallsAt DEF Fresh
  <2> QED
    BY <2>1, ServedMail
<1>6. pc = "data" => mail'.state = mail.state /\ mail'.job = mail.job
  BY <1>1, ServedCalls, FreshCall, CallsAt DEF Fresh
<1>7. pc \in {"header", "ack"} => waiting
  BY ServedCalls, FreshCall DEF Fresh
<1>8. pc = "ack_resume_again" => mail'.state = mail.state
  BY <1>1, WriteFinds DEF MailboxInv, Where, Answered
<1>9. Where'
  BY <1>5, <1>6, <1>7, <1>8, ServedCalls DEF MailboxInv, Where
<1> QED
  BY <1>3, <1>4, <1>9

LEMMA ServeQueue ==
  ASSUME MailboxInv, Serve
  PROVE  QueueInv' /\ WritesInv'
<1> USE ServedCalls, Dequeued
<1>1. \A i \in DOMAIN queue' : /\ i + 1 \in DOMAIN queue /\ i + 1 # 1
                               /\ queue'[i] = queue[i + 1] /\ Call(i)' = Call(i + 1)
  BY DEF Call
<1>2. \A i, j \in DOMAIN queue' : i + 1 = j + 1 => i = j
  OBVIOUS
<1>3. /\ \A i \in DOMAIN queue' : queue'[i].job = job'
      /\ \A i, j \in DOMAIN queue' : Call(i)' \in Writes /\ Call(j)' \in Writes => i = j
  BY <1>1, <1>2 DEF MailboxInv, QueueInv
<1>4. reply' # NoReply => queue' = <<>> /\ waiting
  BY ServedReply
<1>5. waiting /\ reply' = NoReply => Len(queue) # 1
  <2>1. ASSUME waiting, Len(queue) = 1 PROVE reply' # NoReply
    <3>1. ASSUME NEW ok, Answer(ok) PROVE reply' # NoReply
      <4>1. reply' = [kind |-> "reply", ok |-> ok, mail |-> mail]
        BY <2>1, <3>1 DEF Answer
      <4>2. reply'.kind = "reply" /\ NoReply.kind = "none"
        BY <4>1 DEF NoReply
      <4> QED
        BY <4>2
    <3> QED
      BY <3>1 DEF Serve, ServeRead, ServePause, ServeContinue, ServeWrite
  <2> QED
    BY <2>1
<1>6. waiting /\ reply' = NoReply => /\ Len(queue') > 0
                                     /\ queue'[Len(queue')].call = CallAt[pc]
  <2>1. waiting => Call(Len(queue)) = CallAt[pc]
    BY DEF MailboxInv, QueueInv
  <2>2. ASSUME Len(queue) # 1
        PROVE  Len(queue') > 0 /\ queue'[Len(queue')].call = Call(Len(queue))
    <3> DEFINE n == Len(queue)
    <3>1. n \in Nat \ {0} /\ DOMAIN queue' = 1..(n - 1) /\ Len(queue') = n - 1
      OBVIOUS
    <3>2. n - 1 \in 1..(n - 1) /\ n - 1 > 0
      <4> HIDE DEF n
      <4> QED
        BY ONLY <2>2, <3>1 DEF n
    <3>3. queue'[n - 1] = queue[(n - 1) + 1] /\ (n - 1) + 1 = n
      BY <3>1, <3>2
    <3> QED
      BY <3>1, <3>2, <3>3 DEF Call
  <2> QED
    BY <1>5, <2>1, <2>2
<1>7. pc \in Fresh => reply' # NoReply
  BY <1>5, FreshCall
<1>8. pc = "caller" => ~waiting /\ reply' = NoReply
  BY <1>4 DEF MailboxInv, QueueInv
<1>9. QueueInv'
  <2>1. pc = "caller" /\ fate \in {"new", "done"} => queue' = <<>>
    BY DEF MailboxInv, QueueInv
  <2>2. pc \in Fresh => waiting /\ reply' # NoReply
    BY <1>7, FreshCall
  <2> QED
    BY <1>3, <1>4, <1>6, <1>8, <2>1, <2>2 DEF QueueInv, NoReply, Call
<1>10. Call(1) \in Writes => \A i \in DOMAIN queue' : Call(i)' \notin Writes
  BY <1>1 DEF MailboxInv, QueueInv
<1>11. Call(1) \notin Writes => mail' = mail
  BY ServedMail DEF Writes
<1>12. WritesInv'
  <2>1. CASE Call(1) \in Writes
    BY <1>10, <2>1 DEF WritesInv, Writes
  <2>2. CASE mail' = mail
    BY <1>1, <2>2 DEF MailboxInv, WritesInv
  <2> QED
    BY <1>11, <2>1, <2>2
<1> QED
  BY <1>9, <1>12

LEMMA ServeReplies ==
  ASSUME MailboxInv, Serve
  PROVE  ReplyInv' /\ PauseInv'
<1>1. ReplyInv'
  <2> SUFFICES ASSUME reply' # NoReply PROVE ReplyInv'
    BY DEF ReplyInv
  <2>1. waiting /\ Len(queue) = 1 /\ Call(1) = CallAt[pc] /\ pc' = pc
    BY ServedCalls, ServedReply DEF MailboxInv, QueueInv
  <2>2. CallAt[pc] = "read" => mail' = mail /\ reply'.ok
    BY <2>1, ServedMail, ServedReply
  <2>3. pc = "payload" => CallAt[pc] = "read"
    BY CallsAt
  <2>4. pc = "data" /\ reply'.ok => mail'.data = Data("request", job')
    <3>1. DOMAIN mail = {"run1", "state", "cmd", "job", "data"} /\ job' = job
      BY ServedCalls DEF MailboxInv, Types
    <3>2. pc = "data" /\ reply'.ok => mail' = [mail EXCEPT !.data = Data("request", job)]
      BY <2>1, CallsAt, ServedReply
    <3> QED
      BY <3>1, <3>2 DEF Data
  <2>5. pc = "ack" /\ reply'.ok => mail'.state \in {0, 3}
    BY <2>1, CallsAt, ServedReply DEF MailboxInv, Types
  <2> QED
    BY <2>1, <2>2, <2>3, <2>4, <2>5, ServedReply DEF ReplyInv
<1>2. PauseInv'
  <2> USE ServedCalls, Dequeued
  <2>1. \A j \in DOMAIN queue : j > 1 =>
            j - 1 \in DOMAIN queue' /\ Call(j - 1)' = Call(j)
    BY DEF Call
  <2>2. \A i \in DOMAIN queue' : i + 1 \in DOMAIN queue /\ Call(i)' = Call(i + 1)
    BY DEF Call
  <2>3. ASSUME resumed = "sent", mode' = "paused"
        PROVE  \E j \in DOMAIN queue' : Call(j)' = "continue"
    <3>1. PICK j \in DOMAIN queue : j > 1 /\ Call(j) = "continue"
      <4>1. CASE Call(1) = "pause"
        BY <2>3, <4>1 DEF MailboxInv, PauseInv
      <4>2. CASE mode = "paused" /\ Call(1) # "continue"
        <5>1. PICK j \in DOMAIN queue : Call(j) = "continue"
          BY <2>3, <4>2 DEF MailboxInv, PauseInv
        <5> QED
          BY <4>2, <5>1
      <4> QED
        BY <2>3, <4>1, <4>2, ServedMode
    <3> QED
      BY <2>1, <3>1
  <2>4. ASSUME resumed = "sent", NEW i \in DOMAIN queue', Call(i)' = "pause"
        PROVE  \E j \in DOMAIN queue' : j > i /\ Call(j)' = "continue"
    <3>1. PICK j \in DOMAIN queue : j > i + 1 /\ Call(j) = "continue"
      BY <2>2, <2>4 DEF MailboxInv, PauseInv
    <3>2. j - 1 \in DOMAIN queue' /\ Call(j - 1)' = "continue" /\ j - 1 > i
      BY <2>1, <3>1
    <3> QED
      BY <3>2
  <2>5. /\ resumed' = "owed" => pc' \in Pausing
        /\ waiting' /\ CallAt[pc'] = "continue" => resumed' = "sent"
    BY DEF MailboxInv, PauseInv
  <2> QED
    BY <2>3, <2>4, <2>5 DEF PauseInv
<1> QED
  BY <1>1, <1>2

LEMMA ServeKeeps ==
  ASSUME MailboxInv, Serve
  PROVE  MailboxInv'
BY ServeTypes, ServeWhere, ServeQueue, ServeReplies DEF MailboxInv

-----------------------------------------------------------------------------
(* The client sends. *)

LEMMA Sent ==
  ASSUME MailboxInv, Send
  PROVE  /\ pc \in DOMAIN CallAt /\ ~waiting /\ reply = NoReply
         /\ UNCHANGED <<mode, mail, worker, ran, pc, reply, job, cmd, fate, results>>
         /\ waiting'
         /\ Len(queue) \in Nat /\ DOMAIN queue = 1..Len(queue)
         /\ queue' \in Seq(Requests) /\ Len(queue') = Len(queue) + 1
         /\ DOMAIN queue' = 1..(Len(queue) + 1)
         /\ \A i \in DOMAIN queue : queue'[i] = queue[i]
         /\ queue'[Len(queue) + 1].call = CallAt[pc] /\ queue'[Len(queue) + 1].job = job
<1>1. /\ pc \in DOMAIN CallAt /\ ~waiting /\ reply = NoReply
      /\ UNCHANGED <<mode, mail, worker, ran, pc, reply, job, cmd, fate, results>>
      /\ waiting' = TRUE
      /\ queue' = Append(queue, [call |-> CallAt[pc], job |-> job, cmd |-> cmd])
  BY DEF Send
<1> DEFINE c == [call |-> CallAt[pc], job |-> job, cmd |-> cmd]
<1>2. queue \in Seq(Requests) /\ c \in Requests
  BY <1>1, Places DEF MailboxInv, Types, Requests
<1>3. c.call = CallAt[pc] /\ c.job = job
  OBVIOUS
<1> HIDE DEF c
<1>4. queue' = Append(queue, c)
  BY <1>1 DEF c
<1> QED
  BY <1>1, <1>2, <1>3, <1>4, Enqueued

LEMMA SendTypes ==
  ASSUME MailboxInv, Send
  PROVE  Types' /\ WorkerInv' /\ Counts' /\ Published' /\ Where' /\ ReplyInv'
<1>1. Len(queue') <= MaxQueue
  <2>1. Len(queue) < MaxQueue
    BY DEF Send
  <2> QED
    BY <2>1, Sent, MailboxAssumption
<1>2. resumed' \in {"sent", "tried", "owed"}
  BY DEF Send, MailboxInv, Types
<1>3. Types'
  BY <1>1, <1>2, Sent DEF MailboxInv, Types
<1>4. WorkerInv' /\ Counts' /\ Published'
  BY Sent DEF MailboxInv, WorkerInv, Counts, Published
<1>5. Where'
  BY Sent DEF MailboxInv, Where
<1>6. ReplyInv'
  BY Sent DEF ReplyInv, NoReply
<1> QED
  BY <1>3, <1>4, <1>5, <1>6

LEMMA SendQueue ==
  ASSUME MailboxInv, Send
  PROVE  QueueInv' /\ WritesInv'
<1> DEFINE n == Len(queue)
<1>1. /\ n \in Nat /\ DOMAIN queue = 1..n /\ DOMAIN queue' = 1..(n + 1) /\ Len(queue') = n + 1
      /\ \A i \in 1..n : queue'[i] = queue[i]
      /\ queue'[n + 1].call = CallAt[pc] /\ queue'[n + 1].job = job
  BY Sent
<1>2. pc \in Fresh => n = 0
  BY Sent, EmptySeq DEF MailboxInv, QueueInv
<1>3. CallAt[pc] \in Writes => pc \in Fresh /\ pc \in Writes /\ CallAt[pc] = pc
  BY Sent, Places, CallsAt DEF Writes, Fresh
<1> HIDE DEF n
<1>4. \A i \in DOMAIN queue' : i \in DOMAIN queue \/ i = n + 1
  BY <1>1
<1>5. \A i \in DOMAIN queue' : queue'[i].job = job'
  BY <1>1, <1>4, Sent DEF MailboxInv, QueueInv
<1>6. \A i, j \in DOMAIN queue' : Call(i)' \in Writes /\ Call(j)' \in Writes => i = j
  <2>1. CASE n = 0
    BY <1>1, <2>1
  <2>2. CASE CallAt[pc] \notin Writes
    <3>1. \A i \in DOMAIN queue' : Call(i)' \in Writes => i \in 1..n /\ Call(i)' = Call(i)
      BY <1>1, <1>4, <2>2 DEF Call
    <3> QED
      BY <1>1, <3>1 DEF MailboxInv, QueueInv
  <2> QED
    BY <1>2, <1>3, <2>1, <2>2
<1>7. QueueInv'
  <2>1. pc # "caller"
    BY Sent, Places
  <2>2. Len(queue') > 0 /\ queue'[Len(queue')].call = CallAt[pc]
    BY <1>1
  <2>3. pc \in Fresh => Len(queue') = 1
    BY <1>1, <1>2
  <2> QED
    BY <1>5, <1>6, <2>1, <2>2, <2>3, Sent DEF QueueInv, NoReply, Call
<1>8. WritesInv'
  <2>1. ASSUME NEW i \in DOMAIN queue, queue'[i] = queue[i]
        PROVE  /\ Call(i)' \in {"data", "header"} =>
                    mail'.job # job' /\ mail'.state = 3 /\ fate' = "open"
               /\ Call(i)' = "header" => mail'.data = Data("request", job')
               /\ Call(i)' = "ack" => mail'.state = 2 /\ fate' = "known"
    BY <2>1, Sent DEF MailboxInv, WritesInv, Call
  <2>2. /\ pc \in {"data", "header"} => mail.job # job /\ mail.state = 3 /\ fate = "open"
        /\ pc = "header" => mail.data = Data("request", job)
        /\ pc = "ack" => mail.state = 2 /\ fate = "known"
    BY Sent DEF MailboxInv, Where, Asked, Answered
  <2>3. CallAt[pc] \in Writes => CallAt[pc] = pc
    BY <1>3
  <2>4. /\ queue'[n + 1].call \in {"data", "header"} =>
             mail'.job # job' /\ mail'.state = 3 /\ fate' = "open"
        /\ queue'[n + 1].call = "header" => mail'.data = Data("request", job')
        /\ queue'[n + 1].call = "ack" => mail'.state = 2 /\ fate' = "known"
    BY <1>1, <2>2, <2>3, Sent DEF Writes
  <2> QED
    BY <1>1, <1>4, <2>1, <2>4 DEF WritesInv, Call
<1> QED
  BY <1>7, <1>8

LEMMA SendPause ==
  ASSUME MailboxInv, Send
  PROVE  PauseInv'
<1>0. PICK n \in Nat : n = Len(queue)
  BY Sent
<1>1. /\ DOMAIN queue = 1..n /\ DOMAIN queue' = 1..(n + 1)
      /\ \A i \in 1..n : Call(i)' = Call(i)
      /\ Call(n + 1)' = CallAt[pc]
  BY <1>0, Sent DEF Call
<1>2. /\ CallAt[pc] = "continue" => resumed' = "sent"
      /\ CallAt[pc] = "pause" => resumed' = "owed"
      /\ CallAt[pc] \notin {"continue", "pause"} => resumed' = resumed
  BY DEF Send
<1>3. resumed' = "owed" => pc' \in Pausing
  <2>1. CallAt[pc] = "pause" => pc \in Pausing
    BY Sent, Places, CallsAt DEF Pausing
  <2> QED
    BY <1>2, <2>1, Sent DEF MailboxInv, PauseInv
<1>4. \A i \in DOMAIN queue' : i \in 1..n \/ i = n + 1
  BY <1>1
<1>5. CASE CallAt[pc] = "continue"
  <2>1. n + 1 \in DOMAIN queue' /\ Call(n + 1)' = "continue"
    BY <1>1, <1>5
  <2>2. \A i \in DOMAIN queue' : Call(i)' = "pause" => n + 1 > i
    BY <1>1, <1>4, <1>5
  <2> QED
    BY <1>2, <1>3, <1>5, <2>1, <2>2, Sent DEF PauseInv
<1>6. CASE CallAt[pc] # "continue" /\ resumed' = "sent"
  <2>1. resumed = "sent" /\ CallAt[pc] # "pause"
    BY <1>2, <1>6
  <2>2. mode = "paused" => \E j \in DOMAIN queue' : Call(j)' = "continue"
    <3>1. ASSUME mode = "paused" PROVE \E j \in DOMAIN queue : Call(j) = "continue"
      BY <2>1, <3>1 DEF MailboxInv, PauseInv
    <3> QED
      BY <1>1, <3>1
  <2>3. ASSUME NEW i \in DOMAIN queue', Call(i)' = "pause"
        PROVE  \E j \in DOMAIN queue' : j > i /\ Call(j)' = "continue"
    <3>1. i \in DOMAIN queue /\ Call(i) = "pause"
      BY <1>1, <1>4, <2>1, <2>3
    <3>2. PICK j \in DOMAIN queue : j > i /\ Call(j) = "continue"
      BY <2>1, <3>1 DEF MailboxInv, PauseInv
    <3> QED
      BY <1>1, <3>2
  <2> QED
    BY <1>3, <1>6, <2>2, <2>3, Sent DEF PauseInv
<1>7. CASE CallAt[pc] # "continue" /\ resumed' # "sent"
  BY <1>3, <1>7, Sent DEF PauseInv
<1> QED
  BY <1>5, <1>6, <1>7

LEMMA SendKeeps ==
  ASSUME MailboxInv, Send
  PROVE  MailboxInv'
BY SendTypes, SendQueue, SendPause DEF MailboxInv

-----------------------------------------------------------------------------
(* The client goes on: after a reply, after an error, or by its controller. *)

\* What a failure, or a rejection, makes of the client's place.
LEMMA Errors ==
  ASSUME pc \in DOMAIN CallAt, NEW expired \in BOOLEAN, OnError(expired)
  PROVE  /\ fate' = fate
         /\ pc \in {"pause", "data", "header"} => pc' = "undo"
         /\ pc \in {"ack_pause", "ack"} => pc' = "drop"
         /\ pc \notin {"pause", "data", "header", "ack_pause", "ack"} =>
              \/ pc' = "caller"
              \/ pc = "resume" /\ pc' = "resume_again"
              \/ pc = "undo" /\ pc' = "undo_again"
              \/ pc = "ack_resume" /\ pc' = "ack_resume_again"
              \/ pc = "drop" /\ pc' = "drop_again"
BY Places, Agains DEF OnError, GoTo, Return

\* What an error leaves of the invariants that know the client's place.
LEMMA ErrorKeeps ==
  ASSUME MailboxInv, pc \in DOMAIN CallAt, NEW expired \in BOOLEAN, OnError(expired)
  PROVE  /\ pc' \in DOMAIN CallAt \cup {"caller"} /\ fate' = fate
         /\ pc' \notin Fresh
         /\ pc' = "caller" => fate \notin {"new", "done"}
         /\ pc' \in Asked => fate = "open"
         /\ pc' \notin Collecting
         /\ pc' \in Answered => fate = "known"
         /\ pc' \notin {"check", "pause", "data", "header", "payload", "ack_pause", "ack"}
         /\ pc' \in {"ack_resume", "ack_resume_again", "confirm"} => mail.state \in {0, 3}
         /\ pc \in Pausing /\ CallAt[pc] # "continue" => pc' \in Pausing
<1>1. /\ pc \in Asked => fate = "open"
      /\ pc \in Collecting => fate \in {"open", "known"}
      /\ pc \in Answered => fate = "known"
      /\ pc = "ack_resume" => mail.state \in {0, 3}
  BY DEF MailboxInv, Where
<1>2. pc \in Asked \cup Collecting \cup Answered
  BY Places DEF Asked, Collecting, Answered
<1>3. pc' \in {"caller", "undo", "drop", "resume_again", "undo_again", "ack_resume_again",
               "drop_again"}
  BY Errors
<1>4. /\ pc' \in {"undo", "resume_again", "undo_again"} => pc \in Asked
      /\ pc' \in {"drop", "ack_resume_again", "drop_again"} => pc \in Answered
      /\ pc' = "ack_resume_again" => pc = "ack_resume"
  BY Errors DEF Asked, Answered
<1>5. pc \in Pausing /\ CallAt[pc] # "continue" => pc' \in {"undo", "drop"}
  <2>1. pc \in Pausing /\ CallAt[pc] # "continue"
          => pc \in {"pause", "data", "header", "ack_pause", "ack"}
    BY CallsAt DEF Pausing
  <2> QED
    BY <2>1, Errors
<1>6. fate' = fate
  BY Errors
<1> QED
  BY <1>1, <1>2, <1>3, <1>4, <1>5, <1>6, Places DEF Fresh, Asked, Collecting, Answered, Pausing

LEMMA FailKeeps ==
  ASSUME MailboxInv, NEW expired \in BOOLEAN, Fail(expired)
  PROVE  MailboxInv'
<1>1. /\ pc \in DOMAIN CallAt /\ OnError(expired)
      /\ waiting' = FALSE /\ reply' = NoReply
      /\ UNCHANGED <<mode, mail, worker, queue, ran, job, cmd, results>>
      /\ resumed' = IF CallAt[pc] = "continue" /\ resumed = "owed" THEN "tried" ELSE resumed
  BY DEF Fail
<1>2. ~waiting'
  BY <1>1
<1>3. Types' /\ WorkerInv'
  BY <1>1, ErrorKeeps DEF MailboxInv, Types, WorkerInv
<1>4. Counts' /\ Published'
  BY <1>1, ErrorKeeps DEF MailboxInv, Counts, Published
<1>5. Where'
  BY <1>1, ErrorKeeps DEF Where
<1>6. QueueInv'
  BY <1>1, <1>2, ErrorKeeps DEF MailboxInv, QueueInv, NoReply, Call
<1>7. WritesInv'
  BY <1>1, ErrorKeeps DEF MailboxInv, WritesInv, Call
<1>8. ReplyInv'
  BY <1>1 DEF ReplyInv, NoReply
<1>9. PauseInv'
  <2>1. resumed' = "owed" => resumed = "owed" /\ CallAt[pc] # "continue"
    BY <1>1
  <2>2. resumed' = "sent" => resumed = "sent"
    BY <1>1
  <2> QED
    BY <1>1, <1>2, <2>1, <2>2, ErrorKeeps DEF MailboxInv, PauseInv, Call
<1> QED
  BY <1>3, <1>4, <1>5, <1>6, <1>7, <1>8, <1>9 DEF MailboxInv

\* The controller's own steps: the client is outside of any call.
LEMMA OutsideOfCalls ==
  ASSUME MailboxInv, pc = "caller"
  PROVE  /\ ~waiting /\ reply = NoReply /\ resumed # "owed"
         /\ fate \in {"new", "done"} => queue = <<>>
         /\ fate = "new" => /\ job \in Jobs /\ mail.job # job
                            /\ mail.state \in {0, 3}
BY DEF MailboxInv, Types, QueueInv, PauseInv, Pausing, Published

LEMMA StartKeeps ==
  ASSUME MailboxInv, Request \/ Collect \/ Ready
  PROVE  MailboxInv'
<1>1. /\ pc = "caller"
      /\ UNCHANGED <<mode, mail, worker, queue, ran, waiting, reply, job, cmd, results, resumed>>
      /\ \/ fate = "new" /\ pc' = "check" /\ fate' = "open"
         \/ fate \in {"open", "known"} /\ pc' = "poll" /\ fate' = fate
         \/ fate = "known" /\ pc' = "ready" /\ fate' = fate
  BY DEF Request, Collect, Ready, Start
<1>2. Types' /\ WorkerInv'
  BY <1>1, Places DEF MailboxInv, Types, WorkerInv
<1>3. Counts' /\ Published'
  BY <1>1, OutsideOfCalls DEF MailboxInv, Counts, Published
<1>4. Where'
  BY <1>1, OutsideOfCalls DEF Where, Asked, Collecting, Answered
<1>5. QueueInv'
  BY <1>1, OutsideOfCalls DEF MailboxInv, QueueInv, Fresh, NoReply, Call
<1>6. WritesInv'
  BY <1>1, OutsideOfCalls DEF MailboxInv, WritesInv, Call
<1>7. ReplyInv'
  BY <1>1, OutsideOfCalls DEF ReplyInv, NoReply
<1>8. PauseInv'
  BY <1>1, OutsideOfCalls DEF MailboxInv, PauseInv, Call
<1> QED
  BY <1>2, <1>3, <1>4, <1>5, <1>6, <1>7, <1>8 DEF MailboxInv

LEMMA NextJobKeeps ==
  ASSUME MailboxInv, NextJob
  PROVE  MailboxInv'
<1>1. /\ pc = "caller" /\ fate \in {"new", "done"} /\ job < MaxJobs
      /\ job' = job + 1 /\ cmd' \in Commands \cup {"Q"} /\ fate' = "new"
      /\ UNCHANGED <<mode, mail, worker, queue, ran, pc, waiting, reply, results, resumed>>
  BY DEF NextJob
<1>2. job \in 0..MaxJobs /\ mail.job \in 0..MaxJobs /\ mail.job <= job /\ job' \in Jobs
  BY <1>1, MailboxAssumption DEF MailboxInv, Types, Published, Jobs
<1>3. mail.state \in {0, 3} /\ queue = <<>> /\ DOMAIN queue = {}
  BY <1>1, OutsideOfCalls DEF MailboxInv, Types, Published
<1>4. Types' /\ WorkerInv'
  BY <1>1, <1>2 DEF MailboxInv, Types, WorkerInv, Jobs
<1>5. Counts'
  <2>1. \A j \in Jobs : j > job' \/ j = job' => j > job
    BY <1>1, <1>2 DEF Jobs
  <2> QED
    BY <1>1, <2>1 DEF MailboxInv, Counts
<1>6. Published'
  BY <1>1, <1>2, <1>3 DEF Published
<1>7. Where'
  BY <1>1 DEF Where, Asked, Collecting, Answered
<1>8. QueueInv' /\ WritesInv'
  BY <1>1, <1>3, OutsideOfCalls DEF QueueInv, WritesInv, NoReply
<1>9. ReplyInv' /\ PauseInv'
  BY <1>1, <1>3, OutsideOfCalls DEF MailboxInv, ReplyInv, PauseInv, NoReply
<1> QED
  BY <1>4, <1>5, <1>6, <1>7, <1>8, <1>9 DEF MailboxInv

\* What a reply of success makes of the client's place, and of what is known.
LEMMA Successes ==
  ASSUME MailboxInv, reply # NoReply, OnReply(reply.mail)
  PROVE  \/ /\ fate' = fate
            /\ \/ pc = "check" /\ mail.state = 3 /\ pc' = "pause"
               \/ pc = "pause" /\ pc' = "data"
               \/ pc = "data" /\ pc' = "header"
               \/ pc = "header" /\ pc' = "resume"
               \/ pc \in {"resume", "resume_again", "poll"} /\ pc' = "poll"
               \/ pc \in {"undo", "undo_again", "drop", "drop_again", "poll", "ready"}
                  /\ pc' = "caller"
               \/ pc = "poll" /\ mail.state = 2 /\ pc' = "payload"
               \/ pc = "ack_pause" /\ pc' = "ack"
               \/ pc = "ack" /\ pc' = "ack_resume"
               \/ pc \in {"ack_resume", "ack_resume_again", "confirm"} /\ pc' = "confirm"
         \/ pc = "check" /\ pc' = "caller" /\ fate' = "new"
         \/ /\ pc = "poll" /\ mail.state = 3 /\ pc' = "caller"
            /\ fate' = IF fate = "known" THEN "done" ELSE "new"
         \/ pc = "payload" /\ pc' = "ack_pause" /\ fate' = "known"
         \/ /\ pc \in {"ack_resume", "ack_resume_again"} /\ pc' = "caller" /\ fate' = "done"
         \/ pc \in {"confirm", "ready"} /\ mail.state = 3 /\ pc' = "caller" /\ fate' = "done"
<1> DEFINE m == reply.mail
<1>1. OnReply(m)
  OBVIOUS
<1>2. CallAt[pc] = "read" => /\ m.state = 3 => mail.state = 3
                             /\ m.state = 2 => mail.state = 2
  BY DEF MailboxInv, ReplyInv
<1>3. pc \in DOMAIN CallAt
  BY DEF MailboxInv, QueueInv, Types
<1> HIDE DEF m
<1>4. CASE pc = "check"
  BY <1>1, <1>2, <1>4, CallsAt DEF OnReply, Checked, GoTo, Return
<1>5. CASE pc = "poll"
  <2>1. Polled(m)
    BY <1>1, <1>5 DEF OnReply
  <2>2. \/ fate' = fate /\ pc' = "caller"
        \/ /\ m.state = 3 /\ pc' = "caller"
           /\ fate' = IF fate = "known" THEN "done" ELSE "new"
        \/ fate' = fate /\ m.state = 2 /\ pc' = "payload"
        \/ fate' = fate /\ pc' = "poll"
    BY <2>1 DEF Polled, GoTo, Return
  <2> QED
    BY <1>2, <1>5, <2>2, CallsAt
<1>6. CASE pc \in {"confirm", "ready"}
  BY <1>1, <1>2, <1>6, CallsAt DEF OnReply, GoTo, Return
<1>7. CASE pc \in {"ack_resume", "ack_resume_again"}
  BY <1>1, <1>7 DEF OnReply, GoTo, Return
<1>8. CASE pc \in {"pause", "data", "header", "resume", "resume_again", "undo", "undo_again",
                   "payload", "ack_pause", "ack", "drop", "drop_again"}
  BY <1>1, <1>8 DEF OnReply, GoTo, Return
<1> QED
  BY <1>3, <1>4, <1>5, <1>6, <1>7, <1>8, Places

\* The answer that is read is that of the job.
LEMMA AnswerRead ==
  ASSUME MailboxInv, reply # NoReply, pc = "payload"
  PROVE  /\ reply.ok /\ reply.mail.data.job = job /\ mail.job = job
         /\ job \in Jobs /\ mail.state = 2 /\ ran[job] = 1
<1>1. mail.state = 2 /\ reply.ok /\ reply.mail.data = mail.data
  BY DEF MailboxInv, Where, ReplyInv
<1>2. /\ mail.data = Data("answer", mail.job) /\ ran[mail.job] = 1 /\ mail.job = job
      /\ job \in Jobs
  BY <1>1 DEF MailboxInv, Types, WorkerInv, Published, Jobs
<1>3. mail.data.job = job
  BY <1>2 DEF Data
<1> QED
  BY <1>1, <1>2, <1>3

LEMMA ReceiveStep ==
  ASSUME MailboxInv, Receive
  PROVE  /\ reply # NoReply /\ waiting /\ queue = <<>> /\ DOMAIN queue = {}
         /\ pc \in DOMAIN CallAt
         /\ ~waiting' /\ reply' = NoReply
         /\ UNCHANGED <<mode, mail, worker, queue, ran, job, cmd, resumed>>
         /\ (reply.ok /\ OnReply(reply.mail)) \/ OnError(FALSE)
         /\ results' = IF pc = "payload" THEN [results EXCEPT ![job] = job] ELSE results
<1>1. /\ reply # NoReply /\ waiting' = FALSE /\ reply' = NoReply
      /\ UNCHANGED <<mode, mail, worker, queue, ran, job, cmd, resumed>>
      /\ results' = IF pc = "payload" THEN [results EXCEPT ![job] = reply.mail.data.job]
                    ELSE results
  BY DEF Receive
<1>2. (reply.ok /\ OnReply(reply.mail)) \/ OnError(FALSE)
  BY DEF Receive
<1>3. waiting /\ queue = <<>> /\ DOMAIN queue = {} /\ pc \in DOMAIN CallAt
  BY <1>1 DEF MailboxInv, QueueInv, Types
<1> QED
  BY <1>1, <1>2, <1>3, AnswerRead

LEMMA ReceiveKnows ==
  ASSUME MailboxInv, Receive
  PROVE  Types' /\ Counts' /\ Published' /\ Where'
<1> USE ReceiveStep
<1>1. results' \in [Jobs -> 0..MaxJobs]
  <2>1. results \in [Jobs -> 0..MaxJobs] /\ job \in 0..MaxJobs
    BY DEF MailboxInv, Types
  <2> QED
    BY <2>1
<1>2. Counts'
  <2>1. /\ \A j \in Jobs : results'[j] = results[j]
                           \/ (results'[j] = j /\ j = job /\ mail.job = job)
    BY AnswerRead DEF MailboxInv, Types
  <2>2. job \in Nat
    BY DEF MailboxInv, Types
  <2>3. \A j \in Jobs : j > job => j # job
    BY <2>2 DEF Jobs
  <2>4. \A j \in Jobs : results'[j] \in {0, j}
    BY <2>1 DEF MailboxInv, Counts
  <2>5. ASSUME NEW j \in Jobs, j > job \/ (j = job /\ mail.job # job)
        PROVE  ran[j] = 0 /\ results'[j] = 0
    BY <2>1, <2>3, <2>5 DEF MailboxInv, Counts
  <2> QED
    BY <2>4, <2>5 DEF Counts
<1>3. CASE OnError(FALSE)
  <2>1. Types'
    BY <1>1, <1>3, ErrorKeeps DEF MailboxInv, Types
  <2>2. Published'
    BY <1>3, ErrorKeeps DEF MailboxInv, Published
  <2>3. Where'
    BY <1>3, ErrorKeeps DEF Where
  <2> QED
    BY <1>2, <2>1, <2>2, <2>3
<1>4. CASE reply.ok /\ OnReply(reply.mail)
  <2>1. Types'
    <3>1. pc' \in DOMAIN CallAt \cup {"caller"}
      BY <1>4, Successes, Places
    <3>2. fate' \in {"new", "open", "known", "done"}
      BY <1>4, Successes DEF MailboxInv, Types
    <3> QED
      BY <1>1, <3>1, <3>2 DEF MailboxInv, Types
  <2>2. Published'
    <3>1. CASE fate' = fate
      BY <3>1 DEF MailboxInv, Published
    <3>2. CASE /\ fate' = "new"
               /\ pc = "check" \/ (pc = "poll" /\ fate # "known" /\ mail.state = 3)
      <4>1. fate = "open"
        BY <3>2 DEF MailboxInv, Where, Asked, Collecting
      <4>2. mail.job # job /\ job \in Jobs /\ mail.state \notin {1, 2}
        BY <3>2, <4>1 DEF MailboxInv, Where, Published
      <4> QED
        BY <3>2, <4>2 DEF MailboxInv, Published
    <3>3. CASE fate' = "done" /\ fate = "known" /\ mail.state \in {0, 3}
      <4>1. mail.state \notin {1, 2}
        BY ONLY <3>3
      <4>2. mail' = mail /\ job' = job
        OBVIOUS
      <4>3. mail.job <= job
        BY ONLY MailboxInv DEF MailboxInv, Published
      <4> QED
        BY ONLY <3>3, <4>1, <4>2, <4>3 DEF Published
    <3>4. CASE fate' = "known" /\ pc = "payload"
      BY <3>4, AnswerRead DEF MailboxInv, Published, Jobs
    <3>5. /\ pc \in {"ack_resume", "ack_resume_again", "confirm"} => mail.state \in {0, 3}
          /\ pc \in {"ack_resume", "ack_resume_again", "confirm", "ready"} => fate = "known"
      BY DEF MailboxInv, Where, Answered
    <3> QED
      BY <1>4, <3>1, <3>2, <3>3, <3>4, <3>5, Successes
  <2>3. Where'
    <3>1. pc = "data" => mail.data = Data("request", job)
      BY <1>4 DEF MailboxInv, ReplyInv
    <3>2. pc = "ack" => mail.state \in {0, 3}
      BY <1>4 DEF MailboxInv, ReplyInv
    <3>3. pc = "payload" => mail.state = 2
      BY AnswerRead
    <3> QED
      BY <1>4, <3>1, <3>2, <3>3, Successes
      DEF MailboxInv, Where, Asked, Collecting, Answered
  <2> QED
    BY <1>2, <2>1, <2>2, <2>3
<1> QED
  BY <1>3, <1>4

LEMMA ReceiveKeeps ==
  ASSUME MailboxInv, Receive
  PROVE  MailboxInv'
<1> USE ReceiveStep
<1>1. WorkerInv'
  BY DEF MailboxInv, WorkerInv
<1>2. QueueInv' /\ WritesInv'
  BY DEF QueueInv, WritesInv, NoReply
<1>3. ReplyInv'
  BY DEF ReplyInv, NoReply
<1>4. PauseInv'
  <2>1. resumed = "owed" => pc \in Pausing /\ CallAt[pc] # "continue"
    BY DEF MailboxInv, PauseInv
  <2>2. pc \in Pausing /\ CallAt[pc] # "continue" => pc' \in Pausing
    <3>1. pc \in Pausing /\ CallAt[pc] # "continue"
            => pc \in {"pause", "data", "header", "ack_pause", "ack"}
      BY CallsAt DEF Pausing
    <3> QED
      BY <3>1, Successes, ErrorKeeps DEF Pausing
  <2> QED
    BY <2>1, <2>2 DEF MailboxInv, PauseInv
<1> QED
  BY <1>1, <1>2, <1>3, <1>4, ReceiveKnows DEF MailboxInv

-----------------------------------------------------------------------------
(* The theorems. *)

LEMMA MailboxInit == Init => MailboxInv
<1> SUFFICES ASSUME Init PROVE MailboxInv
  OBVIOUS
<1> USE DEF Init
<1>1. job = 0 /\ mail.job = 0 /\ mail.state = 0 /\ DOMAIN queue = {} /\ Len(queue) = 0
  OBVIOUS
<1>2. Types
  <2>1. queue \in Seq(Requests)
    BY EmptySeq
  <2> QED
    BY <1>1, <2>1, MailboxAssumption DEF Types, Jobs
<1>3. WorkerInv
  BY DEF WorkerInv
<1>4. Counts
  BY DEF Counts
<1>5. Published
  BY <1>1 DEF Published
<1>6. Where
  BY DEF Where, Asked, Collecting, Answered
<1>7. QueueInv /\ WritesInv
  BY <1>1 DEF QueueInv, WritesInv, Fresh
<1>8. ReplyInv /\ PauseInv
  BY <1>1 DEF ReplyInv, PauseInv
<1> QED
  BY <1>2, <1>3, <1>4, <1>5, <1>6, <1>7, <1>8 DEF MailboxInv

LEMMA MailboxNext == MailboxInv /\ [Next]_vars => MailboxInv'
<1> SUFFICES ASSUME MailboxInv, [Next]_vars PROVE MailboxInv'
  OBVIOUS
<1>1. CASE Worker
  BY <1>1, WorkerKeeps
<1>2. CASE Serve
  BY <1>2, ServeKeeps
<1>3. CASE Send
  BY <1>3, SendKeeps
<1>4. CASE Receive
  BY <1>4, ReceiveKeeps
<1>5. CASE \E expired \in BOOLEAN : Fail(expired)
  BY <1>5, FailKeeps
<1>6. CASE Request \/ Collect \/ Ready
  BY <1>6, StartKeeps
<1>7. CASE NextJob
  BY <1>7, NextJobKeeps
<1>8. CASE UNCHANGED vars
  BY <1>8 DEF vars, hostVars, MailboxInv, Types, WorkerInv, Counts, Published, Where,
              QueueInv, WritesInv, ReplyInv, PauseInv, Call
<1> QED
  BY <1>1, <1>2, <1>3, <1>4, <1>5, <1>6, <1>7, <1>8 DEF Next, Client

\* The conversation's invariant: late calls find what they were sent for, and
\* what the client knows of a job is so, whatever was lost (dos_control.py).
THEOREM ConversationHolds == Spec => []MailboxInv
BY MailboxInit, MailboxNext, PTL DEF Spec

\* A job the client reports as not published is in no mailbox, with no worker
\* and in no call that is still to be served (dos_control.py:252, :304).
THEOREM NotPublishedIsSafe == Spec => []RerunIsSafe
<1>1. MailboxInv => RerunIsSafe
  <2> SUFFICES ASSUME MailboxInv, fate = "new" PROVE RerunIsSafe
    BY DEF RerunIsSafe
  <2>1. job \in Jobs /\ mail.job # job
    BY DEF MailboxInv, Types, Published
  <2>2. ran[job] = 0
    BY <2>1 DEF MailboxInv, Counts
  <2>3. \A i \in DOMAIN queue : queue[i].call # "header"
    BY DEF MailboxInv, WritesInv, Call
  <2> QED
    BY <2>1, <2>2, <2>3 DEF RerunIsSafe
<1> QED
  BY <1>1, ConversationHolds, PTL

\* The worker starts on whole requests only, and an answer stays what the
\* worker wrote until it is acknowledged (dos_control.py:256).
THEOREM MessagesStayWhole == Spec => []MessagesWhole
<1>1. MailboxInv => TypeOK
  <2>1. MailboxInv => (waiting => queue # <<>> \/ reply # NoReply)
    BY EmptySeq DEF MailboxInv, QueueInv
  <2> QED
    BY <2>1 DEF TypeOK, MailboxInv, Types
<1>2. MailboxInv => MessagesWhole
  BY <1>1 DEF MailboxInv, WorkerInv, MessagesWhole, Data
<1> QED
  BY <1>2, ConversationHolds, PTL

\* The client never leaves without having tried to resume the machine, and if
\* it could send that, the machine runs once all calls are served
\* (dos_control.py:216).
THEOREM MachineResumes == Spec => []NotLeftPaused
<1>1. MailboxInv => NotLeftPaused
  <2>1. queue = <<>> => DOMAIN queue = {}
    OBVIOUS
  <2> QED
    BY <2>1 DEF MailboxInv, PauseInv, Pausing, NotLeftPaused
<1> QED
  BY <1>1, ConversationHolds, PTL

-----------------------------------------------------------------------------
(* The refinement. *)

\* No answer is another job's, so that those taken are the jobs with a result.
LEMMA TakenAre == Counts => taken = {k \in Jobs : results[k] # 0}
BY DEF Counts, taken

LEMMA JobStep ==
  ASSUME MailboxInv, MailboxInv', [Next]_vars
  PROVE  [Service!Next]_<<ran, taken>>
<1>1. taken = {k \in Jobs : results[k] # 0} /\ taken' = {k \in Jobs : results'[k] # 0}
  <2>1. taken = {k \in Jobs : results[k] # 0}
    BY TakenAre DEF MailboxInv
  <2>2. taken' = {k \in Jobs : results'[k] # 0}
    BY DEF MailboxInv, Counts, taken
  <2> QED
    BY <2>1, <2>2
<1>2. CASE UNCHANGED <<ran, results>>
  BY <1>1, <1>2
<1>3. CASE WorkerDispatch
  <2>1. mail.job \in Jobs /\ ran[mail.job] = 0
    BY <1>3 DEF WorkerDispatch, MailboxInv, Types, WorkerInv, Published, Jobs
  <2>2. ran' = [ran EXCEPT ![mail.job] = 1] /\ results' = results
    BY <1>3, <2>1 DEF WorkerDispatch, WorkerStep, hostVars, MailboxInv, Types
  <2>3. taken' = taken
    BY <1>1, <2>2
  <2>4. Service!Run(mail.job)
    BY <2>1, <2>2, <2>3 DEF Service!Run
  <2> QED
    BY <2>1, <2>4 DEF Service!Next
<1>4. CASE Receive /\ pc = "payload"
  <2>1. job \in Jobs /\ ran[job] = 1 /\ ran' = ran /\ results' = [results EXCEPT ![job] = job]
    BY <1>4, ReceiveStep, AnswerRead
  <2>2. results'[job] # 0 /\ \A k \in Jobs \ {job} : results'[k] = results[k]
    BY <2>1 DEF MailboxInv, Types, Jobs
  <2>3. taken' = taken \cup {job}
    BY <1>1, <2>1, <2>2
  <2>4. Service!TakeResult(job)
    BY <2>1, <2>3 DEF Service!TakeResult
  <2> QED
    BY <2>1, <2>4 DEF Service!Next
<1>5. CASE Worker /\ ~WorkerDispatch
  BY <1>2, <1>5 DEF Worker, WorkerStart, WorkerFinish, WorkerReply, WorkerAcknowledged,
                    WorkerStep, hostVars
<1>6. CASE Serve
  BY <1>2, <1>6, ServedCalls
<1>7. CASE Client /\ ~(Receive /\ pc = "payload")
  BY <1>2, <1>7 DEF Client, Send, Receive, Fail, Request, Collect, Ready, Start, NextJob
<1>8. CASE UNCHANGED vars
  BY <1>2, <1>8 DEF vars, hostVars
<1> QED
  BY <1>3, <1>4, <1>5, <1>6, <1>7, <1>8 DEF Next, Client

\* With lost replies, timeouts and collections by command, the guest runs each
\* job once at most, and a result taken for a job is that of its own run.
THEOREM JobsRunOnce == Spec => ImplementsJobs
<1>1. Init => Service!Init
  <2> SUFFICES ASSUME Init PROVE Service!Init
    OBVIOUS
  <2>1. ran = [j \in Jobs |-> 0] /\ \A j \in Jobs : results[j] = 0
    BY DEF Init
  <2>2. taken = {}
    BY <2>1 DEF taken
  <2> QED
    BY <2>1, <2>2 DEF Service!Init
<1>2. MailboxInv /\ MailboxInv' /\ [Next]_vars => [Service!Next]_<<ran, taken>>
  BY JobStep
<1> QED
  BY <1>1, <1>2, ConversationHolds, PTL DEF Spec, ImplementsJobs, Service!Spec
=============================================================================
