---------------------------- MODULE DebugServer -----------------------------
(***************************************************************************)
(* debugserver.py: one thread per TCP connection queues JSON-RPC requests, *)
(* the emulator thread answers them between two rounds of execution.       *)
(*                                                                         *)
(* The queue itself is thread safe; what the two sides share besides it is *)
(* the `_pending` event, which lets the emulator poll without touching the *)
(* queue, and `_pending_lock`, which makes "queue and event" one thing     *)
(* for everybody except get_nowait(), which runs without the lock.         *)
(*                                                                         *)
(* A connection has at most one request in flight (_submit blocks), so a   *)
(* request is named by its connection.  What the request asks is left to   *)
(* ExecControl.tla; here a handler only returns or raises.                 *)
(***************************************************************************)
EXTENDS Naturals, Sequences

CONSTANTS
  Clients,    \* connections, each with its _client_loop thread
  Cpu,        \* the emulator's main loop, as an owner of the lock
  NoOne,      \* nobody owns the lock, no request is being handled
  MaxBatch,   \* process_pending's maximum
  MaxInbox    \* bound: complete lines buffered ahead of a connection's thread

ASSUME ServerAssumption ==
  /\ MaxBatch \in Nat \ {0}
  /\ MaxInbox \in Nat
  /\ Cpu \notin Clients
  /\ NoOne \notin Clients
  /\ Cpu # NoOne

VARIABLES
  conn,       \* is the peer's end of each connection open?
  inbox,      \* complete lines received and not yet looked at
  thread,     \* where each _client_loop thread is
  response,   \* _Request.response, a queue of size one
  requests,   \* DebugServer._requests
  pending,    \* DebugServer._pending
  lock,       \* DebugServer._pending_lock
  cpu,        \* where the main loop is
  processed,  \* requests answered by this process_pending call
  serving,    \* the connection whose request the handler is working on
  drained     \* what _requests.empty() returned under the lock

clientVars == <<conn, inbox, thread>>
cpuVars == <<cpu, processed, serving, drained>>
vars == <<clientVars, response, requests, pending, lock, cpuVars>>

Outcomes == {"result", "error"}   \* every exception becomes an error object

TypeOK ==
  /\ conn \in [Clients -> {"open", "closed"}]
  /\ inbox \in [Clients -> 0..MaxInbox]
  /\ thread \in [Clients -> {"reading", "putting", "waiting", "ended"}]
  /\ response \in [Clients -> Outcomes \cup {"none"}]
  /\ requests \in Seq(Clients)
  /\ pending \in BOOLEAN
  /\ lock \in Clients \cup {Cpu, NoOne}
  /\ cpu \in {"loop", "take", "answer", "check", "flag", "body"}
  /\ processed \in 0..MaxBatch
  /\ serving \in Clients \cup {NoOne}
  /\ drained \in BOOLEAN

Init ==
  /\ conn = [c \in Clients |-> "open"]
  /\ inbox = [c \in Clients |-> 0]
  /\ thread = [c \in Clients |-> "reading"]
  /\ response = [c \in Clients |-> "none"]
  /\ requests = <<>>
  /\ pending = FALSE
  /\ lock = NoOne
  /\ cpu = "loop"
  /\ processed = 0
  /\ serving = NoOne
  /\ drained = FALSE

-----------------------------------------------------------------------------
(* The peers, at the other end of each socket. *)

PeerSends(c) ==
  /\ conn[c] = "open"
  /\ inbox[c] < MaxInbox
  /\ inbox' = [inbox EXCEPT ![c] = @ + 1]
  /\ UNCHANGED <<conn, thread, response, requests, pending, lock, cpuVars>>

PeerCloses(c) ==
  /\ conn[c] = "open"
  /\ conn' = [conn EXCEPT ![c] = "closed"]
  /\ UNCHANGED <<inbox, thread, response, requests, pending, lock, cpuVars>>

-----------------------------------------------------------------------------
(* The connection threads. *)

\* A reply to a peer that has gone may raise OSError, which ends the thread.
Resume(c) ==
  \/ thread' = [thread EXCEPT ![c] = "reading"]
  \/ conn[c] = "closed" /\ thread' = [thread EXCEPT ![c] = "ended"]

\* Invalid JSON and malformed requests never reach the emulator thread.
AnswerMalformed(c) ==
  /\ thread[c] = "reading" /\ inbox[c] > 0
  /\ inbox' = [inbox EXCEPT ![c] = @ - 1]
  /\ Resume(c)
  /\ UNCHANGED <<conn, response, requests, pending, lock, cpuVars>>

\* `with self._pending_lock: self._requests.put(request)`
PutRequest(c) ==
  /\ thread[c] = "reading" /\ inbox[c] > 0
  /\ lock = NoOne
  /\ lock' = c
  /\ inbox' = [inbox EXCEPT ![c] = @ - 1]
  /\ requests' = Append(requests, c)
  /\ thread' = [thread EXCEPT ![c] = "putting"]
  /\ UNCHANGED <<conn, response, pending, cpuVars>>

SetPending(c) ==
  /\ thread[c] = "putting"
  /\ pending' = TRUE
  /\ lock' = NoOne
  /\ thread' = [thread EXCEPT ![c] = "waiting"]
  /\ UNCHANGED <<conn, inbox, response, requests, cpuVars>>

\* response.get() returns; a notification's response is dropped here.
CollectResponse(c) ==
  /\ thread[c] = "waiting"
  /\ response[c] # "none"
  /\ response' = [response EXCEPT ![c] = "none"]
  /\ Resume(c)
  /\ UNCHANGED <<conn, inbox, requests, pending, lock, cpuVars>>

EndOfStream(c) ==
  /\ thread[c] = "reading" /\ inbox[c] = 0
  /\ conn[c] = "closed"
  /\ thread' = [thread EXCEPT ![c] = "ended"]
  /\ UNCHANGED <<conn, inbox, response, requests, pending, lock, cpuVars>>

\* _accept_loop starts a thread for a new connection.
Accept(c) ==
  /\ thread[c] = "ended"
  /\ conn' = [conn EXCEPT ![c] = "open"]
  /\ inbox' = [inbox EXCEPT ![c] = 0]
  /\ thread' = [thread EXCEPT ![c] = "reading"]
  /\ UNCHANGED <<response, requests, pending, lock, cpuVars>>

ClientThread(c) ==
  \/ AnswerMalformed(c) \/ PutRequest(c) \/ SetPending(c)
  \/ CollectResponse(c) \/ EndOfStream(c)

-----------------------------------------------------------------------------
(* The emulator thread: has_pending and process_pending, called by the main *)
(* loop ahead of each round of execution.                                   *)

Poll ==
  /\ cpu = "loop"
  /\ IF pending
     THEN cpu' = "take" /\ processed' = 0
     ELSE cpu' = "body" /\ UNCHANGED processed
  /\ UNCHANGED <<clientVars, response, requests, pending, lock, serving, drained>>

\* Mutant: the request being handled stays in the queue.
TakeRequestPeek ==
  /\ cpu = "take"
  /\ processed < MaxBatch /\ requests # <<>>
  /\ serving' = Head(requests)
  /\ cpu' = "answer"
  /\ UNCHANGED <<clientVars, response, requests, pending, lock, processed, drained>>

\* Mutant: a LifoQueue in place of the Queue.
TakeRequestNewest ==
  /\ cpu = "take"
  /\ processed < MaxBatch /\ requests # <<>>
  /\ serving' = requests[Len(requests)]
  /\ requests' = SubSeq(requests, 1, Len(requests) - 1)
  /\ cpu' = "answer"
  /\ UNCHANGED <<clientVars, response, pending, lock, processed, drained>>

TakeRequest ==
  /\ cpu = "take"
  /\ processed < MaxBatch /\ requests # <<>>
  /\ serving' = Head(requests)
  /\ requests' = Tail(requests)
  /\ cpu' = "answer"
  /\ UNCHANGED <<clientVars, response, pending, lock, processed, drained>>

StopTaking ==
  /\ cpu = "take"
  /\ processed = MaxBatch \/ requests = <<>>
  /\ cpu' = "check"
  /\ UNCHANGED <<clientVars, response, requests, pending, lock,
                 processed, serving, drained>>

\* Mutant: `processed += 1` is missing.
AnswerRequestUncounted ==
  /\ cpu = "answer"
  /\ response[serving] = "none"
  /\ \E outcome \in Outcomes :
        response' = [response EXCEPT ![serving] = outcome]
  /\ serving' = NoOne
  /\ cpu' = "take"
  /\ UNCHANGED <<clientVars, requests, pending, lock, processed, drained>>

AnswerRequest ==
  /\ cpu = "answer"
  /\ response[serving] = "none"     \* put() on a full queue would block
  /\ \E outcome \in Outcomes :
        response' = [response EXCEPT ![serving] = outcome]
  /\ processed' = processed + 1
  /\ serving' = NoOne
  /\ cpu' = "take"
  /\ UNCHANGED <<clientVars, requests, pending, lock, drained>>

\* Mutant: the final empty() test does not take the lock.
CheckEmptyUnlocked ==
  /\ cpu = "check"
  /\ drained' = (requests = <<>>)
  /\ cpu' = "flag"
  /\ UNCHANGED <<clientVars, response, requests, pending, lock, processed, serving>>

CheckEmpty ==
  /\ cpu = "check"
  /\ lock = NoOne
  /\ lock' = Cpu
  /\ drained' = (requests = <<>>)
  /\ cpu' = "flag"
  /\ UNCHANGED <<clientVars, response, requests, pending, processed, serving>>

\* Mutant: the event is cleared although requests are left.
UpdateFlagClear ==
  /\ cpu = "flag"
  /\ pending' = FALSE
  /\ lock' = NoOne
  /\ cpu' = "body"
  /\ UNCHANGED <<clientVars, response, requests, processed, serving, drained>>

UpdateFlag ==
  /\ cpu = "flag"
  /\ pending' = ~drained
  /\ lock' = NoOne
  /\ cpu' = "body"
  /\ UNCHANGED <<clientVars, response, requests, processed, serving, drained>>

\* Either the paused sleep or a round of CPU ticks.
RunBody ==
  /\ cpu = "body"
  /\ cpu' = "loop"
  /\ UNCHANGED <<clientVars, response, requests, pending, lock,
                 processed, serving, drained>>

MainLoop ==
  \/ Poll \/ TakeRequest \/ StopTaking \/ AnswerRequest
  \/ CheckEmpty \/ UpdateFlag \/ RunBody

-----------------------------------------------------------------------------
Next ==
  \/ MainLoop
  \/ \E c \in Clients :
        ClientThread(c) \/ PeerSends(c) \/ PeerCloses(c) \/ Accept(c)

Spec == Init /\ [][Next]_vars

\* The operating system runs both kinds of thread; peers owe us nothing.
FairSpec ==
  /\ Spec
  /\ WF_vars(MainLoop)
  /\ \A c \in Clients : WF_vars(SetPending(c)) /\ WF_vars(CollectResponse(c))

-----------------------------------------------------------------------------
(* Properties *)

InQueue(c) == \E i \in DOMAIN requests : requests[i] = c

\* A request whose submitter has left the lock is never stranded behind a
\* clear event: outside process_pending (debugserver.py:85) a non-empty queue
\* with the lock free means the event is set, although get_nowait() and the
\* final empty() test run while other threads keep queueing.
NoStrandedRequest ==
  (requests # <<>> /\ lock \notin Clients /\ cpu \in {"loop", "body"}) => pending

\* Every submission is in exactly one place -- queued, with the handler, or
\* answered and not collected -- from put() (debugserver.py:72) until its own
\* thread takes the response, and a thread that is not submitting is nowhere:
\* no answer is given twice, lost, or left over for the next request.
OneAnswerPerRequest ==
  /\ \A c \in Clients :
        /\ thread[c] \in {"putting", "waiting"}
             <=> InQueue(c) \/ serving = c \/ response[c] # "none"
        /\ ~(InQueue(c) /\ serving = c)
        /\ response[c] # "none" => ~InQueue(c) /\ serving # c
  /\ \A i, j \in DOMAIN requests : requests[i] = requests[j] => i = j

\* Traffic cannot keep the machine from executing: between any two rounds of
\* the loop body at most MaxBatch requests are served, so the body (ticks or
\* the paused sleep) is reached again however fast connections submit.
MachineKeepsRunning == []<>(cpu = "body")

\* A request submitted by any connection is answered and its thread moves on,
\* even if other connections flood the queue and even if its own peer hung up.
EveryRequestAnswered ==
  \A c \in Clients : thread[c] = "waiting" ~> thread[c] \in {"reading", "ended"}

\* Refinement: where a request stands, in the terms of RpcService.tla.
status ==
  [c \in Clients |->
     IF response[c] # "none" THEN "answered"
     ELSE IF InQueue(c) \/ serving = c THEN "asked"
     ELSE "idle"]

Service == INSTANCE RpcService

\* The threads, the queue, the event and the lock together implement the
\* service: one answer per request, in a bounded number of rounds.
ImplementsService == Service!Spec
=============================================================================
