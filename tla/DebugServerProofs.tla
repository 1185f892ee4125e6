------------------------- MODULE DebugServerProofs --------------------------
(* Proofs about DebugServer.tla, for any number of connections and any batch *)
(* size.                                                                     *)
EXTENDS DebugServer, TLAPS

(* The main loop handles a request only inside the batch limit, and handles *)
(* one only between a take and its answer.                                  *)
ServingInv ==
  /\ cpu = "answer" => processed < MaxBatch /\ serving \in Clients
  /\ cpu # "answer" => serving = NoOne

TypeInv == TypeOK /\ ServingInv

\* Type correctness of the debug server: in particular process_pending
\* (debugserver.py:85-87) never counts past its maximum.
THEOREM TypeCorrect == Spec => []TypeInv
<1> USE ServerAssumption DEF TypeInv, TypeOK, ServingInv, Outcomes
<1>1. ASSUME Init PROVE TypeInv
  <2>1. /\ conn \in [Clients -> {"open", "closed"}]
        /\ inbox \in [Clients -> 0..MaxInbox]
        /\ thread \in [Clients -> {"reading", "putting", "waiting", "ended"}]
        /\ response \in [Clients -> Outcomes \cup {"none"}]
    BY <1>1 DEF Init, ServerAssumption
  <2>2. requests \in Seq(Clients)
    BY <1>1 DEF Init
  <2>3. processed \in 0..MaxBatch
    BY <1>1 DEF Init, ServerAssumption
  <2>4. QED BY <1>1, <2>1, <2>2, <2>3 DEF Init
<1>2. TypeInv /\ [Next]_vars => TypeInv'
  <2> SUFFICES ASSUME TypeInv, [Next]_vars PROVE TypeInv'
    OBVIOUS
  <2>1. CASE Poll BY <2>1 DEF Poll, clientVars
  <2>2. CASE TakeRequest
    <3>1. Head(requests) \in Clients /\ Tail(requests) \in Seq(Clients)
      BY <2>2 DEF TakeRequest
    <3>2. QED BY <2>2, <3>1 DEF TakeRequest, clientVars
  <2>3. CASE StopTaking BY <2>3 DEF StopTaking, clientVars
  <2>4. CASE AnswerRequest BY <2>4 DEF AnswerRequest, clientVars
  <2>5. CASE CheckEmpty BY <2>5 DEF CheckEmpty, clientVars
  <2>6. CASE UpdateFlag BY <2>6 DEF UpdateFlag, clientVars
  <2>7. CASE RunBody BY <2>7 DEF RunBody, clientVars
  <2>8. ASSUME NEW c \in Clients,
               ClientThread(c) \/ PeerSends(c) \/ PeerCloses(c) \/ Accept(c)
        PROVE  TypeInv'
    <3>1. CASE AnswerMalformed(c) BY <3>1 DEF AnswerMalformed, Resume, cpuVars
    <3>2. CASE PutRequest(c) BY <3>2 DEF PutRequest, cpuVars
    <3>3. CASE SetPending(c) BY <3>3 DEF SetPending, cpuVars
    <3>4. CASE CollectResponse(c) BY <3>4 DEF CollectResponse, Resume, cpuVars
    <3>5. CASE EndOfStream(c) BY <3>5 DEF EndOfStream, cpuVars
    <3>6. CASE PeerSends(c) BY <3>6 DEF PeerSends, cpuVars
    <3>7. CASE PeerCloses(c) BY <3>7 DEF PeerCloses, cpuVars
    <3>8. CASE Accept(c) BY <3>8 DEF Accept, cpuVars
    <3>9. QED
      BY <2>8, <3>1, <3>2, <3>3, <3>4, <3>5, <3>6, <3>7, <3>8 DEF ClientThread
  <2>9. CASE UNCHANGED vars BY <2>9 DEF vars, clientVars, cpuVars
  <2>10. QED
    BY <2>1, <2>2, <2>3, <2>4, <2>5, <2>6, <2>7, <2>8, <2>9 DEF Next, MainLoop
<1>3. QED BY <1>1, <1>2, PTL DEF Spec

-----------------------------------------------------------------------------
(* Who holds _pending_lock, and what its holder knows.  The main loop holds it *)
(* from its empty() test to the update of the event, so nothing can be queued  *)
(* in between and the test's result stays true.                                *)
LockInv ==
  /\ \A c \in Clients : lock = c <=> thread[c] = "putting"
  /\ lock = Cpu <=> cpu = "flag"
  /\ cpu = "flag" => (drained <=> requests = <<>>)

WakeupInv == LockInv /\ NoStrandedRequest

\* No lost wake-up (debugserver.py:71-73 against :85-108): whatever the
\* interleaving of puts, takes and the final test, a queued request that its
\* submitter has finished publishing is announced to the main loop.
THEOREM NoLostWakeup == Spec => []NoStrandedRequest
<1> USE ServerAssumption DEF WakeupInv, LockInv, NoStrandedRequest
<1>1. Init => WakeupInv
  BY DEF Init
<1>2. TypeInv /\ WakeupInv /\ [Next]_vars => WakeupInv'
  <2> SUFFICES ASSUME TypeInv, WakeupInv, [Next]_vars PROVE WakeupInv'
    OBVIOUS
  <2> USE DEF TypeInv, TypeOK
  <2>1. CASE Poll BY <2>1 DEF Poll, clientVars
  <2>2. CASE TakeRequest BY <2>2 DEF TakeRequest, clientVars
  <2>3. CASE StopTaking BY <2>3 DEF StopTaking, clientVars
  <2>4. CASE AnswerRequest BY <2>4 DEF AnswerRequest, clientVars
  <2>5. CASE CheckEmpty BY <2>5 DEF CheckEmpty, clientVars
  <2>6. CASE UpdateFlag BY <2>6 DEF UpdateFlag, clientVars
  <2>7. CASE RunBody BY <2>7 DEF RunBody, clientVars
  <2>8. ASSUME NEW c \in Clients,
               ClientThread(c) \/ PeerSends(c) \/ PeerCloses(c) \/ Accept(c)
        PROVE  WakeupInv'
    <3>1. CASE AnswerMalformed(c) BY <3>1 DEF AnswerMalformed, Resume, cpuVars
    <3>2. CASE PutRequest(c) BY <3>2 DEF PutRequest, cpuVars
    <3>3. CASE SetPending(c) BY <3>3 DEF SetPending, cpuVars
    <3>4. CASE CollectResponse(c) BY <3>4 DEF CollectResponse, Resume, cpuVars
    <3>5. CASE EndOfStream(c) BY <3>5 DEF EndOfStream, cpuVars
    <3>6. CASE PeerSends(c) BY <3>6 DEF PeerSends, cpuVars
    <3>7. CASE PeerCloses(c) BY <3>7 DEF PeerCloses, cpuVars
    <3>8. CASE Accept(c) BY <3>8 DEF Accept, cpuVars
    <3>9. QED
      BY <2>8, <3>1, <3>2, <3>3, <3>4, <3>5, <3>6, <3>7, <3>8 DEF ClientThread
  <2>9. CASE UNCHANGED vars BY <2>9 DEF vars, clientVars, cpuVars
  <2>10. QED
    BY <2>1, <2>2, <2>3, <2>4, <2>5, <2>6, <2>7, <2>8, <2>9 DEF Next, MainLoop
<1>3. QED BY <1>1, <1>2, TypeCorrect, PTL DEF Spec

-----------------------------------------------------------------------------
(* What a take and a put do to where the requests are. *)

LEMMA Taken ==
  ASSUME TypeInv, OneAnswerPerRequest, TakeRequest
  PROVE  /\ serving = NoOne /\ serving' \in Clients /\ InQueue(serving')
         /\ \A c \in Clients : InQueue(c)' <=> InQueue(c) /\ c # serving'
         /\ \A i, j \in DOMAIN requests' : requests'[i] = requests'[j] => i = j
<1> USE ServerAssumption
        DEF OneAnswerPerRequest, InQueue, TypeInv, TypeOK, ServingInv
<1>1. /\ requests # <<>> /\ requests \in Seq(Clients)
      /\ serving' = requests[1]
      /\ Len(requests') = Len(requests) - 1
      /\ \A i \in DOMAIN requests' : requests'[i] = requests[i + 1]
  BY DEF TakeRequest
<1>2. /\ 1 \in DOMAIN requests
      /\ \A i \in DOMAIN requests' : i \in Nat /\ i + 1 \in DOMAIN requests
      /\ \A i \in DOMAIN requests : i = 1 \/ i - 1 \in DOMAIN requests'
  BY <1>1 DEF TakeRequest
<1>3. \A i, j \in DOMAIN requests' : requests'[i] = requests'[j] => i = j
  BY <1>1, <1>2
<1>4. ASSUME NEW c \in Clients
      PROVE  InQueue(c)' <=> InQueue(c) /\ c # serving'
  <2>1. ASSUME InQueue(c)' PROVE InQueue(c) /\ c # serving'
    <3>1. PICK i \in DOMAIN requests' : requests'[i] = c
      BY <2>1
    <3>2. i + 1 \in DOMAIN requests /\ requests[i + 1] = c /\ i + 1 # 1
      BY <3>1, <1>1, <1>2
    <3>3. QED BY <3>2, <1>1, <1>2
  <2>2. ASSUME InQueue(c), c # serving' PROVE InQueue(c)'
    <3>1. PICK i \in DOMAIN requests : requests[i] = c
      BY <2>2
    <3>2. i # 1 /\ i \in Nat /\ i - 1 \in DOMAIN requests'
      BY <3>1, <2>2, <1>1, <1>2
    <3>3. requests'[i - 1] = c
      <4>1. requests'[i - 1] = requests[(i - 1) + 1]
        BY <3>2, <1>1
      <4>2. (i - 1) + 1 = i
        BY <3>2
      <4>3. QED BY <4>1, <4>2, <3>1
    <3>4. QED BY <3>2, <3>3
  <2>3. QED BY <2>1, <2>2
<1>5. serving = NoOne /\ serving' \in Clients /\ InQueue(serving')
  <2>1. serving = NoOne
    BY DEF TakeRequest
  <2>2. requests[1] \in Clients
    BY <1>1, <1>2
  <2>3. \E i \in DOMAIN requests : requests[i] = serving'
    BY <1>1, <1>2
  <2>4. QED BY <2>1, <2>2, <2>3, <1>1
<1>6. QED BY <1>3, <1>4, <1>5

LEMMA Queued ==
  ASSUME TypeInv, OneAnswerPerRequest, NEW c \in Clients, PutRequest(c)
  PROVE  /\ \A d \in Clients : InQueue(d)' <=> InQueue(d) \/ d = c
         /\ ~InQueue(c) /\ serving # c /\ response[c] = "none"
         /\ \A i, j \in DOMAIN requests' : requests'[i] = requests'[j] => i = j
<1> USE ServerAssumption
        DEF OneAnswerPerRequest, InQueue, TypeInv, TypeOK, ServingInv
<1>1. /\ DOMAIN requests' = DOMAIN requests \cup {Len(requests) + 1}
      /\ requests'[Len(requests) + 1] = c
      /\ \A i \in DOMAIN requests : requests'[i] = requests[i]
  BY DEF PutRequest
<1>2. \A d \in Clients : InQueue(d)' <=> InQueue(d) \/ d = c
  BY <1>1
<1>3. ~InQueue(c) /\ serving # c /\ response[c] = "none"
  BY DEF PutRequest
<1>4. \A i, j \in DOMAIN requests' : requests'[i] = requests'[j] => i = j
  BY <1>1, <1>3
<1>5. QED BY <1>2, <1>3, <1>4

-----------------------------------------------------------------------------
\* One request, one answer, one collection (debugserver.py:70-75 and :85-103),
\* for any number of connections: a request is never in two places, and a
\* connection's thread is blocked exactly while its request is somewhere.
THEOREM OneAnswer == Spec => []OneAnswerPerRequest
<1> USE ServerAssumption DEF OneAnswerPerRequest, InQueue
<1>1. Init => OneAnswerPerRequest
  BY DEF Init
<1>2. TypeInv /\ OneAnswerPerRequest /\ [Next]_vars => OneAnswerPerRequest'
  <2> SUFFICES ASSUME TypeInv, OneAnswerPerRequest, [Next]_vars
               PROVE  OneAnswerPerRequest'
    OBVIOUS
  <2> USE DEF TypeInv, TypeOK, ServingInv
  <2>1. CASE Poll BY <2>1 DEF Poll, clientVars
  <2>2. CASE TakeRequest
    <3>1. /\ serving = NoOne /\ serving' \in Clients /\ InQueue(serving')
          /\ \A c \in Clients : InQueue(c)' <=> InQueue(c) /\ c # serving'
          /\ \A i, j \in DOMAIN requests' : requests'[i] = requests'[j] => i = j
      BY <2>2, Taken
    <3>2. QED BY <2>2, <3>1 DEF TakeRequest, clientVars
  <2>3. CASE StopTaking BY <2>3 DEF StopTaking, clientVars
  <2>4. CASE AnswerRequest BY <2>4 DEF AnswerRequest, Outcomes, clientVars
  <2>5. CASE CheckEmpty BY <2>5 DEF CheckEmpty, clientVars
  <2>6. CASE UpdateFlag BY <2>6 DEF UpdateFlag, clientVars
  <2>7. CASE RunBody BY <2>7 DEF RunBody, clientVars
  <2>8. ASSUME NEW c \in Clients,
               ClientThread(c) \/ PeerSends(c) \/ PeerCloses(c) \/ Accept(c)
        PROVE  OneAnswerPerRequest'
    <3>1. CASE AnswerMalformed(c) BY <3>1 DEF AnswerMalformed, Resume, cpuVars
    <3>2. CASE PutRequest(c)
      <4>1. /\ \A d \in Clients : InQueue(d)' <=> InQueue(d) \/ d = c
            /\ ~InQueue(c) /\ serving # c /\ response[c] = "none"
            /\ \A i, j \in DOMAIN requests' : requests'[i] = requests'[j] => i = j
        BY <3>2, Queued
      <4>2. QED BY <3>2, <4>1 DEF PutRequest, cpuVars
    <3>3. CASE SetPending(c) BY <3>3 DEF SetPending, cpuVars
    <3>4. CASE CollectResponse(c) BY <3>4 DEF CollectResponse, Resume, cpuVars
    <3>5. CASE EndOfStream(c) BY <3>5 DEF EndOfStream, cpuVars
    <3>6. CASE PeerSends(c) BY <3>6 DEF PeerSends, cpuVars
    <3>7. CASE PeerCloses(c) BY <3>7 DEF PeerCloses, cpuVars
    <3>8. CASE Accept(c) BY <3>8 DEF Accept, cpuVars
    <3>9. QED
      BY <2>8, <3>1, <3>2, <3>3, <3>4, <3>5, <3>6, <3>7, <3>8 DEF ClientThread
  <2>9. CASE UNCHANGED vars BY <2>9 DEF vars, clientVars, cpuVars
  <2>10. QED
    BY <2>1, <2>2, <2>3, <2>4, <2>5, <2>6, <2>7, <2>8, <2>9 DEF Next, MainLoop
<1>3. QED BY <1>1, <1>2, TypeCorrect, PTL DEF Spec

-----------------------------------------------------------------------------
(* The service is implemented. *)

\* Steps that touch none of the places where a request may be.
LEMMA Unmoved ==
  ASSUME UNCHANGED <<response, requests, serving>>
  PROVE  status' = status
BY DEF status, InQueue

\* Every step of the threads, the queue, the event and the lock is one of the
\* service's on a single request, or none that the service knows of: putting a
\* request asks, the handler's answer answers, and taking a request from the
\* queue is invisible (debugserver.py:70-75, :85-103).
THEOREM ServerRefines == Spec => Service!Init /\ [][Service!Next]_status
<1>1. Init => Service!Init
  BY ServerAssumption DEF Init, Service!Init, status, InQueue
<1>2. ASSUME TypeInv, OneAnswerPerRequest, [Next]_vars
      PROVE  Service!Next \/ status' = status
  <2> USE ServerAssumption DEF TypeInv, TypeOK, ServingInv
  <2>1. status = [c \in Clients |-> IF response[c] # "none" THEN "answered"
                                    ELSE IF InQueue(c) \/ serving = c THEN "asked"
                                    ELSE "idle"]
    BY DEF status
  <2>2. status' = [c \in Clients |-> IF response'[c] # "none" THEN "answered"
                                     ELSE IF InQueue(c)' \/ serving' = c THEN "asked"
                                     ELSE "idle"]
    BY DEF status
  <2>3. CASE TakeRequest
    <3>1. /\ serving = NoOne /\ serving' \in Clients /\ InQueue(serving')
          /\ \A c \in Clients : InQueue(c)' <=> InQueue(c) /\ c # serving'
      BY <1>2, <2>3, Taken
    <3>2. response' = response
      BY <2>3 DEF TakeRequest
    <3>3. \A c \in Clients : InQueue(c)' \/ serving' = c <=> InQueue(c) \/ serving = c
      BY <3>1
    <3>4. QED BY <2>1, <2>2, <3>2, <3>3
  <2>4. CASE AnswerRequest
    <3>1. /\ serving \in Clients /\ serving' = NoOne /\ response[serving] = "none"
          /\ requests' = requests
          /\ \E outcome \in Outcomes : response' = [response EXCEPT ![serving] = outcome]
      BY <1>2, <2>4 DEF AnswerRequest
    <3>2. \A c \in Clients : InQueue(c)' = InQueue(c)
      BY <3>1 DEF InQueue
    <3>3. response'[serving] # "none"
          /\ \A c \in Clients \ {serving} : response'[c] = response[c]
      BY <1>2, <3>1 DEF Outcomes
    <3>4. status[serving] = "asked" /\ status' = [status EXCEPT ![serving] = "answered"]
      BY <2>1, <2>2, <3>1, <3>2, <3>3
    <3>5. QED BY <3>1, <3>4 DEF Service!Next, Service!Answer
  <2>5. ASSUME NEW c \in Clients, PutRequest(c)
        PROVE  Service!Next
    <3>1. /\ \A d \in Clients : InQueue(d)' <=> InQueue(d) \/ d = c
          /\ ~InQueue(c) /\ serving # c /\ response[c] = "none"
      BY <1>2, <2>5, Queued
    <3>2. UNCHANGED <<response, serving>>
      BY <2>5 DEF PutRequest, cpuVars
    <3>3. status[c] = "idle" /\ status' = [status EXCEPT ![c] = "asked"]
      BY <2>1, <2>2, <3>1, <3>2
    <3>4. QED BY <3>3 DEF Service!Next, Service!Ask
  <2>6. ASSUME NEW c \in Clients, CollectResponse(c)
        PROVE  Service!Next
    <3>1. /\ response[c] # "none" /\ response' = [response EXCEPT ![c] = "none"]
          /\ UNCHANGED <<requests, serving>>
      BY <2>6 DEF CollectResponse, cpuVars
    <3>2. ~InQueue(c) /\ serving # c
      BY <1>2, <3>1 DEF OneAnswerPerRequest
    <3>3. \A d \in Clients : InQueue(d)' = InQueue(d)
      BY <3>1 DEF InQueue
    <3>4. response'[c] = "none" /\ \A d \in Clients \ {c} : response'[d] = response[d]
      BY <1>2, <3>1
    <3>5. status[c] = "answered" /\ status' = [status EXCEPT ![c] = "idle"]
      BY <2>1, <2>2, <3>1, <3>2, <3>3, <3>4
    <3>6. QED BY <3>5 DEF Service!Next, Service!Collect
  <2>7. CASE Poll \/ StopTaking \/ CheckEmpty \/ UpdateFlag \/ RunBody
    BY <2>7, Unmoved DEF Poll, StopTaking, CheckEmpty, UpdateFlag, RunBody
  <2>8. ASSUME NEW c \in Clients,
               \/ AnswerMalformed(c) \/ SetPending(c) \/ EndOfStream(c)
               \/ PeerSends(c) \/ PeerCloses(c) \/ Accept(c)
        PROVE  status' = status
    BY <2>8, Unmoved
       DEF AnswerMalformed, SetPending, EndOfStream, PeerSends, PeerCloses, Accept, cpuVars
  <2>9. CASE UNCHANGED vars
    BY <2>9, Unmoved DEF vars, cpuVars
  <2>10. QED
    BY <1>2, <2>3, <2>4, <2>5, <2>6, <2>7, <2>8, <2>9 DEF Next, MainLoop, ClientThread
<1>3. TypeInv /\ OneAnswerPerRequest /\ [Next]_vars => [Service!Next]_status
  BY <1>2
<1>4. QED BY <1>1, <1>3, TypeCorrect, OneAnswer, PTL DEF Spec
=============================================================================
