------------------------------- MODULE Rings --------------------------------
(***************************************************************************)
(* The bounded recorders a debugger client pages through: the instruction  *)
(* trace (debugtrace.py), the hardware trace (debughardware.py), the video *)
(* history (videohistory.py) and the serial port's output (uart8250.py),   *)
(* with the requests of main.py that start, stop and reset them.  They     *)
(* number their events and spell their cursors differently.  A behaviour   *)
(* is about one of them; the number an event was produced as is its        *)
(* content.  Filters, formats and bounds of the limit are left out.        *)
(***************************************************************************)
EXTENDS Integers, Sequences, SequencesExt

CONSTANTS
  Recorders,      \* a subset of {"trace", "hardware", "video", "serial"}
  MaxSize,        \* the largest capacity, 65536 or 1000000
  MaxEvents,      \* bound: events ever produced
  MaxRuns,        \* bound: recordings ever started or imported
  Limits,         \* limits a client asks for
  NoCursor        \* a null cursor

ASSUME RingsAssumption ==
  /\ Recorders \subseteq {"trace", "hardware", "video", "serial"}
  /\ MaxSize \in Nat \ {0} /\ Limits \subseteq Nat \ {0}
  /\ NoCursor \notin Int

VARIABLES
  recorder,       \* which of them this is about
  run,            \* recordings started, or imported ones of the serial port;
                  \* the video history's _generation
  started, active,
  size,           \* its capacity, or the instructions still to come
  nextSeq,        \* _next_sequence, _next, tx_next
  events,         \* what is retained, each with its sequence and its content
  lost,           \* _dropped, _lost
  produced,       \* history: events ever produced
  origin,         \* history: events produced before this recording
  client          \* a client: the recording it follows, the cursor it was given
                  \* last, where that page ended, what it got since its last
                  \* null cursor, and, once it is told that there is no next
                  \* page, the events produced by then

ringVars == <<recorder, run, started, active, size, nextSeq, events, lost,
              produced, origin, client>>

Newcomer == [run |-> 0, cursor |-> NoCursor, end |-> NoCursor, got |-> <<>>,
             upto |-> NoCursor]
First == IF events = <<>> THEN nextSeq ELSE Head(events).seq

RingsInit ==
  /\ recorder \in Recorders
  /\ run = (IF recorder = "serial" THEN 1 ELSE 0)
  /\ started = (recorder = "serial") /\ active = (recorder = "serial")
  /\ size = MaxSize
  /\ nextSeq = 0 /\ events = <<>> /\ lost = 0
  /\ produced = 0 /\ origin = 0
  /\ client = Newcomer

-----------------------------------------------------------------------------
(* Recording. *)

Begin(n, firstSeq) ==
  /\ ~active /\ run < MaxRuns
  /\ run' = run + 1 /\ started' = TRUE /\ active' = TRUE
  /\ size' = n /\ nextSeq' = firstSeq /\ events' = <<>> /\ lost' = 0
  /\ origin' = produced
  /\ UNCHANGED <<recorder, produced, client>>

StartTrace(n) == recorder = "trace" /\ Begin(n, 0)
StartHardware(n) == recorder = "hardware" /\ Begin(n, 1)
StartVideo(n) == recorder = "video" /\ Begin(n, 1)

Produce ==
  /\ active /\ produced < MaxEvents
  /\ produced' = produced + 1
  /\ nextSeq' = nextSeq + 1
  /\ UNCHANGED <<recorder, run, started, origin, client>>

Event == [seq |-> nextSeq, content |-> produced]

\* TraceRecorder.capture: size instructions, and then no more.
CaptureTrace ==
  /\ recorder = "trace" /\ Produce
  /\ events' = Append(events, Event)
  /\ size' = size - 1 /\ active' = (size > 1)
  /\ UNCHANGED lost

\* A deque at its capacity loses its oldest event.
Kept(n) == IF Len(events) < n THEN Append(events, Event) ELSE Append(Tail(events), Event)

\* HardwareTraceRecorder.capture
CaptureHardware ==
  /\ recorder = "hardware" /\ Produce
  /\ events' = Kept(size)
  /\ lost' = IF Len(events) < size THEN lost ELSE lost + 1
  /\ UNCHANGED <<active, size>>

\* Mutant: a loss is not counted.
AppendVideoSilently ==
  /\ recorder = "video" /\ Produce
  /\ events' = Kept(size)
  /\ UNCHANGED <<active, size, lost>>

\* VideoHistory._append
AppendVideo ==
  /\ recorder = "video" /\ Produce
  /\ events' = Kept(size)
  /\ lost' = IF Len(events) = size THEN lost + 1 ELSE lost
  /\ UNCHANGED <<active, size>>

\* The guest writes the transmit holding register.
Transmit ==
  /\ recorder = "serial" /\ Produce
  /\ events' = Kept(size)
  /\ UNCHANGED <<active, size, lost>>

\* trace.stop, hardware.trace.stop, video.history.stop
Stop ==
  /\ recorder # "serial" /\ started
  /\ active' = FALSE
  /\ UNCHANGED <<recorder, run, started, size, nextSeq, events, lost, produced, origin, client>>

\* An imported machine snapshot: the traces are new objects, the history is
\* reset, and the serial port has the output and the offsets of the snapshot.
Import ==
  /\ recorder # "serial"
  /\ started' = FALSE /\ active' = FALSE
  /\ events' = <<>> /\ lost' = 0
  /\ nextSeq' = IF recorder = "video" THEN nextSeq ELSE 0
  /\ UNCHANGED <<recorder, run, size, produced, origin, client>>

ImportSerial(sent, kept) ==
  /\ recorder = "serial" /\ run < MaxRuns
  /\ kept <= sent
  /\ run' = run + 1
  /\ nextSeq' = sent /\ produced' = sent
  /\ events' = [i \in 1..kept |-> [seq |-> sent - kept + i - 1,
                                  content |-> sent - kept + i - 1]]
  /\ UNCHANGED <<recorder, started, active, size, lost, origin, client>>

-----------------------------------------------------------------------------
(* Reading.  A page is the events it has, where it ends, and the cursor to   *)
(* go on with: null tells the client that there is nothing more at present.  *)

\* The events from a sequence number on, as the readers go through them.
From(start) ==
  LET kept[i \in 0..Len(events)] ==
        IF i = 0 THEN <<>>
        ELSE IF events[i].seq >= start THEN Append(kept[i - 1], events[i]) ELSE kept[i - 1]
  IN kept[Len(events)]

UpTo(limit, s) == SubSeq(s, 1, IF limit < Len(s) THEN limit ELSE Len(s))
Refused == [ok |-> FALSE]
Paged(page, end, more) ==
  [ok |-> TRUE, events |-> page, end |-> end, next |-> IF more THEN end ELSE NoCursor]

\* TraceRecorder.read: a cursor is an index.
TracePage(c, limit) ==
  LET offset == IF c = NoCursor THEN 0 ELSE c
      end == IF offset + limit < Len(events) THEN offset + limit ELSE Len(events)
  IN IF ~started \/ offset > Len(events) THEN Refused
     ELSE Paged(SubSeq(events, offset + 1, end), end, active \/ end < Len(events))

\* Mutant: a cursor that expired gets what is left.
HardwarePageLeftover(c, limit) ==
  LET start == IF c = NoCursor THEN First ELSE c + 1
      page == UpTo(limit, From(start))
      end == IF page = <<>> THEN start - 1 ELSE Last(page).seq
  IN IF ~started \/ start > nextSeq THEN Refused
     ELSE Paged(page, end, end < nextSeq - 1)

\* HardwareTraceRecorder.read: a cursor is the last event read.  A reader that has
\* caught up is given none, while the recording goes on, too.
HardwarePage(c, limit) ==
  LET start == IF c = NoCursor THEN First ELSE c + 1
      page == UpTo(limit, From(start))
      end == IF page = <<>> THEN start - 1 ELSE Last(page).seq
  IN IF ~started \/ start < First \/ start > nextSeq THEN Refused
     ELSE Paged(page, end, end < nextSeq - 1)

\* VideoHistory.read, of the recording the client names.
VideoPage(id, c, limit) ==
  LET first == nextSeq - Len(events)
      after == IF c = NoCursor THEN first - 1 ELSE c
      page == UpTo(limit, From(after + 1))
      end == IF page = <<>> THEN after ELSE Last(page).seq
  IN IF id # run \/ ~started \/ after < first - 1 \/ after >= nextSeq THEN Refused
     ELSE Paged(page, end, end < nextSeq - 1)

\* host_read: a cursor is an offset into all that was ever sent, and never null.
SerialPage(c, limit) ==
  LET start == nextSeq - Len(events)
      page == UpTo(limit, SubSeq(events, c - start + 1, Len(events)))
  IN IF c = NoCursor \/ ~(c \in start..nextSeq) THEN Refused
     ELSE Paged(page, c + Len(page), TRUE)

Page(c, limit) ==
  CASE recorder = "trace" -> TracePage(c, limit)
    [] recorder = "hardware" -> HardwarePage(c, limit)
    [] recorder = "video" -> VideoPage(client.run, c, limit)
    [] recorder = "serial" -> SerialPage(c, limit)

\* The client begins to follow the present recording, from its oldest event: with
\* a null cursor, or at the tx_start of serial.status.
Follow ==
  /\ started /\ client.run # run
  /\ LET start == IF recorder = "serial" THEN nextSeq - Len(events) ELSE NoCursor
     IN client' = [Newcomer EXCEPT !.run = run, !.cursor = start, !.end = start]
  /\ UNCHANGED <<recorder, run, started, active, size, nextSeq, events, lost, produced, origin>>

\* trace.read, hardware.trace.read, video.history.read, serial.read, with the
\* cursor of the last page or the end of it, its last sequence (which for the
\* video history JSON_RPC_API.md:485-487 tells clients to pass after a null
\* cursor).  A null cursor starts again at the oldest event there is.
Read(c, limit) ==
  /\ client.run # 0
  /\ Page(c, limit).ok
  /\ LET page == Page(c, limit)
         contents == [i \in DOMAIN page.events |-> page.events[i].content]
     IN client' = [client EXCEPT
          !.cursor = page.next,
          !.end = page.end,
          !.got = IF c = NoCursor THEN contents ELSE @ \o contents,
          !.upto = IF page.next = NoCursor THEN produced ELSE NoCursor]
  /\ UNCHANGED <<recorder, run, started, active, size, nextSeq, events, lost, produced, origin>>

RingsNext ==
  \/ \E n \in 1..MaxSize : StartTrace(n) \/ StartHardware(n) \/ StartVideo(n)
  \/ CaptureTrace \/ CaptureHardware \/ AppendVideo \/ Transmit
  \/ Stop \/ Import \/ \E sent \in 0..MaxEvents, kept \in 0..MaxSize : ImportSerial(sent, kept)
  \/ Follow \/ \E c \in {client.cursor, client.end}, limit \in Limits : Read(c, limit)

RingsSpec == RingsInit /\ [][RingsNext]_ringVars

-----------------------------------------------------------------------------
PagesGapless ==
  client.run = run \/ recorder = "video" =>
    \A i \in 1..Len(client.got) - 1 : client.got[i + 1] = client.got[i] + 1

CompleteUnlessLost ==
  client.upto # NoCursor /\ client.run = run /\ started =>
    /\ client.got # <<>> => Last(client.got) = client.upto - 1
    /\ lost = 0 => client.got = [i \in 1..client.upto - origin |-> origin + i - 1]

\* What a client pages through from a null cursor on, while the recording it
\* follows lasts, is a run of events without a gap, a repetition or an event of
\* another recording, however much the ring overwrites between two pages: a
\* cursor whose events are gone is refused.  This holds whether the client goes
\* on with the cursor it was given or, when that was null, with the sequence it
\* got to; the null cursor itself, which a reader of the hardware trace or of
\* the video history gets each time it has caught up, brings the oldest events
\* again.  An import ends the recording: the video history names its recordings,
\* so there a stale cursor never reads from a later one either, but a stale
\* cursor of the traces and an offset into the serial output may.
\* A reader that was told that there is no next page has the last event there
\* was then and, of a recording that lost none, all of them ("A nonzero
\* lost_events means history is incomplete", JSON_RPC_API.md:487-488).
PagesWhole == PagesGapless /\ CompleteUnlessLost
=============================================================================
