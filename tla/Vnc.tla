-------------------------------- MODULE Vnc --------------------------------
(***************************************************************************)
(* vncserver.py with the displays behind it (mda.py, cga.py, vga.py) and   *)
(* machinesnapshots.py: one rendered frame and one history of changed      *)
(* rectangles, shared by the threads of all viewers, while the emulator    *)
(* changes the picture under them.                                         *)
(*                                                                         *)
(* The picture is a row of pixels, a rectangle an interval of them.  The   *)
(* emulator's stores take no lock; rendering holds _frame_lock and writes  *)
(* the adapter's one pixel buffer in place; encoding and sending read that *)
(* buffer outside the lock.  A viewer applies an update as it is read, and *)
(* connects again when its session ends.  CGA.GetFrame renders nothing if  *)
(* the mode changes while it looks for it; a rendering that raises an      *)
(* exception half way is left out.                                         *)
(* Frame sizes, encodings, the compatible mode and the speed overlay,      *)
(* which copies the buffer, are left out; the time between two frames is   *)
(* an arbitrary delay.                                                     *)
(***************************************************************************)
EXTENDS Integers, Sequences, FiniteSets

CONSTANTS
  Viewers,      \* connected sessions
  Slow,         \* viewers that may stop reading
  NoOne,        \* nobody holds _frame_lock
  Width,        \* pixels of the picture
  Colors,       \* what a pixel may show
  Unknown,      \* a pixel no update has been read for
  None,         \* no version, no frame
  History,      \* entries kept in _frame_history (128)
  MaxChanges,   \* bound: changes of the picture and of a viewer's format
  MaxRestores   \* bound: restored machine snapshots

ASSUME VncAssumption ==
  /\ Slow \subseteq Viewers /\ NoOne \notin Viewers
  /\ Width \in Nat \ {0} /\ History \in Nat \ {0}
  /\ MaxChanges \in Nat /\ MaxRestores \in Nat
  /\ Colors # {} /\ Unknown \notin Colors
  /\ \A e \in 0..MaxRestores, n \in 1..(MaxChanges + 1) : None # <<e, n>>
  /\ None \notin [1..Width -> Colors]

VARIABLES
  vram,         \* the guest's video memory and registers
  version,      \* _frame_version of the adapter
  epoch,        \* LockedDisplay.epoch
  emulating,    \* what is left of a change: mark it, or carry it out
  lastChange,   \* how the picture was changed last
  changes,      \* changes so far
  lock,         \* _frame_lock
  pixels,       \* _pixels of the adapter, one buffer per epoch
  cached,       \* _frame_cache_version; its frame is pixels[epoch],
  framed,       \* or None: GetFrame rendered nothing
  snapshot,     \* _frame_snapshot
  history,      \* _frame_history
  at,           \* what a viewer's thread does
  todo,         \* pixels it has yet to render or to read
  sampled,      \* the version it renders or sends
  incremental,  \* whether the viewer asked for changes only
  sent,         \* sent_frame_version
  shown         \* what the viewer shows

displayVars == <<vram, version, epoch, emulating, lastChange, changes>>
serverVars == <<lock, pixels, cached, framed, snapshot, history>>
sessionVars == <<at, todo, sampled, incremental, sent, shown>>
vars == <<displayVars, serverVars, sessionVars>>

Picture == 1..Width
Blank == [p \in Picture |-> CHOOSE c \in Colors : TRUE]
Idle == [kind |-> "idle"]

Init ==
  /\ vram = Blank /\ version = 1 /\ epoch = 0
  /\ emulating = Idle /\ lastChange = "none" /\ changes = 0
  /\ lock = NoOne
  /\ pixels = [e \in 0..MaxRestores |-> Blank]
  /\ cached = None /\ framed = TRUE /\ snapshot = None /\ history = <<>>
  /\ at = [v \in Viewers |-> "waiting"]
  /\ todo = [v \in Viewers |-> {}]
  /\ sampled = [v \in Viewers |-> None]
  /\ incremental = [v \in Viewers |-> FALSE]
  /\ sent = [v \in Viewers |-> None]
  /\ shown = [v \in Viewers |-> [p \in Picture |-> Unknown]]

-----------------------------------------------------------------------------
(* The emulator thread.  A store to video memory is marked after it (MDA and *)
(* CGA WriteByte, VGA WriteByte), and so is CGA's mode.  Other port writes   *)
(* are marked before the colours they select are in use (VGA IO_Write and    *)
(* Tick; CGA, whose Tick changes the palette line by line later on).         *)

StoreByte(p, c) ==
  /\ emulating = Idle /\ changes < MaxChanges
  /\ vram[p] # c
  /\ vram' = [vram EXCEPT ![p] = c]
  /\ emulating' = [kind |-> "mark"]
  /\ lastChange' = "store" /\ changes' = changes + 1
  /\ UNCHANGED <<version, epoch, serverVars, sessionVars>>

MarkFrameDirty ==
  /\ emulating.kind = "mark"
  /\ version' = version + 1
  /\ emulating' = Idle
  /\ UNCHANGED <<vram, epoch, lastChange, changes, serverVars, sessionVars>>

WritePort(p, c) ==
  /\ emulating = Idle /\ changes < MaxChanges
  /\ vram[p] # c
  /\ version' = version + 1
  /\ emulating' = [kind |-> "palette", pixel |-> p, color |-> c]
  /\ lastChange' = "port" /\ changes' = changes + 1
  /\ UNCHANGED <<vram, epoch, serverVars, sessionVars>>

ChangePalette ==
  /\ emulating.kind = "palette"
  /\ vram' = [vram EXCEPT ![emulating.pixel] = emulating.color]
  /\ emulating' = Idle
  /\ UNCHANGED <<version, epoch, lastChange, changes, serverVars, sessionVars>>

\* Mutant: the restored version number is all a viewer compares.
RestoreMachineInPlace ==
  /\ emulating = Idle /\ lock = NoOne
  /\ changes < MaxChanges
  /\ vram' = Blank /\ version' = 1
  /\ lastChange' = "restore" /\ changes' = changes + 1
  /\ cached' = None /\ framed' = TRUE /\ snapshot' = None /\ history' = <<>>
  /\ UNCHANGED <<epoch, emulating, lock, pixels, sessionVars>>

\* The snapshot in the file was taken before the first change.
RestoreMachine ==
  /\ emulating = Idle /\ lock = NoOne
  /\ epoch < MaxRestores
  /\ vram' = Blank /\ version' = 1
  /\ epoch' = epoch + 1
  /\ lastChange' = "restore"
  /\ cached' = None /\ framed' = TRUE /\ snapshot' = None /\ history' = <<>>
  /\ UNCHANGED <<emulating, changes, lock, pixels, sessionVars>>

Emulator ==
  \/ \E p \in Picture, c \in Colors : StoreByte(p, c) \/ WritePort(p, c)
  \/ MarkFrameDirty \/ ChangePalette \/ RestoreMachine

-----------------------------------------------------------------------------
(* Rectangles. *)

Hull(S) == {p \in Picture : \E a, b \in S : a <= p /\ p <= b}

DiffRect(old, new) ==
  IF old = None THEN Picture ELSE Hull({p \in Picture : old[p] # new[p]})

\* Mutant: the history keeps one entry too many.
LastOfLate(s) == IF Len(s) <= History + 1 THEN s ELSE SubSeq(s, Len(s) - History, Len(s))

LastOf(s) == IF Len(s) <= History THEN s ELSE SubSeq(s, Len(s) - History + 1, Len(s))

Places(v, h) == {i \in DOMAIN h : h[i].version = v}
First(S) == CHOOSE i \in S : \A j \in S : i <= j

\* _rect_since
RectSince(v, current, h) ==
  IF v = None THEN Picture
  ELSE IF v = current THEN {}
  ELSE IF Places(v, h) = {} THEN Picture
  ELSE LET later == {i \in DOMAIN h : i > First(Places(v, h))}
           ends == {i \in later : h[i].version = current}
       IN  IF ends = {} THEN Picture
           ELSE Hull(UNION {h[i].rect : i \in {j \in later : j <= First(ends)}})

-----------------------------------------------------------------------------
(* A viewer's thread. *)

Goes(v, place, left) ==
  at' = [at EXCEPT ![v] = place] /\ todo' = [todo EXCEPT ![v] = left]

\* The viewer forgets what it shows in the old format.
SetPixelFormat(v) ==
  /\ at[v] = "waiting"
  /\ changes < MaxChanges
  /\ changes' = changes + 1
  /\ sent' = [sent EXCEPT ![v] = None]
  /\ shown' = [shown EXCEPT ![v] = [p \in Picture |-> Unknown]]
  /\ UNCHANGED <<vram, version, epoch, emulating, lastChange, serverVars,
                 at, todo, sampled, incremental>>

\* The end of the transaction: what to send is chosen, the lock given back.
Sends(v, inc, stamp, h) ==
  /\ Goes(v, "sending", IF inc THEN RectSince(sent[v], stamp, h) ELSE Picture)
  /\ lock' = NoOne

\* A frame that is None ends the thread; the viewer connects again.
NewSession(v) ==
  /\ Goes(v, "waiting", {})
  /\ sampled' = [sampled EXCEPT ![v] = None]
  /\ incremental' = [incremental EXCEPT ![v] = FALSE]
  /\ sent' = [sent EXCEPT ![v] = None]
  /\ shown' = [shown EXCEPT ![v] = [p \in Picture |-> Unknown]]

FindsNoFrame(v) ==
  /\ at[v] = "waiting"
  /\ lock = NoOne
  /\ cached = <<epoch, version>> /\ ~framed
  /\ NewSession(v)
  /\ UNCHANGED <<displayVars, serverVars>>

\* FramebufferUpdateRequest and the beginning of VNCSendFrame: the version is
\* sampled first; a cached frame of that version is not rendered again.
SampleVersion(v, inc) ==
  /\ at[v] = "waiting"
  /\ lock = NoOne
  /\ cached = <<epoch, version>> => framed
  /\ sampled' = [sampled EXCEPT ![v] = <<epoch, version>>]
  /\ incremental' = [incremental EXCEPT ![v] = inc]
  /\ IF cached = <<epoch, version>>
     THEN Sends(v, inc, cached, history)
     ELSE Goes(v, "rendering", Picture) /\ lock' = v
  /\ UNCHANGED <<displayVars, pixels, cached, framed, snapshot, history, sent, shown>>

\* CGA's mode changed between GetFrame's tests of it, and the write that
\* changes it has yet to mark the picture: the version is cached without a
\* frame, and the exception that unpacks None gives the lock back.
RenderNothing(v) ==
  /\ at[v] = "rendering" /\ todo[v] = Picture
  /\ emulating.kind = "mark"
  /\ cached' = sampled[v] /\ framed' = FALSE
  /\ lock' = NoOne
  /\ NewSession(v)
  /\ UNCHANGED <<displayVars, pixels, snapshot, history>>

RenderPixel(v) ==
  /\ at[v] = "rendering" /\ todo[v] # {}
  /\ LET p == First(todo[v])
     IN  /\ pixels' = [pixels EXCEPT ![epoch][p] = vram[p]]
         /\ Goes(v, "rendering", todo[v] \ {p})
  /\ UNCHANGED <<displayVars, lock, cached, framed, snapshot, history,
                 sampled, incremental, sent, shown>>

\* Mutant: the snapshot is the adapter's buffer itself, not a copy.
CacheFrameShared(v) ==
  /\ at[v] = "rendering" /\ todo[v] = {}
  /\ cached' = sampled[v] /\ framed' = TRUE
  /\ history' = LastOf(Append(history,
       [version |-> sampled[v], rect |-> IF snapshot = None THEN Picture ELSE {}]))
  /\ snapshot' = pixels[epoch]
  /\ Sends(v, incremental[v], cached', history')
  /\ UNCHANGED <<displayVars, pixels, sampled, incremental, sent, shown>>

CacheFrame(v) ==
  /\ at[v] = "rendering" /\ todo[v] = {}
  /\ cached' = sampled[v] /\ framed' = TRUE
  /\ history' = LastOf(Append(history,
       [version |-> sampled[v], rect |-> DiffRect(snapshot, pixels[epoch])]))
  /\ snapshot' = pixels[epoch]
  /\ Sends(v, incremental[v], cached', history')
  /\ UNCHANGED <<displayVars, pixels, sampled, incremental, sent, shown>>

\* The viewer has read it all.
FrameSent(v) ==
  /\ sent' = [sent EXCEPT ![v] = sampled[v]]
  /\ sampled' = [sampled EXCEPT ![v] = None]
  /\ incremental' = [incremental EXCEPT ![v] = FALSE]
  /\ Goes(v, "waiting", {})

SendNothing(v) ==
  /\ at[v] = "sending" /\ todo[v] = {}
  /\ FrameSent(v)
  /\ UNCHANGED <<displayVars, serverVars, shown>>

\* The buffer of the sampled epoch, whatever it holds by now.
SendPixel(v) ==
  /\ at[v] = "sending" /\ todo[v] # {}
  /\ LET p == First(todo[v])
     IN  /\ shown' = [shown EXCEPT ![v][p] = pixels[sampled[v][1]][p]]
         /\ IF todo[v] = {p} THEN FrameSent(v)
            ELSE Goes(v, "sending", todo[v] \ {p}) /\ UNCHANGED <<sampled, incremental, sent>>
  /\ UNCHANGED <<displayVars, serverVars>>

Ask(v) == FindsNoFrame(v) \/ \E inc \in BOOLEAN : SampleVersion(v, inc)
Render(v) == RenderPixel(v) \/ RenderNothing(v) \/ CacheFrame(v)
Send(v) == SendPixel(v) \/ SendNothing(v)

Next ==
  \/ Emulator
  \/ \E v \in Viewers : Ask(v) \/ SetPixelFormat(v) \/ Render(v) \/ Send(v)

Spec == Init /\ [][Next]_vars

\* The emulator finishes what it began, a thread that holds the lock goes on,
\* and a viewer that is not slow goes on asking, gets the lock, and reads.
FairSpec ==
  /\ Spec
  /\ WF_vars(MarkFrameDirty \/ ChangePalette)
  /\ \A v \in Viewers : WF_vars(Render(v))
  /\ \A v \in Viewers \ Slow : SF_vars(Ask(v)) /\ WF_vars(Send(v))

-----------------------------------------------------------------------------
(* Properties *)

Versions == (0..MaxRestores) \X (1..(MaxChanges + 1))
Frames == [Picture -> Colors]

TypeOK ==
  /\ vram \in Frames /\ version \in 1..(MaxChanges + 1) /\ epoch \in 0..MaxRestores
  /\ emulating.kind \in {"idle", "mark", "palette"}
  /\ changes \in 0..MaxChanges
  /\ lock \in Viewers \cup {NoOne}
  /\ pixels \in [0..MaxRestores -> Frames]
  /\ cached \in Versions \cup {None} /\ snapshot \in Frames \cup {None}
  /\ framed \in BOOLEAN
  /\ Len(history) <= History
  /\ at \in [Viewers -> {"waiting", "rendering", "sending"}]
  /\ todo \in [Viewers -> SUBSET Picture]
  /\ \A v \in Viewers : sampled[v] \in Versions \cup {None} /\ sent[v] \in Versions \cup {None}
  /\ \A v \in Viewers : shown[v] \in [Picture -> Colors \cup {Unknown}]

\* Whatever a viewer shows differently from the cached frame lies in the
\* rectangle its next incremental update will send (vncserver.py:230-275),
\* although its last update read a buffer that other threads were rendering,
\* and whichever versions had no frame.
CoveredByNextUpdate ==
  /\ TypeOK
  /\ lock = NoOne /\ cached # None /\ framed =>
       \A v \in Viewers :
         at[v] = "waiting" =>
           {p \in Picture : shown[v][p] # snapshot[p]}
             \subseteq RectSince(sent[v], cached, history)

\* When the picture was last changed by a store to video memory or a restored
\* snapshot, every viewer that goes on reading, and connects again when its
\* session ends, shows it in the end: a version that was cached without a
\* frame is not the last one (vncserver.py:239), and a viewer that does not
\* read holds up nobody (vncserver.py:416-417).
ViewersCatchUp ==
  <>[](lastChange # "port") =>
    \A v \in Viewers \ Slow : <>[](shown[v] = vram)

\* "Return a monotonically increasing version for visible changes" (mda.py:60):
\* every viewer that goes on reading shows the picture in the end.
ViewersShowDisplay ==
  \A v \in Viewers \ Slow : <>[](shown[v] = vram)
=============================================================================
