----------------------------- MODULE Checkpoint -----------------------------
(***************************************************************************)
(* machine.snapshot.export and machine.snapshot.import: main.py with       *)
(* machinesnapshots.py, machinecodec.py, diskcodec.py, machineinstall.py   *)
(* and checkpointbundle.py, among the threads that show the display and    *)
(* push keys, with a process that may die at any step and host programs    *)
(* that touch its files.                                                   *)
(*                                                                         *)
(* A state of the machine is a number, and so is the content of a disk     *)
(* image; the guest gives both a new one whenever it runs.  Writing a file *)
(* takes two steps, one of which leaves a part of it.  What an import does *)
(* to execution control is in ExecControl.tla, what it does to the frame   *)
(* cache in Vnc.tla; configurations and the fields of a manifest are left  *)
(* out, so are host directories as disks: an archive that does not fit     *)
(* this emulator is a damaged one.  The machine has one disk, an image.    *)
(***************************************************************************)
EXTENDS Integers, Sequences

CONSTANTS
  Names,          \* paths of archives
  Boot,           \* the image the emulator is started with
  Roots,          \* paths of disk_root directories, each for its disk0
  Absent,         \* no such file
  Part,           \* what a write that did not end has left
  Damaged,        \* an archive whose hashes are not those of its manifest
  Gone,           \* a component whose dictionary is cleared
  Nobody,         \* a lock that is free
  MaxFresh,       \* bound: runs of the guest, boots and edits of host programs
  MaxEdits        \* bound: edits of host programs

VARIABLES
  parts,          \* the state each component is in
  liveDisk,       \* the image the controller reads and writes
  fresh,          \* numbers given so far
  diskOf,         \* history: the content of the disk each state goes with
  archive,        \* what is at each name
  image,          \* what is at each path of an image
  temporary,      \* what is in the temporary file of the present export: one
                  \* that is left behind has a name nobody uses again
  lock,           \* who holds _frame_lock, the display's lock and _state_lock
  request,        \* the request the emulator's thread is in, and where
  thread,         \* what the three other threads do
  acked,          \* history: the archive last acknowledged at each name, unless
                  \* a host program removed it
  edits           \* edits of host programs

files == <<archive, image, temporary>>
machineVars == <<parts, liveDisk, fresh, diskOf>>
checkpointVars == <<machineVars, files, lock, request, thread, acked, edits>>

Images == Roots \cup {Boot}
Locks == {"frame", "display", "state"}
Threads == {"vnc", "telnet", "keys"}      \* beside the "emulator"
Whole == [state : 0..MaxFresh, disk : 0..MaxFresh, mode : {"embed", "reference"}]
Idle == [kind |-> "none", at |-> "none"]

ASSUME CheckpointAssumption ==
  /\ Boot \notin Roots /\ MaxFresh \in Nat /\ MaxEdits \in Nat
  /\ \A c \in {Absent, Part, Damaged} : c \notin Whole /\ c \notin Nat
  /\ Absent # Part /\ Absent # Damaged /\ Part # Damaged
  /\ Gone \notin Nat
  /\ Nobody \notin Threads \cup {"emulator"}

\* install_machine replaces the devices in their order, and then the CPU,
\* the memory and the random numbers, which are one part here.
InstallOrder == <<"keyboard", "video", "xtide", "cpu">>
Components == {InstallOrder[k] : k \in DOMAIN InstallOrder}

\* A behaviour has edits of host programs or the other threads: neither has
\* anything to do with the other.
CheckpointInit ==
  /\ parts = [p \in Components |-> 0]
  /\ liveDisk = Boot /\ fresh = 0
  /\ diskOf = [n \in 0..MaxFresh |-> 0]
  /\ archive = [x \in Names |-> Absent]
  /\ image = [p \in Images |-> IF p = Boot THEN 0 ELSE Absent]
  /\ temporary = Absent
  /\ lock = [l \in Locks |-> Nobody]
  /\ request = Idle
  /\ acked = [x \in Names |-> Absent]
  /\ \/ thread = [t \in Threads |-> "absent"] /\ edits = 0
     \/ thread = [t \in Threads |-> "away"] /\ edits = MaxEdits

-----------------------------------------------------------------------------
\* The guest runs for a while.
Run ==
  /\ request = Idle /\ fresh < MaxFresh
  /\ fresh' = fresh + 1
  /\ parts' = [p \in Components |-> fresh']
  /\ image' = [image EXCEPT ![liveDisk] = fresh']
  /\ diskOf' = [diskOf EXCEPT ![fresh'] = fresh']
  /\ UNCHANGED <<liveDisk, archive, temporary, lock, request, thread, acked, edits>>

Started == [t \in Threads |-> IF thread[t] = "absent" THEN "absent" ELSE "away"]

\* The process dies and is started again, with the disk it is always given.
Restart ==
  /\ fresh < MaxFresh
  /\ fresh' = fresh + 1
  /\ parts' = [p \in Components |-> fresh']
  /\ diskOf' = [diskOf EXCEPT ![fresh'] = image[Boot]]
  /\ liveDisk' = Boot
  /\ lock' = [l \in Locks |-> Nobody]
  /\ request' = Idle /\ thread' = Started
  /\ temporary' = Absent
  /\ UNCHANGED <<archive, image, acked, edits>>

\* A host program damages or removes an archive, or writes the image the
\* emulator was started with after an import gave the guest another one.
EditArchive(x, content) ==
  /\ edits < MaxEdits /\ edits' = edits + 1
  /\ archive[x] # content
  /\ archive' = [archive EXCEPT ![x] = content]
  /\ acked' = [acked EXCEPT ![x] = IF content = Absent THEN Absent ELSE @]
  /\ UNCHANGED <<machineVars, image, temporary, lock, request, thread>>

EditImage ==
  /\ edits < MaxEdits /\ edits' = edits + 1
  /\ fresh < MaxFresh /\ fresh' = fresh + 1
  /\ liveDisk # Boot
  /\ image' = [image EXCEPT ![Boot] = fresh']
  /\ UNCHANGED <<parts, liveDisk, diskOf, archive, temporary, lock, request, thread, acked>>

-----------------------------------------------------------------------------
(* The viewers' threads, and those that push keys: which locks they take,    *)
(* and when they use the display or the keyboard.                            *)

Take(l, t) == lock[l] = Nobody /\ lock' = [lock EXCEPT ![l] = t]
Move(t, from, to) == thread[t] = from /\ thread' = [thread EXCEPT ![t] = to]
Others == <<machineVars, files, request, acked, edits>>

\* _get_frame: the version and the frame are two calls of the display.
VncBegin == Move("vnc", "away", "begun") /\ Take("frame", "vnc") /\ UNCHANGED Others
VncVersion == Move("vnc", "begun", "version") /\ Take("display", "vnc") /\ UNCHANGED Others
VncRender == Move("vnc", "versioned", "render") /\ Take("display", "vnc") /\ UNCHANGED Others
VncLeaveDisplay ==
  /\ \/ Move("vnc", "version", "versioned") \/ Move("vnc", "render", "rendered")
  /\ lock' = [lock EXCEPT !["display"] = Nobody]
  /\ UNCHANGED Others
VncEnd ==       \* a frame that is cached already is not rendered
  /\ \/ Move("vnc", "rendered", "away") \/ Move("vnc", "versioned", "away")
  /\ lock' = [lock EXCEPT !["frame"] = Nobody]
  /\ UNCHANGED Others
VncStep == VncVersion \/ VncRender \/ VncLeaveDisplay \/ VncEnd

TelnetBegin == Move("telnet", "away", "render") /\ Take("display", "telnet") /\ UNCHANGED Others
TelnetEnd == /\ Move("telnet", "render", "away")
             /\ lock' = [lock EXCEPT !["display"] = Nobody]
             /\ UNCHANGED Others

PushBegin == Move("keys", "away", "push") /\ Take("state", "keys") /\ UNCHANGED Others
PushEnd == /\ Move("keys", "push", "away")
           /\ lock' = [lock EXCEPT !["state"] = Nobody]
           /\ UNCHANGED Others

-----------------------------------------------------------------------------
(* A request of the emulator's thread: it takes the locks, works and         *)
(* releases them.  An export goes on with its file after that.               *)

At(kind, place) == request.kind = kind /\ request.at = place
Goto(place) == request' = [request EXCEPT !.at = place]

Export(x, mode) ==
  /\ request = Idle
  /\ request' = [kind |-> "export", at |-> "locks", held |-> 0, name |-> x, mode |-> mode]
  /\ UNCHANGED <<machineVars, files, lock, thread, acked, edits>>

\* The digest is one the client was given or took of the file itself; the
\* reference is the image the emulator was started with, or Absent.
Import(x, expected, root, reference) ==
  /\ request = Idle
  /\ request' = [kind |-> "import", at |-> "locks", held |-> 0, name |-> x,
                 expected |-> expected, root |-> root, reference |-> reference]
  /\ UNCHANGED <<machineVars, files, lock, thread, acked, edits>>

\* Mutants: the display before the frames; no lock on the keyboard.
LockOrderDisplayFirst == <<"display", "frame", "state">>
LockOrderNoKeyboard == <<"frame", "display">>

LockOrder == <<"frame", "display", "state">>

TakeLock ==
  /\ request # Idle /\ request.at = "locks" /\ request.held < Len(LockOrder)
  /\ Take(LockOrder[request.held + 1], "emulator")
  /\ request' = [request EXCEPT !.held = @ + 1,
                   !.at = IF request.held + 1 = Len(LockOrder) THEN "work" ELSE "locks"]
  /\ UNCHANGED <<machineVars, files, thread, acked, edits>>

\* The body of the with statement ends; what is left to do is at `next`.
Release ==
  /\ request # Idle /\ request.at = "release"
  /\ lock' = [l \in Locks |-> IF lock[l] = "emulator" THEN Nobody ELSE lock[l]]
  /\ request' = IF request.kind = "export" THEN [request EXCEPT !.at = "create"] ELSE Idle
  /\ UNCHANGED <<machineVars, files, thread, acked, edits>>

-----------------------------------------------------------------------------
(* Export: capture_machine, then write_bundle.                               *)

Capture ==
  /\ At("export", "work")
  /\ request' = [kind |-> "export", at |-> "release", name |-> request.name,
                 bundle |-> [state |-> parts["cpu"], disk |-> image[liveDisk],
                             mode |-> request.mode]]
  /\ UNCHANGED <<machineVars, files, lock, thread, acked, edits>>

\* Creating the temporary file fails, and nothing is left; or it is there.
Create ==
  /\ At("export", "create")
  /\ \/ request' = Idle /\ UNCHANGED temporary
     \/ Goto("write") /\ temporary' = Part
  /\ UNCHANGED <<machineVars, archive, image, lock, thread, acked, edits>>

\* Mutant: the archive is written where it is to be.
WriteInPlace ==
  /\ At("export", "write")
  /\ \/ Goto("failed") /\ UNCHANGED archive
     \/ Goto("publish") /\ archive' = [archive EXCEPT ![request.name] = Part]
  /\ temporary' = request.bundle
  /\ UNCHANGED <<machineVars, image, lock, thread, acked, edits>>

\* Writing it fails, or it is whole and synchronized.
Write ==
  /\ At("export", "write")
  /\ \/ Goto("failed") /\ UNCHANGED temporary
     \/ Goto("publish") /\ temporary' = request.bundle
  /\ UNCHANGED <<machineVars, archive, image, lock, thread, acked, edits>>

\* Mutant: a rename that replaces what is there.
PublishOver ==
  /\ At("export", "publish")
  /\ Goto("published")
  /\ archive' = [archive EXCEPT ![request.name] = temporary]
  /\ UNCHANGED <<machineVars, image, temporary, lock, thread, acked, edits>>

\* os.link, which refuses a name that is taken.
Publish ==
  /\ At("export", "publish")
  /\ \/ archive[request.name] # Absent /\ Goto("failed") /\ UNCHANGED archive
     \/ /\ archive[request.name] = Absent
        /\ Goto("published")
        /\ archive' = [archive EXCEPT ![request.name] = temporary]
  /\ UNCHANGED <<machineVars, image, temporary, lock, thread, acked, edits>>

\* The temporary file is removed on every path, and the answer reads the size
\* of the archive.  Either may fail, and then the client is told of a failure
\* of what was published.
Unlink ==
  /\ At("export", "failed") \/ At("export", "published")
  /\ temporary' = Absent /\ request' = Idle
  /\ \/ /\ request.at = "published" /\ archive[request.name] # Absent
        /\ acked' = [acked EXCEPT ![request.name] = request.bundle]
     \/ UNCHANGED acked
  /\ UNCHANGED <<machineVars, archive, image, lock, thread, edits>>

-----------------------------------------------------------------------------
(* Import: read_bundle, prepare_machine and install_machine, with the locks  *)
(* held all along.  A refusal before the installation leaves the machine.    *)

\* The digest and the hashes of the manifest are those of what is read.
ReadBundle ==
  /\ At("import", "work")
  /\ \/ /\ archive[request.name] = request.expected
        /\ request.expected \in Whole
        /\ request' = [kind |-> "import", at |-> "validate", bundle |-> request.expected,
                       root |-> request.root, reference |-> request.reference]
     \/ /\ archive[request.name] # request.expected \/ request.expected \notin Whole
        /\ Goto("release")
  /\ UNCHANGED <<machineVars, files, lock, thread, acked, edits>>

\* validate_disk_state: the disk is in the archive, or is the reference.
DiskMatches ==
  IF request.bundle.mode = "embed" THEN request.reference = Absent
  ELSE request.reference \in Images /\ image[request.reference] = request.bundle.disk

\* prepare_machine, up to the first change of a file.
Validate ==
  /\ At("import", "validate")
  /\ Goto(IF DiskMatches THEN "make root" ELSE "release")
  /\ UNCHANGED <<machineVars, files, lock, thread, acked, edits>>

\* Mutant: a directory that is there already will do.
MakeRootAnyway ==
  /\ At("import", "make root")
  /\ \/ Goto("release") /\ UNCHANGED image
     \/ Goto("copy disk") /\ image' = [image EXCEPT ![request.root] = Part]
  /\ UNCHANGED <<machineVars, archive, temporary, lock, thread, acked, edits>>

\* disk_root and its directory must be new, and making them may fail.
MakeRoot ==
  /\ At("import", "make root")
  /\ \/ Goto("release") /\ UNCHANGED image
     \/ /\ image[request.root] = Absent
        /\ Goto("copy disk")
        /\ image' = [image EXCEPT ![request.root] = Part]
  /\ UNCHANGED <<machineVars, archive, temporary, lock, thread, acked, edits>>

Installing(bundle, root) ==
  [kind |-> "import", at |-> "install", bundle |-> bundle, root |-> root, next |-> 1]

\* Mutant: what was validated before is taken to match still.
CopyDiskUnchecked ==
  /\ At("import", "copy disk")
  /\ \/ Goto("release") /\ UNCHANGED image
     \/ /\ request' = Installing(request.bundle, request.root)
        /\ image' = [image EXCEPT ![request.root] =
             IF request.bundle.mode = "embed" THEN request.bundle.disk
             ELSE image[request.reference]]
  /\ UNCHANGED <<machineVars, archive, temporary, lock, thread, acked, edits>>

\* restore_disk_state: the image is validated again as it is read again, and
\* copied; a failure leaves the part of it that was written.
CopyDisk ==
  /\ At("import", "copy disk")
  /\ \/ Goto("release") /\ UNCHANGED image
     \/ /\ DiskMatches
        /\ request' = Installing(request.bundle, request.root)
        /\ image' = [image EXCEPT ![request.root] = request.bundle.disk]
  /\ UNCHANGED <<machineVars, archive, temporary, lock, thread, acked, edits>>

\* One component: its dictionary is cleared, and filled again.
ClearPart ==
  /\ At("import", "install") /\ request.next <= Len(InstallOrder)
  /\ parts[InstallOrder[request.next]] # Gone
  /\ parts' = [parts EXCEPT ![InstallOrder[request.next]] = Gone]
  /\ UNCHANGED <<liveDisk, fresh, diskOf, files, lock, request, thread, acked, edits>>

FillPart ==
  /\ At("import", "install") /\ request.next <= Len(InstallOrder)
  /\ LET p == InstallOrder[request.next]
     IN /\ parts[p] = Gone
        /\ parts' = [parts EXCEPT ![p] = request.bundle.state]
        /\ liveDisk' = IF p = "xtide" THEN request.root ELSE liveDisk
  /\ request' = [request EXCEPT !.next = @ + 1,
                   !.at = IF request.next = Len(InstallOrder) THEN "release" ELSE @]
  /\ UNCHANGED <<fresh, diskOf, files, lock, thread, acked, edits>>

-----------------------------------------------------------------------------
EmulatorStep ==
  \/ Release
  \/ Capture \/ Create \/ Write \/ Publish \/ Unlink
  \/ ReadBundle \/ Validate \/ MakeRoot \/ CopyDisk \/ ClearPart \/ FillPart

Known == {acked[x] : x \in Names} \ {Absent}

CheckpointNext ==
  \/ Run \/ Restart
  \/ \E x \in Names : \E c \in {Absent, Damaged} : EditArchive(x, c)
  \/ EditImage
  \/ \E x \in Names : \E mode \in {"embed", "reference"} : Export(x, mode)
  \/ \E x \in Names : \E c \in Known \cup {archive[x]} : \E r \in Roots :
       \E reference \in {Boot, Absent} : Import(x, c, r, reference)
  \/ TakeLock \/ EmulatorStep
  \/ VncBegin \/ VncStep \/ TelnetBegin \/ TelnetEnd \/ PushBegin \/ PushEnd

\* Threads go on; a lock that is released again and again is taken some time.
CheckpointSpec ==
  /\ CheckpointInit /\ [][CheckpointNext]_checkpointVars
  /\ WF_checkpointVars(EmulatorStep) /\ SF_checkpointVars(TakeLock)
  /\ SF_checkpointVars(VncStep)
  /\ WF_checkpointVars(TelnetEnd) /\ WF_checkpointVars(PushEnd)

-----------------------------------------------------------------------------
AllOfOneState ==
  /\ \A p \in Components : parts[p] = parts["cpu"]
  /\ parts["cpu"] # Gone
  /\ image[liveDisk] = diskOf[parts["cpu"]]

NeverTorn ==
  /\ parts["video"] = Gone =>
       /\ thread["vnc"] \notin {"version", "render"} /\ thread["telnet"] # "render"
  /\ parts["keyboard"] = Gone => thread["keys"] # "push"

\* Whatever requests were refused, failed half-way or died with the process,
\* the machine is all of one state and its disk is the one that goes with
\* that state: an import installs every component or none, and a disk only
\* after the bytes that were copied were checked (machinecodec.py:9-11).
\* While it installs them, no thread renders a display or pushes a key that
\* has been cleared (machineinstall.py:36-38, machinesnapshots.py:52).
OneMachine == (request.at = "install" \/ AllOfOneState) /\ NeverTorn

\* What a name holds is a whole archive, and one that a client was told of is
\* at its name for as long as no host program removes or damages it: no crash
\* or failed write leaves a part of one (checkpointbundle.py:45-73).
PublishedIsWhole ==
  /\ \A x \in Names : archive[x] # Part
  /\ \A x \in Names : acked[x] # Absent => archive[x] \in {acked[x], Damaged}

\* Only the guest writes its disk and only host programs replace what is
\* there: an export never overwrites a file, an import writes to directories
\* of its own, and a reference is copied (diskcodec.py:251-257).
FilesAreKept ==
  [][edits' = edits =>
       /\ \A x \in Names : archive[x] # Absent => archive'[x] = archive[x]
       /\ \A p \in Images : image[p] \notin {Absent, Part} =>
            image'[p] = image[p] \/ (p = liveDisk /\ request = Idle)]_checkpointVars

\* A request ends, whatever locks the viewers and the keyboard's users take
\* one after the other (machinesnapshots.py:45, 52).
RequestsEnd == request # Idle ~> request = Idle
=============================================================================
