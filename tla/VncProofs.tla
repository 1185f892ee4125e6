------------------------------ MODULE VncProofs ------------------------------
(* Proofs about Vnc.tla, for any viewers, picture, colours, length of the      *)
(* history and bounds.                                                        *)
EXTENDS Vnc, TLAPS, SequenceTheorems, WellFoundedInduction

Entries == [version : Versions, rect : SUBSET Picture]

Types ==
  /\ TypeOK
  /\ history \in Seq(Entries)
  /\ emulating.kind = "palette" => emulating.pixel \in Picture /\ emulating.color \in Colors
  /\ version <= changes + 1 /\ (emulating.kind = "mark" => version <= changes)
  /\ incremental \in [Viewers -> BOOLEAN]
  /\ sampled \in [Viewers -> Versions \cup {None}]
  /\ sent \in [Viewers -> Versions \cup {None}]
  /\ shown \in [Viewers -> [Picture -> Colors \cup {Unknown}]]

-----------------------------------------------------------------------------
(* The invariants. *)

\* Whoever renders holds the lock, and renders a version that is newer than the
\* cached one.
Rendering ==
  /\ \A v \in Viewers : at[v] = "rendering" <=> lock = v
  /\ cached # None => cached[1] = epoch /\ cached[2] <= version
  /\ \A v \in Viewers : at[v] = "rendering" =>
       /\ sampled[v] # None /\ sampled[v][1] = epoch /\ sampled[v][2] <= version
       /\ cached # None => cached[2] < sampled[v][2]

\* The history is of this epoch, its versions grow, and it ends with the cached
\* frame, unless that version has none.
Recorded ==
  /\ \A i \in DOMAIN history : history[i].version[1] = epoch
  /\ \A i, j \in DOMAIN history : i < j => history[i].version[2] < history[j].version[2]
  /\ history # <<>> => /\ cached # None /\ snapshot # None
                       /\ history[Len(history)].version[2] <= cached[2]
  /\ cached # None /\ framed =>
       history # <<>> /\ history[Len(history)].version = cached

\* Outside of renderings the buffer holds the cached frame; a rendering has
\* not touched what it has yet to render.
Buffered ==
  snapshot # None =>
    /\ lock = NoOne => \A p \in Picture : pixels[epoch][p] = snapshot[p]
    /\ \A v \in Viewers : at[v] = "rendering" =>
         \A p \in todo[v] : pixels[epoch][p] = snapshot[p]

\* The version a viewer's next update starts from, and what it has yet to read
\* of the present one.
Base(v) == IF at[v] = "sending" THEN sampled[v] ELSE sent[v]
Unread(v) == IF at[v] = "sending" THEN todo[v] ELSE {}

\* The history has an entry for a version, and what changed after it.
Has(h, n) == \E i \in DOMAIN h : h[i].version = n
Changed(h, n) == {p \in Picture : \E i \in DOMAIN h : /\ h[i].version[2] > n[2]
                                                      /\ p \in h[i].rect}

\* No viewer starts from a version that is still to be rendered.
BasesKnown ==
  \A v \in Viewers :
    /\ at[v] = "sending" => sampled[v] # None
    /\ Base(v) # None => /\ Base(v)[1] <= epoch
                         /\ Base(v)[1] = epoch => cached # None /\ Base(v)[2] <= cached[2]

\* What a viewer has read and no later entry covers is as in the cached frame,
\* or as it is being rendered.
Agrees(v, p) == shown[v][p] = snapshot[p] \/ shown[v][p] = pixels[epoch][p]

ReadIsCovered ==
  \A v \in Viewers : Has(history, Base(v)) =>
    \A p \in Picture \ (Unread(v) \cup Changed(history, Base(v))) : Agrees(v, p)

VncInv == Types /\ Rendering /\ Recorded /\ Buffered /\ BasesKnown /\ ReadIsCovered

-----------------------------------------------------------------------------
(* The pure part: rectangles, and the history of one epoch. *)

LEMMA NoneApart == None \notin Versions /\ None \notin Frames
BY VncAssumption DEF Versions, Frames, Picture

LEMMA FirstIn ==
  ASSUME NEW S \in SUBSET Picture, S # {}
  PROVE  First(S) \in S
<1>1. S \subseteq Nat
  BY VncAssumption DEF Picture
<1>2. PICK x \in S : \A y \in S : <<y, x>> \notin OpToRel(<, Nat)
  BY <1>1, NatLessThanWellFounded, WFMin
<1>3. \A y \in S : x <= y
  <2> SUFFICES ASSUME NEW y \in S PROVE x <= y
    OBVIOUS
  <2>1. ~(y < x)
    BY <1>1, <1>2 DEF OpToRel
  <2>2. x \in Nat /\ y \in Nat
    BY <1>1
  <2> QED
    BY <2>1, <2>2
<1> QED
  BY <1>3 DEF First

LEMMA FirstOfOne ==
  ASSUME NEW x \in Nat
  PROVE  First({x}) = x
<1>1. \A j \in {x} : x <= j
  OBVIOUS
<1>2. \E i \in {x} : \A j \in {x} : i <= j
  BY <1>1
<1>3. First({x}) \in {x}
  BY <1>2 DEF First
<1> QED
  BY <1>3

LEMMA HullCovers ==
  ASSUME NEW S \in SUBSET Picture
  PROVE  S \subseteq Hull(S) /\ Hull(S) \subseteq Picture
BY VncAssumption DEF Hull, Picture

\* The versions of a history grow.
Grows(h) == \A i, j \in DOMAIN h : i < j => h[i].version[2] < h[j].version[2]

LEMMA EntryTypes ==
  ASSUME NEW h \in Seq(Entries)
  PROVE  /\ Len(h) \in Nat /\ DOMAIN h = 1..Len(h)
         /\ h # <<>> => Len(h) \in DOMAIN h
         /\ \A i \in DOMAIN h : /\ h[i] \in Entries /\ h[i].version \in Versions
                                /\ h[i].version[2] \in Nat /\ h[i].rect \subseteq Picture
<1>1. Len(h) \in Nat /\ DOMAIN h = 1..Len(h) /\ (h # <<>> => Len(h) \in Nat \ {0})
  BY LenProperties, EmptySeq
<1>2. \A i \in DOMAIN h : h[i] \in Entries
  BY <1>1, ElementOfSeq
<1>3. \A x \in Entries : /\ x.version \in Versions /\ x.version[2] \in Nat
                         /\ x.rect \subseteq Picture
  BY DEF Entries, Versions
<1> QED
  BY <1>1, <1>2, <1>3

\* The entries later than one place are those of greater versions.
LEMMA LaterIsGreater ==
  ASSUME NEW h \in Seq(Entries), Grows(h), NEW i \in DOMAIN h, NEW k \in DOMAIN h
  PROVE  /\ k > i <=> h[k].version[2] > h[i].version[2]
         /\ h[k].version = h[i].version => k = i
<1>1. /\ i \in Nat /\ k \in Nat /\ h[i].version[2] \in Nat /\ h[k].version[2] \in Nat
  BY EntryTypes
<1>2. /\ i < k => h[i].version[2] < h[k].version[2]
      /\ k < i => h[k].version[2] < h[i].version[2]
  BY DEF Grows
<1>3. i = k => h[i].version[2] = h[k].version[2]
  OBVIOUS
<1>4. i < k \/ k < i \/ i = k
  BY <1>1
<1> QED
  BY <1>1, <1>2, <1>3, <1>4

\* _rect_since leaves out only what no later entry covers.
LEMMA RectCovers ==
  ASSUME NEW h \in Seq(Entries), Grows(h), h # <<>>,
         NEW n \in Versions \cup {None}, NEW p \in Picture,
         p \notin RectSince(n, h[Len(h)].version, h)
  PROVE  Has(h, n) /\ p \notin Changed(h, n)
<1> DEFINE last == Len(h)
           current == h[last].version
<1>1. /\ last \in DOMAIN h /\ DOMAIN h = 1..last /\ last \in Nat
  BY EntryTypes
<1>2. n # None
  BY DEF RectSince
<1>3. CASE n = current
  <2>1. \A i \in DOMAIN h : ~(h[i].version[2] > n[2])
    BY <1>1, <1>3, LaterIsGreater
  <2> QED
    BY <1>1, <1>3, <2>1 DEF Has, Changed
<1>4. CASE n # current
  <2>1. Places(n, h) # {}
    BY <1>2, <1>4 DEF RectSince
  <2>2. PICK i \in DOMAIN h : h[i].version = n
    BY <2>1 DEF Places
  <2>3. Places(n, h) = {i}
    BY <2>2, LaterIsGreater DEF Places
  <2>4. First({i}) = i /\ First({last}) = last
    BY <1>1, <2>2, FirstOfOne
  <2>5. i # last /\ last > i
    BY <1>1, <1>4, <2>2
  <2> DEFINE later == {k \in DOMAIN h : k > i}
  <2>6. {k \in later : h[k].version = current} = {last}
    BY <1>1, <2>5, LaterIsGreater
  <2>7. {k \in later : k <= last} = later
    BY <1>1
  <2>8. RectSince(n, current, h) = Hull(UNION {h[k].rect : k \in later})
    <3> DEFINE L == {k \in DOMAIN h : k > First(Places(n, h))}
               E == {k \in L : h[k].version = current}
               U == UNION {h[k].rect : k \in {j \in L : j <= First(E)}}
    <3>1. L = later
      BY <2>3, <2>4
    <3>2. E = {last} /\ First(E) = last
      BY <2>4, <2>6, <3>1
    <3>3. {j \in L : j <= First(E)} = later
      BY <2>7, <3>1, <3>2
    <3>4. U = UNION {h[k].rect : k \in later}
      BY <3>3
    <3>5. RectSince(n, current, h) = IF E = {} THEN Picture ELSE Hull(U)
      BY <1>2, <1>4, <2>1 DEF RectSince
    <3> HIDE DEF E, U, later
    <3> QED
      BY <3>2, <3>4, <3>5
  <2>9. UNION {h[k].rect : k \in later} \in SUBSET Picture
    BY EntryTypes
  <2>10. \A k \in later : p \notin h[k].rect
    BY <2>8, <2>9, HullCovers
  <2>11. \A k \in DOMAIN h : h[k].version[2] > n[2] => k \in later
    BY <2>2, LaterIsGreater
  <2> QED
    BY <2>2, <2>10, <2>11 DEF Has, Changed
<1> QED
  BY <1>3, <1>4

-----------------------------------------------------------------------------
(* Steps of the emulator and of a viewer that waits. *)

\* What the parts of the invariant about frames and viewers rest on.
LEMMA ViewsKept ==
  ASSUME VncInv, UNCHANGED <<epoch, serverVars, sessionVars>>,
         version' \in Nat, version' >= version
  PROVE  Rendering' /\ Recorded' /\ Buffered' /\ BasesKnown' /\ ReadIsCovered'
<1> USE DEF serverVars, sessionVars
<1>1. Rendering'
  <2>1. /\ cached # None => cached[2] \in Nat
        /\ \A v \in Viewers : sampled[v] # None => sampled[v][2] \in Nat
        /\ version \in Nat
    BY DEF VncInv, Types, TypeOK, Versions
  <2> QED
    BY <2>1 DEF VncInv, Rendering
<1> QED
  BY <1>1 DEF VncInv, Recorded, Buffered, BasesKnown, ReadIsCovered, Base, Unread, Has,
              Changed, Agrees

LEMMA StoreKeeps ==
  ASSUME VncInv, NEW p \in Picture, NEW c \in Colors, StoreByte(p, c) \/ WritePort(p, c)
  PROVE  VncInv'
<1>1. /\ changes < MaxChanges /\ changes' = changes + 1
      /\ UNCHANGED <<epoch, serverVars, sessionVars>>
      /\ \/ /\ vram' = [vram EXCEPT ![p] = c] /\ emulating' = [kind |-> "mark"]
            /\ version' = version
         \/ /\ vram' = vram /\ version' = version + 1
            /\ emulating' = [kind |-> "palette", pixel |-> p, color |-> c]
  BY DEF StoreByte, WritePort
<1>2. vram \in Frames /\ version \in 1..(MaxChanges + 1) /\ changes \in 0..MaxChanges
      /\ version <= changes + 1
  BY DEF VncInv, Types, TypeOK
<1>3. version' \in Nat /\ version' >= version
  BY <1>1, <1>2
<1>4. vram' \in Frames
  BY <1>1, <1>2 DEF Frames
<1>5. /\ version' \in 1..(MaxChanges + 1) /\ changes' \in 0..MaxChanges
      /\ version' <= changes' + 1
  BY <1>1, <1>2, VncAssumption
<1>6. /\ emulating'.kind \in {"idle", "mark", "palette"}
      /\ emulating'.kind = "palette" => /\ emulating'.pixel \in Picture
                                        /\ emulating'.color \in Colors
      /\ emulating'.kind = "mark" => version' = version
  BY <1>1
<1>7. emulating'.kind = "mark" => version' <= changes'
  BY <1>1, <1>2, <1>6
<1>8. Types'
  BY <1>1, <1>4, <1>5, <1>6, <1>7 DEF VncInv, Types, TypeOK, serverVars, sessionVars
<1> QED
  BY <1>1, <1>3, <1>8, ViewsKept DEF VncInv

LEMMA FinishKeeps ==
  ASSUME VncInv, MarkFrameDirty \/ ChangePalette
  PROVE  VncInv'
<1>1. /\ UNCHANGED <<epoch, changes, serverVars, sessionVars>> /\ emulating' = Idle
      /\ \/ emulating.kind = "mark" /\ version' = version + 1 /\ vram' = vram
         \/ /\ emulating.kind = "palette" /\ version' = version
            /\ vram' = [vram EXCEPT ![emulating.pixel] = emulating.color]
  BY DEF MarkFrameDirty, ChangePalette
<1>2. /\ vram \in Frames /\ version \in 1..(MaxChanges + 1) /\ changes \in 0..MaxChanges
      /\ version <= changes + 1 /\ (emulating.kind = "mark" => version <= changes)
      /\ emulating.kind = "palette" => emulating.pixel \in Picture /\ emulating.color \in Colors
  BY DEF VncInv, Types, TypeOK
<1>3. version' \in Nat /\ version' >= version /\ version' <= changes + 1
      /\ version' \in 1..(MaxChanges + 1)
  BY <1>1, <1>2, VncAssumption
<1>4. vram' \in Frames
  BY <1>1, <1>2 DEF Frames
<1>5. emulating'.kind = "idle"
  BY <1>1 DEF Idle
<1>6. Types'
  BY <1>1, <1>3, <1>4, <1>5 DEF VncInv, Types, TypeOK, serverVars, sessionVars
<1> QED
  BY <1>1, <1>3, <1>6, ViewsKept DEF VncInv

\* A restored machine starts an epoch, and forgets the history.
LEMMA RestoreKeeps ==
  ASSUME VncInv, RestoreMachine
  PROVE  VncInv'
<1>1. /\ emulating = Idle /\ lock = NoOne /\ epoch < MaxRestores
      /\ vram' = Blank /\ version' = 1 /\ epoch' = epoch + 1
      /\ cached' = None /\ framed' = TRUE /\ snapshot' = None /\ history' = <<>>
      /\ UNCHANGED <<emulating, changes, lock, pixels, sessionVars>>
  BY DEF RestoreMachine
<1>2. /\ epoch \in 0..MaxRestores /\ changes \in 0..MaxChanges
  BY DEF VncInv, Types, TypeOK
<1>3. Types'
  <2>1. Blank \in Frames
    BY VncAssumption DEF Blank, Frames
  <2>2. epoch' \in 0..MaxRestores /\ version' \in 1..(MaxChanges + 1)
        /\ version' <= changes' + 1
    BY <1>1, <1>2, VncAssumption
  <2>3. history' \in Seq(Entries) /\ Len(history') = 0 /\ 0 <= History
    BY <1>1, EmptySeq, VncAssumption
  <2>4. emulating'.kind = "idle"
    BY <1>1 DEF Idle
  <2> QED
    BY <1>1, <2>1, <2>2, <2>3, <2>4 DEF VncInv, Types, TypeOK, sessionVars
<1>4. \A v \in Viewers : at'[v] # "rendering" /\ lock' # v
  BY <1>1, VncAssumption DEF VncInv, Rendering, sessionVars
<1>5. Rendering' /\ Buffered'
  BY <1>1, <1>4 DEF Rendering, Buffered
<1>6. DOMAIN history' = {}
  BY <1>1
<1>7. Recorded'
  BY <1>1, <1>6 DEF Recorded
<1>8. BasesKnown'
  <2>1. \A v \in Viewers : Base(v)' = Base(v)
    BY <1>1 DEF Base, sessionVars
  <2>2. \A v \in Viewers : Base(v) # None => Base(v)[1] <= epoch /\ Base(v)[1] \in Nat
    BY DEF VncInv, BasesKnown, Base, Types, Versions
  <2>3. \A v \in Viewers : Base(v) # None => Base(v)[1] <= epoch' /\ Base(v)[1] # epoch'
    BY <1>1, <1>2, <2>2
  <2> QED
    BY <1>1, <2>1, <2>3 DEF VncInv, BasesKnown, sessionVars
<1>9. ReadIsCovered'
  BY <1>6 DEF ReadIsCovered, Has
<1> QED
  BY <1>3, <1>5, <1>7, <1>8, <1>9 DEF VncInv

\* A viewer that starts anew starts from no version.
LEMMA Anew ==
  ASSUME VncInv
  PROVE  ~Has(history, None)
<1>1. \A i \in DOMAIN history : history[i].version \in Versions
  BY EntryTypes DEF VncInv, Types
<1> QED
  BY <1>1, NoneApart DEF Has

LEMMA FormatKeeps ==
  ASSUME VncInv, NEW v \in Viewers, SetPixelFormat(v)
  PROVE  VncInv'
<1>1. /\ at[v] = "waiting" /\ changes < MaxChanges /\ changes' = changes + 1
      /\ sent' = [sent EXCEPT ![v] = None]
      /\ shown' = [shown EXCEPT ![v] = [p \in Picture |-> Unknown]]
      /\ UNCHANGED <<vram, version, epoch, emulating, lastChange, serverVars,
                     at, todo, sampled, incremental>>
  BY DEF SetPixelFormat
<1>2. Types'
  <2>1. changes' \in 0..MaxChanges /\ version' <= changes' + 1
        /\ (emulating'.kind = "mark" => version' <= changes')
    BY <1>1, VncAssumption DEF VncInv, Types, TypeOK
  <2>2. /\ sent' \in [Viewers -> Versions \cup {None}]
        /\ shown' \in [Viewers -> [Picture -> Colors \cup {Unknown}]]
    BY <1>1 DEF VncInv, Types
  <2> QED
    BY <1>1, <2>1, <2>2 DEF VncInv, Types, TypeOK, serverVars
<1>3. Rendering' /\ Recorded' /\ Buffered'
  BY <1>1 DEF VncInv, Rendering, Recorded, Buffered, serverVars
<1>4. /\ Base(v)' = None
      /\ \A u \in Viewers \ {v} : /\ Base(u)' = Base(u) /\ Unread(u)' = Unread(u)
                                  /\ shown'[u] = shown[u]
  BY <1>1 DEF Base, Unread, VncInv, Types
<1>5. BasesKnown'
  BY <1>1, <1>4 DEF VncInv, BasesKnown, serverVars
<1>6. ReadIsCovered'
  BY <1>1, <1>4, Anew DEF VncInv, ReadIsCovered, Agrees, serverVars
<1> QED
  BY <1>2, <1>3, <1>5, <1>6 DEF VncInv

\* What a new session does to the invariant's variables.
LEMMA NewSessions ==
  ASSUME VncInv, NEW v \in Viewers, NewSession(v)
  PROVE  /\ at' \in [Viewers -> {"waiting", "rendering", "sending"}]
         /\ todo' \in [Viewers -> SUBSET Picture]
         /\ sampled' \in [Viewers -> Versions \cup {None}]
         /\ sent' \in [Viewers -> Versions \cup {None}]
         /\ incremental' \in [Viewers -> BOOLEAN]
         /\ shown' \in [Viewers -> [Picture -> Colors \cup {Unknown}]]
         /\ at'[v] = "waiting" /\ Base(v)' = None
         /\ \A u \in Viewers \ {v} :
              /\ at'[u] = at[u] /\ todo'[u] = todo[u] /\ sampled'[u] = sampled[u]
              /\ Base(u)' = Base(u) /\ Unread(u)' = Unread(u) /\ shown'[u] = shown[u]
<1>1. /\ at' = [at EXCEPT ![v] = "waiting"] /\ todo' = [todo EXCEPT ![v] = {}]
      /\ sampled' = [sampled EXCEPT ![v] = None]
      /\ incremental' = [incremental EXCEPT ![v] = FALSE]
      /\ sent' = [sent EXCEPT ![v] = None]
      /\ shown' = [shown EXCEPT ![v] = [p \in Picture |-> Unknown]]
  BY DEF NewSession, Goes
<1>2. /\ at \in [Viewers -> {"waiting", "rendering", "sending"}]
      /\ todo \in [Viewers -> SUBSET Picture]
      /\ sampled \in [Viewers -> Versions \cup {None}]
      /\ sent \in [Viewers -> Versions \cup {None}]
      /\ incremental \in [Viewers -> BOOLEAN]
      /\ shown \in [Viewers -> [Picture -> Colors \cup {Unknown}]]
  BY DEF VncInv, Types, TypeOK
<1>3. \A u \in Viewers \ {v} :
        /\ at'[u] = at[u] /\ todo'[u] = todo[u] /\ sampled'[u] = sampled[u]
        /\ sent'[u] = sent[u] /\ shown'[u] = shown[u]
  BY <1>1, <1>2
<1>4. at'[v] = "waiting" /\ sent'[v] = None
  BY <1>1, <1>2
<1>5. incremental' \in [Viewers -> BOOLEAN]
  BY <1>1, <1>2
<1>6. at' \in [Viewers -> {"waiting", "rendering", "sending"}]
      /\ todo' \in [Viewers -> SUBSET Picture]
  BY <1>1, <1>2
<1>7. /\ sampled' \in [Viewers -> Versions \cup {None}]
      /\ sent' \in [Viewers -> Versions \cup {None}]
      /\ shown' \in [Viewers -> [Picture -> Colors \cup {Unknown}]]
  BY <1>1, <1>2
<1> QED
  BY <1>3, <1>4, <1>5, <1>6, <1>7 DEF Base, Unread

LEMMA FindsNoFrameKeeps ==
  ASSUME VncInv, NEW v \in Viewers, FindsNoFrame(v)
  PROVE  VncInv'
<1>1. /\ at[v] = "waiting" /\ lock = NoOne /\ NewSession(v)
      /\ UNCHANGED <<displayVars, serverVars>>
  BY DEF FindsNoFrame
<1> USE DEF displayVars, serverVars
<1>2. Types'
  <2>1. /\ at' \in [Viewers -> {"waiting", "rendering", "sending"}]
        /\ todo' \in [Viewers -> SUBSET Picture]
        /\ sampled' \in [Viewers -> Versions \cup {None}]
        /\ sent' \in [Viewers -> Versions \cup {None}]
        /\ incremental' \in [Viewers -> BOOLEAN]
        /\ shown' \in [Viewers -> [Picture -> Colors \cup {Unknown}]]
    BY <1>1, NewSessions
  <2> QED
    BY <1>1, <2>1 DEF VncInv, Types, TypeOK
<1>3. Rendering'
  <2>1. \A u \in Viewers : at'[u] # "rendering"
    BY <1>1, NewSessions, VncAssumption DEF VncInv, Rendering
  <2>2. \A u \in Viewers : at'[u] = "rendering" <=> lock' = u
    BY <1>1, <2>1, VncAssumption
  <2>3. cached' # None => cached'[1] = epoch' /\ cached'[2] <= version'
    BY <1>1 DEF VncInv, Rendering
  <2> QED
    BY <2>1, <2>2, <2>3 DEF Rendering
<1>4. Recorded' /\ Buffered'
  BY <1>1, NewSessions DEF VncInv, Recorded, Buffered
<1>5. BasesKnown'
  BY <1>1, NewSessions DEF VncInv, BasesKnown
<1>6. ReadIsCovered'
  <2>1. \A u \in Viewers \ {v}, p \in Picture : Agrees(u, p)' <=> Agrees(u, p)
    BY <1>1, NewSessions DEF Agrees
  <2>2. ~Has(history', Base(v)')
    BY <1>1, NewSessions, Anew
  <2>3. \A u \in Viewers \ {v} : Base(u)' = Base(u) /\ Unread(u)' = Unread(u)
    BY <1>1, NewSessions
  <2> QED
    BY <1>1, <2>1, <2>2, <2>3 DEF VncInv, ReadIsCovered
<1> QED
  BY <1>2, <1>3, <1>4, <1>5, <1>6 DEF VncInv

\* A cached frame is the last of the history, and nothing is later than it.
LEMMA CachedIsLast ==
  ASSUME VncInv, cached # None, framed
  PROVE  /\ history # <<>> /\ history \in Seq(Entries) /\ Grows(history)
         /\ history[Len(history)].version = cached
         /\ Has(history, cached) /\ Changed(history, cached) = {}
<1>1. /\ history # <<>> /\ history \in Seq(Entries) /\ Grows(history)
      /\ history[Len(history)].version = cached
  BY DEF VncInv, Recorded, Types, Grows
<1>2. Len(history) \in DOMAIN history /\ DOMAIN history = 1..Len(history)
      /\ Len(history) \in Nat
  BY <1>1, EntryTypes
<1>3. \A i \in DOMAIN history : ~(history[i].version[2] > cached[2])
  BY <1>1, <1>2, LaterIsGreater
<1> QED
  BY <1>1, <1>2, <1>3 DEF Has, Changed

\* While the lock is free, a viewer shows the cached frame but for what its
\* next update will send.
LEMMA Covered ==
  ASSUME VncInv, lock = NoOne, cached # None, framed, NEW v \in Viewers, at[v] = "waiting",
         NEW p \in Picture, p \notin RectSince(sent[v], cached, history)
  PROVE  shown[v][p] = snapshot[p] /\ pixels[epoch][p] = snapshot[p]
<1>1. sent[v] \in Versions \cup {None}
  BY DEF VncInv, Types
<1>2. Has(history, sent[v]) /\ p \notin Changed(history, sent[v])
  BY <1>1, CachedIsLast, RectCovers
<1>3. Base(v) = sent[v] /\ Unread(v) = {}
  BY DEF Base, Unread
<1>4. Agrees(v, p)
  BY <1>2, <1>3 DEF VncInv, ReadIsCovered
<1>5. pixels[epoch][p] = snapshot[p]
  BY CachedIsLast DEF VncInv, Buffered, Recorded
<1> QED
  BY <1>4, <1>5 DEF Agrees

LEMMA SampleKeeps ==
  ASSUME VncInv, NEW v \in Viewers, NEW inc \in BOOLEAN, SampleVersion(v, inc)
  PROVE  VncInv'
<1> DEFINE now == <<epoch, version>>
<1>1. /\ at[v] = "waiting" /\ lock = NoOne /\ (cached = now => framed)
      /\ sampled' = [sampled EXCEPT ![v] = now]
      /\ incremental' = [incremental EXCEPT ![v] = inc]
      /\ UNCHANGED <<displayVars, pixels, cached, framed, snapshot, history, sent, shown>>
  BY DEF SampleVersion
<1> USE DEF displayVars
<1>2. /\ now \in Versions /\ now # None /\ now[1] = epoch /\ now[2] = version
      /\ version \in Nat
  BY NoneApart DEF VncInv, Types, TypeOK, Versions
<1>3. /\ sampled' \in [Viewers -> Versions \cup {None}]
      /\ incremental' \in [Viewers -> BOOLEAN]
      /\ sampled'[v] = now /\ \A u \in Viewers \ {v} : sampled'[u] = sampled[u]
  <2>1. sampled \in [Viewers -> Versions \cup {None}]
    BY DEF VncInv, Types
  <2>2. incremental \in [Viewers -> BOOLEAN]
    BY DEF VncInv, Types
  <2>3. incremental' \in [Viewers -> BOOLEAN]
    BY <1>1, <2>2
  <2> HIDE DEF now
  <2> QED
    BY <1>1, <1>2, <2>1, <2>3
<1>4. /\ at \in [Viewers -> {"waiting", "rendering", "sending"}]
      /\ todo \in [Viewers -> SUBSET Picture]
      /\ \A u \in Viewers : at[u] # "rendering"
  BY <1>1, VncAssumption DEF VncInv, Types, TypeOK, Rendering
<1> HIDE DEF now
<1>5. CASE cached = now
  <2> DEFINE left == IF inc THEN RectSince(sent[v], cached, history) ELSE Picture
  <2>1. /\ at' = [at EXCEPT ![v] = "sending"] /\ todo' = [todo EXCEPT ![v] = left]
        /\ lock' = NoOne /\ cached # None /\ framed
    BY <1>1, <1>2, <1>5 DEF SampleVersion, Sends, Goes, now
  <2>2. left \subseteq Picture
    BY <1>2 DEF RectSince, Hull
  <2> HIDE DEF left
  <2>3. /\ at' \in [Viewers -> {"waiting", "rendering", "sending"}]
        /\ todo' \in [Viewers -> SUBSET Picture]
        /\ at'[v] = "sending" /\ todo'[v] = left
        /\ \A u \in Viewers \ {v} : at'[u] = at[u] /\ todo'[u] = todo[u]
    BY <1>4, <2>1, <2>2
  <2>4. Types'
    BY <1>1, <1>3, <2>1, <2>3 DEF VncInv, Types, TypeOK
  <2>5. \A u \in Viewers : at'[u] # "rendering"
    BY <1>4, <2>3
  <2>6. Rendering'
    BY <1>1, <2>1, <2>5, VncAssumption DEF VncInv, Rendering
  <2>7. Recorded' /\ Buffered'
    BY <1>1, <2>1, <2>5 DEF VncInv, Recorded, Buffered
  <2>8. /\ Base(v)' = cached /\ Unread(v)' = left
        /\ \A u \in Viewers \ {v} : Base(u)' = Base(u) /\ Unread(u)' = Unread(u)
    BY <1>1, <1>3, <1>5, <2>3 DEF Base, Unread
  <2>9. BasesKnown'
    <3>1. cached[1] = epoch /\ cached[2] = version /\ epoch \in Nat
      BY <1>2, <1>5 DEF VncInv, Types, TypeOK
    <3>2. \A u \in Viewers \ {v} : at'[u] = "sending" => sampled'[u] # None
      BY <1>3, <2>3 DEF VncInv, BasesKnown
    <3> QED
      BY <1>1, <1>2, <1>3, <2>1, <2>8, <3>1, <3>2 DEF VncInv, BasesKnown
  <2>10. ReadIsCovered'
    <3>1. ASSUME NEW p \in Picture, p \notin left PROVE Agrees(v, p)'
      <4>1. p \notin RectSince(sent[v], cached, history)
        BY <3>1 DEF left
      <4>2. shown[v][p] = snapshot[p]
        BY <1>1, <2>1, <4>1, Covered
      <4> QED
        BY <1>1, <4>2 DEF Agrees
    <3>2. \A u \in Viewers, p \in Picture : Agrees(u, p)' <=> Agrees(u, p)
      BY <1>1 DEF Agrees
    <3> QED
      BY <1>1, <2>8, <3>1, <3>2 DEF VncInv, ReadIsCovered
  <2> QED
    BY <2>4, <2>6, <2>7, <2>9, <2>10 DEF VncInv
<1>6. CASE cached # now
  <2>1. /\ at' = [at EXCEPT ![v] = "rendering"] /\ todo' = [todo EXCEPT ![v] = Picture]
        /\ lock' = v
    BY <1>6 DEF SampleVersion, Goes, now
  <2>2. /\ at' \in [Viewers -> {"waiting", "rendering", "sending"}]
        /\ todo' \in [Viewers -> SUBSET Picture]
        /\ at'[v] = "rendering" /\ todo'[v] = Picture
        /\ \A u \in Viewers \ {v} : at'[u] = at[u] /\ todo'[u] = todo[u]
    BY <1>4, <2>1
  <2>3. Types'
    BY <1>1, <1>3, <2>1, <2>2 DEF VncInv, Types, TypeOK
  <2>4. \A u \in Viewers \ {v} : at'[u] # "rendering"
    BY <1>4, <2>2
  <2>5. cached # None => cached[1] = epoch /\ cached[2] <= version /\ cached[2] < version
    <3>1. cached # None => cached[1] = epoch /\ cached[2] <= version /\ cached \in Versions
      BY DEF VncInv, Rendering, Types, TypeOK
    <3>2. cached # None => cached = <<cached[1], cached[2]>> /\ cached[2] \in Nat
      BY <3>1 DEF Versions
    <3>3. cached # None => cached[2] # version
      BY <1>6, <3>1, <3>2 DEF now
    <3> QED
      BY <1>2, <3>1, <3>2, <3>3
  <2>6. Rendering'
    BY <1>1, <1>2, <1>3, <2>1, <2>2, <2>4, <2>5, VncAssumption DEF Rendering
  <2>7. Recorded'
    BY <1>1 DEF VncInv, Recorded
  <2>8. Buffered'
    <3>1. lock' # NoOne
      BY <2>1, VncAssumption
    <3>2. snapshot # None => \A p \in Picture : pixels[epoch][p] = snapshot[p]
      BY <1>1 DEF VncInv, Buffered
    <3> QED
      BY <1>1, <2>2, <2>4, <3>1, <3>2 DEF Buffered
  <2>9. \A u \in Viewers : Base(u)' = Base(u) /\ Unread(u)' = Unread(u)
    BY <1>1, <1>3, <2>2 DEF Base, Unread
  <2>10. BasesKnown'
    <3>1. \A u \in Viewers : at'[u] = "sending" => sampled'[u] # None
      BY <1>3, <2>2 DEF VncInv, BasesKnown
    <3> QED
      BY <1>1, <2>9, <3>1 DEF VncInv, BasesKnown
  <2>11. ReadIsCovered'
    BY <1>1, <2>9 DEF VncInv, ReadIsCovered, Agrees
  <2> QED
    BY <2>3, <2>6, <2>7, <2>8, <2>10, <2>11 DEF VncInv
<1> QED
  BY <1>5, <1>6

\* Who renders holds the lock alone, and nobody else's session is disturbed.
LEMMA OneRenders ==
  ASSUME VncInv, NEW v \in Viewers, at[v] = "rendering"
  PROVE  /\ lock = v /\ lock # NoOne
         /\ \A u \in Viewers \ {v} : at[u] # "rendering"
         /\ sampled[v] \in Versions /\ sampled[v] # None
         /\ sampled[v][1] = epoch /\ sampled[v][2] <= version
         /\ cached # None => cached[2] < sampled[v][2]
<1>1. sampled[v] \in Versions \cup {None}
  BY DEF VncInv, Types
<1>2. lock = v /\ sampled[v] # None /\ \A u \in Viewers : at[u] = "rendering" <=> lock = u
  BY DEF VncInv, Rendering
<1>3. /\ sampled[v][1] = epoch /\ sampled[v][2] <= version
      /\ cached # None => cached[2] < sampled[v][2]
  BY DEF VncInv, Rendering
<1> QED
  BY <1>1, <1>2, <1>3, VncAssumption

LEMMA RenderNothingKeeps ==
  ASSUME VncInv, NEW v \in Viewers, RenderNothing(v)
  PROVE  VncInv'
<1>1. /\ at[v] = "rendering" /\ todo[v] = Picture
      /\ cached' = sampled[v] /\ framed' = FALSE /\ lock' = NoOne
      /\ NewSession(v)
      /\ UNCHANGED <<displayVars, pixels, snapshot, history>>
  BY DEF RenderNothing
<1> USE DEF displayVars
<1>2. /\ lock = v /\ \A u \in Viewers \ {v} : at[u] # "rendering"
      /\ sampled[v] \in Versions /\ sampled[v] # None
      /\ sampled[v][1] = epoch /\ sampled[v][2] <= version
      /\ cached # None => cached[2] < sampled[v][2]
  BY <1>1, OneRenders
<1>3. Types'
  <2>1. /\ at' \in [Viewers -> {"waiting", "rendering", "sending"}]
        /\ todo' \in [Viewers -> SUBSET Picture]
        /\ sampled' \in [Viewers -> Versions \cup {None}]
        /\ sent' \in [Viewers -> Versions \cup {None}]
        /\ incremental' \in [Viewers -> BOOLEAN]
        /\ shown' \in [Viewers -> [Picture -> Colors \cup {Unknown}]]
    BY <1>1, NewSessions
  <2>2. cached' \in Versions \cup {None} /\ framed' \in BOOLEAN
        /\ lock' \in Viewers \cup {NoOne}
    BY <1>1, <1>2
  <2> QED
    BY <1>1, <2>1, <2>2 DEF VncInv, Types, TypeOK
<1>4. \A u \in Viewers : at'[u] # "rendering"
  BY <1>1, <1>2, NewSessions
<1>5. Rendering'
  BY <1>1, <1>2, <1>4, VncAssumption DEF Rendering
<1>6. Recorded'
  <2>1. history # <<>> => cached # None /\ history[Len(history)].version[2] <= cached[2]
    BY DEF VncInv, Recorded
  <2>2. cached # None => cached[2] \in Nat
    BY DEF VncInv, Types, TypeOK, Versions
  <2>3. history # <<>> => history[Len(history)].version[2] \in Nat
    BY EntryTypes DEF VncInv, Types
  <2>4. sampled[v][2] \in Nat
    BY <1>2 DEF Versions
  <2>5. history # <<>> => history[Len(history)].version[2] <= sampled[v][2]
    BY <1>2, <2>1, <2>2, <2>3, <2>4
  <2>6. history # <<>> => /\ cached' # None /\ snapshot # None
                          /\ history[Len(history)].version[2] <= cached'[2]
    BY <1>1, <1>2, <2>5 DEF VncInv, Recorded
  <2> QED
    BY <1>1, <2>6 DEF VncInv, Recorded
<1>7. Buffered'
  <2>1. snapshot # None => \A p \in Picture : pixels[epoch][p] = snapshot[p]
    BY <1>1 DEF VncInv, Buffered
  <2> QED
    BY <1>1, <1>4, <2>1 DEF Buffered
<1>8. BasesKnown'
  <2>1. \A u \in Viewers \ {v} : /\ Base(u)' = Base(u) /\ at'[u] = at[u]
                                 /\ sampled'[u] = sampled[u]
    BY <1>1, NewSessions
  <2>2. Base(v)' = None /\ at'[v] = "waiting"
    BY <1>1, NewSessions
  <2>3. \A u \in Viewers : Base(u) # None => Base(u)[2] \in Nat
    BY DEF VncInv, BasesKnown, Base, Types, Versions
  <2>4. sampled[v][2] \in Nat /\ (cached # None => cached[2] \in Nat)
    BY <1>2 DEF VncInv, Types, TypeOK, Versions
  <2>5. \A u \in Viewers : Base(u) # None /\ Base(u)[1] = epoch => Base(u)[2] <= sampled[v][2]
    BY <1>2, <2>3, <2>4 DEF VncInv, BasesKnown
  <2>6. \A u \in Viewers \ {v} : at'[u] = "sending" => sampled'[u] # None
    BY <2>1 DEF VncInv, BasesKnown
  <2>7. \A u \in Viewers \ {v} : Base(u)' # None => Base(u)'[1] <= epoch
    BY <2>1 DEF VncInv, BasesKnown
  <2> QED
    BY <1>1, <1>2, <2>1, <2>2, <2>5, <2>6, <2>7 DEF BasesKnown
<1>9. ReadIsCovered'
  <2>1. \A u \in Viewers \ {v}, p \in Picture : Agrees(u, p)' <=> Agrees(u, p)
    BY <1>1, NewSessions DEF Agrees
  <2>2. ~Has(history', Base(v)')
    BY <1>1, NewSessions, Anew
  <2>3. \A u \in Viewers \ {v} : Base(u)' = Base(u) /\ Unread(u)' = Unread(u)
    BY <1>1, NewSessions
  <2> QED
    BY <1>1, <2>1, <2>2, <2>3 DEF VncInv, ReadIsCovered
<1> QED
  BY <1>3, <1>5, <1>6, <1>7, <1>8, <1>9 DEF VncInv

LEMMA RenderPixelKeeps ==
  ASSUME VncInv, NEW v \in Viewers, RenderPixel(v)
  PROVE  VncInv'
<1> DEFINE p == First(todo[v])
<1>1. /\ at[v] = "rendering" /\ todo[v] # {}
      /\ pixels' = [pixels EXCEPT ![epoch][p] = vram[p]]
      /\ at' = [at EXCEPT ![v] = "rendering"] /\ todo' = [todo EXCEPT ![v] = todo[v] \ {p}]
      /\ UNCHANGED <<displayVars, lock, cached, framed, snapshot, history,
                     sampled, incremental, sent, shown>>
  BY DEF RenderPixel, Goes
<1> USE DEF displayVars
<1>2. /\ lock = v /\ lock # NoOne /\ \A u \in Viewers \ {v} : at[u] # "rendering"
  BY <1>1, OneRenders
<1>3. /\ pixels \in [0..MaxRestores -> Frames] /\ epoch \in 0..MaxRestores
      /\ vram \in Frames /\ todo \in [Viewers -> SUBSET Picture]
      /\ at \in [Viewers -> {"waiting", "rendering", "sending"}]
  BY DEF VncInv, Types, TypeOK
<1>4. p \in todo[v] /\ p \in Picture
  BY <1>1, <1>3, FirstIn
<1> HIDE DEF p
<1>5. /\ at' = at /\ todo' \in [Viewers -> SUBSET Picture]
      /\ todo'[v] = todo[v] \ {p} /\ \A u \in Viewers \ {v} : todo'[u] = todo[u]
  BY <1>1, <1>3
<1>6. /\ pixels' \in [0..MaxRestores -> Frames]
      /\ \A q \in Picture \ {p} : pixels'[epoch][q] = pixels[epoch][q]
  <2>1. pixels' = [pixels EXCEPT ![epoch] = [pixels[epoch] EXCEPT ![p] = vram[p]]]
    BY <1>1
  <2>2. pixels[epoch] \in [Picture -> Colors] /\ vram[p] \in Colors
    BY <1>3, <1>4 DEF Frames
  <2>3. [pixels[epoch] EXCEPT ![p] = vram[p]] \in Frames
    BY <2>2 DEF Frames
  <2>4. pixels'[epoch] = [pixels[epoch] EXCEPT ![p] = vram[p]]
    BY <1>3, <2>1
  <2> QED
    BY <1>3, <2>1, <2>2, <2>3, <2>4
<1>7. Types'
  BY <1>1, <1>5, <1>6 DEF VncInv, Types, TypeOK
<1>8. Rendering' /\ Recorded'
  BY <1>1, <1>5 DEF VncInv, Rendering, Recorded
<1>9. Buffered'
  <2>1. snapshot # None => \A q \in todo[v] : pixels[epoch][q] = snapshot[q]
    BY <1>1 DEF VncInv, Buffered
  <2>2. snapshot # None => \A q \in todo'[v] : pixels'[epoch][q] = snapshot[q]
    BY <1>3, <1>5, <1>6, <2>1
  <2> QED
    BY <1>1, <1>2, <1>5, <2>2 DEF Buffered
<1>10. \A u \in Viewers : Base(u)' = Base(u) /\ Unread(u)' = Unread(u)
  BY <1>1, <1>2, <1>5 DEF Base, Unread
<1>11. BasesKnown'
  BY <1>1, <1>5, <1>10 DEF VncInv, BasesKnown
<1>12. ReadIsCovered'
  <2>1. history # <<>> => snapshot # None
    BY DEF VncInv, Recorded
  <2>2. \A n : Has(history, n) => history # <<>>
    BY DEF Has
  <2>3. history # <<>> => pixels[epoch][p] = snapshot[p]
    BY <1>1, <1>4, <2>1 DEF VncInv, Buffered
  <2>4. \A u \in Viewers, q \in Picture : history # <<>> /\ Agrees(u, q) => Agrees(u, q)'
    <3> SUFFICES ASSUME NEW u \in Viewers, NEW q \in Picture, history # <<>>, Agrees(u, q)
                 PROVE  shown[u][q] = snapshot[q] \/ shown[u][q] = pixels'[epoch][q]
      BY <1>1 DEF Agrees
    <3>1. CASE q = p
      BY <2>3, <3>1 DEF Agrees
    <3>2. CASE q # p
      BY <1>6, <3>2 DEF Agrees
    <3> QED
      BY <3>1, <3>2
  <2> QED
    BY <1>1, <1>10, <2>2, <2>4 DEF VncInv, ReadIsCovered
<1> QED
  BY <1>7, <1>8, <1>9, <1>11, <1>12 DEF VncInv

\* The end of an update, or one pixel of it: the viewer goes on starting from
\* the same version, and reads the buffer of that version's epoch.
LEMMA SendKeeps ==
  ASSUME VncInv, NEW v \in Viewers, Send(v)
  PROVE  VncInv'
<1> DEFINE p == First(todo[v])
           left == IF todo[v] = {} THEN {} ELSE todo[v] \ {p}
           done == todo[v] = {} \/ todo[v] = {p}
<1>1. /\ at[v] = "sending" /\ UNCHANGED <<displayVars, serverVars>>
      /\ IF done THEN FrameSent(v)
         ELSE Goes(v, "sending", left) /\ UNCHANGED <<sampled, incremental, sent>>
      /\ IF todo[v] = {} THEN shown' = shown
         ELSE shown' = [shown EXCEPT ![v][p] = pixels[sampled[v][1]][p]]
  BY DEF Send, SendPixel, SendNothing
<1>2. todo[v] # {} => p \in todo[v] /\ p \in Picture
  BY FirstIn DEF VncInv, Types, TypeOK
<1> HIDE DEF p
<1> USE DEF displayVars, serverVars
<1>3. /\ at \in [Viewers -> {"waiting", "rendering", "sending"}]
      /\ todo \in [Viewers -> SUBSET Picture] /\ incremental \in [Viewers -> BOOLEAN]
  BY DEF VncInv, Types, TypeOK
<1>4. /\ sampled \in [Viewers -> Versions \cup {None}]
      /\ sent \in [Viewers -> Versions \cup {None}]
      /\ shown \in [Viewers -> [Picture -> Colors \cup {Unknown}]]
      /\ sampled[v] # None /\ sampled[v] \in Versions
  BY <1>1 DEF VncInv, Types, BasesKnown
<1>5. /\ at' = [at EXCEPT ![v] = IF done THEN "waiting" ELSE "sending"]
      /\ todo' = [todo EXCEPT ![v] = left]
  <2>1. done => left = {}
    OBVIOUS
  <2> HIDE DEF done, left
  <2> QED
    BY <1>1, <2>1 DEF FrameSent, Goes
<1>6. left \subseteq Picture
  BY <1>3
<1> HIDE DEF left
<1>7. /\ at' \in [Viewers -> {"waiting", "rendering", "sending"}]
      /\ todo' \in [Viewers -> SUBSET Picture]
      /\ at'[v] = (IF done THEN "waiting" ELSE "sending") /\ todo'[v] = left
      /\ \A u \in Viewers \ {v} : at'[u] = at[u] /\ todo'[u] = todo[u]
  <2> HIDE DEF done
  <2> QED
    BY <1>3, <1>5, <1>6
<1>8. /\ sampled' = (IF done THEN [sampled EXCEPT ![v] = None] ELSE sampled)
      /\ sent' = (IF done THEN [sent EXCEPT ![v] = sampled[v]] ELSE sent)
      /\ incremental' = (IF done THEN [incremental EXCEPT ![v] = FALSE] ELSE incremental)
  BY <1>1 DEF FrameSent
<1> HIDE DEF done
<1>9. /\ sampled' \in [Viewers -> Versions \cup {None}]
      /\ sent' \in [Viewers -> Versions \cup {None}]
      /\ (IF done THEN sent'[v] = sampled[v] ELSE sampled'[v] = sampled[v])
      /\ \A u \in Viewers \ {v} : sampled'[u] = sampled[u] /\ sent'[u] = sent[u]
  BY <1>4, <1>8
<1>10. incremental' \in [Viewers -> BOOLEAN]
  BY <1>3, <1>8
<1>11. /\ shown' \in [Viewers -> [Picture -> Colors \cup {Unknown}]]
       /\ \A u \in Viewers \ {v} : shown'[u] = shown[u]
       /\ \A q \in Picture : \/ shown'[v][q] = shown[v][q]
                             \/ q = p /\ shown'[v][q] = pixels[sampled[v][1]][q]
  <2> DEFINE c == pixels[sampled[v][1]][p]
             row == [shown[v] EXCEPT ![p] = c]
  <2>1. CASE todo[v] = {}
    BY <1>1, <1>4, <2>1
  <2>2. CASE todo[v] # {}
    <3>1. c \in Colors
      <4>1. sampled[v][1] \in 0..MaxRestores
        BY <1>4 DEF Versions
      <4>2. pixels \in [0..MaxRestores -> [Picture -> Colors]]
        BY DEF VncInv, Types, TypeOK, Frames
      <4> QED
        BY <1>2, <2>2, <4>1, <4>2
    <3>2. shown' = [shown EXCEPT ![v] = row]
      BY <1>1, <2>2
    <3>3. shown[v] \in [Picture -> Colors \cup {Unknown}] /\ p \in Picture
      BY <1>2, <1>4, <2>2
    <3>4. c \in Colors \cup {Unknown} /\ \A q \in Picture : q = p => c = pixels[sampled[v][1]][q]
      BY <3>1
    <3> HIDE DEF c
    <3>5. /\ row \in [Picture -> Colors \cup {Unknown}] /\ row[p] = c
          /\ \A q \in Picture \ {p} : row[q] = shown[v][q]
      BY <3>3, <3>4
    <3> HIDE DEF row
    <3>6. shown'[v] = row /\ \A u \in Viewers \ {v} : shown'[u] = shown[u]
      BY <1>4, <3>2
    <3>7. shown' \in [Viewers -> [Picture -> Colors \cup {Unknown}]]
      BY <1>4, <3>2, <3>5
    <3> QED
      BY <3>4, <3>5, <3>6, <3>7
  <2> QED
    BY <2>1, <2>2
<1>12. Types'
  BY <1>1, <1>7, <1>9, <1>10, <1>11 DEF VncInv, Types, TypeOK
<1>13. \A u \in Viewers : /\ at'[u] = "rendering" <=> at[u] = "rendering"
                          /\ at'[u] = "rendering" => u # v
  BY <1>1, <1>7
<1>14. Rendering' /\ Recorded' /\ Buffered'
  <2>1. Rendering'
    BY <1>1, <1>9, <1>13 DEF VncInv, Rendering
  <2>2. Recorded'
    BY <1>1 DEF VncInv, Recorded
  <2>3. Buffered'
    BY <1>1, <1>7, <1>13 DEF VncInv, Buffered
  <2> QED
    BY <2>1, <2>2, <2>3
<1>15. /\ \A u \in Viewers : Base(u)' = Base(u)
       /\ \A u \in Viewers \ {v} : Unread(u)' = Unread(u)
       /\ Base(v) = sampled[v] /\ Unread(v) = todo[v]
  <2>1. Base(v)' = Base(v)
    BY <1>1, <1>7, <1>9 DEF Base
  <2>2. \A u \in Viewers \ {v} : Base(u)' = Base(u) /\ Unread(u)' = Unread(u)
    BY <1>7, <1>9 DEF Base, Unread
  <2> QED
    BY <1>1, <2>1, <2>2 DEF Base, Unread
<1>16. todo[v] \ {p} \subseteq Unread(v)'
  <2>1. ~done => Unread(v)' = left /\ left = todo[v] \ {p}
    BY <1>7 DEF Unread, done, left
  <2>2. done => todo[v] \ {p} = {}
    BY DEF done
  <2> QED
    BY <2>1, <2>2
<1>17. BasesKnown'
  <2>1. \A u \in Viewers : at'[u] = "sending" => sampled'[u] # None
    BY <1>4, <1>7, <1>9 DEF VncInv, BasesKnown
  <2> QED
    BY <1>1, <1>15, <2>1 DEF VncInv, BasesKnown
<1>18. ReadIsCovered'
  <2>1. \A u \in Viewers \ {v}, q \in Picture : Agrees(u, q)' <=> Agrees(u, q)
    BY <1>1, <1>11 DEF Agrees
  <2>2. ASSUME Has(history, Base(v)), NEW q \in Picture, q \notin Unread(v)',
               q \notin Changed(history, Base(v))
        PROVE  Agrees(v, q)'
    <3>1. sampled[v][1] = epoch
      BY <1>15, <2>2 DEF Has, VncInv, Recorded
    <3>2. CASE q = p /\ shown'[v][q] = pixels[sampled[v][1]][q]
      BY <1>1, <3>1, <3>2 DEF Agrees
    <3>3. CASE q # p
      <4>1. q \notin Unread(v)
        BY <1>15, <1>16, <2>2, <3>3
      <4>2. Agrees(v, q)
        BY <2>2, <4>1 DEF VncInv, ReadIsCovered
      <4> QED
        BY <1>1, <1>11, <3>3, <4>2 DEF Agrees
    <3>4. CASE q = p /\ todo[v] = {}
      <4>1. Agrees(v, q)
        BY <1>15, <2>2, <3>4 DEF VncInv, ReadIsCovered
      <4> QED
        BY <1>1, <3>4, <4>1 DEF Agrees
    <3>5. CASE q = p /\ todo[v] # {}
      <4>1. shown'[v][q] = pixels[sampled[v][1]][q]
        <5>1. shown[v] \in [Picture -> Colors \cup {Unknown}] /\ v \in DOMAIN shown
          BY <1>4
        <5>2. shown'[v] = [shown[v] EXCEPT ![p] = pixels[sampled[v][1]][p]]
          BY <1>1, <3>5, <5>1
        <5> QED
          BY <3>5, <5>1, <5>2
      <4> QED
        BY <3>2, <3>5, <4>1
    <3> QED
      BY <3>3, <3>4, <3>5
  <2> QED
    BY <1>1, <1>15, <2>1, <2>2 DEF VncInv, ReadIsCovered
<1> QED
  BY <1>12, <1>14, <1>17, <1>18 DEF VncInv

-----------------------------------------------------------------------------
(* The history with one more frame. *)

\* The end of a sequence.
LEMMA EndOf ==
  ASSUME NEW S, NEW s \in Seq(S), NEW d \in Nat, d < Len(s)
  PROVE  /\ SubSeq(s, d + 1, Len(s)) \in Seq(S)
         /\ Len(SubSeq(s, d + 1, Len(s))) = Len(s) - d
         /\ \A i \in 1..(Len(s) - d) : SubSeq(s, d + 1, Len(s))[i] = s[i + d]
<1>1. Len(s) \in Nat
  BY LenProperties
<1>2. \A i \in (d + 1)..Len(s) : s[i] \in S
  <2>1. \A i \in (d + 1)..Len(s) : i \in 1..Len(s)
    BY <1>1
  <2> QED
    BY <2>1, ElementOfSeq
<1> DEFINE g == SubSeq(s, d + 1, Len(s))
           m == d + 1
<1>3. m \in Int /\ m <= Len(s) /\ Len(s) - m + 1 = Len(s) - d
  BY <1>1
<1>4. \A i \in Int : m + i - 1 = i + d
  OBVIOUS
<1>5. /\ SubSeq(s, m, Len(s)) \in Seq(S)
      /\ Len(SubSeq(s, m, Len(s))) = IF m <= Len(s) THEN Len(s) - m + 1 ELSE 0
      /\ \A i \in 1..(Len(s) - m + 1) : SubSeq(s, m, Len(s))[i] = s[m + i - 1]
  <2> HIDE DEF m
  <2> QED
    BY <1>1, <1>2, <1>3, SubSeqProperties DEF m
<1>6. g = SubSeq(s, m, Len(s))
  OBVIOUS
<1> HIDE DEF g, m
<1>7. \A i \in 1..(Len(s) - d) : g[i] = s[i + d]
  BY <1>1, <1>3, <1>4, <1>5, <1>6
<1> QED
  BY <1>3, <1>5, <1>6, <1>7 DEF g

\* A history that is too long keeps its last entries.
LEMMA LastOfKeeps ==
  ASSUME NEW s \in Seq(Entries), Len(s) > 0
  PROVE  /\ LastOf(s) \in Seq(Entries) /\ Len(LastOf(s)) <= History
         /\ \E d \in Nat : /\ d < Len(s) /\ Len(LastOf(s)) = Len(s) - d
                           /\ \A i \in 1..(Len(s) - d) : LastOf(s)[i] = s[i + d]
<1>1. History \in Nat \ {0} /\ Len(s) \in Nat
  BY LenProperties, VncAssumption
<1>2. CASE Len(s) <= History
  <2>1. LastOf(s) = s
    BY <1>2 DEF LastOf
  <2>2. 0 \in Nat /\ Len(s) = Len(s) - 0 /\ \A i \in 1..(Len(s) - 0) : s[i] = s[i + 0]
    BY <1>1
  <2> QED
    BY <1>1, <1>2, <2>1, <2>2
<1>3. CASE ~(Len(s) <= History)
  <2>1. PICK d \in Nat : d = Len(s) - History
    BY <1>1, <1>3
  <2>2. d < Len(s) /\ Len(s) - History + 1 = d + 1 /\ Len(s) - d = History
    BY <1>1, <2>1
  <2>3. LastOf(s) = SubSeq(s, d + 1, Len(s))
    BY <1>3, <2>2 DEF LastOf
  <2>4. /\ LastOf(s) \in Seq(Entries) /\ Len(LastOf(s)) = Len(s) - d
        /\ \A i \in 1..(Len(s) - d) : LastOf(s)[i] = s[i + d]
    BY <2>2, <2>3, EndOf
  <2>5. Len(LastOf(s)) <= History
    BY <1>1, <2>2, <2>4
  <2> QED
    BY <2>2, <2>4, <2>5
<1> QED
  BY <1>2, <1>3

\* It still grows, and holds every later change of the versions it holds.
LEMMA HistoryAppended ==
  ASSUME NEW h \in Seq(Entries), Grows(h), NEW e \in Entries,
         \A i \in DOMAIN h : h[i].version[2] < e.version[2],
         NEW g, g = LastOf(Append(h, e))
  PROVE  /\ g \in Seq(Entries) /\ Grows(g) /\ g # <<>> /\ Len(g) <= History
         /\ g[Len(g)] = e
         /\ \A i \in DOMAIN g : g[i] = e \/ \E j \in DOMAIN h : g[i] = h[j]
         /\ \A n : n # e.version /\ Has(g, n) =>
              /\ Has(h, n) /\ n[2] < e.version[2]
              /\ \A p \in Picture \ Changed(g, n) : p \notin Changed(h, n) /\ p \notin e.rect
<1> DEFINE s == Append(h, e)
           last == Len(h) + 1
<1>1. /\ Len(h) \in Nat /\ DOMAIN h = 1..Len(h) /\ s[last] = e
      /\ \A j \in DOMAIN h : s[j] = h[j]
      /\ s \in Seq(Entries) /\ Len(s) = last
  BY AppendProperties, LenProperties
<1>2. g = LastOf(s) /\ Len(s) > 0
  BY <1>1
<1> HIDE DEF s
<1>3. PICK d \in Nat : /\ d < Len(s) /\ Len(LastOf(s)) = Len(s) - d
                       /\ \A i \in 1..(Len(s) - d) : LastOf(s)[i] = s[i + d]
  <2>1. s \in Seq(Entries) /\ Len(s) > 0
    BY <1>1, <1>2
  <2> QED
    BY ONLY <2>1, LastOfKeeps
<1>4. /\ d < Len(s) /\ Len(g) = Len(s) - d
      /\ \A i \in 1..(Len(s) - d) : g[i] = s[i + d]
  BY <1>3, <1>2
<1>5. /\ g \in Seq(Entries) /\ Len(g) \in Nat \ {0} /\ Len(g) <= History
      /\ Len(g) = Len(h) + 1 - d
      /\ \A i \in 1..Len(g) : g[i] = s[i + d]
      /\ g[Len(g)] = e
  <2>1. Len(g) \in Nat \ {0} /\ Len(g) + d = last /\ Len(g) = Len(h) + 1 - d
    BY <1>4, <1>1
  <2>2. g[Len(g)] = s[last]
    BY <1>4, <2>1
  <2>3. g \in Seq(Entries) /\ Len(g) <= History
    BY <1>1, <1>2, LastOfKeeps
  <2> QED
    BY <1>4, <1>1, <2>1, <2>2, <2>3
<1>6. DOMAIN g = 1..Len(g) /\ Len(g) \in DOMAIN g /\ g # <<>>
  BY <1>5, EntryTypes, EmptySeq
<1>7. \A j \in DOMAIN h : h[j].version[2] \in Nat
  BY EntryTypes
<1>8. e.version[2] \in Nat
  BY DEF Entries, Versions
<1>9. \A i \in DOMAIN g : /\ i + d \in 1..last /\ g[i] = s[i + d]
                          /\ i + d = last <=> i = Len(g)
  BY <1>5, <1>4, <1>1, <1>6
<1>10. \A k \in 1..last : k = last \/ k \in DOMAIN h
  BY <1>1
<1>11. \A k, l \in 1..last : k < l => s[k].version[2] < s[l].version[2]
  <2> TAKE k \in 1..last, l \in 1..last
  <2> HAVE k < l
  <2>1. k \in DOMAIN h
    BY <1>1
  <2>2. CASE l = last
    BY <1>1, <2>1, <2>2
  <2>3. CASE l # last
    <3>1. l \in DOMAIN h
      BY <1>10, <2>3
    <3>2. h[k].version[2] < h[l].version[2]
      BY <2>1, <3>1 DEF Grows
    <3> QED
      BY <1>1, <2>1, <3>1, <3>2
  <2> QED
    BY <2>2, <2>3
<1>12. Grows(g)
  <2> SUFFICES ASSUME NEW i \in DOMAIN g, NEW j \in DOMAIN g, i < j
               PROVE  g[i].version[2] < g[j].version[2]
    BY DEF Grows
  <2>1. i \in Nat /\ j \in Nat /\ i + d < j + d
    BY <1>4, <1>6
  <2>2. i + d \in 1..last /\ j + d \in 1..last
    BY <1>9
  <2>3. s[i + d].version[2] < s[j + d].version[2]
    BY <1>11, <2>1, <2>2
  <2> QED
    BY <1>9, <2>3
<1>13. \A i \in DOMAIN g : g[i] = e \/ \E j \in DOMAIN h : g[i] = h[j]
  BY <1>1, <1>9, <1>10
<1>14. ASSUME NEW n, n # e.version, Has(g, n)
       PROVE  /\ Has(h, n) /\ n[2] < e.version[2]
              /\ \A p \in Picture \ Changed(g, n) : p \notin Changed(h, n) /\ p \notin e.rect
  <2>1. PICK i \in DOMAIN g : g[i].version = n
    BY <1>14 DEF Has
  <2>2. i + d \in DOMAIN h /\ h[i + d].version = n
    BY <1>1, <1>9, <1>10, <1>14, <2>1
  <2>3. n[2] < e.version[2] /\ n[2] \in Nat
    BY <1>7, <2>2
  <2>4. ASSUME NEW p \in Picture, p \in e.rect PROVE p \in Changed(g, n)
    <3>1. g[Len(g)].version[2] > n[2] /\ p \in g[Len(g)].rect
      BY <1>5, <1>8, <2>3, <2>4
    <3> QED
      BY <1>6, <3>1 DEF Changed
  <2>5. ASSUME NEW p \in Picture, p \in Changed(h, n) PROVE p \in Changed(g, n)
    <3>1. PICK j \in DOMAIN h : h[j].version[2] > n[2] /\ p \in h[j].rect
      BY <2>5 DEF Changed
    <3>2. j > i + d
      BY <2>2, <3>1, LaterIsGreater
    <3>3. j - d \in DOMAIN g /\ (j - d) + d = j
      BY <1>4, <1>1, <1>6, <2>1, <3>2
    <3>4. g[j - d] = h[j]
      BY <1>1, <1>9, <3>3
    <3> QED
      BY <3>1, <3>3, <3>4 DEF Changed
  <2> QED
    BY <2>2, <2>3, <2>4, <2>5 DEF Has
<1> QED
  BY <1>5, <1>6, <1>12, <1>13, <1>14

\* A frame's rectangle holds every pixel that differs from the last snapshot.
LEMMA DiffCovers ==
  ASSUME NEW old, NEW new, NEW p \in Picture, p \notin DiffRect(old, new)
  PROVE  old # None /\ old[p] = new[p]
<1> DEFINE D == {q \in Picture : old[q] # new[q]}
<1>1. old # None
  BY DEF DiffRect
<1>2. p \notin Hull(D)
  BY <1>1 DEF DiffRect
<1>3. D \subseteq Hull(D)
  BY HullCovers
<1> QED
  BY <1>1, <1>2, <1>3

\* What the history will hold for a viewer's version, the rendered frame shows.
LEMMA CacheCovers ==
  ASSUME VncInv, NEW v \in Viewers, CacheFrame(v)
  PROVE  /\ history' \in Seq(Entries) /\ Grows(history') /\ history' # <<>>
         /\ Len(history') <= History
         /\ history'[Len(history')].version = sampled[v]
         /\ \A i \in DOMAIN history' : history'[i].version[1] = epoch
         /\ \A u \in Viewers, p \in Picture :
              Has(history', Base(u)) /\ p \notin Changed(history', Base(u)) \cup Unread(u)
                => shown[u][p] = pixels[epoch][p]
<1> DEFINE e == [version |-> sampled[v], rect |-> DiffRect(snapshot, pixels[epoch])]
<1>1. at[v] = "rendering" /\ history' = LastOf(Append(history, e))
  BY DEF CacheFrame
<1>2. /\ sampled[v] \in Versions /\ sampled[v][1] = epoch /\ sampled[v][2] \in Nat
      /\ cached # None => cached[2] < sampled[v][2]
  BY <1>1, OneRenders DEF Versions
<1>3. /\ history \in Seq(Entries) /\ Grows(history)
      /\ \A i \in DOMAIN history : history[i].version[1] = epoch
      /\ history # <<>> => /\ cached # None /\ snapshot # None
                           /\ history[Len(history)].version[2] <= cached[2]
  BY DEF VncInv, Types, Recorded, Grows
<1>4. e \in Entries /\ e.version = sampled[v] /\ e.rect = DiffRect(snapshot, pixels[epoch])
  <2>1. DiffRect(snapshot, pixels[epoch]) \subseteq Picture
    BY DEF DiffRect, Hull
  <2> QED
    BY <1>2, <2>1 DEF Entries
<1> HIDE DEF e
<1>5. \A i \in DOMAIN history : history[i].version[2] < e.version[2]
  <2> TAKE i \in DOMAIN history
  <2>1. /\ DOMAIN history = 1..Len(history) /\ Len(history) \in DOMAIN history
        /\ Len(history) \in Nat /\ history # <<>>
        /\ history[i].version[2] \in Nat /\ history[Len(history)].version[2] \in Nat
    BY <1>3, EntryTypes
  <2>2. i = Len(history) \/ i < Len(history)
    BY <2>1
  <2>3. history[i].version[2] <= history[Len(history)].version[2]
    BY <1>3, <2>1, <2>2 DEF Grows
  <2>4. cached # None /\ cached[2] \in Nat
    BY <1>3, <2>1 DEF VncInv, Types, TypeOK, Versions
  <2> QED
    BY <1>2, <1>3, <1>4, <2>1, <2>3, <2>4
<1>6. /\ history' \in Seq(Entries) /\ Grows(history') /\ history' # <<>>
      /\ Len(history') <= History /\ history'[Len(history')] = e
      /\ \A i \in DOMAIN history' :
           history'[i] = e \/ \E j \in DOMAIN history : history'[i] = history[j]
  BY <1>1, <1>3, <1>4, <1>5, HistoryAppended
<1>7. \A n : n # e.version /\ Has(history', n) =>
        /\ Has(history, n) /\ n[2] < e.version[2]
        /\ \A p \in Picture \ Changed(history', n) :
             p \notin Changed(history, n) /\ p \notin e.rect
  BY <1>1, <1>3, <1>4, <1>5, HistoryAppended
<1>8. \A i \in DOMAIN history' : history'[i].version[1] = epoch
  BY <1>2, <1>3, <1>4, <1>6
<1>9. ASSUME NEW u \in Viewers, NEW p \in Picture, Has(history', Base(u)),
             p \notin Changed(history', Base(u)), p \notin Unread(u)
      PROVE  shown[u][p] = pixels[epoch][p]
  <2>1. Base(u) # e.version
    <3>1. Base(u) = sampled[v] => Base(u) # None /\ Base(u)[1] = epoch
      BY <1>1, <1>2, OneRenders
    <3>2. Base(u) # None /\ Base(u)[1] = epoch => cached # None /\ Base(u)[2] <= cached[2]
      BY DEF VncInv, BasesKnown
    <3>3. cached # None => cached[2] \in Nat
      BY DEF VncInv, Types, TypeOK, Versions
    <3> QED
      BY <1>2, <1>4, <3>1, <3>2, <3>3
  <2>2. Has(history, Base(u)) /\ p \notin Changed(history, Base(u)) /\ p \notin e.rect
    BY <1>7, <1>9, <2>1
  <2>3. Agrees(u, p)
    BY <1>9, <2>2 DEF VncInv, ReadIsCovered
  <2>4. snapshot[p] = pixels[epoch][p]
    BY <1>4, <2>2, DiffCovers
  <2> QED
    BY <2>3, <2>4 DEF Agrees
<1> QED
  BY <1>4, <1>6, <1>8, <1>9

LEMMA CacheFrameKeeps ==
  ASSUME VncInv, NEW v \in Viewers, CacheFrame(v)
  PROVE  VncInv'
<1> DEFINE left == IF incremental[v] THEN RectSince(sent[v], sampled[v], history') ELSE Picture
<1>1. /\ at[v] = "rendering" /\ todo[v] = {}
      /\ cached' = sampled[v] /\ framed' = TRUE
      /\ snapshot' = pixels[epoch] /\ lock' = NoOne
      /\ at' = [at EXCEPT ![v] = "sending"] /\ todo' = [todo EXCEPT ![v] = left]
      /\ UNCHANGED <<displayVars, pixels, sampled, incremental, sent, shown>>
  BY DEF CacheFrame, Sends, Goes
<1> USE DEF displayVars
<1>2. /\ lock = v /\ \A u \in Viewers \ {v} : at[u] # "rendering"
      /\ sampled[v] \in Versions /\ sampled[v] # None
      /\ sampled[v][1] = epoch /\ sampled[v][2] <= version /\ sampled[v][2] \in Nat
      /\ cached # None => cached[2] < sampled[v][2]
  BY <1>1, OneRenders DEF Versions
<1>3. /\ history' \in Seq(Entries) /\ Grows(history') /\ history' # <<>>
      /\ Len(history') <= History
      /\ history'[Len(history')].version = sampled[v]
      /\ \A i \in DOMAIN history' : history'[i].version[1] = epoch
      /\ \A u \in Viewers, p \in Picture :
           Has(history', Base(u)) /\ p \notin Changed(history', Base(u)) \cup Unread(u)
             => shown[u][p] = pixels[epoch][p]
  BY CacheCovers
<1>4. left \subseteq Picture
  BY DEF RectSince, Hull
<1> HIDE DEF left
<1>5. /\ at' \in [Viewers -> {"waiting", "rendering", "sending"}]
      /\ todo' \in [Viewers -> SUBSET Picture]
      /\ at'[v] = "sending" /\ todo'[v] = left
      /\ \A u \in Viewers \ {v} : at'[u] = at[u] /\ todo'[u] = todo[u]
  <2>1. at \in [Viewers -> {"waiting", "rendering", "sending"}]
        /\ todo \in [Viewers -> SUBSET Picture]
    BY DEF VncInv, Types, TypeOK
  <2> QED
    BY <1>1, <1>4, <2>1
<1>6. pixels[epoch] \in Frames /\ pixels[epoch] # None
  BY NoneApart DEF VncInv, Types, TypeOK
<1>7. Types'
  <2>1. /\ cached' \in Versions \cup {None} /\ framed' \in BOOLEAN
        /\ snapshot' \in Frames \cup {None} /\ lock' \in Viewers \cup {NoOne}
    BY <1>1, <1>2, <1>6
  <2> QED
    BY <1>1, <1>3, <1>5, <2>1 DEF VncInv, Types, TypeOK
<1>8. \A u \in Viewers : at'[u] # "rendering"
  BY <1>2, <1>5
<1>9. Rendering'
  BY <1>1, <1>2, <1>8, VncAssumption DEF Rendering
<1>10. Recorded'
  <2>1. cached' # None /\ snapshot' # None
        /\ history'[Len(history')].version = cached'
        /\ history'[Len(history')].version[2] <= cached'[2]
    BY <1>1, <1>2, <1>3, <1>6
  <2> QED
    BY <1>1, <1>3, <2>1 DEF Recorded, Grows
<1>11. Buffered'
  BY <1>1, <1>8 DEF Buffered
<1>12. /\ \A u \in Viewers \ {v} : Base(u)' = Base(u) /\ Unread(u)' = Unread(u)
       /\ Base(v)' = sampled[v] /\ Unread(v)' = left
       /\ Base(v) = sent[v] /\ Unread(v) = {}
  BY <1>1, <1>5 DEF Base, Unread
<1>13. BasesKnown'
  <2>1. \A u \in Viewers : Base(u) # None => Base(u)[2] \in Nat
    BY DEF VncInv, BasesKnown, Base, Types, Versions
  <2>2. cached # None => cached[2] \in Nat
    BY DEF VncInv, Types, TypeOK, Versions
  <2>3. \A u \in Viewers : Base(u) # None /\ Base(u)[1] = epoch => Base(u)[2] <= sampled[v][2]
    BY <1>2, <2>1, <2>2 DEF VncInv, BasesKnown
  <2>4. \A u \in Viewers : at'[u] = "sending" => sampled'[u] # None
    BY <1>1, <1>2, <1>5 DEF VncInv, BasesKnown
  <2>5. \A u \in Viewers \ {v} : Base(u)' # None => Base(u)'[1] <= epoch
    BY <1>12 DEF VncInv, BasesKnown
  <2>6. epoch \in Nat
    BY DEF VncInv, Types, TypeOK
  <2> QED
    BY <1>1, <1>2, <1>12, <2>3, <2>4, <2>5, <2>6 DEF BasesKnown
<1>14. ReadIsCovered'
  <2>1. \A u \in Viewers, p \in Picture : shown[u][p] = pixels[epoch][p] => Agrees(u, p)'
    BY <1>1 DEF Agrees
  <2>2. ASSUME NEW p \in Picture, p \notin left PROVE shown[v][p] = pixels[epoch][p]
    <3>1. sent[v] \in Versions \cup {None}
      BY DEF VncInv, Types
    <3>2. p \notin RectSince(sent[v], history'[Len(history')].version, history')
      BY <1>3, <2>2 DEF left
    <3>3. Has(history', sent[v]) /\ p \notin Changed(history', sent[v])
      BY <1>3, <3>1, <3>2, RectCovers
    <3> QED
      BY <1>3, <1>12, <3>3
  <2> QED
    BY <1>3, <1>12, <2>1, <2>2 DEF ReadIsCovered
<1> QED
  BY <1>7, <1>9, <1>10, <1>11, <1>13, <1>14 DEF VncInv

-----------------------------------------------------------------------------
(* The theorem. *)

LEMMA VncInvInit == Init => VncInv
<1> SUFFICES ASSUME Init PROVE VncInv
  OBVIOUS
<1>1. Blank \in Frames
  BY VncAssumption DEF Blank, Frames
<1>2. history \in Seq(Entries) /\ Len(history) = 0 /\ 0 <= History /\ DOMAIN history = {}
  BY EmptySeq, VncAssumption DEF Init
<1>3. /\ version \in 1..(MaxChanges + 1) /\ epoch \in 0..MaxRestores
      /\ changes \in 0..MaxChanges /\ version <= changes + 1
  BY VncAssumption DEF Init
<1>4. emulating.kind = "idle"
  BY DEF Init, Idle
<1>5. pixels \in [0..MaxRestores -> Frames]
  BY <1>1 DEF Init
<1>6. Types
  BY <1>1, <1>2, <1>3, <1>4, <1>5 DEF Init, Types, TypeOK
<1>7. \A v \in Viewers : at[v] = "waiting" /\ lock # v /\ Base(v) = None
  BY VncAssumption DEF Init, Base
<1>8. Rendering /\ Buffered /\ BasesKnown
  BY <1>7 DEF Init, Rendering, Buffered, BasesKnown
<1>9. Recorded /\ ReadIsCovered
  BY <1>2 DEF Init, Recorded, ReadIsCovered, Has
<1> QED
  BY <1>6, <1>8, <1>9 DEF VncInv

LEMMA VncInvNext == VncInv /\ [Next]_vars => VncInv'
<1> SUFFICES ASSUME VncInv, [Next]_vars PROVE VncInv'
  OBVIOUS
<1>1. CASE Emulator
  <2>1. ASSUME NEW p \in Picture, NEW c \in Colors, StoreByte(p, c) \/ WritePort(p, c)
        PROVE  VncInv'
    BY <2>1, StoreKeeps
  <2>2. MarkFrameDirty \/ ChangePalette => VncInv'
    BY FinishKeeps
  <2>3. RestoreMachine => VncInv'
    BY RestoreKeeps
  <2> QED
    BY <1>1, <2>1, <2>2, <2>3 DEF Emulator
<1>2. ASSUME NEW v \in Viewers, Ask(v) \/ SetPixelFormat(v) \/ Render(v) \/ Send(v)
      PROVE  VncInv'
  <2>1. CASE Ask(v)
    BY <2>1, FindsNoFrameKeeps, SampleKeeps DEF Ask
  <2>2. CASE SetPixelFormat(v)
    BY <2>2, FormatKeeps
  <2>3. CASE Render(v)
    BY <2>3, RenderPixelKeeps, RenderNothingKeeps, CacheFrameKeeps DEF Render
  <2>4. CASE Send(v)
    BY <2>4, SendKeeps
  <2> QED
    BY <1>2, <2>1, <2>2, <2>3, <2>4
<1>3. CASE UNCHANGED vars
  <2>1. UNCHANGED <<displayVars, serverVars, sessionVars>>
    BY <1>3 DEF vars
  <2>2. UNCHANGED epoch /\ version' = version
    BY <2>1 DEF displayVars
  <2>3. version' \in Nat /\ version' >= version
    BY <2>2 DEF VncInv, Types, TypeOK
  <2>4. Types'
    BY <2>1 DEF VncInv, Types, TypeOK, displayVars, serverVars, sessionVars
  <2> QED
    BY <2>1, <2>2, <2>3, <2>4, ViewsKept DEF VncInv
<1> QED
  BY <1>1, <1>2, <1>3 DEF Next

\* Whatever a viewer shows differently from the cached frame lies in the
\* rectangle its next incremental update will send (vncserver.py:230-275), for
\* any number of viewers, any picture and any length of the history.
THEOREM UpdatesCover == Spec => []CoveredByNextUpdate
<1>1. VncInv => CoveredByNextUpdate
  <2> SUFFICES ASSUME VncInv, lock = NoOne, cached # None, framed, NEW v \in Viewers,
                      at[v] = "waiting", NEW p \in Picture, shown[v][p] # snapshot[p]
               PROVE  p \in RectSince(sent[v], cached, history)
    BY DEF CoveredByNextUpdate, VncInv, Types
  <2> QED
    BY Covered
<1> QED
  BY <1>1, VncInvInit, VncInvNext, PTL DEF Spec
=============================================================================
