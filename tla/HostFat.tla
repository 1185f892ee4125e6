------------------------------ MODULE HostFat ------------------------------
(***************************************************************************)
(* virtualfat16.py: a FAT16 image in memory whose every sector write is    *)
(* followed by a walk that mirrors the guest's tree into a host directory, *)
(* which other programs edit at the same time.                             *)
(*                                                                         *)
(* A path is a sequence of one or two names; directories below the first   *)
(* level, symbolic links, reserved names and FAT values beyond the volume  *)
(* are left out.  A size counts clusters, a hash is the content itself,    *)
(* and a directory's entries fit in its first cluster.  The guest is a DOS *)
(* that writes single sectors in any order, keeps the names in a directory *)
(* apart and turns no file into a directory by one write.  A write and its *)
(* mirroring are one call of the emulator thread.                          *)
(***************************************************************************)
EXTENDS Naturals, SequencesExt

CONSTANTS
  Names,      \* DOS names
  Slots,      \* entries of the root directory
  MaxCluster, \* the volume's last data cluster: the first one is 2
  Free, End,  \* FAT values of a free cluster and of the end of a chain
  Bytes,      \* what the guest may store in a cluster of a file
  Listing,    \* the bytes of a directory, when they are read as a file
  HostBytes,  \* what a host program may store in a file
  MaxWrites,  \* bound: sector writes
  MaxEdits    \* bound: external changes to the host directory

ASSUME HostFatAssumption ==
  /\ Slots \in Nat \ {0} /\ MaxCluster \in Nat \ {0} /\ MaxWrites \in Nat /\ MaxEdits \in Nat
  /\ Free \notin 2..MaxCluster /\ End \notin 2..MaxCluster
  /\ Listing \notin Bytes /\ HostBytes \notin Bytes \cup {Listing}

VARIABLES
  disk,       \* _image: root directory, FAT and clusters
  host,       \* the host directory: path -> file with content, or directory
  paths,      \* _host_paths: paths the mount knows
  synced,     \* _synced_files and _synced_hashes: path -> [signature, hash]
  outcome,    \* how the last SyncToHost ended
  lost,       \* dirty clusters of walks that were given up
  touched,    \* paths changed by a host program since the mirror wrote them
  writes, edits

vars == <<disk, host, paths, synced, outcome, lost, touched, writes, edits>>

Clusters == 2..MaxCluster

NoEntry == [name |-> Free, kind |-> "free", size |-> 0, start |-> Free]
File(n, s, c) == [name |-> n, kind |-> "file", size |-> s, start |-> c]
Dir(n, c) == [name |-> n, kind |-> "dir", size |-> 0, start |-> c]
Cluster(b, entries) == [bytes |-> b, entries |-> entries]
HostFile(content) == [kind |-> "file", content |-> content]
HostDir == [kind |-> "dir", content |-> <<>>]

Entries == {NoEntry} \cup {Dir(n, c) : n \in Names, c \in Clusters}
           \cup {File(n, 0, Free) : n \in Names}
           \cup {File(n, s, c) : n \in Names, s \in 1..(MaxCluster - 1), c \in Clusters}
Contents == {Cluster(b, <<>>) : b \in Bytes} \cup {Cluster(Listing, <<>>)}
            \cup {Cluster(Listing, <<File(n, 1, c)>>) : n \in Names, c \in Clusters}

-----------------------------------------------------------------------------
(* Reading the image. *)

\* _cluster_chain: up to the end of the chain or the first repetition.
Further(d, start, s) ==
  LET next == IF s = <<>> THEN start ELSE d.fat[s[Len(s)]]
  IN  IF next \in Clusters \ ToSet(s) THEN Append(s, next) ELSE s

ClusterChain(d, start) ==
  LET chain[n \in 0..MaxCluster] ==
        IF n = 0 THEN <<>> ELSE Further(d, start, chain[n - 1])
  IN  chain[MaxCluster]

\* _read_chain raises when the chain is shorter than the size.
Readable(d, item) == item.size <= Len(ClusterChain(d, item.start))
ReadChain(d, item) ==
  [i \in 1..item.size |-> d.data[ClusterChain(d, item.start)[i]]]

Item(rel, e) == [rel |-> rel, kind |-> e.kind, size |-> e.size, start |-> e.start]

\* A directory whose first cluster an earlier entry used is passed over.
Listed(d, i) ==
  LET e == d.root[i] IN
  /\ e.kind # "free"
  /\ e.kind = "dir" => \A j \in 1..(i - 1) : d.root[j].kind = "dir" => d.root[j].start # e.start

EntryItems(d, i) ==
  LET e == d.root[i]
      inside == d.data[e.start].entries
  IN  IF ~Listed(d, i) THEN <<>>
      ELSE IF e.kind = "file" THEN <<Item(<<e.name>>, e)>>
      ELSE <<Item(<<e.name>>, e)>> \o
           [j \in DOMAIN inside |-> Item(<<e.name, inside[j].name>>, inside[j])]

\* _directory_entries for the root directory and the directories in it.
Items(d) ==
  LET found[i \in 0..Slots] ==
        IF i = 0 THEN <<>> ELSE found[i - 1] \o EntryItems(d, i)
  IN  found[Slots]

Present(d) == {item.rel : item \in ToSet(Items(d))}

-----------------------------------------------------------------------------
(* SyncToHost: _sync_directory, then _remove_stale_host_paths. *)

With(f, p, v) == [q \in DOMAIN f \cup {p} |-> IF q = p THEN v ELSE f[q]]
But(f, S) == [q \in DOMAIN f \ S |-> f[q]]

Signature(d, item) == <<item.size, ClusterChain(d, item.start)>>

\* Mutant: a data write to a file whose entry did not change goes unnoticed.
UpToDateBySignature(d, item, dirty, st) ==
  /\ item.rel \in DOMAIN st.synced
  /\ st.synced[item.rel].signature = Signature(d, item)

\* Mutant: a host file that differs from the guest's is written again.
UpToDateOnHost(d, item, dirty, st) ==
  /\ Readable(d, item)
  /\ item.rel \in DOMAIN st.host /\ st.host[item.rel] = HostFile(ReadChain(d, item))

UpToDate(d, item, dirty, st) ==
  /\ item.rel \in DOMAIN st.synced
  /\ st.synced[item.rel].signature = Signature(d, item)
  /\ item.size = 0 \/ dirty \cap ToSet(ClusterChain(d, item.start)) = {}

MakeDir(st, p) ==
  IF p \in DOMAIN st.host
  THEN IF st.host[p].kind = "dir"
       THEN [st EXCEPT !.paths = @ \cup {p}]
       ELSE [st EXCEPT !.failed = TRUE]
  ELSE [st EXCEPT !.host = With(@, p, HostDir), !.paths = @ \cup {p},
                  !.written = @ \cup {p}]

\* Mutant: a file the guest creates is mirrored, but not remembered.
WriteFileForgotten(d, st, item) ==
  IF ~Readable(d, item) \/ (item.rel \in DOMAIN st.host /\ st.host[item.rel].kind = "dir")
  THEN [st EXCEPT !.failed = TRUE]
  ELSE [st EXCEPT !.host = With(@, item.rel, HostFile(ReadChain(d, item))),
                  !.synced = With(@, item.rel, [signature |-> Signature(d, item),
                                                hash |-> ReadChain(d, item)]),
                  !.written = @ \cup {item.rel}]

WriteFile(d, st, item) ==
  IF ~Readable(d, item) \/ (item.rel \in DOMAIN st.host /\ st.host[item.rel].kind = "dir")
  THEN [st EXCEPT !.failed = TRUE]
  ELSE [st EXCEPT !.host = With(@, item.rel, HostFile(ReadChain(d, item))),
                  !.paths = @ \cup {item.rel},
                  !.synced = With(@, item.rel, [signature |-> Signature(d, item),
                                                hash |-> ReadChain(d, item)]),
                  !.written = @ \cup {item.rel}]

SyncItem(d, dirty, st, item) ==
  IF st.failed THEN st
  ELSE IF item.kind = "dir" THEN MakeDir(st, item.rel)
  ELSE IF UpToDate(d, item, dirty, st) THEN st
  ELSE WriteFile(d, st, item)

SyncDirectory(d, dirty) ==
  LET items == Items(d)
      walk[i \in 0..Len(items)] ==
        IF i = 0
        THEN [host |-> host, paths |-> paths, synced |-> synced, written |-> {},
              failed |-> FALSE]
        ELSE SyncItem(d, dirty, walk[i - 1], items[i])
  IN  walk[Len(items)]

Inside(h, p) == {q \in DOMAIN h : Len(q) = 2 /\ Len(p) = 1 /\ q[1] = p[1]}

\* Mutant: a tracked file is removed whatever it holds by now.
RemovableAnyway(st, h, p) ==
  \/ p \notin DOMAIN h
  \/ p \in DOMAIN st.synced /\ h[p].kind = "file"
  \/ p \notin DOMAIN st.synced /\ h[p].kind = "dir" /\ Inside(h, p) = {}

\* A file must hold what was mirrored last, a directory must be empty.
Removable(st, h, p) ==
  \/ p \notin DOMAIN h
  \/ p \in DOMAIN st.synced /\ h[p] = HostFile(st.synced[p].hash)
  \/ p \notin DOMAIN st.synced /\ h[p].kind = "dir" /\ Inside(h, p) = {}

\* Mutant: a removed path leaves its signature behind.
RemoveStaleHalf(d, st) ==
  LET stale == st.paths \ Present(d)
      inner == {p \in stale : Len(p) = 2 /\ Removable(st, st.host, p)}
      outer == {p \in stale : Len(p) = 1 /\ Removable(st, But(st.host, inner), p)}
      gone == inner \cup outer
  IN  [st EXCEPT !.host = But(@, gone), !.paths = @ \ gone, !.failed = stale # gone]

\* The longest paths first; what cannot be removed stays known for next time.
RemoveStale(d, st) ==
  LET stale == st.paths \ Present(d)
      inner == {p \in stale : Len(p) = 2 /\ Removable(st, st.host, p)}
      outer == {p \in stale : Len(p) = 1 /\ Removable(st, But(st.host, inner), p)}
      gone == inner \cup outer
  IN  [st EXCEPT !.host = But(@, gone), !.paths = @ \ gone, !.synced = But(@, gone),
                 !.failed = stale # gone]

-----------------------------------------------------------------------------
(* Write: the sector is stored first; an error ends the mirroring, and with  *)
(* it the set of dirty clusters, but not the write.                          *)

Mirror(d, dirty) ==
  LET walked == SyncDirectory(d, dirty)
      st == IF walked.failed THEN walked ELSE RemoveStale(d, walked)
  IN  /\ host' = st.host /\ paths' = st.paths /\ synced' = st.synced
      /\ outcome' = IF st.failed THEN "error" ELSE "ok"
      /\ lost' = IF walked.failed THEN lost \cup dirty ELSE lost
      /\ touched' = touched \ st.written

Write(d, dirty) ==
  /\ writes < MaxWrites
  /\ d # disk
  /\ writes' = writes + 1
  /\ disk' = d
  /\ Mirror(d, dirty)
  /\ UNCHANGED edits

\* An entry is made, deleted, renamed or resized.
Successor(old, new) ==
  \/ old.kind = "free" \/ new.kind = "free"
  \/ new = [old EXCEPT !.name = new.name]
  \/ old.kind = "file" /\ new.kind = "file" /\ new.name = old.name

WriteRoot(i, e) ==
  /\ Successor(disk.root[i], e)
  /\ \A j \in 1..Slots \ {i} : e.kind = "free" \/ disk.root[j].name # e.name
  /\ Write([disk EXCEPT !.root[i] = e], {})

WriteFat(c, next) == Write([disk EXCEPT !.fat[c] = next], {})

WriteData(c, content) == Write([disk EXCEPT !.data[c] = content], {c})

-----------------------------------------------------------------------------
(* Host programs. *)

External(h, p) ==
  /\ edits < MaxEdits
  /\ edits' = edits + 1
  /\ host' = h
  /\ touched' = touched \cup {p}
  /\ UNCHANGED <<disk, paths, synced, outcome, lost, writes>>

EditFile(p) ==
  /\ p \in DOMAIN host => host[p].kind = "file"
  /\ Len(p) = 2 => <<p[1]>> \in DOMAIN host /\ host[<<p[1]>>].kind = "dir"
  /\ External(With(host, p, HostFile(<<Cluster(HostBytes, <<>>)>>)), p)

DeleteOnHost(p) ==
  /\ p \in DOMAIN host
  /\ Inside(host, p) = {}
  /\ External(But(host, {p}), p)

Paths == {<<n>> : n \in Names} \cup {<<n, m>> : n, m \in Names}

-----------------------------------------------------------------------------
(* _build: a tree of files of one cluster and empty directories. *)

\* _allocate: clusters in the order of the entries, from 2.
Nth(i) == i + 1

Trees == {t \in [1..Slots -> Entries] :
            /\ \A i \in 1..Slots : t[i].kind = "free" \/ t[i] = Dir(t[i].name, Nth(i))
                                   \/ t[i] = File(t[i].name, 1, Nth(i))
            /\ \A i, j \in 1..Slots :
                 i < j => /\ t[i].kind = "free" => t[j].kind = "free"
                          /\ t[i].kind = "free" \/ t[i].name # t[j].name}

Init ==
  /\ \E tree \in Trees, b \in Bytes :
       LET used == {i \in 1..Slots : tree[i].kind # "free"}
           content(i) == Cluster(IF tree[i].kind = "dir" THEN Listing ELSE b, <<>>)
           slotOf(p) == CHOOSE i \in used : p = <<tree[i].name>>
       IN  /\ disk = [root |-> tree,
                      fat |-> [c \in Clusters |-> IF c - 1 \in used THEN End ELSE Free],
                      data |-> [c \in Clusters |-> IF c - 1 \in used THEN content(c - 1)
                                                   ELSE Cluster(b, <<>>)]]
           /\ paths = {<<tree[i].name>> : i \in used}
           /\ host = [p \in paths |->
                        IF tree[slotOf(p)].kind = "dir" THEN HostDir
                        ELSE HostFile(<<content(slotOf(p))>>)]
           /\ synced = [p \in {<<tree[i].name>> : i \in {j \in used : tree[j].kind = "file"}} |->
                          [signature |-> <<1, <<Nth(slotOf(p))>> >>,
                           hash |-> <<content(slotOf(p))>>]]
  /\ outcome = "ok" /\ lost = {} /\ touched = {} /\ writes = 0 /\ edits = 0

Next ==
  \/ \E i \in 1..Slots, e \in Entries : WriteRoot(i, e)
  \/ \E c \in Clusters, next \in Clusters \cup {Free, End} : WriteFat(c, next)
  \/ \E c \in Clusters, content \in Contents : WriteData(c, content)
  \/ \E p \in Paths : EditFile(p) \/ DeleteOnHost(p)

Spec == Init /\ [][Next]_vars

-----------------------------------------------------------------------------
(* Properties *)

TypeOK ==
  /\ disk \in [root : [1..Slots -> Entries], fat : [Clusters -> Clusters \cup {Free, End}],
               data : [Clusters -> Contents]]
  /\ DOMAIN host \subseteq Paths /\ paths \subseteq Paths
  /\ DOMAIN synced \subseteq paths
  /\ \A p \in DOMAIN host : host[p].kind \in {"file", "dir"}
  /\ outcome \in {"ok", "error"} /\ lost \subseteq Clusters /\ touched \subseteq Paths
  /\ writes \in 0..MaxWrites /\ edits \in 0..MaxEdits

Mirrored(item) ==
  item.rel \in DOMAIN host /\ host[item.rel] = HostFile(ReadChain(disk, item))

DirOnHost(p) == p \in DOMAIN host /\ host[p].kind = "dir"

\* Mirroring only what the write made dirty or what changed its entry gives
\* the same files as mirroring everything (virtualfat16.py:404-406), but for
\* files a host program changed, clusters whose walk was given up, and paths
\* that were a directory in between: _synced_files keeps the file's signature
\* when a host program has removed the file and the guest makes a directory.
MirroredUnlessLost ==
  outcome = "ok" =>
    \A item \in ToSet(Items(disk)) :
      item.kind = "file" /\ item.rel \notin touched /\ ~DirOnHost(item.rel)
        /\ ToSet(ClusterChain(disk, item.start)) \cap lost = {}
      => Mirrored(item)

\* Once a walk succeeds, nothing the mirror wrote and the guest has since
\* renamed or deleted is left on the host, in directories neither
\* (virtualfat16.py:421-461).
NothingLeftBehind ==
  /\ TypeOK
  /\ outcome = "ok" => DOMAIN host \subseteq Present(disk) \cup touched

\* A write of the guest to this very file: its entry or chain is not the one that
\* was mirrored last, or one of its clusters has got other bytes.
GuestRewrites(item) ==
  \/ item.rel \notin DOMAIN synced
  \/ synced[item.rel].signature # Signature(disk', item)
  \/ item.size # 0 /\ \E c \in ToSet(ClusterChain(disk', item.start)) :
                         disk'.data[c] # disk.data[c]

\* "A tracked file is removed only when its host bytes still match the last
\* synchronized version; external edits are kept" (virtualfat16.py:16-17), over
\* any sequence of deletions, renames and failed walks: no write of the guest
\* removes or changes what a host program stored, except that the guest's own
\* write to the file of that path puts the file's bytes there, all of them and
\* nothing else.  (That overwrite does not look at the host's bytes, although
\* README.md:113-114 has "a conflicting external host edit ... retained".)
EditsKept ==
  [][writes' # writes =>
       \A p \in touched \cap DOMAIN host :
         /\ p \in DOMAIN host'
         /\ \/ host'[p] = host[p]
            \/ \E item \in ToSet(Items(disk')) :
                 /\ item.rel = p /\ item.kind = "file"
                 /\ GuestRewrites(item) /\ Readable(disk', item)
                 /\ host'[p] = HostFile(ReadChain(disk', item))]_vars

\* "Guest writes are synchronized to files below directory after each
\* completed disk write" (virtualfat16.py:13-14): after a walk that succeeded,
\* every file no host program touched is the guest's.
GuestReachesHost ==
  outcome = "ok" =>
    \A item \in ToSet(Items(disk)) :
      item.kind = "file" /\ item.rel \notin touched => Mirrored(item)
=============================================================================
