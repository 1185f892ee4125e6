--------------------------- MODULE HostFatProofs ---------------------------
(* Proofs about HostFat.tla: for every volume, every guest, every host        *)
(* program and any number of sector writes and edits, what the mirror keeps   *)
(* on the host is what the guest's tree says, nothing it wrote is left behind *)
(* and nothing somebody else stored is removed or changed but by the guest's   *)
(* own write of that file.                                                    *)
EXTENDS HostFat, TLAPS, SequenceTheorems, FiniteSetTheorems, WellFoundedInduction

-----------------------------------------------------------------------------
(* What is on the disk. *)

DiskOK(d) ==
  /\ d.root \in [1..Slots -> Entries]
  /\ d.fat \in [Clusters -> Clusters \cup {Free, End}]
  /\ d.data \in [Clusters -> Contents]

LEMMA EntryFields ==
  ASSUME NEW e \in Entries
  PROVE  /\ e.kind \in {"free", "file", "dir"}
         /\ e.kind # "free" => e.name \in Names
         /\ e.kind = "dir" => e.start \in Clusters
         /\ e.size \in Nat
  BY HostFatAssumption DEF Entries, NoEntry, Dir, File, Clusters

\* A cluster holds at most the entry of one file.
LEMMA ContentFields ==
  ASSUME NEW c \in Contents
  PROVE  \/ c.entries = <<>>
         \/ \E n \in Names, f \in Clusters : c.entries = <<File(n, 1, f)>>
  BY DEF Contents, Cluster

LEMMA HostBytesApart == Cluster(HostBytes, <<>>) \notin Contents
<1>1. ASSUME NEW b, NEW e, Cluster(HostBytes, <<>>) = Cluster(b, e) PROVE b = HostBytes
  <2>1. Cluster(HostBytes, <<>>).bytes = HostBytes /\ Cluster(b, e).bytes = b
    BY DEF Cluster
  <2> QED
    BY <1>1, <2>1
<1>2. Listing # HostBytes /\ HostBytes \notin Bytes
  BY HostFatAssumption
<1>3. SUFFICES ASSUME Cluster(HostBytes, <<>>) \in Contents PROVE FALSE
  OBVIOUS
<1>4. \E b \in Bytes \cup {Listing} : \E e : Cluster(HostBytes, <<>>) = Cluster(b, e)
  <2>1. CASE \E b \in Bytes : Cluster(HostBytes, <<>>) = Cluster(b, <<>>)
    BY <2>1, Zenon
  <2>2. CASE Cluster(HostBytes, <<>>) = Cluster(Listing, <<>>)
    BY <2>2, Zenon
  <2>3. CASE \E n \in Names, c \in Clusters :
               Cluster(HostBytes, <<>>) = Cluster(Listing, <<File(n, 1, c)>>)
    BY <2>3, Zenon
  <2> QED
    BY <1>3, <2>1, <2>2, <2>3 DEF Contents
<1> QED
  BY <1>1, <1>2, <1>4, Zenon

-----------------------------------------------------------------------------
(* Induction on a count, as a fact about sets. *)

LEMMA UpToLast ==
  ASSUME NEW n \in Nat, NEW S, 0 \in S, \A k \in 1..n : k - 1 \in S => k \in S
  PROVE  0..n \subseteq S
<1> DEFINE T == {k \in 0..n : k \notin S}
<1> SUFFICES ASSUME T # {} PROVE FALSE
  OBVIOUS
<1>1. T \subseteq Nat
  OBVIOUS
<1> HIDE DEF T
<1>2. PICK x \in T : \A y \in T : <<y, x>> \notin OpToRel(<, Nat)
  BY <1>1, NatLessThanWellFounded, WFMin
<1>3. x \in 0..n /\ x \notin S
  BY <1>2 DEF T
<1>4. x \in 1..n /\ x - 1 \in 0..n /\ x - 1 \in Nat /\ x - 1 < x /\ x \in Nat
  <2>1. x # 0
    BY <1>3
  <2> QED
    BY <1>3, <2>1
<1>5. x - 1 \notin T
  BY <1>2, <1>4 DEF OpToRel
<1>6. x - 1 \in S
  BY <1>4, <1>5 DEF T
<1> QED
  BY <1>3, <1>4, <1>6

-----------------------------------------------------------------------------
(* The chain of a file. *)

LEMMA FurtherType ==
  ASSUME NEW d, DiskOK(d), NEW start, NEW s \in Seq(Clusters)
  PROVE  Further(d, start, s) \in Seq(Clusters)
  BY AppendProperties DEF Further

\* The loop of _cluster_chain, pass by pass.
LEMMA ChainSteps ==
  ASSUME NEW d, NEW start
  PROVE  \E f : /\ \A n \in 0..MaxCluster :
                     f[n] = IF n = 0 THEN <<>> ELSE Further(d, start, f[n - 1])
                /\ ClusterChain(d, start) = f[MaxCluster]
<1> DEFINE Loop(f, k) == f = [n \in 0..k |-> IF n = 0 THEN <<>>
                                            ELSE Further(d, start, f[n - 1])]
           S == {k \in 0..MaxCluster : \E f : Loop(f, k)}
<1>0. MaxCluster \in Nat
  BY HostFatAssumption
<1>1. 0 \in S
  <2> DEFINE f == [n \in 0..0 |-> <<>>]
  <2>1. \A n \in 0..0 : f[n] = IF n = 0 THEN <<>> ELSE Further(d, start, f[n - 1])
    OBVIOUS
  <2>2. Loop(f, 0)
    BY <2>1
  <2> HIDE DEF f, Loop
  <2>3. \E h : Loop(h, 0)
    BY <2>2
  <2> QED
    BY <1>0, <2>3
<1>2. ASSUME NEW k \in 1..MaxCluster, k - 1 \in S PROVE k \in S
  <2>1. PICK f : Loop(f, k - 1)
    BY <1>2
  <2> DEFINE g == [n \in 0..k |-> IF n = k THEN Further(d, start, f[k - 1]) ELSE f[n]]
  <2>2. ASSUME NEW n \in 0..k
        PROVE  g[n] = IF n = 0 THEN <<>> ELSE Further(d, start, g[n - 1])
    <3>1. CASE n = k
      <4>1. k # 0 /\ k - 1 \in 0..k /\ k - 1 # k
        OBVIOUS
      <4> QED
        BY <3>1, <4>1
    <3>2. CASE n # k
      <4>1. n \in 0..(k - 1) /\ (n # 0 => n - 1 \in 0..k /\ n - 1 # k)
        BY <3>2
      <4>2. f[n] = IF n = 0 THEN <<>> ELSE Further(d, start, f[n - 1])
        BY <2>1, <4>1
      <4> QED
        BY <3>2, <4>1, <4>2
    <3> QED
      BY <3>1, <3>2
  <2>3. Loop(g, k)
    <3> HIDE DEF g
    <3>1. g = [n \in 0..k |-> g[n]]
      BY DEF g
    <3> QED
      BY <2>2, <3>1
  <2> HIDE DEF g, Loop
  <2>4. \E h : Loop(h, k)
    BY <2>3
  <2> QED
    BY <2>4
<1> HIDE DEF S
<1>3. MaxCluster \in S
  <2>1. 0..MaxCluster \subseteq S
    BY <1>0, <1>1, <1>2, UpToLast
  <2> QED
    BY <1>0, <2>1
<1>4. \E f : Loop(f, MaxCluster)
  BY <1>3 DEF S
<1> DEFINE c == CHOOSE f : Loop(f, MaxCluster)
<1>5. Loop(c, MaxCluster)
  BY <1>4
<1>6. ClusterChain(d, start) = c[MaxCluster]
  BY DEF ClusterChain
<1> HIDE DEF c
<1>7. \A n \in 0..MaxCluster : c[n] = IF n = 0 THEN <<>> ELSE Further(d, start, c[n - 1])
  BY <1>5
<1> QED
  BY <1>6, <1>7

LEMMA ChainType ==
  ASSUME NEW d, DiskOK(d), NEW start
  PROVE  ClusterChain(d, start) \in Seq(Clusters)
<1>0. MaxCluster \in Nat
  BY HostFatAssumption
<1>1. PICK f : /\ \A n \in 0..MaxCluster :
                    f[n] = IF n = 0 THEN <<>> ELSE Further(d, start, f[n - 1])
               /\ ClusterChain(d, start) = f[MaxCluster]
  BY ChainSteps
<1> DEFINE S == {n \in 0..MaxCluster : f[n] \in Seq(Clusters)}
<1>2. 0 \in S
  <2>1. f[0] = <<>>
    BY <1>0, <1>1
  <2>2. f[0] \in Seq(Clusters)
    BY <2>1, EmptySeq
  <2> QED
    BY <1>0, <2>2
<1>3. ASSUME NEW k \in 1..MaxCluster, k - 1 \in S PROVE k \in S
  <2>1. k \in 0..MaxCluster /\ k # 0 /\ f[k - 1] \in Seq(Clusters)
    BY <1>0, <1>3
  <2>2. f[k] = Further(d, start, f[k - 1])
    BY <1>1, <2>1
  <2> QED
    BY <2>1, <2>2, FurtherType
<1> HIDE DEF S
<1>4. 0..MaxCluster \subseteq S
  BY <1>0, <1>2, <1>3, UpToLast
<1> QED
  BY <1>0, <1>1, <1>4 DEF S

-----------------------------------------------------------------------------
(* The items of a walk. *)

ItemSet == [rel : Paths, kind : {"file", "dir"}, size : Nat, start : Clusters \cup {Free}]

\* The entries of the root directory that are in use have different names.
NamesApart(d) ==
  \A i, j \in 1..Slots : i # j /\ d.root[i].kind # "free" /\ d.root[j].kind # "free"
                         => d.root[i].name # d.root[j].name

LEMMA ItemType ==
  ASSUME NEW p \in Paths, NEW e \in Entries, e.kind # "free"
  PROVE  Item(p, e) \in ItemSet /\ Item(p, e).rel = p /\ Item(p, e).kind = e.kind
<1>1. e.start \in Clusters \cup {Free}
  BY DEF Entries, NoEntry, Dir, File
<1> QED
  BY <1>1, EntryFields DEF Item, ItemSet

LEMMA FunctionIsSeq ==
  ASSUME NEW S, NEW n \in Nat, NEW f \in [1..n -> S]
  PROVE  f \in Seq(S) /\ Len(f) = n
<1>1. f \in Seq(S)
  BY SeqDef
<1>2. DOMAIN f = 1..Len(f) /\ Len(f) \in Nat /\ DOMAIN f = 1..n
  BY <1>1, LenProperties
<1> QED
  BY <1>1, <1>2

\* An entry contributes itself and, if it is a directory, at most one file: all
\* under its own name, and no two of them the same path.
LEMMA EntryItemsType ==
  ASSUME NEW d, DiskOK(d), NEW i \in 1..Slots
  PROVE  /\ EntryItems(d, i) \in Seq(ItemSet)
         /\ Len(EntryItems(d, i)) > 0 => d.root[i].kind # "free"
         /\ \A k \in 1..Len(EntryItems(d, i)) :
              EntryItems(d, i)[k].rel[1] = d.root[i].name
         /\ \A k, l \in 1..Len(EntryItems(d, i)) :
              k # l => EntryItems(d, i)[k].rel # EntryItems(d, i)[l].rel
<1> DEFINE e == d.root[i]
           own == Item(<<e.name>>, e)
           inside == d.data[e.start].entries
           sub == [j \in DOMAIN inside |-> Item(<<e.name, inside[j].name>>, inside[j])]
           items == EntryItems(d, i)
<1>1. e \in Entries
  BY DEF DiskOK
<1>2. CASE ~Listed(d, i)
  <2>1. items = <<>>
    BY <1>2 DEF EntryItems
  <2>2. items \in Seq(ItemSet) /\ Len(items) = 0
    BY <2>1, EmptySeq
  <2> QED
    BY <2>2
<1>3. ASSUME Listed(d, i)
      PROVE  e.kind # "free" /\ e.name \in Names /\ <<e.name>> \in Paths /\ own \in ItemSet
             /\ own.rel = <<e.name>>
  <2>1. e.kind # "free"
    BY <1>3 DEF Listed
  <2>2. e.name \in Names
    BY <1>1, <2>1, EntryFields
  <2>3. <<e.name>> \in Paths
    BY <2>2 DEF Paths
  <2> HIDE DEF e
  <2> QED
    BY <1>1, <2>1, <2>2, <2>3, ItemType
<1>4. CASE Listed(d, i) /\ e.kind = "file"
  <2>1. items = <<own>>
    BY <1>4 DEF EntryItems
  <2>2. items \in Seq(ItemSet) /\ Len(items) = 1 /\ items[1] = own
    <3> HIDE DEF own, items
    <3> QED
      BY <1>3, <1>4, <2>1
  <2>3. own.rel[1] = e.name
    BY <1>3, <1>4
  <2> HIDE DEF own, items
  <2>4. \A k \in 1..Len(items) : k = 1 /\ items[k].rel[1] = e.name
    BY <2>2, <2>3
  <2> QED
    BY <1>3, <1>4, <2>2, <2>4 DEF items
<1>5. CASE Listed(d, i) /\ e.kind # "file"
  <2>1. items = <<own>> \o sub
    BY <1>5 DEF EntryItems
  <2>2. e.kind = "dir" /\ e.start \in Clusters
    <3>1. e.kind \in {"free", "file", "dir"} /\ (e.kind = "dir" => e.start \in Clusters)
      BY <1>1, EntryFields
    <3> QED
      BY <1>3, <1>5, <3>1
  <2>3. d.data[e.start] \in Contents
    BY <2>2 DEF DiskOK
  <2>4. \E n \in {0, 1} : /\ sub \in [1..n -> ItemSet]
                          /\ \A j \in 1..n : \E m : sub[j].rel = <<e.name, m>>
    <3>1. CASE inside = <<>>
      <4>1. DOMAIN inside = 1..0
        BY <3>1
      <4>2. sub \in [1..0 -> ItemSet]
        BY <4>1
      <4> HIDE DEF sub
      <4> QED
        BY <4>2
    <3>2. ASSUME NEW n \in Names, NEW f \in Clusters, inside = <<File(n, 1, f)>>
          PROVE  \E k \in {0, 1} : /\ sub \in [1..k -> ItemSet]
                                   /\ \A j \in 1..k : \E m : sub[j].rel = <<e.name, m>>
      <4> DEFINE it == Item(<<e.name, n>>, File(n, 1, f))
      <4>1. File(n, 1, f).kind = "file" /\ File(n, 1, f).name = n
        BY DEF File
      <4>2. File(n, 1, f) \in Entries
        <5>1. 1 \in 1..(MaxCluster - 1)
          BY HostFatAssumption DEF Clusters
        <5> QED
          BY <5>1 DEF Entries
      <4>3. <<e.name, n>> \in Paths
        BY <1>3, <1>5 DEF Paths
      <4>4. it \in ItemSet /\ it.rel = <<e.name, n>>
        BY <4>1, <4>2, <4>3, ItemType
      <4>5. DOMAIN inside = 1..1 /\ inside[1] = File(n, 1, f)
        BY <3>2
      <4>6. sub = [j \in 1..1 |-> Item(<<e.name, inside[j].name>>, inside[j])]
        BY <4>5
      <4>7. \A j \in 1..1 : j = 1 /\ inside[j] = File(n, 1, f) /\ inside[j].name = n
        BY <4>1, <4>5
      <4> HIDE DEF inside, e
      <4>8. DOMAIN sub = 1..1 /\ \A j \in 1..1 : sub[j] = it
        BY <4>6, <4>7
      <4>9. sub \in [1..1 -> ItemSet]
        <5>1. sub = [j \in 1..1 |-> sub[j]]
          BY <4>6
        <5> HIDE DEF sub, it
        <5> QED
          BY <4>4, <4>8, <5>1
      <4> HIDE DEF sub
      <4>10. \A j \in 1..1 : sub[j].rel = <<e.name, n>>
        BY <4>4, <4>8
      <4> QED
        BY <4>9, <4>10
    <3>3. inside = <<>> \/ \E n \in Names, f \in Clusters : inside = <<File(n, 1, f)>>
      BY <2>3, ContentFields
    <3> HIDE DEF inside, sub
    <3> QED
      BY <3>1, <3>2, <3>3
  <2>5. PICK n \in {0, 1} : /\ sub \in [1..n -> ItemSet]
                            /\ \A j \in 1..n : \E m : sub[j].rel = <<e.name, m>>
    BY <2>4
  <2>6. sub \in Seq(ItemSet) /\ Len(sub) = n
    BY <2>5, FunctionIsSeq
  <2>7. own \in ItemSet /\ own.rel = <<e.name>> /\ e.kind # "free"
    BY <1>3, <1>5
  <2> HIDE DEF own, sub, items, e
  <2>8. <<own>> \in Seq(ItemSet) /\ Len(<<own>>) = 1 /\ <<own>>[1] = own
    BY <2>7
  <2>9. /\ items \in Seq(ItemSet) /\ Len(items) = 1 + n
        /\ \A k \in 1..(1 + n) : items[k] = IF k <= 1 THEN <<own>>[k] ELSE sub[k - 1]
    BY <2>1, <2>6, <2>8, ConcatProperties
  <2>10. items[1].rel = <<e.name>>
    BY <2>5, <2>7, <2>8, <2>9
  <2>11. \A k \in 1..(1 + n) : k # 1 => k = 2 /\ \E m : items[k].rel = <<e.name, m>>
    BY <2>5, <2>9
  <2>12. \A k \in 1..(1 + n) : items[k].rel[1] = e.name
    <3>1. <<e.name>>[1] = e.name /\ \A m : <<e.name, m>>[1] = e.name
      OBVIOUS
    <3> QED
      BY <2>10, <2>11, <3>1
  <2>13. \A m : <<e.name>> # <<e.name, m>>
    OBVIOUS
  <2>14. \A k, l \in 1..(1 + n) : k # l => items[k].rel # items[l].rel
    BY <2>10, <2>11, <2>13
  <2> QED
    BY <2>7, <2>9, <2>12, <2>14 DEF items, e
<1> QED
  BY <1>2, <1>4, <1>5

\* The loop of _directory_entries, entry by entry.
LEMMA FoundSteps ==
  ASSUME NEW d
  PROVE  \E f : /\ \A n \in 0..Slots :
                     f[n] = IF n = 0 THEN <<>> ELSE f[n - 1] \o EntryItems(d, n)
                /\ Items(d) = f[Slots]
<1> DEFINE Loop(f, k) == f = [n \in 0..k |-> IF n = 0 THEN <<>>
                                            ELSE f[n - 1] \o EntryItems(d, n)]
           S == {k \in 0..Slots : \E f : Loop(f, k)}
<1>0. Slots \in Nat
  BY HostFatAssumption
<1>1. 0 \in S
  <2> DEFINE f == [n \in 0..0 |-> <<>>]
  <2>1. \A n \in 0..0 : f[n] = IF n = 0 THEN <<>> ELSE f[n - 1] \o EntryItems(d, n)
    OBVIOUS
  <2>2. Loop(f, 0)
    BY <2>1
  <2> HIDE DEF f, Loop
  <2>3. \E h : Loop(h, 0)
    BY <2>2
  <2> QED
    BY <1>0, <2>3
<1>2. ASSUME NEW k \in 1..Slots, k - 1 \in S PROVE k \in S
  <2>1. PICK f : Loop(f, k - 1)
    BY <1>2
  <2> DEFINE g == [n \in 0..k |-> IF n = k THEN f[k - 1] \o EntryItems(d, k) ELSE f[n]]
  <2>2. ASSUME NEW n \in 0..k
        PROVE  g[n] = IF n = 0 THEN <<>> ELSE g[n - 1] \o EntryItems(d, n)
    <3>1. CASE n = k
      <4>1. k # 0 /\ k - 1 \in 0..k /\ k - 1 # k
        BY <1>0
      <4> QED
        BY <3>1, <4>1
    <3>2. CASE n # k
      <4>1. n \in 0..(k - 1) /\ (n # 0 => n - 1 \in 0..k /\ n - 1 # k)
        BY <1>0, <3>2
      <4>2. f[n] = IF n = 0 THEN <<>> ELSE f[n - 1] \o EntryItems(d, n)
        BY <2>1, <4>1
      <4> QED
        BY <3>2, <4>1, <4>2
    <3> QED
      BY <3>1, <3>2
  <2>3. Loop(g, k)
    <3> HIDE DEF g
    <3>1. g = [n \in 0..k |-> g[n]]
      BY DEF g
    <3> QED
      BY <2>2, <3>1
  <2> HIDE DEF g, Loop
  <2>4. \E h : Loop(h, k)
    BY <2>3
  <2> QED
    BY <1>0, <2>4
<1> HIDE DEF S
<1>3. Slots \in S
  <2>1. 0..Slots \subseteq S
    BY <1>0, <1>1, <1>2, UpToLast
  <2> QED
    BY <1>0, <2>1
<1>4. \E f : Loop(f, Slots)
  BY <1>3 DEF S
<1> DEFINE c == CHOOSE f : Loop(f, Slots)
<1>5. Loop(c, Slots)
  BY <1>4
<1>6. Items(d) = c[Slots]
  BY DEF Items
<1> HIDE DEF c
<1>7. \A n \in 0..Slots : c[n] = IF n = 0 THEN <<>> ELSE c[n - 1] \o EntryItems(d, n)
  BY <1>5
<1> QED
  BY <1>6, <1>7

LEMMA ItemsType ==
  ASSUME NEW d, DiskOK(d)
  PROVE  Items(d) \in Seq(ItemSet)
<1>0. Slots \in Nat
  BY HostFatAssumption
<1>1. PICK f : /\ \A n \in 0..Slots :
                    f[n] = IF n = 0 THEN <<>> ELSE f[n - 1] \o EntryItems(d, n)
               /\ Items(d) = f[Slots]
  BY FoundSteps
<1> DEFINE S == {n \in 0..Slots : f[n] \in Seq(ItemSet)}
<1>2. 0 \in S
  <2>1. f[0] = <<>>
    BY <1>0, <1>1
  <2>2. f[0] \in Seq(ItemSet)
    BY <2>1, EmptySeq
  <2> QED
    BY <1>0, <2>2
<1>3. ASSUME NEW k \in 1..Slots, k - 1 \in S PROVE k \in S
  <2>1. k \in 0..Slots /\ k # 0 /\ f[k - 1] \in Seq(ItemSet)
    BY <1>0, <1>3
  <2>2. f[k] = f[k - 1] \o EntryItems(d, k)
    BY <1>1, <2>1
  <2>3. EntryItems(d, k) \in Seq(ItemSet)
    BY EntryItemsType
  <2>4. f[k] \in Seq(ItemSet)
    BY <2>1, <2>2, <2>3, ConcatProperties
  <2> QED
    BY <2>1, <2>4
<1> HIDE DEF S
<1>4. 0..Slots \subseteq S
  BY <1>0, <1>2, <1>3, UpToLast
<1> QED
  BY <1>0, <1>1, <1>4 DEF S

\* Different items of a tree are different paths.
LEMMA ItemsApart ==
  ASSUME NEW d, DiskOK(d), NamesApart(d)
  PROVE  \A k, l \in 1..Len(Items(d)) : k # l => Items(d)[k].rel # Items(d)[l].rel
<1>0. Slots \in Nat
  BY HostFatAssumption
<1>1. PICK f : /\ \A n \in 0..Slots :
                    f[n] = IF n = 0 THEN <<>> ELSE f[n - 1] \o EntryItems(d, n)
               /\ Items(d) = f[Slots]
  BY FoundSteps
<1> DEFINE Named(s, n) == \A k \in 1..Len(s) : \E j \in 1..n : d.root[j].kind # "free"
                                              /\ s[k].rel[1] = d.root[j].name
           Apart(s) == \A k, l \in 1..Len(s) : k # l => s[k].rel # s[l].rel
           S == {n \in 0..Slots : f[n] \in Seq(ItemSet) /\ Named(f[n], n) /\ Apart(f[n])}
<1>2. 0 \in S
  <2>1. f[0] = <<>>
    BY <1>0, <1>1
  <2>2. f[0] \in Seq(ItemSet) /\ Len(f[0]) = 0
    BY <2>1, EmptySeq
  <2> QED
    BY <1>0, <2>2
<1>3. ASSUME NEW n \in 1..Slots, n - 1 \in S PROVE n \in S
  <2> DEFINE s == f[n - 1]
             t == EntryItems(d, n)
             m == Len(f[n - 1])
  <2>1. n \in 0..Slots /\ n # 0 /\ s \in Seq(ItemSet) /\ Named(s, n - 1) /\ Apart(s)
    BY <1>0, <1>3
  <2>2. f[n] = s \o t
    BY <1>1, <2>1
  <2>3. /\ t \in Seq(ItemSet)
        /\ Len(t) > 0 => d.root[n].kind # "free"
        /\ \A k \in 1..Len(t) : t[k].rel[1] = d.root[n].name
        /\ \A k, l \in 1..Len(t) : k # l => t[k].rel # t[l].rel
    BY EntryItemsType
  <2>4. /\ f[n] \in Seq(ItemSet) /\ Len(f[n]) = m + Len(t)
        /\ \A k \in 1..(m + Len(t)) : f[n][k] = IF k <= m THEN s[k] ELSE t[k - m]
    <3> HIDE DEF t
    <3> QED
      BY <2>1, <2>2, <2>3, ConcatProperties
  <2>5. m \in Nat /\ Len(t) \in Nat
    <3> HIDE DEF t
    <3> QED
      BY <2>1, <2>3, LenProperties
  <2>6. \A j \in 1..(n - 1) : j \in 1..Slots /\ n \in 1..Slots /\ j # n
    BY <1>0
  <2> HIDE DEF s, t, m, Apart
  <2>7. ASSUME NEW k \in 1..Len(f[n])
        PROVE  \/ k \in 1..m /\ f[n][k] = s[k]
               \/ k - m \in 1..Len(t) /\ f[n][k] = t[k - m]
    BY <2>4, <2>5
  <2>8. Named(f[n], n)
    <3> SUFFICES ASSUME NEW k \in 1..Len(f[n])
                 PROVE  \E j \in 1..n : d.root[j].kind # "free" /\ f[n][k].rel[1] = d.root[j].name
      OBVIOUS
    <3>1. CASE k \in 1..m /\ f[n][k] = s[k]
      <4>1. PICK j \in 1..(n - 1) : d.root[j].kind # "free" /\ s[k].rel[1] = d.root[j].name
        BY <2>1, <3>1 DEF m, s
      <4>2. j \in 1..n
        BY <1>0
      <4> QED
        BY <3>1, <4>1, <4>2
    <3>2. CASE k - m \in 1..Len(t) /\ f[n][k] = t[k - m]
      <4>1. Len(t) > 0 /\ n \in 1..n
        BY <2>5, <3>2
      <4> QED
        BY <2>3, <3>2, <4>1
    <3> QED
      BY <2>7, <3>1, <3>2
  <2>9. ASSUME NEW a \in 1..m, NEW b \in 1..Len(t) PROVE s[a].rel # t[b].rel
    <3>1. PICK j \in 1..(n - 1) : d.root[j].kind # "free" /\ s[a].rel[1] = d.root[j].name
      BY <2>1 DEF m, s
    <3>2. d.root[n].kind # "free" /\ t[b].rel[1] = d.root[n].name
      <4>1. Len(t) > 0
        BY <2>5
      <4> QED
        BY <2>3, <4>1
    <3>3. d.root[j].name # d.root[n].name
      BY <2>6, <3>1, <3>2 DEF NamesApart
    <3> QED
      BY <3>1, <3>2, <3>3
  <2>10. ASSUME NEW k \in 1..Len(f[n]), NEW l \in 1..Len(f[n]), k # l
         PROVE  f[n][k].rel # f[n][l].rel
    <3>1. CASE k \in 1..m /\ f[n][k] = s[k] /\ l \in 1..m /\ f[n][l] = s[l]
      BY <2>1, <2>10, <3>1 DEF Apart, m, s
    <3>2. CASE k \in 1..m /\ f[n][k] = s[k] /\ l - m \in 1..Len(t) /\ f[n][l] = t[l - m]
      BY <2>9, <3>2
    <3>3. CASE k - m \in 1..Len(t) /\ f[n][k] = t[k - m] /\ l \in 1..m /\ f[n][l] = s[l]
      BY <2>9, <3>3
    <3>4. CASE /\ k - m \in 1..Len(t) /\ f[n][k] = t[k - m]
               /\ l - m \in 1..Len(t) /\ f[n][l] = t[l - m]
      <4>1. k - m # l - m
        BY <2>4, <2>5, <2>10
      <4> QED
        BY <2>3, <3>4, <4>1
    <3> QED
      BY <2>7, <3>1, <3>2, <3>3, <3>4
  <2>11. Apart(f[n])
    BY <2>10 DEF Apart
  <2> HIDE DEF Named
  <2> QED
    BY <2>1, <2>4, <2>8, <2>11
<1> HIDE DEF S
<1>4. 0..Slots \subseteq S
  BY <1>0, <1>2, <1>3, UpToLast
<1>5. Slots \in S
  BY <1>0, <1>4
<1> QED
  BY <1>1, <1>5 DEF S

-----------------------------------------------------------------------------
(* The inductive invariant.  A path the mirror knows as a file is, unless a   *)
(* host program changed it or it is a directory by now, on the host with the  *)
(* bytes of its hash; and these are the bytes its clusters have on the disk,  *)
(* unless a walk that was given up forgot one of them.                        *)

HostEdit == HostFile(<<Cluster(HostBytes, <<>>)>>)

\* r is a size, a chain that is long enough, and contents of clusters.
Recorded(r) ==
  /\ r.signature[2] \in Seq(Clusters)
  /\ r.signature[1] \in Nat /\ r.signature[1] <= Len(r.signature[2])
  /\ r.hash \in [1..r.signature[1] -> Contents]

Exact(d, r) == r.hash = [i \in 1..r.signature[1] |-> d.data[r.signature[2][i]]]

IsDir(h, p) == p \in DOMAIN h /\ h[p].kind = "dir"

Held(h, s, t, p) ==
  p \notin t /\ ~IsDir(h, p) => p \in DOMAIN h /\ h[p] = HostFile(s[p].hash)

Fresh(d, h, s, t, l, p) ==
  p \notin t /\ ~IsDir(h, p) /\ ToSet(s[p].signature[2]) \cap l = {} => Exact(d, s[p])

\* h, k, s and t: the host directory, the known paths, what is recorded of them
\* and the paths a host program changed, between two steps or within a walk.
Consistent(h, k, s, t) ==
  /\ DOMAIN s \subseteq k /\ k \subseteq Paths
  /\ DOMAIN h \subseteq k \cup t /\ DOMAIN h \subseteq Paths
  /\ \A p \in DOMAIN h : h[p].kind \in {"file", "dir"}
  /\ \A p \in t \cap DOMAIN h : h[p] = HostEdit
  /\ \A p \in DOMAIN s : Recorded(s[p])
  /\ \A p \in DOMAIN s : Held(h, s, t, p)

Signed(d, s, item) ==
  item.kind = "file" => item.rel \in DOMAIN s /\ s[item.rel].signature = Signature(d, item)

IInv ==
  /\ TypeOK
  /\ Consistent(host, paths, synced, touched)
  /\ \A p \in DOMAIN synced : Fresh(disk, host, synced, touched, lost, p)
  /\ NamesApart(disk)
  /\ outcome = "ok" => \A k \in 1..Len(Items(disk)) : Signed(disk, synced, Items(disk)[k])
  /\ outcome = "ok" => DOMAIN host \subseteq Present(disk) \cup touched

LEMMA WithFacts ==
  ASSUME NEW f, NEW p, NEW v
  PROVE  /\ DOMAIN With(f, p, v) = DOMAIN f \cup {p}
         /\ With(f, p, v)[p] = v
         /\ \A q \in DOMAIN f : q # p => With(f, p, v)[q] = f[q]
  BY DEF With

LEMMA ButFacts ==
  ASSUME NEW f, NEW S
  PROVE  DOMAIN But(f, S) = DOMAIN f \ S /\ \A q \in DOMAIN f \ S : But(f, S)[q] = f[q]
  BY DEF But

LEMMA RecordFields ==
  ASSUME NEW a, NEW b
  PROVE  [signature |-> a, hash |-> b].signature = a /\ [signature |-> a, hash |-> b].hash = b
  OBVIOUS

LEMMA HostFacts ==
  ASSUME NEW c
  PROVE  HostFile(c).kind = "file" /\ HostDir.kind = "dir"
  BY DEF HostFile, HostDir

LEMMA HostFileInjective ==
  ASSUME NEW a, NEW b, HostFile(a) = HostFile(b)
  PROVE  a = b
<1>1. HostFile(a).content = a /\ HostFile(b).content = b
  BY DEF HostFile
<1> QED
  BY <1>1

\* No file the mirror recorded has the bytes of a host program.
LEMMA RecordedIsNoEdit ==
  ASSUME NEW r, Recorded(r)
  PROVE  HostFile(r.hash) # HostEdit
<1> SUFFICES ASSUME r.hash = <<Cluster(HostBytes, <<>>)>> PROVE FALSE
  BY HostFileInjective DEF HostEdit
<1>1. 1 \in DOMAIN r.hash /\ r.hash[1] = Cluster(HostBytes, <<>>)
  <2> HIDE DEF Cluster
  <2> QED
    OBVIOUS
<1>2. r.hash[1] \in Contents
  BY <1>1 DEF Recorded
<1> QED
  BY <1>1, <1>2, HostBytesApart

-----------------------------------------------------------------------------
(* One item of a walk. *)

WalkState(st) ==
  /\ st = [host |-> st.host, paths |-> st.paths, synced |-> st.synced,
           written |-> st.written, failed |-> st.failed]
  /\ st.failed \in BOOLEAN

KeptItem(d, dirty, st, item, new) ==
  /\ new = st
  /\ st.failed \/ (item.kind = "file" /\ UpToDate(d, item, dirty, st))

FailedItem(st, new) ==
  /\ new.failed
  /\ new.host = st.host /\ new.paths = st.paths /\ new.synced = st.synced
  /\ new.written = st.written

FoundDir(st, item, new) ==
  /\ item.kind = "dir" /\ IsDir(st.host, item.rel) /\ ~st.failed
  /\ new.host = st.host /\ new.paths = st.paths \cup {item.rel}
  /\ new.synced = st.synced /\ new.written = st.written /\ new.failed = st.failed

MadeDir(st, item, new) ==
  /\ item.kind = "dir" /\ item.rel \notin DOMAIN st.host /\ ~st.failed
  /\ new.host = With(st.host, item.rel, HostDir) /\ new.paths = st.paths \cup {item.rel}
  /\ new.synced = st.synced /\ new.written = st.written \cup {item.rel}
  /\ new.failed = st.failed

WrittenFile(d, st, item, new) ==
  /\ item.kind = "file" /\ Readable(d, item) /\ ~IsDir(st.host, item.rel) /\ ~st.failed
  /\ new.host = With(st.host, item.rel, HostFile(ReadChain(d, item)))
  /\ new.paths = st.paths \cup {item.rel}
  /\ new.synced = With(st.synced, item.rel,
                       [signature |-> Signature(d, item), hash |-> ReadChain(d, item)])
  /\ new.written = st.written \cup {item.rel}
  /\ new.failed = st.failed

LEMMA ItemCases ==
  ASSUME NEW d, NEW dirty, NEW st, WalkState(st), NEW item \in ItemSet,
         NEW new, new = SyncItem(d, dirty, st, item)
  PROVE  /\ WalkState(new)
         /\ \/ KeptItem(d, dirty, st, item, new)
            \/ FailedItem(st, new)
            \/ FoundDir(st, item, new)
            \/ MadeDir(st, item, new)
            \/ WrittenFile(d, st, item, new)
<1>1. item.kind \in {"file", "dir"}
  BY DEF ItemSet
<1>2. ASSUME new = [st EXCEPT !.failed = TRUE] PROVE WalkState(new) /\ FailedItem(st, new)
  <2>1. new = [host |-> st.host, paths |-> st.paths, synced |-> st.synced,
               written |-> st.written, failed |-> TRUE]
    BY <1>2 DEF WalkState
  <2> QED
    BY <2>1 DEF WalkState, FailedItem
<1>3. CASE st.failed
  BY <1>3 DEF SyncItem, KeptItem
<1>4. CASE ~st.failed /\ item.kind = "dir"
  <2>1. new = MakeDir(st, item.rel)
    BY <1>4 DEF SyncItem
  <2>2. CASE item.rel \in DOMAIN st.host /\ st.host[item.rel].kind = "dir"
    <3>1. new = [st EXCEPT !.paths = @ \cup {item.rel}]
      BY <2>1, <2>2 DEF MakeDir
    <3>2. new = [host |-> st.host, paths |-> st.paths \cup {item.rel}, synced |-> st.synced,
                 written |-> st.written, failed |-> st.failed]
      BY <3>1 DEF WalkState
    <3>3. WalkState(new)
      BY <3>2 DEF WalkState
    <3>4. FoundDir(st, item, new)
      BY <1>4, <2>2, <3>2 DEF FoundDir, IsDir
    <3> QED
      BY <3>3, <3>4
  <2>3. CASE item.rel \in DOMAIN st.host /\ st.host[item.rel].kind # "dir"
    BY <1>2, <2>1, <2>3 DEF MakeDir
  <2>4. CASE item.rel \notin DOMAIN st.host
    <3>1. new = [st EXCEPT !.host = With(@, item.rel, HostDir), !.paths = @ \cup {item.rel},
                           !.written = @ \cup {item.rel}]
      BY <2>1, <2>4 DEF MakeDir
    <3>2. new = [host |-> With(st.host, item.rel, HostDir), paths |-> st.paths \cup {item.rel},
                 synced |-> st.synced, written |-> st.written \cup {item.rel},
                 failed |-> st.failed]
      BY <3>1 DEF WalkState
    <3>3. WalkState(new)
      BY <3>2 DEF WalkState
    <3>4. MadeDir(st, item, new)
      BY <1>4, <2>4, <3>2 DEF MadeDir
    <3> QED
      BY <3>3, <3>4
  <2> QED
    BY <2>2, <2>3, <2>4
<1>5. CASE ~st.failed /\ item.kind = "file" /\ UpToDate(d, item, dirty, st)
  BY <1>5 DEF SyncItem, KeptItem
<1>6. CASE ~st.failed /\ item.kind = "file" /\ ~UpToDate(d, item, dirty, st)
  <2>1. new = WriteFile(d, st, item)
    BY <1>6 DEF SyncItem
  <2>2. CASE ~Readable(d, item) \/ (item.rel \in DOMAIN st.host /\ st.host[item.rel].kind = "dir")
    BY <1>2, <2>1, <2>2 DEF WriteFile
  <2>3. CASE ~(~Readable(d, item) \/ (item.rel \in DOMAIN st.host /\ st.host[item.rel].kind = "dir"))
    <3> DEFINE content == ReadChain(d, item)
               r == [signature |-> Signature(d, item), hash |-> ReadChain(d, item)]
    <3>1. new = [st EXCEPT !.host = With(@, item.rel, HostFile(content)),
                           !.paths = @ \cup {item.rel}, !.synced = With(@, item.rel, r),
                           !.written = @ \cup {item.rel}]
      BY <2>1, <2>3 DEF WriteFile
    <3> HIDE DEF content, r
    <3>2. new = [host |-> With(st.host, item.rel, HostFile(content)),
                 paths |-> st.paths \cup {item.rel},
                 synced |-> With(st.synced, item.rel, r),
                 written |-> st.written \cup {item.rel}, failed |-> st.failed]
      BY <3>1 DEF WalkState
    <3>3. WalkState(new)
      BY <3>2 DEF WalkState
    <3>4. WrittenFile(d, st, item, new)
      BY <1>6, <2>3, <3>2 DEF WrittenFile, IsDir, content, r
    <3> QED
      BY <3>3, <3>4
  <2> QED
    BY <2>2, <2>3
<1> QED
  BY <1>1, <1>3, <1>4, <1>5, <1>6

\* What an item leaves alone: nothing disappears from the host, what it does not
\* write stays as it was, and what it writes is its own path.
Effect(st, item, new) ==
  /\ st.written \subseteq new.written /\ new.written \subseteq st.written \cup {item.rel}
  /\ DOMAIN st.host \subseteq DOMAIN new.host
  /\ DOMAIN new.host \subseteq DOMAIN st.host \cup new.written
  /\ \A q \in DOMAIN st.host :
       (q # item.rel \/ q \notin new.written) => new.host[q] = st.host[q]
  /\ DOMAIN st.synced \subseteq DOMAIN new.synced
  /\ \A q \in DOMAIN new.synced :
       q # item.rel => q \in DOMAIN st.synced /\ new.synced[q] = st.synced[q]
  /\ st.failed => new.failed

LEMMA ItemEffect ==
  ASSUME NEW d, NEW dirty, NEW st, WalkState(st), NEW item \in ItemSet,
         NEW new, new = SyncItem(d, dirty, st, item)
  PROVE  Effect(st, item, new)
<1> USE DEF Effect
<1> DEFINE p == item.rel
<1>1. CASE KeptItem(d, dirty, st, item, new)
  BY <1>1 DEF KeptItem
<1>2. CASE FailedItem(st, new)
  BY <1>2 DEF FailedItem
<1>3. CASE FoundDir(st, item, new)
  BY <1>3 DEF FoundDir
<1>4. CASE MadeDir(st, item, new)
  <2>1. new.host = With(st.host, p, HostDir) /\ new.synced = st.synced /\ p \notin DOMAIN st.host
        /\ new.written = st.written \cup {p} /\ ~st.failed
    BY <1>4 DEF MadeDir
  <2>2. DOMAIN new.host = DOMAIN st.host \cup {p}
        /\ \A q \in DOMAIN st.host : q # p => new.host[q] = st.host[q]
    BY <2>1 DEF With
  <2> QED
    BY <2>1, <2>2
<1>5. CASE WrittenFile(d, st, item, new)
  <2> DEFINE r == [signature |-> Signature(d, item), hash |-> ReadChain(d, item)]
             c == HostFile(ReadChain(d, item))
  <2>1. new.host = With(st.host, p, c) /\ new.synced = With(st.synced, p, r)
        /\ new.written = st.written \cup {p} /\ ~st.failed
    BY <1>5 DEF WrittenFile
  <2> HIDE DEF r, c
  <2>2. DOMAIN new.host = DOMAIN st.host \cup {p}
        /\ \A q \in DOMAIN st.host : q # p => new.host[q] = st.host[q]
    BY <2>1 DEF With
  <2>3. DOMAIN new.synced = DOMAIN st.synced \cup {p}
        /\ \A q \in DOMAIN st.synced : q # p => new.synced[q] = st.synced[q]
    BY <2>1 DEF With
  <2> QED
    BY <2>1, <2>2, <2>3
<1> QED
  BY <1>1, <1>2, <1>3, <1>4, <1>5, ItemCases

\* A file that is written is recorded with the bytes it gets.
LEMMA WrittenRecord ==
  ASSUME NEW d, DiskOK(d), NEW st, NEW item \in ItemSet, NEW new,
         WrittenFile(d, st, item, new)
  PROVE  /\ item.rel \in DOMAIN new.host
         /\ new.host[item.rel] = HostFile(new.synced[item.rel].hash)
         /\ item.rel \in DOMAIN new.synced
         /\ new.synced[item.rel].signature = Signature(d, item)
         /\ Recorded(new.synced[item.rel])
         /\ Exact(d, new.synced[item.rel])
<1> DEFINE p == item.rel
           c == ClusterChain(d, item.start)
           r == [signature |-> Signature(d, item), hash |-> ReadChain(d, item)]
<1>1. c \in Seq(Clusters) /\ Len(c) \in Nat /\ \A i \in 1..Len(c) : c[i] \in Clusters
  <2>1. c \in Seq(Clusters)
    BY ChainType
  <2> HIDE DEF c
  <2> QED
    BY <2>1, LenProperties, ElementOfSeq
<1>2. item.size \in Nat /\ item.size <= Len(c)
  BY DEF WrittenFile, Readable, ItemSet
<1>3. r.signature = <<item.size, c>> /\ r.hash = [i \in 1..item.size |-> d.data[c[i]]]
  BY DEF Signature, ReadChain
<1>4. r.signature[1] = item.size /\ r.signature[2] = c
  <2> HIDE DEF r, c
  <2> QED
    BY <1>3
<1>5. new.host = With(st.host, p, HostFile(r.hash)) /\ new.synced = With(st.synced, p, r)
  BY RecordFields DEF WrittenFile
<1>6. r.signature = Signature(d, item)
  BY RecordFields
<1> HIDE DEF r, c
<1>7. \A i \in 1..item.size : d.data[c[i]] \in Contents
  <2>1. \A i \in 1..item.size : c[i] \in Clusters
    BY <1>1, <1>2
  <2> QED
    BY <2>1 DEF DiskOK
<1>8. Recorded(r)
  BY <1>1, <1>2, <1>3, <1>4, <1>7 DEF Recorded
<1>9. Exact(d, r)
  BY <1>3, <1>4 DEF Exact
<1>10. p \in DOMAIN new.host /\ new.host[p] = HostFile(r.hash)
  BY <1>5 DEF With
<1>11. p \in DOMAIN new.synced /\ new.synced[p] = r
  BY <1>5 DEF With
<1> QED
  BY <1>6, <1>8, <1>9, <1>10, <1>11

LEMMA ItemConsistent ==
  ASSUME NEW d, DiskOK(d), NEW dirty, NEW st, WalkState(st), NEW item \in ItemSet, NEW t,
         NEW new, new = SyncItem(d, dirty, st, item),
         Consistent(st.host, st.paths, st.synced, t \ st.written)
  PROVE  Consistent(new.host, new.paths, new.synced, t \ new.written)
<1> DEFINE p == item.rel
<1>1. p \in Paths
  BY DEF ItemSet
<1>2. CASE KeptItem(d, dirty, st, item, new)
  BY <1>2 DEF KeptItem
<1>3. CASE FailedItem(st, new)
  BY <1>3 DEF FailedItem
<1>4. CASE FoundDir(st, item, new)
  BY <1>1, <1>4 DEF FoundDir, Consistent
<1>5. CASE MadeDir(st, item, new)
  <2>1. new.host = With(st.host, p, HostDir) /\ p \notin DOMAIN st.host
        /\ new.paths = st.paths \cup {p} /\ new.synced = st.synced
        /\ new.written = st.written \cup {p}
    BY <1>5 DEF MadeDir
  <2>2. DOMAIN new.host = DOMAIN st.host \cup {p} /\ new.host[p] = HostDir
        /\ \A q \in DOMAIN st.host : q # p => new.host[q] = st.host[q]
    BY <2>1 DEF With
  <2>3. IsDir(new.host, p)
    BY <2>2, HostFacts DEF IsDir
  <2>4. \A q \in DOMAIN new.synced : Held(new.host, new.synced, t \ new.written, q)
    <3>1. ASSUME NEW q \in DOMAIN new.synced, q # p
          PROVE  Held(new.host, new.synced, t \ new.written, q)
      <4>1. Held(st.host, st.synced, t \ st.written, q)
        BY <2>1, <3>1 DEF Consistent
      <4> QED
        BY <2>1, <2>2, <3>1, <4>1 DEF Held, IsDir
    <3>2. Held(new.host, new.synced, t \ new.written, p)
      BY <2>3 DEF Held
    <3> QED
      BY <3>1, <3>2
  <2> QED
    BY <1>1, <2>1, <2>2, <2>4, HostFacts DEF Consistent
<1>6. CASE WrittenFile(d, st, item, new)
  <2> DEFINE r == [signature |-> Signature(d, item), hash |-> ReadChain(d, item)]
             c == ReadChain(d, item)
  <2>1. new.host = With(st.host, p, HostFile(c)) /\ new.synced = With(st.synced, p, r)
        /\ new.written = st.written \cup {p} /\ new.paths = st.paths \cup {p}
    BY <1>6 DEF WrittenFile
  <2> HIDE DEF r, c
  <2>2. DOMAIN new.host = DOMAIN st.host \cup {p} /\ new.host[p] = HostFile(c)
        /\ \A q \in DOMAIN st.host : q # p => new.host[q] = st.host[q]
    BY <2>1 DEF With
  <2>3. DOMAIN new.synced = DOMAIN st.synced \cup {p}
        /\ \A q \in DOMAIN st.synced : q # p => new.synced[q] = st.synced[q]
    BY <2>1 DEF With
  <2>4. \A q \in DOMAIN new.synced : Held(new.host, new.synced, t \ new.written, q)
    <3>1. ASSUME NEW q \in DOMAIN new.synced, q # p
          PROVE  Held(new.host, new.synced, t \ new.written, q)
      <4>1. Held(st.host, st.synced, t \ st.written, q)
        BY <2>3, <3>1 DEF Consistent
      <4> QED
        BY <2>1, <2>2, <2>3, <3>1, <4>1 DEF Held, IsDir
    <3>2. Held(new.host, new.synced, t \ new.written, p)
      BY <1>6, WrittenRecord DEF Held
    <3> QED
      BY <3>1, <3>2
  <2>5. \A q \in DOMAIN new.synced : Recorded(new.synced[q])
    <3>1. Recorded(new.synced[p])
      BY <1>6, WrittenRecord
    <3>2. ASSUME NEW q \in DOMAIN new.synced, q # p PROVE Recorded(new.synced[q])
      BY <2>3, <3>2 DEF Consistent
    <3> QED
      BY <3>1, <3>2
  <2>6. \A q \in DOMAIN new.host : new.host[q].kind \in {"file", "dir"}
    BY <2>2, HostFacts DEF Consistent
  <2>7. \A q \in (t \ new.written) \cap DOMAIN new.host : new.host[q] = HostEdit
    BY <2>1, <2>2 DEF Consistent
  <2>8. /\ DOMAIN new.synced \subseteq new.paths /\ new.paths \subseteq Paths
        /\ DOMAIN new.host \subseteq new.paths \cup (t \ new.written)
        /\ DOMAIN new.host \subseteq Paths
    BY <1>1, <2>1, <2>2, <2>3 DEF Consistent
  <2> QED
    BY <2>4, <2>5, <2>6, <2>7, <2>8 DEF Consistent
<1> QED
  BY <1>2, <1>3, <1>4, <1>5, <1>6, ItemCases

\* A path that is fresh stays so, whatever item comes next.
LEMMA ItemFresh ==
  ASSUME NEW d, DiskOK(d), NEW dirty, NEW st, WalkState(st), NEW item \in ItemSet, NEW t,
         NEW new, new = SyncItem(d, dirty, st, item), NEW l, NEW q \in DOMAIN new.synced,
         q \in DOMAIN st.synced => Fresh(d, st.host, st.synced, t \ st.written, l, q)
  PROVE  Fresh(d, new.host, new.synced, t \ new.written, l, q)
<1> DEFINE p == item.rel
<1>1. CASE KeptItem(d, dirty, st, item, new)
  BY <1>1 DEF KeptItem
<1>2. CASE FailedItem(st, new)
  BY <1>2 DEF FailedItem
<1>3. CASE FoundDir(st, item, new)
  BY <1>3 DEF FoundDir
<1>4. CASE MadeDir(st, item, new) \/ WrittenFile(d, st, item, new)
  <2>1. CASE q = p /\ MadeDir(st, item, new)
    <3>1. new.host = With(st.host, p, HostDir)
      BY <2>1 DEF MadeDir
    <3>2. IsDir(new.host, p)
      BY <3>1, HostFacts DEF IsDir, With
    <3> QED
      BY <2>1, <3>2 DEF Fresh
  <2>2. CASE q = p /\ WrittenFile(d, st, item, new)
    BY <2>2, WrittenRecord DEF Fresh
  <2>3. CASE q # p
    <3>1. q \in DOMAIN st.synced /\ new.synced[q] = st.synced[q]
      BY <2>3, ItemEffect DEF Effect
    <3>2. DOMAIN st.host \subseteq DOMAIN new.host
          /\ (q \in DOMAIN st.host => new.host[q] = st.host[q])
      BY <1>4, <2>3 DEF MadeDir, WrittenFile, With
    <3>3. new.written = st.written \cup {p}
      BY <1>4 DEF MadeDir, WrittenFile
    <3> QED
      BY <2>3, <3>1, <3>2, <3>3 DEF Fresh, IsDir
  <2> QED
    BY <1>4, <2>1, <2>2, <2>3
<1> QED
  BY <1>1, <1>2, <1>3, <1>4, ItemCases

\* An item whose turn ended well is signed, and its path is fresh even if the
\* write that is being mirrored changed one of its clusters.
LEMMA ItemDone ==
  ASSUME NEW d, DiskOK(d), NEW dirty, NEW st, WalkState(st), NEW item \in ItemSet, NEW t,
         NEW new, new = SyncItem(d, dirty, st, item), NEW l, ~new.failed,
         Consistent(st.host, st.paths, st.synced, t \ st.written),
         \A q \in DOMAIN st.synced :
           Fresh(d, st.host, st.synced, t \ st.written, l \cup dirty, q)
  PROVE  /\ Signed(d, new.synced, item)
         /\ item.rel \in DOMAIN new.synced =>
              Fresh(d, new.host, new.synced, t \ new.written, l, item.rel)
<1> DEFINE p == item.rel
           c == ClusterChain(d, item.start)
<1>1. CASE KeptItem(d, dirty, st, item, new)
  <2>1. new = st /\ ~st.failed
    BY <1>1 DEF KeptItem
  <2>2. item.kind = "file" /\ UpToDate(d, item, dirty, st)
    BY <1>1, <2>1 DEF KeptItem
  <2>3. p \in DOMAIN st.synced /\ st.synced[p].signature = Signature(d, item)
        /\ (item.size = 0 \/ dirty \cap ToSet(c) = {})
    BY <2>2 DEF UpToDate
  <2>4. Signature(d, item)[2] = c /\ Signature(d, item)[1] = item.size
    BY DEF Signature
  <2>5. Fresh(d, st.host, st.synced, t \ st.written, l \cup dirty, p)
    BY <2>3
  <2> HIDE DEF c
  <2>6. Fresh(d, st.host, st.synced, t \ st.written, l, p)
    <3>1. CASE dirty \cap ToSet(c) = {}
      <4>1. ToSet(c) \cap l = {} => ToSet(c) \cap (l \cup dirty) = {}
        BY <3>1
      <4> QED
        BY <2>3, <2>4, <2>5, <4>1 DEF Fresh
    <3>2. CASE item.size = 0
      <4>1. Recorded(st.synced[p])
        BY <2>3 DEF Consistent
      <4> DEFINE r == st.synced[p]
      <4>2. r.signature[1] = 0
        BY <2>3, <2>4, <3>2
      <4> HIDE DEF r
      <4>3. r.hash \in [1..0 -> Contents]
        BY <4>1, <4>2 DEF Recorded, r
      <4>4. r.hash = [i \in 1..r.signature[1] |-> d.data[r.signature[2][i]]]
        BY <4>2, <4>3
      <4>5. Exact(d, st.synced[p])
        BY <4>4 DEF Exact, r
      <4> QED
        BY <4>5 DEF Fresh
    <3> QED
      BY <2>3, <3>1, <3>2
  <2> QED
    BY <2>1, <2>2, <2>3, <2>6 DEF Signed
<1>2. CASE FailedItem(st, new)
  BY <1>2 DEF FailedItem
<1>3. CASE FoundDir(st, item, new)
  <2>1. IsDir(new.host, p) /\ item.kind = "dir"
    BY <1>3 DEF FoundDir
  <2> QED
    BY <2>1 DEF Signed, Fresh
<1>4. CASE MadeDir(st, item, new)
  <2>1. new.host = With(st.host, p, HostDir) /\ item.kind = "dir"
    BY <1>4 DEF MadeDir
  <2>2. IsDir(new.host, p)
    BY <2>1, HostFacts DEF IsDir, With
  <2> QED
    BY <2>1, <2>2 DEF Signed, Fresh
<1>5. CASE WrittenFile(d, st, item, new)
  BY <1>5, WrittenRecord DEF Signed, Fresh
<1> QED
  BY <1>1, <1>2, <1>3, <1>4, <1>5, ItemCases

-----------------------------------------------------------------------------
(* The walk. *)

WalkStart == [host |-> host, paths |-> paths, synced |-> synced, written |-> {},
              failed |-> FALSE]

\* The loop of _sync_directory, item by item.
LEMMA WalkSteps ==
  ASSUME NEW d, DiskOK(d), NEW dirty
  PROVE  \E f : /\ \A n \in 0..Len(Items(d)) :
                     f[n] = IF n = 0 THEN WalkStart ELSE SyncItem(d, dirty, f[n - 1], Items(d)[n])
                /\ SyncDirectory(d, dirty) = f[Len(Items(d))]
<1> DEFINE Loop(f, k) == f = [n \in 0..k |-> IF n = 0 THEN WalkStart
                                            ELSE SyncItem(d, dirty, f[n - 1], Items(d)[n])]
           S == {k \in 0..Len(Items(d)) : \E f : Loop(f, k)}
<1>0. Len(Items(d)) \in Nat
  BY ItemsType, LenProperties
<1>1. 0 \in S
  <2> DEFINE f == [n \in 0..0 |-> WalkStart]
  <2>1. \A n \in 0..0 : f[n] = IF n = 0 THEN WalkStart ELSE SyncItem(d, dirty, f[n - 1], Items(d)[n])
    OBVIOUS
  <2>2. Loop(f, 0)
    BY <2>1
  <2> HIDE DEF f, Loop
  <2>3. \E h : Loop(h, 0)
    BY <2>2
  <2> QED
    BY <1>0, <2>3
<1>2. ASSUME NEW k \in 1..Len(Items(d)), k - 1 \in S PROVE k \in S
  <2>1. PICK f : Loop(f, k - 1)
    BY <1>2
  <2> DEFINE g == [n \in 0..k |-> IF n = k THEN SyncItem(d, dirty, f[k - 1], Items(d)[k]) ELSE f[n]]
  <2>2. ASSUME NEW n \in 0..k
        PROVE  g[n] = IF n = 0 THEN WalkStart ELSE SyncItem(d, dirty, g[n - 1], Items(d)[n])
    <3>1. CASE n = k
      <4>1. k # 0 /\ k - 1 \in 0..k /\ k - 1 # k
        BY <1>0
      <4> QED
        BY <3>1, <4>1
    <3>2. CASE n # k
      <4>1. n \in 0..(k - 1) /\ (n # 0 => n - 1 \in 0..k /\ n - 1 # k)
        BY <1>0, <3>2
      <4>2. f[n] = IF n = 0 THEN WalkStart ELSE SyncItem(d, dirty, f[n - 1], Items(d)[n])
        BY <2>1, <4>1
      <4> QED
        BY <3>2, <4>1, <4>2
    <3> QED
      BY <3>1, <3>2
  <2>3. Loop(g, k)
    <3> HIDE DEF g
    <3>1. g = [n \in 0..k |-> g[n]]
      BY DEF g
    <3> QED
      BY <2>2, <3>1
  <2> HIDE DEF g, Loop
  <2>4. \E h : Loop(h, k)
    BY <2>3
  <2> QED
    BY <1>0, <2>4
<1> HIDE DEF S
<1>3. Len(Items(d)) \in S
  <2>1. 0..Len(Items(d)) \subseteq S
    BY <1>0, <1>1, <1>2, UpToLast
  <2> QED
    BY <1>0, <2>1
<1>4. \E f : Loop(f, Len(Items(d)))
  BY <1>3 DEF S
<1> DEFINE c == CHOOSE f : Loop(f, Len(Items(d)))
<1>5. Loop(c, Len(Items(d)))
  BY <1>4
<1>6. SyncDirectory(d, dirty) = c[Len(Items(d))]
  BY DEF SyncDirectory, WalkStart
<1> HIDE DEF c
<1>7. \A n \in 0..Len(Items(d)) : c[n] = IF n = 0 THEN WalkStart ELSE SyncItem(d, dirty, c[n - 1], Items(d)[n])
  BY <1>5
<1> QED
  BY <1>6, <1>7

\* What a walk comes to, given up or not: a state that agrees with the disk but
\* for the dirty clusters; nothing has left the host, and it changed only at items
\* of the tree.  A walk that came to the end has signed every file, and no item of
\* it is stale.
WalkSound(d, dirty, st) ==
  LET items == Items(d)
      t == touched \ st.written
  IN  /\ WalkState(st)
      /\ Consistent(st.host, st.paths, st.synced, t)
      /\ \A q \in DOMAIN st.synced : Fresh(d, st.host, st.synced, t, lost \cup dirty, q)
      /\ \A q \in st.written : \E k \in 1..Len(items) : q = items[k].rel
      /\ DOMAIN host \subseteq DOMAIN st.host
      /\ DOMAIN st.host \subseteq DOMAIN host \cup st.written
      /\ \A q \in DOMAIN host \ st.written : st.host[q] = host[q]
      /\ ~st.failed => \A k \in 1..Len(items) : Signed(d, st.synced, items[k])
      /\ ~st.failed => \A k \in 1..Len(items) : items[k].rel \in DOMAIN st.synced =>
           Fresh(d, st.host, st.synced, t, lost, items[k].rel)

LEMMA WalkResult ==
  ASSUME NEW d, DiskOK(d), NamesApart(d), NEW dirty,
         Consistent(host, paths, synced, touched),
         \A q \in DOMAIN synced : Fresh(d, host, synced, touched, lost \cup dirty, q)
  PROVE  WalkSound(d, dirty, SyncDirectory(d, dirty))
<1> DEFINE items == Items(d)
           N == Len(Items(d))
           Sound(st) == /\ WalkState(st)
                        /\ Consistent(st.host, st.paths, st.synced, touched \ st.written)
                        /\ \A q \in DOMAIN st.synced :
                             Fresh(d, st.host, st.synced, touched \ st.written, lost \cup dirty, q)
           Framed(st, n) == /\ \A q \in st.written : \E k \in 1..n : q = items[k].rel
                            /\ DOMAIN host \subseteq DOMAIN st.host
                            /\ DOMAIN st.host \subseteq DOMAIN host \cup st.written
                            /\ \A q \in DOMAIN host \ st.written : st.host[q] = host[q]
           Done(st, k) == /\ Signed(d, st.synced, items[k])
                          /\ items[k].rel \in DOMAIN st.synced =>
                               Fresh(d, st.host, st.synced, touched \ st.written, lost,
                                     items[k].rel)
<1>0. items \in Seq(ItemSet) /\ N \in Nat /\ \A k \in 1..N : items[k] \in ItemSet
  <2>1. items \in Seq(ItemSet)
    BY ItemsType
  <2> HIDE DEF items
  <2>2. Len(items) \in Nat /\ \A k \in 1..Len(items) : items[k] \in ItemSet
    BY <2>1, LenProperties, ElementOfSeq
  <2> QED
    BY <2>1, <2>2 DEF items
<1>1. PICK f : /\ \A n \in 0..N :
                    f[n] = IF n = 0 THEN WalkStart ELSE SyncItem(d, dirty, f[n - 1], items[n])
               /\ SyncDirectory(d, dirty) = f[N]
  BY WalkSteps
<1>2. \A k, l \in 1..N : k # l => items[k].rel # items[l].rel
  BY ItemsApart
<1> HIDE DEF items, N
<1> DEFINE S == {n \in 0..N : /\ Sound(f[n]) /\ Framed(f[n], n)
                              /\ ~f[n].failed => \A k \in 1..n : Done(f[n], k)}
<1>3. 0 \in S
  <2>1. f[0] = WalkStart
    BY <1>0, <1>1
  <2>2. /\ WalkStart.host = host /\ WalkStart.paths = paths /\ WalkStart.synced = synced
        /\ WalkStart.written = {} /\ WalkStart.failed = FALSE
    BY DEF WalkStart
  <2>3. WalkState(WalkStart)
    BY DEF WalkState, WalkStart
  <2>4. touched \ WalkStart.written = touched
    BY <2>2
  <2>5. Sound(WalkStart)
    BY <2>2, <2>3, <2>4
  <2>6. Framed(WalkStart, 0)
    BY <2>2
  <2> HIDE DEF Sound, Framed, Done
  <2> QED
    BY <1>0, <2>1, <2>5, <2>6
<1>4. ASSUME NEW n \in 1..N, n - 1 \in S PROVE n \in S
  <2> DEFINE st == f[n - 1]
             new == f[n]
             item == items[n]
  <2>1. n \in 0..N /\ n # 0 /\ n \in Nat
    BY <1>0
  <2>2. Sound(st) /\ Framed(st, n - 1) /\ (~st.failed => \A k \in 1..(n - 1) : Done(st, k))
    <3> HIDE DEF Sound, Framed, Done
    <3> QED
      BY <1>4
  <2>3. new = SyncItem(d, dirty, st, item) /\ item \in ItemSet
    BY <1>0, <1>1, <2>1
  <2> HIDE DEF st, new, item
  <2>4. WalkState(new)
    BY <2>2, <2>3, ItemCases
  <2>5. Consistent(new.host, new.paths, new.synced, touched \ new.written)
    BY <2>2, <2>3, ItemConsistent
  <2>6. \A q \in DOMAIN new.synced :
          Fresh(d, new.host, new.synced, touched \ new.written, lost \cup dirty, q)
    BY <2>2, <2>3, ItemFresh
  <2>7. /\ st.written \subseteq new.written /\ new.written \subseteq st.written \cup {item.rel}
        /\ DOMAIN st.host \subseteq DOMAIN new.host
        /\ DOMAIN new.host \subseteq DOMAIN st.host \cup new.written
        /\ \A q \in DOMAIN st.host :
             (q # item.rel \/ q \notin new.written) => new.host[q] = st.host[q]
        /\ DOMAIN st.synced \subseteq DOMAIN new.synced
        /\ \A q \in DOMAIN new.synced :
             q # item.rel => q \in DOMAIN st.synced /\ new.synced[q] = st.synced[q]
        /\ st.failed => new.failed
    <3>1. Effect(st, item, new)
      BY <2>2, <2>3, ItemEffect
    <3> QED
      BY <3>1 DEF Effect
  <2>8. Framed(new, n)
    <3>1. \A q \in new.written : \E k \in 1..n : q = items[k].rel
      <4> SUFFICES ASSUME NEW q \in new.written PROVE \E k \in 1..n : q = items[k].rel
        OBVIOUS
      <4>1. CASE q \in st.written
        <5>1. PICK k \in 1..(n - 1) : q = items[k].rel
          BY <2>2, <4>1
        <5>2. k \in 1..n
          BY <2>1
        <5> QED
          BY <5>1, <5>2
      <4>2. CASE q = items[n].rel
        <5>1. n \in 1..n
          BY <2>1
        <5> QED
          BY <4>2, <5>1
      <4> QED
        BY <2>7, <4>1, <4>2 DEF item
    <3>2. \A q \in DOMAIN host \ new.written : new.host[q] = host[q]
      <4> SUFFICES ASSUME NEW q \in DOMAIN host, q \notin new.written
                   PROVE  new.host[q] = host[q]
        OBVIOUS
      <4>1. q \notin st.written /\ q \in DOMAIN st.host
        BY <2>2, <2>7
      <4>2. st.host[q] = host[q]
        BY <2>2, <4>1
      <4> QED
        BY <2>7, <4>1, <4>2
    <3> QED
      BY <2>2, <2>7, <3>1, <3>2
  <2>9. ASSUME ~new.failed, NEW k \in 1..n PROVE Done(new, k)
    <3>1. CASE k = n
      BY <2>2, <2>3, <2>9, <3>1, ItemDone DEF item
    <3>2. CASE k # n
      <4>1. k \in 1..(n - 1) /\ k \in 1..N /\ n \in 1..N
        BY <1>0, <2>1, <3>2
      <4>2. ~st.failed /\ Done(st, k)
        BY <2>2, <2>7, <2>9, <4>1
      <4>3. items[k].rel # item.rel
        BY <1>2, <3>2, <4>1 DEF item
      <4>4. Signed(d, new.synced, items[k])
        <5>1. CASE items[k].kind = "file"
          <6>1. items[k].rel \in DOMAIN st.synced
                /\ st.synced[items[k].rel].signature = Signature(d, items[k])
            BY <4>2, <5>1 DEF Signed
          <6> QED
            BY <2>7, <4>3, <6>1 DEF Signed
        <5> QED
          BY <5>1 DEF Signed
      <4>5. ASSUME items[k].rel \in DOMAIN new.synced
            PROVE  Fresh(d, new.host, new.synced, touched \ new.written, lost, items[k].rel)
        <5> DEFINE q == items[k].rel
        <5>1. q \in DOMAIN new.synced
          BY <4>5
        <5>2. q \in DOMAIN st.synced =>
                Fresh(d, st.host, st.synced, touched \ st.written, lost, q)
          BY <4>2
        <5>3. WalkState(st)
          BY <2>2
        <5> HIDE DEF q
        <5>4. Fresh(d, new.host, new.synced, touched \ new.written, lost, q)
          BY <2>3, <5>1, <5>2, <5>3, ItemFresh
        <5> QED
          BY <5>4 DEF q
      <4> QED
        BY <4>4, <4>5
    <3> QED
      BY <3>1, <3>2
  <2>10. Sound(new)
    BY <2>4, <2>5, <2>6
  <2> HIDE DEF Sound, Framed, Done
  <2> QED
    BY <2>1, <2>8, <2>9, <2>10 DEF new
<1> HIDE DEF S
<1>5. 0..N \subseteq S
  BY <1>0, <1>3, <1>4, UpToLast
<1>6. N \in S
  BY <1>0, <1>5
<1>7. /\ Sound(f[N]) /\ Framed(f[N], N)
      /\ ~f[N].failed => \A k \in 1..N : Done(f[N], k)
  <2> HIDE DEF Sound, Framed, Done
  <2> QED
    BY <1>6 DEF S
<1> QED
  BY <1>1, <1>7 DEF items, N, WalkSound

\* The walk put the bytes of this item's file there, for the item was not the
\* one last mirrored or was dirty when the walk began.
Overwrites(d, dirty, item, q, content) ==
  /\ item.rel = q /\ item.kind = "file" /\ Readable(d, item)
  /\ ~UpToDate(d, item, dirty, WalkStart)
  /\ content = HostFile(ReadChain(d, item))

\* What a walk changes of what was on the host it overwrites with the guest's file.
LEMMA WalkOverwrites ==
  ASSUME NEW d, DiskOK(d), NamesApart(d), NEW dirty, NEW q \in DOMAIN host,
         NEW last, last = SyncDirectory(d, dirty)
  PROVE  /\ q \in DOMAIN last.host
         /\ last.host[q] # host[q] =>
              \E k \in 1..Len(Items(d)) : Overwrites(d, dirty, Items(d)[k], q, last.host[q])
<1> DEFINE items == Items(d)
           N == Len(Items(d))
           Known(st, n) == \A x : (\A k \in 1..n : items[k].rel # x) =>
                             /\ x \in DOMAIN st.synced <=> x \in DOMAIN synced
                             /\ x \in DOMAIN synced => st.synced[x] = synced[x]
           Changed(st, n) == st.host[q] # host[q] =>
                               \E k \in 1..n : Overwrites(d, dirty, items[k], q, st.host[q])
<1>0. items \in Seq(ItemSet) /\ N \in Nat /\ \A k \in 1..N : items[k] \in ItemSet
  <2>1. items \in Seq(ItemSet)
    BY ItemsType
  <2> HIDE DEF items
  <2>2. Len(items) \in Nat /\ \A k \in 1..Len(items) : items[k] \in ItemSet
    BY <2>1, LenProperties, ElementOfSeq
  <2> QED
    BY <2>1, <2>2 DEF items
<1>1. PICK f : /\ \A n \in 0..N :
                    f[n] = IF n = 0 THEN WalkStart ELSE SyncItem(d, dirty, f[n - 1], items[n])
               /\ SyncDirectory(d, dirty) = f[N]
  BY WalkSteps
<1>2. \A k, l \in 1..N : k # l => items[k].rel # items[l].rel
  BY ItemsApart
<1> HIDE DEF items, N
<1> DEFINE S == {n \in 0..N : /\ WalkState(f[n]) /\ q \in DOMAIN f[n].host
                              /\ Known(f[n], n) /\ Changed(f[n], n)}
<1>3. 0 \in S
  <2>1. f[0] = WalkStart
    BY <1>0, <1>1
  <2>2. WalkStart.host = host /\ WalkStart.synced = synced
    BY DEF WalkStart
  <2>3. WalkState(WalkStart)
    BY DEF WalkState, WalkStart
  <2> QED
    BY <1>0, <2>1, <2>2, <2>3
<1>4. ASSUME NEW n \in 1..N, n - 1 \in S PROVE n \in S
  <2> DEFINE st == f[n - 1]
             new == f[n]
             item == items[n]
  <2>1. n \in 0..N /\ n # 0 /\ n \in Nat /\ n \in 1..n /\ \A k \in 1..(n - 1) : k \in 1..n
    BY <1>0
  <2>2. WalkState(st) /\ q \in DOMAIN st.host /\ Known(st, n - 1) /\ Changed(st, n - 1)
    <3> HIDE DEF Known, Changed
    <3> QED
      BY <1>4
  <2>3. new = SyncItem(d, dirty, st, item) /\ item \in ItemSet
    BY <1>0, <1>1, <2>1
  <2>4. \A k \in 1..(n - 1) : items[k].rel # item.rel
    BY <1>0, <1>2
  <2>5. item = items[n]
    OBVIOUS
  <2> HIDE DEF st, new, item
  <2>6. WalkState(new)
    BY <2>2, <2>3, ItemCases
  <2>7. Effect(st, item, new)
    BY <2>2, <2>3, ItemEffect
  <2>8. Known(new, n)
    <3> SUFFICES ASSUME NEW x, \A k \in 1..n : items[k].rel # x
                 PROVE  /\ x \in DOMAIN new.synced <=> x \in DOMAIN synced
                        /\ x \in DOMAIN synced => new.synced[x] = synced[x]
      OBVIOUS
    <3>1. x # item.rel /\ \A k \in 1..(n - 1) : items[k].rel # x
      BY <2>1, <2>5
    <3>2. /\ x \in DOMAIN st.synced <=> x \in DOMAIN synced
          /\ x \in DOMAIN synced => st.synced[x] = synced[x]
      BY <2>2, <3>1
    <3>3. /\ x \in DOMAIN new.synced <=> x \in DOMAIN st.synced
          /\ x \in DOMAIN new.synced => new.synced[x] = st.synced[x]
      BY <2>7, <3>1 DEF Effect
    <3> QED
      BY <3>2, <3>3
  <2>9. ASSUME new.host[q] # st.host[q] PROVE Overwrites(d, dirty, item, q, new.host[q])
    <3>1. q = item.rel
      BY <2>2, <2>7, <2>9 DEF Effect
    <3>2. ~KeptItem(d, dirty, st, item, new) /\ ~FailedItem(st, new) /\ ~FoundDir(st, item, new)
      BY <2>9 DEF KeptItem, FailedItem, FoundDir
    <3>3. ~MadeDir(st, item, new)
      BY <2>2, <3>1 DEF MadeDir
    <3>4. WrittenFile(d, st, item, new)
      BY <2>2, <2>3, <3>2, <3>3, ItemCases
    <3>5. ~UpToDate(d, item, dirty, st)
      BY <2>3, <2>9, <3>4 DEF SyncItem, WrittenFile
    <3>6. /\ item.rel \in DOMAIN st.synced <=> item.rel \in DOMAIN synced
          /\ item.rel \in DOMAIN synced => st.synced[item.rel] = synced[item.rel]
      BY <2>2, <2>4
    <3>7. WalkStart.synced = synced
      BY DEF WalkStart
    <3>8. ~UpToDate(d, item, dirty, WalkStart)
      BY <3>5, <3>6, <3>7 DEF UpToDate
    <3>9. new.host[q] = HostFile(ReadChain(d, item))
      <4> DEFINE c == HostFile(ReadChain(d, item))
      <4>1. new.host = With(st.host, item.rel, c)
        BY <3>4 DEF WrittenFile
      <4> HIDE DEF c
      <4>2. new.host[item.rel] = c
        BY <4>1 DEF With
      <4> QED
        BY <3>1, <4>2 DEF c
    <3> QED
      BY <3>1, <3>4, <3>8, <3>9 DEF Overwrites, WrittenFile
  <2>10. Changed(new, n)
    <3>1. CASE new.host[q] = st.host[q]
      BY <2>1, <2>2, <3>1
    <3>2. CASE new.host[q] # st.host[q]
      BY <2>1, <2>5, <2>9, <3>2
    <3> QED
      BY <3>1, <3>2
  <2>11. q \in DOMAIN new.host
    BY <2>2, <2>7 DEF Effect
  <2> HIDE DEF Known, Changed
  <2> QED
    BY <2>1, <2>6, <2>8, <2>10, <2>11 DEF new
<1> HIDE DEF S
<1>5. N \in S
  <2>1. 0..N \subseteq S
    BY <1>0, <1>3, <1>4, UpToLast
  <2> QED
    BY <1>0, <2>1
<1>6. q \in DOMAIN f[N].host /\ Changed(f[N], N)
  <2> HIDE DEF Changed
  <2> QED
    BY <1>5 DEF S
<1> QED
  BY <1>1, <1>6 DEF items, N

-----------------------------------------------------------------------------
(* Removing what the tree does not hold any more. *)

LEMMA PresentItems ==
  ASSUME NEW d, DiskOK(d), NEW q
  PROVE  q \in Present(d) <=> \E k \in 1..Len(Items(d)) : q = Items(d)[k].rel
<1> DEFINE items == Items(d)
<1>1. items \in Seq(ItemSet)
  BY ItemsType
<1>2. Present(d) = {item.rel : item \in ToSet(items)}
  BY DEF Present
<1> HIDE DEF items
<1>3. DOMAIN items = 1..Len(items)
  BY <1>1, LenProperties
<1>4. q \in Present(d) <=> \E k \in 1..Len(items) : q = items[k].rel
  BY <1>2, <1>3 DEF ToSet
<1> QED
  BY <1>4 DEF items

\* What goes was not on the host, or had the recorded bytes, or was a directory
\* the mirror had made; a file that stays differs from what was recorded.
Removal(d, st, new, gone) ==
  /\ gone \subseteq st.paths \ Present(d)
  /\ new.host = But(st.host, gone) /\ new.paths = st.paths \ gone
  /\ new.synced = But(st.synced, gone) /\ new.written = st.written
  /\ new.failed = (st.paths \ Present(d) # gone)
  /\ \A p \in gone : p \in DOMAIN st.host =>
       \/ p \in DOMAIN st.synced /\ st.host[p] = HostFile(st.synced[p].hash)
       \/ p \notin DOMAIN st.synced /\ IsDir(st.host, p)
  /\ \A p \in (st.paths \ Present(d)) \ gone : p \in DOMAIN st.synced =>
       p \in DOMAIN st.host /\ st.host[p] # HostFile(st.synced[p].hash)

LEMMA StaleResult ==
  ASSUME NEW d, NEW st, WalkState(st), st.paths \subseteq Paths,
         NEW new, new = RemoveStale(d, st)
  PROVE  \E gone : Removal(d, st, new, gone)
<1> DEFINE stale == st.paths \ Present(d)
           inner == {p \in stale : Len(p) = 2 /\ Removable(st, st.host, p)}
           outer == {p \in stale : Len(p) = 1 /\ Removable(st, But(st.host, inner), p)}
           gone == inner \cup outer
<1>1. new = [st EXCEPT !.host = But(@, gone), !.paths = @ \ gone, !.synced = But(@, gone),
                       !.failed = stale # gone]
  BY DEF RemoveStale
<1>2. \A p \in stale : Len(p) = 1 \/ Len(p) = 2
  BY DEF Paths
<1>3. ASSUME NEW p \in gone, p \in DOMAIN st.host
      PROVE  \/ p \in DOMAIN st.synced /\ st.host[p] = HostFile(st.synced[p].hash)
             \/ p \notin DOMAIN st.synced /\ IsDir(st.host, p)
  <2>1. CASE p \in inner
    BY <1>3, <2>1 DEF Removable, IsDir
  <2>2. CASE p \in outer
    <3>1. p \notin inner
      BY <2>2
    <3> HIDE DEF inner
    <3>2. Removable(st, But(st.host, inner), p)
      BY <2>2
    <3>3. p \in DOMAIN But(st.host, inner) /\ But(st.host, inner)[p] = st.host[p]
      BY <1>3, <3>1 DEF But
    <3> QED
      BY <1>3, <3>2, <3>3 DEF Removable, IsDir
  <2> QED
    BY <1>3, <2>1, <2>2
<1>4. ASSUME NEW p \in stale \ gone, p \in DOMAIN st.synced
      PROVE  p \in DOMAIN st.host /\ st.host[p] # HostFile(st.synced[p].hash)
  <2>1. CASE Len(p) = 2
    <3>1. ~Removable(st, st.host, p)
      BY <1>4, <2>1
    <3> QED
      BY <1>4, <3>1 DEF Removable
  <2>2. CASE Len(p) = 1
    <3>1. ~Removable(st, But(st.host, inner), p) /\ p \notin inner
      BY <1>4, <2>2
    <3> HIDE DEF inner
    <3>2. p \in DOMAIN But(st.host, inner)
          /\ But(st.host, inner)[p] # HostFile(st.synced[p].hash)
      BY <1>4, <3>1 DEF Removable
    <3> QED
      BY <3>2 DEF But
  <2> QED
    BY <1>2, <1>4, <2>1, <2>2
<1>5. gone \subseteq stale
  OBVIOUS
<1> HIDE DEF inner, outer, gone, stale
<1>6. new = [host |-> But(st.host, gone), paths |-> st.paths \ gone,
             synced |-> But(st.synced, gone), written |-> st.written, failed |-> stale # gone]
  BY <1>1 DEF WalkState
<1>7. /\ new.host = But(st.host, gone) /\ new.paths = st.paths \ gone
      /\ new.synced = But(st.synced, gone) /\ new.written = st.written
      /\ new.failed = (stale # gone)
  BY <1>6
<1>8. Removal(d, st, new, gone)
  BY <1>3, <1>4, <1>5, <1>7 DEF Removal, stale
<1> QED
  BY <1>8

LEMMA StaleConsistent ==
  ASSUME NEW d, NEW st, NEW new, NEW gone, Removal(d, st, new, gone), NEW t,
         Consistent(st.host, st.paths, st.synced, t)
  PROVE  Consistent(new.host, new.paths, new.synced, t)
<1>1. /\ DOMAIN new.host = DOMAIN st.host \ gone
      /\ \A q \in DOMAIN st.host \ gone : new.host[q] = st.host[q]
  BY DEF Removal, But
<1>2. /\ DOMAIN new.synced = DOMAIN st.synced \ gone
      /\ \A q \in DOMAIN st.synced \ gone : new.synced[q] = st.synced[q]
  BY DEF Removal, But
<1>3. new.paths = st.paths \ gone
  BY DEF Removal
<1>4. ASSUME NEW q \in DOMAIN new.synced PROVE Held(new.host, new.synced, t, q)
  <2>1. Held(st.host, st.synced, t, q) /\ q \notin gone /\ new.synced[q] = st.synced[q]
    BY <1>2 DEF Consistent
  <2> QED
    BY <1>1, <2>1 DEF Held, IsDir
<1>5. ASSUME NEW q \in DOMAIN new.synced PROVE Recorded(new.synced[q])
  <2>1. Recorded(st.synced[q]) /\ new.synced[q] = st.synced[q]
    BY <1>2 DEF Consistent
  <2> QED
    BY <2>1
<1>6. /\ DOMAIN new.synced \subseteq new.paths /\ new.paths \subseteq Paths
      /\ DOMAIN new.host \subseteq new.paths \cup t /\ DOMAIN new.host \subseteq Paths
  BY <1>1, <1>2, <1>3 DEF Consistent
<1>7. \A q \in DOMAIN new.host : new.host[q].kind \in {"file", "dir"}
  BY <1>1 DEF Consistent
<1>8. \A q \in t \cap DOMAIN new.host : new.host[q] = HostEdit
  BY <1>1 DEF Consistent
<1> QED
  BY <1>4, <1>5, <1>6, <1>7, <1>8 DEF Consistent

\* A path that stays known although the tree does not hold it was changed by a
\* host program or is a directory, so that nothing is claimed of it.
LEMMA StaleFresh ==
  ASSUME NEW d, NEW st, NEW new, NEW gone, Removal(d, st, new, gone), NEW t, NEW l,
         Consistent(st.host, st.paths, st.synced, t), NEW q \in DOMAIN new.synced,
         q \in Present(d) => Fresh(d, st.host, st.synced, t, l, q)
  PROVE  Fresh(d, new.host, new.synced, t, l, q)
<1>1. q \in DOMAIN st.synced /\ q \notin gone /\ new.synced[q] = st.synced[q]
  BY DEF Removal, But
<1>2. IsDir(new.host, q) <=> IsDir(st.host, q)
  BY <1>1 DEF Removal, But, IsDir
<1>3. CASE q \in Present(d)
  BY <1>1, <1>2, <1>3 DEF Fresh
<1>4. CASE q \notin Present(d)
  <2>1. q \in st.paths
    BY <1>1 DEF Consistent
  <2>2. q \in DOMAIN st.host /\ st.host[q] # HostFile(st.synced[q].hash)
    BY <1>1, <1>4, <2>1 DEF Removal
  <2>3. Held(st.host, st.synced, t, q)
    BY <1>1 DEF Consistent
  <2>4. q \in t \/ IsDir(st.host, q)
    BY <2>2, <2>3 DEF Held
  <2> QED
    BY <1>2, <2>4 DEF Fresh
<1> QED
  BY <1>3, <1>4

-----------------------------------------------------------------------------
(* Sector writes. *)

\* What a write changes on the disk, it makes dirty.
Changes(d, dirty) ==
  /\ d \in [root : [1..Slots -> Entries], fat : [Clusters -> Clusters \cup {Free, End}],
            data : [Clusters -> Contents]]
  /\ NamesApart(d) /\ dirty \subseteq Clusters
  /\ \A c \in Clusters : c \in dirty <=> d.data[c] # disk.data[c]

\* Files whose clusters were not written have the bytes they had.
LEMMA UnwrittenFresh ==
  ASSUME NEW d, NEW dirty, Changes(d, dirty), Consistent(host, paths, synced, touched),
         NEW q \in DOMAIN synced, Fresh(disk, host, synced, touched, lost, q)
  PROVE  Fresh(d, host, synced, touched, lost \cup dirty, q)
<1> DEFINE r == synced[q]
           c == r.signature[2]
           n == r.signature[1]
<1>1. SUFFICES ASSUME q \notin touched, ~IsDir(host, q), ToSet(c) \cap (lost \cup dirty) = {}
               PROVE  Exact(d, r)
  BY DEF Fresh
<1>2. Exact(disk, r)
  BY <1>1 DEF Fresh
<1>3. c \in Seq(Clusters) /\ n \in Nat /\ n <= Len(c)
  BY DEF Consistent, Recorded
<1>4. r.hash = [i \in 1..n |-> disk.data[c[i]]]
  BY <1>2 DEF Exact
<1> HIDE DEF c, n, r
<1>5. ASSUME NEW i \in 1..n PROVE d.data[c[i]] = disk.data[c[i]]
  <2>1. Len(c) \in Nat /\ DOMAIN c = 1..Len(c)
    BY <1>3, LenProperties
  <2>2. i \in 1..Len(c)
    BY <1>3, <2>1
  <2>3. c[i] \in Clusters
    BY <1>3, <2>2, ElementOfSeq
  <2>4. c[i] \in ToSet(c)
    BY <2>1, <2>2 DEF ToSet
  <2>5. c[i] \notin dirty
    BY <1>1, <2>4 DEF c, r
  <2> QED
    BY <2>3, <2>5 DEF Changes
<1>6. r.hash = [i \in 1..n |-> d.data[c[i]]]
  BY <1>4, <1>5
<1> QED
  BY <1>6 DEF Exact, c, n

\* The walk of a write, from a state of the invariant.
LEMMA WriteWalk ==
  ASSUME NEW d, NEW dirty, Changes(d, dirty), IInv
  PROVE  WalkSound(d, dirty, SyncDirectory(d, dirty))
<1>1. DiskOK(d) /\ NamesApart(d)
  BY DEF Changes, DiskOK
<1>2. Consistent(host, paths, synced, touched)
  BY DEF IInv
<1>3. \A q \in DOMAIN synced : Fresh(d, host, synced, touched, lost \cup dirty, q)
  BY <1>2, UnwrittenFresh DEF IInv
<1> QED
  BY <1>1, <1>2, <1>3, WalkResult

LEMMA WriteType ==
  ASSUME NEW d, NEW dirty, Changes(d, dirty), IInv, Write(d, dirty),
         Consistent(host', paths', synced', touched')
  PROVE  TypeOK'
<1> DEFINE st == SyncDirectory(d, dirty)
           end == IF st.failed THEN st ELSE RemoveStale(d, st)
<1>1. TypeOK
  BY DEF IInv
<1>2. /\ lost' = IF st.failed THEN lost \cup dirty ELSE lost
      /\ outcome' = IF end.failed THEN "error" ELSE "ok"
      /\ touched' = touched \ end.written
      /\ writes < MaxWrites /\ writes' = writes + 1 /\ edits' = edits /\ disk' = d
  BY DEF Write, Mirror
<1> HIDE DEF st, end
<1>3. lost' \subseteq Clusters /\ touched' \subseteq Paths /\ outcome' \in {"ok", "error"}
  BY <1>1, <1>2 DEF TypeOK, Changes
<1>4. writes' \in 0..MaxWrites /\ edits' \in 0..MaxEdits
  BY <1>1, <1>2, HostFatAssumption DEF TypeOK
<1>5. /\ DOMAIN host' \subseteq Paths /\ paths' \subseteq Paths
      /\ DOMAIN synced' \subseteq paths' /\ \A p \in DOMAIN host' : host'[p].kind \in {"file", "dir"}
  BY DEF Consistent
<1>6. disk' \in [root : [1..Slots -> Entries], fat : [Clusters -> Clusters \cup {Free, End}],
                 data : [Clusters -> Contents]]
  BY <1>2 DEF Changes
<1> QED
  BY <1>3, <1>4, <1>5, <1>6 DEF TypeOK

LEMMA WriteKeeps ==
  ASSUME NEW d, NEW dirty, Changes(d, dirty), IInv, Write(d, dirty)
  PROVE  IInv'
<1> DEFINE st == SyncDirectory(d, dirty)
           end == RemoveStale(d, st)
           items == Items(d)
           t == touched \ st.written
<1>1. /\ WalkState(st)
      /\ Consistent(st.host, st.paths, st.synced, t)
      /\ \A q \in DOMAIN st.synced : Fresh(d, st.host, st.synced, t, lost \cup dirty, q)
      /\ \A q \in st.written : \E k \in 1..Len(items) : q = items[k].rel
      /\ ~st.failed => \A k \in 1..Len(items) : Signed(d, st.synced, items[k])
      /\ ~st.failed => \A k \in 1..Len(items) : items[k].rel \in DOMAIN st.synced =>
           Fresh(d, st.host, st.synced, t, lost, items[k].rel)
  <2>1. WalkSound(d, dirty, st)
    BY WriteWalk
  <2> HIDE DEF st
  <2> QED
    BY <2>1 DEF WalkSound
<1>2. DiskOK(d) /\ NamesApart(d) /\ disk' = d
  BY DEF Changes, DiskOK, Write
<1>3. CASE st.failed
  <2>1. /\ host' = st.host /\ paths' = st.paths /\ synced' = st.synced /\ touched' = t
        /\ lost' = lost \cup dirty /\ outcome' = "error"
    BY <1>3 DEF Write, Mirror
  <2> HIDE DEF st, t
  <2>2. Consistent(host', paths', synced', touched')
    BY <1>1, <2>1
  <2>3. TypeOK'
    BY <2>2, WriteType
  <2>4. \A q \in DOMAIN synced' : Fresh(disk', host', synced', touched', lost', q)
    BY <1>1, <1>2, <2>1
  <2>5. NamesApart(disk')
    BY <1>2
  <2>6. outcome' # "ok"
    BY <2>1
  <2> QED
    BY <2>2, <2>3, <2>4, <2>5, <2>6 DEF IInv
<1>4. CASE ~st.failed
  <2>1. st.paths \subseteq Paths
    BY <1>1 DEF Consistent
  <2>2. PICK gone : Removal(d, st, end, gone)
    <3> HIDE DEF st
    <3> QED
      BY <1>1, <2>1, StaleResult
  <2>3. end.written = st.written
    BY <2>2 DEF Removal
  <2>4. /\ host' = end.host /\ paths' = end.paths /\ synced' = end.synced /\ touched' = t
        /\ lost' = lost /\ outcome' = IF end.failed THEN "error" ELSE "ok"
    BY <1>4, <2>3 DEF Write, Mirror
  <2> HIDE DEF st, end, t
  <2>5. Consistent(host', paths', synced', touched')
    BY <1>1, <2>2, <2>4, StaleConsistent
  <2>6. TypeOK'
    BY <2>5, WriteType
  <2>7. ASSUME NEW q \in DOMAIN end.synced PROVE Fresh(d, end.host, end.synced, t, lost, q)
    <3>1. q \in DOMAIN st.synced
      BY <2>2 DEF Removal, But
    <3>2. q \in Present(d) => Fresh(d, st.host, st.synced, t, lost, q)
      <4>1. q \in Present(d) => \E k \in 1..Len(items) : q = items[k].rel
        BY <1>2, PresentItems
      <4> HIDE DEF items
      <4> QED
        BY <1>1, <1>4, <3>1, <4>1
    <3> QED
      BY <1>1, <2>2, <3>2, StaleFresh
  <2>8. \A q \in DOMAIN synced' : Fresh(disk', host', synced', touched', lost', q)
    BY <1>2, <2>4, <2>7
  <2>9. \A k \in 1..Len(items) : Signed(d, end.synced, items[k])
    <3> SUFFICES ASSUME NEW k \in 1..Len(items) PROVE Signed(d, end.synced, items[k])
      OBVIOUS
    <3>1. Signed(d, st.synced, items[k])
      BY <1>1, <1>4
    <3>2. items[k].rel \in Present(d)
      BY <1>2, PresentItems
    <3> HIDE DEF items
    <3>3. items[k].rel \notin gone
      BY <2>2, <3>2 DEF Removal
    <3>4. items[k].rel \in DOMAIN st.synced =>
            /\ items[k].rel \in DOMAIN end.synced
            /\ end.synced[items[k].rel] = st.synced[items[k].rel]
      BY <2>2, <3>3 DEF Removal, But
    <3> QED
      BY <3>1, <3>4 DEF Signed
  <2>10. \A k \in 1..Len(Items(disk')) : Signed(disk', synced', Items(disk')[k])
    BY <1>2, <2>4, <2>9
  <2>11. outcome' = "ok" => DOMAIN host' \subseteq Present(disk') \cup touched'
    <3> SUFFICES ASSUME outcome' = "ok" PROVE DOMAIN host' \subseteq Present(disk') \cup touched'
      OBVIOUS
    <3>1. ~end.failed
      BY <2>4
    <3>2. st.paths \ Present(d) = gone
      BY <2>2, <3>1 DEF Removal
    <3>3. paths' = st.paths \ gone
      BY <2>2, <2>4 DEF Removal
    <3>4. paths' \subseteq Present(disk')
      BY <1>2, <3>2, <3>3
    <3> QED
      BY <2>5, <3>4 DEF Consistent
  <2>12. NamesApart(disk')
    BY <1>2
  <2> HIDE DEF items
  <2> QED
    BY <2>5, <2>6, <2>8, <2>10, <2>11, <2>12 DEF IInv
<1> QED
  BY <1>3, <1>4

\* What a host program stored stays on the host as it is, unless the guest writes
\* that very file.
KeptOrRewritten(p) ==
  /\ p \in DOMAIN host'
  /\ \/ host'[p] = host[p]
     \/ \E item \in ToSet(Items(disk')) :
          /\ item.rel = p /\ item.kind = "file"
          /\ GuestRewrites(item) /\ Readable(disk', item)
          /\ host'[p] = HostFile(ReadChain(disk', item))

LEMMA WriteKeepsEdits ==
  ASSUME NEW d, NEW dirty, Changes(d, dirty), IInv, Write(d, dirty)
  PROVE  \A p \in touched \cap DOMAIN host : KeptOrRewritten(p)
<1> DEFINE st == SyncDirectory(d, dirty)
           end == RemoveStale(d, st)
           items == Items(d)
           t == touched \ st.written
<1>1. /\ WalkState(st)
      /\ Consistent(st.host, st.paths, st.synced, t)
      /\ \A q \in st.written : \E k \in 1..Len(items) : q = items[k].rel
      /\ DOMAIN host \subseteq DOMAIN st.host
  <2>1. WalkSound(d, dirty, st)
    BY WriteWalk
  <2> HIDE DEF st
  <2> QED
    BY <2>1 DEF WalkSound
<1>2. DiskOK(d)
  BY DEF Changes, DiskOK
<1> SUFFICES ASSUME NEW p \in touched, p \in DOMAIN host PROVE KeptOrRewritten(p)
  OBVIOUS
<1>3. st.host[p] = host[p] \/ \E k \in 1..Len(items) : Overwrites(d, dirty, items[k], p, st.host[p])
  <2>1. NamesApart(d)
    BY DEF Changes
  <2> HIDE DEF st
  <2>2. st = SyncDirectory(d, dirty)
    BY DEF st
  <2> QED
    BY <1>2, <2>1, <2>2, WalkOverwrites
<1>4. p \in DOMAIN host' /\ host'[p] = st.host[p]
  <2>1. CASE st.failed
    <3>1. host' = st.host
      BY <2>1 DEF Write, Mirror
    <3> QED
      BY <1>1, <3>1
  <2>2. CASE ~st.failed
    <3>1. host' = end.host
      BY <2>2 DEF Write, Mirror
    <3>2. st.paths \subseteq Paths
      BY <1>1 DEF Consistent
    <3>3. PICK gone : Removal(d, st, end, gone)
      <4> HIDE DEF st
      <4> QED
        BY <1>1, <3>2, StaleResult
    <3>4. p \in st.written => p \in Present(d)
      <4>1. p \in st.written => \E k \in 1..Len(items) : p = items[k].rel
        BY <1>1
      <4> QED
        BY <1>2, <4>1, PresentItems
    <3> HIDE DEF st, end
    <3>5. ASSUME p \in gone PROVE FALSE
      <4>1. p \in t
        BY <3>3, <3>4, <3>5 DEF Removal
      <4>2. p \in DOMAIN st.host
        BY <1>1
      <4>3. st.host[p] = HostEdit
        BY <1>1, <4>1, <4>2 DEF Consistent
      <4>4. CASE p \in DOMAIN st.synced /\ st.host[p] = HostFile(st.synced[p].hash)
        <5>1. Recorded(st.synced[p])
          BY <1>1, <4>4 DEF Consistent
        <5> QED
          BY <4>3, <4>4, <5>1, RecordedIsNoEdit
      <4>5. CASE IsDir(st.host, p)
        BY <4>3, <4>5, HostFacts DEF IsDir, HostEdit
      <4> QED
        BY <3>3, <3>5, <4>2, <4>4, <4>5 DEF Removal
    <3>6. /\ DOMAIN end.host = DOMAIN st.host \ gone
          /\ \A q \in DOMAIN st.host \ gone : end.host[q] = st.host[q]
      BY <3>3 DEF Removal, But
    <3> QED
      BY <1>1, <3>1, <3>5, <3>6
  <2> QED
    BY <2>1, <2>2
<1>5. ASSUME host'[p] # host[p]
      PROVE  \E item \in ToSet(Items(disk')) :
               /\ item.rel = p /\ item.kind = "file"
               /\ GuestRewrites(item) /\ Readable(disk', item)
               /\ host'[p] = HostFile(ReadChain(disk', item))
  <2>1. PICK k \in 1..Len(items) : Overwrites(d, dirty, items[k], p, st.host[p])
    BY <1>3, <1>4, <1>5
  <2>2. disk' = d
    BY DEF Write
  <2>3. items \in Seq(ItemSet)
    BY <1>2, ItemsType
  <2> HIDE DEF items, st
  <2>4. items[k] \in ToSet(items)
    BY <2>3, LenProperties DEF ToSet
  <2> DEFINE item == items[k]
             c == ClusterChain(d, item.start)
  <2>5. GuestRewrites(item)
    <3>1. ~UpToDate(d, item, dirty, WalkStart) /\ WalkStart.synced = synced
      BY <2>1 DEF Overwrites, WalkStart
    <3>2. ASSUME NEW x \in dirty \cap ToSet(c) PROVE disk'.data[x] # disk.data[x]
      BY <2>2 DEF Changes
    <3> HIDE DEF item
    <3> QED
      BY <2>2, <3>1, <3>2 DEF UpToDate, GuestRewrites
  <2> QED
    BY <1>4, <2>1, <2>2, <2>4, <2>5 DEF Overwrites, items
<1> QED
  BY <1>4, <1>5 DEF KeptOrRewritten

-----------------------------------------------------------------------------
(* Host programs, and the guest's sectors. *)

LEMMA ExternalKeeps ==
  ASSUME NEW h, NEW p \in Paths, External(h, p), IInv,
         DOMAIN h \subseteq DOMAIN host \cup {p},
         \A q \in DOMAIN host : q # p => q \in DOMAIN h /\ h[q] = host[q],
         p \in DOMAIN h => h[p] = HostEdit
  PROVE  IInv'
<1>1. /\ host' = h /\ touched' = touched \cup {p} /\ edits < MaxEdits /\ edits' = edits + 1
      /\ disk' = disk /\ paths' = paths /\ synced' = synced /\ outcome' = outcome
      /\ lost' = lost /\ writes' = writes
  BY DEF External
<1>2. TypeOK /\ Consistent(host, paths, synced, touched)
  BY DEF IInv
<1>3. HostEdit.kind = "file"
  BY HostFacts DEF HostEdit
<1>4. \A q \in DOMAIN host' : host'[q].kind \in {"file", "dir"}
  BY <1>1, <1>2, <1>3 DEF Consistent
<1>5. DOMAIN host' \subseteq paths' \cup touched' /\ DOMAIN host' \subseteq Paths
  BY <1>1, <1>2 DEF Consistent
<1>6. \A q \in touched' \cap DOMAIN host' : host'[q] = HostEdit
  BY <1>1, <1>2 DEF Consistent
<1>7. ASSUME NEW q \in DOMAIN synced' PROVE Held(host', synced', touched', q)
  <2>1. CASE q = p
    BY <1>1, <2>1 DEF Held
  <2>2. CASE q # p
    <3>1. Held(host, synced, touched, q)
      BY <1>1, <1>2 DEF Consistent
    <3> QED
      BY <1>1, <2>2, <3>1 DEF Held, IsDir
  <2> QED
    BY <2>1, <2>2
<1>8. Consistent(host', paths', synced', touched')
  BY <1>1, <1>2, <1>4, <1>5, <1>6, <1>7 DEF Consistent
<1>9. ASSUME NEW q \in DOMAIN synced' PROVE Fresh(disk', host', synced', touched', lost', q)
  <2>1. CASE q = p
    BY <1>1, <2>1 DEF Fresh
  <2>2. CASE q # p
    <3>1. Fresh(disk, host, synced, touched, lost, q)
      BY <1>1 DEF IInv
    <3> QED
      BY <1>1, <2>2, <3>1 DEF Fresh, IsDir
  <2> QED
    BY <2>1, <2>2
<1>10. TypeOK'
  <2>1. edits' \in 0..MaxEdits
    BY <1>1, <1>2, HostFatAssumption DEF TypeOK
  <2> QED
    BY <1>1, <1>2, <1>4, <1>5, <2>1 DEF TypeOK
<1>11. NamesApart(disk')
  BY <1>1 DEF IInv
<1>12. outcome' = "ok" =>
         \A k \in 1..Len(Items(disk')) : Signed(disk', synced', Items(disk')[k])
  BY <1>1 DEF IInv
<1>13. outcome' = "ok" => DOMAIN host' \subseteq Present(disk') \cup touched'
  BY <1>1 DEF IInv
<1> QED
  BY <1>8, <1>9, <1>10, <1>11, <1>12, <1>13 DEF IInv

LEMMA EditFileKeeps ==
  ASSUME NEW p \in Paths, EditFile(p), IInv
  PROVE  IInv'
<1> DEFINE h == With(host, p, HostEdit)
<1>1. External(h, p)
  BY DEF EditFile, HostEdit
<1>2. DOMAIN h = DOMAIN host \cup {p} /\ h[p] = HostEdit
      /\ \A q \in DOMAIN host : q # p => h[q] = host[q]
  BY DEF With
<1> HIDE DEF h
<1> QED
  BY <1>1, <1>2, ExternalKeeps

LEMMA DeleteKeeps ==
  ASSUME NEW p \in Paths, DeleteOnHost(p), IInv
  PROVE  IInv'
<1> DEFINE h == But(host, {p})
<1>1. External(h, p)
  BY DEF DeleteOnHost
<1>2. DOMAIN h = DOMAIN host \ {p} /\ \A q \in DOMAIN h : h[q] = host[q]
  BY DEF But
<1> HIDE DEF h
<1> QED
  BY <1>1, <1>2, ExternalKeeps

\* A write of the guest is one of the three, and each changes what it says.
LEMMA GuestWrites ==
  ASSUME IInv,
         \/ \E i \in 1..Slots, e \in Entries : WriteRoot(i, e)
         \/ \E c \in Clusters, next \in Clusters \cup {Free, End} : WriteFat(c, next)
         \/ \E c \in Clusters, content \in Contents : WriteData(c, content)
  PROVE  \E d, dirty : Changes(d, dirty) /\ Write(d, dirty)
<1>1. TypeOK /\ NamesApart(disk)
  BY DEF IInv
<1>2. disk = [root |-> disk.root, fat |-> disk.fat, data |-> disk.data]
      /\ disk.root \in [1..Slots -> Entries] /\ disk.data \in [Clusters -> Contents]
      /\ disk.fat \in [Clusters -> Clusters \cup {Free, End}]
  BY <1>1 DEF TypeOK
<1>3. ASSUME NEW i \in 1..Slots, NEW e \in Entries, WriteRoot(i, e)
      PROVE  \E d, dirty : Changes(d, dirty) /\ Write(d, dirty)
  <2> DEFINE d == [disk EXCEPT !.root[i] = e]
  <2>1. d = [root |-> [disk.root EXCEPT ![i] = e], fat |-> disk.fat, data |-> disk.data]
    BY <1>2
  <2>2. Write(d, {})
    BY <1>3 DEF WriteRoot
  <2>3. \A j \in 1..Slots \ {i} : e.kind = "free" \/ disk.root[j].name # e.name
    BY <1>3 DEF WriteRoot
  <2> HIDE DEF d
  <2>4. d.root = [disk.root EXCEPT ![i] = e] /\ d.fat = disk.fat /\ d.data = disk.data
    BY <2>1
  <2>5. d.root[i] = e /\ \A j \in 1..Slots : j # i => d.root[j] = disk.root[j]
    BY <1>2, <2>4
  <2>6. NamesApart(d)
    BY <1>1, <2>3, <2>5 DEF NamesApart
  <2>7. d \in [root : [1..Slots -> Entries], fat : [Clusters -> Clusters \cup {Free, End}],
               data : [Clusters -> Contents]]
    BY <1>2, <2>1
  <2>8. Changes(d, {})
    BY <2>4, <2>6, <2>7 DEF Changes
  <2> QED
    BY <2>2, <2>8
<1>4. ASSUME NEW c \in Clusters, NEW next \in Clusters \cup {Free, End}, WriteFat(c, next)
      PROVE  \E d, dirty : Changes(d, dirty) /\ Write(d, dirty)
  <2> DEFINE d == [disk EXCEPT !.fat[c] = next]
  <2>1. d = [root |-> disk.root, fat |-> [disk.fat EXCEPT ![c] = next], data |-> disk.data]
    BY <1>2
  <2>2. Write(d, {})
    BY <1>4 DEF WriteFat
  <2> HIDE DEF d
  <2>3. d.root = disk.root /\ d.data = disk.data
    BY <2>1
  <2>4. NamesApart(d)
    BY <1>1, <2>3 DEF NamesApart
  <2>5. d \in [root : [1..Slots -> Entries], fat : [Clusters -> Clusters \cup {Free, End}],
               data : [Clusters -> Contents]]
    BY <1>2, <2>1
  <2>6. Changes(d, {})
    BY <2>3, <2>4, <2>5 DEF Changes
  <2> QED
    BY <2>2, <2>6
<1>5. ASSUME NEW c \in Clusters, NEW content \in Contents, WriteData(c, content)
      PROVE  \E d, dirty : Changes(d, dirty) /\ Write(d, dirty)
  <2> DEFINE d == [disk EXCEPT !.data[c] = content]
  <2>1. d = [root |-> disk.root, fat |-> disk.fat, data |-> [disk.data EXCEPT ![c] = content]]
    BY <1>2
  <2>2. Write(d, {c})
    BY <1>5 DEF WriteData
  <2> HIDE DEF d
  <2>3. d.root = disk.root /\ \A x \in Clusters \ {c} : d.data[x] = disk.data[x]
    BY <1>2, <2>1
  <2>7. d.data[c] # disk.data[c]
    <3>1. d # disk
      BY <2>2 DEF Write
    <3>2. disk.data[c] = content => [disk.data EXCEPT ![c] = content] = disk.data
      BY <1>2
    <3>3. disk.data[c] # content
      BY <1>2, <2>1, <3>1, <3>2
    <3>4. d.data[c] = content
      BY <1>2, <2>1
    <3> QED
      BY <3>3, <3>4
  <2>4. NamesApart(d)
    BY <1>1, <2>3 DEF NamesApart
  <2>5. d \in [root : [1..Slots -> Entries], fat : [Clusters -> Clusters \cup {Free, End}],
               data : [Clusters -> Contents]]
    BY <1>2, <2>1
  <2>6. Changes(d, {c})
    BY <2>3, <2>4, <2>5, <2>7 DEF Changes
  <2> QED
    BY <2>2, <2>6
<1> QED
  BY <1>3, <1>4, <1>5

LEMMA NextKeeps == IInv /\ [Next]_vars => IInv'
<1> SUFFICES ASSUME IInv, [Next]_vars PROVE IInv'
  OBVIOUS
<1>1. CASE \/ \E i \in 1..Slots, e \in Entries : WriteRoot(i, e)
           \/ \E c \in Clusters, next \in Clusters \cup {Free, End} : WriteFat(c, next)
           \/ \E c \in Clusters, content \in Contents : WriteData(c, content)
  <2>1. PICK d, dirty : Changes(d, dirty) /\ Write(d, dirty)
    BY <1>1, GuestWrites
  <2> QED
    BY <2>1, WriteKeeps
<1>2. CASE \E p \in Paths : EditFile(p) \/ DeleteOnHost(p)
  BY <1>2, EditFileKeeps, DeleteKeeps
<1>3. CASE UNCHANGED vars
  <2>1. /\ disk' = disk /\ host' = host /\ paths' = paths /\ synced' = synced
        /\ outcome' = outcome /\ lost' = lost /\ touched' = touched
        /\ writes' = writes /\ edits' = edits
    BY <1>3 DEF vars
  <2>2. TypeOK'
    BY <2>1 DEF IInv, TypeOK
  <2> QED
    BY <2>1, <2>2 DEF IInv
<1> QED
  BY <1>1, <1>2, <1>3 DEF Next

-----------------------------------------------------------------------------
(* The image as it is built. *)

\* Every item of a tree is an item of one of its entries, and conversely.
LEMMA ItemsAre ==
  ASSUME NEW d, DiskOK(d)
  PROVE  /\ \A k \in 1..Len(Items(d)) : \E i \in 1..Slots : \E m \in 1..Len(EntryItems(d, i)) :
              Items(d)[k] = EntryItems(d, i)[m]
         /\ \A i \in 1..Slots : \A m \in 1..Len(EntryItems(d, i)) : \E k \in 1..Len(Items(d)) :
              Items(d)[k] = EntryItems(d, i)[m]
<1>0. Slots \in Nat
  BY HostFatAssumption
<1>1. PICK f : /\ \A n \in 0..Slots :
                    f[n] = IF n = 0 THEN <<>> ELSE f[n - 1] \o EntryItems(d, n)
               /\ Items(d) = f[Slots]
  BY FoundSteps
<1> DEFINE From(s, n) == \A k \in 1..Len(s) :
                           \E i \in 1..n : \E m \in 1..Len(EntryItems(d, i)) : s[k] = EntryItems(d, i)[m]
           Holds(s, n) == \A i \in 1..n : \A m \in 1..Len(EntryItems(d, i)) :
                            \E k \in 1..Len(s) : s[k] = EntryItems(d, i)[m]
           S == {n \in 0..Slots : f[n] \in Seq(ItemSet) /\ From(f[n], n) /\ Holds(f[n], n)}
<1>2. 0 \in S
  <2>1. f[0] = <<>>
    BY <1>0, <1>1
  <2>2. f[0] \in Seq(ItemSet) /\ Len(f[0]) = 0
    BY <2>1, EmptySeq
  <2>3. From(f[0], 0) /\ Holds(f[0], 0)
    BY <2>2
  <2> HIDE DEF From, Holds
  <2> QED
    BY <1>0, <2>2, <2>3
<1>3. ASSUME NEW n \in 1..Slots, n - 1 \in S PROVE n \in S
  <2> DEFINE s == f[n - 1]
             t == EntryItems(d, n)
             u == f[n]
  <2>1. n \in 0..Slots /\ n # 0 /\ n \in Nat
    BY <1>0
  <2>2. s \in Seq(ItemSet) /\ From(s, n - 1) /\ Holds(s, n - 1)
    <3> HIDE DEF From, Holds
    <3> QED
      BY <1>3
  <2>3. u = s \o t
    BY <1>1, <2>1
  <2>4. t \in Seq(ItemSet)
    BY EntryItemsType
  <2> HIDE DEF s, t, u
  <2>5. /\ u \in Seq(ItemSet) /\ Len(u) = Len(s) + Len(t)
        /\ \A k \in 1..(Len(s) + Len(t)) : u[k] = IF k <= Len(s) THEN s[k] ELSE t[k - Len(s)]
    BY <2>2, <2>3, <2>4, ConcatProperties
  <2>6. Len(s) \in Nat /\ Len(t) \in Nat
    BY <2>2, <2>4, LenProperties
  <2>7. From(u, n)
    <3> SUFFICES ASSUME NEW k \in 1..Len(u)
                 PROVE  \E i \in 1..n : \E m \in 1..Len(EntryItems(d, i)) : u[k] = EntryItems(d, i)[m]
      OBVIOUS
    <3>1. CASE k <= Len(s)
      <4>1. k \in 1..Len(s) /\ u[k] = s[k]
        BY <2>5, <2>6, <3>1
      <4>2. PICK i \in 1..(n - 1) : \E m \in 1..Len(EntryItems(d, i)) : s[k] = EntryItems(d, i)[m]
        BY <2>2, <4>1
      <4>3. i \in 1..n
        BY <2>1
      <4> QED
        BY <4>1, <4>2, <4>3
    <3>2. CASE ~(k <= Len(s))
      <4>1. k - Len(s) \in 1..Len(t) /\ u[k] = t[k - Len(s)] /\ n \in 1..n
        BY <2>1, <2>5, <2>6, <3>2
      <4> QED
        BY <4>1 DEF t
    <3> QED
      BY <3>1, <3>2
  <2>8. Holds(u, n)
    <3> SUFFICES ASSUME NEW i \in 1..n, NEW m \in 1..Len(EntryItems(d, i))
                 PROVE  \E k \in 1..Len(u) : u[k] = EntryItems(d, i)[m]
      OBVIOUS
    <3>1. CASE i # n
      <4>1. i \in 1..(n - 1)
        BY <2>1, <3>1
      <4>2. PICK k \in 1..Len(s) : s[k] = EntryItems(d, i)[m]
        BY <2>2, <4>1
      <4>3. k \in 1..Len(u) /\ u[k] = s[k]
        BY <2>5, <2>6
      <4> QED
        BY <4>2, <4>3
    <3>2. CASE i = n
      <4>1. m \in 1..Len(t) /\ EntryItems(d, i)[m] = t[m]
        BY <3>2 DEF t
      <4>2. m + Len(s) \in 1..Len(u) /\ ~(m + Len(s) <= Len(s)) /\ (m + Len(s)) - Len(s) = m
            /\ m + Len(s) \in 1..(Len(s) + Len(t))
        BY <2>5, <2>6, <4>1
      <4>3. u[m + Len(s)] = t[m]
        BY <2>5, <4>2
      <4> QED
        BY <4>1, <4>2, <4>3
    <3> QED
      BY <3>1, <3>2
  <2> HIDE DEF From, Holds
  <2> QED
    BY <2>1, <2>5, <2>7, <2>8 DEF u
<1> HIDE DEF S
<1>4. 0..Slots \subseteq S
  BY <1>0, <1>2, <1>3, UpToLast
<1>5. Slots \in S
  BY <1>0, <1>4
<1>6. From(f[Slots], Slots) /\ Holds(f[Slots], Slots)
  <2> HIDE DEF From, Holds
  <2> QED
    BY <1>5 DEF S
<1>7. Items(d) = f[Slots]
  BY <1>1
<1>8. From(Items(d), Slots) /\ Holds(Items(d), Slots)
  <2> HIDE DEF From, Holds
  <2> QED
    BY <1>6, <1>7
<1> QED
  BY ONLY <1>8 DEF From, Holds

\* A cluster that ends its chain is all of it.
LEMMA OneCluster ==
  ASSUME NEW d, NEW c \in Clusters, d.fat[c] = End
  PROVE  ClusterChain(d, c) = <<c>>
<1>0. MaxCluster \in Nat /\ MaxCluster # 0 /\ End \notin Clusters
  BY HostFatAssumption DEF Clusters
<1>1. PICK f : /\ \A n \in 0..MaxCluster :
                    f[n] = IF n = 0 THEN <<>> ELSE Further(d, c, f[n - 1])
               /\ ClusterChain(d, c) = f[MaxCluster]
  BY ChainSteps
<1>2. Further(d, c, <<>>) = <<c>>
  <2>1. ToSet(<<>>) = {}
    BY DEF ToSet
  <2>2. Append(<<>>, c) = <<c>>
    OBVIOUS
  <2> QED
    BY <2>1, <2>2 DEF Further
<1>3. Further(d, c, <<c>>) = <<c>>
  <2>1. <<c>> # <<>> /\ Len(<<c>>) = 1 /\ <<c>>[1] = c
    OBVIOUS
  <2> QED
    BY <1>0, <2>1 DEF Further
<1> DEFINE S == {n \in 0..MaxCluster : n # 0 => f[n] = <<c>>}
<1>4. 0 \in S
  BY <1>0
<1>5. ASSUME NEW k \in 1..MaxCluster, k - 1 \in S PROVE k \in S
  <2>1. k \in 0..MaxCluster /\ k # 0 /\ k - 1 \in 0..MaxCluster
    BY <1>0
  <2>2. f[k] = Further(d, c, f[k - 1])
    BY <1>1, <2>1
  <2>3. f[k - 1] = <<>> \/ f[k - 1] = <<c>>
    BY <1>1, <1>5, <2>1
  <2>4. f[k] = <<c>>
    BY <1>2, <1>3, <2>2, <2>3
  <2> QED
    BY <2>1, <2>4
<1> HIDE DEF S
<1>6. 0..MaxCluster \subseteq S
  BY <1>0, <1>4, <1>5, UpToLast
<1>7. MaxCluster \in S
  BY <1>0, <1>6
<1> QED
  BY <1>0, <1>1, <1>7 DEF S

\* An empty directory and a file are one item.
LEMMA SingleItem ==
  ASSUME NEW d, DiskOK(d), NEW i \in 1..Slots, Listed(d, i),
         d.root[i].kind = "dir" => d.data[d.root[i].start].entries = <<>>
  PROVE  EntryItems(d, i) = <<Item(<<d.root[i].name>>, d.root[i])>>
<1> DEFINE e == d.root[i]
           own == Item(<<e.name>>, e)
           inside == d.data[e.start].entries
           sub == [j \in DOMAIN inside |-> Item(<<e.name, inside[j].name>>, inside[j])]
<1>1. CASE e.kind = "file"
  BY <1>1 DEF EntryItems
<1>2. CASE e.kind # "file"
  <2>1. e.kind = "dir"
    <3>1. e.kind \in {"free", "file", "dir"}
      BY EntryFields DEF DiskOK
    <3> QED
      BY <1>2, <3>1 DEF Listed
  <2>2. inside = <<>>
    BY <2>1
  <2>3. DOMAIN inside = 1..0
    BY <2>2
  <2>4. PICK n \in {0} : sub \in [1..n -> {own}]
    BY <2>3
  <2> HIDE DEF sub, own
  <2>5. sub \in Seq({own}) /\ Len(sub) = 0
    <3>1. n \in Nat /\ n = 0
      OBVIOUS
    <3>2. sub \in Seq({own}) /\ Len(sub) = n
      BY <2>4, <3>1, FunctionIsSeq
    <3> QED
      BY <3>1, <3>2
  <2>6. sub = <<>>
    BY <2>5, EmptySeq
  <2>7. <<own>> \in Seq({own})
    OBVIOUS
  <2>8. <<own>> \o <<>> = <<own>>
    BY <2>7, ConcatEmptySeq
  <2>9. EntryItems(d, i) = <<own>> \o sub
    BY <1>2 DEF EntryItems, own, sub
  <2> QED
    BY <2>6, <2>8, <2>9 DEF own
<1> QED
  BY <1>1, <1>2

UsedSlots(tree) == {i \in 1..Slots : tree[i].kind # "free"}
ContentOf(tree, b, i) == Cluster(IF tree[i].kind = "dir" THEN Listing ELSE b, <<>>)
SlotOf(tree, p) == CHOOSE i \in UsedSlots(tree) : p = <<tree[i].name>>

\* A tree that _build lays out: entry i is a file of one cluster, or an empty
\* directory, in cluster i + 1, and no two entries have one name.
LEMMA TreeFacts ==
  ASSUME NEW tree \in Trees
  PROVE  /\ tree \in [1..Slots -> Entries]
         /\ \A i \in UsedSlots(tree) :
              /\ i \in 1..Slots /\ tree[i].name \in Names
              /\ tree[i].start = i + 1 /\ i + 1 \in Clusters
              /\ tree[i].kind \in {"file", "dir"}
              /\ tree[i].kind = "file" => tree[i].size = 1
         /\ \A i, j \in UsedSlots(tree) : i # j => tree[i].name # tree[j].name
         /\ \A i \in UsedSlots(tree) : SlotOf(tree, <<tree[i].name>>) = i
<1>0. Slots \in Nat
  BY HostFatAssumption
<1>1. tree \in [1..Slots -> Entries]
  BY DEF Trees
<1>2. ASSUME NEW i \in UsedSlots(tree)
      PROVE  /\ i \in 1..Slots /\ tree[i].name \in Names
             /\ tree[i].start = i + 1 /\ i + 1 \in Clusters
             /\ tree[i].kind \in {"file", "dir"}
             /\ tree[i].kind = "file" => tree[i].size = 1
  <2>1. i \in 1..Slots /\ tree[i].kind # "free" /\ tree[i] \in Entries
    BY <1>1 DEF UsedSlots
  <2>2. tree[i] = Dir(tree[i].name, i + 1) \/ tree[i] = File(tree[i].name, 1, i + 1)
    BY <2>1 DEF Trees, Nth
  <2>3. tree[i].name \in Names /\ tree[i].kind \in {"file", "dir"}
        /\ (tree[i].kind = "dir" => tree[i].start \in Clusters)
    BY <2>1, EntryFields
  <2>4. tree[i].start = i + 1 /\ (tree[i].kind = "file" => tree[i].size = 1)
    <3>1. CASE tree[i] = Dir(tree[i].name, i + 1)
      BY <3>1 DEF Dir
    <3>2. CASE tree[i] = File(tree[i].name, 1, i + 1)
      BY <3>2 DEF File
    <3> QED
      BY <2>2, <3>1, <3>2
  <2>5. tree[i].kind = "file" => tree[i].start \in Clusters
    BY <2>1, <2>4 DEF Entries, NoEntry, Dir, File
  <2> QED
    BY <2>1, <2>3, <2>4, <2>5
<1>3. ASSUME NEW i \in UsedSlots(tree), NEW j \in UsedSlots(tree), i # j
      PROVE  tree[i].name # tree[j].name
  <2>1. i \in 1..Slots /\ j \in 1..Slots /\ tree[i].kind # "free" /\ tree[j].kind # "free"
    BY DEF UsedSlots
  <2>2. \A x, y \in 1..Slots : x < y => tree[x].kind = "free" \/ tree[x].name # tree[y].name
    BY DEF Trees
  <2>3. i < j \/ j < i
    BY <1>0, <1>3, <2>1
  <2> QED
    BY <2>1, <2>2, <2>3
<1>4. ASSUME NEW i \in UsedSlots(tree) PROVE SlotOf(tree, <<tree[i].name>>) = i
  <2> DEFINE x == SlotOf(tree, <<tree[i].name>>)
  <2>1. x \in UsedSlots(tree) /\ <<tree[i].name>> = <<tree[x].name>>
    BY DEF SlotOf
  <2> HIDE DEF x
  <2>2. tree[i].name = tree[x].name
    BY <2>1
  <2>3. x = i
    BY <1>3, <2>1, <2>2
  <2> QED
    BY <2>3 DEF x
<1> QED
  BY <1>1, <1>2, <1>3, <1>4

LEMMA InitHolds == Init => IInv
<1> SUFFICES ASSUME Init PROVE IInv
  OBVIOUS
<1>0. Slots \in Nat /\ MaxCluster \in Nat /\ MaxWrites \in Nat /\ MaxEdits \in Nat
      /\ Free \notin Clusters
  BY HostFatAssumption DEF Clusters
<1>1. PICK tree \in Trees, b \in Bytes :
        /\ disk = [root |-> tree,
                   fat |-> [c \in Clusters |-> IF c - 1 \in UsedSlots(tree) THEN End ELSE Free],
                   data |-> [c \in Clusters |-> IF c - 1 \in UsedSlots(tree)
                                                THEN ContentOf(tree, b, c - 1)
                                                ELSE Cluster(b, <<>>)]]
        /\ paths = {<<tree[i].name>> : i \in UsedSlots(tree)}
        /\ host = [p \in paths |-> IF tree[SlotOf(tree, p)].kind = "dir" THEN HostDir
                                   ELSE HostFile(<<ContentOf(tree, b, SlotOf(tree, p))>>)]
        /\ synced = [p \in {<<tree[i].name>> :
                            i \in {j \in UsedSlots(tree) : tree[j].kind = "file"}} |->
                       [signature |-> <<1, <<Nth(SlotOf(tree, p))>> >>,
                        hash |-> <<ContentOf(tree, b, SlotOf(tree, p))>>]]
  BY DEF Init, UsedSlots, ContentOf, SlotOf
<1>2. outcome = "ok" /\ lost = {} /\ touched = {} /\ writes = 0 /\ edits = 0
  BY DEF Init
<1> DEFINE used == UsedSlots(tree)
           content(i) == ContentOf(tree, b, i)
<1>3. /\ tree \in [1..Slots -> Entries]
      /\ \A i \in used : /\ i \in 1..Slots /\ tree[i].name \in Names
                         /\ tree[i].start = i + 1 /\ i + 1 \in Clusters
                         /\ tree[i].kind \in {"file", "dir"}
                         /\ tree[i].kind = "file" => tree[i].size = 1
      /\ \A i, j \in used : i # j => tree[i].name # tree[j].name
      /\ \A i \in used : SlotOf(tree, <<tree[i].name>>) = i
  BY TreeFacts
<1> HIDE DEF used
<1>4. \A i \in used : content(i) \in Contents /\ content(i).entries = <<>>
  <2>1. \A i : content(i) = Cluster(Listing, <<>>) \/ content(i) = Cluster(b, <<>>)
    BY DEF ContentOf
  <2>2. Cluster(Listing, <<>>) \in Contents /\ Cluster(b, <<>>) \in Contents
    BY DEF Contents
  <2>3. Cluster(Listing, <<>>).entries = <<>> /\ Cluster(b, <<>>).entries = <<>>
    BY DEF Cluster
  <2> QED
    BY <2>1, <2>2, <2>3
<1> HIDE DEF content
<1>5. /\ disk.root = tree
      /\ disk.fat = [c \in Clusters |-> IF c - 1 \in used THEN End ELSE Free]
      /\ disk.data = [c \in Clusters |-> IF c - 1 \in used THEN content(c - 1)
                                         ELSE Cluster(b, <<>>)]
      /\ disk = [root |-> disk.root, fat |-> disk.fat, data |-> disk.data]
  BY <1>1 DEF used, content
<1>6. disk.data \in [Clusters -> Contents]
  <2>1. Cluster(b, <<>>) \in Contents
    BY DEF Contents
  <2> QED
    BY <1>4, <1>5, <2>1
<1>7. disk \in [root : [1..Slots -> Entries], fat : [Clusters -> Clusters \cup {Free, End}],
                data : [Clusters -> Contents]]
  BY <1>3, <1>5, <1>6
<1>8. DiskOK(disk)
  BY <1>7 DEF DiskOK
<1>9. \A i \in used : disk.fat[i + 1] = End /\ disk.data[i + 1] = content(i)
  <2> SUFFICES ASSUME NEW i \in used PROVE disk.fat[i + 1] = End /\ disk.data[i + 1] = content(i)
    OBVIOUS
  <2>1. i + 1 \in Clusters /\ (i + 1) - 1 = i
    BY <1>0, <1>3
  <2> QED
    BY <1>5, <2>1
<1>10. NamesApart(disk)
  BY <1>3, <1>5 DEF NamesApart, used, UsedSlots
<1>11. paths \subseteq Paths
  BY <1>1, <1>3 DEF Paths, used
<1>12. DOMAIN host = paths /\ \A i \in used : /\ <<tree[i].name>> \in paths
         /\ host[<<tree[i].name>>] = IF tree[i].kind = "dir" THEN HostDir
                                     ELSE HostFile(<<content(i)>>)
  <2> SUFFICES ASSUME NEW i \in used
               PROVE  /\ DOMAIN host = paths /\ <<tree[i].name>> \in paths
                      /\ host[<<tree[i].name>>] = IF tree[i].kind = "dir" THEN HostDir
                                                  ELSE HostFile(<<content(i)>>)
    BY <1>1
  <2> DEFINE p == <<tree[i].name>>
  <2>1. p \in paths /\ SlotOf(tree, p) = i
    BY <1>1, <1>3 DEF used
  <2> HIDE DEF p
  <2>2. host[p] = IF tree[SlotOf(tree, p)].kind = "dir" THEN HostDir
                  ELSE HostFile(<<ContentOf(tree, b, SlotOf(tree, p))>>)
    BY <1>1, <2>1
  <2>3. host[p] = IF tree[i].kind = "dir" THEN HostDir ELSE HostFile(<<content(i)>>)
    BY <2>1, <2>2 DEF content
  <2> QED
    BY <1>1, <2>1, <2>3 DEF p
<1>13. \A q \in DOMAIN synced : \E i \in used : q = <<tree[i].name>> /\ tree[i].kind = "file"
  BY <1>1 DEF used
<1>14. ASSUME NEW i \in used, tree[i].kind = "file"
       PROVE  /\ <<tree[i].name>> \in DOMAIN synced
              /\ synced[<<tree[i].name>>] = [signature |-> <<1, <<i + 1>> >>, hash |-> <<content(i)>>]
  <2> DEFINE p == <<tree[i].name>>
  <2>1. p \in DOMAIN synced /\ SlotOf(tree, p) = i
    BY <1>1, <1>3, <1>14 DEF used
  <2> HIDE DEF p
  <2>2. synced[p] = [signature |-> <<1, <<Nth(SlotOf(tree, p))>> >>,
                     hash |-> <<ContentOf(tree, b, SlotOf(tree, p))>>]
    BY <1>1, <2>1
  <2> QED
    BY <2>1, <2>2 DEF p, Nth, content
<1>15. ASSUME NEW i \in used, tree[i].kind = "file"
       PROVE  /\ Recorded([signature |-> <<1, <<i + 1>> >>, hash |-> <<content(i)>>])
              /\ Exact(disk, [signature |-> <<1, <<i + 1>> >>, hash |-> <<content(i)>>])
  <2> DEFINE r == [signature |-> <<1, <<i + 1>> >>, hash |-> <<content(i)>>]
  <2>1. r.signature[1] = 1 /\ r.signature[2] = <<i + 1>> /\ r.hash = <<content(i)>>
    OBVIOUS
  <2>2. i + 1 \in Clusters /\ content(i) \in Contents /\ disk.data[i + 1] = content(i)
    BY <1>3, <1>4, <1>9
  <2> HIDE DEF r
  <2>3. <<i + 1>> \in Seq(Clusters) /\ Len(<<i + 1>>) = 1 /\ <<i + 1>>[1] = i + 1
    BY <2>2
  <2>4. <<content(i)>> \in [1..1 -> Contents]
    BY <2>2
  <2>5. Recorded(r)
    BY <2>1, <2>3, <2>4 DEF Recorded
  <2>6. <<content(i)>> = [j \in 1..1 |-> disk.data[<<i + 1>>[j]]]
    <3>1. \A j \in 1..1 : disk.data[<<i + 1>>[j]] = content(i)
      BY <2>2
    <3>2. <<content(i)>> = [j \in 1..1 |-> content(i)]
      OBVIOUS
    <3> QED
      BY <3>1, <3>2
  <2>7. Exact(disk, r)
    BY <2>1, <2>6 DEF Exact
  <2> QED
    BY <2>5, <2>7 DEF r
<1>16. ASSUME NEW q \in DOMAIN synced
       PROVE  /\ Recorded(synced[q]) /\ Exact(disk, synced[q])
              /\ Held(host, synced, touched, q) /\ q \in paths
  <2>1. PICK i \in used : q = <<tree[i].name>> /\ tree[i].kind = "file"
    BY <1>13
  <2>2. synced[q] = [signature |-> <<1, <<i + 1>> >>, hash |-> <<content(i)>>]
    BY <1>14, <2>1
  <2>3. Recorded(synced[q]) /\ Exact(disk, synced[q])
    BY <1>15, <2>1, <2>2
  <2>4. q \in DOMAIN host /\ host[q] = HostFile(synced[q].hash)
    BY <1>12, <2>1, <2>2
  <2> QED
    BY <1>12, <2>3, <2>4 DEF Held
<1>17. \A p \in DOMAIN host : host[p].kind \in {"file", "dir"}
  <2> SUFFICES ASSUME NEW p \in DOMAIN host PROVE host[p].kind \in {"file", "dir"}
    OBVIOUS
  <2>1. PICK i \in used : p = <<tree[i].name>>
    BY <1>1, <1>12 DEF used
  <2> QED
    BY <1>12, <2>1, HostFacts
<1>18. Consistent(host, paths, synced, touched)
  BY <1>2, <1>11, <1>12, <1>16, <1>17 DEF Consistent
<1>19. TypeOK
  BY <1>0, <1>2, <1>7, <1>11, <1>12, <1>16, <1>17 DEF TypeOK
<1>20. \A p \in DOMAIN synced : Fresh(disk, host, synced, touched, lost, p)
  BY <1>16 DEF Fresh
<1>21. ASSUME NEW i \in used PROVE EntryItems(disk, i) = <<Item(<<tree[i].name>>, tree[i])>>
  <2>1. i \in 1..Slots /\ tree[i].kind \in {"file", "dir"} /\ tree[i].start = i + 1
    BY <1>3
  <2>2. Listed(disk, i)
    <3>1. ASSUME NEW j \in 1..(i - 1), tree[j].kind = "dir" PROVE tree[j].start # tree[i].start
      <4>1. j \in used /\ j \in Nat /\ i \in Nat /\ j # i
        BY <1>0, <2>1, <3>1 DEF used, UsedSlots
      <4>2. tree[j].start = j + 1
        BY <1>3, <4>1
      <4> QED
        BY <2>1, <4>1, <4>2
    <3> QED
      BY <1>5, <2>1, <3>1 DEF Listed
  <2>3. disk.data[disk.root[i].start].entries = <<>>
    <3>1. disk.root[i].start = i + 1
      BY <1>5, <2>1
    <3>2. disk.data[i + 1] = content(i) /\ content(i).entries = <<>>
      BY <1>4, <1>9
    <3> QED
      BY <3>1, <3>2
  <2> QED
    BY <1>5, <1>8, <2>1, <2>2, <2>3, SingleItem
<1>22. ASSUME NEW i \in 1..Slots, i \notin used PROVE Len(EntryItems(disk, i)) = 0
  <2>1. ~Listed(disk, i)
    BY <1>5, <1>22 DEF Listed, used, UsedSlots
  <2>2. EntryItems(disk, i) = <<>>
    BY <2>1 DEF EntryItems
  <2> QED
    BY <2>2
<1>23. ASSUME NEW i \in used PROVE Signed(disk, synced, Item(<<tree[i].name>>, tree[i]))
  <2> DEFINE it == Item(<<tree[i].name>>, tree[i])
  <2>1. /\ it.rel = <<tree[i].name>> /\ it.kind = tree[i].kind
        /\ it.size = tree[i].size /\ it.start = tree[i].start
    BY DEF Item
  <2> HIDE DEF it
  <2>2. CASE tree[i].kind = "file"
    <3>1. it.size = 1 /\ it.start = i + 1 /\ i + 1 \in Clusters
      BY <1>3, <2>1, <2>2
    <3>2. ClusterChain(disk, i + 1) = <<i + 1>>
      BY <1>9, <3>1, OneCluster
    <3>3. Signature(disk, it) = <<1, <<i + 1>> >>
      BY <3>1, <3>2 DEF Signature
    <3>4. it.rel \in DOMAIN synced /\ synced[it.rel].signature = <<1, <<i + 1>> >>
      <4>1. /\ it.rel \in DOMAIN synced
            /\ synced[it.rel] = [signature |-> <<1, <<i + 1>> >>, hash |-> <<content(i)>>]
        BY <1>14, <2>1, <2>2
      <4> QED
        BY <4>1, RecordFields
    <3> QED
      BY <3>3, <3>4 DEF Signed, it
  <2>3. CASE tree[i].kind # "file"
    BY <2>1, <2>3 DEF Signed, it
  <2> QED
    BY <2>2, <2>3
<1>24. \A k \in 1..Len(Items(disk)) : Signed(disk, synced, Items(disk)[k])
  <2> SUFFICES ASSUME NEW k \in 1..Len(Items(disk)) PROVE Signed(disk, synced, Items(disk)[k])
    OBVIOUS
  <2>1. PICK i \in 1..Slots : \E m \in 1..Len(EntryItems(disk, i)) :
          Items(disk)[k] = EntryItems(disk, i)[m]
    BY <1>8, ItemsAre
  <2>2. PICK m \in 1..Len(EntryItems(disk, i)) : Items(disk)[k] = EntryItems(disk, i)[m]
    BY <2>1
  <2>3. i \in used
    BY <1>22
  <2> DEFINE it == Item(<<tree[i].name>>, tree[i])
  <2>4. EntryItems(disk, i) = <<it>>
    BY <1>21, <2>3
  <2> HIDE DEF it
  <2>5. Items(disk)[k] = it
    BY <2>2, <2>4
  <2> QED
    BY <1>23, <2>3, <2>5 DEF it
<1>25. DOMAIN host \subseteq Present(disk) \cup touched
  <2> SUFFICES ASSUME NEW p \in DOMAIN host PROVE p \in Present(disk)
    OBVIOUS
  <2>1. PICK i \in used : p = <<tree[i].name>>
    BY <1>1, <1>12 DEF used
  <2> DEFINE it == Item(<<tree[i].name>>, tree[i])
  <2>2. EntryItems(disk, i) = <<it>> /\ it.rel = p /\ i \in 1..Slots
    BY <1>3, <1>21, <2>1 DEF Item
  <2> HIDE DEF it
  <2>3. 1 \in 1..Len(EntryItems(disk, i)) /\ EntryItems(disk, i)[1] = it
    BY <2>2
  <2>4. \E k \in 1..Len(Items(disk)) : Items(disk)[k] = it
    BY <1>8, <2>2, <2>3, ItemsAre
  <2> QED
    BY <1>8, <2>2, <2>4, PresentItems
<1> QED
  BY <1>10, <1>18, <1>19, <1>20, <1>24, <1>25 DEF IInv

-----------------------------------------------------------------------------
(* The theorems. *)

LEMMA Invariance == Spec => []IInv
<1>1. Init => IInv
  BY InitHolds
<1>2. IInv /\ [Next]_vars => IInv'
  BY NextKeeps
<1> QED
  BY <1>1, <1>2, PTL DEF Spec

\* Mirroring only what a write made dirty or what changed its entry gives the
\* files that mirroring everything would (virtualfat16.py:404-406), for every
\* volume, tree, order of the guest's sectors and moment of the host programs'
\* edits.
THEOREM HostFatMirrors == Spec => []MirroredUnlessLost
<1>1. IInv => MirroredUnlessLost
  <2> SUFFICES ASSUME IInv, outcome = "ok", NEW item \in ToSet(Items(disk)),
                      item.kind = "file", item.rel \notin touched, ~DirOnHost(item.rel),
                      ToSet(ClusterChain(disk, item.start)) \cap lost = {}
               PROVE  Mirrored(item)
    BY DEF MirroredUnlessLost
  <2> DEFINE items == Items(disk)
             c == ClusterChain(disk, item.start)
             p == item.rel
  <2>1. DiskOK(disk) /\ Consistent(host, paths, synced, touched)
    BY DEF IInv, TypeOK, DiskOK
  <2>2. items \in Seq(ItemSet)
    BY <2>1, ItemsType
  <2>3. \A k \in 1..Len(items) : Signed(disk, synced, items[k])
    BY DEF IInv
  <2> HIDE DEF items
  <2>4. \E k \in 1..Len(items) : item = items[k]
    <3>1. DOMAIN items = 1..Len(items)
      BY <2>2, LenProperties
    <3>2. item \in ToSet(items)
      BY DEF items
    <3> QED
      BY <3>1, <3>2 DEF ToSet
  <2>5. p \in DOMAIN synced /\ synced[p].signature = <<item.size, c>>
    BY <2>3, <2>4 DEF Signed, Signature
  <2>6. Fresh(disk, host, synced, touched, lost, p) /\ Held(host, synced, touched, p)
    BY <2>1, <2>5 DEF IInv, Consistent
  <2>7. ~IsDir(host, p)
    BY DEF IsDir, DirOnHost
  <2> HIDE DEF c
  <2>8. synced[p].signature[1] = item.size /\ synced[p].signature[2] = c
    BY <2>5
  <2>9. Exact(disk, synced[p])
    BY <2>6, <2>7, <2>8 DEF Fresh, c
  <2>10. synced[p].hash = [i \in 1..item.size |-> disk.data[c[i]]]
    BY <2>8, <2>9 DEF Exact
  <2>11. synced[p].hash = ReadChain(disk, item)
    BY <2>10 DEF ReadChain, c
  <2> QED
    BY <2>6, <2>7, <2>11 DEF Held, Mirrored
<1> QED
  BY <1>1, Invariance, PTL

\* Type correctness, and once a walk succeeds nothing the mirror wrote is left on
\* the host that the guest's tree does not hold (virtualfat16.py:421-461).
THEOREM HostFatLeavesNothing == Spec => []NothingLeftBehind
<1>1. IInv => NothingLeftBehind
  BY DEF IInv, NothingLeftBehind
<1> QED
  BY <1>1, Invariance, PTL

\* What a host program stored is neither removed nor changed by a guest's write
\* to anything but that very file, after any deletions, renames and walks that
\* were given up (virtualfat16.py:16-17, :404-420).
THEOREM HostFatKeepsEdits == Spec => EditsKept
<1>1. ASSUME IInv, [Next]_vars, writes' # writes
      PROVE  \A p \in touched \cap DOMAIN host : KeptOrRewritten(p)
  <2>1. CASE \E p \in Paths : EditFile(p) \/ DeleteOnHost(p)
    BY <1>1, <2>1 DEF EditFile, DeleteOnHost, External
  <2>2. CASE \/ \E i \in 1..Slots, e \in Entries : WriteRoot(i, e)
             \/ \E c \in Clusters, next \in Clusters \cup {Free, End} : WriteFat(c, next)
             \/ \E c \in Clusters, content \in Contents : WriteData(c, content)
    <3>1. PICK d, dirty : Changes(d, dirty) /\ Write(d, dirty)
      BY <1>1, <2>2, GuestWrites
    <3> QED
      BY <1>1, <3>1, WriteKeepsEdits
  <2> QED
    BY <1>1, <2>1, <2>2 DEF Next, vars
<1>2. IInv /\ [Next]_vars =>
        [writes' # writes => \A p \in touched \cap DOMAIN host : KeptOrRewritten(p)]_vars
  BY <1>1
<1>3. IInv /\ [Next]_vars =>
        [writes' # writes =>
           \A p \in touched \cap DOMAIN host :
             /\ p \in DOMAIN host'
             /\ \/ host'[p] = host[p]
                \/ \E item \in ToSet(Items(disk')) :
                     /\ item.rel = p /\ item.kind = "file"
                     /\ GuestRewrites(item) /\ Readable(disk', item)
                     /\ host'[p] = HostFile(ReadChain(disk', item))]_vars
  BY <1>2 DEF KeptOrRewritten
<1> QED
  BY <1>3, Invariance, PTL DEF Spec, EditsKept

=============================================================================
