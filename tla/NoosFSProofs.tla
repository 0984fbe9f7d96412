---------------------------- MODULE NoosFSProofs ----------------------------
(***************************************************************************)
(* The invariants of NO_OSFS, for disks and directories of every size.     *)
(***************************************************************************)
EXTENDS NoosFS, Lemmas

\* The steps of fs_unlink, fs_create and fs_write_file.
Busy == {"unlink", "unentry", "create", "dirblock", "entry", "write", "sync"}

Distinct(s) == \A i, j \in DOMAIN s : s[i] = s[j] => i = j

Look == [n \in Names |-> fs_lookup(n)]

\* The predicates below speak about a disk with root block r, lookup table L
\* and inodes I.

\* The clusters of the directory and of the files other than x, and the inodes
\* of these files.
Others(r, L, I, x) ==
  ({r} \ {0}) \union UNION {Elems(I[L[m]]) : m \in {k \in Names \ {x} : L[k] # 0}}
OtherInodes(L, x) == {L[m] : m \in Names \ {x}} \ {0}

\* Inode and clusters of file x are its own.
Own(r, L, I, x) ==
  L[x] # 0 => /\ L[x] \notin OtherInodes(L, x)
              /\ Distinct(I[L[x]])
              /\ Elems(I[L[x]]) \intersect Others(r, L, I, x) = {}

Apart(r, L, I) == \A x \in Names : Own(r, L, I, x)

\* The files whose contents S knows are there, and bitmap b covers them.
Safe(r, L, I, D, b, S) ==
  \A n \in Names :
    /\ S[n] = Absent => L[n] = 0
    /\ S[n] \notin {Absent, Unknown} =>
         /\ L[n] # 0 /\ r \in b /\ Elems(I[L[n]]) \subseteq b
         /\ <<Len(I[L[n]])>> = S[n]
         /\ \A c \in Elems(I[L[n]]) : D[c] = n

\* The directory block holds the directory, or else no bitmap covers it and
\* no operation relies on it.
DirBlock ==
  root # 0 /\ data[root] # "dir" => pc \notin Busy /\ root \notin dbm /\ root \notin cbm

\* What an operation on file `name` holds in the bitmaps besides what the
\* directory and the other files do.
Held ==
  CASE pc = "unlink" -> Elems(inode[ino])
    [] pc \in {"write", "sync"} -> Elems(blocks)
    [] OTHER -> {}
HeldInode ==
  IF pc \in {"unlink", "dirblock", "entry", "write"} \/ (pc = "sync" /\ kind # "delete")
  THEN {ino} ELSE {}

Rest == Others(root, Look, inode, name)
RestInodes == OtherInodes(Look, name)

\* Where an operation stands.
Position ==
  /\ pc \in {"unlink", "unentry"} => ino # 0 /\ Look[name] = ino
  /\ pc \in {"unentry", "dirblock", "entry"} => inode[ino] = <<>>
  /\ pc \in {"create", "dirblock", "entry"} => Look[name] = 0
  /\ pc = "dirblock" => root = 0
  /\ pc \in {"entry", "write"} => root # 0
  /\ pc \in Busy \ {"write", "sync"} => blocks = <<>> /\ written = 0
  /\ pc \in {"dirblock", "entry", "write"} => ino # 0
  /\ pc = "write" =>
       /\ Look[name] = ino
       /\ Len(blocks) <= want /\ written <= Len(blocks)
       /\ Len(blocks) < want => Elems(inode[ino]) \subseteq Elems(blocks)
  /\ pc = "sync" =>
       IF kind = "delete" THEN Look[name] = 0 /\ blocks = <<>>
       ELSE /\ Look[name] = ino /\ ino # 0 /\ inode[ino] = blocks
            /\ Len(blocks) = want /\ written = want
  /\ pc \in {"write", "sync"} =>
       /\ Distinct(blocks)
       /\ \A i \in 1..written : data[blocks[i]] = name

\* The bitmaps during an operation.
Account ==
  /\ Rest \union Held \subseteq cbm /\ RestInodes \union HeldInode \subseteq ibm
  /\ Rest \intersect Held = {} /\ RestInodes \intersect HeldInode = {}
  /\ crashes = 0 /\ ~failed => cbm = Rest \union Held /\ ibm = RestInodes \union HeldInode

\* What holds of formatting, mounting and booting, and of an operation's kind.
Phases ==
  /\ sbs = {} => root = 0 /\ ~mounted /\ pc \in {"off", "format", "table", "sb1"}
  /\ pc \in Busy => mounted /\ kind \in {"save", "rewrite", "delete"}
  /\ pc \in Busy => IF kind = "delete" THEN want = 0 ELSE want \in Sizes
  /\ pc \in {"create", "dirblock", "entry", "write"} => kind # "delete"
  /\ pc \in {"format", "table"} => kind \in {"boot", "format"}
  /\ pc \in {"format", "table"} /\ kind = "boot" => sbs = {}
  /\ pc \in {"sb1", "sb0"} => root = 0 /\ dbm = {}
  /\ pc = "table" => dbm = {}
  /\ pc = "mount" /\ kind # "boot" => root = 0 /\ dbm = {}
  /\ pc = "mount" /\ crashes = 0 => root = 0 /\ dbm = {}
  /\ pc = "selftest" => cbm = dbm
  /\ pc = "selftest" /\ crashes = 0 => root = 0 /\ dbm = {} /\ ibm = {}
  /\ pc = "off" /\ crashes = 0 => sbs = {}
  /\ crashes = 0 => trusted
  /\ crashes = 0 /\ pc = "idle" => BitmapsCover /\ (~failed => cbm = Refs /\ ibm = Linked)
  /\ pc \in {"format", "table"} /\ trusted => \A n \in Names : saved[n] \in {Absent, Unknown}

Core ==
  /\ Apart(root, Look, inode)
  /\ Safe(root, Look, inode, data, dbm, saved)
  /\ DirBlock
  /\ pc \in Busy => saved[name] = Unknown /\ Position /\ Account

FSInv == FSTypeOK /\ Phases /\ (trusted => Core)

-----------------------------------------------------------------------------
(* Sequences of clusters *)

LEMMA ElemsEmpty == Elems(<<>>) = {} /\ Distinct(<<>>)
BY DEF Elems, Distinct

LEMMA ElemsOf ==
  ASSUME NEW S, NEW s \in Seq(S)
  PROVE  /\ Elems(s) \subseteq S
         /\ \A i \in 1..Len(s) : s[i] \in Elems(s)
         /\ \A c \in Elems(s) : \E i \in 1..Len(s) : s[i] = c
BY DEF Elems

LEMMA AppendElems ==
  ASSUME NEW S, NEW s \in Seq(S), NEW c \in S, c \notin Elems(s), Distinct(s)
  PROVE  Elems(Append(s, c)) = Elems(s) \union {c} /\ Distinct(Append(s, c))
<1> DEFINE t == Append(s, c)
<1>1. /\ t \in Seq(S) /\ Len(t) = Len(s) + 1 /\ Len(s) \in Nat /\ t[Len(s) + 1] = c
      /\ \A i \in 1..Len(s) : t[i] = s[i]
  OBVIOUS
<1> HIDE DEF t
<1>2. DOMAIN s = 1..Len(s) /\ DOMAIN t = 1..(Len(s) + 1)
  BY <1>1
<1>3. \A i \in 1..(Len(s) + 1) : i \in 1..Len(s) \/ i = Len(s) + 1
  BY <1>1
<1>4. 1..Len(s) \subseteq 1..(Len(s) + 1) /\ Len(s) + 1 \in 1..(Len(s) + 1)
  BY <1>1
<1>5. Elems(t) = Elems(s) \union {c}
  BY <1>1, <1>2, <1>3, <1>4 DEF Elems
<1>6. Distinct(t)
  <2> SUFFICES ASSUME NEW i \in DOMAIN t, NEW j \in DOMAIN t, t[i] = t[j] PROVE i = j
    BY DEF Distinct
  <2>1. \A k \in 1..Len(s) : s[k] # c
    BY <1>2 DEF Elems
  <2>2. CASE i \in 1..Len(s) /\ j \in 1..Len(s)
    BY <1>1, <1>2, <2>2 DEF Distinct
  <2>3. CASE i = Len(s) + 1 /\ j \in 1..Len(s)
    BY <1>1, <2>1, <2>3
  <2>4. CASE i \in 1..Len(s) /\ j = Len(s) + 1
    BY <1>1, <2>1, <2>4
  <2> QED
    BY <1>2, <1>3, <2>2, <2>3, <2>4
<1> QED
  BY <1>5, <1>6 DEF t

\* A sequence without repetitions is cut into two disjoint parts.
LEMMA CutElems ==
  ASSUME NEW S, NEW s \in Seq(S), NEW w \in Nat, w <= Len(s), Distinct(s)
  PROVE  /\ SubSeq(s, 1, w) \in Seq(S) /\ Len(SubSeq(s, 1, w)) = w
         /\ Distinct(SubSeq(s, 1, w))
         /\ Elems(SubSeq(s, 1, w)) = Elems(s) \ {s[i] : i \in (w + 1)..Len(s)}
<1> DEFINE t == SubSeq(s, 1, w)
<1>1. t \in Seq(S) /\ Len(t) = w /\ (\A i \in 1..w : t[i] = s[i]) /\ Len(s) \in Nat
  OBVIOUS
<1> HIDE DEF t
<1>2. DOMAIN s = 1..Len(s) /\ DOMAIN t = 1..w /\ 1..w \subseteq 1..Len(s)
  BY <1>1
<1>3. Distinct(t)
  BY <1>1, <1>2 DEF Distinct
<1>4. ASSUME NEW c \in Elems(t) PROVE c \in Elems(s) /\ c \notin {s[i] : i \in (w + 1)..Len(s)}
  <2>1. PICK i \in 1..w : c = s[i]
    BY <1>1, <1>2 DEF Elems
  <2>2. i \in DOMAIN s
    BY <1>2
  <2>3. ASSUME NEW j \in (w + 1)..Len(s), c = s[j] PROVE FALSE
    <3>1. j \in DOMAIN s /\ i # j
      BY <1>1, <1>2
    <3> QED
      BY <2>1, <2>2, <2>3, <3>1 DEF Distinct
  <2> QED
    BY <2>1, <2>2, <2>3 DEF Elems
<1>5. ASSUME NEW c \in Elems(s), c \notin {s[i] : i \in (w + 1)..Len(s)} PROVE c \in Elems(t)
  <2>1. PICK i \in 1..Len(s) : c = s[i]
    BY <1>2 DEF Elems
  <2>2. i \in 1..w
    BY <1>1, <1>5, <2>1
  <2> QED
    BY <1>1, <1>2, <2>1, <2>2 DEF Elems
<1> QED
  BY <1>1, <1>3, <1>4, <1>5 DEF t

-----------------------------------------------------------------------------
(* Disks that differ in one file *)

LEMMA InOthers ==
  ASSUME NEW r, NEW L, NEW I, NEW x, NEW c
  PROVE  c \in Others(r, L, I, x) <=>
           \/ c = r /\ r # 0
           \/ \E m \in Names \ {x} : L[m] # 0 /\ c \in Elems(I[L[m]])
BY DEF Others

\* Two disks agree on everything but file x.
Agree(L, I, L2, I2, x) ==
  /\ \A m \in Names \ {x} : L2[m] = L[m]
  /\ \A i \in OtherInodes(L, x) : I2[i] = I[i]

LEMMA OthersKept ==
  ASSUME NEW r, NEW L, NEW I, NEW L2, NEW I2, NEW x, Agree(L, I, L2, I2, x)
  PROVE  /\ Others(r, L2, I2, x) = Others(r, L, I, x)
         /\ OtherInodes(L2, x) = OtherInodes(L, x)
<1>1. OtherInodes(L2, x) = OtherInodes(L, x)
  BY DEF Agree, OtherInodes
<1>2. \A m \in Names \ {x} : L[m] # 0 => I2[L2[m]] = I[L[m]] /\ L2[m] = L[m]
  BY DEF Agree, OtherInodes
<1>3. \A m \in Names \ {x} : L[m] = 0 => L2[m] = 0
  BY DEF Agree
<1>4. \A c : c \in Others(r, L2, I2, x) <=> c \in Others(r, L, I, x)
  BY <1>2, <1>3, InOthers
<1> QED
  BY <1>1, <1>4

LEMMA ApartKept ==
  ASSUME NEW r, NEW L, NEW I, NEW L2, NEW I2, NEW x \in Names,
         Agree(L, I, L2, I2, x), Apart(r, L, I), Own(r, L2, I2, x)
  PROVE  Apart(r, L2, I2)
<1> SUFFICES ASSUME NEW y \in Names, y # x, L2[y] # 0 PROVE Own(r, L2, I2, y)
  BY DEF Apart, Own
<1>1. L2[y] = L[y] /\ L[y] \in OtherInodes(L, x) /\ I2[L2[y]] = I[L[y]]
  BY DEF Agree, OtherInodes
<1>2. L[y] \in OtherInodes(L2, x)
  BY <1>1, OthersKept
<1>3. /\ L[y] \notin OtherInodes(L, y) /\ Distinct(I[L[y]])
      /\ Elems(I[L[y]]) \intersect Others(r, L, I, y) = {}
  BY <1>1 DEF Apart, Own
<1>4. L2[y] \notin OtherInodes(L2, y)
  <2> SUFFICES ASSUME NEW m \in Names \ {y}, L2[m] = L[y] PROVE FALSE
    BY <1>1 DEF OtherInodes
  <2>1. CASE m = x
    BY <1>1, <1>2, <2>1 DEF Own
  <2>2. CASE m # x
    BY <1>1, <1>3, <2>2 DEF Agree, OtherInodes
  <2> QED
    BY <2>1, <2>2
<1>5. ASSUME NEW c \in Elems(I[L[y]]), c \in Others(r, L2, I2, y) PROVE FALSE
  <2>1. CASE c = r /\ r # 0
    BY <1>3, <2>1, InOthers
  <2>2. ASSUME NEW m \in Names \ {y}, L2[m] # 0, c \in Elems(I2[L2[m]]) PROVE FALSE
    <3>1. CASE m = x
      <4>1. c \in Others(r, L2, I2, x)
        BY <1>1, InOthers
      <4> QED
        BY <2>2, <3>1, <4>1 DEF Own
    <3>2. CASE m # x
      <4>1. L2[m] = L[m] /\ I2[L2[m]] = I[L[m]]
        BY <2>2, <3>2 DEF Agree, OtherInodes
      <4>2. c \in Others(r, L, I, y)
        BY <2>2, <4>1, InOthers
      <4> QED
        BY <1>3, <4>2
    <3> QED
      BY <3>1, <3>2
  <2> QED
    BY <1>5, <2>1, <2>2, InOthers
<1> QED
  BY <1>1, <1>3, <1>4, <1>5 DEF Own

LEMMA Marks ==
  ASSUME NEW w
  PROVE  Absent # Unknown /\ <<w>> # Absent /\ <<w>> # Unknown
<1>1. Len(Absent) = 0 /\ Len(Unknown) = 2 /\ Len(<<w>>) = 1
  BY DEF Absent, Unknown
<1> QED
  BY <1>1

LEMMA SafeKept ==
  ASSUME NEW r, NEW L, NEW I, NEW D, NEW b, NEW S, NEW L2, NEW I2, NEW D2, NEW b2, NEW S2,
         NEW x \in Names, Agree(L, I, L2, I2, x), Safe(r, L, I, D, b, S), 0 \notin b,
         S2[x] = Unknown, \A m \in Names \ {x} : S2[m] = S[m],
         \A c \in Others(r, L, I, x) : D2[c] = D[c] /\ (c \in b => c \in b2)
  PROVE  Safe(r, L2, I2, D2, b2, S2)
<1> SUFFICES ASSUME NEW n \in Names
             PROVE  /\ S2[n] = Absent => L2[n] = 0
                    /\ S2[n] \notin {Absent, Unknown} =>
                         /\ L2[n] # 0 /\ r \in b2 /\ Elems(I2[L2[n]]) \subseteq b2
                         /\ <<Len(I2[L2[n]])>> = S2[n]
                         /\ \A c \in Elems(I2[L2[n]]) : D2[c] = n
  BY DEF Safe
<1>1. CASE n = x
  BY <1>1, Marks
<1>2. CASE n # x
  <2>1. L2[n] = L[n] /\ S2[n] = S[n]
    BY <1>2 DEF Agree
  <2>2. ASSUME S[n] = Absent PROVE L2[n] = 0
    BY <2>1, <2>2 DEF Safe
  <2>3. ASSUME S[n] \notin {Absent, Unknown}
        PROVE  /\ L2[n] # 0 /\ r \in b2 /\ Elems(I2[L2[n]]) \subseteq b2
               /\ <<Len(I2[L2[n]])>> = S2[n]
               /\ \A c \in Elems(I2[L2[n]]) : D2[c] = n
    <3>1. /\ L[n] # 0 /\ r \in b /\ Elems(I[L[n]]) \subseteq b
          /\ <<Len(I[L[n]])>> = S[n] /\ \A c \in Elems(I[L[n]]) : D[c] = n
      BY <2>3 DEF Safe
    <3>2. I2[L2[n]] = I[L[n]]
      BY <1>2, <2>1, <3>1 DEF Agree, OtherInodes
    <3>3. r \in Others(r, L, I, x)
      BY <3>1, InOthers
    <3>4. Elems(I[L[n]]) \subseteq Others(r, L, I, x)
      BY <1>2, <3>1, InOthers
    <3> QED
      BY <2>1, <3>1, <3>2, <3>3, <3>4
  <2> QED
    BY <2>1, <2>2, <2>3
<1> QED
  BY <1>1, <1>2

-----------------------------------------------------------------------------
(* The current disk *)

LEMMA LookIs ==
  ASSUME FSTypeOK
  PROVE  /\ Look \in [Names -> Inodes \union {0}]
         /\ \A n \in Names : Look[n] = fs_lookup(n)
         /\ root = 0 => \A n \in Names : Look[n] = 0
         /\ data[root] # "dir" => \A n \in Names : Look[n] = 0
BY DEF FSTypeOK, Look, fs_lookup

AllRefs(r, L, I) == ({r} \ {0}) \union UNION {Elems(I[i]) : i \in {L[n] : n \in Names} \ {0}}
AllInodes(L) == {L[n] : n \in Names} \ {0}

\* The clusters of file x.
Mine(L, I, x) == IF L[x] = 0 THEN {} ELSE Elems(I[L[x]])

LEMMA AllRefsIs ==
  ASSUME NEW r, NEW L, NEW I, NEW x \in Names
  PROVE  /\ AllRefs(r, L, I) = Others(r, L, I, x) \union Mine(L, I, x)
         /\ AllInodes(L) = OtherInodes(L, x) \union ({L[x]} \ {0})
<1>1. AllInodes(L) = OtherInodes(L, x) \union ({L[x]} \ {0})
  BY DEF AllInodes, OtherInodes
<1>2. ASSUME NEW c
      PROVE  c \in AllRefs(r, L, I) <=>
               (c = r /\ r # 0) \/ \E n \in Names : L[n] # 0 /\ c \in Elems(I[L[n]])
  BY DEF AllRefs
<1>3. ASSUME NEW c
      PROVE  c \in AllRefs(r, L, I) <=>
               c \in Others(r, L, I, x) \union Mine(L, I, x)
  BY <1>2, InOthers DEF Mine
<1> QED
  BY <1>1, <1>3

LEMMA RefsAre == Refs = AllRefs(root, Look, inode) /\ Linked = AllInodes(Look)
<1>1. Linked = AllInodes(Look)
  BY DEF Linked, AllInodes, Look
<1> QED
  BY <1>1 DEF Refs, AllRefs, AllInodes

LEMMA RefsAreNext == Refs' = AllRefs(root', Look', inode') /\ Linked' = AllInodes(Look')
<1>1. Linked' = AllInodes(Look')
  BY DEF Linked, AllInodes, Look
<1> QED
  BY <1>1 DEF Refs, AllRefs, AllInodes

LEMMA RefsSplit ==
  ASSUME name \in Names
  PROVE  /\ AllRefs(root, Look, inode) = Rest \union Mine(Look, inode, name)
         /\ AllInodes(Look) = RestInodes \union ({Look[name]} \ {0})
BY AllRefsIs DEF Rest, RestInodes

LEMMA NewClusterIs ==
  ASSUME FreeClusters # {}
  PROVE  NewCluster \in Clusters /\ NewCluster \notin cbm
<1>1. FreeClusters \in SUBSET Nat
  BY NoosFSConstants DEF FreeClusters, Clusters
<1>2. \E c \in FreeClusters : \A d \in FreeClusters : c <= d
  BY <1>1, LeastExists
<1> QED
  BY <1>2 DEF NewCluster, FreeClusters

LEMMA NewInodeIs ==
  ASSUME FreeInodes # {}
  PROVE  NewInode \in Inodes /\ NewInode \notin ibm
<1>1. FreeInodes \in SUBSET Nat
  BY NoosFSConstants DEF FreeInodes, Inodes
<1>2. \E c \in FreeInodes : \A d \in FreeInodes : c <= d
  BY <1>1, LeastExists
<1> QED
  BY <1>2 DEF NewInode, FreeInodes

LEMMA NotZero == 0 \notin Clusters /\ 0 \notin Inodes
BY NoosFSConstants DEF Clusters, Inodes

LEMMA LocalTypes ==
  ASSUME FSTypeOK
  PROVE  /\ blocks \in Seq(Clusters) /\ Len(blocks) \in Nat /\ written \in Nat /\ want \in Nat
         /\ written <= want
<1>1. blocks \in Seq(Clusters) /\ want \in Sizes \union {0} /\ written \in 0..want
  BY DEF FSTypeOK
<1>2. want \in Nat
  BY <1>1, NoosFSConstants
<1> QED
  BY <1>1, <1>2

\* A step of an operation that touches its own file only.
LEMMA OwnFileStep ==
  ASSUME FSTypeOK, Core, pc \in Busy,
         root' = root, name' = name, saved' = saved,
         Agree(Look, inode, Look', inode', name), Own(root', Look', inode', name),
         \A c \in Rest : data'[c] = data[c],
         dbm' = dbm \/ dbm' = cbm
  PROVE  /\ Apart(root', Look', inode')
         /\ Safe(root', Look', inode', data', dbm', saved')
         /\ root' # 0 => data'[root'] = "dir"
         /\ Rest' = Rest /\ RestInodes' = RestInodes
<1>1. name \in Names /\ 0 \notin dbm /\ saved[name] = Unknown
  BY NotZero DEF FSTypeOK, Core
<1>2. Apart(root', Look', inode')
  BY <1>1, ApartKept DEF Core
<1>3. Rest \subseteq cbm
  BY DEF Core, Account
<1>4. \A c \in Others(root, Look, inode, name) : data'[c] = data[c] /\ (c \in dbm => c \in dbm')
  BY <1>3 DEF Rest
<1>5. Safe(root, Look, inode, data, dbm, saved)
  BY DEF Core
<1>6. Safe(root', Look', inode', data', dbm', saved')
  <2>1. saved'[name] = Unknown /\ \A m \in Names \ {name} : saved'[m] = saved[m]
    BY <1>1
  <2>2. Safe(root, Look', inode', data', dbm', saved')
    BY <1>1, <1>4, <1>5, <2>1, SafeKept
  <2> QED
    BY <2>2
<1>7. root # 0 => data[root] = "dir" /\ root \in Rest
  BY InOthers DEF Core, DirBlock, Rest
<1>8. Rest' = Rest /\ RestInodes' = RestInodes
  <2>1. /\ Others(root, Look', inode', name) = Others(root, Look, inode, name)
        /\ OtherInodes(Look', name) = OtherInodes(Look, name)
    BY OthersKept
  <2> QED
    BY <2>1 DEF Rest, RestInodes
<1> QED
  BY <1>2, <1>6, <1>7, <1>8

-----------------------------------------------------------------------------
(* fs_unlink *)

LEMMA UnlinkInodeKeeps ==
  ASSUME FSInv, UnlinkInode
  PROVE  FSInv'
<1> USE DEF UnlinkInode
<1>1. FSTypeOK /\ Phases /\ pc = "unlink" /\ pc' = "unentry" /\ pc \in Busy /\ pc' \in Busy
  BY DEF FSInv, Busy
<1>2. FSTypeOK'
  <2>1. inode \in [Inodes -> Seq(Clusters)] /\ <<>> \in Seq(Clusters)
    BY <1>1 DEF FSTypeOK
  <2>2. inode' \in [Inodes -> Seq(Clusters)]
    BY <2>1
  <2>3. cbm' \subseteq Clusters /\ ibm' \subseteq Inodes /\ pc' \in Steps
    BY <1>1 DEF FSTypeOK, Steps
  <2> QED
    BY <1>1, <2>2, <2>3, Zenon DEF FSTypeOK, op, hist
<1>3. Phases'
  BY <1>1 DEF Phases, Busy, op, hist
<1>4. ASSUME trusted PROVE Core'
  <2>1. Core /\ Position /\ Account /\ name \in Names
    BY <1>1, <1>4 DEF FSInv, Core, FSTypeOK
  <2>2. Look' = Look
    BY DEF Look, fs_lookup
  <2>3. /\ ino # 0 /\ Look[name] = ino /\ ino \in Inodes
        /\ Held = Elems(inode[ino]) /\ HeldInode = {ino}
    BY <1>1, <2>1 DEF Position, Held, HeldInode, FSTypeOK
  <2>4. Agree(Look, inode, Look', inode', name)
    BY <1>1, <2>1, <2>2, <2>3 DEF Agree, Account, RestInodes, FSTypeOK
  <2>5. inode'[ino] = <<>>
    BY <1>1, <2>3 DEF FSTypeOK
  <2>6. Own(root', Look', inode', name)
    BY <2>1, <2>2, <2>3, <2>5, ElemsEmpty DEF Own, Account, RestInodes, op
  <2>7. /\ Apart(root', Look', inode')
        /\ Safe(root', Look', inode', data', dbm', saved')
        /\ root' # 0 => data'[root'] = "dir"
        /\ Rest' = Rest /\ RestInodes' = RestInodes
    BY <1>1, <2>1, <2>4, <2>6, OwnFileStep DEF op, hist
  <2>8. Held' = {} /\ HeldInode' = {}
    BY <1>1 DEF Held, HeldInode
  <2>9. Account'
    BY <2>1, <2>3, <2>7, <2>8 DEF Account, hist
  <2>10. Position'
    BY <1>1, <2>1, <2>2, <2>3, <2>5 DEF Position, Busy, op
  <2>11. saved'[name'] = Unknown
    BY <1>1, <2>1 DEF Core, op, hist
  <2> QED
    BY <2>7, <2>9, <2>10, <2>11 DEF Core, DirBlock
<1> QED
  BY <1>2, <1>3, <1>4 DEF FSInv, hist

LEMMA UnlinkEntryKeeps ==
  ASSUME FSInv, UnlinkEntry
  PROVE  FSInv'
<1> USE DEF UnlinkEntry
<1>1. /\ FSTypeOK /\ Phases /\ pc = "unentry" /\ pc \in Busy
      /\ pc' = (IF kind = "delete" THEN "sync" ELSE "create") /\ pc' \in Busy
  BY DEF FSInv, Busy
<1>2. FSTypeOK'
  <2>1. dir \in [Names -> Inodes \union {0}] /\ 0 \in Inodes \union {0}
    BY <1>1 DEF FSTypeOK
  <2>2. dir' \in [Names -> Inodes \union {0}]
    BY <2>1
  <2>3. pc' \in Steps
    BY <1>1 DEF Steps
  <2> QED
    BY <1>1, <2>2, <2>3, Zenon DEF FSTypeOK, op, hist, ram
<1>3. Phases'
  BY <1>1 DEF Phases, Busy, op, hist, ram
<1>4. ASSUME trusted PROVE Core'
  <2>1. Core /\ Position /\ Account /\ name \in Names
    BY <1>1, <1>4 DEF FSInv, Core, FSTypeOK
  <2>2. ino # 0 /\ Look[name] = ino /\ blocks = <<>> /\ written = 0
    BY <1>1, <2>1 DEF Position, Busy
  <2>3. Held = {} /\ HeldInode = {}
    BY <1>1 DEF Held, HeldInode
  <2>4. /\ Look'[name] = 0 /\ \A m \in Names \ {name} : Look'[m] = Look[m]
    BY <1>1, <2>1 DEF Look, fs_lookup, FSTypeOK
  <2>5. Agree(Look, inode, Look', inode', name)
    BY <2>4 DEF Agree
  <2>6. Own(root', Look', inode', name)
    BY <2>4 DEF Own
  <2>7. /\ Apart(root', Look', inode')
        /\ Safe(root', Look', inode', data', dbm', saved')
        /\ root' # 0 => data'[root'] = "dir"
        /\ Rest' = Rest /\ RestInodes' = RestInodes
    BY <1>1, <2>1, <2>5, <2>6, OwnFileStep DEF op, hist
  <2>8. Held' = {} /\ HeldInode' = {}
    BY <1>1, <2>2, ElemsEmpty DEF Held, HeldInode, op
  <2>9. Account'
    BY <2>1, <2>3, <2>7, <2>8 DEF Account, hist, ram
  <2>10. Position'
    BY <1>1, <2>2, <2>4, ElemsEmpty DEF Position, Busy, op
  <2>11. saved'[name'] = Unknown
    BY <1>1, <2>1 DEF Core, op, hist
  <2> QED
    BY <1>1, <2>7, <2>9, <2>10, <2>11 DEF Core, DirBlock
<1> QED
  BY <1>2, <1>3, <1>4 DEF FSInv, hist

-----------------------------------------------------------------------------
(* Operations that fail *)

LEMMA DropTypes ==
  ASSUME FSTypeOK, Drop
  PROVE  /\ kind' \in {"boot", "save", "rewrite", "delete", "format"} /\ name' \in Names
         /\ want' \in Sizes \union {0} /\ ino' \in Inodes \union {0}
         /\ blocks' \in Seq(Clusters) /\ written' \in 0..want'
BY DEF FSTypeOK, Drop

\* The operation ends; its file is as far as it came, and the bitmaps cover it.
LEMMA OperationEnds ==
  ASSUME FSTypeOK, Core, pc \in Busy, pc' = "idle",
         UNCHANGED <<root, dir, inode, data, cbm, ibm, saved>>,
         dbm' = dbm \/ dbm' = cbm,
         Look[name] # 0 => Look[name] \in ibm /\ Elems(inode[Look[name]]) \subseteq cbm
  PROVE  Core' /\ BitmapsCover'
<1>1. Look' = Look
  BY DEF Look, fs_lookup
<1>2. name \in Names /\ Account
  BY DEF FSTypeOK, Core
<1>3. Agree(Look, inode, Look, inode, name) /\ Own(root, Look, inode, name)
  BY <1>2 DEF Core, Apart, Agree
<1>4. 0 \notin dbm /\ saved[name] = Unknown /\ Rest \subseteq cbm
  BY <1>2, NotZero DEF FSTypeOK, Core, Account
<1>5. Safe(root, Look, inode, data, dbm', saved)
  BY <1>2, <1>3, <1>4, SafeKept DEF Core, Rest
<1>6. root # 0 => data[root] = "dir"
  BY DEF Core, DirBlock
<1>7. Core'
  BY <1>1, <1>5, <1>6 DEF Core, DirBlock, Busy
<1>8. /\ Refs' = Rest \union Mine(Look, inode, name)
      /\ Linked' = RestInodes \union ({Look[name]} \ {0})
  <2>1. Refs' = AllRefs(root, Look, inode) /\ Linked' = AllInodes(Look)
    BY <1>1, RefsAreNext
  <2> QED
    BY <1>2, <2>1, RefsSplit
<1>9. RestInodes \subseteq ibm
  BY <1>2 DEF Account
<1> QED
  BY <1>4, <1>7, <1>8, <1>9 DEF BitmapsCover, Mine

LEMMA FailKeeps ==
  ASSUME FSInv, Fail, pc \in {"create", "dirblock", "entry"}
  PROVE  FSInv'
<1> USE DEF Fail
<1>1. FSTypeOK /\ Phases /\ pc \in Busy /\ pc' = "idle"
  BY DEF FSInv, Busy
<1>2. FSTypeOK'
  <2>1. pc' \in Steps /\ failed' \in BOOLEAN
    BY DEF Steps
  <2> QED
    BY <1>1, <2>1, DropTypes, Zenon DEF FSTypeOK, disk, ram
<1>3. ASSUME trusted PROVE Core' /\ BitmapsCover'
  <2>1. Core /\ Look[name] = 0
    BY <1>1, <1>3 DEF FSInv, Core, Position
  <2> QED
    BY <1>1, <2>1, OperationEnds DEF disk, ram
<1>4. Phases'
  BY <1>1, <1>3 DEF Phases, Busy, disk, ram
<1> QED
  BY <1>2, <1>3, <1>4 DEF FSInv

-----------------------------------------------------------------------------
(* fs_create *)

LEMMA CreateInodeKeeps ==
  ASSUME FSInv, CreateInode
  PROVE  FSInv'
<1>1. CASE Fail
  BY <1>1, FailKeeps DEF CreateInode
<1>2. CASE /\ FreeInodes # {} /\ ino' = NewInode /\ ibm' = ibm \union {NewInode}
           /\ inode' = [inode EXCEPT ![NewInode] = <<>>]
           /\ pc' = (IF root = 0 THEN "dirblock" ELSE "entry")
           /\ UNCHANGED <<sbs, dbm, root, dir, data, mounted, cbm, kind, name,
                          want, blocks, written, hist>>
  <2>1. FSTypeOK /\ Phases /\ pc = "create" /\ pc \in Busy /\ pc' \in Busy
    BY <1>2 DEF FSInv, Busy, CreateInode
  <2>2. NewInode \in Inodes /\ NewInode \notin ibm /\ NewInode # 0
    BY <1>2, NewInodeIs, NotZero
  <2>3. FSTypeOK'
    <3>1. inode \in [Inodes -> Seq(Clusters)] /\ <<>> \in Seq(Clusters)
      BY <2>1 DEF FSTypeOK
    <3>2. inode' \in [Inodes -> Seq(Clusters)]
      BY <1>2, <3>1
    <3>3. pc' \in Steps /\ ibm' \subseteq Inodes /\ ino' \in Inodes \union {0}
      BY <1>2, <2>1, <2>2 DEF Steps, FSTypeOK
    <3> QED
      BY <1>2, <2>1, <3>2, <3>3, Zenon DEF FSTypeOK, hist
  <2>4. Phases'
    BY <1>2, <2>1 DEF Phases, Busy, hist
  <2>5. ASSUME trusted PROVE Core'
    <3>1. Core /\ Position /\ Account /\ name \in Names
      BY <2>1, <2>5 DEF FSInv, Core, FSTypeOK
    <3>2. Look[name] = 0 /\ blocks = <<>> /\ written = 0 /\ Held = {} /\ HeldInode = {}
      BY <2>1, <3>1 DEF Position, Held, HeldInode, Busy
    <3>3. Look' = Look
      BY <1>2 DEF Look, fs_lookup
    <3>4. inode'[NewInode] = <<>> /\ \A i \in RestInodes : inode'[i] = inode[i]
      <4>1. inode \in [Inodes -> Seq(Clusters)] /\ NewInode \notin RestInodes
        BY <2>1, <2>2, <3>1 DEF FSTypeOK, Account
      <4> QED
        BY <1>2, <2>2, <4>1
    <3>5. Agree(Look, inode, Look', inode', name)
      BY <3>3, <3>4 DEF Agree, RestInodes
    <3>6. Own(root', Look', inode', name)
      BY <3>2, <3>3 DEF Own
    <3>7. /\ Apart(root', Look', inode')
          /\ Safe(root', Look', inode', data', dbm', saved')
          /\ root' # 0 => data'[root'] = "dir"
          /\ Rest' = Rest /\ RestInodes' = RestInodes
      BY <1>2, <2>1, <3>1, <3>5, <3>6, OwnFileStep DEF hist
    <3>8. Held' = {} /\ HeldInode' = {NewInode}
      BY <1>2 DEF Held, HeldInode
    <3>9. Account'
      BY <1>2, <2>2, <3>1, <3>2, <3>7, <3>8 DEF Account, hist
    <3>10. Position'
      BY <1>2, <2>2, <3>2, <3>3, <3>4 DEF Position, Busy
    <3>11. saved'[name'] = Unknown
      BY <1>2, <2>1, <3>1 DEF Core, hist
    <3> QED
      BY <2>1, <3>7, <3>9, <3>10, <3>11 DEF Core, DirBlock
  <2> QED
    BY <1>2, <2>3, <2>4, <2>5 DEF FSInv, hist
<1> QED
  BY <1>1, <1>2 DEF CreateInode

LEMMA RootBlockKeeps ==
  ASSUME FSInv, RootBlock
  PROVE  FSInv'
<1>1. CASE Fail
  BY <1>1, FailKeeps DEF RootBlock
<1>2. CASE /\ FreeClusters # {} /\ cbm' = cbm \union {NewCluster}
           /\ data' = [data EXCEPT ![NewCluster] = "dir"]
           /\ dir' = [n \in Names |-> 0] /\ root' = NewCluster /\ pc' = "entry"
           /\ UNCHANGED <<sbs, dbm, inode, mounted, ibm, op, hist>>
  <2>1. FSTypeOK /\ Phases /\ pc = "dirblock" /\ pc \in Busy /\ pc' \in Busy
    BY <1>2 DEF FSInv, Busy, RootBlock
  <2>2. NewCluster \in Clusters /\ NewCluster \notin cbm /\ NewCluster # 0
    BY <1>2, NewClusterIs, NotZero
  <2>3. FSTypeOK'
    <3>1. data \in [Clusters -> Names \union {"dir", Nobody}]
      BY <2>1 DEF FSTypeOK
    <3>2. data' \in [Clusters -> Names \union {"dir", Nobody}]
      BY <1>2, <3>1
    <3>3. dir' \in [Names -> Inodes \union {0}]
      BY <1>2
    <3>4. pc' \in Steps /\ cbm' \subseteq Clusters /\ root' \in Clusters \union {0}
      BY <1>2, <2>1, <2>2 DEF Steps, FSTypeOK
    <3> QED
      BY <1>2, <2>1, <3>2, <3>3, <3>4, Zenon DEF FSTypeOK, op, hist
  <2>4. Phases'
    BY <1>2, <2>1 DEF Phases, Busy, op, hist
  <2>5. ASSUME trusted PROVE Core'
    <3>1. Core /\ Position /\ Account /\ name \in Names
      BY <2>1, <2>5 DEF FSInv, Core, FSTypeOK
    <3>2. /\ root = 0 /\ ino # 0 /\ inode[ino] = <<>> /\ blocks = <<>> /\ written = 0
          /\ Held = {} /\ HeldInode = {ino}
      BY <2>1, <3>1 DEF Position, Held, HeldInode, Busy
    <3>3. \A n \in Names : Look[n] = 0
      BY <2>1, <3>2, LookIs
    <3>4. \A n \in Names : Look'[n] = 0
      BY <1>2 DEF Look, fs_lookup
    <3>5. data'[root'] = "dir"
      BY <1>2, <2>1, <2>2 DEF FSTypeOK
    <3>6. Apart(root', Look', inode')
      BY <3>4 DEF Apart, Own
    <3>7. Safe(root', Look', inode', data', dbm', saved')
      <4>1. \A n \in Names : saved[n] \in {Absent, Unknown}
        BY <3>1, <3>3 DEF Core, Safe
      <4> QED
        BY <1>2, <3>4, <4>1 DEF Safe, hist
    <3>8. Rest = {} /\ RestInodes = {}
      BY <3>2, <3>3 DEF Rest, RestInodes, Others, OtherInodes
    <3>9. Rest' = {NewCluster} /\ RestInodes' = {}
      BY <1>2, <2>2, <3>4 DEF Rest, RestInodes, Others, OtherInodes
    <3>10. Held' = {} /\ HeldInode' = {ino}
      BY <1>2 DEF Held, HeldInode, op
    <3>11. Account'
      BY <1>2, <3>1, <3>2, <3>8, <3>9, <3>10 DEF Account, hist
    <3>12. Position'
      BY <1>2, <2>1, <2>2, <3>1, <3>2, <3>4 DEF Position, Busy, op
    <3>13. saved'[name'] = Unknown
      BY <1>2, <2>1, <3>1 DEF Core, op, hist
    <3> QED
      BY <2>1, <3>5, <3>6, <3>7, <3>11, <3>12, <3>13 DEF Core, DirBlock
  <2> QED
    BY <1>2, <2>3, <2>4, <2>5 DEF FSInv, hist
<1> QED
  BY <1>1, <1>2 DEF RootBlock

LEMMA AddEntryKeeps ==
  ASSUME FSInv, AddEntry
  PROVE  FSInv'
<1>0. FSTypeOK /\ Phases /\ pc = "entry" /\ pc \in Busy /\ ino \in Inodes \union {0}
  BY DEF FSInv, Busy, AddEntry, FSTypeOK
<1>1. CASE Fail
  BY <1>0, <1>1, FailKeeps
<1>2. CASE /\ data[root] = "dir" /\ dir' = [dir EXCEPT ![name] = ino] /\ pc' = "write"
           /\ UNCHANGED <<sbs, dbm, root, inode, data, ram, op, hist>>
  <2>1. pc' \in Busy
    BY <1>2 DEF Busy
  <2>2. FSTypeOK'
    <3>1. dir \in [Names -> Inodes \union {0}]
      BY <1>0 DEF FSTypeOK
    <3>2. dir' \in [Names -> Inodes \union {0}]
      BY <1>0, <1>2, <3>1
    <3>3. pc' \in Steps
      BY <1>2 DEF Steps
    <3> QED
      BY <1>0, <1>2, <3>2, <3>3, Zenon DEF FSTypeOK, op, hist, ram
  <2>3. Phases'
    BY <1>0, <1>2 DEF Phases, Busy, op, hist, ram
  <2>4. ASSUME trusted PROVE Core'
    <3>1. Core /\ Position /\ Account /\ name \in Names
      BY <1>0, <2>4 DEF FSInv, Core, FSTypeOK
    <3>2. /\ root # 0 /\ ino # 0 /\ inode[ino] = <<>> /\ blocks = <<>> /\ written = 0
          /\ Held = {} /\ HeldInode = {ino}
      BY <1>0, <3>1 DEF Position, Held, HeldInode, Busy
    <3>3. Look'[name] = ino /\ \A m \in Names \ {name} : Look'[m] = Look[m]
      BY <1>0, <1>2, <3>1, <3>2 DEF Look, fs_lookup, FSTypeOK
    <3>4. Agree(Look, inode, Look', inode', name)
      BY <1>2, <3>3 DEF Agree
    <3>5. /\ OtherInodes(Look', name) = RestInodes /\ ino \notin RestInodes
      BY <3>1, <3>2, <3>4, OthersKept DEF RestInodes, Account
    <3>6. Own(root', Look', inode', name)
      BY <1>2, <3>2, <3>3, <3>5, ElemsEmpty DEF Own
    <3>7. /\ Apart(root', Look', inode')
          /\ Safe(root', Look', inode', data', dbm', saved')
          /\ root' # 0 => data'[root'] = "dir"
          /\ Rest' = Rest /\ RestInodes' = RestInodes
      BY <1>0, <1>2, <3>1, <3>4, <3>6, OwnFileStep DEF hist, op
    <3>8. Held' = {} /\ HeldInode' = {ino}
      BY <1>2, <3>2, ElemsEmpty DEF Held, HeldInode, op
    <3>9. Account'
      BY <1>2, <3>1, <3>2, <3>7, <3>8 DEF Account, hist, ram
    <3>10. Len(<<>>) = 0 /\ want \in Nat
      BY <1>0, NoosFSConstants DEF FSTypeOK
    <3>11. Position'
      BY <1>2, <3>2, <3>3, <3>10, ElemsEmpty DEF Position, Busy, op
    <3>12. saved'[name'] = Unknown
      BY <1>0, <1>2, <3>1 DEF Core, op, hist
    <3> QED
      BY <2>1, <3>7, <3>9, <3>11, <3>12 DEF Core, DirBlock
  <2> QED
    BY <1>2, <2>2, <2>3, <2>4 DEF FSInv, hist
<1>3. CASE /\ data[root] \in Names /\ data' = [data EXCEPT ![root] = "dir"]
           /\ dir' = [n \in Names |-> IF n = name THEN ino ELSE 0] /\ pc' = "write"
           /\ UNCHANGED <<sbs, dbm, root, inode, ram, op, hist>>
  <2>1. ~trusted
    <3> SUFFICES ASSUME trusted PROVE FALSE
      OBVIOUS
    <3>1. Core
      BY DEF FSInv
    <3>2. root # 0 /\ data[root] = "dir"
      BY <1>0, <3>1 DEF Core, Position, DirBlock
    <3> QED
      BY <1>3, <3>2, NoosFSConstants DEF NoosFSConstants
  <2>2. FSTypeOK'
    <3>1. data \in [Clusters -> Names \union {"dir", Nobody}]
      BY <1>0 DEF FSTypeOK
    <3>2. data' \in [Clusters -> Names \union {"dir", Nobody}]
      BY <1>3, <3>1
    <3>3. dir' \in [Names -> Inodes \union {0}]
      BY <1>0, <1>3
    <3>4. pc' \in Steps
      BY <1>3 DEF Steps
    <3> QED
      BY <1>0, <1>3, <3>2, <3>3, <3>4, Zenon DEF FSTypeOK, op, hist, ram
  <2>3. Phases'
    BY <1>0, <1>3 DEF Phases, Busy, op, hist, ram
  <2> QED
    BY <1>3, <2>1, <2>2, <2>3 DEF FSInv, hist
<1> QED
  BY <1>1, <1>2, <1>3 DEF AddEntry

-----------------------------------------------------------------------------
(* fs_write_file *)

LEMMA OverwriteKeeps ==
  ASSUME FSInv, pc = "write", written < want, written < Len(blocks),
         data' = [data EXCEPT ![blocks[written + 1]] = name],
         written' = written + 1,
         UNCHANGED <<pc, sbs, dbm, root, dir, inode, ram, kind, name, want,
                     ino, blocks, hist>>
  PROVE  FSInv'
<1> DEFINE c == blocks[written + 1]
<1>1. FSTypeOK /\ Phases /\ pc \in Busy /\ pc' \in Busy
  BY DEF FSInv, Busy
<1>2. /\ blocks \in Seq(Clusters) /\ Len(blocks) \in Nat /\ written \in Nat /\ want \in Nat
      /\ data \in [Clusters -> Names \union {"dir", Nobody}] /\ name \in Names
  <2>1. data \in [Clusters -> Names \union {"dir", Nobody}] /\ name \in Names
    BY <1>1 DEF FSTypeOK
  <2> QED
    BY <1>1, <2>1, LocalTypes
<1>3. c \in Elems(blocks) /\ c \in Clusters
  <2>1. written + 1 \in 1..Len(blocks)
    BY <1>2
  <2> QED
    BY <1>2, <2>1, ElemsOf
<1> HIDE DEF c
<1>4. data' = [data EXCEPT ![c] = name]
  BY DEF c
<1>5. FSTypeOK'
  <2>1. data' \in [Clusters -> Names \union {"dir", Nobody}]
    BY <1>2, <1>4
  <2>2. written' \in 0..want'
    BY <1>2
  <2> QED
    BY <1>1, <2>1, <2>2, Zenon DEF FSTypeOK, hist, ram
<1>6. Phases'
  BY <1>1 DEF Phases, Busy, hist, ram
<1>7. ASSUME trusted PROVE Core'
  <2>1. Core /\ Position /\ Account
    BY <1>1, <1>7 DEF FSInv, Core
  <2>2. Held = Elems(blocks) /\ HeldInode = {ino} /\ root # 0 /\ Look[name] = ino
    BY <2>1 DEF Held, HeldInode, Position
  <2>3. c \notin Rest /\ root \in Rest
    BY <1>3, <2>1, <2>2, InOthers DEF Account, Rest
  <2>4. /\ \A d \in Rest : data'[d] = data[d]
    <3>1. Rest \subseteq Clusters
      BY <1>1, <2>1 DEF Account, FSTypeOK
    <3> QED
      BY <1>2, <1>4, <2>3, <3>1
  <2>5. data'[root] = data[root]
    BY <2>3, <2>4
  <2>6. Look' = Look
    BY <2>5 DEF Look, fs_lookup
  <2>7. Agree(Look, inode, Look', inode', name)
    BY <2>6 DEF Agree
  <2>8. Own(root', Look', inode', name)
    BY <1>2, <2>1, <2>6 DEF Core, Apart
  <2>9. /\ Apart(root', Look', inode')
        /\ Safe(root', Look', inode', data', dbm', saved')
        /\ root' # 0 => data'[root'] = "dir"
        /\ Rest' = Rest /\ RestInodes' = RestInodes
    BY <1>1, <2>1, <2>4, <2>7, <2>8, OwnFileStep DEF hist
  <2>10. Held' = Held /\ HeldInode' = HeldInode
    BY DEF Held, HeldInode
  <2>11. Account'
    BY <2>1, <2>9, <2>10 DEF Account, hist, ram
  <2>12. \A i \in 1..written' : data'[blocks'[i]] = name'
    <3> TAKE i \in 1..written'
    <3>1. i \in 1..Len(blocks)
      BY <1>2
    <3>2. blocks[i] \in Clusters
      BY <1>2, <3>1, ElemsOf
    <3>3. CASE blocks[i] = c
      BY <1>2, <1>3, <1>4, <3>3
    <3>4. CASE blocks[i] # c
      <4>1. i # written + 1
        BY <3>4 DEF c
      <4>2. i \in 1..written
        BY <1>2, <4>1
      <4>3. data[blocks[i]] = name
        BY <2>1, <4>2 DEF Position
      <4> QED
        BY <1>2, <1>4, <3>2, <3>4, <4>3
    <3> QED
      BY <3>3, <3>4
  <2>13. written' <= Len(blocks')
    BY <1>2
  <2>14. Position'
    BY <2>1, <2>6, <2>12, <2>13 DEF Position, Busy
  <2>15. saved'[name'] = Unknown
    BY <1>1, <2>1 DEF Core, hist
  <2> QED
    BY <1>1, <2>9, <2>11, <2>14, <2>15 DEF Core, DirBlock
<1> QED
  BY <1>5, <1>6, <1>7 DEF FSInv, hist

LEMMA ExtendKeeps ==
  ASSUME FSInv, pc = "write", written < want, written = Len(blocks), FreeClusters # {},
         cbm' = cbm \union {NewCluster},
         blocks' = Append(blocks, NewCluster),
         data' = [data EXCEPT ![NewCluster] = name],
         written' = written + 1,
         UNCHANGED <<pc, sbs, dbm, root, dir, inode, mounted, ibm, kind, name,
                     want, ino, hist>>
  PROVE  FSInv'
<1> DEFINE c == NewCluster
<1>1. FSTypeOK /\ Phases /\ pc \in Busy /\ pc' \in Busy
  BY DEF FSInv, Busy
<1>2. /\ blocks \in Seq(Clusters) /\ Len(blocks) \in Nat /\ written \in Nat /\ want \in Nat
      /\ data \in [Clusters -> Names \union {"dir", Nobody}] /\ name \in Names
      /\ cbm \subseteq Clusters
  <2>1. /\ data \in [Clusters -> Names \union {"dir", Nobody}] /\ name \in Names
        /\ cbm \subseteq Clusters
    BY <1>1 DEF FSTypeOK
  <2> QED
    BY <1>1, <2>1, LocalTypes
<1>3. c \in Clusters /\ c \notin cbm
  BY NewClusterIs
<1> HIDE DEF c
<1>4. /\ data' = [data EXCEPT ![c] = name] /\ cbm' = cbm \union {c} /\ blocks' = Append(blocks, c)
  BY DEF c
<1>5. /\ blocks' \in Seq(Clusters) /\ Len(blocks') = Len(blocks) + 1
      /\ blocks'[written + 1] = c /\ \A i \in 1..written : blocks'[i] = blocks[i]
  BY <1>2, <1>3, <1>4
<1>6. FSTypeOK'
  <2>1. data' \in [Clusters -> Names \union {"dir", Nobody}]
    BY <1>2, <1>4
  <2>2. written' \in 0..want'
    BY <1>2
  <2>3. cbm' \subseteq Clusters
    BY <1>2, <1>3, <1>4
  <2> QED
    BY <1>1, <1>5, <2>1, <2>2, <2>3, Zenon DEF FSTypeOK, hist
<1>7. Phases'
  BY <1>1 DEF Phases, Busy, hist
<1>8. ASSUME trusted PROVE Core'
  <2>1. Core /\ Position /\ Account
    BY <1>1, <1>8 DEF FSInv, Core
  <2>2. /\ Held = Elems(blocks) /\ HeldInode = {ino} /\ root # 0 /\ Look[name] = ino
        /\ Distinct(blocks) /\ Elems(inode[ino]) \subseteq Elems(blocks)
    BY <2>1 DEF Held, HeldInode, Position
  <2>3. c \notin Rest /\ root \in Rest /\ c \notin Elems(blocks) /\ Rest \subseteq cbm
    BY <1>3, <2>1, <2>2, InOthers DEF Account, Rest
  <2>4. \A d \in Rest : data'[d] = data[d]
    BY <1>2, <1>4, <2>3
  <2>5. data'[root] = data[root]
    BY <2>3, <2>4
  <2>6. Look' = Look
    BY <2>5 DEF Look, fs_lookup
  <2>7. Agree(Look, inode, Look', inode', name)
    BY <2>6 DEF Agree
  <2>8. Own(root', Look', inode', name)
    BY <1>2, <2>1, <2>6 DEF Core, Apart
  <2>9. /\ Apart(root', Look', inode')
        /\ Safe(root', Look', inode', data', dbm', saved')
        /\ root' # 0 => data'[root'] = "dir"
        /\ Rest' = Rest /\ RestInodes' = RestInodes
    BY <1>1, <2>1, <2>4, <2>7, <2>8, OwnFileStep DEF hist
  <2>10. Elems(blocks') = Elems(blocks) \union {c} /\ Distinct(blocks')
    BY <1>2, <1>3, <1>4, <2>2, <2>3, AppendElems
  <2>11. Held' = Elems(blocks) \union {c} /\ HeldInode' = {ino}
    BY <2>10 DEF Held, HeldInode
  <2>12. Account'
    BY <1>4, <2>1, <2>2, <2>3, <2>9, <2>11 DEF Account, hist
  <2>13. \A i \in 1..written' : data'[blocks'[i]] = name'
    <3> TAKE i \in 1..written'
    <3>1. CASE i = written + 1
      BY <1>2, <1>3, <1>4, <1>5, <3>1
    <3>2. CASE i # written + 1
      <4>1. i \in 1..written /\ i \in 1..Len(blocks)
        BY <1>2, <3>2
      <4>2. blocks'[i] = blocks[i] /\ data[blocks[i]] = name
        BY <1>5, <2>1, <4>1 DEF Position
      <4>3. blocks[i] \in Elems(blocks) /\ blocks[i] \in Clusters
        BY <1>2, <4>1, ElemsOf
      <4>4. blocks[i] # c
        BY <2>3, <4>3
      <4> QED
        BY <1>2, <1>4, <4>2, <4>3, <4>4
    <3> QED
      BY <3>1, <3>2
  <2>14. written' <= Len(blocks') /\ Len(blocks') <= want'
    BY <1>2, <1>5
  <2>15. Elems(inode'[ino']) \subseteq Elems(blocks')
    BY <2>2, <2>10
  <2>16. Position'
    BY <2>1, <2>2, <2>6, <2>10, <2>13, <2>14, <2>15 DEF Position, Busy
  <2>17. saved'[name'] = Unknown
    BY <1>1, <2>1 DEF Core, hist
  <2> QED
    BY <1>1, <2>9, <2>12, <2>16, <2>17 DEF Core, DirBlock
<1> QED
  BY <1>6, <1>7, <1>8 DEF FSInv, hist

LEMMA FailWriteKeeps ==
  ASSUME FSInv, pc = "write", written < want, written = Len(blocks), FailWrite
  PROVE  FSInv'
<1> USE DEF FailWrite
<1>1. FSTypeOK /\ Phases /\ pc \in Busy /\ pc' = "idle" /\ (dbm' = dbm \/ dbm' = cbm)
  BY DEF FSInv, Busy
<1>2. FSTypeOK'
  <2>1. pc' \in Steps /\ failed' \in BOOLEAN
    BY DEF Steps
  <2>2. dbm' \subseteq Clusters
    BY <1>1 DEF FSTypeOK
  <2> QED
    BY <1>1, <2>1, <2>2, DropTypes, Zenon DEF FSTypeOK, ram
<1>3. ASSUME trusted PROVE Core' /\ BitmapsCover'
  <2>1. Core /\ Position /\ Account
    BY <1>1, <1>3 DEF FSInv, Core
  <2>2. Look[name] = ino /\ Elems(inode[ino]) \subseteq Elems(blocks)
    BY <2>1 DEF Position
  <2>3. Elems(blocks) \subseteq cbm /\ ino \in ibm
    BY <2>1 DEF Account, Held, HeldInode
  <2> QED
    BY <1>1, <2>1, <2>2, <2>3, OperationEnds DEF ram
<1>4. Phases'
  BY <1>1, <1>3 DEF Phases, Busy, ram
<1> QED
  BY <1>2, <1>3, <1>4 DEF FSInv

LEMMA WriteBlockKeeps ==
  ASSUME FSInv, WriteBlock
  PROVE  FSInv'
BY OverwriteKeeps, ExtendKeeps, FailWriteKeeps DEF WriteBlock

LEMMA WriteInodeKeeps ==
  ASSUME FSInv, WriteInode
  PROVE  FSInv'
<1> USE DEF WriteInode
<1>1. FSTypeOK /\ Phases /\ pc = "write" /\ pc' = "sync" /\ pc \in Busy /\ pc' \in Busy
  BY DEF FSInv, Busy
<1>2. FSTypeOK'
  <2>1. inode \in [Inodes -> Seq(Clusters)] /\ blocks \in Seq(Clusters)
    BY <1>1 DEF FSTypeOK
  <2>2. inode' \in [Inodes -> Seq(Clusters)]
    BY <2>1
  <2>3. pc' \in Steps
    BY <1>1 DEF Steps
  <2> QED
    BY <1>1, <2>2, <2>3, Zenon DEF FSTypeOK, op, hist, ram
<1>3. Phases'
  BY <1>1 DEF Phases, Busy, op, hist, ram
<1>4. ASSUME trusted PROVE Core'
  <2>1. Core /\ Position /\ Account /\ name \in Names
    BY <1>1, <1>4 DEF FSInv, Core, FSTypeOK
  <2>2. /\ Look[name] = ino /\ ino # 0 /\ ino \in Inodes /\ Distinct(blocks)
        /\ Held = Elems(blocks) /\ HeldInode = {ino}
    BY <1>1, <2>1 DEF Position, Held, HeldInode, FSTypeOK
  <2>3. Look' = Look
    BY DEF Look, fs_lookup
  <2>4. inode'[ino] = blocks /\ \A i \in RestInodes : inode'[i] = inode[i]
    <3>1. inode \in [Inodes -> Seq(Clusters)] /\ ino \notin RestInodes
      BY <1>1, <2>1, <2>2 DEF FSTypeOK, Account
    <3> QED
      BY <2>2, <3>1
  <2>5. Agree(Look, inode, Look', inode', name)
    BY <2>3, <2>4 DEF Agree, RestInodes
  <2>6. Others(root, Look', inode', name) = Rest /\ OtherInodes(Look', name) = RestInodes
    BY <2>5, OthersKept DEF Rest, RestInodes
  <2>7. Own(root', Look', inode', name)
    BY <2>1, <2>2, <2>3, <2>4, <2>6 DEF Own, Account
  <2>8. /\ Apart(root', Look', inode')
        /\ Safe(root', Look', inode', data', dbm', saved')
        /\ root' # 0 => data'[root'] = "dir"
        /\ Rest' = Rest /\ RestInodes' = RestInodes
    BY <1>1, <2>1, <2>5, <2>7, OwnFileStep DEF op, hist
  <2>9. kind # "delete"
    BY <1>1 DEF Phases
  <2>10. Held' = Elems(blocks) /\ HeldInode' = {ino}
    BY <1>1, <2>9 DEF Held, HeldInode, op
  <2>11. Account'
    BY <2>1, <2>2, <2>8, <2>10 DEF Account, hist, ram
  <2>12. Len(blocks) = want
    <3>1. Len(blocks) <= want /\ written <= Len(blocks)
      BY <1>1, <2>1 DEF Position
    <3> QED
      BY <1>1, <3>1, LocalTypes
  <2>13. Position'
    BY <1>1, <2>1, <2>2, <2>3, <2>4, <2>9, <2>12 DEF Position, Busy, op
  <2>14. saved'[name'] = Unknown
    BY <1>1, <2>1 DEF Core, op, hist
  <2> QED
    BY <1>1, <2>8, <2>11, <2>13, <2>14 DEF Core, DirBlock
<1> QED
  BY <1>2, <1>3, <1>4 DEF FSInv, hist

LEMMA SyncKeeps ==
  ASSUME FSInv, Sync
  PROVE  FSInv'
<1> USE DEF Sync
<1>1. FSTypeOK /\ Phases /\ pc = "sync" /\ pc' = "idle" /\ pc \in Busy /\ name \in Names
  BY DEF FSInv, Busy, FSTypeOK
<1> DEFINE s == IF kind = "delete" THEN Absent ELSE <<want>>
           S == {Absent, Unknown} \union {<<w>> : w \in Sizes}
<1>2. saved \in [Names -> S] /\ s \in S
  BY <1>1 DEF Phases, FSTypeOK
<1>3. saved' = [saved EXCEPT ![name] = s]
  OBVIOUS
<1>4. FSTypeOK'
  <2>1. pc' \in Steps
    BY DEF Steps
  <2>2. saved' \in [Names -> S]
    <3> HIDE DEF s, S
    <3> QED
      BY <1>2, <1>3
  <2>3. dbm' \subseteq Clusters
    BY <1>1 DEF FSTypeOK
  <2> QED
    BY <1>1, <2>1, <2>2, <2>3, DropTypes, Zenon DEF FSTypeOK, ram
<1>5. saved'[name] = s /\ \A m \in Names \ {name} : saved'[m] = saved[m]
  <2> HIDE DEF s, S
  <2> QED
    BY <1>1, <1>2, <1>3
<1>6. ASSUME trusted PROVE Core' /\ BitmapsCover' /\ (crashes = 0 /\ ~failed => cbm = Refs' /\ ibm = Linked')
  <2>1. Core /\ Position /\ Account
    BY <1>1, <1>6 DEF FSInv, Core
  <2>2. Look' = Look
    BY DEF Look, fs_lookup
  <2>3. /\ Held = Elems(blocks) /\ HeldInode = (IF kind = "delete" THEN {} ELSE {ino})
        /\ kind = "delete" => Look[name] = 0 /\ blocks = <<>>
        /\ kind # "delete" => /\ Look[name] = ino /\ ino # 0 /\ inode[ino] = blocks
                              /\ Len(blocks) = want /\ written = want
        /\ \A i \in 1..written : data[blocks[i]] = name
    BY <1>1, <2>1 DEF Position, Held, HeldInode
  <2>4. Mine(Look, inode, name) = Held /\ {Look[name]} \ {0} = HeldInode
    BY <2>3, ElemsEmpty DEF Mine
  <2>5. Refs' = Rest \union Held /\ Linked' = RestInodes \union HeldInode
    <3>1. Refs' = AllRefs(root, Look, inode) /\ Linked' = AllInodes(Look)
      BY <2>2, RefsAreNext
    <3>2. /\ AllRefs(root, Look, inode) = Rest \union Mine(Look, inode, name)
          /\ AllInodes(Look) = RestInodes \union ({Look[name]} \ {0})
      BY <1>1, RefsSplit
    <3> QED
      BY <2>4, <3>1, <3>2
  <2>6. Safe(root, Look, inode, data, cbm, saved)
    <3>1. Agree(Look, inode, Look, inode, name)
      BY DEF Agree
    <3>2. 0 \notin dbm /\ saved[name] = Unknown /\ Rest \subseteq cbm
      BY <1>1, <2>1, NotZero DEF FSTypeOK, Core, Account
    <3> QED
      BY <1>1, <2>1, <3>1, <3>2, SafeKept DEF Core, Rest
  <2>7. /\ s = Absent => Look[name] = 0
        /\ s # Absent => /\ Look[name] # 0 /\ root \in cbm
                         /\ Elems(inode[Look[name]]) \subseteq cbm
                         /\ <<Len(inode[Look[name]])>> = s
                         /\ \A c \in Elems(inode[Look[name]]) : data[c] = name
    <3>1. CASE kind = "delete"
      BY <2>3, <3>1
    <3>2. CASE kind # "delete"
      <4>1. s = <<want>> /\ s # Absent
        BY <3>2, Marks
      <4>2. Look[name] # 0 /\ <<Len(inode[Look[name]])>> = s
        BY <2>3, <3>2, <4>1
      <4>3. Elems(blocks) \subseteq cbm
        BY <2>1, <2>3 DEF Account
      <4>4. root # 0
        BY <1>1, <4>2, LookIs
      <4>5. root \in cbm
        BY <2>1, <4>4, InOthers DEF Account, Rest
      <4>6. \A c \in Elems(blocks) : data[c] = name
        BY <1>1, <2>3, <3>2, LocalTypes, ElemsOf
      <4> QED
        BY <2>3, <3>2, <4>1, <4>2, <4>3, <4>5, <4>6
    <3> QED
      BY <3>1, <3>2
  <2>8. Safe(root', Look', inode', data', dbm', saved')
    <3> HIDE DEF s
    <3>1. Safe(root, Look, inode, data, cbm, saved')
      BY <1>5, <2>6, <2>7 DEF Safe
    <3> QED
      BY <2>2, <3>1
  <2>9. root # 0 => data[root] = "dir"
    BY <1>1, <2>1 DEF Core, DirBlock
  <2>10. Core'
    BY <2>1, <2>2, <2>8, <2>9 DEF Core, DirBlock, Busy
  <2> QED
    BY <2>1, <2>5, <2>10 DEF BitmapsCover, Account, ram
<1>7. Phases'
  BY <1>1, <1>6 DEF Phases, Busy, ram
<1> QED
  BY <1>4, <1>6, <1>7 DEF FSInv

-----------------------------------------------------------------------------
(* The callers *)

LEMMA BeginTypes ==
  ASSUME FSInv, NEW k \in {"save", "rewrite", "delete"}, NEW n \in Names,
         NEW w \in Sizes \union {0}, Begin(k, n, w),
         pc' \in Busy, blocks' \in Seq(Clusters), cbm' \subseteq Clusters
  PROVE  FSTypeOK'
<1> USE DEF Begin
<1>1. FSTypeOK /\ pc' \in Steps
  BY DEF FSInv, Busy, Steps
<1>2. /\ kind' \in {"boot", "save", "rewrite", "delete", "format"} /\ name' \in Names
      /\ want' \in Sizes \union {0} /\ trusted' \in BOOLEAN
  OBVIOUS
<1>3. ino' \in Inodes \union {0}
  BY <1>1, LookIs
<1>4. written' \in 0..want'
  BY NoosFSConstants
<1>5. saved' \in [Names -> {Absent, Unknown} \union {<<v>> : v \in Sizes}]
  <2> DEFINE S == {Absent, Unknown} \union {<<v>> : v \in Sizes}
  <2>1. saved \in [Names -> S] /\ Unknown \in S
    BY <1>1 DEF FSTypeOK
  <2> HIDE DEF S
  <2>2. saved' \in [Names -> S]
    BY <2>1
  <2> QED
    BY <2>2 DEF S
<1> QED
  BY <1>1, <1>2, <1>3, <1>4, <1>5, Zenon DEF FSTypeOK, disk

LEMMA BeginPhases ==
  ASSUME FSInv, NEW k \in {"save", "rewrite", "delete"}, NEW n \in Names,
         NEW w, Begin(k, n, w), IF k = "delete" THEN w = 0 ELSE w \in Sizes,
         pc' \in Busy, k = "delete" => pc' = "unlink"
  PROVE  Phases'
<1>1. crashes' = 0 => trusted'
  BY DEF Begin, FSInv, Phases
<1> QED
  BY <1>1 DEF Begin, FSInv, Phases, Busy, disk

LEMMA BeginCore ==
  ASSUME FSInv, NEW k, NEW n \in Names, NEW w, Begin(k, n, w), trusted'
  PROVE  /\ Look' = Look /\ ino' = Look[n] /\ name' = n /\ written' = 0 /\ want' = w /\ kind' = k
         /\ UNCHANGED <<root, inode, data, ibm, crashes, failed>>
         /\ saved'[name'] = Unknown
         /\ Apart(root', Look', inode')
         /\ Safe(root', Look', inode', data', dbm', saved')
         /\ root # 0 => data[root] = "dir"
         /\ Own(root, Look, inode, n)
         /\ Rest' = Others(root, Look, inode, n) /\ RestInodes' = OtherInodes(Look, n)
         /\ Rest' \intersect Mine(Look, inode, n) = {} /\ RestInodes' \intersect ({Look[n]} \ {0}) = {}
         /\ Rest' \union Mine(Look, inode, n) \subseteq cbm
         /\ RestInodes' \union ({Look[n]} \ {0}) \subseteq ibm
         /\ crashes = 0 /\ ~failed => /\ cbm = Rest' \union Mine(Look, inode, n)
                                      /\ ibm = RestInodes' \union ({Look[n]} \ {0})
<1>1. FSTypeOK /\ Phases /\ Core /\ BitmapsCover /\ pc = "idle"
  BY DEF FSInv, Begin
<1>2. UNCHANGED <<root, dir, inode, data, dbm, ibm, crashes, failed>>
  BY DEF Begin, disk
<1>3. Look' = Look
  BY <1>2 DEF Look, fs_lookup
<1>4. ino' = Look[n] /\ name' = n /\ written' = 0 /\ want' = w /\ kind' = k
  BY DEF Begin, Look
<1>5. saved'[n] = Unknown /\ \A m \in Names \ {n} : saved'[m] = saved[m]
  BY <1>1 DEF Begin, FSTypeOK
<1>6. Safe(root, Look, inode, data, dbm, saved')
  <2>1. Agree(Look, inode, Look, inode, n)
    BY DEF Agree
  <2>2. 0 \notin dbm
    BY <1>1, NotZero DEF FSTypeOK
  <2> QED
    BY <1>1, <1>5, <2>1, <2>2, SafeKept DEF Core
<1>7. Refs = AllRefs(root, Look, inode) /\ Linked = AllInodes(Look)
  BY RefsAre
<1>8. root # 0 => data[root] = "dir"
  <2>1. root # 0 => root \in cbm
    BY <1>1, <1>7 DEF BitmapsCover, AllRefs
  <2> QED
    BY <1>1, <2>1 DEF Core, DirBlock
<1>9. Own(root, Look, inode, n)
  BY <1>1 DEF Core, Apart
<1> DEFINE R == Others(root, Look, inode, n)
           RI == OtherInodes(Look, n)
           M == Mine(Look, inode, n)
           MI == {Look[n]} \ {0}
<1>10. R \intersect M = {} /\ RI \intersect MI = {}
  BY <1>9 DEF Own, Mine
<1>11. AllRefs(root, Look, inode) = R \union M /\ AllInodes(Look) = RI \union MI
  BY AllRefsIs
<1>12. Rest' = R /\ RestInodes' = RI
  BY <1>2, <1>3, <1>4 DEF Rest, RestInodes
<1> HIDE DEF R, RI, M, MI
<1>13. R \union M \subseteq cbm /\ RI \union MI \subseteq ibm
  BY <1>1, <1>7, <1>11 DEF BitmapsCover
<1>14. crashes = 0 /\ ~failed => cbm = R \union M /\ ibm = RI \union MI
  BY <1>1, <1>7, <1>11 DEF Phases
<1>15. Apart(root', Look', inode') /\ Safe(root', Look', inode', data', dbm', saved')
  BY <1>1, <1>2, <1>3, <1>6 DEF Core
<1> QED
  BY <1>2, <1>3, <1>4, <1>5, <1>8, <1>9, <1>10, <1>12, <1>13, <1>14, <1>15 DEF R, RI, M, MI

\* Both uses of fs_unlink.
LEMMA BeginUnlink ==
  ASSUME FSInv, NEW k \in {"save", "delete"}, NEW n \in Names,
         NEW w, Begin(k, n, w), trusted', fs_lookup(n) # 0, pc' = "unlink",
         blocks' = <<>>, cbm' = cbm
  PROVE  Core'
<1>1. Look[n] # 0
  BY DEF Look
<1>2. pc' \in Busy
  BY DEF Busy
<1>3. Held' = Mine(Look, inode, n) /\ HeldInode' = {Look[n]} \ {0}
  BY <1>1, BeginCore DEF Held, HeldInode, Mine
<1>4. Account'
  <2> DEFINE M == Mine(Look, inode, n)
             MI == {Look[n]} \ {0}
  <2>1. /\ Rest' \intersect M = {} /\ RestInodes' \intersect MI = {}
        /\ Rest' \union M \subseteq cbm /\ RestInodes' \union MI \subseteq ibm
        /\ crashes = 0 /\ ~failed => cbm = Rest' \union M /\ ibm = RestInodes' \union MI
        /\ UNCHANGED <<ibm, crashes, failed>>
    BY BeginCore
  <2>2. Held' = M /\ HeldInode' = MI
    BY <1>3
  <2> HIDE DEF M, MI
  <2> QED
    BY <2>1, <2>2 DEF Account
<1>5. Position'
  BY <1>1, BeginCore DEF Position, Busy
<1> QED
  BY <1>2, <1>4, <1>5, BeginCore DEF Core, DirBlock

\* Both uses of fs_create.
LEMMA BeginCreate ==
  ASSUME FSInv, NEW k \in {"save", "rewrite"}, NEW n \in Names,
         NEW w, Begin(k, n, w), trusted', fs_lookup(n) = 0, pc' = "create",
         blocks' = <<>>, cbm' = cbm
  PROVE  Core'
<1>1. Look[n] = 0
  BY DEF Look
<1>2. pc' \in Busy
  BY DEF Busy
<1>3. /\ Held' = {} /\ HeldInode' = {}
      /\ Mine(Look, inode, n) = {} /\ {Look[n]} \ {0} = {}
  BY <1>1 DEF Held, HeldInode, Mine
<1>4. Account'
  <2> DEFINE M == Mine(Look, inode, n)
             MI == {Look[n]} \ {0}
  <2>1. /\ Rest' \intersect M = {} /\ RestInodes' \intersect MI = {}
        /\ Rest' \union M \subseteq cbm /\ RestInodes' \union MI \subseteq ibm
        /\ crashes = 0 /\ ~failed => cbm = Rest' \union M /\ ibm = RestInodes' \union MI
        /\ UNCHANGED <<ibm, crashes, failed>>
    BY BeginCore
  <2>2. Held' = M /\ HeldInode' = MI
    BY <1>3
  <2> HIDE DEF M, MI
  <2> QED
    BY <2>1, <2>2 DEF Account
<1>5. Position'
  BY <1>1, BeginCore DEF Position, Busy
<1> QED
  BY <1>2, <1>4, <1>5, BeginCore DEF Core, DirBlock

LEMMA SaveFileKeeps ==
  ASSUME FSInv, NEW n \in Names, NEW w \in Sizes, SaveFile(n, w)
  PROVE  FSInv'
<1> USE DEF SaveFile
<1>1. pc' \in Busy /\ blocks' \in Seq(Clusters) /\ cbm' \subseteq Clusters
  BY DEF Busy, FSInv, FSTypeOK
<1>2. FSTypeOK'
  BY <1>1, BeginTypes
<1>3. Phases'
  BY <1>1, BeginPhases
<1>4. ASSUME trusted' PROVE Core'
  BY <1>4, BeginUnlink, BeginCreate
<1> QED
  BY <1>2, <1>3, <1>4 DEF FSInv

LEMMA DeleteFileKeeps ==
  ASSUME FSInv, NEW n \in Names, DeleteFile(n)
  PROVE  FSInv'
<1> USE DEF DeleteFile
<1>1. pc' \in Busy /\ blocks' \in Seq(Clusters) /\ cbm' \subseteq Clusters
  BY DEF Busy, FSInv, FSTypeOK
<1>2. FSTypeOK'
  BY <1>1, BeginTypes
<1>3. Phases'
  BY <1>1, BeginPhases
<1>4. ASSUME trusted' PROVE Core'
  BY <1>4, BeginUnlink
<1> QED
  BY <1>2, <1>3, <1>4 DEF FSInv

LEMMA RewriteKeeps ==
  ASSUME FSInv, NEW n \in Names, NEW w \in Sizes, Rewrite(n, w)
  PROVE  FSInv'
<1>1. Begin("rewrite", n, w) /\ FSTypeOK /\ cbm \subseteq Clusters
  BY DEF Rewrite, FSInv, FSTypeOK
<1>2. CASE fs_lookup(n) = 0 /\ pc' = "create" /\ blocks' = <<>> /\ UNCHANGED cbm
  <2>1. pc' \in Busy /\ blocks' \in Seq(Clusters) /\ cbm' \subseteq Clusters
    BY <1>1, <1>2 DEF Busy
  <2>2. FSTypeOK'
    BY <1>1, <2>1, BeginTypes
  <2>3. Phases'
    BY <1>1, <2>1, BeginPhases
  <2>4. ASSUME trusted' PROVE Core'
    BY <1>1, <1>2, <2>4, BeginCreate
  <2> QED
    BY <2>2, <2>3, <2>4 DEF FSInv
<1>3. ASSUME NEW old, NEW v, old = inode[fs_lookup(n)], v = (IF w < Len(old) THEN w ELSE Len(old)),
             fs_lookup(n) # 0, pc' = "write", blocks' = SubSeq(old, 1, v),
             cbm' = cbm \ {old[i] : i \in (w + 1)..Len(old)}
      PROVE  FSInv'
  <2>1. old \in Seq(Clusters) /\ Look[n] # 0 /\ Look[n] \in Inodes /\ old = inode[Look[n]]
    BY <1>1, <1>3, LookIs DEF FSTypeOK
  <2>2. /\ w \in Nat /\ Len(old) \in Nat /\ v \in Nat /\ v <= Len(old) /\ v <= w
        /\ v < w => v = Len(old)
    BY <1>3, <2>1, NoosFSConstants
  <2>3. (w + 1)..Len(old) = (v + 1)..Len(old)
    BY <1>3, <2>2
  <2>4. /\ pc' \in Busy /\ cbm' \subseteq Clusters
    BY <1>1, <1>3 DEF Busy
  <2>5. blocks' \in Seq(Clusters)
    BY <1>3, <2>1, <2>2
  <2>6. FSTypeOK'
    BY <1>1, <2>4, <2>5, BeginTypes
  <2>7. Phases'
    BY <1>1, <2>4, BeginPhases
  <2>8. ASSUME trusted' PROVE Core'
    <3> DEFINE tail == {old[i] : i \in (w + 1)..Len(old)}
    <3>1. Distinct(old) /\ Mine(Look, inode, n) = Elems(old)
      BY <1>1, <2>1, <2>8, BeginCore DEF Own, Mine
    <3>2. /\ Len(blocks') = v /\ Distinct(blocks') /\ Elems(blocks') = Elems(old) \ tail
      BY <1>3, <2>1, <2>2, <2>3, <3>1, CutElems
    <3>3. tail \subseteq Elems(old)
      BY <2>1, <2>2, ElemsOf
    <3> HIDE DEF tail
    <3>4. cbm' = cbm \ tail
      BY <1>3 DEF tail
    <3>5. Held' = Elems(old) \ tail /\ HeldInode' = {Look[n]} \ {0}
      BY <1>1, <1>3, <2>1, <2>8, <3>2, BeginCore DEF Held, HeldInode
    <3>6. Account'
      <4>1. /\ Rest' \intersect Elems(old) = {} /\ RestInodes' \intersect ({Look[n]} \ {0}) = {}
            /\ Rest' \union Elems(old) \subseteq cbm
            /\ RestInodes' \union ({Look[n]} \ {0}) \subseteq ibm
            /\ crashes = 0 /\ ~failed => /\ cbm = Rest' \union Elems(old)
                                         /\ ibm = RestInodes' \union ({Look[n]} \ {0})
            /\ UNCHANGED <<ibm, crashes, failed>>
        BY <1>1, <2>8, <3>1, BeginCore
      <4> QED
        BY <3>3, <3>4, <3>5, <4>1 DEF Account
    <3>7. v < w => Elems(old) \subseteq Elems(blocks')
      <4>1. v < w => tail = {}
        BY <2>2 DEF tail
      <4> QED
        BY <3>2, <4>1
    <3>8. /\ Look'[name'] = ino' /\ ino' # 0 /\ want' = w /\ written' = 0 /\ inode'[ino'] = old
      BY <1>1, <2>1, <2>8, BeginCore
    <3>9. root' # 0 /\ (root' # 0 => data'[root'] = "dir")
      BY <1>1, <2>1, <2>8, BeginCore, LookIs
    <3>10. Position'
      BY <1>3, <2>2, <3>2, <3>7, <3>8, <3>9 DEF Position, Busy
    <3>11. saved'[name'] = Unknown /\ Apart(root', Look', inode')
           /\ Safe(root', Look', inode', data', dbm', saved')
      BY <1>1, <2>8, BeginCore
    <3> QED
      BY <3>6, <3>9, <3>10, <3>11 DEF Core, DirBlock
  <2> QED
    BY <2>6, <2>7, <2>8 DEF FSInv
<1> QED
  BY <1>2, <1>3 DEF Rewrite

-----------------------------------------------------------------------------
(* Formatting, mounting, booting and power loss *)

\* A step that leaves the files on the disk alone.
LEMMA SameFiles ==
  ASSUME Core, UNCHANGED <<root, dir, inode, data, saved>>, pc' \notin Busy,
         dbm' = dbm, cbm' \in {cbm, dbm, {}}
  PROVE  Core'
<1>1. Look' = Look
  BY DEF Look, fs_lookup
<1>2. DirBlock'
  BY DEF Core, DirBlock
<1> QED
  BY <1>1, <1>2 DEF Core

\* No names, no references.
LEMMA NothingLinked ==
  ASSUME root' = 0
  PROVE  /\ \A n \in Names : Look'[n] = 0
         /\ Refs' = {} /\ Linked' = {}
<1>1. \A n \in Names : Look'[n] = 0
  BY DEF Look, fs_lookup
<1>2. AllRefs(root', Look', inode') = {} /\ AllInodes(Look') = {}
  BY <1>1 DEF AllRefs, AllInodes
<1> QED
  BY <1>1, <1>2, RefsAreNext

LEMMA FormatDiskKeeps ==
  ASSUME FSInv, FormatDisk
  PROVE  FSInv'
<1> USE DEF FormatDisk
<1>1. FSTypeOK /\ Phases
  BY DEF FSInv
<1>2. FSTypeOK'
  <2>1. pc' \in Steps /\ kind' \in {"boot", "save", "rewrite", "delete", "format"}
    BY DEF Steps
  <2>2. saved' \in [Names -> {Absent, Unknown} \union {<<v>> : v \in Sizes}]
    OBVIOUS
  <2> QED
    BY <1>1, <2>1, <2>2, Zenon DEF FSTypeOK, disk, ram
<1>3. \A n \in Names : saved'[n] = Unknown
  OBVIOUS
<1>4. Phases'
  BY <1>1, <1>3 DEF Phases, Busy, disk, ram
<1>5. ASSUME trusted PROVE Core'
  <2>1. Look' = Look
    BY DEF Look, fs_lookup, disk
  <2>2. Safe(root', Look', inode', data', dbm', saved')
    BY <1>3, Marks DEF Safe
  <2> QED
    BY <1>5, <2>1, <2>2 DEF FSInv, Core, DirBlock, Busy, disk, ram
<1> QED
  BY <1>2, <1>4, <1>5 DEF FSInv

LEMMA BootKeeps ==
  ASSUME FSInv, Boot
  PROVE  FSInv'
<1> USE DEF Boot
<1>1. FSTypeOK /\ Phases /\ pc' \notin Busy
  BY DEF FSInv, Busy
<1>2. FSTypeOK'
  <2>1. pc' \in Steps /\ kind' \in {"boot", "save", "rewrite", "delete", "format"}
    BY DEF Steps
  <2> QED
    BY <1>1, <2>1, Zenon DEF FSTypeOK, disk, ram, hist
<1>3. ASSUME trusted, sbs = {} PROVE \A n \in Names : saved[n] \in {Absent, Unknown}
  <2>1. Core /\ root = 0
    BY <1>1, <1>3 DEF FSInv, Phases
  <2>2. \A n \in Names : Look[n] = 0
    BY <1>1, <2>1, LookIs
  <2> QED
    BY <2>1, <2>2 DEF Core, Safe
<1>4. Phases'
  BY <1>1, <1>3 DEF Phases, Busy, disk, ram, hist
<1>5. ASSUME trusted PROVE Core'
  BY <1>1, <1>5, SameFiles DEF FSInv, disk, ram, hist
<1> QED
  BY <1>2, <1>4, <1>5 DEF FSInv, hist

LEMMA FormatBitmapKeeps ==
  ASSUME FSInv, FormatBitmap
  PROVE  FSInv'
<1> USE DEF FormatBitmap
<1>1. FSTypeOK /\ Phases /\ pc' \notin Busy
  BY DEF FSInv, Busy
<1>2. FSTypeOK'
  <2>1. pc' \in Steps /\ dbm' \subseteq Clusters
    BY DEF Steps
  <2> QED
    BY <1>1, <2>1, Zenon DEF FSTypeOK, ram, hist, op
<1>3. Phases'
  BY <1>1 DEF Phases, Busy, ram, hist, op
<1>4. ASSUME trusted PROVE Core'
  <2>1. Core /\ \A n \in Names : saved[n] \in {Absent, Unknown}
    BY <1>1, <1>4 DEF FSInv, Phases
  <2>2. Look' = Look
    BY DEF Look, fs_lookup
  <2>3. Safe(root', Look', inode', data', dbm', saved')
    BY <2>1, <2>2 DEF Core, Safe, hist
  <2> QED
    BY <1>1, <2>1, <2>2, <2>3 DEF Core, DirBlock, ram
<1> QED
  BY <1>2, <1>3, <1>4 DEF FSInv, hist

LEMMA FormatInodesKeeps ==
  ASSUME FSInv, FormatInodes
  PROVE  FSInv'
<1> USE DEF FormatInodes
<1>1. FSTypeOK /\ Phases /\ pc' \notin Busy
  BY DEF FSInv, Busy
<1>2. FSTypeOK'
  <2>1. pc' \in Steps /\ root' \in Clusters \union {0} /\ trusted' \in BOOLEAN /\ failed' \in BOOLEAN
    BY DEF Steps
  <2>2. inode' \in [Inodes -> Seq(Clusters)]
    OBVIOUS
  <2>3. saved' \in [Names -> {Absent, Unknown} \union {<<v>> : v \in Sizes}]
    OBVIOUS
  <2> QED
    BY <1>1, <2>1, <2>2, <2>3, Zenon DEF FSTypeOK, ram, op
<1>3. Phases'
  BY <1>1 DEF Phases, Busy, ram, op
<1>4. Core'
  <2>1. \A n \in Names : Look'[n] = 0 /\ saved'[n] = Absent
    BY NothingLinked
  <2>2. Apart(root', Look', inode')
    BY <2>1 DEF Apart, Own
  <2>3. Safe(root', Look', inode', data', dbm', saved')
    BY <2>1 DEF Safe
  <2> QED
    BY <1>1, <2>2, <2>3 DEF Core, DirBlock
<1> QED
  BY <1>2, <1>3, <1>4 DEF FSInv

LEMMA FormatSbKeeps ==
  ASSUME FSInv, FormatSb
  PROVE  FSInv'
<1> USE DEF FormatSb
<1>1. FSTypeOK /\ Phases /\ pc' \notin Busy
  BY DEF FSInv, Busy
<1>2. FSTypeOK'
  <2>1. pc' \in Steps
    BY DEF Steps
  <2>2. sbs' \subseteq {0, 1}
    BY <1>1 DEF FSTypeOK
  <2> QED
    BY <1>1, <2>1, <2>2, Zenon DEF FSTypeOK, ram, op, hist
<1>3. Phases'
  BY <1>1 DEF Phases, Busy, ram, op, hist
<1>4. ASSUME trusted PROVE Core'
  BY <1>1, <1>4, SameFiles DEF FSInv, ram, hist
<1> QED
  BY <1>2, <1>3, <1>4 DEF FSInv, hist

LEMMA MountKeeps ==
  ASSUME FSInv, fs_mount
  PROVE  FSInv'
<1> USE DEF fs_mount
<1>1. FSTypeOK /\ Phases /\ pc' \notin Busy
  BY DEF FSInv, Busy
<1>2. FSTypeOK'
  <2>1. pc' \in Steps /\ mounted' \in BOOLEAN
    BY DEF Steps
  <2>2. cbm' \subseteq Clusters /\ ibm' \subseteq Inodes
    BY <1>1 DEF FSTypeOK
  <2> QED
    BY <1>1, <2>1, <2>2, Zenon DEF FSTypeOK, disk, op, hist
<1>3. ASSUME pc' = "idle" PROVE BitmapsCover' /\ cbm' = Refs' /\ ibm' = Linked'
  <2>1. root' = 0 /\ cbm' = {} /\ ibm' = {}
    BY <1>1, <1>3 DEF Phases, disk
  <2> QED
    BY <2>1, NothingLinked DEF BitmapsCover
<1>4. Phases'
  BY <1>1, <1>3 DEF Phases, Busy, disk, op, hist
<1>5. ASSUME trusted PROVE Core'
  BY <1>1, <1>5, SameFiles DEF FSInv, disk, hist
<1> QED
  BY <1>2, <1>4, <1>5 DEF FSInv, hist

LEMMA SelftestKeeps ==
  ASSUME FSInv, fs_selftest
  PROVE  FSInv'
<1> USE DEF fs_selftest
<1>1. FSTypeOK /\ Phases /\ pc' \notin Busy /\ pc' = "idle" /\ cbm = dbm
  BY DEF FSInv, Busy, Phases
<1>2. data \in [Clusters -> Names \union {"dir", Nobody}]
  BY <1>1 DEF FSTypeOK
<1>3. FSTypeOK'
  <2>1. pc' \in Steps
    BY DEF Steps
  <2>2. data' \in [Clusters -> Names \union {"dir", Nobody}]
    BY <1>2
  <2> QED
    BY <1>1, <2>1, <2>2, Zenon DEF FSTypeOK, ram, op, hist
<1>4. ASSUME crashes = 0 PROVE BitmapsCover' /\ cbm' = Refs' /\ ibm' = Linked'
  <2>1. root' = 0 /\ cbm' = {} /\ ibm' = {}
    BY <1>1, <1>4 DEF Phases, ram
  <2> QED
    BY <2>1, NothingLinked DEF BitmapsCover
<1>5. Phases'
  BY <1>1, <1>4 DEF Phases, Busy, ram, op, hist
<1>6. ASSUME trusted PROVE Core'
  <2>0. Core
    BY <1>6 DEF FSInv
  <2>1. CASE FreeClusters = {}
    BY <1>1, <2>0, <2>1, SameFiles DEF ram, hist
  <2>2. CASE FreeClusters # {}
    <3> DEFINE c == NewCluster
    <3>1. c \in Clusters /\ c \notin dbm
      BY <1>1, <2>2, NewClusterIs
    <3>2. data' = [data EXCEPT ![c] = Nobody]
      BY <2>2
    <3> HIDE DEF c
    <3>3. \A d \in dbm : data'[d] = data[d]
      BY <1>1, <1>2, <3>1, <3>2 DEF FSTypeOK
    <3>4. CASE root = c
      <4>1. data'[root'] = Nobody /\ Nobody # "dir"
        BY <1>2, <3>1, <3>2, <3>4 DEF Nobody
      <4>2. \A n \in Names : Look'[n] = 0
        BY <4>1 DEF Look, fs_lookup
      <4>3. \A n \in Names : saved[n] \in {Absent, Unknown}
        BY <2>0, <3>1, <3>4 DEF Core, Safe
      <4>4. Safe(root', Look', inode', data', dbm', saved')
        BY <4>2, <4>3 DEF Safe, hist
      <4>5. Apart(root', Look', inode')
        BY <4>2 DEF Apart, Own
      <4> QED
        BY <1>1, <3>1, <3>4, <4>4, <4>5 DEF Core, DirBlock, ram
    <3>5. CASE root # c
      <4>1. root # 0 => root \in Clusters /\ data'[root] = data[root]
        BY <1>1, <1>2, <3>2, <3>5 DEF FSTypeOK
      <4>2. Look' = Look
        BY <4>1 DEF Look, fs_lookup
      <4>3. Safe(root', Look', inode', data', dbm', saved')
        <5>1. Safe(root, Look, inode, data, dbm, saved)
          BY <2>0 DEF Core
        <5>2. Safe(root, Look, inode, data', dbm, saved)
          BY <3>3, <5>1 DEF Safe
        <5> QED
          BY <4>2, <5>2 DEF hist
      <4> QED
        BY <1>1, <2>0, <4>1, <4>2, <4>3 DEF Core, DirBlock, ram
    <3> QED
      BY <3>4, <3>5
  <2> QED
    BY <2>1, <2>2
<1> QED
  BY <1>3, <1>5, <1>6 DEF FSInv, hist

LEMMA PowerLossKeeps ==
  ASSUME FSInv, PowerLoss
  PROVE  FSInv'
<1> USE DEF PowerLoss
<1>1. FSTypeOK /\ Phases /\ pc' \notin Busy
  BY DEF FSInv, Busy
<1>2. crashes' \in 0..MaxCrashes /\ crashes' # 0
  BY <1>1, NoosFSConstants DEF FSTypeOK
<1>3. FSTypeOK'
  <2>1. pc' \in Steps /\ mounted' \in BOOLEAN /\ cbm' \subseteq Clusters /\ ibm' \subseteq Inodes
    BY DEF Steps
  <2> QED
    BY <1>1, <1>2, <2>1, DropTypes, Zenon DEF FSTypeOK, disk
<1>4. Phases'
  BY <1>1, <1>2 DEF Phases, Busy, disk
<1>5. ASSUME trusted PROVE Core'
  BY <1>1, <1>5, SameFiles DEF FSInv, disk
<1> QED
  BY <1>3, <1>4, <1>5 DEF FSInv

-----------------------------------------------------------------------------
(* The theorems *)

LEMMA InitFSInv == FSInit => FSInv
<1> SUFFICES ASSUME FSInit PROVE FSInv
  OBVIOUS
<1> USE DEF FSInit
<1>1. FSTypeOK
  <2>1. /\ inode \in [Inodes -> Seq(Clusters)]
        /\ data \in [Clusters -> Names \union {"dir", Nobody}]
        /\ dir \in [Names -> Inodes \union {0}]
        /\ saved \in [Names -> {Absent, Unknown} \union {<<v>> : v \in Sizes}]
    OBVIOUS
  <2>2. pc \in Steps /\ crashes \in 0..MaxCrashes /\ written \in 0..want
    BY NoosFSConstants DEF Steps
  <2>3. /\ sbs \subseteq {0, 1} /\ dbm \subseteq Clusters /\ cbm \subseteq Clusters
        /\ root \in Clusters \union {0} /\ ibm \subseteq Inodes
        /\ kind \in {"boot", "save", "rewrite", "delete", "format"} /\ name \in Names
        /\ want \in Sizes \union {0} /\ ino \in Inodes \union {0} /\ blocks \in Seq(Clusters)
    OBVIOUS
  <2>4. mounted \in BOOLEAN /\ trusted \in BOOLEAN /\ failed \in BOOLEAN
    BY Zenon
  <2> QED
    BY <2>1, <2>2, <2>3, <2>4, Zenon DEF FSTypeOK
<1>2. Phases
  BY DEF Phases, Busy
<1>3. \A n \in Names : Look[n] = 0 /\ saved[n] = Absent
  BY <1>1, LookIs
<1>4. Core
  BY <1>3 DEF Core, Apart, Own, Safe, DirBlock, Busy
<1> QED
  BY <1>1, <1>2, <1>4 DEF FSInv

LEMMA NextFSInv == FSInv /\ [FSNext]_fsVars => FSInv'
<1> SUFFICES ASSUME FSInv, [FSNext]_fsVars PROVE FSInv'
  OBVIOUS
<1>1. CASE UNCHANGED fsVars
  <2>1. FSTypeOK' /\ Phases'
    <3>1. FSTypeOK'
      BY <1>1, Zenon DEF FSInv, FSTypeOK, fsVars
    <3>2. Refs' = Refs /\ Linked' = Linked
      BY <1>1 DEF Refs, Linked, fs_lookup, fsVars
    <3>3. BitmapsCover' = BitmapsCover
      BY <1>1, <3>2 DEF BitmapsCover, fsVars
    <3>4. Phases'
      BY <1>1, <3>2, <3>3 DEF FSInv, Phases, fsVars
    <3> QED
      BY <3>1, <3>4
  <2>2. ASSUME trusted PROVE Core'
    <3>1. Look' = Look
      BY <1>1 DEF Look, fs_lookup, fsVars
    <3>2. Rest' = Rest /\ RestInodes' = RestInodes /\ Held' = Held /\ HeldInode' = HeldInode
      BY <1>1, <3>1 DEF Rest, RestInodes, Held, HeldInode, fsVars
    <3> QED
      BY <1>1, <2>2, <3>1, <3>2 DEF FSInv, Core, DirBlock, Position, Account, fsVars
  <2> QED
    BY <1>1, <2>1, <2>2 DEF FSInv, fsVars
<1>2. CASE FSNext
  BY <1>2, SaveFileKeeps, RewriteKeeps, DeleteFileKeeps, UnlinkInodeKeeps, UnlinkEntryKeeps,
     CreateInodeKeeps, RootBlockKeeps, AddEntryKeeps, WriteBlockKeeps, WriteInodeKeeps,
     SyncKeeps, FormatDiskKeeps, BootKeeps, FormatBitmapKeeps, FormatInodesKeeps,
     FormatSbKeeps, MountKeeps, SelftestKeeps, PowerLossKeeps DEF FSNext
<1> QED
  BY <1>1, <1>2

\* Whatever the callers ask for, wherever an operation fails and wherever the
\* power goes off, disk and bitmaps stay in order.
THEOREM FileSystemInvariant == FSSpec => []FSInv
<1> QED
  BY InitFSInv, NextFSInv, PTL DEF FSSpec

\* fs_alloc_cluster and fs_alloc_inode never give out what another file or
\* the directory has, as long as operations start from bitmaps that cover the
\* disk: no two names share an inode, and no cluster has two owners.
THEOREM NothingShared == FSSpec => []NoSharing
<1>1. ASSUME FSInv PROVE NoSharing
  <2> SUFFICES ASSUME trusted
               PROVE  /\ \A m, n \in Names :
                           m # n /\ Look[m] # 0 /\ Look[n] # 0 =>
                             /\ Look[m] # Look[n]
                             /\ Elems(inode[Look[m]]) \intersect Elems(inode[Look[n]]) = {}
                      /\ \A n \in Names : Look[n] # 0 => root \notin Elems(inode[Look[n]])
    BY <1>1, LookIs DEF FSInv, NoSharing, Linked
  <2>1. Apart(root, Look, inode) /\ FSTypeOK
    BY <1>1 DEF FSInv, Core
  <2>2. ASSUME NEW m \in Names, NEW n \in Names, m # n, Look[m] # 0, Look[n] # 0
        PROVE  /\ Look[m] # Look[n]
               /\ Elems(inode[Look[m]]) \intersect Elems(inode[Look[n]]) = {}
    <3>1. Own(root, Look, inode, m)
      BY <2>1 DEF Apart
    <3>2. Look[n] \in OtherInodes(Look, m)
      BY <2>2 DEF OtherInodes
    <3>3. Elems(inode[Look[n]]) \subseteq Others(root, Look, inode, m)
      BY <2>2, InOthers
    <3> QED
      BY <2>2, <3>1, <3>2, <3>3 DEF Own
  <2>3. ASSUME NEW n \in Names, Look[n] # 0 PROVE root \notin Elems(inode[Look[n]])
    <3>1. root # 0
      BY <2>1, <2>3, LookIs
    <3>2. root \in Others(root, Look, inode, n)
      BY <3>1, InOthers
    <3> QED
      BY <2>1, <2>3, <3>2 DEF Apart, Own
  <2> QED
    BY <2>2, <2>3
<1> QED
  BY <1>1, FileSystemInvariant, PTL

\* Saved files read back and deleted ones are gone, although saves, rewrites
\* and deletions of other files fail or are cut off at any of their disk
\* writes, and fs_selftest overwrites a cluster at every boot.
THEOREM SavedFilesReadBack == FSSpec => []FilesReadBack
<1>1. ASSUME FSInv PROVE FilesReadBack
  BY <1>1, LookIs DEF FSInv, Core, Safe, FilesReadBack, ReadsBack
<1> QED
  BY <1>1, FileSystemInvariant, PTL

\* Until the first power loss the bitmaps in memory mark all that is in use,
\* and, unless an operation failed, nothing else: fs_unlink and
\* fs_write_file leak no cluster and no inode.
THEOREM BitmapsMatchDisk == FSSpec => []BitmapsExact
<1>1. ASSUME FSInv PROVE BitmapsExact
  BY <1>1 DEF FSInv, Phases, BitmapsExact
<1> QED
  BY <1>1, FileSystemInvariant, PTL
=============================================================================
