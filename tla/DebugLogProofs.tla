----------------------------- MODULE DebugLogProofs -----------------------------
(***************************************************************************)
(* DebugLog, proved for any number of requests, paths and configurations,  *)
(* every size of the channel, the lines and the files, and every number of *)
(* faults, changes and restarts.                                           *)
(***************************************************************************)
EXTENDS DebugLog, FiniteSetTheorems, WellFoundedInduction, TLAPS

-----------------------------------------------------------------------------
(* The greatest and the least of a finite set. *)

LEMMA GreatestExists ==
    ASSUME NEW D, IsFiniteSet(D), D # {}, NEW g \in [D -> Int]
    PROVE  \E x \in D : \A y \in D : g[y] <= g[x]
<1> DEFINE Above(x) == {y \in D : g[x] < g[y]}
           T == {Above(x) : x \in D}
           R == StrictSubsetOrdering(D)
<1>1. IsWellFoundedOn(R, SUBSET D)
    BY FS_StrictSubsetOrderingWellFounded, FS_FiniteSubsetsOfFinite
<1>2. T \subseteq SUBSET D /\ T # {}
    <2>1. PICK x \in D : TRUE
        OBVIOUS
    <2>2. Above(x) \in T
        OBVIOUS
    <2> QED
        BY <2>2
<1>3. PICK s \in T : \A t \in T : ~(<<t, s>> \in R)
    <2> HIDE DEF T, R
    <2> QED
        BY <1>1, <1>2, WFMin
<1>4. PICK x \in D : s = Above(x)
    BY <1>3
<1>5. ASSUME NEW y \in D, g[x] < g[y]
      PROVE  FALSE
    <2>1. y \in Above(x) /\ y \notin Above(y) /\ Above(y) \in T
        BY <1>5
    <2>2. \A z \in Above(y) : z \in Above(x)
        BY <1>5
    <2>3. <<Above(y), Above(x)>> \in R
        BY <2>1, <2>2 DEF StrictSubsetOrdering
    <2> QED
        BY <1>3, <1>4, <2>1, <2>3
<1>6. \A y \in D : g[y] <= g[x]
    BY <1>5
<1> QED
    BY <1>6

LEMMA LeastExists ==
    ASSUME NEW D, IsFiniteSet(D), D # {}, NEW g \in [D -> Int]
    PROVE  \E x \in D : \A y \in D : g[x] <= g[y]
<1> DEFINE h == [x \in D |-> 0 - g[x]]
<1>1. h \in [D -> Int] /\ \A x \in D : h[x] = 0 - g[x]
    OBVIOUS
<1> HIDE DEF h
<1>2. PICK x \in D : \A y \in D : h[y] <= h[x]
    BY <1>1, GreatestExists
<1> QED
    BY <1>1, <1>2

LEMMA MaxOfFinite ==
    ASSUME NEW S \in SUBSET Int, IsFiniteSet(S), S # {}
    PROVE  Max(S) \in S /\ \A y \in S : y <= Max(S)
<1> DEFINE g == [x \in S |-> x]
<1>1. g \in [S -> Int] /\ \A x \in S : g[x] = x
    OBVIOUS
<1> HIDE DEF g
<1>2. \E x \in S : \A y \in S : x >= y
    <2>1. PICK x \in S : \A y \in S : g[y] <= g[x]
        BY <1>1, GreatestExists
    <2>2. \A y \in S : x >= y
        BY <1>1, <2>1
    <2> QED
        BY <2>2
<1>3. Max(S) \in S /\ \A y \in S : Max(S) >= y
    BY <1>2 DEF Max
<1> QED
    BY <1>3

-----------------------------------------------------------------------------
(* Directories. *)

Event == [level : Basic .. Full, body : BOOLEAN]

File == [lines : Seq(Nat), bytes : Nat, stamp : Nat, at : Nat]

\* What a directory consists of when so many lines were written.
DirType(fs, count) ==
    /\ IsFiniteSet(DOMAIN fs)
    /\ DOMAIN fs \subseteq Paths \X (0 .. now)
    /\ \A n \in DOMAIN fs :
          /\ fs[n] \in File /\ fs[n].at <= now
          /\ ToSet(fs[n].lines) \subseteq 1 .. count
          /\ fs[n].lines = <<>> => fs[n].bytes = 0

LEMMA StampIsGreatest ==
    ASSUME NEW fs, NEW count, DirType(fs, count)
    PROVE  Stamp(fs) \in Nat /\ \A n \in DOMAIN fs : fs[n].stamp < Stamp(fs)
<1> DEFINE f == [n \in DOMAIN fs |-> fs[n].stamp]
           T == {fs[n].stamp : n \in DOMAIN fs}
           S == {0} \cup T
<1>1. \A n \in DOMAIN fs : fs[n].stamp \in Nat
    BY DEF DirType, File
<1>2. IsFiniteSet(T)
    <2>1. f \in Surjection(DOMAIN fs, T)
        BY DEF Surjection
    <2> HIDE DEF f, T
    <2> QED
        BY <2>1, FS_Surjection DEF DirType
<1>3. S \in SUBSET Nat /\ S # {}
    BY <1>1
<1>4. IsFiniteSet(S)
    <2>1. IsFiniteSet(T \cup {0})
        BY <1>2, FS_AddElement
    <2>2. T \cup {0} = S
        OBVIOUS
    <2> QED
        BY <2>1, <2>2
<1>5. \A n \in DOMAIN fs : fs[n].stamp \in S
    OBVIOUS
<1>6. Stamp(fs) = 1 + Max(S)
    BY DEF Stamp
<1> DEFINE M == Max(S)
<1> HIDE DEF S
<1>7. M \in S /\ \A y \in S : y <= M
    BY <1>3, <1>4, MaxOfFinite
<1> HIDE DEF M
<1>8. Stamp(fs) = 1 + M /\ M \in Nat
    BY <1>3, <1>6, <1>7 DEF M
<1>9. \A n \in DOMAIN fs : fs[n].stamp <= M
    BY <1>5, <1>7
<1> QED
    BY <1>1, <1>8, <1>9

LEMMA RestrictEntries ==
    ASSUME NEW fs, NEW S
    PROVE  DOMAIN Restrict(fs, S) = S /\ \A m \in S : Restrict(fs, S)[m] = fs[m]
BY DEF Restrict

\* Later files have later lines and were modified no earlier.
InOrder(fs) ==
    \A p \in Paths : \A n, m \in FilesOf(fs, p) : fs[n].stamp < fs[m].stamp =>
        /\ fs[n].at <= fs[m].at
        /\ \A i \in ToSet(fs[n].lines), j \in ToSet(fs[m].lines) : i < j

IsNewest(fs, n) == \A m \in FilesOf(fs, n[1]) \ {n} : fs[m].stamp < fs[n].stamp

\* The live file of a path is its newest.
LiveIsNewest(fs) == \A p \in Paths : Live(p) \in DOMAIN fs => IsNewest(fs, Live(p))

BySize(p) == \A c \in Configs : c.path = p => c.mode = "size"

SizeInv(fs) ==
    \A p \in Paths : BySize(p) => \A n \in FilesOf(fs, p) :
        fs[n].bytes > MaxBytes + 1 => Len(fs[n].lines) = 1

DirInv(fs, count) == DirType(fs, count) /\ InOrder(fs) /\ LiveIsNewest(fs) /\ SizeInv(fs)

LEMMA FewerFiles ==
    ASSUME NEW fs, NEW count, DirInv(fs, count), NEW S \in SUBSET DOMAIN fs
    PROVE  /\ DirInv(Restrict(fs, S), count)
           /\ \A n \in DOMAIN fs : IsNewest(fs, n) => IsNewest(Restrict(fs, S), n) \/ n \notin S
<1> DEFINE new == Restrict(fs, S)
<1>1. DOMAIN new = S /\ \A m \in S : new[m] = fs[m]
    BY RestrictEntries
<1> HIDE DEF new
<1>2. \A p : FilesOf(new, p) = FilesOf(fs, p) \cap S
    BY <1>1 DEF FilesOf
<1>3. DirType(new, count)
    BY <1>1, FS_Subset DEF DirInv, DirType
<1>4. InOrder(new)
    BY <1>1, <1>2 DEF DirInv, InOrder
<1>5. \A n \in S : IsNewest(fs, n) => IsNewest(new, n)
    BY <1>1, <1>2 DEF IsNewest
<1>6. LiveIsNewest(new)
    BY <1>1, <1>5 DEF DirInv, LiveIsNewest
<1>7. SizeInv(new)
    BY <1>1, <1>2 DEF DirInv, SizeInv
<1> QED
    BY <1>3, <1>4, <1>5, <1>6, <1>7 DEF DirInv, new

LEMMA LiveName ==
    ASSUME NEW p \in Paths, now \in Nat \ {0}
    PROVE  /\ Live(p) \in Paths \X (0 .. now) /\ Rotation(p) \in Paths \X (0 .. now)
           /\ Live(p)[1] = p /\ Rotation(p)[1] = p /\ Live(p) # Rotation(p)
           /\ \A q \in Paths : q # p => Live(q) # Live(p) /\ Live(q) # Rotation(p)
           /\ Live(p) # NoFile /\ Rotation(p) # NoFile
BY LogAssumption DEF Live, Rotation, NoFile

\* A file that is new, or the newest of its path with a line more.
Fits(fs, p, n, file, top) ==
    /\ p \in Paths /\ n \in Paths \X (0 .. now) /\ n[1] = p
    /\ n = Live(p) \/ Live(p) \notin DOMAIN fs
    /\ file \in File /\ file.stamp = Stamp(fs) /\ file.at = now
    /\ file.lines = <<>> => file.bytes = 0
    /\ ToSet(file.lines) \subseteq 1 .. top
    /\ \A i \in ToSet(file.lines) : \A m \in FilesOf(fs, p) \ {n} :
          \A j \in ToSet(fs[m].lines) : j < i
    /\ BySize(p) => (file.bytes > MaxBytes + 1 => Len(file.lines) = 1)

LEMMA NewestFile ==
    ASSUME now \in Nat \ {0}, NEW fs, NEW count \in Nat, DirInv(fs, count),
           NEW top \in Nat, top >= count, NEW p, NEW n, NEW file, Fits(fs, p, n, file, top)
    PROVE  DirInv(With(fs, n, file), top) /\ IsNewest(With(fs, n, file), n)
<1> DEFINE new == With(fs, n, file)
<1> USE DEF Fits
<1>1. /\ DOMAIN new = DOMAIN fs \cup {n} /\ new[n] = file
      /\ \A m \in DOMAIN fs \ {n} : new[m] = fs[m]
    BY DEF With
<1> HIDE DEF new
<1>2. DirType(fs, count) /\ InOrder(fs) /\ LiveIsNewest(fs) /\ SizeInv(fs)
    BY DEF DirInv
<1>3. file.stamp \in Nat /\ \A m \in DOMAIN fs : fs[m].stamp \in Nat /\ fs[m].stamp < file.stamp
    <2>1. Stamp(fs) \in Nat /\ \A m \in DOMAIN fs : fs[m].stamp < Stamp(fs)
        BY <1>2, StampIsGreatest
    <2>2. \A m \in DOMAIN fs : fs[m].stamp \in Nat
        BY <1>2 DEF DirType, File
    <2> QED
        BY <2>1, <2>2
<1>4. /\ FilesOf(new, p) = FilesOf(fs, p) \cup {n}
      /\ \A q \in Paths : q # p => FilesOf(new, q) = FilesOf(fs, q) /\ n \notin FilesOf(fs, q)
    BY <1>1 DEF FilesOf
<1>5. \A q \in Paths : \A m \in FilesOf(fs, q) : m \in DOMAIN fs
    BY DEF FilesOf
<1>6. DirType(new, top)
    <2>1. IsFiniteSet(DOMAIN new)
        BY <1>1, <1>2, FS_AddElement DEF DirType
    <2>2. ASSUME NEW m \in DOMAIN fs
          PROVE  ToSet(fs[m].lines) \subseteq 1 .. top
        <3>1. ToSet(fs[m].lines) \subseteq 1 .. count
            BY <1>2 DEF DirType
        <3>2. 1 .. count \subseteq 1 .. top
            OBVIOUS
        <3> QED
            BY <3>1, <3>2
    <2> QED
        BY <1>1, <1>2, <2>1, <2>2 DEF DirType
<1>7. InOrder(new)
    <2> SUFFICES ASSUME NEW q \in Paths, NEW m \in FilesOf(new, q), NEW k \in FilesOf(new, q),
                        new[m].stamp < new[k].stamp
                 PROVE  /\ new[m].at <= new[k].at
                        /\ \A i \in ToSet(new[m].lines), j \in ToSet(new[k].lines) : i < j
        BY DEF InOrder
    <2>1. CASE m # n /\ k # n
        BY <1>1, <1>2, <1>4, <1>5, <2>1 DEF InOrder
    <2>2. CASE k = n /\ m # n
        <3>1. q = p /\ m \in FilesOf(fs, p) /\ new[m] = fs[m] /\ new[k] = file
            BY <1>1, <1>4, <1>5, <2>2
        <3>2. fs[m].at <= now
            BY <1>2, <1>5, <3>1 DEF DirType
        <3> QED
            BY <2>2, <3>1, <3>2
    <2>3. CASE m = n
        <3>1. k # n /\ k \in DOMAIN fs /\ new[k] = fs[k] /\ new[m] = file
            BY <1>1, <1>3, <1>4, <1>5, <2>3
        <3> QED
            BY <1>3, <2>3, <3>1
    <2> QED
        BY <2>1, <2>2, <2>3
<1>8. IsNewest(new, n)
    BY <1>1, <1>3, <1>4, <1>5 DEF IsNewest
<1>9. LiveIsNewest(new)
    <2> SUFFICES ASSUME NEW q \in Paths, Live(q) \in DOMAIN new
                 PROVE  IsNewest(new, Live(q))
        BY DEF LiveIsNewest
    <2>1. CASE Live(q) = n
        BY <1>8, <2>1
    <2>2. CASE Live(q) # n
        <3>1. Live(q) \in DOMAIN fs /\ q # p /\ Live(q)[1] = q
            BY <1>1, <2>2, LiveName
        <3>2. IsNewest(fs, Live(q))
            BY <1>2, <3>1 DEF LiveIsNewest
        <3> QED
            BY <1>1, <1>4, <1>5, <3>1, <3>2 DEF IsNewest
    <2> QED
        BY <2>1, <2>2
<1>10. SizeInv(new)
    BY <1>1, <1>2, <1>4, <1>5 DEF SizeInv
<1> QED
    BY <1>6, <1>7, <1>8, <1>9, <1>10 DEF DirInv, new

LEMMA EmptyFile ==
    ASSUME now \in Nat \ {0}, NEW fs, NEW count \in Nat, DirInv(fs, count),
           NEW p \in Paths, Live(p) \notin DOMAIN fs
    PROVE  /\ DirInv(WithEmpty(fs, Live(p)), count)
           /\ IsNewest(WithEmpty(fs, Live(p)), Live(p))
           /\ DOMAIN WithEmpty(fs, Live(p)) = DOMAIN fs \cup {Live(p)}
           /\ \A m \in DOMAIN fs : WithEmpty(fs, Live(p))[m] = fs[m]
           /\ WithEmpty(fs, Live(p))[Live(p)].lines = <<>>
           /\ WithEmpty(fs, Live(p))[Live(p)].bytes = 0
<1> DEFINE file == [lines |-> <<>>, bytes |-> 0, stamp |-> Stamp(fs), at |-> now]
<1>1. file \in File
    BY StampIsGreatest DEF DirInv, File
<1>2. /\ file.lines = <<>> /\ file.bytes = 0 /\ file.stamp = Stamp(fs) /\ file.at = now
      /\ ToSet(file.lines) = {}
    BY DEF ToSet
<1>3. WithEmpty(fs, Live(p)) = With(fs, Live(p), file)
    BY DEF WithEmpty
<1> HIDE DEF file
<1>4. Live(p) \in Paths \X (0 .. now) /\ Live(p)[1] = p
    BY LiveName
<1>5. ~(file.bytes > MaxBytes + 1)
    BY <1>2, LogAssumption
<1>6. Fits(fs, p, Live(p), file, count)
    BY <1>1, <1>2, <1>4, <1>5 DEF Fits
<1>7. DirInv(With(fs, Live(p), file), count) /\ IsNewest(With(fs, Live(p), file), Live(p))
    BY <1>6, NewestFile
<1> QED
    BY <1>2, <1>3, <1>7 DEF With

\* rename: what was the newest file keeps its place under the other name.
LEMMA RenamedDir ==
    ASSUME now \in Nat \ {0}, NEW fs, NEW count \in Nat, DirInv(fs, count),
           NEW p \in Paths, Live(p) \in DOMAIN fs
    PROVE  /\ DirInv(Renamed(fs, p), count)
           /\ DOMAIN Renamed(fs, p) = (DOMAIN fs \ {Live(p)}) \cup {Rotation(p)}
           /\ Renamed(fs, p)[Rotation(p)] = fs[Live(p)]
           /\ \A m \in DOMAIN fs \ {Live(p), Rotation(p)} : Renamed(fs, p)[m] = fs[m]
           /\ IsNewest(Renamed(fs, p), Rotation(p))
<1> DEFINE new == Renamed(fs, p)
           l   == Live(p)
           n   == Rotation(p)
<1>1. /\ DOMAIN new = (DOMAIN fs \ {l}) \cup {n} /\ new[n] = fs[l]
      /\ \A m \in DOMAIN fs \ {l, n} : new[m] = fs[m]
    BY LiveName DEF Renamed, With, Restrict
<1> HIDE DEF new
<1>2. DirType(fs, count) /\ InOrder(fs) /\ LiveIsNewest(fs) /\ SizeInv(fs)
    BY DEF DirInv
<1>3. /\ l \in Paths \X (0 .. now) /\ n \in Paths \X (0 .. now)
      /\ l[1] = p /\ n[1] = p /\ l # n
      /\ \A q \in Paths : q # p => Live(q) # l /\ Live(q) # n /\ Live(q)[1] = q
    BY LiveName
<1>4. l \in DOMAIN fs
    OBVIOUS
<1>5. IsNewest(fs, l)
    BY <1>2 DEF LiveIsNewest
<1> HIDE DEF l, n
<1>6. /\ FilesOf(new, p) = (FilesOf(fs, p) \ {l}) \cup {n}
      /\ \A q \in Paths : q # p =>
            FilesOf(new, q) = FilesOf(fs, q) /\ l \notin FilesOf(fs, q) /\ n \notin FilesOf(fs, q)
    BY <1>1, <1>3 DEF FilesOf
<1>7. \A q \in Paths : \A m \in FilesOf(fs, q) : m \in DOMAIN fs
    BY DEF FilesOf
<1>8. l \in FilesOf(fs, p)
    BY <1>3, <1>4 DEF FilesOf
<1>9. DirType(new, count)
    <2>1. IsFiniteSet(DOMAIN new)
        <3>1. IsFiniteSet(DOMAIN fs \ {l})
            BY <1>2, FS_RemoveElement DEF DirType
        <3> QED
            BY <1>1, <3>1, FS_AddElement
    <2>2. \A m \in DOMAIN new : \E k \in DOMAIN fs : new[m] = fs[k]
        BY <1>1, <1>4
    <2> QED
        BY <1>1, <1>2, <1>3, <2>1, <2>2 DEF DirType
<1>10. \A q \in Paths : \A m \in FilesOf(new, q) :
          \E k \in FilesOf(fs, q) : new[m] = fs[k] /\ (m # n => k = m) /\ (m = n => k = l)
    <2> SUFFICES ASSUME NEW q \in Paths, NEW m \in FilesOf(new, q)
                 PROVE  \E k \in FilesOf(fs, q) :
                            new[m] = fs[k] /\ (m # n => k = m) /\ (m = n => k = l)
        OBVIOUS
    <2>1. CASE q = p /\ m = n
        BY <1>1, <1>8, <2>1
    <2>2. CASE m # n
        BY <1>1, <1>6, <1>7, <1>3, <2>2
    <2>3. CASE q # p
        BY <1>1, <1>6, <1>7, <2>3
    <2> QED
        BY <2>1, <2>2, <2>3
<1>11. InOrder(new)
    BY <1>2, <1>10 DEF InOrder
<1>12. IsNewest(new, n)
    BY <1>1, <1>3, <1>5, <1>6, <1>7 DEF IsNewest
<1>13. LiveIsNewest(new)
    <2> SUFFICES ASSUME NEW q \in Paths, Live(q) \in DOMAIN new
                 PROVE  IsNewest(new, Live(q))
        BY DEF LiveIsNewest
    <2>1. q # p
        BY <1>1, <1>3 DEF l
    <2>2. Live(q) \in DOMAIN fs /\ Live(q)[1] = q
        BY <1>1, <1>3, <2>1
    <2>3. IsNewest(fs, Live(q))
        BY <1>2, <2>2 DEF LiveIsNewest
    <2> QED
        BY <1>1, <1>6, <1>7, <1>3, <2>1, <2>2, <2>3 DEF IsNewest
<1>14. SizeInv(new)
    BY <1>2, <1>10 DEF SizeInv
<1> QED
    BY <1>1, <1>9, <1>11, <1>12, <1>13, <1>14 DEF DirInv, new, l, n

LEMMA FilesFinite ==
    ASSUME NEW fs, IsFiniteSet(DOMAIN fs), NEW p
    PROVE  IsFiniteSet(FilesOf(fs, p)) /\ Cardinality(FilesOf(fs, p)) \in Nat
BY FS_Subset, FS_CardinalityType DEF FilesOf

\* cleanup_rotated takes the oldest files of its path, and leaves MaxFiles.
LEMMA PrunedDir ==
    ASSUME NEW fs, NEW count, DirInv(fs, count), NEW p \in Paths, Live(p) \in DOMAIN fs
    PROVE  /\ DirInv(Pruned(fs, p), count)
           /\ DOMAIN Pruned(fs, p) \subseteq DOMAIN fs
           /\ \A n \in DOMAIN Pruned(fs, p) : Pruned(fs, p)[n] = fs[n]
           /\ \A m \in DOMAIN fs \ DOMAIN Pruned(fs, p) :
                 /\ m \in FilesOf(fs, p)
                 /\ \A n \in FilesOf(Pruned(fs, p), p) : fs[m].stamp < fs[n].stamp
           /\ MaxFiles > 0 => Live(p) \in DOMAIN Pruned(fs, p)
           /\ Cardinality(FilesOf(Pruned(fs, p), p)) <= MaxFiles
<1> DEFINE mine     == FilesOf(fs, p)
           Older(n) == {m \in mine : fs[m].stamp < fs[n].stamp}
           pruned   == {n \in mine : Cardinality(Older(n)) + MaxFiles < Cardinality(mine)}
           S        == DOMAIN fs \ pruned
           new      == Pruned(fs, p)
           left     == FilesOf(new, p)
<1>1. new = Restrict(fs, S)
    BY DEF Pruned
<1>2. DOMAIN new = S /\ \A n \in S : new[n] = fs[n]
    BY <1>1, RestrictEntries
<1>3. DirInv(new, count)
    BY <1>1, FewerFiles
<1>4. /\ IsFiniteSet(mine) /\ Cardinality(mine) \in Nat /\ mine \subseteq DOMAIN fs
      /\ \A n \in mine : fs[n].stamp \in Nat
      /\ MaxFiles \in Nat
    BY FilesFinite, LogAssumption DEF DirInv, DirType, File, FilesOf
<1>5. \A n : /\ IsFiniteSet(Older(n)) /\ Cardinality(Older(n)) \in Nat
             /\ Older(n) \subseteq mine
    BY <1>4, FS_Subset, FS_CardinalityType
<1>6. left = mine \ pruned
    BY <1>2 DEF FilesOf
<1>7. ASSUME NEW m \in pruned, NEW n \in left
      PROVE  fs[m].stamp < fs[n].stamp
    <2> SUFFICES ASSUME fs[n].stamp <= fs[m].stamp
                 PROVE  FALSE
        BY <1>4, <1>6
    <2>1. Older(n) \subseteq Older(m)
        BY <1>4, <1>6
    <2>2. Cardinality(Older(n)) <= Cardinality(Older(m))
        BY <1>5, <2>1, FS_Subset
    <2>3. Cardinality(Older(m)) + MaxFiles < Cardinality(mine)
        OBVIOUS
    <2>4. ~(Cardinality(Older(n)) + MaxFiles < Cardinality(mine))
        BY <1>6
    <2> HIDE DEF Older, mine
    <2> QED
        BY <1>4, <1>5, <2>2, <2>3, <2>4
<1>8. ASSUME MaxFiles > 0
      PROVE  Live(p) \notin pruned
    <2>1. Live(p) \in mine /\ IsNewest(fs, Live(p)) /\ Live(p)[1] = p
        BY DEF FilesOf, Live, DirInv, LiveIsNewest
    <2>2. \A m \in mine \ {Live(p)} : m \in Older(Live(p))
        BY <2>1 DEF IsNewest
    <2>3. Live(p) \notin Older(Live(p))
        BY <1>4, <2>1
    <2>4. Older(Live(p)) = mine \ {Live(p)}
        BY <2>2, <2>3
    <2>5. Cardinality(mine \ {Live(p)}) = Cardinality(mine) - 1
        BY <1>4, <2>1, FS_RemoveElement
    <2>6. Cardinality(Older(Live(p))) = Cardinality(mine) - 1
        BY <2>4, <2>5
    <2> HIDE DEF Older, mine
    <2> QED
        BY <1>4, <1>8, <2>6
<1>9. Cardinality(left) <= MaxFiles
    <2>1. IsFiniteSet(left) /\ Cardinality(left) \in Nat
        BY <1>4, <1>6, FS_Subset, FS_CardinalityType
    <2>2. CASE left = {}
        BY <1>4, <2>2, FS_EmptySet
    <2>3. CASE left # {}
        <3> DEFINE g == [n \in left |-> fs[n].stamp]
        <3>1. g \in [left -> Int] /\ \A n \in left : g[n] = fs[n].stamp
            BY <1>4, <1>6
        <3> HIDE DEF g, left
        <3>2. PICK n \in left : \A k \in left : fs[n].stamp <= fs[k].stamp
            BY <2>1, <2>3, <3>1, LeastExists
        <3>3. left \subseteq mine \ Older(n)
            BY <1>4, <1>6, <3>2
        <3>4. Cardinality(left) <= Cardinality(mine \ Older(n))
            BY <1>4, <3>3, FS_Subset
        <3>5. Cardinality(mine \ Older(n)) = Cardinality(mine) - Cardinality(Older(n))
            <4>1. mine \cap Older(n) = Older(n)
                OBVIOUS
            <4> HIDE DEF mine, Older
            <4> QED
                BY <1>4, <4>1, FS_Difference
        <3>6. ~(Cardinality(Older(n)) + MaxFiles < Cardinality(mine))
            BY <1>6, <3>2
        <3>7. Cardinality(Older(n)) \in Nat
            BY <1>5
        <3> HIDE DEF Older, mine
        <3> QED
            BY <1>4, <2>1, <3>4, <3>5, <3>6, <3>7
    <2> QED
        BY <2>2, <2>3
<1>10. \A m \in DOMAIN fs \ DOMAIN new : m \in pruned
    BY <1>2
<1> HIDE DEF pruned, left, new
<1> QED
    BY <1>2, <1>3, <1>6, <1>7, <1>8, <1>9, <1>10 DEF new, left, S, pruned

-----------------------------------------------------------------------------
(* The handle, the number of files, and what is left of the lines.         *)

Writer ==
    [ path : Paths \cup {NoPath}, mode : {"none", "size", "daily"}, size : Nat, day : Nat,
      name : (Paths \cup {NoPath}) \X Nat ]

\* The handle is of the newest file of its path too: of the live one, or of the
\* one that was it when creating its successor failed.
HandleInv(fs, w) ==
    /\ w \in Writer
    /\ w.path \in Paths => \E c \in Configs : c.path = w.path /\ c.mode = w.mode
    /\ w.name # NoFile =>
         /\ w.path \in Paths /\ w.name \in Paths \X (0 .. now) /\ w.name[1] = w.path
         /\ w.name = Live(w.path) \/ Live(w.path) \notin DOMAIN fs
         /\ w.name \in DOMAIN fs => IsNewest(fs, w.name) /\ w.size = fs[w.name].bytes

Held(fs, w) == w.name # NoFile => w.name \in DOMAIN fs

Limit == Max({1, MaxFiles})

\* A path without a live file has room for it.
Room(fs, p) == IF Live(p) \in DOMAIN fs THEN 0 ELSE 1

CountInv(fs, faults) ==
    \A p \in Paths : Cardinality(FilesOf(fs, p)) + Room(fs, p) <= Limit + faults

LinesTo(p) == {i \in DOMAIN written : written[i].dest = p}

LinesLeft(fs, p) == LinesOf(fs, FilesOf(fs, p))

Gapless(fs, ex, p) ==
    \A i \in LinesLeft(fs, p), j \in LinesTo(p) : j > i => j \in LinesLeft(fs, p) \cup ex

Latest(fs, ex, p) ==
    \A i \in LinesTo(p) :
        (\A j \in LinesTo(p) : j <= i) => i \in LinesLeft(fs, p) \cup ex

\* Lines go from the files of a path to the excused ones, if anywhere.
Excuses(fs, ex, fs2, ex2) ==
    /\ ex \subseteq ex2
    /\ \A p \in Paths : /\ LinesLeft(fs2, p) \subseteq LinesLeft(fs, p)
                        /\ LinesLeft(fs, p) \subseteq LinesLeft(fs2, p) \cup ex2

LEMMA ExcusesKeeps ==
    ASSUME NEW fs, NEW ex, NEW fs2, NEW ex2, Excuses(fs, ex, fs2, ex2), NEW p \in Paths
    PROVE  /\ Gapless(fs, ex, p) => Gapless(fs2, ex2, p)
           /\ Latest(fs, ex, p) => Latest(fs2, ex2, p)
BY DEF Excuses, Gapless, Latest

LEMMA LimitType == Limit \in Nat /\ 1 <= Limit /\ MaxFiles <= Limit
<1>1. {1, MaxFiles} \in SUBSET Int /\ {1, MaxFiles} # {}
    BY LogAssumption
<1>2. IsFiniteSet({1, MaxFiles})
    <2>1. IsFiniteSet({1} \cup {MaxFiles})
        BY FS_Singleton, FS_AddElement
    <2>2. {1} \cup {MaxFiles} = {1, MaxFiles}
        OBVIOUS
    <2> QED
        BY <2>1, <2>2
<1>3. Max({1, MaxFiles}) \in {1, MaxFiles} /\ \A y \in {1, MaxFiles} : y <= Max({1, MaxFiles})
    BY <1>1, <1>2, MaxOfFinite
<1> QED
    BY <1>3, LogAssumption DEF Limit

\* Files of other sessions go when they are old, and then all of a path that
\* went before its live file did.
LEMMA AgedCount ==
    ASSUME now \in Nat \ {0}, NEW fs, NEW count, DirInv(fs, count), NEW p \in Paths, NEW faults \in Nat,
           CountInv(fs, faults)
    PROVE  CountInv(Restrict(fs, DOMAIN fs \ Aged(fs, p)), faults)
<1> DEFINE S   == DOMAIN fs \ Aged(fs, p)
           new == Restrict(fs, S)
<1>1. DOMAIN new = S
    BY RestrictEntries
<1> HIDE DEF new
<1> SUFFICES ASSUME NEW q \in Paths
             PROVE  Cardinality(FilesOf(new, q)) + Room(new, q) <= Limit + faults
    BY DEF CountInv, new
<1>2. /\ FilesOf(new, q) \subseteq FilesOf(fs, q)
      /\ IsFiniteSet(FilesOf(fs, q)) /\ Cardinality(FilesOf(fs, q)) \in Nat
    BY <1>1, FilesFinite DEF FilesOf, DirInv, DirType
<1>3. /\ Cardinality(FilesOf(new, q)) \in Nat
      /\ Cardinality(FilesOf(new, q)) <= Cardinality(FilesOf(fs, q))
    BY <1>2, FS_Subset, FS_CardinalityType
<1>4. Cardinality(FilesOf(fs, q)) + Room(fs, q) <= Limit + faults
    BY DEF CountInv
<1>5. CASE Live(q) \in S \/ Live(q) \notin DOMAIN fs
    <2>1. Room(new, q) = Room(fs, q) /\ Room(fs, q) \in {0, 1}
        BY <1>1, <1>5 DEF Room
    <2> QED
        BY <1>2, <1>3, <1>4, <2>1, LimitType
<1>6. CASE Live(q) \in Aged(fs, p) /\ Live(q) \in DOMAIN fs
    <2>1. Live(q) # Live(p) /\ fs[Live(q)].at + Week < now
        BY <1>6 DEF Aged
    <2>2. ASSUME NEW m \in FilesOf(fs, q)
          PROVE  m \in Aged(fs, p)
        <3>1. m \in DOMAIN fs /\ m[1] = q /\ m # Live(p)
            BY <2>1 DEF FilesOf, Live
        <3>2. m = Live(q) \/ fs[m].stamp < fs[Live(q)].stamp
            BY <1>6 DEF DirInv, LiveIsNewest, IsNewest, Live
        <3>3. Live(q) \in FilesOf(fs, q)
            BY <1>6 DEF FilesOf, Live
        <3>4. m = Live(q) \/ fs[m].at <= fs[Live(q)].at
            BY <3>2, <3>3 DEF DirInv, InOrder
        <3>5. fs[m].at \in Nat /\ fs[Live(q)].at \in Nat /\ now \in Int /\ Week \in Nat
            BY <1>6, <2>1, <3>1, LogAssumption DEF DirInv, DirType, File
        <3>6. fs[m].at + Week < now
            BY <2>1, <3>4, <3>5
        <3> QED
            BY <3>1, <3>6 DEF Aged
    <2>3. FilesOf(new, q) = {}
        BY <1>1, <2>2 DEF FilesOf
    <2>4. Cardinality(FilesOf(new, q)) = 0
        BY <2>3, FS_EmptySet
    <2>5. Room(new, q) \in {0, 1}
        BY DEF Room
    <2> QED
        BY <2>4, <2>5, LimitType
<1> QED
    BY <1>5, <1>6

LEMMA EmptyCount ==
    ASSUME NEW fs, NEW new, NEW p \in Paths, IsFiniteSet(DOMAIN fs), NEW faults \in Nat,
           Live(p) \notin DOMAIN fs, DOMAIN new = DOMAIN fs \cup {Live(p)},
           CountInv(fs, faults)
    PROVE  CountInv(new, faults)
<1> SUFFICES ASSUME NEW q \in Paths
             PROVE  Cardinality(FilesOf(new, q)) + Room(new, q) <= Limit + faults
    BY DEF CountInv
<1>1. Cardinality(FilesOf(fs, q)) + Room(fs, q) <= Limit + faults
    BY DEF CountInv
<1>2. IsFiniteSet(FilesOf(fs, q)) /\ Cardinality(FilesOf(fs, q)) \in Nat
    BY FilesFinite
<1>3. CASE q = p
    <2>1. FilesOf(new, p) = FilesOf(fs, p) \cup {Live(p)} /\ Live(p) \notin FilesOf(fs, p)
        BY DEF FilesOf, Live
    <2>2. Cardinality(FilesOf(new, p)) = Cardinality(FilesOf(fs, p)) + 1
        BY <1>2, <1>3, <2>1, FS_AddElement
    <2>3. Room(new, p) = 0 /\ Room(fs, p) = 1
        BY DEF Room
    <2> QED
        BY <1>1, <1>2, <1>3, <2>2, <2>3
<1>4. CASE q # p
    <2>1. FilesOf(new, q) = FilesOf(fs, q) /\ Room(new, q) = Room(fs, q)
        BY <1>4 DEF FilesOf, Room, Live
    <2> QED
        BY <1>1, <2>1
<1> QED
    BY <1>3, <1>4

LEMMA SameLines ==
    ASSUME NEW fs, NEW new, NEW n,
           DOMAIN new = DOMAIN fs \cup {n}, n \notin DOMAIN fs,
           \A m \in DOMAIN fs : new[m] = fs[m], new[n].lines = <<>>
    PROVE  \A p : LinesLeft(new, p) = LinesLeft(fs, p)
<1> SUFFICES ASSUME NEW p PROVE LinesLeft(new, p) = LinesLeft(fs, p)
    OBVIOUS
<1>1. ToSet(new[n].lines) = {}
    BY DEF ToSet
<1>2. /\ FilesOf(fs, p) \subseteq DOMAIN fs
      /\ FilesOf(fs, p) \subseteq FilesOf(new, p)
      /\ \A m \in FilesOf(new, p) : m \in FilesOf(fs, p) \/ m = n
    BY DEF FilesOf
<1>3. \A i : i \in LinesLeft(new, p) <=> \E m \in FilesOf(new, p) : i \in ToSet(new[m].lines)
    BY DEF LinesLeft, LinesOf
<1>4. \A i : i \in LinesLeft(fs, p) <=> \E m \in FilesOf(fs, p) : i \in ToSet(fs[m].lines)
    BY DEF LinesLeft, LinesOf
<1>5. \A i : i \in LinesLeft(new, p) <=> i \in LinesLeft(fs, p)
    BY <1>1, <1>2, <1>3, <1>4
<1> QED
    BY <1>5

LEMMA FewerLines ==
    ASSUME NEW fs, NEW R \in SUBSET DOMAIN fs, NEW ex
    PROVE  Excuses(fs, ex, Restrict(fs, DOMAIN fs \ R), ex \cup LinesOf(fs, R))
<1> DEFINE new == Restrict(fs, DOMAIN fs \ R)
<1>1. DOMAIN new = DOMAIN fs \ R /\ \A m \in DOMAIN fs \ R : new[m] = fs[m]
    BY RestrictEntries
<1> HIDE DEF new
<1> SUFFICES ASSUME NEW p \in Paths
             PROVE  /\ LinesLeft(new, p) \subseteq LinesLeft(fs, p)
                    /\ LinesLeft(fs, p) \subseteq LinesLeft(new, p) \cup ex \cup LinesOf(fs, R)
    BY DEF Excuses, new
<1>2. \A m : m \in FilesOf(new, p) <=> m \in FilesOf(fs, p) /\ m \notin R
    BY <1>1 DEF FilesOf
<1>3. \A m \in FilesOf(fs, p) : m \in DOMAIN fs
    BY DEF FilesOf
<1>4. \A i : i \in LinesLeft(new, p) <=> \E m \in FilesOf(new, p) : i \in ToSet(new[m].lines)
    BY DEF LinesLeft, LinesOf
<1>5. \A i : i \in LinesLeft(fs, p) <=> \E m \in FilesOf(fs, p) : i \in ToSet(fs[m].lines)
    BY DEF LinesLeft, LinesOf
<1>6. \A i : i \in LinesOf(fs, R) <=> \E m \in R : i \in ToSet(fs[m].lines)
    BY DEF LinesOf
<1>7. \A i \in LinesLeft(new, p) : i \in LinesLeft(fs, p)
    BY <1>1, <1>2, <1>3, <1>4, <1>5
<1>8. \A i \in LinesLeft(fs, p) : i \in LinesLeft(new, p) \/ i \in LinesOf(fs, R)
    BY <1>1, <1>2, <1>3, <1>4, <1>5, <1>6
<1> QED
    BY <1>7, <1>8

LEMMA LinesAreWritten ==
    ASSUME NEW fs, NEW count, DirInv(fs, count), NEW R \in SUBSET DOMAIN fs
    PROVE  LinesOf(fs, R) \subseteq 1 .. count
BY DEF DirInv, DirType, LinesOf

\* ensure_file_writer.
LEMMA OpenedDisk ==
    ASSUME now \in Nat \ {0}, NEW g \in Configs, NEW count \in Nat,
           DirInv(files, count), HandleInv(files, writer), NEW fails \in BOOLEAN
    PROVE  /\ DirInv(Opened(g, fails).files, count)
           /\ HandleInv(Opened(g, fails).files, Opened(g, fails).writer)
           /\ Opened(g, fails).writer.path = g.path
           /\ Held(files, writer) => Held(Opened(g, fails).files, Opened(g, fails).writer)
           /\ Excuses(files, excused, Opened(g, fails).files, Opened(g, fails).excused)
           /\ excused \subseteq 1 .. count => Opened(g, fails).excused \subseteq 1 .. count
           /\ \A faults \in Nat : CountInv(files, faults) => CountInv(Opened(g, fails).files, faults)
<1> DEFINE p     == g.path
           there == IF fails \/ Live(p) \in DOMAIN files THEN files
                    ELSE WithEmpty(files, Live(p))
           aged  == Aged(there, p)
           new   == Restrict(there, DOMAIN there \ aged)
           w     == [ path |-> p, mode |-> g.mode, day |-> 0,
                      size |-> IF fails THEN 0 ELSE there[Live(p)].bytes,
                      name |-> IF fails THEN NoFile ELSE Live(p) ]
           ex    == excused \cup LinesOf(there, aged)
<1>1. CASE writer.path = p
    <2>1. Opened(g, fails) = [files |-> files, writer |-> writer, excused |-> excused]
        BY <1>1 DEF Opened
    <2> QED
        BY <1>1, <2>1 DEF Excuses
<1>2. CASE writer.path # p
    <2>1. Opened(g, fails) = [files |-> new, excused |-> ex, writer |-> w]
        BY <1>2 DEF Opened
    <2>2. p \in Paths /\ Live(p) # NoFile /\ Live(p)[1] = p /\ Live(p) \in Paths \X (0 .. now)
        BY LogAssumption, LiveName DEF ConfigType
    <2>3. /\ DirInv(there, count)
          /\ ~fails => Live(p) \in DOMAIN there
          /\ \A q \in Paths : LinesLeft(there, q) = LinesLeft(files, q)
          /\ \A faults \in Nat : CountInv(files, faults) => CountInv(there, faults)
        <3>1. CASE fails \/ Live(p) \in DOMAIN files
            BY <3>1
        <3>2. CASE ~(fails \/ Live(p) \in DOMAIN files)
            <4>1. there = WithEmpty(files, Live(p)) /\ Live(p) \notin DOMAIN files
                BY <3>2
            <4>2. /\ DirInv(there, count)
                  /\ DOMAIN there = DOMAIN files \cup {Live(p)}
                  /\ \A m \in DOMAIN files : there[m] = files[m]
                  /\ there[Live(p)].lines = <<>>
                <5> HIDE DEF there, p, w, new, aged, ex
                <5>1. /\ DirInv(WithEmpty(files, Live(p)), count)
                      /\ DOMAIN WithEmpty(files, Live(p)) = DOMAIN files \cup {Live(p)}
                      /\ \A m \in DOMAIN files : WithEmpty(files, Live(p))[m] = files[m]
                      /\ WithEmpty(files, Live(p))[Live(p)].lines = <<>>
                    BY <2>2, <4>1, EmptyFile
                <5> QED
                    BY <4>1, <5>1
            <4> HIDE DEF there
            <4>3. IsFiniteSet(DOMAIN files)
                BY DEF DirInv, DirType
            <4> QED
                BY <2>2, <4>1, <4>2, <4>3, EmptyCount, SameLines
        <3> QED
            BY <3>1, <3>2
    <2>4. w.path = p /\ w.mode = g.mode /\ w.name = (IF fails THEN NoFile ELSE Live(p))
            /\ w.size = (IF fails THEN 0 ELSE there[Live(p)].bytes)
        OBVIOUS
    <2>5. aged \in SUBSET DOMAIN there /\ Live(p) \notin aged
        BY DEF Aged
    <2> HIDE DEF there, w, p
    <2>6. DirInv(new, count)
        BY <2>3, FewerFiles
    <2>7. DOMAIN new = DOMAIN there \ aged /\ \A m \in DOMAIN new : new[m] = there[m]
        BY RestrictEntries
    <2>8. Excuses(there, excused, new, ex)
        BY <2>5, FewerLines
    <2>9. Excuses(files, excused, new, ex)
        BY <2>3, <2>8 DEF Excuses
    <2>10. excused \subseteq 1 .. count => ex \subseteq 1 .. count
        BY <2>3, <2>5, LinesAreWritten
    <2>11. \A faults \in Nat : CountInv(files, faults) => CountInv(new, faults)
        BY <2>2, <2>3, AgedCount
    <2> HIDE DEF new, aged, ex
    <2>12. ~fails => Live(p) \in DOMAIN new /\ IsNewest(new, Live(p)) /\ there[Live(p)].bytes \in Nat
        BY <2>2, <2>3, <2>5, <2>6, <2>7 DEF DirInv, LiveIsNewest, DirType, File
    <2>13. HandleInv(new, w) /\ Held(new, w)
        <3>1. \E c \in Configs : c.path = w.path /\ c.mode = w.mode
            BY <2>4 DEF p
        <3>2. w \in Writer
            <4>1. w.size \in Nat
                BY <2>4, <2>12
            <4>2. w.name \in (Paths \cup {NoPath}) \X Nat
                BY <2>2, <2>4 DEF NoFile, Live
            <4>3. g.mode \in {"none", "size", "daily"}
                BY LogAssumption DEF ConfigType
            <4> QED
                BY <2>2, <4>1, <4>2, <4>3 DEF Writer, w
        <3>3. CASE fails
            BY <2>2, <2>4, <3>1, <3>2, <3>3 DEF HandleInv, Held
        <3>4. CASE ~fails
            BY <2>2, <2>4, <2>7, <2>12, <3>1, <3>2, <3>4 DEF HandleInv, Held
        <3> QED
            BY <3>3, <3>4
    <2> QED
        BY <2>1, <2>4, <2>6, <2>9, <2>10, <2>11, <2>13 DEF p
<1> QED
    BY <1>1, <1>2

LEMMA RenamedLines ==
    ASSUME now \in Nat \ {0}, NEW fs, NEW count \in Nat, DirInv(fs, count), NEW ex,
           NEW p \in Paths
    PROVE  /\ DirInv(Renamed(fs, p), count)
           /\ Live(p) \notin DOMAIN Renamed(fs, p)
           /\ Excuses(fs, ex, Renamed(fs, p), ex \cup Overwritten(fs, p))
           /\ Overwritten(fs, p) \subseteq 1 .. count
<1> DEFINE new == Renamed(fs, p)
           l   == Live(p)
           n   == Rotation(p)
<1>1. CASE l \notin DOMAIN fs
    BY <1>1 DEF Renamed, Overwritten, Excuses
<1>2. CASE l \in DOMAIN fs
    <2>1. /\ DirInv(new, count)
          /\ DOMAIN new = (DOMAIN fs \ {l}) \cup {n}
          /\ new[n] = fs[l]
          /\ \A m \in DOMAIN fs \ {l, n} : new[m] = fs[m]
          /\ l # n /\ l[1] = p /\ n[1] = p
        BY <1>2, RenamedDir, LiveName
    <2>2. Overwritten(fs, p) = IF n \in DOMAIN fs THEN LinesOf(fs, {n}) ELSE {}
        BY <1>2 DEF Overwritten
    <2>3. \A i : i \in LinesOf(fs, {n}) <=> i \in ToSet(fs[n].lines)
        BY DEF LinesOf
    <2> HIDE DEF new, l, n
    <2>4. Overwritten(fs, p) \subseteq 1 .. count
        BY <2>2, <2>3 DEF DirInv, DirType
    <2> SUFFICES ASSUME NEW q \in Paths
                 PROVE  /\ LinesLeft(new, q) \subseteq LinesLeft(fs, q)
                        /\ LinesLeft(fs, q) \subseteq LinesLeft(new, q) \cup ex \cup Overwritten(fs, p)
        BY <2>1, <2>4 DEF Excuses, new, l
    <2>5. \A i : i \in LinesLeft(new, q) <=> \E m \in FilesOf(new, q) : i \in ToSet(new[m].lines)
        BY DEF LinesLeft, LinesOf
    <2>6. \A i : i \in LinesLeft(fs, q) <=> \E m \in FilesOf(fs, q) : i \in ToSet(fs[m].lines)
        BY DEF LinesLeft, LinesOf
    <2>7. \A m \in FilesOf(new, q) : \E k \in FilesOf(fs, q) : new[m] = fs[k]
        BY <1>2, <2>1 DEF FilesOf
    <2>8. \A m \in FilesOf(fs, q) :
            (m = n /\ n \in DOMAIN fs) \/ \E k \in FilesOf(new, q) : new[k] = fs[m]
        BY <1>2, <2>1 DEF FilesOf
    <2>9. \A i \in LinesLeft(new, q) : i \in LinesLeft(fs, q)
        BY <2>5, <2>6, <2>7
    <2>10. \A i \in LinesLeft(fs, q) : i \in LinesLeft(new, q) \/ i \in Overwritten(fs, p)
        BY <2>2, <2>3, <2>5, <2>6, <2>8
    <2> QED
        BY <2>9, <2>10
<1> QED
    BY <1>1, <1>2

LEMMA RenamedCount ==
    ASSUME now \in Nat \ {0}, NEW fs, NEW count \in Nat, DirInv(fs, count),
           NEW p \in Paths, NEW faults \in Nat, CountInv(fs, faults)
    PROVE  /\ CountInv(Renamed(fs, p), faults + 1)
           /\ \A q \in Paths \ {p} :
                 Cardinality(FilesOf(Renamed(fs, p), q)) + Room(Renamed(fs, p), q) <= Limit + faults
<1> DEFINE new == Renamed(fs, p)
           l   == Live(p)
           n   == Rotation(p)
<1>1. \A q : IsFiniteSet(FilesOf(fs, q)) /\ Cardinality(FilesOf(fs, q)) \in Nat
    BY FilesFinite DEF DirInv, DirType
<1>2. \A q : Room(new, q) \in {0, 1} /\ Room(fs, q) \in {0, 1}
    BY DEF Room
<1>3. CASE l \notin DOMAIN fs
    <2>1. new = fs
        BY <1>3 DEF Renamed
    <2> HIDE DEF new
    <2> QED
        BY <1>1, <1>2, <2>1, LimitType DEF CountInv, new
<1>4. CASE l \in DOMAIN fs
    <2>1. /\ DOMAIN new = (DOMAIN fs \ {l}) \cup {n}
          /\ l # n /\ l[1] = p /\ n[1] = p
          /\ \A q \in Paths : q # p => Live(q) # l /\ Live(q) # n
        BY <1>4, RenamedDir, LiveName
    <2> HIDE DEF new, l, n
    <2>2. /\ FilesOf(new, p) = (FilesOf(fs, p) \ {l}) \cup {n} /\ l \in FilesOf(fs, p)
          /\ \A q \in Paths \ {p} : FilesOf(new, q) = FilesOf(fs, q) /\ Room(new, q) = Room(fs, q)
        BY <1>4, <2>1 DEF FilesOf, Room
    <2>3. /\ IsFiniteSet(FilesOf(fs, p) \ {l})
          /\ Cardinality(FilesOf(fs, p) \ {l}) = Cardinality(FilesOf(fs, p)) - 1
        BY <1>1, <2>2, FS_RemoveElement
    <2>4. Cardinality(FilesOf(new, p)) \in Nat
            /\ Cardinality(FilesOf(new, p)) <= Cardinality(FilesOf(fs, p))
        <3> DEFINE F == FilesOf(fs, p)
                   G == F \ {l}
        <3>1. IsFiniteSet(G) /\ Cardinality(G) = Cardinality(F) - 1 /\ Cardinality(F) \in Nat
            BY <1>1, <2>3
        <3>2. Cardinality(G) \in Nat
            BY <3>1, FS_CardinalityType
        <3> HIDE DEF F, G
        <3>3. Cardinality(G \cup {n}) \in {Cardinality(G), Cardinality(G) + 1}
            BY <3>1, FS_AddElement
        <3>4. Cardinality(G \cup {n}) \in Nat /\ Cardinality(G \cup {n}) <= Cardinality(F)
            BY <3>1, <3>2, <3>3
        <3> QED
            BY <2>2, <3>4 DEF F, G
    <2>5. Room(fs, p) = 0
        BY <1>4 DEF Room, l
    <2>6. Cardinality(FilesOf(new, p)) + Room(new, p) <= Limit + (faults + 1)
        BY <1>1, <1>2, <2>4, <2>5, LimitType DEF CountInv
    <2>7. \A q \in Paths \ {p} : Cardinality(FilesOf(new, q)) + Room(new, q) <= Limit + faults
        BY <2>2 DEF CountInv
    <2>8. \A q \in Paths \ {p} : Cardinality(FilesOf(new, q)) + Room(new, q) <= Limit + (faults + 1)
        BY <1>1, <1>2, <2>2, <2>7, LimitType
    <2> QED
        BY <2>6, <2>7, <2>8 DEF CountInv, new
<1> QED
    BY <1>3, <1>4

LEMMA PrunedLines ==
    ASSUME NEW fs, NEW count \in Nat, DirInv(fs, count), NEW p \in Paths, Live(p) \in DOMAIN fs,
           NEW ex
    PROVE  /\ Gapless(fs, ex, p) => Gapless(Pruned(fs, p), ex, p)
           /\ \A q \in Paths \ {p} : /\ FilesOf(Pruned(fs, p), q) = FilesOf(fs, q)
                                     /\ LinesLeft(Pruned(fs, p), q) = LinesLeft(fs, q)
<1> DEFINE new == Pruned(fs, p)
<1>1. /\ DOMAIN new \subseteq DOMAIN fs
      /\ \A n \in DOMAIN new : new[n] = fs[n]
      /\ \A m \in DOMAIN fs \ DOMAIN new :
            m \in FilesOf(fs, p) /\ \A n \in FilesOf(new, p) : fs[m].stamp < fs[n].stamp
    BY PrunedDir
<1> HIDE DEF new
<1>2. \A q : \A i : i \in LinesLeft(new, q) <=> \E m \in FilesOf(new, q) : i \in ToSet(new[m].lines)
    BY DEF LinesLeft, LinesOf
<1>3. \A q : \A i : i \in LinesLeft(fs, q) <=> \E m \in FilesOf(fs, q) : i \in ToSet(fs[m].lines)
    BY DEF LinesLeft, LinesOf
<1>4. ASSUME NEW q \in Paths \ {p}
      PROVE  FilesOf(new, q) = FilesOf(fs, q) /\ LinesLeft(new, q) = LinesLeft(fs, q)
    <2>1. FilesOf(new, q) = FilesOf(fs, q) /\ \A m \in FilesOf(fs, q) : new[m] = fs[m]
        BY <1>1 DEF FilesOf
    <2>2. \A i : i \in LinesLeft(new, q) <=> i \in LinesLeft(fs, q)
        BY <1>2, <1>3, <2>1
    <2> QED
        BY <2>1, <2>2
<1>5. ASSUME Gapless(fs, ex, p), NEW i \in LinesLeft(new, p), NEW j \in LinesTo(p), j > i
      PROVE  j \in LinesLeft(new, p) \cup ex
    <2>1. PICK n \in FilesOf(new, p) : i \in ToSet(new[n].lines)
        BY <1>2
    <2>2. n \in FilesOf(fs, p) /\ new[n] = fs[n]
        BY <1>1 DEF FilesOf
    <2>3. i \in LinesLeft(fs, p)
        BY <1>3, <2>1, <2>2
    <2>4. j \in LinesLeft(fs, p) \cup ex
        BY <1>5, <2>3 DEF Gapless
    <2>5. ASSUME NEW m \in FilesOf(fs, p), j \in ToSet(fs[m].lines), m \notin DOMAIN new
          PROVE  FALSE
        <3>1. fs[m].stamp < fs[n].stamp
            BY <1>1, <2>5 DEF FilesOf
        <3>2. j < i
            BY <2>1, <2>2, <2>5, <3>1 DEF DirInv, InOrder
        <3>3. i \in Nat /\ j \in Nat
            <4>1. n \in DOMAIN fs /\ m \in DOMAIN fs
                BY <2>2 DEF FilesOf
            <4>2. ToSet(fs[n].lines) \subseteq 1 .. count /\ ToSet(fs[m].lines) \subseteq 1 .. count
                BY <4>1 DEF DirInv, DirType
            <4>3. i \in 1 .. count /\ j \in 1 .. count
                BY <2>1, <2>2, <2>5, <4>2
            <4> QED
                BY <4>3
        <3> QED
            BY <1>5, <3>2, <3>3
    <2>6. \A m \in FilesOf(fs, p) : m \in DOMAIN new => m \in FilesOf(new, p) /\ new[m] = fs[m]
        BY <1>1 DEF FilesOf
    <2> QED
        BY <1>2, <1>3, <2>4, <2>5, <2>6
<1> QED
    BY <1>4, <1>5 DEF Gapless, new

LEMMA TodayType == now \in Nat \ {0} => Today \in Nat
BY LogAssumption DEF Today

\* rotate_if_needed when the new file cannot be created: the handle stays with
\* the file that has just been renamed.
LEMMA RotationFails ==
    ASSUME now \in Nat \ {0}, NEW count \in Nat, NEW d, DirInv(d.files, count),
           HandleInv(d.files, d.writer), d.writer.path \in Paths
    PROVE  /\ DirInv(Rotated(d, TRUE).files, count)
           /\ HandleInv(Rotated(d, TRUE).files, Rotated(d, TRUE).writer)
           /\ Rotated(d, TRUE).writer.path = d.writer.path
           /\ Held(d.files, d.writer) => Held(Rotated(d, TRUE).files, Rotated(d, TRUE).writer)
           /\ Excuses(d.files, d.excused, Rotated(d, TRUE).files, Rotated(d, TRUE).excused)
           /\ d.excused \subseteq 1 .. count => Rotated(d, TRUE).excused \subseteq 1 .. count
           /\ \A faults \in Nat :
                 CountInv(d.files, faults) => CountInv(Rotated(d, TRUE).files, faults + 1)
<1> DEFINE p     == d.writer.path
           new   == Renamed(d.files, p)
           ex    == d.excused \cup Overwritten(d.files, p)
           today == IF d.writer.mode = "daily" THEN Today ELSE d.writer.day
           moved == d.writer.name = Live(p) /\ Live(p) \in DOMAIN d.files
           name  == IF moved THEN Rotation(p) ELSE d.writer.name
           w     == [d.writer EXCEPT !.day = today,
                                     !.name = IF moved THEN Rotation(p) ELSE @]
<1>1. /\ Rotated(d, TRUE).files = new /\ Rotated(d, TRUE).writer = w
      /\ Rotated(d, TRUE).excused = ex
    BY DEF Rotated
<1>2. /\ DirInv(new, count)
      /\ Live(p) \notin DOMAIN new
      /\ Excuses(d.files, d.excused, new, ex)
      /\ d.excused \subseteq 1 .. count => ex \subseteq 1 .. count
    BY RenamedLines
<1>3. \A faults \in Nat : CountInv(d.files, faults) => CountInv(new, faults + 1)
    BY RenamedCount
<1>4. d.writer \in Writer /\ today \in Nat
    BY TodayType DEF HandleInv, Writer
<1>5. p \in Paths /\ Rotation(p) \in Paths \X (0 .. now) /\ Rotation(p)[1] = p
        /\ Rotation(p) # NoFile
    BY LiveName
<1> HIDE DEF today, moved
<1>6. w = [d.writer EXCEPT !.day = today, !.name = name]
    BY <1>4 DEF Writer
<1>7. name \in (Paths \cup {NoPath}) \X Nat
    BY <1>4, <1>5 DEF Writer
<1>8. /\ w \in Writer /\ w.path = p /\ w.mode = d.writer.mode /\ w.size = d.writer.size
      /\ w.name = name
    <2> HIDE DEF name, w
    <2> QED
        BY <1>4, <1>6, <1>7 DEF Writer
<1> HIDE DEF w
<1>9. CASE moved
    <2>1. d.writer.name = Live(p) /\ Live(p) \in DOMAIN d.files /\ name = Rotation(p)
        BY <1>9 DEF moved
    <2>2. d.writer.name # NoFile
        BY <1>5, <2>1, LiveName
    <2>3. d.writer.size = d.files[Live(p)].bytes
        BY <2>1, <2>2 DEF HandleInv
    <2>4. /\ Rotation(p) \in DOMAIN new /\ new[Rotation(p)] = d.files[Live(p)]
          /\ IsNewest(new, Rotation(p))
        <3> DEFINE fs == d.files
        <3>1. DirInv(fs, count) /\ Live(p) \in DOMAIN fs
            BY <2>1
        <3> HIDE DEF fs, p
        <3>2. /\ DOMAIN Renamed(fs, p) = (DOMAIN fs \ {Live(p)}) \cup {Rotation(p)}
              /\ Renamed(fs, p)[Rotation(p)] = fs[Live(p)]
              /\ IsNewest(Renamed(fs, p), Rotation(p))
            <4> p \in Paths
                BY <1>5
            <4> QED
                BY <3>1, RenamedDir
        <3> QED
            BY <3>2 DEF new, fs
    <2>5. HandleInv(new, w)
        BY <1>2, <1>5, <1>8, <2>1, <2>3, <2>4 DEF HandleInv
    <2>6. Held(new, w)
        BY <1>8, <2>1, <2>4 DEF Held
    <2> QED
        BY <1>1, <1>2, <1>3, <1>8, <2>5, <2>6
<1>10. CASE ~moved
    <2>1. name = d.writer.name
        BY <1>10
    <2>2. name = NoFile \/ new = d.files
        <3>1. name # NoFile => Live(p) \notin DOMAIN d.files
            BY <1>10, <2>1 DEF moved, HandleInv
        <3> QED
            BY <3>1 DEF Renamed
    <2> HIDE DEF new, name, ex
    <2>3. HandleInv(new, w)
        BY <1>8, <2>1, <2>2 DEF HandleInv
    <2>4. Held(d.files, d.writer) => Held(new, w)
        BY <1>8, <2>1, <2>2 DEF Held
    <2> QED
        BY <1>1, <1>2, <1>3, <1>8, <2>3, <2>4
<1> QED
    BY <1>9, <1>10

\* And when it can: an empty live file, and the oldest files gone.
LEMMA RotationSucceeds ==
    ASSUME now \in Nat \ {0}, NEW count \in Nat, NEW d, DirInv(d.files, count),
           HandleInv(d.files, d.writer), d.writer.path \in Paths
    PROVE  /\ DirInv(Rotated(d, FALSE).files, count)
           /\ HandleInv(Rotated(d, FALSE).files, Rotated(d, FALSE).writer)
           /\ MaxFiles > 0 => Held(Rotated(d, FALSE).files, Rotated(d, FALSE).writer)
           /\ Rotated(d, FALSE).writer.path = d.writer.path
           /\ Rotated(d, FALSE).writer.mode = d.writer.mode
           /\ Rotated(d, FALSE).writer.name = Live(d.writer.path)
           /\ Live(d.writer.path) \in DOMAIN Rotated(d, FALSE).files =>
                 Rotated(d, FALSE).files[Live(d.writer.path)].lines = <<>>
           /\ d.excused \subseteq Rotated(d, FALSE).excused
           /\ d.excused \subseteq 1 .. count => Rotated(d, FALSE).excused \subseteq 1 .. count
           /\ \A q \in Paths : Gapless(d.files, d.excused, q) =>
                 Gapless(Rotated(d, FALSE).files, Rotated(d, FALSE).excused, q)
           /\ \A q \in Paths \ {d.writer.path} : Latest(d.files, d.excused, q) =>
                 Latest(Rotated(d, FALSE).files, Rotated(d, FALSE).excused, q)
           /\ \A faults \in Nat :
                 CountInv(d.files, faults) => CountInv(Rotated(d, FALSE).files, faults)
<1> DEFINE p       == d.writer.path
           l       == Live(p)
           renamed == Renamed(d.files, p)
           empty   == WithEmpty(renamed, l)
           new     == Pruned(empty, p)
           ex      == d.excused \cup Overwritten(d.files, p)
           today   == IF d.writer.mode = "daily" THEN Today ELSE d.writer.day
           w       == [d.writer EXCEPT !.day = today, !.name = l, !.size = 0]
<1>1. /\ Rotated(d, FALSE).files = new /\ Rotated(d, FALSE).writer = w
      /\ Rotated(d, FALSE).excused = ex
    BY DEF Rotated
<1>2. /\ DirInv(renamed, count)
      /\ l \notin DOMAIN renamed
      /\ Excuses(d.files, d.excused, renamed, ex)
      /\ d.excused \subseteq 1 .. count => ex \subseteq 1 .. count
    BY RenamedLines
<1>3. /\ DirInv(empty, count) /\ IsNewest(empty, l)
      /\ DOMAIN empty = DOMAIN renamed \cup {l}
      /\ \A m \in DOMAIN renamed : empty[m] = renamed[m]
      /\ empty[l].lines = <<>> /\ empty[l].bytes = 0
    <2>1. now \in Nat \ {0} /\ d.writer.path \in Paths
        OBVIOUS
    <2> HIDE DEF renamed, p
    <2>2. p \in Paths /\ Live(p) \notin DOMAIN renamed /\ DirInv(renamed, count)
        BY <1>2, <2>1 DEF p
    <2> QED
        BY <2>1, <2>2, EmptyFile
<1>4. /\ DirInv(new, count) /\ DOMAIN new \subseteq DOMAIN empty
      /\ \A n \in DOMAIN new : new[n] = empty[n]
      /\ MaxFiles > 0 => l \in DOMAIN new
      /\ Cardinality(FilesOf(new, p)) <= MaxFiles
    <2> HIDE DEF empty
    <2> QED
        BY <1>3, PrunedDir
<1>5. /\ Gapless(empty, ex, p) => Gapless(new, ex, p)
      /\ \A q \in Paths \ {p} : FilesOf(new, q) = FilesOf(empty, q)
                                /\ LinesLeft(new, q) = LinesLeft(empty, q)
    <2> HIDE DEF empty
    <2> QED
        BY <1>3, PrunedLines
<1>6. d.writer \in Writer /\ today \in Nat
    BY TodayType DEF HandleInv, Writer
<1>7. l \in Paths \X (0 .. now) /\ l[1] = p /\ l # NoFile /\ p \in Paths
    BY LiveName
<1> HIDE DEF today, renamed, empty, new, ex
<1>8. l \in (Paths \cup {NoPath}) \X Nat
    BY DEF Live
<1>9. /\ w \in Writer /\ w.path = p /\ w.mode = d.writer.mode /\ w.size = 0 /\ w.name = l
    <2> HIDE DEF l
    <2> QED
        BY <1>6, <1>8 DEF Writer
<1> HIDE DEF w, l
<1>10. l \in DOMAIN new => IsNewest(new, l) /\ new[l].bytes = 0 /\ new[l].lines = <<>>
    BY <1>3, <1>4, <1>7 DEF DirInv, LiveIsNewest, l
<1>11. HandleInv(new, w)
    BY <1>7, <1>9, <1>10 DEF HandleInv, l
<1>12. MaxFiles > 0 => Held(new, w)
    BY <1>4, <1>9 DEF Held
<1>13. \A q : LinesLeft(empty, q) = LinesLeft(renamed, q)
    BY <1>2, <1>3, SameLines
<1>14. ASSUME NEW q \in Paths, Gapless(d.files, d.excused, q)
       PROVE  Gapless(new, ex, q)
    <2>1. Gapless(renamed, ex, q)
        BY <1>2, <1>14, ExcusesKeeps
    <2>2. Gapless(empty, ex, q)
        BY <1>13, <2>1 DEF Gapless
    <2>3. CASE q = p
        BY <1>5, <2>2, <2>3
    <2>4. CASE q # p
        BY <1>5, <2>2, <2>4 DEF Gapless
    <2> QED
        BY <2>3, <2>4
<1>15. ASSUME NEW q \in Paths \ {p}, Latest(d.files, d.excused, q)
       PROVE  Latest(new, ex, q)
    <2>1. Latest(renamed, ex, q)
        BY <1>2, <1>15, ExcusesKeeps
    <2> QED
        BY <1>5, <1>13, <2>1 DEF Latest
<1>16. ASSUME NEW faults \in Nat, CountInv(d.files, faults)
       PROVE  CountInv(new, faults)
    <2> SUFFICES ASSUME NEW q \in Paths
                 PROVE  Cardinality(FilesOf(new, q)) + Room(new, q) <= Limit + faults
        BY DEF CountInv
    <2>1. Cardinality(FilesOf(new, p)) \in Nat /\ Room(new, p) \in {0, 1} /\ MaxFiles \in Nat
        BY <1>4, FilesFinite, LogAssumption DEF DirInv, DirType, Room
    <2>2. CASE q = p /\ MaxFiles > 0
        <3>1. Room(new, p) = 0
            BY <1>4, <2>2 DEF Room, l
        <3> QED
            BY <1>4, <2>1, <2>2, <3>1, LimitType
    <2>3. CASE q = p /\ ~(MaxFiles > 0)
        <3>1. Cardinality(FilesOf(new, p)) = 0
            BY <1>4, <2>1, <2>3
        <3> QED
            BY <2>1, <2>3, <3>1, LimitType
    <2>4. CASE q # p
        <3>1. Cardinality(FilesOf(renamed, q)) + Room(renamed, q) <= Limit + faults
            BY <1>16, <2>4, RenamedCount DEF renamed
        <3>2. FilesOf(empty, q) = FilesOf(renamed, q)
            BY <1>3, <1>7, <2>4 DEF FilesOf
        <3>3. FilesOf(new, q) = FilesOf(renamed, q)
            BY <1>5, <2>4, <3>2
        <3>4. \A fs : Live(q) \in DOMAIN fs <=> Live(q) \in FilesOf(fs, q)
            BY DEF FilesOf, Live
        <3>5. Room(new, q) = Room(renamed, q)
            BY <3>3, <3>4 DEF Room
        <3> QED
            BY <3>1, <3>3, <3>5
    <2> QED
        BY <2>2, <2>3, <2>4
<1>17. d.excused \subseteq ex
    BY DEF ex
<1>18. l = Live(d.writer.path)
    BY DEF l
<1> QED
    BY <1>1, <1>2, <1>4, <1>9, <1>10, <1>11, <1>12, <1>14, <1>15, <1>16, <1>17, <1>18

LEMMA MoreFaults ==
    ASSUME NEW fs, IsFiniteSet(DOMAIN fs), NEW faults \in Nat, CountInv(fs, faults)
    PROVE  CountInv(fs, faults + 1)
<1> SUFFICES ASSUME NEW p \in Paths
             PROVE  Cardinality(FilesOf(fs, p)) + Room(fs, p) <= Limit + (faults + 1)
    BY DEF CountInv
<1>1. Cardinality(FilesOf(fs, p)) \in Nat /\ Room(fs, p) \in {0, 1}
    BY FilesFinite DEF Room
<1>2. Cardinality(FilesOf(fs, p)) + Room(fs, p) <= Limit + faults
    BY DEF CountInv
<1> QED
    BY <1>1, <1>2, LimitType

LEMMA AppendedLines ==
    ASSUME NEW l \in Seq(Nat), NEW i \in Nat
    PROVE  ToSet(Append(l, i)) = ToSet(l) \cup {i} /\ Append(l, i) # <<>> /\ Append(l, i) \in Seq(Nat)
<1> DEFINE a == Append(l, i)
<1>1. DOMAIN a = DOMAIN l \cup {Len(l) + 1} /\ Len(l) + 1 \notin DOMAIN l
    OBVIOUS
<1>2. a[Len(l) + 1] = i /\ \A k \in DOMAIN l : a[k] = l[k]
    OBVIOUS
<1>3. a # <<>> /\ a \in Seq(Nat)
    OBVIOUS
<1> HIDE DEF a
<1>4. \A x : x \in ToSet(a) <=> x \in ToSet(l) \cup {i}
    BY <1>1, <1>2 DEF ToSet
<1> QED
    BY <1>3, <1>4 DEF a

\* What a file holds after one more line of size bytes and its newline.
LEMMA GrownFile ==
    ASSUME NEW l \in Seq(Nat), NEW b \in Nat, NEW size \in Nat, NEW count \in Nat,
           ToSet(l) \subseteq 1 .. count
    PROVE  /\ Append(l, count + 1) \in Seq(Nat) /\ Append(l, count + 1) # <<>>
           /\ ToSet(Append(l, count + 1)) = ToSet(l) \cup {count + 1}
           /\ ToSet(Append(l, count + 1)) \subseteq 1 .. count + 1
           /\ b + size + 1 \in Nat
           /\ \A most \in Nat : b + size + 1 > most + 1 => ~(b + size <= most)
<1>1. count + 1 \in Nat /\ count + 1 \in 1 .. count + 1 /\ 1 .. count \subseteq 1 .. count + 1
    OBVIOUS
<1>2. b + size + 1 \in Nat /\ \A most \in Nat : b + size + 1 > most + 1 => ~(b + size <= most)
    OBVIOUS
<1> DEFINE top == count + 1
           ll  == Append(l, top)
           low == 1 .. count
           all == 1 .. top
<1>3. ll \in Seq(Nat) /\ ll # <<>> /\ ToSet(ll) = ToSet(l) \cup {top}
    <2>1. top \in Nat
        BY <1>1
    <2> HIDE DEF top
    <2> QED
        BY <2>1, AppendedLines
<1>4. ToSet(ll) \subseteq all
    <2>1. ToSet(l) \subseteq low /\ top \in all /\ low \subseteq all
        BY <1>1
    <2> HIDE DEF ll, top, low, all
    <2> QED
        BY <1>3, <2>1
<1> QED
    BY <1>2, <1>3, <1>4

LEMMA MoreLines ==
    ASSUME NEW fs, NEW count \in Nat, DirInv(fs, count)
    PROVE  DirInv(fs, count + 1)
<1>1. 1 .. count \subseteq 1 .. count + 1
    OBVIOUS
<1> QED
    BY <1>1 DEF DirInv, DirType

\* write_line appends to the newest file of the path, or is lost with a file
\* that is not there.
LEMMA PutDisk ==
    ASSUME now \in Nat \ {0}, NEW count \in Nat, NEW d, DirInv(d.files, count),
           HandleInv(d.files, d.writer), d.writer.path \in Paths, NEW size \in Nat,
           d.writer.mode = "size" /\ d.writer.name \in DOMAIN d.files =>
               d.writer.size + size <= MaxBytes \/ d.files[d.writer.name].lines = <<>>
    PROVE  LET new == Put(d, count + 1, size) IN
           /\ DirInv(new.files, count + 1)
           /\ HandleInv(new.files, new.writer)
           /\ Held(d.files, d.writer) => Held(new.files, new.writer)
           /\ new.excused = d.excused
           /\ DOMAIN new.files = DOMAIN d.files
           /\ new.writer.path = d.writer.path
           /\ \A q \in Paths : /\ LinesLeft(d.files, q) \subseteq LinesLeft(new.files, q)
                              /\ LinesLeft(new.files, q) \subseteq LinesLeft(d.files, q) \cup {count + 1}
           /\ d.writer.name \in DOMAIN d.files => count + 1 \in LinesLeft(new.files, d.writer.path)
<1> DEFINE fs    == d.files
           w     == d.writer
           n     == w.name
           first == w.mode = "daily" /\ w.day = 0
           day   == IF first THEN Today ELSE w.day
           w2    == [w EXCEPT !.day = IF first THEN Today ELSE @, !.size = @ + size + 1]
           file  == [ lines |-> Append(fs[n].lines, count + 1), bytes |-> fs[n].bytes + size + 1,
                      stamp |-> Stamp(fs), at |-> now ]
           new   == IF n \notin DOMAIN fs THEN fs ELSE With(fs, n, file)
<1>1. /\ Put(d, count + 1, size).files = new /\ Put(d, count + 1, size).writer = w2
      /\ Put(d, count + 1, size).excused = d.excused
    BY DEF Put
<1>2. w \in Writer /\ day \in Nat /\ w.size \in Nat
    BY TodayType DEF HandleInv, Writer
<1>3. w2 \in Writer /\ w2.path = w.path /\ w2.mode = w.mode /\ w2.name = n /\ w2.size = w.size + size + 1
    <2>1. w2 = [w EXCEPT !.day = day, !.size = w.size + size + 1]
        BY <1>2 DEF Writer
    <2>2. w.size + size + 1 \in Nat
        BY <1>2
    <2> HIDE DEF day, w2, w
    <2> QED
        BY <1>2, <2>1, <2>2 DEF Writer
<1>4. CASE n \notin DOMAIN fs
    <2>1. new = fs
        BY <1>4
    <2> HIDE DEF new, w2
    <2>2. DirInv(new, count + 1)
        BY <2>1, MoreLines
    <2>3. HandleInv(new, w2)
        BY <1>3, <1>4, <2>1 DEF HandleInv
    <2>4. Held(fs, w) => Held(new, w2)
        BY <1>3, <2>1 DEF Held
    <2> QED
        BY <1>1, <1>3, <1>4, <2>1, <2>2, <2>3, <2>4
<1>5. CASE n \in DOMAIN fs
    <2> DEFINE p == w.path
    <2>1. new = With(fs, n, file)
        BY <1>5
    <2>2. /\ file.lines = Append(fs[n].lines, count + 1) /\ file.bytes = fs[n].bytes + size + 1
          /\ file.stamp = Stamp(fs) /\ file.at = now
        OBVIOUS
    <2>3. /\ DirType(fs, count) /\ InOrder(fs) /\ p \in Paths /\ fs[n] \in File
          /\ fs[n].lines \in Seq(Nat) /\ fs[n].bytes \in Nat
          /\ ToSet(fs[n].lines) \subseteq 1 .. count
        BY <1>5 DEF DirInv, DirType, File
    <2>4. /\ file.lines \in Seq(Nat) /\ file.lines # <<>>
          /\ ToSet(file.lines) = ToSet(fs[n].lines) \cup {count + 1}
          /\ ToSet(file.lines) \subseteq 1 .. count + 1
          /\ file.bytes \in Nat
          /\ \A most \in Nat : file.bytes > most + 1 => ~(fs[n].bytes + size <= most)
        <3> DEFINE l == fs[n].lines
                   b == fs[n].bytes
        <3>1. l \in Seq(Nat) /\ b \in Nat /\ ToSet(l) \subseteq 1 .. count
            BY <2>3
        <3>2. file.lines = Append(l, count + 1) /\ file.bytes = b + size + 1
            BY <2>2
        <3> HIDE DEF l, b, file, new, w2, day, first, p, n, w, fs
        <3>3. /\ Append(l, count + 1) \in Seq(Nat) /\ Append(l, count + 1) # <<>>
              /\ ToSet(Append(l, count + 1)) = ToSet(l) \cup {count + 1}
              /\ ToSet(Append(l, count + 1)) \subseteq 1 .. count + 1
              /\ b + size + 1 \in Nat
              /\ \A most \in Nat : b + size + 1 > most + 1 => ~(b + size <= most)
            BY <3>1, GrownFile
        <3> QED
            BY <3>2, <3>3 DEF l, b
    <2>5. Stamp(fs) \in Nat
        BY <2>3, StampIsGreatest
    <2>6. file \in File
        BY <2>4, <2>5 DEF File
    <2>7. n \in Paths \X (0 .. now) /\ n # NoFile
        <3>1. n \in Paths \X (0 .. now)
            BY <1>5, <2>3 DEF DirType
        <3> QED
            BY <3>1, LogAssumption DEF NoFile
    <2>8. /\ n[1] = p /\ (n = Live(p) \/ Live(p) \notin DOMAIN fs)
          /\ IsNewest(fs, n) /\ w.size = fs[n].bytes
        BY <1>5, <2>7 DEF HandleInv
    <2>9. /\ ToSet(file.lines) = ToSet(fs[n].lines) \cup {count + 1}
          /\ count + 1 \in ToSet(file.lines)
          /\ \A i \in ToSet(fs[n].lines) : i \in ToSet(file.lines)
        <3> HIDE DEF file
        <3> QED
            BY <2>4
    <2>12. \A i \in ToSet(file.lines) : \A m \in FilesOf(fs, p) \ {n} :
               \A j \in ToSet(fs[m].lines) : j < i
        <3> SUFFICES ASSUME NEW i \in ToSet(file.lines), NEW m \in FilesOf(fs, p) \ {n},
                            NEW j \in ToSet(fs[m].lines)
                     PROVE  j < i
            OBVIOUS
        <3>1. m \in DOMAIN fs /\ fs[m].stamp < fs[n].stamp /\ n \in FilesOf(fs, p)
            BY <1>5, <2>8 DEF FilesOf, IsNewest
        <3>2. j \in 1 .. count
            BY <2>3, <3>1 DEF DirType
        <3>3. CASE i = count + 1
            BY <3>2, <3>3
        <3>4. CASE i \in ToSet(fs[n].lines)
            BY <2>3, <3>1, <3>4 DEF InOrder
        <3> QED
            BY <2>9, <3>3, <3>4
    <2>13. BySize(p) => (file.bytes > MaxBytes + 1 => Len(file.lines) = 1)
        <3> SUFFICES ASSUME BySize(p), file.bytes > MaxBytes + 1
                     PROVE  Len(file.lines) = 1
            OBVIOUS
        <3>1. w.mode = "size"
            BY <2>3 DEF HandleInv, BySize
        <3>2. MaxBytes \in Nat
            BY LogAssumption
        <3>3. ~(w.size + size <= MaxBytes)
            <4>1. w.size = fs[n].bytes /\ ~(fs[n].bytes + size <= MaxBytes)
                <5> HIDE DEF file, new, w2, w, n, fs
                <5> QED
                    BY <2>4, <2>8, <3>2
            <4> HIDE DEF w, n, fs
            <4> QED
                BY <4>1
        <3>4. fs[n].lines = <<>>
            BY <1>5, <3>1, <3>3
        <3> QED
            BY <2>2, <3>4
    <2> HIDE DEF file, new, w2
    <2>14. DirInv(new, count + 1) /\ IsNewest(new, n)
        <3> DEFINE top == count + 1
        <3>1. top \in Nat /\ top >= count /\ ToSet(file.lines) \subseteq 1 .. top
            BY <2>4
        <3>2. file.at = now /\ (file.lines = <<>> => file.bytes = 0)
            BY <2>2, <2>4
        <3> HIDE DEF top, fs, n, p
        <3>3. Fits(fs, p, n, file, top)
            BY <2>2, <2>3, <2>6, <2>7, <2>8, <2>12, <2>13, <3>1, <3>2 DEF Fits
        <3>4. DirInv(With(fs, n, file), top) /\ IsNewest(With(fs, n, file), n)
            <4>1. DirInv(fs, count)
                BY DEF fs
            <4> QED
                BY <3>1, <3>3, <4>1, NewestFile
        <3> QED
            BY <2>1, <3>4 DEF top
    <2>15. DOMAIN new = DOMAIN fs /\ new[n] = file /\ \A m \in DOMAIN fs \ {n} : new[m] = fs[m]
        BY <1>5, <2>1 DEF With
    <2>16. HandleInv(new, w2)
        <3>1. w2.size = new[n].bytes
            BY <1>3, <2>2, <2>8, <2>15
        <3>2. n \in Paths \X (0 .. now) /\ n[1] = w2.path /\ w2.name = n /\ w2.path \in Paths
            BY <1>3, <2>3, <2>7, <2>8
        <3>3. w2.name = Live(w2.path) \/ Live(w2.path) \notin DOMAIN new
            BY <1>3, <2>8, <2>15
        <3>4. \E c \in Configs : c.path = w2.path /\ c.mode = w2.mode
            BY <1>3, <2>3 DEF HandleInv
        <3> HIDE DEF n
        <3> QED
            BY <1>3, <2>14, <3>1, <3>2, <3>3, <3>4 DEF HandleInv
    <2>17. Held(new, w2)
        BY <1>3, <1>5, <2>15 DEF Held
    <2>18. ASSUME NEW q \in Paths
           PROVE  /\ LinesLeft(fs, q) \subseteq LinesLeft(new, q)
                  /\ LinesLeft(new, q) \subseteq LinesLeft(fs, q) \cup {count + 1}
        <3>1. \A i : i \in LinesLeft(new, q) <=> \E m \in FilesOf(new, q) : i \in ToSet(new[m].lines)
            BY DEF LinesLeft, LinesOf
        <3>2. \A i : i \in LinesLeft(fs, q) <=> \E m \in FilesOf(fs, q) : i \in ToSet(fs[m].lines)
            BY DEF LinesLeft, LinesOf
        <3>3. FilesOf(new, q) = FilesOf(fs, q) /\ \A m \in FilesOf(fs, q) : m \in DOMAIN fs
            BY <2>15 DEF FilesOf
        <3>4. \A m \in FilesOf(fs, q) : \A i \in ToSet(fs[m].lines) : i \in ToSet(new[m].lines)
            BY <2>9, <2>15, <3>3
        <3>5. \A m \in FilesOf(fs, q) : \A i \in ToSet(new[m].lines) :
                 i = count + 1 \/ i \in ToSet(fs[m].lines)
            BY <2>9, <2>15, <3>3
        <3> QED
            BY <3>1, <3>2, <3>3, <3>4, <3>5
    <2>19. count + 1 \in LinesLeft(new, p)
        <3>1. n \in FilesOf(new, p)
            BY <1>5, <2>8, <2>15 DEF FilesOf
        <3> QED
            BY <2>9, <2>15, <3>1 DEF LinesLeft, LinesOf
    <2> QED
        BY <1>1, <1>3, <2>14, <2>15, <2>16, <2>17, <2>18, <2>19
<1> QED
    BY <1>4, <1>5

-----------------------------------------------------------------------------
(* write_line in full.  The parts of ToFile have names here. *)

RotatedFor(g, size, openFails, createFails) ==
    IF Due(Opened(g, openFails).writer, size) THEN Rotated(Opened(g, openFails), createFails)
    ELSE Opened(g, openFails)

LostFor(g, size, openFails, createFails) ==
    createFails \/ RotatedFor(g, size, openFails, createFails).writer.name = NoFile

DiskFor(g, size, openFails, createFails) ==
    LET rotated == RotatedFor(g, size, openFails, createFails)
    IN IF createFails THEN rotated ELSE Put(rotated, Len(written) + 1, size)

LEMMA RotatedDisk ==
    ASSUME now \in Nat \ {0}, NEW g \in Configs, NEW count \in Nat,
           DirInv(files, count), HandleInv(files, writer), excused \subseteq 1 .. count,
           NEW size \in Nat, NEW of \in BOOLEAN, NEW cf \in BOOLEAN,
           cf => Due(Opened(g, of).writer, size)
    PROVE  LET r == RotatedFor(g, size, of, cf) IN
           /\ DirInv(r.files, count) /\ HandleInv(r.files, r.writer)
           /\ r.writer.path = g.path
           /\ Held(files, writer) /\ MaxFiles > 0 => Held(r.files, r.writer)
           /\ excused \subseteq r.excused /\ r.excused \subseteq 1 .. count
           /\ \A q \in Paths : Gapless(files, excused, q) => Gapless(r.files, r.excused, q)
           /\ \A q \in Paths : Latest(files, excused, q) /\ (LostFor(g, size, of, cf) \/ q # g.path)
                 => Latest(r.files, r.excused, q)
           /\ \A faults \in Nat : CountInv(files, faults) =>
                 CountInv(r.files, IF of \/ cf THEN faults + 1 ELSE faults)
           /\ ~cf /\ r.writer.mode = "size" /\ r.writer.name \in DOMAIN r.files =>
                 r.writer.size + size <= MaxBytes \/ r.files[r.writer.name].lines = <<>>
<1> DEFINE d == Opened(g, of)
           r == RotatedFor(g, size, of, cf)
           c == g.path
<1>1. /\ DirInv(d.files, count) /\ HandleInv(d.files, d.writer)
      /\ d.writer.path = c
      /\ Held(files, writer) => Held(d.files, d.writer)
      /\ Excuses(files, excused, d.files, d.excused)
      /\ d.excused \subseteq 1 .. count
      /\ \A faults \in Nat : CountInv(files, faults) => CountInv(d.files, faults)
    BY OpenedDisk
<1>2. c \in Paths
    BY LogAssumption DEF ConfigType
<1>3. \A fs : \A faults \in Nat : CountInv(fs, faults) /\ IsFiniteSet(DOMAIN fs)
        => CountInv(fs, IF of \/ cf THEN faults + 1 ELSE faults)
    BY MoreFaults
<1>4. \A q \in Paths : /\ Gapless(files, excused, q) => Gapless(d.files, d.excused, q)
                       /\ Latest(files, excused, q) => Latest(d.files, d.excused, q)
    BY <1>1, ExcusesKeeps
<1>5. IsFiniteSet(DOMAIN d.files)
    BY <1>1 DEF DirInv, DirType
<1>6. excused \subseteq d.excused
    BY <1>1 DEF Excuses
<1>7. ASSUME ~Due(d.writer, size)
      PROVE  ~(d.writer.mode = "size" /\ d.writer.size + size > MaxBytes)
    BY <1>7 DEF Due
<1>8. d.writer.size \in Nat /\ MaxBytes \in Nat
    BY <1>1, LogAssumption DEF HandleInv, Writer
<1>9. CASE ~Due(d.writer, size)
    <2>1. r = d /\ ~cf
        BY <1>9 DEF RotatedFor
    <2> HIDE DEF d, r
    <2>2. ~cf /\ r.writer.mode = "size" => r.writer.size + size <= MaxBytes
        BY <1>7, <1>8, <1>9, <2>1
    <2>3. \A faults \in Nat : CountInv(files, faults) =>
              CountInv(r.files, IF of \/ cf THEN faults + 1 ELSE faults)
        BY <1>1, <1>3, <1>5, <2>1
    <2> QED
        BY <1>1, <1>4, <1>6, <2>1, <2>2, <2>3 DEF r
<1>10. CASE Due(d.writer, size) /\ cf
    <2>1. r = Rotated(d, TRUE) /\ cf
        BY <1>10 DEF RotatedFor
    <2> HIDE DEF d, r
    <2>2. /\ DirInv(r.files, count) /\ HandleInv(r.files, r.writer)
          /\ r.writer.path = d.writer.path
          /\ Held(d.files, d.writer) => Held(r.files, r.writer)
          /\ Excuses(d.files, d.excused, r.files, r.excused)
          /\ r.excused \subseteq 1 .. count
          /\ \A faults \in Nat : CountInv(d.files, faults) => CountInv(r.files, faults + 1)
        BY <1>1, <1>2, <2>1, RotationFails
    <2>3. \A q \in Paths : /\ Gapless(files, excused, q) => Gapless(r.files, r.excused, q)
                           /\ Latest(files, excused, q) => Latest(r.files, r.excused, q)
        BY <1>4, <2>2, ExcusesKeeps
    <2>4. excused \subseteq r.excused
        BY <1>6, <2>2 DEF Excuses
    <2>5. \A faults \in Nat : CountInv(files, faults) =>
              CountInv(r.files, IF of \/ cf THEN faults + 1 ELSE faults)
        BY <1>1, <1>10, <2>2
    <2> QED
        BY <1>1, <1>10, <2>2, <2>3, <2>4, <2>5 DEF r
<1>11. CASE Due(d.writer, size) /\ ~cf
    <2>1. r = Rotated(d, FALSE) /\ ~cf
        BY <1>11 DEF RotatedFor
    <2> HIDE DEF d, r
    <2>2. /\ DirInv(r.files, count) /\ HandleInv(r.files, r.writer)
          /\ MaxFiles > 0 => Held(r.files, r.writer)
          /\ r.writer.path = d.writer.path
          /\ r.writer.name = Live(d.writer.path)
          /\ Live(d.writer.path) \in DOMAIN r.files => r.files[Live(d.writer.path)].lines = <<>>
          /\ d.excused \subseteq r.excused
          /\ r.excused \subseteq 1 .. count
          /\ \A q \in Paths : Gapless(d.files, d.excused, q) => Gapless(r.files, r.excused, q)
          /\ \A q \in Paths \ {d.writer.path} :
                Latest(d.files, d.excused, q) => Latest(r.files, r.excused, q)
          /\ \A faults \in Nat : CountInv(d.files, faults) => CountInv(r.files, faults)
        BY <1>1, <1>2, <2>1, RotationSucceeds
    <2>3. r.writer.name # NoFile
        BY <1>1, <1>2, <2>2, LiveName
    <2>4. ~LostFor(g, size, of, cf)
        BY <1>11, <2>3 DEF LostFor, r
    <2>5. IsFiniteSet(DOMAIN r.files)
        BY <2>2 DEF DirInv, DirType
    <2>6. \A faults \in Nat : CountInv(files, faults) =>
              CountInv(r.files, IF of \/ cf THEN faults + 1 ELSE faults)
        BY <1>1, <1>3, <2>2, <2>5
    <2>7. r.writer.name \in DOMAIN r.files => r.files[r.writer.name].lines = <<>>
        BY <2>2
    <2>8. excused \subseteq r.excused
        BY <1>6, <2>2
    <2> QED
        BY <1>1, <1>4, <2>2, <2>4, <2>6, <2>7, <2>8 DEF r
<1> QED
    BY <1>9, <1>10, <1>11

\* The line itself, when it is not given up, is in a file of the path.
LEMMA LineOnDisk ==
    ASSUME now \in Nat \ {0}, NEW g \in Configs, Len(written) \in Nat, DOMAIN written = 1 .. Len(written),
           DirInv(files, Len(written)), HandleInv(files, writer), excused \subseteq 1 .. Len(written),
           NEW size \in Nat, NEW of \in BOOLEAN, NEW cf \in BOOLEAN,
           cf => Due(Opened(g, of).writer, size)
    PROVE  LET k == DiskFor(g, size, of, cf) IN
           /\ DirInv(k.files, Len(written) + 1) /\ HandleInv(k.files, k.writer)
           /\ Held(files, writer) /\ MaxFiles > 0 => Held(k.files, k.writer)
           /\ excused \subseteq k.excused /\ k.excused \subseteq 1 .. Len(written)
           /\ \A q \in Paths : Gapless(files, excused, q) => Gapless(k.files, k.excused, q)
           /\ \A q \in Paths : Latest(files, excused, q) /\ (LostFor(g, size, of, cf) \/ q # g.path)
                 => Latest(k.files, k.excused, q)
           /\ Held(files, writer) /\ MaxFiles > 0 /\ ~LostFor(g, size, of, cf) =>
                 Len(written) + 1 \in LinesLeft(k.files, g.path)
           /\ \A faults \in Nat : CountInv(files, faults) =>
                 CountInv(k.files, IF of \/ cf THEN faults + 1 ELSE faults)
<1> DEFINE count == Len(written)
           r == RotatedFor(g, size, of, cf)
           k == DiskFor(g, size, of, cf)
           c == g.path
<1>1. /\ DirInv(r.files, count) /\ HandleInv(r.files, r.writer)
      /\ r.writer.path = c
      /\ Held(files, writer) /\ MaxFiles > 0 => Held(r.files, r.writer)
      /\ excused \subseteq r.excused /\ r.excused \subseteq 1 .. count
      /\ \A q \in Paths : Gapless(files, excused, q) => Gapless(r.files, r.excused, q)
      /\ \A q \in Paths : Latest(files, excused, q) /\ (LostFor(g, size, of, cf) \/ q # c)
            => Latest(r.files, r.excused, q)
      /\ \A faults \in Nat : CountInv(files, faults) =>
            CountInv(r.files, IF of \/ cf THEN faults + 1 ELSE faults)
      /\ ~cf /\ r.writer.mode = "size" /\ r.writer.name \in DOMAIN r.files =>
            r.writer.size + size <= MaxBytes \/ r.files[r.writer.name].lines = <<>>
    <2> DEFINE count2 == Len(written)
    <2>1. count2 \in Nat /\ DirInv(files, count2) /\ excused \subseteq 1 .. count2
        OBVIOUS
    <2>2. now \in Nat \ {0} /\ HandleInv(files, writer) /\ g \in Configs
            /\ size \in Nat /\ of \in BOOLEAN /\ cf \in BOOLEAN
            /\ (cf => Due(Opened(g, of).writer, size))
        OBVIOUS
    <2> HIDE DEF count2, r, c
    <2>3. /\ DirInv(r.files, count2) /\ HandleInv(r.files, r.writer)
          /\ r.writer.path = c
          /\ Held(files, writer) /\ MaxFiles > 0 => Held(r.files, r.writer)
          /\ excused \subseteq r.excused /\ r.excused \subseteq 1 .. count2
          /\ \A q \in Paths : Gapless(files, excused, q) => Gapless(r.files, r.excused, q)
          /\ \A q \in Paths : Latest(files, excused, q) /\ (LostFor(g, size, of, cf) \/ q # c)
                => Latest(r.files, r.excused, q)
          /\ \A faults \in Nat : CountInv(files, faults) =>
                CountInv(r.files, IF of \/ cf THEN faults + 1 ELSE faults)
          /\ ~cf /\ r.writer.mode = "size" /\ r.writer.name \in DOMAIN r.files =>
                r.writer.size + size <= MaxBytes \/ r.files[r.writer.name].lines = <<>>
        BY <2>1, <2>2, RotatedDisk DEF r, c
    <2> QED
        BY <2>3 DEF count2
<1>2. c \in Paths
    BY LogAssumption DEF ConfigType
<1>3. count \in Nat /\ DOMAIN written = 1 .. count
    OBVIOUS
<1> HIDE DEF count
<1>4. CASE cf
    <2>1. k = r /\ LostFor(g, size, of, cf)
        BY <1>4 DEF DiskFor, LostFor
    <2> HIDE DEF k, r
    <2>2. DirInv(k.files, count + 1)
        BY <1>1, <1>3, <2>1, MoreLines
    <2> QED
        BY <1>1, <2>1, <2>2 DEF k, count
<1>5. CASE ~cf
    <2>1. k = Put(r, count + 1, size)
        BY <1>5 DEF DiskFor, count
    <2> HIDE DEF k, r, c
    <2>2. /\ DirInv(k.files, count + 1) /\ HandleInv(k.files, k.writer)
          /\ Held(r.files, r.writer) => Held(k.files, k.writer)
          /\ k.excused = r.excused
          /\ DOMAIN k.files = DOMAIN r.files
          /\ \A q \in Paths : /\ LinesLeft(r.files, q) \subseteq LinesLeft(k.files, q)
                              /\ LinesLeft(k.files, q) \subseteq LinesLeft(r.files, q) \cup {count + 1}
          /\ r.writer.name \in DOMAIN r.files => count + 1 \in LinesLeft(k.files, r.writer.path)
        <3>1. r.writer.path \in Paths
            BY <1>1, <1>2
        <3>2. r.writer.mode = "size" /\ r.writer.name \in DOMAIN r.files =>
                  r.writer.size + size <= MaxBytes \/ r.files[r.writer.name].lines = <<>>
            BY <1>1, <1>5
        <3>3. count \in Nat /\ DirInv(r.files, count) /\ HandleInv(r.files, r.writer)
            BY <1>1, <1>3
        <3> DEFINE new == Put(r, count + 1, size)
        <3>4. /\ DirInv(new.files, count + 1)
              /\ HandleInv(new.files, new.writer)
              /\ Held(r.files, r.writer) => Held(new.files, new.writer)
              /\ new.excused = r.excused
              /\ DOMAIN new.files = DOMAIN r.files
              /\ new.writer.path = r.writer.path
              /\ \A q \in Paths : /\ LinesLeft(r.files, q) \subseteq LinesLeft(new.files, q)
                                 /\ LinesLeft(new.files, q) \subseteq LinesLeft(r.files, q) \cup {count + 1}
              /\ r.writer.name \in DOMAIN r.files => count + 1 \in LinesLeft(new.files, r.writer.path)
            BY <3>1, <3>2, <3>3, PutDisk
        <3> HIDE DEF new
        <3> QED
            BY <2>1, <3>4 DEF new
    <2>3. \A q : LinesTo(q) \subseteq 1 .. count
        BY <1>3 DEF LinesTo
    <2>4. ASSUME NEW q \in Paths, Gapless(r.files, r.excused, q)
          PROVE  Gapless(k.files, k.excused, q)
        <3> SUFFICES ASSUME NEW i \in LinesLeft(k.files, q), NEW j \in LinesTo(q), j > i
                     PROVE  j \in LinesLeft(k.files, q) \cup k.excused
            BY DEF Gapless
        <3>1. j \in 1 .. count
            BY <2>3
        <3>2. i # count + 1
            BY <1>3, <3>1
        <3>3. i \in LinesLeft(r.files, q)
            BY <2>2, <3>2
        <3>4. j \in LinesLeft(r.files, q) \cup r.excused
            BY <2>4, <3>3 DEF Gapless
        <3> QED
            BY <2>2, <3>4
    <2>5. ASSUME NEW q \in Paths, Latest(r.files, r.excused, q)
          PROVE  Latest(k.files, k.excused, q)
        BY <2>2, <2>5 DEF Latest
    <2>6. \A faults \in Nat : CountInv(r.files, faults) => CountInv(k.files, faults)
        BY <2>2 DEF CountInv, FilesOf, Room
    <2>7. ASSUME Held(files, writer), MaxFiles > 0, ~LostFor(g, size, of, cf)
          PROVE  count + 1 \in LinesLeft(k.files, c)
        <3>1. r.writer.name # NoFile
            BY <2>7 DEF LostFor, r
        <3>2. r.writer.name \in DOMAIN r.files
            BY <1>1, <2>7, <3>1 DEF Held
        <3> QED
            BY <1>1, <2>2, <3>2
    <2>8. \A faults \in Nat : CountInv(files, faults) =>
              CountInv(k.files, IF of \/ cf THEN faults + 1 ELSE faults)
        <3> SUFFICES ASSUME NEW faults \in Nat, CountInv(files, faults)
                     PROVE  CountInv(k.files, IF of \/ cf THEN faults + 1 ELSE faults)
            OBVIOUS
        <3> DEFINE more == IF of \/ cf THEN faults + 1 ELSE faults
        <3>1. CountInv(r.files, more) /\ more \in Nat
            BY <1>1
        <3> HIDE DEF more
        <3> QED
            BY <2>6, <3>1 DEF more
    <2>9. /\ \A q \in Paths : Gapless(files, excused, q) => Gapless(k.files, k.excused, q)
          /\ \A q \in Paths : Latest(files, excused, q) /\ (LostFor(g, size, of, cf) \/ q # c)
                => Latest(k.files, k.excused, q)
        BY <1>1, <2>4, <2>5
    <2> QED
        BY <1>1, <2>2, <2>7, <2>8, <2>9 DEF k, c, count
<1> QED
    BY <1>4, <1>5

-----------------------------------------------------------------------------
(* The invariants.                                                         *)

Line == [dest : Paths \cup {NoPath}, size : Nat, body : BOOLEAN]

StateType ==
    /\ config \in Configs
    /\ requests \in [Requests -> [stage : {"idle", "received", "answered", "finished"},
                                  body : BOOLEAN]]
    /\ channel \in Seq(Event) /\ Len(channel) <= ChannelSize
    /\ holding \in Seq(Event) /\ Len(holding) <= 1
    /\ snapshot \in Seq(Configs) /\ Len(snapshot) <= 1 /\ fresh \in BOOLEAN
    /\ now \in Nat \ {0}
    /\ written \in Seq(Line)
    /\ excused \subseteq 1 .. Len(written)
    /\ spent \in [faults : Nat, changes : Nat, restarts : Nat]

FilesInv ==
    /\ DirInv(files, Len(written)) /\ HandleInv(files, writer)
    /\ CountInv(files, spent.faults)

LogInv == StateType /\ FilesInv

TailInv ==
    /\ Held(files, writer)
    /\ \A p \in Paths : Gapless(files, excused, p) /\ Latest(files, excused, p)

LEMMA EmptyDirectory ==
    ASSUME NEW fs, DOMAIN fs = {}
    PROVE  DirInv(fs, 0) /\ CountInv(fs, 0) /\ \A p : LinesLeft(fs, p) = {}
<1>1. \A p : FilesOf(fs, p) = {}
    BY DEF FilesOf
<1>2. IsFiniteSet({}) /\ Cardinality({}) = 0
    BY FS_EmptySet
<1>3. DirInv(fs, 0)
    BY <1>1, <1>2 DEF DirInv, DirType, InOrder, LiveIsNewest, SizeInv
<1>4. CountInv(fs, 0)
    BY <1>1, <1>2, LimitType DEF CountInv, Room
<1> QED
    BY <1>1, <1>3, <1>4 DEF LinesLeft, LinesOf

LEMMA NewHandle ==
    ASSUME NEW fs
    PROVE  HandleInv(fs, NoWriter) /\ Held(fs, NoWriter)
<1>1. NoWriter \in Writer
    BY DEF NoWriter, Writer, NoFile
<1>2. NoWriter.path = NoPath /\ NoWriter.name = NoFile
    BY DEF NoWriter
<1> QED
    BY <1>1, <1>2, LogAssumption DEF HandleInv, Held

LEMMA LogInit_LogInv == LogInit => LogInv /\ TailInv
<1> SUFFICES ASSUME LogInit
             PROVE  LogInv /\ TailInv
    OBVIOUS
<1> USE DEF LogInit
<1>1. StateType
    <2>1. /\ channel \in Seq(Event) /\ Len(channel) <= ChannelSize
          /\ holding \in Seq(Event) /\ Len(holding) <= 1
        BY LogAssumption
    <2>2. snapshot \in Seq(Configs) /\ Len(snapshot) <= 1
        OBVIOUS
    <2>3. written \in Seq(Line) /\ excused \subseteq 1 .. Len(written)
        OBVIOUS
    <2>4. requests \in [Requests -> [stage : {"idle", "received", "answered", "finished"},
                                     body : BOOLEAN]]
        BY DEF Idle
    <2>5. spent \in [faults : Nat, changes : Nat, restarts : Nat] /\ now \in Nat \ {0}
        OBVIOUS
    <2>6. config \in Configs /\ fresh \in BOOLEAN
        BY Zenon
    <2> HIDE DEF LogInit
    <2> QED
        BY <2>1, <2>2, <2>3, <2>4, <2>5, <2>6 DEF StateType
<1>2. DOMAIN files = {} /\ Len(written) = 0 /\ spent.faults = 0 /\ DOMAIN written = {}
    OBVIOUS
<1>3. FilesInv
    BY <1>2, EmptyDirectory, NewHandle DEF FilesInv
<1>4. \A p : LinesLeft(files, p) = {} /\ LinesTo(p) = {}
    BY <1>2, EmptyDirectory DEF LinesTo
<1>5. TailInv
    BY <1>4, NewHandle DEF TailInv, Gapless, Latest
<1> QED
    BY <1>1, <1>3, <1>5 DEF LogInv

\* Steps that leave the files, the handle and the lines alone.
LEMMA FilesKept ==
    ASSUME UNCHANGED <<files, writer, now, written, excused>>, spent'.faults = spent.faults
    PROVE  (FilesInv => FilesInv') /\ (TailInv => TailInv')
BY DEF FilesInv, TailInv, DirInv, DirType, InOrder, LiveIsNewest, IsNewest, SizeInv, HandleInv, Held,
       CountInv, Gapless, Latest, LinesTo, LinesLeft, LinesOf, FilesOf, Room

LEMMA EventType ==
    ASSUME NEW e \in Event, StateType, TrySend(e)
    PROVE  channel' \in Seq(Event) /\ Len(channel') <= ChannelSize
BY LogAssumption DEF StateType, TrySend

LEMMA LineAppended ==
    ASSUME StateType, NEW line \in Line, written' = Append(written, line)
    PROVE  /\ written' \in Seq(Line) /\ Len(written') = Len(written) + 1
           /\ Len(written) \in Nat /\ DOMAIN written = 1 .. Len(written)
           /\ \A q : LinesTo(q)' = IF line.dest = q THEN LinesTo(q) \cup {Len(written) + 1} ELSE LinesTo(q)
           /\ 1 .. Len(written) \subseteq 1 .. Len(written')
<1> USE DEF StateType
<1>1. written \in Seq(Line)
    OBVIOUS
<1>2. /\ written' \in Seq(Line) /\ Len(written') = Len(written) + 1
      /\ Len(written) \in Nat /\ DOMAIN written = 1 .. Len(written)
      /\ DOMAIN written' = DOMAIN written \cup {Len(written) + 1}
      /\ written'[Len(written) + 1] = line
      /\ \A i \in DOMAIN written : written'[i] = written[i] /\ i # Len(written) + 1
    BY <1>1
<1>3. ASSUME NEW q
      PROVE  LinesTo(q)' = IF line.dest = q THEN LinesTo(q) \cup {Len(written) + 1} ELSE LinesTo(q)
    BY <1>2 DEF LinesTo
<1> QED
    BY <1>2, <1>3

LEMMA LineType ==
    ASSUME StateType, holding # <<>>, NEW size \in Sizes, NEW dest \in Paths \cup {NoPath}
    PROVE  LineTo(dest, size) \in Line /\ LineTo(dest, size).dest = dest
<1>1. Shown(Head(snapshot), Head(holding)) \in BOOLEAN
    <2>1. Head(holding) \in Event
        BY DEF StateType
    <2>2. Head(holding).body \in BOOLEAN
        BY <2>1 DEF Event
    <2> QED
        BY <2>2 DEF Shown
<1>2. size \in Nat
    BY LogAssumption
<1> DEFINE b == Shown(Head(snapshot), Head(holding))
<1>3. LineTo(dest, size) = [dest |-> dest, size |-> size, body |-> b]
    BY DEF LineTo
<1> HIDE DEF b
<1>4. b \in BOOLEAN
    BY <1>1 DEF b
<1> QED
    BY <1>2, <1>3, <1>4 DEF Line

LEMMA StderrKeeps ==
    ASSUME LogInv, NEW size \in Sizes, ToStderr(size)
    PROVE  LogInv' /\ (TailInv => TailInv')
<1> USE DEF ToStderr
<1> DEFINE line == LineTo(NoPath, size)
<1>1. StateType /\ FilesInv /\ holding # <<>>
    BY DEF LogInv
<1>2. line \in Line /\ line.dest = NoPath
    BY <1>1, LineType
<1>3. written' = Append(written, line) /\ UNCHANGED <<files, writer, now, excused, spent>>
    OBVIOUS
<1> HIDE DEF line
<1>4. /\ written' \in Seq(Line) /\ Len(written') = Len(written) + 1 /\ Len(written) \in Nat
      /\ 1 .. Len(written) \subseteq 1 .. Len(written')
      /\ \A q \in Paths : LinesTo(q)' = LinesTo(q)
    BY <1>1, <1>2, <1>3, LineAppended, LogAssumption
<1>5. StateType'
    BY <1>1, <1>4 DEF StateType
<1>6. DirInv(files, Len(written) + 1)
    BY <1>1, <1>4, MoreLines DEF FilesInv
<1>7. DirInv(files, Len(written))'
    BY <1>3, <1>4, <1>6 DEF DirInv, DirType, InOrder, LiveIsNewest, IsNewest, SizeInv, FilesOf
<1>8. HandleInv(files, writer)' /\ CountInv(files, spent.faults)'
    BY <1>1, <1>3 DEF FilesInv, HandleInv, CountInv, IsNewest, FilesOf, Room
<1>9. TailInv => TailInv'
    BY <1>3, <1>4 DEF TailInv, Held, Gapless, Latest, LinesLeft, LinesOf, FilesOf
<1> QED
    BY <1>5, <1>7, <1>8, <1>9 DEF LogInv, FilesInv

LEMMA TickKeeps ==
    ASSUME LogInv, Tick
    PROVE  LogInv' /\ (TailInv => TailInv')
<1> USE DEF Tick
<1>1. StateType'
    BY DEF LogInv, StateType
<1>2. now \in Nat /\ now' = now + 1 /\ 0 .. now \subseteq 0 .. now'
    BY DEF LogInv, StateType
<1>3. UNCHANGED <<files, writer, written, excused, spent>>
    OBVIOUS
<1>4. DirType(files, Len(written))'
    <2>1. DirType(files, Len(written))
        BY DEF LogInv, FilesInv, DirInv
    <2>2. \A n \in DOMAIN files : files[n].at <= now'
        BY <1>2, <2>1 DEF DirType, File
    <2>3. Paths \X (0 .. now) \subseteq Paths \X (0 .. now')
        BY <1>2
    <2> HIDE DEF Tick
    <2> QED
        BY <1>3, <2>1, <2>2, <2>3 DEF DirType
<1>5. DirInv(files, Len(written))'
    BY <1>3, <1>4 DEF LogInv, FilesInv, DirInv, InOrder, LiveIsNewest, IsNewest, SizeInv, FilesOf
<1>6. HandleInv(files, writer)'
    <2>1. HandleInv(files, writer)
        BY DEF LogInv, FilesInv
    <2>2. Paths \X (0 .. now) \subseteq Paths \X (0 .. now')
        BY <1>2
    <2> HIDE DEF Tick
    <2> QED
        BY <1>3, <2>1, <2>2 DEF HandleInv, IsNewest, FilesOf
<1>7. CountInv(files, spent.faults)'
    BY <1>3 DEF LogInv, FilesInv, CountInv, FilesOf, Room
<1>8. TailInv => TailInv'
    BY <1>3 DEF TailInv, Held, Gapless, Latest, LinesLeft, LinesOf, FilesOf, LinesTo
<1> QED
    BY <1>1, <1>5, <1>6, <1>7, <1>8 DEF LogInv, FilesInv

LEMMA RestartKeeps ==
    ASSUME LogInv, NEW c \in Configs, Restart(c)
    PROVE  LogInv' /\ (TailInv => TailInv')
<1> USE DEF Restart
<1>1. StateType'
    <2>1. spent' \in [faults : Nat, changes : Nat, restarts : Nat]
        BY DEF LogInv, StateType
    <2>2. /\ requests' \in [Requests -> [stage : {"idle", "received", "answered", "finished"},
                                         body : BOOLEAN]]
          /\ channel' \in Seq(Event) /\ Len(channel') <= ChannelSize
          /\ holding' \in Seq(Event) /\ Len(holding') <= 1
          /\ snapshot' \in Seq(Configs) /\ Len(snapshot') <= 1
        BY LogAssumption DEF Idle
    <2> QED
        BY <2>1, <2>2 DEF LogInv, StateType
<1>2. UNCHANGED <<files, now, written, excused>> /\ spent'.faults = spent.faults /\ writer' = NoWriter
    BY DEF LogInv, StateType
<1>3. HandleInv(files, writer)' /\ Held(files, writer)'
    BY <1>2, NewHandle DEF HandleInv, Held, IsNewest, FilesOf
<1>4. DirInv(files, Len(written))' /\ CountInv(files, spent.faults)'
    BY <1>2 DEF LogInv, FilesInv, DirInv, DirType, InOrder, LiveIsNewest, IsNewest, SizeInv, FilesOf,
                CountInv, Room
<1>5. TailInv => TailInv'
    BY <1>2, <1>3 DEF TailInv, Gapless, Latest, LinesLeft, LinesOf, FilesOf, LinesTo
<1> QED
    BY <1>1, <1>3, <1>4, <1>5 DEF LogInv, FilesInv

LEMMA ToFileKeeps ==
    ASSUME LogInv, NEW size \in Sizes, NEW of \in BOOLEAN, NEW cf \in BOOLEAN, ToFile(size, of, cf)
    PROVE  LogInv' /\ (MaxFiles > 0 /\ TailInv => TailInv')
<1> DEFINE g    == Head(snapshot)
           k    == DiskFor(g, size, of, cf)
           lost == LostFor(g, size, of, cf)
           c    == g.path
           line == LineTo(IF lost THEN NoPath ELSE c, size)
           more == IF of \/ cf THEN spent.faults + 1 ELSE spent.faults
<1>1. StateType /\ FilesInv /\ size \in Nat
    BY LogAssumption DEF LogInv
<1>2. /\ cf => Due(Opened(g, of).writer, size)
      /\ files' = k.files /\ writer' = k.writer /\ excused' = k.excused
      /\ written' = Append(written, line)
    BY DEF ToFile, DiskFor, LostFor, RotatedFor
<1>3. /\ holding # <<>> /\ holding' = <<>> /\ snapshot # <<>> /\ snapshot' = <<>>
      /\ UNCHANGED <<config, requests, channel, now, fresh>>
    BY DEF ToFile
<1>4. spent' \in [faults : Nat, changes : Nat, restarts : Nat] /\ spent'.faults = more
        /\ spent.faults \in Nat
    <2>1. CASE of \/ cf
        BY <1>1, <2>1 DEF ToFile, StateType
    <2>2. CASE ~(of \/ cf)
        BY <1>1, <2>2 DEF ToFile, StateType
    <2> QED
        BY <2>1, <2>2
<1>13. g \in Configs
    BY <1>1, <1>3 DEF StateType
<1>5. c \in Paths
    BY <1>13, LogAssumption DEF ConfigType
<1>6. line \in Line /\ line.dest = IF lost THEN NoPath ELSE c
    <2> DEFINE dest == IF lost THEN NoPath ELSE c
    <2>1. dest \in Paths \cup {NoPath}
        BY <1>5
    <2> HIDE DEF dest, c, lost
    <2>2. LineTo(dest, size) \in Line /\ LineTo(dest, size).dest = dest
        BY <1>1, <1>3, <2>1, LineType
    <2> QED
        BY <2>2 DEF dest
<1> HIDE DEF line, lost, k, g
<1>7. /\ written' \in Seq(Line) /\ Len(written') = Len(written) + 1
      /\ Len(written) \in Nat /\ DOMAIN written = 1 .. Len(written)
      /\ 1 .. Len(written) \subseteq 1 .. Len(written')
      /\ \A q : LinesTo(q)' = IF line.dest = q THEN LinesTo(q) \cup {Len(written) + 1} ELSE LinesTo(q)
    BY <1>1, <1>2, <1>6, LineAppended
<1>8. \A q \in Paths : LinesTo(q)' = IF ~lost /\ q = c THEN LinesTo(q) \cup {Len(written) + 1}
                                     ELSE LinesTo(q)
    BY <1>6, <1>7, LogAssumption
<1>9. /\ DirInv(k.files, Len(written) + 1) /\ HandleInv(k.files, k.writer)
      /\ Held(files, writer) /\ MaxFiles > 0 => Held(k.files, k.writer)
      /\ excused \subseteq k.excused /\ k.excused \subseteq 1 .. Len(written)
      /\ \A q \in Paths : Gapless(files, excused, q) => Gapless(k.files, k.excused, q)
      /\ \A q \in Paths : Latest(files, excused, q) /\ (lost \/ q # c)
            => Latest(k.files, k.excused, q)
      /\ Held(files, writer) /\ MaxFiles > 0 /\ ~lost => Len(written) + 1 \in LinesLeft(k.files, c)
      /\ \A faults \in Nat : CountInv(files, faults) =>
            CountInv(k.files, IF of \/ cf THEN faults + 1 ELSE faults)
    <2>1. now \in Nat \ {0} /\ g \in Configs /\ excused \subseteq 1 .. Len(written)
            /\ DirInv(files, Len(written)) /\ HandleInv(files, writer)
        BY <1>1, <1>13 DEF StateType, FilesInv
    <2> QED
        BY <1>1, <1>2, <1>7, <2>1, LineOnDisk DEF k, lost
<1>10. StateType'
    <2>1. excused' \subseteq 1 .. Len(written')
        BY <1>2, <1>7, <1>9
    <2> QED
        BY <1>1, <1>3, <1>4, <1>7, <2>1 DEF StateType
<1>11. FilesInv'
    <2>1. DirInv(files, Len(written))'
        BY <1>2, <1>3, <1>7, <1>9 DEF DirInv, DirType, InOrder, LiveIsNewest, IsNewest, SizeInv, FilesOf
    <2>2. HandleInv(files, writer)'
        BY <1>2, <1>3, <1>9 DEF HandleInv, IsNewest, FilesOf
    <2>3. CountInv(k.files, more)
        BY <1>1, <1>4, <1>9 DEF FilesInv
    <2>4. CountInv(files, spent.faults)'
        BY <1>2, <1>4, <2>3 DEF CountInv, FilesOf, Room
    <2> QED
        BY <2>1, <2>2, <2>4 DEF FilesInv
<1>12. ASSUME MaxFiles > 0, TailInv
       PROVE  TailInv'
    <2>1. /\ Held(files, writer)
          /\ \A q \in Paths : Gapless(files, excused, q) /\ Latest(files, excused, q)
        BY <1>12 DEF TailInv
    <2>2. Held(files, writer)'
        BY <1>2, <1>9, <1>12, <2>1 DEF Held
    <2> SUFFICES ASSUME NEW q \in Paths
                 PROVE  Gapless(files, excused, q)' /\ Latest(files, excused, q)'
        BY <2>2 DEF TailInv
    <2> DEFINE left == LinesLeft(k.files, q)
               to   == LinesTo(q)
               next == Len(written) + 1
    <2>3. LinesLeft(files, q)' = left /\ excused' = k.excused
        BY <1>2 DEF LinesLeft, LinesOf, FilesOf
    <2>4. \A i \in left, j \in to : j > i => j \in left \cup k.excused
        BY <1>9, <2>1 DEF Gapless
    <2>5. lost \/ q # c =>
            \A i \in to : (\A j \in to : j <= i) => i \in left \cup k.excused
        BY <1>9, <2>1 DEF Latest
    <2>6. ~lost /\ q = c => next \in left
        BY <1>9, <1>12, <2>1
    <2>7. to \subseteq 1 .. Len(written) /\ next \in Nat /\ \A i \in to : i \in Nat /\ i < next
        <3>1. to \subseteq 1 .. Len(written)
            BY <1>7 DEF LinesTo
        <3> HIDE DEF to
        <3> QED
            BY <1>7, <3>1
    <2>8. LinesTo(q)' = IF ~lost /\ q = c THEN to \cup {next} ELSE to
        BY <1>8
    <2> HIDE DEF left, to, next, c
    <2>9. Gapless(files, excused, q)'
        BY <2>3, <2>4, <2>6, <2>8 DEF Gapless
    <2>10. Latest(files, excused, q)'
        <3>1. CASE lost \/ q # c
            BY <2>3, <2>5, <2>8, <3>1 DEF Latest
        <3>2. CASE ~lost /\ q = c
            <4> SUFFICES ASSUME NEW i \in LinesTo(q)', \A j \in LinesTo(q)' : j <= i
                         PROVE  i \in LinesLeft(files, q)' \cup excused'
                BY DEF Latest
            <4>1. next <= i /\ (i \in to \/ i = next)
                BY <2>8, <3>2
            <4>2. \A x \in to : ~(next <= x)
                BY <2>7
            <4>3. i = next
                BY <4>1, <4>2
            <4> QED
                BY <2>3, <2>6, <3>2, <4>3
        <3> QED
            BY <3>1, <3>2
    <2> QED
        BY <2>9, <2>10
<1> QED
    BY <1>10, <1>11, <1>12 DEF LogInv

LEMMA LogStep ==
    ASSUME LogInv, [LogNext]_logVars
    PROVE  LogInv' /\ (MaxFiles > 0 /\ TailInv => TailInv')
<1>1. StateType /\ FilesInv
    BY DEF LogInv
<1>2. ASSUME StateType', UNCHANGED <<files, writer, now, written, excused>>, spent'.faults = spent.faults
      PROVE  LogInv' /\ (TailInv => TailInv')
    BY <1>1, <1>2, FilesKept DEF LogInv
<1>3. ASSUME NEW r \in Requests, Receive(r)
      PROVE  LogInv' /\ (TailInv => TailInv')
    <2>1. StateType'
        BY <1>1, <1>3 DEF Receive, StateType
    <2> QED
        BY <1>2, <1>3, <2>1 DEF Receive
<1>4. ASSUME NEW r \in Requests, Respond(r)
      PROVE  LogInv' /\ (TailInv => TailInv')
    <2>1. requests[r].body \in BOOLEAN
        BY <1>1 DEF StateType
    <2> DEFINE b == requests[r].body \/ config.level = Full
    <2>2. b \in BOOLEAN
        BY <2>1
    <2>3. requests' = [requests EXCEPT ![r] = [stage |-> "answered", body |-> b]]
        BY <1>4 DEF Respond
    <2> HIDE DEF b
    <2>4. StateType'
        BY <1>1, <1>4, <2>2, <2>3 DEF Respond, StateType
    <2> QED
        BY <1>2, <1>4, <2>4 DEF Respond
<1>5. ASSUME NEW r \in Requests, PostResponse(r)
      PROVE  LogInv' /\ (TailInv => TailInv')
    <2>1. requests[r].body \in BOOLEAN /\ config.level \in Off .. Full
        BY <1>1, LogAssumption DEF StateType, ConfigType
    <2>2. requests' \in [Requests -> [stage : {"idle", "received", "answered", "finished"},
                                      body : BOOLEAN]]
        BY <1>1, <1>5 DEF PostResponse, StateType
    <2>3. channel' \in Seq(Event) /\ Len(channel') <= ChannelSize
        <3>1. CASE config.level = Off
            BY <1>1, <1>5, <3>1 DEF PostResponse, StateType
        <3>2. CASE config.level # Off
            <4> DEFINE e == [level |-> config.level, body |-> requests[r].body]
            <4>1. config.level \in Basic .. Full
                BY <2>1, <3>2 DEF Off, Basic, Full
            <4>2. e \in Event
                BY <2>1, <4>1 DEF Event
            <4>3. TrySend(e)
                BY <1>5, <3>2 DEF PostResponse
            <4> QED
                BY <1>1, <4>2, <4>3, EventType
        <3> QED
            BY <3>1, <3>2
    <2>4. StateType'
        BY <1>1, <1>5, <2>2, <2>3 DEF PostResponse, StateType
    <2> QED
        BY <1>2, <1>5, <2>4 DEF PostResponse
<1>6. ASSUME LogAuxiliary
      PROVE  LogInv' /\ (TailInv => TailInv')
    <2> DEFINE e == [level |-> Full, body |-> FALSE]
    <2>1. e \in Event /\ TrySend(e)
        BY <1>6 DEF LogAuxiliary, Event, Basic, Full
    <2>2. StateType'
        BY <1>1, <1>6, <2>1, EventType DEF LogAuxiliary, StateType
    <2> QED
        BY <1>2, <1>6, <2>2 DEF LogAuxiliary
<1>7. ASSUME NEW c \in Configs, SetConfig(c)
      PROVE  LogInv' /\ (TailInv => TailInv')
    <2> DEFINE more == spent.changes + 1
    <2>1. spent \in [faults : Nat, changes : Nat, restarts : Nat] /\ more \in Nat
        BY <1>1 DEF StateType
    <2>2. spent' = [spent EXCEPT !.changes = more]
        BY <1>7 DEF SetConfig
    <2> HIDE DEF more
    <2>3. spent' \in [faults : Nat, changes : Nat, restarts : Nat] /\ spent'.faults = spent.faults
        BY <2>1, <2>2
    <2>4. StateType'
        BY <1>1, <1>7, <2>3 DEF SetConfig, StateType
    <2> QED
        BY <1>2, <1>7, <2>3, <2>4 DEF SetConfig
<1>8. ASSUME Recv
      PROVE  LogInv' /\ (TailInv => TailInv')
    <2>1. channel \in Seq(Event) /\ channel # <<>>
        BY <1>1, <1>8 DEF StateType, Recv
    <2>2. /\ Head(channel) \in Event /\ Tail(channel) \in Seq(Event)
          /\ Len(Tail(channel)) <= Len(channel) /\ Len(Tail(channel)) \in Nat /\ Len(channel) \in Nat
        BY <2>1
    <2>3. StateType'
        BY <1>1, <1>8, <2>2, LogAssumption DEF Recv, StateType
    <2> QED
        BY <1>2, <1>8, <2>3 DEF Recv
<1>11. ASSUME TakeSnapshot
       PROVE  LogInv' /\ (TailInv => TailInv')
    <2>1. <<config>> \in Seq(Configs) /\ Len(<<config>>) = 1
        BY <1>1 DEF StateType
    <2>2. StateType'
        BY <1>1, <1>11, <2>1 DEF TakeSnapshot, StateType
    <2> QED
        BY <1>2, <1>11, <2>2 DEF TakeSnapshot
<1>9. ASSUME Discard
      PROVE  LogInv' /\ (TailInv => TailInv')
    <2>1. StateType'
        BY <1>1, <1>9 DEF Discard, StateType
    <2> QED
        BY <1>2, <1>9, <2>1 DEF Discard
<1>10. ASSUME UNCHANGED logVars
       PROVE  LogInv' /\ (TailInv => TailInv')
    <2>1. StateType'
        BY <1>1, <1>10 DEF logVars, StateType
    <2> QED
        BY <1>2, <1>10, <2>1 DEF logVars
<1> QED
    BY <1>3, <1>4, <1>5, <1>6, <1>7, <1>8, <1>9, <1>10, <1>11,
       StderrKeeps, ToFileKeeps, TickKeeps, RestartKeeps DEF LogNext

LEMMA LogInvAlways == LogSpec => []LogInv
<1>1. LogInit => LogInv
    BY LogInit_LogInv
<1>2. LogInv /\ [LogNext]_logVars => LogInv'
    BY LogStep
<1> QED
    BY <1>1, <1>2, PTL DEF LogSpec

LEMMA TypeFromInv == LogInv => DebugLogTypeOK
<1> SUFFICES ASSUME LogInv
             PROVE  DebugLogTypeOK
    OBVIOUS
<1>1. StateType /\ FilesInv
    BY DEF LogInv
<1>2. DOMAIN written = 1 .. Len(written)
    BY <1>1 DEF StateType
<1>3. Len(channel) \in 0 .. ChannelSize /\ Len(holding) \in 0 .. 1
    <2>1. Len(channel) \in Nat /\ Len(holding) \in Nat /\ ChannelSize \in Nat
        BY <1>1, LogAssumption DEF StateType
    <2>2. Len(channel) <= ChannelSize /\ Len(holding) <= 1
        BY <1>1 DEF StateType
    <2>3. \A n, most \in Nat : n <= most => n \in 0 .. most
        OBVIOUS
    <2> QED
        BY <2>1, <2>2, <2>3
<1>4. ToSet(channel \o holding) \subseteq Event
    <2> DEFINE s == channel \o holding
    <2>1. s \in Seq(Event)
        BY <1>1 DEF StateType
    <2> HIDE DEF s
    <2>2. ToSet(s) \subseteq Event
        BY <2>1 DEF ToSet
    <2> QED
        BY <2>2 DEF s
<1>5. DOMAIN files \subseteq Paths \X (0 .. now)
        /\ \A n \in DOMAIN files : ToSet(files[n].lines) \subseteq DOMAIN written
    BY <1>1, <1>2 DEF FilesInv, DirInv, DirType
<1>6. writer.name = NoFile \/ writer.name[1] = writer.path
    BY <1>1 DEF FilesInv, HandleInv
<1>7. Len(snapshot) \in 0 .. 1 /\ ToSet(snapshot) \subseteq Configs
    <2>1. snapshot \in Seq(Configs) /\ Len(snapshot) <= 1
        BY <1>1 DEF StateType
    <2>2. ToSet(snapshot) \subseteq Configs
        BY <2>1 DEF ToSet
    <2>3. Len(snapshot) \in Nat
        BY <2>1
    <2>4. \A n \in Nat : n <= 1 => n \in 0 .. 1
        OBVIOUS
    <2> QED
        BY <2>1, <2>2, <2>3, <2>4
<1> QED
    BY <1>1, <1>2, <1>3, <1>4, <1>5, <1>6, <1>7 DEF DebugLogTypeOK, StateType, Event

\* The files of the open path keep the tail of the log: whatever rotates,
\* fails, ages out or restarts, rotate_if_needed, cleanup_rotated and
\* cleanup_old_session_logs leave no hole in it.  With max_files = 0 the live
\* file is pruned as well, and there is no tail to keep.
THEOREM TailAlwaysKept == MaxFiles > 0 => (LogSpec => []TailKept)
<1> SUFFICES ASSUME MaxFiles > 0
             PROVE  LogSpec => []TailKept
    OBVIOUS
<1>1. LogInit => LogInv /\ TailInv
    BY LogInit_LogInv
<1>2. LogInv /\ TailInv /\ [LogNext]_logVars => LogInv' /\ TailInv'
    BY LogStep
<1>3. LogInv /\ TailInv => TailKept
    <2> SUFFICES ASSUME LogInv, TailInv
                 PROVE  TailKept
        OBVIOUS
    <2> DEFINE p    == writer.path
               mine == {i \in DOMAIN written : written[i].dest = p}
               kept == LinesOf(files, FilesOf(files, p))
    <2>1. DebugLogTypeOK
        BY TypeFromInv
    <2> SUFFICES ASSUME p \in Paths
                 PROVE  /\ \A i \in kept, j \in mine : j > i => j \in kept \cup excused
                        /\ mine # {} => Max(mine) \in kept \cup excused
                        /\ \A n, m \in FilesOf(files, p) : files[n].stamp < files[m].stamp =>
                              \A i \in ToSet(files[n].lines), j \in ToSet(files[m].lines) : i < j
        BY <2>1 DEF TailKept
    <2>2. mine = LinesTo(p) /\ kept = LinesLeft(files, p)
        BY DEF LinesTo, LinesLeft
    <2>3. Gapless(files, excused, p) /\ Latest(files, excused, p)
        BY DEF TailInv
    <2>4. InOrder(files)
        BY DEF LogInv, FilesInv, DirInv
    <2>5. mine \in SUBSET Int /\ IsFiniteSet(mine)
        <3>1. DOMAIN written = 1 .. Len(written) /\ Len(written) \in Nat
            BY DEF LogInv, StateType
        <3>2. IsFiniteSet(1 .. Len(written))
            BY <3>1, FS_Interval
        <3>3. mine \subseteq 1 .. Len(written)
            BY <3>1
        <3>4. 1 .. Len(written) \subseteq Int
            BY <3>1
        <3> HIDE DEF mine
        <3>5. IsFiniteSet(mine)
            BY <3>2, <3>3, FS_Subset
        <3> QED
            BY <3>3, <3>4, <3>5
    <2> HIDE DEF mine, kept, p
    <2>6. ASSUME mine # {}
          PROVE  Max(mine) \in kept \cup excused
        <3>1. Max(mine) \in mine /\ \A y \in mine : y <= Max(mine)
            BY <2>5, <2>6, MaxOfFinite
        <3> QED
            BY <2>2, <2>3, <3>1 DEF Latest
    <2>7. \A i \in kept, j \in mine : j > i => j \in kept \cup excused
        BY <2>2, <2>3 DEF Gapless
    <2>8. p \in Paths
        BY DEF p
    <2>9. \A n, m \in FilesOf(files, p) : files[n].stamp < files[m].stamp =>
              \A i \in ToSet(files[n].lines), j \in ToSet(files[m].lines) : i < j
        BY <2>4, <2>8 DEF InOrder
    <2> QED
        BY <2>6, <2>7, <2>9
<1> QED
    BY <1>1, <1>2, <1>3, PTL DEF LogSpec

\* "Prevents unbounded log growth": the number of files of a path that rotates
\* by size, and their length, are bounded after every step of the writer, with
\* max_files = 0 too.
THEOREM LogAlwaysBounded == LogSpec => []LogStaysBounded
<1>1. LogInv => LogStaysBounded
    <2> SUFFICES ASSUME LogInv, NEW p \in Paths, \A c \in Configs : c.path = p => c.mode = "size"
                 PROVE  /\ Cardinality(FilesOf(files, p)) <= Max({1, MaxFiles}) + spent.faults
                        /\ \A n \in FilesOf(files, p) :
                              files[n].bytes > MaxBytes + 1 => Len(files[n].lines) = 1
        BY DEF LogStaysBounded
    <2>1. Cardinality(FilesOf(files, p)) \in Nat /\ Room(files, p) \in {0, 1} /\ spent.faults \in Nat
        BY FilesFinite DEF LogInv, StateType, FilesInv, DirInv, DirType, Room
    <2>2. Cardinality(FilesOf(files, p)) + Room(files, p) <= Limit + spent.faults
        BY DEF LogInv, FilesInv, CountInv
    <2>3. Cardinality(FilesOf(files, p)) <= Limit + spent.faults
        BY <2>1, <2>2, LimitType
    <2>4. \A n \in FilesOf(files, p) : files[n].bytes > MaxBytes + 1 => Len(files[n].lines) = 1
        BY DEF LogInv, FilesInv, DirInv, SizeInv, BySize
    <2> QED
        BY <2>3, <2>4 DEF Limit
<1> QED
    BY <1>1, LogInvAlways, PTL

\* The snapshot is that of the event in hand, and of the present configuration
\* if the event was received under it: writer_loop reads it after recv.
SnapshotInv ==
    snapshot # <<>> =>
        /\ holding # <<>> /\ Head(snapshot).level # Off
        /\ fresh => Head(snapshot) = config

LEMMA SnapshotStep ==
    ASSUME SnapshotInv, [LogNext]_logVars
    PROVE  SnapshotInv'
<1>1. ASSUME UNCHANGED <<config, holding, snapshot, fresh>>
      PROVE  SnapshotInv'
    BY <1>1 DEF SnapshotInv
<1>2. ASSUME snapshot' = <<>>
      PROVE  SnapshotInv'
    BY <1>2 DEF SnapshotInv
<1>3. CASE \E r \in Requests : Receive(r) \/ Respond(r) \/ PostResponse(r)
    BY <1>1, <1>3 DEF Receive, Respond, PostResponse
<1>4. CASE LogAuxiliary \/ Tick \/ UNCHANGED logVars
    BY <1>1, <1>4 DEF LogAuxiliary, Tick, logVars
<1>5. CASE \E c \in Configs : SetConfig(c)
    BY <1>5 DEF SetConfig, SnapshotInv
<1>6. CASE \E c \in Configs : Restart(c)
    BY <1>2, <1>6 DEF Restart
<1>7. CASE Recv
    <2>1. snapshot' = <<>>
        BY <1>7 DEF Recv, SnapshotInv
    <2> QED
        BY <1>2, <2>1
<1>8. CASE TakeSnapshot
    <2>1. snapshot' = <<config>> /\ holding # <<>> /\ config.level # Off
            /\ UNCHANGED <<config, holding>>
        BY <1>8 DEF TakeSnapshot
    <2>2. Head(snapshot') = config
        BY <2>1
    <2> QED
        BY <2>1, <2>2 DEF SnapshotInv
<1>9. CASE Discard
    <2>1. snapshot' = <<>>
        BY <1>9 DEF Discard
    <2> QED
        BY <1>2, <2>1
<1>10. CASE \E size \in Sizes : ToStderr(size)
    BY <1>2, <1>10 DEF ToStderr
<1>11. CASE \E size \in Sizes, of, cf \in BOOLEAN : ToFile(size, of, cf)
    BY <1>2, <1>11 DEF ToFile
<1> QED
    BY <1>3, <1>4, <1>5, <1>6, <1>7, <1>8, <1>9, <1>10, <1>11 DEF LogNext

\* However the configuration changes between the read of writer_loop and its
\* write, what is received after the change is written as it says: only the one
\* line in hand escapes.
THEOREM LoweredLevelAlwaysHides == LogSpec => LoweredLevelHides
<1> DEFINE A == Len(written') > Len(written) /\ fresh =>
                  /\ config.level # Off
                  /\ config.format = "console" /\ Last(written').body => config.level = Full
                  /\ Last(written').dest \in {NoPath, config.path}
<1>1. ASSUME LogInv, SnapshotInv, [LogNext]_logVars
      PROVE  A
    <2>1. Len(written) \in Nat /\ written \in Seq(Line) /\ StateType
        BY <1>1 DEF LogInv, StateType
    <2>2. CASE UNCHANGED written
        BY <2>1, <2>2
    <2>3. ASSUME NEW dest \in {NoPath, Head(snapshot).path}, NEW size \in Sizes,
                 snapshot # <<>>, holding # <<>>, written' = Append(written, LineTo(dest, size))
          PROVE  A
        <3> SUFFICES ASSUME fresh
                     PROVE  /\ config.level # Off
                            /\ config.format = "console" /\ Last(written').body => config.level = Full
                            /\ Last(written').dest \in {NoPath, config.path}
            OBVIOUS
        <3>1. Head(snapshot) = config /\ config.level # Off
            BY <1>1, <2>3 DEF SnapshotInv
        <3>2. dest \in Paths \cup {NoPath}
            BY <2>1, <2>3, <3>1, LogAssumption DEF StateType, ConfigType
        <3>3. LineTo(dest, size) \in Line
            BY <2>1, <2>3, <3>2, LineType
        <3> DEFINE line == LineTo(dest, size)
        <3>4. line.body = Shown(config, Head(holding)) /\ line.dest = dest
            BY <3>1 DEF LineTo
        <3> HIDE DEF line
        <3>5. Last(written') = line
            BY <2>1, <2>3, <3>3 DEF Last, line
        <3>6. config.format = "console" /\ Shown(config, Head(holding)) => config.level = Full
            BY DEF Shown
        <3> QED
            BY <2>3, <3>1, <3>4, <3>5, <3>6, Zenon
    <2>4. CASE \E size \in Sizes : ToStderr(size)
        BY <2>3, <2>4 DEF ToStderr
    <2>5. ASSUME NEW size \in Sizes, NEW of \in BOOLEAN, NEW cf \in BOOLEAN, ToFile(size, of, cf)
          PROVE  A
        <3> DEFINE dest == IF LostFor(Head(snapshot), size, of, cf) THEN NoPath ELSE Head(snapshot).path
        <3>1. dest \in {NoPath, Head(snapshot).path}
            OBVIOUS
        <3>2. written' = Append(written, LineTo(dest, size)) /\ snapshot # <<>> /\ holding # <<>>
            BY <2>5 DEF ToFile, LostFor, RotatedFor
        <3> HIDE DEF dest
        <3> QED
            BY <2>3, <3>1, <3>2
    <2> QED
        BY <1>1, <2>2, <2>4, <2>5 DEF LogNext, logVars, Receive, Respond, PostResponse, LogAuxiliary,
            SetConfig, Recv, TakeSnapshot, Discard, Tick, Restart
<1>2. LogInv /\ SnapshotInv /\ [LogNext]_logVars => [A]_logVars
    BY <1>1
<1>3. LogInit => SnapshotInv
    BY DEF LogInit, SnapshotInv
<1>4. SnapshotInv /\ [LogNext]_logVars => SnapshotInv'
    BY SnapshotStep
<1> QED
    BY <1>2, <1>3, <1>4, LogInvAlways, PTL DEF LogSpec, LoweredLevelHides
================================================================================
