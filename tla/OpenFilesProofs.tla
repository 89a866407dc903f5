-------------------------- MODULE OpenFilesProofs --------------------------
(***************************************************************************)
(* Proofs about OpenFiles, for any paths, processes, handles and bounds:   *)
(* the Plfs_fds count their opens and outlive them, opens of a file share  *)
(* a Plfs_fd as long as no rename has dragged another file along, and what *)
(* is left in a container is what a stat may rely on.  And about           *)
(* ParallelOpen, the open of src/ad_plfs/ad_plfs_open.c in which the ranks *)
(* of a job read the droppings together: every rank has every dropping     *)
(* once, however many ranks, hostdirs and droppings there are.             *)
(***************************************************************************)
EXTENDS OpenFiles, ParallelOpen, FiniteSetTheorems, SequenceTheorems, WellFoundedInduction, TLAPS

(* The opens of a Plfs_fd that write, and those that do not.               *)
WritersOf(h) == {o \in OpensOf(h) : isWriter(o.flags)}

ReadersOf(h) == {o \in OpensOf(h) : ~isWriter(o.flags)}

Live(h) == fd[h].state = "live"

(* A Plfs_fd counts the opens that point to it.  A failure in plfs_open    *)
(* leaves at most a writer too many or no WriteFile.                       *)
HandleCounts(h) ==
  /\ Live(h) <=> OpensOf(h) # {}
  /\ fd[h].refs = Cardinality(OpensOf(h))
  /\ fd[h].readers = Cardinality(ReadersOf(h))
  /\ fd[h].writers >= Cardinality(WritersOf(h))
  /\ h \notin half_opened => /\ fd[h].writers = Cardinality(WritersOf(h))
                             /\ WritersOf(h) # {} => fd[h].wf
  /\ fd[h].state = "new" => h \notin half_opened

CountsOK == IsFiniteSet(opens) /\ \A h \in Handle : HandleCounts(h)

(* The opens of a Plfs_fd have the flags it is listed under.               *)
FlagsOK ==
  /\ \A k \in DOMAIN open_files : fd[open_files[k]].state # "new"
  /\ \A o, q \in opens : o.h = q.h => o.flags = q.flags
  /\ \A k \in DOMAIN open_files, o \in opens : o.h = open_files[k] => o.flags = k[2]

(* A file has one name, and keeps it while it is open.                     *)
FilesOK ==
  /\ \A p, q \in Path : container[p] = container[q] /\ container[p] # 0 => p = q
  /\ \A p \in Path : container[p] <= created
  /\ \A h \in Handle : Live(h) => fd[h].path \in Path /\ \E p \in Path : container[p] = fd[h].file
  /\ \A h \in Handle : Live(h) => fd[h].file # 0
  /\ \A file \in wrote : file # 0 /\ file <= created

(* As long as nothing was dragged, the table has every open under the name *)
(* its file has now, and nothing else.                                     *)
Entry(o) == <<NameOf(fd[o.h].file), o.flags>>

TableRight ==
  /\ \A k \in DOMAIN open_files :
       k[1] \in Path /\ Live(open_files[k]) /\ container[k[1]] = fd[open_files[k]].file
  /\ \A o \in opens : Entry(o) \in DOMAIN open_files /\ open_files[Entry(o)] = o.h

TableOK == dragged = {} => TableRight

Writing(h) == Live(h) /\ fd[h].writers > 0

(* Until then, too, a Plfs_fd has the path of its file or one under the    *)
(* mount point, and two that write for the same process are known.         *)
RecordsRight ==
  /\ \A h \in Handle : Live(h) /\ ~fd[h].logical => container[fd[h].path] = fd[h].file
  /\ \A h \in Handle : Writing(h) /\ <<fd[h].file, fd[h].pid>> \notin twice
                         => <<fd[h].file, fd[h].pid>> \in records
  /\ \A g, h \in Handle :
       Writing(g) /\ Writing(h) /\ g # h /\ fd[g].file = fd[h].file /\ fd[g].pid = fd[h].pid
         => <<fd[h].file, fd[h].pid>> \in twice

RecordsOK == dragged = {} => RecordsRight

(* Whatever was dragged: the Plfs_fds of a file that kept its name while   *)
(* it was open have that path, its open records are theirs, and where none *)
(* is left there is metadata.                                              *)
MetasOK ==
  /\ \A h \in Handle : Live(h) /\ fd[h].file \notin moved
       => ~fd[h].logical /\ container[fd[h].path] = fd[h].file
  /\ \A r \in records : r[1] \notin moved
       => \E h \in Handle : Writing(h) /\ fd[h].file = r[1] /\ fd[h].pid = r[2]
  /\ \A file \in wrote \ moved : Exists(file) => file \in metas \/ BeingWritten(file)

Inv == TypeOK /\ CountsOK /\ FlagsOK /\ FilesOK /\ TableOK /\ RecordsOK /\ MetasOK

-----------------------------------------------------------------------------
(* What Counted and Uncounted make of the fields of a Plfs_fd.             *)
LEMMA CountedFields ==
  ASSUME NEW f \in Fd, NEW fl
  PROVE  /\ Counted(f, fl) \in Fd
         /\ Counted(f, fl).state = f.state /\ Counted(f, fl).file = f.file
         /\ Counted(f, fl).path = f.path /\ Counted(f, fl).logical = f.logical
         /\ Counted(f, fl).pid = f.pid /\ Counted(f, fl).refs = f.refs + 1
         /\ isWriter(fl) => /\ Counted(f, fl).writers = f.writers + 1
                            /\ Counted(f, fl).readers = f.readers /\ Counted(f, fl).wf
         /\ ~isWriter(fl) => /\ Counted(f, fl).writers = f.writers
                             /\ Counted(f, fl).readers = f.readers + 1 /\ Counted(f, fl).wf = f.wf
<1>1. f.refs + 1 \in Nat /\ f.writers + 1 \in Nat /\ f.readers + 1 \in Nat
  BY DEF Fd
<1> HIDE DEF isWriter
<1>2. CASE isWriter(fl)
  BY <1>1, <1>2 DEF Counted, Fd
<1>3. CASE ~isWriter(fl)
  BY <1>1, <1>3 DEF Counted, Fd
<1> QED BY <1>2, <1>3

LEMMA UncountedFields ==
  ASSUME NEW f \in Fd, NEW fl, f.refs > 0,
         isWriter(fl) => f.writers > 0, ~isWriter(fl) => f.readers > 0
  PROVE  /\ Uncounted(f, fl) \in Fd
         /\ Uncounted(f, fl).state = f.state /\ Uncounted(f, fl).file = f.file
         /\ Uncounted(f, fl).path = f.path /\ Uncounted(f, fl).logical = f.logical
         /\ Uncounted(f, fl).pid = f.pid /\ Uncounted(f, fl).refs = f.refs - 1
         /\ isWriter(fl) => /\ Uncounted(f, fl).writers = f.writers - 1
                            /\ Uncounted(f, fl).readers = f.readers
                            /\ Uncounted(f, fl).wf = (f.writers > 1)
         /\ ~isWriter(fl) => /\ Uncounted(f, fl).writers = f.writers
                             /\ Uncounted(f, fl).readers = f.readers - 1
                             /\ Uncounted(f, fl).wf = f.wf
<1>1. f.refs - 1 \in Nat /\ (isWriter(fl) => f.writers - 1 \in Nat)
        /\ (~isWriter(fl) => f.readers - 1 \in Nat) /\ (f.writers > 1) \in BOOLEAN
  BY DEF Fd
<1>2. CASE isWriter(fl)
  <2> DEFINE wf == f.writers > 1
  <2>1. Uncounted(f, fl) = [f EXCEPT !.refs = @ - 1, !.writers = @ - 1, !.wf = wf]
    BY <1>2 DEF Uncounted
  <2>2. wf \in BOOLEAN
    BY <1>1
  <2> HIDE DEF wf
  <2>3. /\ Uncounted(f, fl) \in Fd
        /\ Uncounted(f, fl).state = f.state /\ Uncounted(f, fl).file = f.file
        /\ Uncounted(f, fl).path = f.path /\ Uncounted(f, fl).logical = f.logical
        /\ Uncounted(f, fl).pid = f.pid /\ Uncounted(f, fl).refs = f.refs - 1
        /\ Uncounted(f, fl).writers = f.writers - 1 /\ Uncounted(f, fl).readers = f.readers
        /\ Uncounted(f, fl).wf = wf
    BY <1>1, <1>2, <2>1, <2>2 DEF Fd
  <2> QED BY <1>2, <2>3 DEF wf
<1>3. CASE ~isWriter(fl)
  <2>1. Uncounted(f, fl) = [f EXCEPT !.refs = @ - 1, !.readers = @ - 1]
    BY <1>3 DEF Uncounted
  <2> QED BY <1>1, <1>3, <2>1 DEF Fd
<1> QED BY <1>2, <1>3

NewFd(p, pid) == [NoFd EXCEPT !.state = "live", !.file = container[p], !.path = p, !.pid = pid]

GoneFd == [NoFd EXCEPT !.state = "gone"]

LEMMA FdTypes ==
  ASSUME TypeOK, NEW p \in Path, NEW pid \in Pid
  PROVE  NoFd \in Fd /\ GoneFd \in Fd /\ NewFd(p, pid) \in Fd
<1>1. 0 \in File /\ container[p] \in File /\ 0 \in Nat
  BY BoundAssumption DEF File, TypeOK
<1> HIDE DEF File
<1> QED BY <1>1 DEF NoFd, GoneFd, NewFd, Fd

LEMMA NoFdType == NoFd \in Fd /\ GoneFd \in Fd
<1>1. 0 \in File /\ 0 \in Nat
  BY BoundAssumption DEF File
<1> QED BY <1>1 DEF NoFd, GoneFd, Fd

-----------------------------------------------------------------------------
(* Counting: the opens of a Plfs_fd, before and after one more or one less. *)
LEMMA OpensFinite ==
  ASSUME IsFiniteSet(opens), NEW h
  PROVE  /\ IsFiniteSet(OpensOf(h)) /\ IsFiniteSet(WritersOf(h)) /\ IsFiniteSet(ReadersOf(h))
         /\ Cardinality(OpensOf(h)) \in Nat
         /\ Cardinality(WritersOf(h)) \in Nat /\ Cardinality(ReadersOf(h)) \in Nat
         /\ Cardinality(OpensOf(h)) = 0 <=> OpensOf(h) = {}
         /\ Cardinality(WritersOf(h)) = 0 <=> WritersOf(h) = {}
         /\ Cardinality(ReadersOf(h)) = 0 <=> ReadersOf(h) = {}
         /\ Cardinality(OpensOf(h)) = Cardinality(WritersOf(h)) + Cardinality(ReadersOf(h))
<1>1. OpensOf(h) \in SUBSET opens /\ WritersOf(h) \in SUBSET opens /\ ReadersOf(h) \in SUBSET opens
  BY DEF OpensOf, WritersOf, ReadersOf
<1>2. IsFiniteSet(OpensOf(h)) /\ IsFiniteSet(WritersOf(h)) /\ IsFiniteSet(ReadersOf(h))
  BY <1>1, FS_Subset
<1>3. OpensOf(h) = WritersOf(h) \cup ReadersOf(h) /\ WritersOf(h) \cap ReadersOf(h) = {}
  BY DEF WritersOf, ReadersOf
<1>4. Cardinality(OpensOf(h)) \in Nat
      /\ Cardinality(WritersOf(h)) \in Nat /\ Cardinality(ReadersOf(h)) \in Nat
  BY <1>2, FS_CardinalityType
<1>5. Cardinality(WritersOf(h) \cup ReadersOf(h))
        = Cardinality(WritersOf(h)) + Cardinality(ReadersOf(h)) - Cardinality(WritersOf(h) \cap ReadersOf(h))
  BY <1>2, FS_Union
<1>6. Cardinality(OpensOf(h)) = Cardinality(WritersOf(h)) + Cardinality(ReadersOf(h))
  <2>1. Cardinality(WritersOf(h) \cap ReadersOf(h)) = 0
    BY <1>3, FS_EmptySet
  <2> QED BY <1>3, <1>4, <1>5, <2>1
<1> QED BY <1>2, <1>4, <1>6, FS_EmptySet

CountsAdd(h) ==
  /\ Cardinality(OpensOf(h)) \in Nat
  /\ Cardinality(WritersOf(h)) \in Nat /\ Cardinality(ReadersOf(h)) \in Nat
  /\ Cardinality(OpensOf(h)) = 0 <=> OpensOf(h) = {}
  /\ Cardinality(WritersOf(h)) = 0 <=> WritersOf(h) = {}
  /\ Cardinality(ReadersOf(h)) = 0 <=> ReadersOf(h) = {}
  /\ Cardinality(OpensOf(h)) = Cardinality(WritersOf(h)) + Cardinality(ReadersOf(h))

AllCountsAdd == IsFiniteSet(opens) => \A h : CountsAdd(h)

LEMMA CountsAlwaysAdd == AllCountsAdd
BY OpensFinite DEF CountsAdd, AllCountsAdd

(* An open that is released is counted.                                    *)
LEMMA ReleaseCounted ==
  ASSUME TypeOK, CountsOK, NEW o \in opens
  PROVE  /\ o \in Open /\ o.h \in Handle /\ fd[o.h] \in Fd /\ Live(o.h) /\ fd[o.h].refs > 0
         /\ isWriter(o.flags) => fd[o.h].writers > 0
         /\ ~isWriter(o.flags) => fd[o.h].readers > 0
<1>1. o \in Open /\ o.h \in Handle /\ fd[o.h] \in Fd
  BY DEF TypeOK, Open
<1>2. o \in OpensOf(o.h) /\ (isWriter(o.flags) => o \in WritersOf(o.h))
        /\ (~isWriter(o.flags) => o \in ReadersOf(o.h))
  BY DEF OpensOf, WritersOf, ReadersOf
<1>3. HandleCounts(o.h) /\ IsFiniteSet(opens)
  BY <1>1 DEF CountsOK
<1>4. fd[o.h].writers \in Nat
  BY <1>1 DEF Fd
<1> QED BY <1>1, <1>2, <1>3, <1>4, OpensFinite DEF HandleCounts

-----------------------------------------------------------------------------
(* Types.                                                                  *)
LEMMA KeysRenamed ==
  ASSUME TypeOK, NEW from \in Path, NEW to \in Path
  PROVE  /\ DOMAIN Rebound(from, to) \subseteq Key
         /\ Rebound(from, to) \in [DOMAIN Rebound(from, to) -> Handle]
<1> DEFINE new == {Renamed(k, from, to) : k \in Matched(from)}
           old(k) == CHOOSE m \in Matched(from) : Renamed(m, from, to) = k
<1>1. Matched(from) \subseteq DOMAIN open_files /\ DOMAIN open_files \subseteq Key
  BY DEF Matched, TypeOK
<1>2. from \in Seq(Letter) /\ to \in Seq(Letter) /\ Len(from) \in Nat
  BY PathAssumption
<1>3. ASSUME NEW k \in Key
      PROVE  Renamed(k, from, to) \in Key
  <2>1. k[1] \in Seq(Letter) /\ k[2] \in Flags /\ Len(k[1]) \in Nat
    BY DEF Key
  <2>2. \A i \in Len(from) + 1 .. Len(k[1]) : k[1][i] \in Letter
    BY <1>2, <2>1
  <2>3. SubSeq(k[1], Len(from) + 1, Len(k[1])) \in Seq(Letter)
    BY <1>2, <2>1, <2>2, SubSeqProperties
  <2>4. to \o SubSeq(k[1], Len(from) + 1, Len(k[1])) \in Seq(Letter)
    BY <1>2, <2>3, ConcatProperties
  <2> QED BY <2>1, <2>4 DEF Renamed, Key
<1>4. new \subseteq Key
  BY <1>1, <1>3
<1>5. \A k \in new : old(k) \in Matched(from)
  OBVIOUS
<1>6. \A k \in DOMAIN open_files : open_files[k] \in Handle
  BY DEF TypeOK
<1>7. Rebound(from, to) = [k \in (DOMAIN open_files \ Matched(from)) \cup new |->
                             IF k \in new THEN open_files[old(k)] ELSE open_files[k]]
  BY DEF Rebound
<1> HIDE DEF new, old
<1> QED BY <1>1, <1>4, <1>5, <1>6, <1>7

LEMMA TypeInit == Init => TypeOK
<1> SUFFICES ASSUME Init PROVE TypeOK
  OBVIOUS
<1>1. 0 \in File /\ 0 \in 0..MaxRenames
  BY BoundAssumption DEF File
<1>2. fd \in [Handle -> Fd]
  BY NoFdType DEF Init
<1> HIDE DEF File
<1>3. open_files \in [DOMAIN open_files -> Handle] /\ DOMAIN open_files \subseteq Key
  BY DEF Init
<1> QED BY <1>1, <1>2, <1>3 DEF Init, TypeOK

LEMMA TypeCreate ==
  ASSUME TypeOK, NEW p \in Path, Create(p)
  PROVE  TypeOK'
<1>1. created + 1 \in File
  BY BoundAssumption DEF TypeOK, File, Create
<1> HIDE DEF File
<1> QED BY <1>1 DEF TypeOK, Create, history

LEMMA TypeUnlink ==
  ASSUME TypeOK, NEW p \in Path, Unlink(p)
  PROVE  TypeOK'
<1>1. 0 \in File
  BY BoundAssumption DEF File
<1> HIDE DEF File
<1> QED BY <1>1 DEF TypeOK, Unlink, WithoutFile, history

LEMMA TypeOpenNew ==
  ASSUME TypeOK, NEW p \in Path, NEW pid \in Pid, NEW fl \in Flags, NEW n \in OpenFile,
         OpenNew(p, pid, fl, n)
  PROVE  TypeOK'
<1>1. PICK h \in Handle :
        /\ fd' = [fd EXCEPT ![h] = Counted(NewFd(p, pid), fl)]
        /\ open_files' = [k \in DOMAIN open_files \cup {<<p, fl>>} |->
                            IF k = <<p, fl>> THEN h ELSE open_files[k]]
        /\ opens' = opens \cup {[n |-> n, h |-> h, pid |-> pid, flags |-> fl]}
  BY DEF OpenNew, NewFd
<1>2. fd' \in [Handle -> Fd]
  BY <1>1, FdTypes, CountedFields DEF TypeOK
<1>3. <<p, fl>> \in Key
  BY PathAssumption DEF Key
<1>4. DOMAIN open_files' \subseteq Key /\ open_files' \in [DOMAIN open_files' -> Handle]
  BY <1>1, <1>3 DEF TypeOK
<1>5. opens' \subseteq Open
  BY <1>1 DEF TypeOK, Open
<1>6. records' \subseteq (File \X Pid) /\ twice' \subseteq (File \X Pid) /\ wrote' \subseteq File
  <2>1. container[p] \in File
    BY DEF TypeOK
  <2> HIDE DEF File, isWriter
  <2> QED BY <2>1 DEF TypeOK, OpenNew
<1> QED BY <1>2, <1>4, <1>5, <1>6 DEF TypeOK, OpenNew, backend

LEMMA TypeOpenShared ==
  ASSUME TypeOK, NEW p \in Path, NEW pid \in Pid, NEW fl \in Flags, NEW n \in OpenFile,
         OpenShared(p, pid, fl, n)
  PROVE  TypeOK'
<1> DEFINE h == open_files[<<p, fl>>]
<1>1. h \in Handle /\ fd[h] \in Fd
  BY DEF TypeOK, OpenShared
<1>2. fd' \in [Handle -> Fd]
  BY <1>1, CountedFields DEF TypeOK, OpenShared
<1>3. opens' \subseteq Open
  BY <1>1 DEF TypeOK, OpenShared, Open
<1> QED BY <1>2, <1>3 DEF TypeOK, OpenShared, backend, history

LEMMA TypeOpenFailing ==
  ASSUME TypeOK, NEW p \in Path, NEW fl \in Flags, OpenFailing(p, fl)
  PROVE  TypeOK'
<1> DEFINE h == open_files[<<p, fl>>]
<1>1. h \in Handle /\ fd[h] \in Fd
  BY DEF TypeOK, OpenFailing, OpenSharedLosesWriteFile, OpenSharedCountsWriter
<1>2. fd[h].writers + 1 \in Nat
  BY <1>1 DEF Fd
<1>3. CASE OpenSharedLosesWriteFile(p, fl)
  <2>1. fd' \in [Handle -> Fd]
    BY <1>1, <1>3 DEF TypeOK, OpenSharedLosesWriteFile, Fd
  <2> QED BY <1>1, <1>3, <2>1 DEF TypeOK, OpenSharedLosesWriteFile, backend
<1>4. CASE OpenSharedCountsWriter(p, fl)
  <2>1. fd' \in [Handle -> Fd]
    BY <1>1, <1>2, <1>4 DEF TypeOK, OpenSharedCountsWriter, Fd
  <2> QED BY <1>1, <1>4, <2>1 DEF TypeOK, OpenSharedCountsWriter, backend
<1> QED BY <1>3, <1>4 DEF OpenFailing

LEMMA TypeRelease ==
  ASSUME TypeOK, CountsOK, FilesOK, NEW o \in opens, Release(o)
  PROVE  TypeOK'
<1>1. o \in Open /\ o.h \in Handle /\ fd[o.h] \in Fd /\ Live(o.h)
  BY ReleaseCounted
<1>2. Uncounted(fd[o.h], o.flags) \in Fd
  BY <1>1, ReleaseCounted, UncountedFields
<1>3. fd' \in [Handle -> Fd]
  BY <1>1, <1>2, NoFdType DEF TypeOK, Release, GoneFd
<1>4. DOMAIN open_files' \subseteq Key /\ open_files' \in [DOMAIN open_files' -> Handle]
  BY DEF TypeOK, Release, Forget
<1>5. container[fd[o.h].path] \in File
  BY <1>1 DEF TypeOK, FilesOK
<1>6. records' \subseteq (File \X Pid) /\ metas' \subseteq File
  BY <1>5 DEF TypeOK, Release, DropMeta
<1>7. opens' \subseteq Open
  BY DEF TypeOK, Release
<1> QED BY <1>3, <1>4, <1>6, <1>7 DEF TypeOK, Release, backend, history

(* The Plfs_fds a rename takes along, and the parts of the rename.         *)
Taken(from) == {open_files[k] : k \in Matched(from)}

RenameParts(from, to) ==
  /\ from # to /\ container[from] # 0 /\ ~IsOpen(container[to])
  /\ renames < MaxRenames /\ renames' = renames + 1
  /\ \A k, m \in Matched(from) : Renamed(k, from, to) # m
  /\ \A h \in Taken(from) : fd[h].state = "live"
  /\ container' = [container EXCEPT ![from] = 0, ![to] = container[from]]
  /\ records' = {r \in records : r[1] # container[to]}
  /\ metas' = metas \ {container[to]}
  /\ open_files' = Rebound(from, to)
  /\ fd' = [h \in Handle |->
              IF h \in Taken(from) THEN [fd[h] EXCEPT !.path = to, !.logical = TRUE] ELSE fd[h]]
  /\ dragged' = dragged \cup {h \in Taken(from) : fd[h].file # container[from]}
  /\ moved' = moved \cup {fd[o.h].file :
                           o \in {q \in opens : q.h \in Taken(from) \/ fd[q.h].file = container[from]}}
  /\ UNCHANGED <<created, opens, half_opened, twice, wrote>>

LEMMA RenameHasParts == \A from, to : Rename(from, to) => RenameParts(from, to)
BY ZenonT(60) DEF Rename, RenameParts, WithoutFile, Taken

LEMMA TypeRename ==
  ASSUME TypeOK, NEW from \in Path, NEW to \in Path, Rename(from, to)
  PROVE  TypeOK'
<1>0. RenameParts(from, to)
  BY RenameHasParts
<1>1. 0 \in File /\ renames' \in 0..MaxRenames
  <2>1. renames \in 0..MaxRenames
    BY DEF TypeOK
  <2>2. renames < MaxRenames /\ renames' = renames + 1
    BY <1>0 DEF RenameParts
  <2> QED BY <2>1, <2>2, BoundAssumption DEF File
<1>2. DOMAIN open_files' \subseteq Key /\ open_files' \in [DOMAIN open_files' -> Handle]
  BY <1>0, KeysRenamed DEF RenameParts
<1> HIDE DEF File
<1>3. container' \in [Path -> File]
  BY <1>0, <1>1 DEF RenameParts, TypeOK
<1>4. fd' \in [Handle -> Fd]
  <2>1. ASSUME NEW f \in Fd PROVE [f EXCEPT !.path = to, !.logical = TRUE] \in Fd
    BY DEF Fd
  <2> QED BY <1>0, <2>1 DEF RenameParts, TypeOK
<1>5. records' \subseteq (File \X Pid) /\ metas' \subseteq File
  BY <1>0 DEF RenameParts, TypeOK
<1>6. dragged' \subseteq Handle
  BY <1>0 DEF RenameParts, TypeOK, Matched, Taken
<1>7. moved' \subseteq File
  <2>1. \A o \in opens : fd[o.h].file \in File
    BY DEF TypeOK, Open, Fd
  <2> QED BY <1>0, <2>1 DEF RenameParts, TypeOK
<1>8. created' = created /\ opens' = opens /\ half_opened' = half_opened /\ twice' = twice /\ wrote' = wrote
  BY <1>0 DEF RenameParts
<1> QED BY <1>1, <1>2, <1>3, <1>4, <1>5, <1>6, <1>7, <1>8 DEF TypeOK

LEMMA TypeKept ==
  ASSUME Inv, [Next]_vars
  PROVE  TypeOK'
<1> USE DEF Inv
<1>1. ASSUME NEW p \in Path, Create(p) PROVE TypeOK'
  BY <1>1, TypeCreate
<1>2. ASSUME NEW p \in Path, Unlink(p) PROVE TypeOK'
  BY <1>2, TypeUnlink
<1>3. ASSUME NEW p \in Path, NEW fl \in Flags, OpenFailing(p, fl) PROVE TypeOK'
  BY <1>3, TypeOpenFailing
<1>4. ASSUME NEW p \in Path, NEW fl \in Flags, NEW pid \in Pid, Opening(p, pid, fl) PROVE TypeOK'
  BY <1>4, TypeOpenNew, TypeOpenShared DEF Opening
<1>5. ASSUME NEW o \in opens, Release(o) PROVE TypeOK'
  BY <1>5, TypeRelease
<1>6. ASSUME NEW from \in Path, NEW to \in Path, Rename(from, to) PROVE TypeOK'
  BY <1>6, TypeRename
<1>7. CASE UNCHANGED vars
  BY <1>7 DEF vars, backend, history, TypeOK
<1> QED BY <1>1, <1>2, <1>3, <1>4, <1>5, <1>6, <1>7 DEF Next

-----------------------------------------------------------------------------
(* Counts.                                                                 *)
LEMMA OpenAdded ==
  ASSUME IsFiniteSet(opens), NEW o, o \notin opens, opens' = opens \cup {o}
  PROVE  /\ IsFiniteSet(opens')
         /\ OpensOf(o.h)' = OpensOf(o.h) \cup {o}
         /\ Cardinality(OpensOf(o.h)') = Cardinality(OpensOf(o.h)) + 1
         /\ isWriter(o.flags) => /\ Cardinality(WritersOf(o.h)') = Cardinality(WritersOf(o.h)) + 1
                                 /\ ReadersOf(o.h)' = ReadersOf(o.h)
         /\ ~isWriter(o.flags) => /\ Cardinality(ReadersOf(o.h)') = Cardinality(ReadersOf(o.h)) + 1
                                  /\ WritersOf(o.h)' = WritersOf(o.h)
         /\ \A g : g # o.h => /\ OpensOf(g)' = OpensOf(g)
                              /\ WritersOf(g)' = WritersOf(g) /\ ReadersOf(g)' = ReadersOf(g)
<1>1. IsFiniteSet(OpensOf(o.h)) /\ IsFiniteSet(WritersOf(o.h)) /\ IsFiniteSet(ReadersOf(o.h))
  BY OpensFinite
<1>2. o \notin OpensOf(o.h) /\ o \notin WritersOf(o.h) /\ o \notin ReadersOf(o.h)
  BY DEF OpensOf, WritersOf, ReadersOf
<1>3. OpensOf(o.h)' = OpensOf(o.h) \cup {o}
  BY DEF OpensOf
<1>4. isWriter(o.flags) =>
        WritersOf(o.h)' = WritersOf(o.h) \cup {o} /\ ReadersOf(o.h)' = ReadersOf(o.h)
  BY DEF OpensOf, WritersOf, ReadersOf, isWriter
<1>5. ~isWriter(o.flags) =>
        ReadersOf(o.h)' = ReadersOf(o.h) \cup {o} /\ WritersOf(o.h)' = WritersOf(o.h)
  BY DEF OpensOf, WritersOf, ReadersOf, isWriter
<1>6. \A g : g # o.h => /\ OpensOf(g)' = OpensOf(g)
                        /\ WritersOf(g)' = WritersOf(g) /\ ReadersOf(g)' = ReadersOf(g)
  BY DEF OpensOf, WritersOf, ReadersOf, isWriter
<1>7. IsFiniteSet(opens')
  BY FS_AddElement
<1>8. /\ Cardinality(OpensOf(o.h) \cup {o}) = Cardinality(OpensOf(o.h)) + 1
      /\ Cardinality(WritersOf(o.h) \cup {o}) = Cardinality(WritersOf(o.h)) + 1
      /\ Cardinality(ReadersOf(o.h) \cup {o}) = Cardinality(ReadersOf(o.h)) + 1
  BY <1>1, <1>2, FS_AddElement
<1> QED BY <1>3, <1>4, <1>5, <1>6, <1>7, <1>8

LEMMA OpenDropped ==
  ASSUME IsFiniteSet(opens), NEW o \in opens, opens' = opens \ {o}
  PROVE  /\ IsFiniteSet(opens')
         /\ OpensOf(o.h)' = OpensOf(o.h) \ {o}
         /\ Cardinality(OpensOf(o.h)') = Cardinality(OpensOf(o.h)) - 1
         /\ isWriter(o.flags) => /\ Cardinality(WritersOf(o.h)') = Cardinality(WritersOf(o.h)) - 1
                                 /\ ReadersOf(o.h)' = ReadersOf(o.h)
         /\ ~isWriter(o.flags) => /\ Cardinality(ReadersOf(o.h)') = Cardinality(ReadersOf(o.h)) - 1
                                  /\ WritersOf(o.h)' = WritersOf(o.h)
         /\ \A g : g # o.h => /\ OpensOf(g)' = OpensOf(g)
                              /\ WritersOf(g)' = WritersOf(g) /\ ReadersOf(g)' = ReadersOf(g)
<1>1. IsFiniteSet(OpensOf(o.h)) /\ IsFiniteSet(WritersOf(o.h)) /\ IsFiniteSet(ReadersOf(o.h))
  BY OpensFinite
<1>2. o \in OpensOf(o.h) /\ (isWriter(o.flags) => o \in WritersOf(o.h))
        /\ (~isWriter(o.flags) => o \in ReadersOf(o.h))
  BY DEF OpensOf, WritersOf, ReadersOf
<1>3. OpensOf(o.h)' = OpensOf(o.h) \ {o}
  BY DEF OpensOf
<1>4. isWriter(o.flags) =>
        WritersOf(o.h)' = WritersOf(o.h) \ {o} /\ ReadersOf(o.h)' = ReadersOf(o.h)
  BY DEF OpensOf, WritersOf, ReadersOf, isWriter
<1>5. ~isWriter(o.flags) =>
        ReadersOf(o.h)' = ReadersOf(o.h) \ {o} /\ WritersOf(o.h)' = WritersOf(o.h)
  BY DEF OpensOf, WritersOf, ReadersOf, isWriter
<1>6. \A g : g # o.h => /\ OpensOf(g)' = OpensOf(g)
                        /\ WritersOf(g)' = WritersOf(g) /\ ReadersOf(g)' = ReadersOf(g)
  BY DEF OpensOf, WritersOf, ReadersOf, isWriter
<1>7. IsFiniteSet(opens')
  BY FS_RemoveElement
<1>8. /\ Cardinality(OpensOf(o.h) \ {o}) = Cardinality(OpensOf(o.h)) - 1
      /\ isWriter(o.flags) => Cardinality(WritersOf(o.h) \ {o}) = Cardinality(WritersOf(o.h)) - 1
      /\ ~isWriter(o.flags) => Cardinality(ReadersOf(o.h) \ {o}) = Cardinality(ReadersOf(o.h)) - 1
  BY <1>1, <1>2, FS_RemoveElement
<1> QED BY <1>3, <1>4, <1>5, <1>6, <1>7, <1>8

(* A Plfs_fd that a step leaves alone, with the opens it has.              *)
LEMMA HandleSame ==
  ASSUME NEW g, HandleCounts(g), OpensOf(g)' = OpensOf(g),
         fd'[g].state = fd[g].state, fd'[g].refs = fd[g].refs, fd'[g].readers = fd[g].readers,
         fd'[g].writers = fd[g].writers, fd'[g].wf = fd[g].wf,
         g \in half_opened' <=> g \in half_opened
  PROVE  HandleCounts(g)'
<1>1. WritersOf(g)' = WritersOf(g) /\ ReadersOf(g)' = ReadersOf(g)
  BY DEF WritersOf, ReadersOf, isWriter
<1> QED BY <1>1 DEF HandleCounts, Live

(* What one more open does to its Plfs_fd, new or shared.                  *)
LEMMA CountsOpen ==
  ASSUME TypeOK, CountsOK, NEW h \in Handle, NEW o, o \notin opens, o.h = h,
         opens' = opens \cup {o}, half_opened' = half_opened, NEW f \in Fd,
         fd' = [fd EXCEPT ![h] = Counted(f, o.flags)],
         f.state = "live", f.refs = fd[h].refs, f.writers = fd[h].writers,
         f.readers = fd[h].readers, f.wf = fd[h].wf
  PROVE  CountsOK'
<1>1. IsFiniteSet(opens) /\ HandleCounts(h)
  BY DEF CountsOK
<1>2. fd'[h] = Counted(f, o.flags)
  BY DEF TypeOK
<1>3. ASSUME NEW g \in Handle, g # h PROVE HandleCounts(g)'
  <2>1. fd'[g] = fd[g] /\ HandleCounts(g) /\ OpensOf(g)' = OpensOf(g)
    BY <1>1, <1>3, OpenAdded DEF TypeOK, CountsOK
  <2> QED BY <2>1, HandleSame
<1>4. HandleCounts(h)'
  <2>1. /\ OpensOf(h)' = OpensOf(h) \cup {o}
        /\ Cardinality(OpensOf(h)') = Cardinality(OpensOf(h)) + 1
        /\ isWriter(o.flags) => /\ Cardinality(WritersOf(h)') = Cardinality(WritersOf(h)) + 1
                                /\ ReadersOf(h)' = ReadersOf(h)
        /\ ~isWriter(o.flags) => /\ Cardinality(ReadersOf(h)') = Cardinality(ReadersOf(h)) + 1
                                 /\ WritersOf(h)' = WritersOf(h)
    BY <1>1, OpenAdded
  <2>2. /\ fd'[h].state = "live" /\ fd'[h].refs = fd[h].refs + 1
        /\ isWriter(o.flags) => /\ fd'[h].writers = fd[h].writers + 1
                                /\ fd'[h].readers = fd[h].readers /\ fd'[h].wf
        /\ ~isWriter(o.flags) => /\ fd'[h].writers = fd[h].writers
                                 /\ fd'[h].readers = fd[h].readers + 1 /\ fd'[h].wf = fd[h].wf
    BY <1>2, CountedFields
  <2>3. /\ Cardinality(OpensOf(h)) \in Nat /\ Cardinality(WritersOf(h)) \in Nat
        /\ Cardinality(ReadersOf(h)) \in Nat /\ fd[h].writers \in Nat
    BY <1>1, OpensFinite DEF TypeOK, Fd
  <2> HIDE DEF isWriter
  <2>4. CASE isWriter(o.flags)
    BY <1>1, <2>1, <2>2, <2>3, <2>4 DEF HandleCounts, Live
  <2>5. CASE ~isWriter(o.flags)
    BY <1>1, <2>1, <2>2, <2>3, <2>5 DEF HandleCounts, Live
  <2> QED BY <2>4, <2>5
<1> QED BY <1>1, <1>3, <1>4, OpenAdded DEF CountsOK

LEMMA CountsRelease ==
  ASSUME TypeOK, CountsOK, NEW o \in opens, Release(o)
  PROVE  CountsOK'
<1> DEFINE h == o.h
           after == Uncounted(fd[h], o.flags)
<1>1. h \in Handle /\ fd[h] \in Fd /\ Live(h) /\ IsFiniteSet(opens) /\ HandleCounts(h)
  BY ReleaseCounted DEF CountsOK
<1>2. opens' = opens \ {o} /\ half_opened' = half_opened /\ Usable(h)
      /\ fd' = [fd EXCEPT ![h] = IF after.refs = 0 THEN GoneFd ELSE after]
  BY DEF Release, history, GoneFd
<1>3. ASSUME NEW g \in Handle, g # h PROVE HandleCounts(g)'
  <2>1. fd'[g] = fd[g] /\ HandleCounts(g) /\ OpensOf(g)' = OpensOf(g)
    BY <1>1, <1>2, <1>3, OpenDropped DEF TypeOK, CountsOK
  <2> QED BY <1>2, <2>1, HandleSame
<1>4. HandleCounts(h)'
  <2>1. /\ IsFiniteSet(opens')
        /\ Cardinality(OpensOf(h)') = Cardinality(OpensOf(h)) - 1
        /\ isWriter(o.flags) => /\ Cardinality(WritersOf(h)') = Cardinality(WritersOf(h)) - 1
                                /\ ReadersOf(h)' = ReadersOf(h)
        /\ ~isWriter(o.flags) => /\ Cardinality(ReadersOf(h)') = Cardinality(ReadersOf(h)) - 1
                                 /\ WritersOf(h)' = WritersOf(h)
    BY <1>1, <1>2, OpenDropped
  <2>2. /\ after.state = "live" /\ after.refs = fd[h].refs - 1
        /\ isWriter(o.flags) => /\ after.writers = fd[h].writers - 1
                                /\ after.readers = fd[h].readers
                                /\ after.wf = (fd[h].writers > 1)
        /\ ~isWriter(o.flags) => /\ after.writers = fd[h].writers
                                 /\ after.readers = fd[h].readers - 1
                                 /\ after.wf = fd[h].wf
    BY <1>1, ReleaseCounted, UncountedFields DEF Live
  <2>3. /\ Cardinality(OpensOf(h)) \in Nat /\ Cardinality(WritersOf(h)) \in Nat
        /\ Cardinality(ReadersOf(h)) \in Nat
        /\ fd[h].writers \in Nat /\ fd[h].readers \in Nat /\ fd[h].refs \in Nat
        /\ Cardinality(OpensOf(h)) = Cardinality(WritersOf(h)) + Cardinality(ReadersOf(h))
    BY <1>1, OpensFinite DEF Fd
  <2>4. /\ Cardinality(OpensOf(h)') \in Nat
        /\ Cardinality(WritersOf(h)') \in Nat /\ Cardinality(ReadersOf(h)') \in Nat
        /\ Cardinality(OpensOf(h)') = 0 <=> OpensOf(h)' = {}
        /\ Cardinality(WritersOf(h)') = 0 <=> WritersOf(h)' = {}
        /\ Cardinality(OpensOf(h)') = Cardinality(WritersOf(h)') + Cardinality(ReadersOf(h)')
    <3>1. AllCountsAdd'
      BY CountsAlwaysAdd, PTL
    <3>2. CountsAdd(h)'
      BY <2>1, <3>1 DEF AllCountsAdd
    <3> QED BY <3>2 DEF CountsAdd
  <2>5. fd[h].refs = fd[h].writers + fd[h].readers
    BY <1>2 DEF Usable, CountsAgree
  <2>6. fd'[h] = IF after.refs = 0 THEN GoneFd ELSE after
    BY <1>1, <1>2 DEF TypeOK
  <2>7. CASE after.refs = 0
    <3>1. fd'[h] = GoneFd
      BY <2>6, <2>7
    <3>2. GoneFd.state = "gone" /\ GoneFd.refs = 0 /\ GoneFd.writers = 0 /\ GoneFd.readers = 0
      BY DEF GoneFd, NoFd
    <3>3. Cardinality(OpensOf(h)') = 0
      BY <1>1, <2>1, <2>2, <2>3, <2>7 DEF HandleCounts
    <3>4. OpensOf(h)' = {} /\ Cardinality(WritersOf(h)') = 0 /\ Cardinality(ReadersOf(h)') = 0
            /\ WritersOf(h)' = {}
      BY <3>3, <2>4
    <3> QED BY <3>1, <3>2, <3>3, <3>4 DEF HandleCounts, Live
  <2>8. CASE after.refs # 0
    <3>1. fd'[h] = after
      BY <2>6, <2>8
    <3> HIDE DEF after, isWriter
    <3>2. fd'[h].refs = Cardinality(OpensOf(h)') /\ OpensOf(h)' # {}
      BY <1>1, <2>1, <2>2, <2>3, <2>4, <2>8, <3>1 DEF HandleCounts
    <3>3. fd'[h].readers = Cardinality(ReadersOf(h)')
          /\ fd'[h].writers >= Cardinality(WritersOf(h)')
          /\ (h \notin half_opened => fd'[h].writers = Cardinality(WritersOf(h)'))
      <4>1. CASE isWriter(o.flags)
        BY <1>1, <2>1, <2>2, <2>3, <3>1, <4>1 DEF HandleCounts
      <4>2. CASE ~isWriter(o.flags)
        BY <1>1, <2>1, <2>2, <2>3, <3>1, <4>2 DEF HandleCounts
      <4> QED BY <4>1, <4>2
    <3>4. h \notin half_opened /\ WritersOf(h)' # {} => fd'[h].wf
      <4>1. CASE isWriter(o.flags)
        <5>1. ASSUME h \notin half_opened, WritersOf(h)' # {} PROVE fd[h].writers > 1
          BY <1>1, <2>1, <2>3, <2>4, <4>1, <5>1 DEF HandleCounts
        <5>2. fd'[h].wf = (fd[h].writers > 1)
          BY <2>2, <3>1, <4>1
        <5> QED BY <5>1, <5>2
      <4>2. CASE ~isWriter(o.flags)
        BY <1>1, <2>1, <2>2, <3>1, <4>2 DEF HandleCounts
      <4> QED BY <4>1, <4>2
    <3> QED BY <1>2, <2>2, <3>1, <3>2, <3>3, <3>4 DEF HandleCounts, Live
  <2> QED BY <2>7, <2>8
<1> QED BY <1>1, <1>2, <1>3, <1>4, OpenDropped DEF CountsOK

-----------------------------------------------------------------------------
(* The parts of the two opens that succeed.                                *)
NewOpen(n, h, pid, fl) == [n |-> n, h |-> h, pid |-> pid, flags |-> fl]

OpenNewParts(p, pid, fl, n, h) ==
  /\ NewOpen(n, h, pid, fl) \notin opens
  /\ container[p] # 0 /\ <<p, fl>> \notin DOMAIN open_files /\ fd[h].state = "new"
  /\ fd' = [fd EXCEPT ![h] = Counted(NewFd(p, pid), fl)]
  /\ open_files' = [k \in DOMAIN open_files \cup {<<p, fl>>} |->
                      IF k = <<p, fl>> THEN h ELSE open_files[k]]
  /\ opens' = opens \cup {NewOpen(n, h, pid, fl)}
  /\ isWriter(fl) => /\ records' = records \cup {<<container[p], pid>>}
                     /\ twice' = twice \cup ({<<container[p], pid>>} \cap records)
                     /\ wrote' = wrote \cup {container[p]}
  /\ ~isWriter(fl) => UNCHANGED <<records, twice, wrote>>
  /\ UNCHANGED <<container, created, metas, renames, dragged, moved, half_opened>>

OpenSharedParts(p, pid, fl, n, h) ==
  /\ NewOpen(n, h, pid, fl) \notin opens
  /\ container[p] # 0 /\ <<p, fl>> \in DOMAIN open_files /\ h = open_files[<<p, fl>>] /\ Usable(h)
  /\ fd' = [fd EXCEPT ![h] = Counted(fd[h], fl)]
  /\ opens' = opens \cup {NewOpen(n, h, pid, fl)}
  /\ UNCHANGED <<container, created, open_files, records, metas, renames,
                 dragged, moved, half_opened, twice, wrote>>

LEMMA OpeningHasParts ==
  ASSUME TypeOK, NEW p \in Path, NEW pid \in Pid, NEW fl \in Flags, Opening(p, pid, fl)
  PROVE  \E n \in OpenFile, h \in Handle :
           OpenNewParts(p, pid, fl, n, h) \/ OpenSharedParts(p, pid, fl, n, h)
<1>1. PICK n \in OpenFile :
        (\A o \in opens : o.n # n) /\ (OpenNew(p, pid, fl, n) \/ OpenShared(p, pid, fl, n))
  BY DEF Opening
<1>2. ASSUME NEW h PROVE NewOpen(n, h, pid, fl) \notin opens
  BY <1>1 DEF NewOpen
<1>3. CASE OpenNew(p, pid, fl, n)
  BY <1>2, <1>3 DEF OpenNew, OpenNewParts, NewOpen, NewFd, backend
<1>4. CASE OpenShared(p, pid, fl, n)
  <2>1. open_files[<<p, fl>>] \in Handle
    BY <1>4 DEF OpenShared, TypeOK
  <2> QED BY <1>2, <1>4, <2>1 DEF OpenShared, OpenSharedParts, NewOpen, backend, history
<1> QED BY <1>1, <1>3, <1>4

LEMMA CountsOpening ==
  ASSUME TypeOK, CountsOK, NEW p \in Path, NEW pid \in Pid, NEW fl \in Flags, Opening(p, pid, fl)
  PROVE  CountsOK'
<1>1. PICK n \in OpenFile, h \in Handle :
        OpenNewParts(p, pid, fl, n, h) \/ OpenSharedParts(p, pid, fl, n, h)
  BY OpeningHasParts
<1> DEFINE o == NewOpen(n, h, pid, fl)
<1>2. o.h = h /\ o.flags = fl /\ o \notin opens /\ opens' = opens \cup {o} /\ half_opened' = half_opened
  BY <1>1 DEF OpenNewParts, OpenSharedParts, NewOpen
<1> HIDE DEF o
<1>3. CASE OpenNewParts(p, pid, fl, n, h)
  <2>1. HandleCounts(h) /\ IsFiniteSet(opens) /\ fd[h].state = "new"
    BY <1>3 DEF OpenNewParts, CountsOK
  <2>2. fd' = [fd EXCEPT ![h] = Counted(NewFd(p, pid), fl)]
    BY <1>3 DEF OpenNewParts
  <2>3. OpensOf(h) = {} /\ h \notin half_opened
    BY <2>1 DEF HandleCounts, Live
  <2>4. Cardinality(OpensOf(h)) = 0 /\ Cardinality(WritersOf(h)) = 0 /\ Cardinality(ReadersOf(h)) = 0
        /\ WritersOf(h) = {}
    BY <2>3, FS_EmptySet DEF WritersOf, ReadersOf
  <2>5. NewFd(p, pid) \in Fd /\ NewFd(p, pid).state = "live" /\ NewFd(p, pid).refs = 0
        /\ NewFd(p, pid).writers = 0 /\ NewFd(p, pid).readers = 0 /\ NewFd(p, pid).wf = FALSE
    <3>1. NewFd(p, pid) \in Fd
      BY FdTypes
    <3> QED BY <3>1 DEF NewFd, NoFd
  <2>6. ASSUME NEW g \in Handle, g # h PROVE HandleCounts(g)'
    <3>1. fd'[g] = fd[g] /\ HandleCounts(g) /\ OpensOf(g)' = OpensOf(g)
      BY <1>2, <2>1, <2>2, <2>6, OpenAdded DEF TypeOK, CountsOK
    <3> QED BY <1>2, <3>1, HandleSame
  <2>7. HandleCounts(h)'
    <3>1. fd'[h] = Counted(NewFd(p, pid), fl)
      BY <2>2 DEF TypeOK
    <3>2. /\ fd'[h].state = "live" /\ fd'[h].refs = 1
          /\ isWriter(fl) => fd'[h].writers = 1 /\ fd'[h].readers = 0 /\ fd'[h].wf
          /\ ~isWriter(fl) => fd'[h].writers = 0 /\ fd'[h].readers = 1
      BY <2>5, <3>1, CountedFields
    <3>3. /\ OpensOf(h)' = OpensOf(h) \cup {o}
          /\ Cardinality(OpensOf(h)') = Cardinality(OpensOf(h)) + 1
          /\ isWriter(fl) => /\ Cardinality(WritersOf(h)') = Cardinality(WritersOf(h)) + 1
                             /\ ReadersOf(h)' = ReadersOf(h)
          /\ ~isWriter(fl) => /\ Cardinality(ReadersOf(h)') = Cardinality(ReadersOf(h)) + 1
                              /\ WritersOf(h)' = WritersOf(h)
      BY <1>2, <2>1, OpenAdded
    <3> HIDE DEF isWriter
    <3>4. CASE isWriter(fl)
      BY <2>3, <2>4, <3>2, <3>3, <3>4 DEF HandleCounts, Live
    <3>5. CASE ~isWriter(fl)
      BY <2>3, <2>4, <3>2, <3>3, <3>5 DEF HandleCounts, Live
    <3> QED BY <3>4, <3>5
  <2> QED BY <1>2, <2>1, <2>6, <2>7, OpenAdded DEF CountsOK
<1>4. CASE OpenSharedParts(p, pid, fl, n, h)
  <2>1. fd[h] \in Fd /\ fd[h].state = "live" /\ fd' = [fd EXCEPT ![h] = Counted(fd[h], fl)]
    BY <1>4 DEF OpenSharedParts, Usable, TypeOK
  <2> QED BY <1>2, <2>1, CountsOpen
<1> QED BY <1>1, <1>3, <1>4

LEMMA CountsOpenFailing ==
  ASSUME TypeOK, CountsOK, NEW p \in Path, NEW fl \in Flags, OpenFailing(p, fl)
  PROVE  CountsOK'
<1>0. PICK h \in Handle : h = open_files[<<p, fl>>]
  BY DEF TypeOK, OpenFailing, OpenSharedLosesWriteFile, OpenSharedCountsWriter
<1>1. h \in Handle /\ fd[h] \in Fd /\ fd[h].writers \in Nat /\ fd[h].state = "live" /\ opens' = opens
      /\ half_opened' = half_opened \cup {h}
  BY <1>0 DEF TypeOK, OpenFailing, OpenSharedLosesWriteFile, OpenSharedCountsWriter, Usable, Fd
<1>2. /\ \A g \in Handle : g # h => fd'[g] = fd[g]
      /\ fd'[h].state = fd[h].state /\ fd'[h].refs = fd[h].refs /\ fd'[h].readers = fd[h].readers
      /\ fd'[h].writers = fd[h].writers \/ fd'[h].writers = fd[h].writers + 1
  <2>1. CASE OpenSharedLosesWriteFile(p, fl)
    BY <1>0, <1>1, <2>1 DEF OpenSharedLosesWriteFile, TypeOK, Fd
  <2>2. CASE OpenSharedCountsWriter(p, fl)
    BY <1>0, <1>1, <2>2 DEF OpenSharedCountsWriter, TypeOK, Fd
  <2> QED BY <2>1, <2>2 DEF OpenFailing
<1>3. \A g : OpensOf(g)' = OpensOf(g) /\ WritersOf(g)' = WritersOf(g) /\ ReadersOf(g)' = ReadersOf(g)
  BY <1>1 DEF OpensOf, WritersOf, ReadersOf, isWriter
<1>4. ASSUME NEW g \in Handle, g # h PROVE HandleCounts(g)'
  BY <1>1, <1>2, <1>3, <1>4, HandleSame DEF CountsOK
<1>5. HandleCounts(h)'
  <2>1. HandleCounts(h) /\ Cardinality(WritersOf(h)) \in Nat
    BY <1>1, OpensFinite DEF CountsOK
  <2> QED BY <1>1, <1>2, <1>3, <2>1 DEF HandleCounts, Live
<1> QED BY <1>1, <1>4, <1>5 DEF CountsOK

LEMMA CountsRename ==
  ASSUME TypeOK, CountsOK, NEW from \in Path, NEW to \in Path, Rename(from, to)
  PROVE  CountsOK'
<1>1. RenameParts(from, to)
  BY RenameHasParts
<1>2. opens' = opens /\ half_opened' = half_opened
  BY <1>1 DEF RenameParts
<1>3. ASSUME NEW g \in Handle PROVE HandleCounts(g)'
  <2>1. fd[g] \in Fd /\ HandleCounts(g) /\ OpensOf(g)' = OpensOf(g)
    BY <1>2 DEF TypeOK, CountsOK, OpensOf
  <2>2. fd'[g] = fd[g] \/ fd'[g] = [fd[g] EXCEPT !.path = to, !.logical = TRUE]
    BY <1>1 DEF RenameParts
  <2>3. fd'[g].state = fd[g].state /\ fd'[g].refs = fd[g].refs /\ fd'[g].readers = fd[g].readers
        /\ fd'[g].writers = fd[g].writers /\ fd'[g].wf = fd[g].wf
    BY <2>1, <2>2 DEF Fd
  <2> QED BY <1>2, <2>1, <2>3, HandleSame
<1> QED BY <1>2, <1>3 DEF CountsOK

LEMMA CountsInit == Init => CountsOK
<1> SUFFICES ASSUME Init PROVE CountsOK
  OBVIOUS
<1>1. opens = {} /\ half_opened = {} /\ \A h \in Handle : fd[h] = NoFd
  BY DEF Init
<1>2. \A h : OpensOf(h) = {} /\ WritersOf(h) = {} /\ ReadersOf(h) = {}
  BY <1>1 DEF OpensOf, WritersOf, ReadersOf
<1>3. Cardinality({}) = 0 /\ IsFiniteSet(opens)
  BY <1>1, FS_EmptySet
<1>4. ASSUME NEW h \in Handle PROVE HandleCounts(h)
  <2>1. fd[h].state = "new" /\ fd[h].refs = 0 /\ fd[h].readers = 0 /\ fd[h].writers = 0
    BY <1>1 DEF NoFd
  <2> QED BY <1>1, <1>2, <1>3, <2>1 DEF HandleCounts, Live
<1> QED BY <1>3, <1>4 DEF CountsOK

LEMMA CountsKept ==
  ASSUME Inv, [Next]_vars
  PROVE  CountsOK'
<1> USE DEF Inv
<1>1. ASSUME UNCHANGED <<fd, opens, half_opened>> PROVE CountsOK'
  BY <1>1, HandleSame DEF CountsOK, OpensOf
<1>2. ASSUME NEW p \in Path, Create(p) \/ Unlink(p) PROVE CountsOK'
  BY <1>1, <1>2 DEF Create, Unlink, history
<1>3. ASSUME NEW p \in Path, NEW fl \in Flags, OpenFailing(p, fl) PROVE CountsOK'
  BY <1>3, CountsOpenFailing
<1>4. ASSUME NEW p \in Path, NEW fl \in Flags, NEW pid \in Pid, Opening(p, pid, fl) PROVE CountsOK'
  BY <1>4, CountsOpening
<1>5. ASSUME NEW o \in opens, Release(o) PROVE CountsOK'
  BY <1>5, CountsRelease
<1>6. ASSUME NEW from \in Path, NEW to \in Path, Rename(from, to) PROVE CountsOK'
  BY <1>6, CountsRename
<1>7. CASE UNCHANGED vars
  BY <1>1, <1>7 DEF vars, history
<1> QED BY <1>2, <1>3, <1>4, <1>5, <1>6, <1>7 DEF Next

-----------------------------------------------------------------------------
(* What a step keeps of a Plfs_fd apart from its counts.                   *)
SameFile(g) ==
  /\ fd'[g].file = fd[g].file /\ fd'[g].pid = fd[g].pid
  /\ fd'[g].path = fd[g].path /\ fd'[g].logical = fd[g].logical

(* An open through the table, whether it fails half-way or not, only       *)
(* changes counts, and makes no writing Plfs_fd of one that was not.       *)
LEMMA SharedWrites ==
  ASSUME TypeOK, CountsOK, FlagsOK, NEW k \in DOMAIN open_files, Live(open_files[k]), isWriter(k[2])
  PROVE  fd[open_files[k]].writers > 0
<1> DEFINE h == open_files[k]
<1>1. h \in Handle /\ HandleCounts(h) /\ IsFiniteSet(opens) /\ fd[h].writers \in Nat
  BY DEF TypeOK, CountsOK, Fd
<1>2. PICK o \in OpensOf(h) : TRUE
  BY <1>1 DEF HandleCounts
<1>3. o \in opens /\ o.h = h /\ o.flags = k[2]
  BY DEF OpensOf, FlagsOK
<1>4. o \in WritersOf(h)
  BY <1>3 DEF WritersOf, OpensOf, isWriter
<1>5. Cardinality(WritersOf(h)) \in Nat /\ Cardinality(WritersOf(h)) # 0
  BY <1>1, <1>4, OpensFinite
<1> QED BY <1>1, <1>5 DEF HandleCounts

SharedKept ==
  /\ \A g \in Handle : SameFile(g) /\ fd'[g].state = fd[g].state /\ (Writing(g)' <=> Writing(g))
  /\ UNCHANGED <<container, created, open_files, records, metas, dragged, moved, twice, wrote>>

LEMMA SharedKeeps ==
  ASSUME TypeOK, CountsOK, FlagsOK, NEW p \in Path, NEW pid \in Pid, NEW fl \in Flags,
         NEW n \in OpenFile, NEW h \in Handle, OpenSharedParts(p, pid, fl, n, h)
  PROVE  SharedKept
<1>1. /\ fd[h] \in Fd /\ fd[h].writers \in Nat /\ <<p, fl>> \in DOMAIN open_files
      /\ h = open_files[<<p, fl>>] /\ Live(h)
  BY DEF OpenSharedParts, TypeOK, Usable, Live, Fd
<1>2. isWriter(fl) => fd[h].writers > 0
  BY <1>1, SharedWrites
<1>3. fd'[h] = Counted(fd[h], fl) /\ \A g \in Handle : g # h => fd'[g] = fd[g]
  BY DEF OpenSharedParts, TypeOK
<1>4. SameFile(h) /\ fd'[h].state = fd[h].state
        /\ (isWriter(fl) => fd'[h].writers = fd[h].writers + 1)
        /\ (~isWriter(fl) => fd'[h].writers = fd[h].writers)
  BY <1>1, <1>3, CountedFields DEF SameFile
<1>5. Writing(h)' <=> Writing(h)
  BY <1>1, <1>2, <1>4 DEF Writing, Live
<1>6. ASSUME NEW g \in Handle, g # h
      PROVE  SameFile(g) /\ fd'[g].state = fd[g].state /\ (Writing(g)' <=> Writing(g))
  BY <1>3, <1>6 DEF SameFile, Writing, Live
<1>7. UNCHANGED <<container, created, open_files, records, metas, dragged, moved, twice, wrote>>
  BY DEF OpenSharedParts
<1> QED BY <1>4, <1>5, <1>6, <1>7 DEF SharedKept

LEMMA FailingKeeps ==
  ASSUME TypeOK, CountsOK, FlagsOK, NEW p \in Path, NEW fl \in Flags, OpenFailing(p, fl)
  PROVE  SharedKept /\ opens' = opens
<1>0. PICK h \in Handle : h = open_files[<<p, fl>>]
  BY DEF TypeOK, OpenFailing, OpenSharedLosesWriteFile, OpenSharedCountsWriter
<1>1. /\ fd[h] \in Fd /\ fd[h].writers \in Nat /\ <<p, fl>> \in DOMAIN open_files /\ Live(h)
      /\ opens' = opens
      /\ UNCHANGED <<container, created, open_files, records, metas, dragged, moved, twice, wrote>>
  BY <1>0 DEF OpenFailing, OpenSharedLosesWriteFile, OpenSharedCountsWriter,
              TypeOK, Usable, Live, Fd, backend
<1>2. isWriter(fl) => fd[h].writers > 0
  BY <1>0, <1>1, SharedWrites
<1>3. CASE OpenSharedLosesWriteFile(p, fl)
  <2>1. fd' = [fd EXCEPT ![h].wf = FALSE]
    BY <1>0, <1>3 DEF OpenSharedLosesWriteFile
  <2>2. \A g \in Handle : SameFile(g) /\ fd'[g].state = fd[g].state /\ fd'[g].writers = fd[g].writers
    BY <1>1, <2>1 DEF SameFile, TypeOK, Fd
  <2> QED BY <1>1, <2>2 DEF SharedKept, Writing, Live
<1>4. CASE OpenSharedCountsWriter(p, fl)
  <2>1. fd' = [fd EXCEPT ![h].writers = @ + 1] /\ fl = "rw"
    BY <1>0, <1>4 DEF OpenSharedCountsWriter
  <2>2. /\ \A g \in Handle : SameFile(g) /\ fd'[g].state = fd[g].state
        /\ \A g \in Handle : g # h => fd'[g].writers = fd[g].writers
        /\ fd'[h].writers = fd[h].writers + 1
    BY <1>1, <2>1 DEF SameFile, TypeOK, Fd
  <2>3. fd[h].writers > 0
    BY <1>2, <2>1 DEF isWriter
  <2>4. Writing(h)' <=> Writing(h)
    BY <1>1, <2>2, <2>3 DEF Writing, Live
  <2> QED BY <1>1, <2>2, <2>4 DEF SharedKept, Writing, Live
<1> QED BY <1>1, <1>3, <1>4 DEF OpenFailing

(* A release changes its own Plfs_fd only, drops the metadata and the open *)
(* record when it stops being written, and takes an entry out of the table *)
(* when it is deleted.                                                     *)
ReleaseParts(o) ==
  /\ opens' = opens \ {o}
  /\ \A g \in Handle : g # o.h => fd'[g] = fd[g]
  /\ fd'[o.h].state = IF OpensOf(o.h) = {o} THEN "gone" ELSE "live"
  /\ Live(o.h)' => SameFile(o.h)
  /\ Writing(o.h)' => Writing(o.h)
  /\ Writing(o.h) /\ ~Writing(o.h)' => DropMeta(fd[o.h])
  /\ DropMeta(fd[o.h]) \/ UNCHANGED <<records, metas>>
  /\ (Writing(o.h) /\ ~Writing(o.h)') \/ UNCHANGED <<records, metas>>
  /\ open_files' = IF OpensOf(o.h) = {o}
                   THEN [k \in DOMAIN open_files \ {<<NameOf(fd[o.h].file), o.flags>>} |-> open_files[k]]
                   ELSE open_files
  /\ UNCHANGED <<container, created, dragged, moved, half_opened, twice, wrote>>

LEMMA ReleaseHasParts ==
  ASSUME TypeOK, CountsOK, NEW o \in opens, Release(o)
  PROVE  ReleaseParts(o)
<1> DEFINE h == o.h
           after == Uncounted(fd[h], o.flags)
<1>1. h \in Handle /\ fd[h] \in Fd /\ Live(h) /\ IsFiniteSet(opens) /\ HandleCounts(h)
        /\ fd[h].writers \in Nat /\ fd[h].readers \in Nat /\ fd[h].refs \in Nat
        /\ (isWriter(o.flags) => fd[h].writers > 0) /\ (~isWriter(o.flags) => fd[h].readers > 0)
        /\ fd[h].refs > 0
  BY ReleaseCounted DEF CountsOK, Fd
<1>2. opens' = opens \ {o} /\ Usable(h)
      /\ fd' = [fd EXCEPT ![h] = IF after.refs = 0 THEN GoneFd ELSE after]
      /\ open_files' = (IF fd[h].refs > 1 THEN open_files
             ELSE [k \in DOMAIN open_files \ {<<NameOf(fd[h].file), o.flags>>} |-> open_files[k]])
      /\ UNCHANGED <<container, created, dragged, moved, half_opened, twice, wrote>>
  BY DEF Release, history, backend, GoneFd, Forget
<1>3. IF isWriter(o.flags) /\ after.writers = 0 THEN DropMeta(fd[h]) ELSE UNCHANGED <<records, metas>>
  BY DEF Release, NobodyWrites
<1>4. /\ after.state = "live" /\ after.refs = fd[h].refs - 1
      /\ after.file = fd[h].file /\ after.pid = fd[h].pid
      /\ after.path = fd[h].path /\ after.logical = fd[h].logical
      /\ isWriter(o.flags) => after.writers = fd[h].writers - 1
      /\ ~isWriter(o.flags) => after.writers = fd[h].writers
  BY <1>1, UncountedFields DEF Live
<1>5. fd'[h] = (IF after.refs = 0 THEN GoneFd ELSE after) /\ \A g \in Handle : g # h => fd'[g] = fd[g]
  BY <1>1, <1>2 DEF TypeOK
<1>6. fd[h].refs = fd[h].writers + fd[h].readers
  BY <1>2 DEF Usable, CountsAgree
<1>7. fd[h].refs = 1 <=> OpensOf(h) = {o}
  <2>1. o \in OpensOf(h) /\ IsFiniteSet(OpensOf(h)) /\ fd[h].refs = Cardinality(OpensOf(h))
    BY <1>1, OpensFinite DEF OpensOf, HandleCounts
  <2>2. Cardinality({o}) = 1
    BY FS_Singleton
  <2>3. Cardinality(OpensOf(h)) = 1 => \E x : OpensOf(h) = {x}
    BY <2>1, FS_Singleton
  <2> QED BY <2>1, <2>2, <2>3
<1>8. GoneFd.state = "gone"
  BY DEF GoneFd, NoFd
<1> HIDE DEF after, isWriter
<1>9. fd'[h].state = (IF OpensOf(h) = {o} THEN "gone" ELSE "live")
      /\ (Live(h)' => SameFile(h))
  BY <1>1, <1>4, <1>5, <1>7, <1>8 DEF Live, SameFile
<1>10. /\ Writing(h)' => Writing(h)
       /\ Writing(h) /\ ~Writing(h)' => isWriter(o.flags) /\ after.writers = 0
       /\ isWriter(o.flags) /\ after.writers = 0 => Writing(h) /\ ~Writing(h)'
  <2>1. CASE isWriter(o.flags)
    BY <1>1, <1>4, <1>5, <1>6, <1>8, <2>1 DEF Writing, Live
  <2>2. CASE ~isWriter(o.flags)
    BY <1>1, <1>4, <1>5, <1>6, <1>8, <2>2 DEF Writing, Live
  <2> QED BY <2>1, <2>2
<1>11. open_files' = IF OpensOf(h) = {o}
                     THEN [k \in DOMAIN open_files \ {<<NameOf(fd[h].file), o.flags>>} |-> open_files[k]]
                     ELSE open_files
  <2>1. fd[h].refs > 1 <=> OpensOf(h) # {o}
    BY <1>1, <1>7
  <2> QED BY <1>2, <2>1
<1> QED BY <1>2, <1>3, <1>5, <1>9, <1>10, <1>11 DEF ReleaseParts

-----------------------------------------------------------------------------
(* What the table holds after a rename was in it before, with its flags.   *)
LEMMA ReboundFrom ==
  ASSUME NEW from, NEW to, NEW k \in DOMAIN Rebound(from, to)
  PROVE  \E m \in DOMAIN open_files :
           /\ Rebound(from, to)[k] = open_files[m]
           /\ \/ m \in Matched(from) /\ k = Renamed(m, from, to)
              \/ m \notin Matched(from) /\ k = m
<1> DEFINE new == {Renamed(m, from, to) : m \in Matched(from)}
           old == CHOOSE m \in Matched(from) : Renamed(m, from, to) = k
<1>1. Rebound(from, to) = [j \in (DOMAIN open_files \ Matched(from)) \cup new |->
         IF j \in new THEN open_files[CHOOSE m \in Matched(from) : Renamed(m, from, to) = j]
         ELSE open_files[j]]
  BY DEF Rebound
<1>2. Matched(from) \subseteq DOMAIN open_files
  BY DEF Matched
<1>3. CASE k \in new
  <2>1. old \in Matched(from) /\ Renamed(old, from, to) = k
    BY <1>3
  <2>2. Rebound(from, to)[k] = open_files[old]
    BY <1>1, <1>3
  <2> QED BY <1>2, <2>1, <2>2
<1>4. CASE k \notin new
  <2>1. k \in DOMAIN open_files /\ k \notin Matched(from) /\ Rebound(from, to)[k] = open_files[k]
    BY <1>1, <1>4
  <2> QED BY <2>1
<1> QED BY <1>3, <1>4

(* An open of a Plfs_fd shows that it is live, and the other way round.    *)
LEMMA LiveHasOpen ==
  ASSUME TypeOK, CountsOK
  PROVE  /\ \A o \in opens : o \in Open /\ o.h \in Handle /\ Live(o.h)
         /\ \A h \in Handle : Live(h) => \E o \in opens : o.h = h
<1>1. \A o \in opens : o \in Open /\ o.h \in Handle
  BY DEF TypeOK, Open
<1> QED BY <1>1 DEF CountsOK, HandleCounts, OpensOf

LEMMA FlagsKept ==
  ASSUME Inv, [Next]_vars
  PROVE  FlagsOK'
<1>0. TypeOK /\ CountsOK /\ FlagsOK
  BY DEF Inv
<1>1. ASSUME UNCHANGED <<open_files, opens>>, \A g \in Handle : fd'[g].state = fd[g].state
      PROVE  FlagsOK'
  <2>1. \A k \in DOMAIN open_files : open_files[k] \in Handle
    BY <1>0 DEF TypeOK
  <2> QED BY <1>0, <1>1, <2>1 DEF FlagsOK
<1>2. ASSUME NEW p \in Path, Create(p) \/ Unlink(p) PROVE FlagsOK'
  BY <1>1, <1>2 DEF Create, Unlink
<1>3. ASSUME NEW p \in Path, NEW fl \in Flags, OpenFailing(p, fl) PROVE FlagsOK'
  BY <1>0, <1>1, <1>3, FailingKeeps DEF SharedKept
<1>4. ASSUME NEW p \in Path, NEW fl \in Flags, NEW pid \in Pid, Opening(p, pid, fl) PROVE FlagsOK'
  <2>1. PICK n \in OpenFile, h \in Handle :
          OpenNewParts(p, pid, fl, n, h) \/ OpenSharedParts(p, pid, fl, n, h)
    BY <1>0, <1>4, OpeningHasParts
  <2> DEFINE o == NewOpen(n, h, pid, fl)
  <2>2. o = NewOpen(n, h, pid, fl) /\ o.h = h /\ o.flags = fl
    BY DEF NewOpen
  <2> HIDE DEF o
  <2>3. CASE OpenNewParts(p, pid, fl, n, h)
    <3>1. /\ opens' = opens \cup {o} /\ fd[h].state = "new"
          /\ open_files' = [k \in DOMAIN open_files \cup {<<p, fl>>} |->
                              IF k = <<p, fl>> THEN h ELSE open_files[k]]
          /\ fd' = [fd EXCEPT ![h] = Counted(NewFd(p, pid), fl)]
      BY <2>2, <2>3 DEF OpenNewParts
    <3>2. \A q \in opens : q.h # h
      BY <1>0, <3>1, LiveHasOpen DEF Live
    <3>3. \A k \in DOMAIN open_files : open_files[k] # h /\ open_files[k] \in Handle
      BY <1>0, <3>1 DEF FlagsOK, TypeOK
    <3>4. fd'[h].state = "live" /\ \A g \in Handle : g # h => fd'[g] = fd[g]
      <4>1. NewFd(p, pid) \in Fd /\ NewFd(p, pid).state = "live"
        BY <1>0, FdTypes DEF NewFd, NoFd
      <4> QED BY <1>0, <3>1, <4>1, CountedFields DEF TypeOK
    <3>5. \A k \in DOMAIN open_files' : fd'[open_files'[k]].state # "new"
      BY <1>0, <3>1, <3>3, <3>4 DEF FlagsOK
    <3>6. \A a, b \in opens' : a.h = b.h => a.flags = b.flags
      BY <1>0, <2>2, <3>1, <3>2 DEF FlagsOK
    <3>7. \A k \in DOMAIN open_files', a \in opens' : a.h = open_files'[k] => a.flags = k[2]
      BY <1>0, <2>2, <3>1, <3>2, <3>3 DEF FlagsOK
    <3> QED BY <3>5, <3>6, <3>7 DEF FlagsOK
  <2>4. CASE OpenSharedParts(p, pid, fl, n, h)
    <3>1. /\ opens' = opens \cup {o} /\ <<p, fl>> \in DOMAIN open_files /\ h = open_files[<<p, fl>>]
          /\ Live(h)
      BY <2>2, <2>4 DEF OpenSharedParts, Usable, Live
    <3>2. open_files' = open_files /\ \A g \in Handle : fd'[g].state = fd[g].state
      BY <1>0, <2>4, SharedKeeps DEF SharedKept
    <3>3. PICK q \in opens : q.h = h
      BY <1>0, <3>1, LiveHasOpen
    <3>4. q.flags = fl
      BY <1>0, <3>1, <3>3 DEF FlagsOK
    <3>5. \A k \in DOMAIN open_files : fd'[open_files[k]].state # "new"
      BY <1>0, <3>2 DEF FlagsOK, TypeOK
    <3>6. \A a, b \in opens' : a.h = b.h => a.flags = b.flags
      BY <1>0, <2>2, <3>1, <3>3, <3>4 DEF FlagsOK
    <3>7. \A k \in DOMAIN open_files, a \in opens' : a.h = open_files[k] => a.flags = k[2]
      BY <1>0, <2>2, <3>1, <3>3, <3>4 DEF FlagsOK
    <3> QED BY <3>2, <3>5, <3>6, <3>7 DEF FlagsOK
  <2> QED BY <2>1, <2>3, <2>4
<1>5. ASSUME NEW o \in opens, Release(o) PROVE FlagsOK'
  <2>1. ReleaseParts(o)
    BY <1>0, <1>5, ReleaseHasParts
  <2>2. opens' \subseteq opens /\ DOMAIN open_files' \subseteq DOMAIN open_files
          /\ \A k \in DOMAIN open_files' : open_files'[k] = open_files[k]
    BY <2>1 DEF ReleaseParts
  <2>3. \A g \in Handle : fd'[g].state # "new" \/ fd'[g] = fd[g]
    BY <2>1 DEF ReleaseParts
  <2>4. \A k \in DOMAIN open_files : open_files[k] \in Handle
    BY <1>0 DEF TypeOK
  <2> QED BY <1>0, <2>2, <2>3, <2>4 DEF FlagsOK
<1>6. ASSUME NEW from \in Path, NEW to \in Path, Rename(from, to) PROVE FlagsOK'
  <2>1. RenameParts(from, to)
    BY <1>6, RenameHasParts
  <2>2. opens' = opens /\ open_files' = Rebound(from, to)
    BY <2>1 DEF RenameParts
  <2>3. \A g \in Handle : fd'[g].state = fd[g].state
    <3>1. \A g \in Handle : fd'[g] = fd[g] \/ fd'[g] = [fd[g] EXCEPT !.path = to, !.logical = TRUE]
      BY <2>1 DEF RenameParts
    <3>2. \A g \in Handle : fd[g] \in Fd
      BY <1>0 DEF TypeOK
    <3> QED BY <3>1, <3>2 DEF Fd
  <2>4. ASSUME NEW k \in DOMAIN open_files'
        PROVE  \E m \in DOMAIN open_files : open_files'[k] = open_files[m] /\ k[2] = m[2]
    <3>1. \A m : Renamed(m, from, to)[2] = m[2]
      BY DEF Renamed
    <3> QED BY <2>2, <2>4, <3>1, ReboundFrom
  <2>5. \A m \in DOMAIN open_files : open_files[m] \in Handle
    BY <1>0 DEF TypeOK
  <2> QED BY <1>0, <2>2, <2>3, <2>4, <2>5 DEF FlagsOK
<1>7. CASE UNCHANGED vars
  BY <1>1, <1>7 DEF vars
<1> QED BY <1>2, <1>3, <1>4, <1>5, <1>6, <1>7 DEF Next

-----------------------------------------------------------------------------
(* Files and their names.                                                  *)
RenameKept(from, to) ==
  /\ \A g \in Handle : /\ fd'[g].state = fd[g].state /\ fd'[g].file = fd[g].file
                       /\ fd'[g].pid = fd[g].pid /\ fd'[g].writers = fd[g].writers
  /\ \A g \in Taken(from) : g \in Handle /\ fd'[g].path = to /\ fd'[g].logical
  /\ \A g \in Handle \ Taken(from) : fd'[g] = fd[g]
  /\ from # to /\ container'[from] = 0 /\ container'[to] = container[from]
  /\ \A p \in Path : p # from /\ p # to => container'[p] = container[p]

LEMMA RenameKeeps ==
  ASSUME TypeOK, NEW from \in Path, NEW to \in Path, RenameParts(from, to)
  PROVE  RenameKept(from, to)
<1>1. Taken(from) \subseteq Handle
  BY DEF Taken, Matched, TypeOK
<1>2. \A g \in Handle : fd[g] \in Fd
        /\ fd'[g] = IF g \in Taken(from) THEN [fd[g] EXCEPT !.path = to, !.logical = TRUE] ELSE fd[g]
  BY DEF TypeOK, RenameParts
<1>3. \A g \in Handle : /\ fd'[g].state = fd[g].state /\ fd'[g].file = fd[g].file
                        /\ fd'[g].pid = fd[g].pid /\ fd'[g].writers = fd[g].writers
  <2>1. ASSUME NEW f \in Fd, NEW e, e = [f EXCEPT !.path = to, !.logical = TRUE]
        PROVE  e.state = f.state /\ e.file = f.file /\ e.pid = f.pid /\ e.writers = f.writers
    BY <2>1 DEF Fd
  <2> QED BY <1>2, <2>1
<1>4. \A g \in Taken(from) : fd'[g].path = to /\ fd'[g].logical
  <2>1. ASSUME NEW f \in Fd, NEW e, e = [f EXCEPT !.path = to, !.logical = TRUE]
        PROVE  e.path = to /\ e.logical
    BY <2>1 DEF Fd
  <2> QED BY <1>1, <1>2, <2>1
<1>5. from # to /\ container'[from] = 0 /\ container'[to] = container[from]
        /\ \A p \in Path : p # from /\ p # to => container'[p] = container[p]
  BY DEF TypeOK, RenameParts
<1> QED BY <1>1, <1>2, <1>3, <1>4, <1>5 DEF RenameKept

(* A file without opens is no live Plfs_fd's.                              *)
LEMMA NotOpen ==
  ASSUME TypeOK, CountsOK, NEW file, ~IsOpen(file), NEW h \in Handle, Live(h)
  PROVE  fd[h].file # file
BY LiveHasOpen DEF IsOpen

NewFdIs(p, pid, fl, h) ==
  /\ fd'[h].state = "live" /\ fd'[h].file = container[p] /\ fd'[h].path = p
  /\ fd'[h].pid = pid /\ ~fd'[h].logical
  /\ isWriter(fl) => fd'[h].writers = 1
  /\ ~isWriter(fl) => fd'[h].writers = 0
  /\ \A g \in Handle : g # h => fd'[g] = fd[g]

LEMMA NewFdFields ==
  ASSUME TypeOK, NEW p \in Path, NEW pid \in Pid, NEW fl, NEW h \in Handle, NEW n,
         OpenNewParts(p, pid, fl, n, h)
  PROVE  NewFdIs(p, pid, fl, h)
<1>1. /\ NewFd(p, pid) \in Fd /\ NewFd(p, pid).state = "live" /\ NewFd(p, pid).file = container[p]
      /\ NewFd(p, pid).path = p /\ NewFd(p, pid).pid = pid /\ NewFd(p, pid).logical = FALSE
      /\ NewFd(p, pid).writers = 0
  <2>1. NewFd(p, pid) \in Fd
    BY FdTypes
  <2> QED BY <2>1 DEF NewFd, NoFd
<1>2. fd'[h] = Counted(NewFd(p, pid), fl) /\ \A g \in Handle : g # h => fd'[g] = fd[g]
  BY DEF TypeOK, OpenNewParts
<1> HIDE DEF isWriter
<1> QED BY <1>1, <1>2, CountedFields DEF NewFdIs

LEMMA FilesKept ==
  ASSUME Inv, [Next]_vars
  PROVE  FilesOK'
<1>0. TypeOK /\ CountsOK /\ FlagsOK /\ FilesOK
  BY DEF Inv
<1>00. /\ created \in Nat /\ \A p \in Path : container[p] \in Nat
       /\ \A h \in Handle : fd[h].file \in Nat
  BY <1>0, BoundAssumption DEF TypeOK, File, Fd
<1>1. ASSUME UNCHANGED <<container, created, wrote>>,
             \A g \in Handle : Live(g)' => Live(g) /\ SameFile(g)
      PROVE  FilesOK'
  BY <1>0, <1>1 DEF FilesOK, SameFile
<1>2. ASSUME NEW p \in Path, Create(p) PROVE FilesOK'
  <2>1. container[p] = 0 /\ created' = created + 1 /\ fd' = fd /\ wrote' = wrote
        /\ container'[p] = created + 1 /\ \A q \in Path : q # p => container'[q] = container[q]
    BY <1>0, <1>2 DEF Create, TypeOK, history
  <2>2. \A q, r \in Path : container'[q] = container'[r] /\ container'[q] # 0 => q = r
    BY <1>0, <1>00, <2>1 DEF FilesOK
  <2>3. \A q \in Path : container'[q] <= created'
    BY <1>0, <1>00, <2>1 DEF FilesOK
  <2>4. ASSUME NEW h \in Handle, Live(h)
        PROVE  fd[h].path \in Path /\ fd[h].file # 0 /\ \E q \in Path : container'[q] = fd[h].file
    BY <1>0, <2>1, <2>4 DEF FilesOK
  <2>5. \A file \in wrote' : file # 0 /\ file <= created'
    <3>1. \A file \in wrote : file \in Nat
      BY <1>0, BoundAssumption DEF TypeOK, File
    <3> QED BY <1>0, <1>00, <2>1, <3>1 DEF FilesOK
  <2> QED BY <2>1, <2>2, <2>3, <2>4, <2>5 DEF FilesOK, Live
<1>3. ASSUME NEW p \in Path, Unlink(p) PROVE FilesOK'
  <2>1. container[p] # 0 /\ ~IsOpen(container[p]) /\ created' = created /\ fd' = fd /\ wrote' = wrote
        /\ container'[p] = 0 /\ \A q \in Path : q # p => container'[q] = container[q]
    BY <1>0, <1>3 DEF Unlink, TypeOK, history
  <2>2. ASSUME NEW h \in Handle, Live(h)
        PROVE  fd[h].path \in Path /\ fd[h].file # 0 /\ \E q \in Path : container'[q] = fd[h].file
    BY <1>0, <2>1, <2>2, NotOpen DEF FilesOK
  <2>3. \A q \in Path : container'[q] <= created'
    BY <1>0, <1>00, <2>1 DEF FilesOK
  <2>4. \A q, r \in Path : container'[q] = container'[r] /\ container'[q] # 0 => q = r
    BY <1>0, <2>1 DEF FilesOK
  <2>5. \A file \in wrote' : file # 0 /\ file <= created'
    BY <1>0, <2>1 DEF FilesOK
  <2> QED BY <2>1, <2>2, <2>3, <2>4, <2>5 DEF FilesOK, Live
<1>4. ASSUME NEW p \in Path, NEW fl \in Flags, OpenFailing(p, fl) PROVE FilesOK'
  BY <1>0, <1>1, <1>4, FailingKeeps DEF SharedKept, Live
<1>5. ASSUME NEW p \in Path, NEW fl \in Flags, NEW pid \in Pid, Opening(p, pid, fl) PROVE FilesOK'
  <2>1. PICK n \in OpenFile, h \in Handle :
          OpenNewParts(p, pid, fl, n, h) \/ OpenSharedParts(p, pid, fl, n, h)
    BY <1>0, <1>5, OpeningHasParts
  <2>2. CASE OpenNewParts(p, pid, fl, n, h)
    <3>1. container' = container /\ created' = created /\ wrote' \subseteq wrote \cup {container[p]}
          /\ container[p] # 0 /\ NewFdIs(p, pid, fl, h)
      BY <1>0, <2>2, NewFdFields DEF OpenNewParts
    <3>2. fd'[h].file = container[p] /\ fd'[h].path = p /\ \A g \in Handle : g # h => fd'[g] = fd[g]
      BY <3>1 DEF NewFdIs
    <3>3. ASSUME NEW g \in Handle, Live(g)'
          PROVE  fd'[g].path \in Path /\ fd'[g].file # 0 /\ \E q \in Path : container[q] = fd'[g].file
      <4>1. CASE g = h
        BY <3>1, <3>2, <4>1
      <4>2. CASE g # h
        <5>1. Live(g) /\ fd'[g] = fd[g]
          BY <3>2, <3>3, <4>2 DEF Live
        <5> QED BY <1>0, <5>1 DEF FilesOK
      <4> QED BY <4>1, <4>2
    <3>4. \A file \in wrote' : file # 0 /\ file <= created
      BY <1>0, <3>1 DEF FilesOK
    <3> QED BY <1>0, <3>1, <3>3, <3>4 DEF FilesOK
  <2>3. CASE OpenSharedParts(p, pid, fl, n, h)
    BY <1>0, <1>1, <2>3, SharedKeeps DEF SharedKept, Live
  <2> QED BY <2>1, <2>2, <2>3
<1>6. ASSUME NEW o \in opens, Release(o) PROVE FilesOK'
  <2>1. ReleaseParts(o) /\ o.h \in Handle /\ Live(o.h)
    BY <1>0, <1>6, ReleaseHasParts, LiveHasOpen
  <2>2. \A g \in Handle : Live(g)' => Live(g) /\ SameFile(g)
    BY <2>1 DEF ReleaseParts, SameFile, Live
  <2> QED BY <1>1, <2>1, <2>2 DEF ReleaseParts
<1>7. ASSUME NEW from \in Path, NEW to \in Path, Rename(from, to) PROVE FilesOK'
  <2>1. RenameParts(from, to) /\ RenameKept(from, to)
    BY <1>0, <1>7, RenameHasParts, RenameKeeps
  <2>2. container[from] # 0 /\ ~IsOpen(container[to]) /\ created' = created /\ wrote' = wrote
    BY <2>1 DEF RenameParts
  <2>3. /\ from # to /\ container'[from] = 0 /\ container'[to] = container[from]
        /\ \A p \in Path : p # from /\ p # to => container'[p] = container[p]
    BY <2>1 DEF RenameKept
  <2>4. \A q, r \in Path : container'[q] = container'[r] /\ container'[q] # 0 => q = r
    BY <1>0, <2>3 DEF FilesOK
  <2>5. \A q \in Path : container'[q] <= created'
    BY <1>0, <1>00, <2>2, <2>3 DEF FilesOK
  <2>6. ASSUME NEW h \in Handle, Live(h)'
        PROVE  fd'[h].path \in Path /\ fd'[h].file # 0 /\ \E q \in Path : container'[q] = fd'[h].file
    <3>1. Live(h) /\ fd'[h].file = fd[h].file /\ (fd'[h].path = to \/ fd'[h].path = fd[h].path)
      BY <2>1, <2>6 DEF RenameKept, Live
    <3>2. PICK q \in Path : container[q] = fd[h].file
      BY <1>0, <3>1 DEF FilesOK
    <3>3. q # to
      BY <1>0, <2>2, <3>1, <3>2, NotOpen
    <3>4. container'[IF q = from THEN to ELSE q] = fd[h].file
      BY <2>3, <3>2, <3>3
    <3> QED BY <1>0, <3>1, <3>4 DEF FilesOK
  <2>7. \A file \in wrote' : file # 0 /\ file <= created'
    BY <1>0, <2>2 DEF FilesOK
  <2> QED BY <2>4, <2>5, <2>6, <2>7 DEF FilesOK
<1>8. CASE UNCHANGED vars
  BY <1>1, <1>8 DEF vars, backend, history, SameFile, Live
<1> QED BY <1>2, <1>3, <1>4, <1>5, <1>6, <1>7, <1>8 DEF Next

-----------------------------------------------------------------------------
(* The table.                                                              *)
EntriesOK ==
  \A o \in opens, p \in Path :
    container[p] = fd[o.h].file /\ container[p] # 0 => Entry(o) = <<p, o.flags>>

LEMMA EntriesUnique == FilesOK => EntriesOK
<1> SUFFICES ASSUME FilesOK, NEW o \in opens, NEW p \in Path,
                    container[p] = fd[o.h].file, container[p] # 0
             PROVE  NameOf(fd[o.h].file) = p
  BY DEF EntriesOK, Entry
<1>1. \A q \in Path : container[q] = fd[o.h].file <=> q = p
  BY DEF FilesOK
<1> QED BY <1>1 DEF NameOf

(* Until something is dragged along, a rename moves what is listed under   *)
(* its own path, and nothing else begins like it.                          *)
LEMMA RenamedHere ==
  ASSUME NEW from \in Path, NEW to \in Path, NEW k, k[1] = from
  PROVE  Renamed(k, from, to) = <<to, k[2]>>
<1>1. Len(from) \in Nat /\ to \in Seq(Letter)
  BY PathAssumption
<1>2. SubSeq(from, Len(from) + 1, Len(from)) = << >>
  BY <1>1, SubSeqEmpty
<1>3. to \o << >> = to
  BY <1>1, ConcatEmptySeq
<1> QED BY <1>2, <1>3 DEF Renamed

LEMMA NothingDragged ==
  ASSUME TypeOK, FilesOK, TableOK, NEW from \in Path, NEW to \in Path,
         RenameParts(from, to), dragged' = {}
  PROVE  /\ dragged = {}
         /\ \A k \in DOMAIN open_files : k \in Matched(from) <=> k[1] = from
<1>1. dragged = {} /\ \A h \in Taken(from) : fd[h].file = container[from]
  BY DEF RenameParts
<1>2. container[from] # 0
  BY DEF RenameParts
<1>3. ASSUME NEW k \in Matched(from) PROVE k[1] = from
  <2>1. k \in DOMAIN open_files /\ open_files[k] \in Taken(from)
    BY DEF Matched, Taken
  <2>2. k[1] \in Path /\ container[k[1]] = container[from]
    BY <1>1, <2>1 DEF TableOK, TableRight
  <2> QED BY <1>2, <2>2 DEF FilesOK
<1>4. ASSUME NEW k \in DOMAIN open_files, k[1] = from PROVE k \in Matched(from)
  <2>1. IsPrefix(from, from)
    BY PathAssumption DEF IsPrefix
  <2> QED BY <1>4, <2>1 DEF Matched
<1> QED BY <1>1, <1>3, <1>4

LEMMA TableKept ==
  ASSUME Inv, [Next]_vars, FilesOK'
  PROVE  TableOK'
<1>0. TypeOK /\ CountsOK /\ FlagsOK /\ FilesOK /\ TableOK
  BY DEF Inv
<1>01. EntriesOK /\ EntriesOK'
  <2>1. (FilesOK => EntriesOK)'
    BY EntriesUnique, PTL
  <2> QED BY <1>0, <2>1, EntriesUnique
<1>02. \A k \in DOMAIN open_files : open_files[k] \in Handle
  BY <1>0 DEF TypeOK
<1>03. ASSUME NEW o \in opens
       PROVE  /\ o.h \in Handle /\ Live(o.h) /\ fd[o.h].file # 0
              /\ \E p \in Path : container[p] = fd[o.h].file /\ Entry(o) = <<p, o.flags>>
  BY <1>0, <1>01, LiveHasOpen DEF FilesOK, EntriesOK
<1>04. SUFFICES ASSUME dragged' = {} PROVE TableRight'
  BY DEF TableOK
<1>1. ASSUME UNCHANGED <<open_files, opens>>, dragged' = dragged,
             \A g \in Handle : fd'[g].state = fd[g].state /\ SameFile(g),
             \A p \in Path : container[p] # 0 /\ (\E g \in Handle : Live(g) /\ fd[g].file = container[p])
                               => container'[p] = container[p]
      PROVE  TableRight'
  <2>0. TableRight
    BY <1>0, <1>04, <1>1 DEF TableOK
  <2>1. ASSUME NEW k \in DOMAIN open_files
        PROVE  k[1] \in Path /\ Live(open_files[k])' /\ container'[k[1]] = fd'[open_files[k]].file
    <3>1. k[1] \in Path /\ Live(open_files[k]) /\ container[k[1]] = fd[open_files[k]].file
          /\ open_files[k] \in Handle
      BY <1>02, <2>0 DEF TableRight
    <3>2. container[k[1]] # 0
      BY <1>0, <3>1 DEF FilesOK
    <3> QED BY <1>1, <3>1, <3>2 DEF Live, SameFile
  <2>2. ASSUME NEW o \in opens PROVE Entry(o)' = Entry(o)
    <3>1. PICK p \in Path : container[p] = fd[o.h].file /\ Entry(o) = <<p, o.flags>>
      BY <1>03
    <3>2. fd'[o.h].file = container'[p] /\ container'[p] # 0
      BY <1>1, <1>03, <3>1 DEF SameFile
    <3> QED BY <1>01, <1>1, <3>1, <3>2 DEF EntriesOK
  <2> QED BY <1>1, <2>0, <2>1, <2>2 DEF TableRight
<1>2. ASSUME NEW p \in Path, Create(p) PROVE TableRight'
  <2>1. /\ UNCHANGED <<open_files, opens, fd, dragged>> /\ container[p] = 0
        /\ \A q \in Path : q # p => container'[q] = container[q]
    BY <1>0, <1>2 DEF Create, TypeOK, history
  <2> QED BY <1>1, <2>1 DEF SameFile
<1>3. ASSUME NEW p \in Path, Unlink(p) PROVE TableRight'
  <2>1. /\ UNCHANGED <<open_files, opens, fd, dragged>> /\ ~IsOpen(container[p])
        /\ \A q \in Path : q # p => container'[q] = container[q]
    BY <1>0, <1>3 DEF Unlink, TypeOK, history
  <2>2. \A g \in Handle : Live(g) => fd[g].file # container[p]
    BY <1>0, <2>1, NotOpen
  <2> QED BY <1>1, <2>1, <2>2 DEF SameFile
<1>4. ASSUME NEW p \in Path, NEW fl \in Flags, OpenFailing(p, fl) PROVE TableRight'
  BY <1>0, <1>1, <1>4, FailingKeeps DEF SharedKept
<1>5. ASSUME NEW p \in Path, NEW fl \in Flags, NEW pid \in Pid, Opening(p, pid, fl)
      PROVE  TableRight'
  <2>1. PICK n \in OpenFile, h \in Handle :
          OpenNewParts(p, pid, fl, n, h) \/ OpenSharedParts(p, pid, fl, n, h)
    BY <1>0, <1>5, OpeningHasParts
  <2> DEFINE o == NewOpen(n, h, pid, fl)
  <2>2. o = NewOpen(n, h, pid, fl) /\ o.h = h /\ o.flags = fl
    BY DEF NewOpen
  <2> HIDE DEF o
  <2>3. opens' = opens \cup {o} /\ dragged' = dragged /\ container' = container /\ container[p] # 0
    BY <2>1, <2>2 DEF OpenNewParts, OpenSharedParts
  <2>4. TableRight
    BY <1>0, <1>04, <2>3 DEF TableOK
  <2>5. CASE OpenNewParts(p, pid, fl, n, h)
    <3>1. /\ fd[h].state = "new" /\ NewFdIs(p, pid, fl, h) /\ <<p, fl>> \notin DOMAIN open_files
          /\ open_files' = [k \in DOMAIN open_files \cup {<<p, fl>>} |->
                              IF k = <<p, fl>> THEN h ELSE open_files[k]]
      BY <1>0, <2>5, NewFdFields DEF OpenNewParts
    <3>2. /\ Live(h)' /\ fd'[h].file = container[p] /\ \A g \in Handle : g # h => fd'[g] = fd[g]
      BY <3>1 DEF NewFdIs, Live
    <3>3. ASSUME NEW k \in DOMAIN open_files
          PROVE  /\ k[1] \in Path /\ Live(open_files[k])' /\ container[k[1]] = fd'[open_files[k]].file
                 /\ open_files'[k] = open_files[k]
      <4>1. Live(open_files[k]) /\ k[1] \in Path /\ container[k[1]] = fd[open_files[k]].file
        BY <2>4 DEF TableRight
      <4>2. open_files[k] # h /\ open_files'[k] = open_files[k]
        BY <3>1, <4>1 DEF Live
      <4> QED BY <1>02, <3>1, <3>2, <4>1, <4>2 DEF Live
    <3>4. ASSUME NEW k \in DOMAIN open_files'
          PROVE  k[1] \in Path /\ Live(open_files[k])' /\ container'[k[1]] = fd'[open_files'[k]].file
      <4>1. CASE k = <<p, fl>>
        BY <2>3, <3>1, <3>2, <4>1 DEF Live
      <4>2. CASE k # <<p, fl>>
        BY <2>3, <3>1, <3>3, <4>2 DEF Live
      <4> QED BY <4>1, <4>2
    <3>5. ASSUME NEW q \in opens'
          PROVE  Entry(q)' \in DOMAIN open_files' /\ open_files'[Entry(q)'] = q.h
      <4>1. CASE q = o
        <5>1. Entry(q)' = <<p, fl>>
          BY <1>01, <2>2, <2>3, <3>2, <4>1 DEF EntriesOK
        <5> QED BY <2>2, <3>1, <4>1, <5>1
      <4>2. CASE q \in opens
        <5>1. q.h # h
          BY <1>03, <3>1, <4>2 DEF Live
        <5>2. Entry(q)' = Entry(q)
          BY <1>03, <2>3, <3>2, <4>2, <5>1 DEF Entry, NameOf
        <5>3. Entry(q) \in DOMAIN open_files /\ open_files[Entry(q)] = q.h
          BY <2>4, <4>2 DEF TableRight
        <5> QED BY <3>1, <5>2, <5>3
      <4> QED BY <2>3, <4>1, <4>2
    <3> QED BY <3>4, <3>5 DEF TableRight
  <2>6. CASE OpenSharedParts(p, pid, fl, n, h)
    <3>1. SharedKept /\ <<p, fl>> \in DOMAIN open_files /\ h = open_files[<<p, fl>>]
      BY <1>0, <2>6, SharedKeeps DEF OpenSharedParts
    <3>2. open_files' = open_files
          /\ \A g \in Handle : fd'[g].file = fd[g].file /\ fd'[g].state = fd[g].state
      BY <3>1 DEF SharedKept, SameFile
    <3>3. \A k \in DOMAIN open_files :
            k[1] \in Path /\ Live(open_files[k])' /\ container[k[1]] = fd'[open_files[k]].file
      BY <1>02, <2>4, <3>2 DEF TableRight, Live
    <3>4. Entry(o)' = <<p, fl>>
      <4>1. container[p] = fd[h].file
        BY <2>4, <3>1 DEF TableRight
      <4> QED BY <1>01, <2>2, <2>3, <3>2, <4>1 DEF EntriesOK
    <3>5. \A q \in opens : Entry(q)' = Entry(q)
      BY <1>03, <2>3, <3>2 DEF Entry, NameOf
    <3> QED BY <2>2, <2>3, <2>4, <3>1, <3>2, <3>3, <3>4, <3>5 DEF TableRight
  <2> QED BY <2>1, <2>5, <2>6
<1>6. ASSUME NEW o \in opens, Release(o) PROVE TableRight'
  <2> DEFINE h == o.h
  <2>1. ReleaseParts(o) /\ h \in Handle
    BY <1>0, <1>03, <1>6, ReleaseHasParts
  <2>2. /\ dragged' = dragged /\ container' = container /\ opens' = opens \ {o}
        /\ \A g \in Handle : g # h => fd'[g] = fd[g]
        /\ fd'[h].state = (IF OpensOf(h) = {o} THEN "gone" ELSE "live")
        /\ Live(h)' => fd'[h].file = fd[h].file
        /\ open_files' = IF OpensOf(h) = {o}
                         THEN [k \in DOMAIN open_files \ {Entry(o)} |-> open_files[k]]
                         ELSE open_files
    BY <2>1 DEF ReleaseParts, SameFile, Entry
  <2>3. TableRight
    BY <1>0, <1>04, <2>2 DEF TableOK
  <2>4. \A q \in opens' : q \in opens /\ q.h \in Handle /\ Live(q.h)'
                           /\ fd'[q.h].file = fd[q.h].file /\ Entry(q)' = Entry(q)
    <3>1. ASSUME NEW q \in opens' PROVE Live(q.h)' /\ fd'[q.h].file = fd[q.h].file
      <4>1. CASE q.h = h
        <5>1. OpensOf(h) # {o}
          BY <2>2, <3>1, <4>1 DEF OpensOf
        <5> QED BY <2>2, <4>1, <5>1 DEF Live
      <4>2. CASE q.h # h
        BY <1>03, <2>2, <4>2 DEF Live
      <4> QED BY <4>1, <4>2
    <3> QED BY <1>03, <2>2, <3>1 DEF Entry, NameOf
  <2>5. ASSUME NEW k \in DOMAIN open_files, open_files[k] = h PROVE k = Entry(o)
    <3>1. k[1] \in Path /\ container[k[1]] = fd[h].file /\ o.flags = k[2]
      BY <1>0, <2>3, <2>5 DEF TableRight, FlagsOK
    <3>2. Entry(o) = <<k[1], k[2]>>
      BY <1>01, <1>03, <3>1 DEF EntriesOK
    <3>3. k = <<k[1], k[2]>>
      BY <1>0, <2>5 DEF TypeOK, Key
    <3> QED BY <3>2, <3>3
  <2>6. ASSUME NEW k \in DOMAIN open_files'
        PROVE  k[1] \in Path /\ Live(open_files[k])' /\ container'[k[1]] = fd'[open_files'[k]].file
    <3>1. /\ k \in DOMAIN open_files /\ open_files'[k] = open_files[k]
          /\ open_files[k] = h => OpensOf(h) # {o}
      BY <2>2, <2>5
    <3>2. k[1] \in Path /\ Live(open_files[k]) /\ container[k[1]] = fd[open_files[k]].file
      BY <2>3, <3>1 DEF TableRight
    <3>3. CASE open_files[k] = h
      BY <2>2, <3>1, <3>2, <3>3 DEF Live
    <3>4. CASE open_files[k] # h
      BY <1>02, <2>2, <3>1, <3>2, <3>4 DEF Live
    <3> QED BY <3>3, <3>4
  <2>7. ASSUME NEW q \in opens'
        PROVE  Entry(q)' \in DOMAIN open_files' /\ open_files'[Entry(q)'] = q.h
    <3>1. q \in opens /\ Entry(q)' = Entry(q)
      BY <2>4
    <3>2. Entry(q) \in DOMAIN open_files /\ open_files[Entry(q)] = q.h
      BY <2>3, <3>1 DEF TableRight
    <3>3. OpensOf(h) = {o} => Entry(q) # Entry(o)
      <4>1. open_files[Entry(o)] = h
        BY <2>3 DEF TableRight
      <4> QED BY <2>2, <3>1, <3>2, <4>1 DEF OpensOf
    <3> QED BY <2>2, <3>1, <3>2, <3>3
  <2> QED BY <2>6, <2>7 DEF TableRight
<1>7. ASSUME NEW from \in Path, NEW to \in Path, Rename(from, to) PROVE TableRight'
  <2>1. RenameParts(from, to) /\ RenameKept(from, to)
    BY <1>0, <1>7, RenameHasParts, RenameKeeps
  <2>2. /\ dragged = {} /\ TableRight
        /\ \A k \in DOMAIN open_files : k \in Matched(from) <=> k[1] = from
    BY <1>0, <1>04, <2>1, NothingDragged DEF TableOK
  <2>3. /\ opens' = opens /\ open_files' = Rebound(from, to)
        /\ container[from] # 0 /\ ~IsOpen(container[to])
    BY <2>1 DEF RenameParts
  <2>4. /\ \A g \in Handle : fd'[g].state = fd[g].state /\ fd'[g].file = fd[g].file
        /\ from # to /\ container'[from] = 0 /\ container'[to] = container[from]
        /\ \A p \in Path : p # from /\ p # to => container'[p] = container[p]
    BY <2>1 DEF RenameKept
  <2>5. ASSUME NEW m \in DOMAIN open_files
        PROVE  /\ m[1] \in Path /\ open_files[m] \in Handle /\ Live(open_files[m])
               /\ container[m[1]] = fd[open_files[m]].file /\ m[1] # to
    <3>1. m[1] \in Path /\ open_files[m] \in Handle /\ Live(open_files[m])
            /\ container[m[1]] = fd[open_files[m]].file
      BY <1>02, <2>2 DEF TableRight
    <3> QED BY <1>0, <2>3, <3>1, NotOpen
  <2>6. ASSUME NEW k \in DOMAIN open_files'
        PROVE  k[1] \in Path /\ Live(open_files[k])' /\ container'[k[1]] = fd'[open_files'[k]].file
    <3>1. PICK m \in DOMAIN open_files :
            /\ open_files'[k] = open_files[m]
            /\ \/ m \in Matched(from) /\ k = Renamed(m, from, to)
               \/ m \notin Matched(from) /\ k = m
      BY <2>3, <2>6, ReboundFrom
    <3>2. Live(open_files[k])' /\ fd'[open_files'[k]].file = container[m[1]]
      BY <2>4, <2>5, <3>1 DEF Live
    <3>3. CASE m \in Matched(from) /\ k = Renamed(m, from, to)
      <4>1. m[1] = from /\ k = <<to, m[2]>>
        BY <2>2, <3>3, RenamedHere
      <4> QED BY <2>4, <3>2, <4>1
    <3>4. CASE m \notin Matched(from) /\ k = m
      BY <2>2, <2>4, <2>5, <3>2, <3>4
    <3> QED BY <3>1, <3>3, <3>4
  <2>7. ASSUME NEW q \in opens
        PROVE  Entry(q)' \in DOMAIN open_files' /\ open_files'[Entry(q)'] = q.h
    <3>1. PICK p \in Path : container[p] = fd[q.h].file /\ Entry(q) = <<p, q.flags>>
      BY <1>03
    <3>2. Entry(q) \in DOMAIN open_files /\ open_files[Entry(q)] = q.h /\ container[p] # 0 /\ p # to
      BY <1>03, <2>2, <2>5, <3>1 DEF TableRight
    <3> DEFINE r == IF p = from THEN to ELSE p
    <3>3. Entry(q)' = <<r, q.flags>>
      <4>1. r \in Path /\ container'[r] = container[p] /\ fd'[q.h].file = container[p]
        BY <1>03, <2>4, <3>1, <3>2
      <4> HIDE DEF r
      <4> QED BY <1>01, <2>3, <3>2, <4>1 DEF EntriesOK
    <3>4. <<r, q.flags>> \in DOMAIN Rebound(from, to)
      <4>1. CASE p = from
        <5>1. Entry(q) \in Matched(from) /\ Renamed(Entry(q), from, to) = <<to, q.flags>>
          <6>1. Entry(q)[1] = from /\ Entry(q)[2] = q.flags
            BY <3>1, <4>1
          <6>2. Renamed(Entry(q), from, to) = <<to, Entry(q)[2]>>
            BY <6>1, RenamedHere
          <6> QED BY <2>2, <3>2, <6>1, <6>2
        <5> QED BY <4>1, <5>1 DEF Rebound
      <4>2. CASE p # from
        <5>1. Entry(q) \notin Matched(from)
          BY <2>2, <3>1, <3>2, <4>2
        <5> QED BY <3>1, <3>2, <4>2, <5>1 DEF Rebound
      <4> QED BY <4>1, <4>2
    <3>5. PICK m \in DOMAIN open_files :
            /\ Rebound(from, to)[<<r, q.flags>>] = open_files[m]
            /\ \/ m \in Matched(from) /\ <<r, q.flags>> = Renamed(m, from, to)
               \/ m \notin Matched(from) /\ <<r, q.flags>> = m
      BY <3>4, ReboundFrom
    <3>6. m = Entry(q)
      <4>1. m = <<m[1], m[2]>>
        BY <1>0 DEF TypeOK, Key
      <4>2. CASE m \in Matched(from) /\ <<r, q.flags>> = Renamed(m, from, to)
        <5>1. m[1] = from /\ <<r, q.flags>> = <<to, m[2]>>
          BY <2>2, <4>2, RenamedHere
        <5>2. r = to /\ m[2] = q.flags
          BY <5>1
        <5>3. p = from
          BY <3>2, <5>2
        <5> QED BY <3>1, <4>1, <5>1, <5>2, <5>3
      <4>3. CASE m \notin Matched(from) /\ <<r, q.flags>> = m
        <5>1. r # to
          BY <2>5, <4>3
        <5> QED BY <3>1, <4>3, <5>1
      <4> QED BY <3>5, <4>2, <4>3
    <3> QED BY <2>3, <3>2, <3>3, <3>4, <3>5, <3>6
  <2> QED BY <2>3, <2>6, <2>7 DEF TableRight
<1>8. CASE UNCHANGED vars
  BY <1>1, <1>8 DEF vars, backend, history, SameFile
<1> QED BY <1>2, <1>3, <1>4, <1>5, <1>6, <1>7, <1>8 DEF Next

-----------------------------------------------------------------------------
(* Open records.                                                           *)
LEMMA RecordsKept ==
  ASSUME Inv, [Next]_vars
  PROVE  RecordsOK'
<1>0. TypeOK /\ CountsOK /\ FlagsOK /\ FilesOK /\ TableOK /\ RecordsOK
  BY DEF Inv
<1>01. SUFFICES ASSUME dragged' = {} PROVE RecordsRight'
  BY DEF RecordsOK
<1>02. \A h \in Handle : Live(h) => fd[h].path \in Path /\ fd[h].file # 0
  BY <1>0 DEF FilesOK
<1>1. ASSUME UNCHANGED <<dragged, twice>>,
             \A g \in Handle : SameFile(g) /\ fd'[g].state = fd[g].state /\ (Writing(g)' <=> Writing(g)),
             \A g \in Handle : Live(g) => /\ <<fd[g].file, fd[g].pid>> \in records
                                               => <<fd[g].file, fd[g].pid>> \in records'
                                          /\ container[fd[g].path] = fd[g].file
                                               => container'[fd[g].path] = fd[g].file
      PROVE  RecordsRight'
  <2>1. RecordsRight
    BY <1>0, <1>01, <1>1 DEF RecordsOK
  <2>2. \A g \in Handle : Writing(g) => Live(g)
    BY DEF Writing
  <2> QED BY <1>1, <2>1, <2>2, ZenonT(60) DEF RecordsRight, SameFile, Live
<1>2. ASSUME NEW p \in Path, Create(p) PROVE RecordsRight'
  <2>1. /\ UNCHANGED <<fd, dragged, twice, records>> /\ container[p] = 0
        /\ \A q \in Path : q # p => container'[q] = container[q]
    BY <1>0, <1>2 DEF Create, TypeOK, history
  <2> QED BY <1>02, <1>1, <2>1 DEF SameFile, Writing, Live
<1>3. ASSUME NEW p \in Path, Unlink(p) PROVE RecordsRight'
  <2>1. /\ UNCHANGED <<fd, dragged, twice>> /\ ~IsOpen(container[p])
        /\ records' = {r \in records : r[1] # container[p]}
        /\ \A q \in Path : q # p => container'[q] = container[q]
    BY <1>0, <1>3 DEF Unlink, WithoutFile, TypeOK, history
  <2>2. \A g \in Handle : Live(g) => fd[g].file # container[p]
    BY <1>0, <2>1, NotOpen
  <2> QED BY <1>02, <1>1, <2>1, <2>2 DEF SameFile, Writing, Live
<1>4. ASSUME NEW p \in Path, NEW fl \in Flags, OpenFailing(p, fl) PROVE RecordsRight'
  BY <1>0, <1>1, <1>4, FailingKeeps DEF SharedKept
<1>5. ASSUME NEW p \in Path, NEW fl \in Flags, NEW pid \in Pid, Opening(p, pid, fl)
      PROVE  RecordsRight'
  <2>1. PICK n \in OpenFile, h \in Handle :
          OpenNewParts(p, pid, fl, n, h) \/ OpenSharedParts(p, pid, fl, n, h)
    BY <1>0, <1>5, OpeningHasParts
  <2>2. CASE OpenNewParts(p, pid, fl, n, h)
    <3>1. /\ fd[h].state = "new" /\ NewFdIs(p, pid, fl, h)
          /\ dragged' = dragged /\ container' = container
          /\ isWriter(fl) => /\ records' = records \cup {<<container[p], pid>>}
                             /\ twice' = twice \cup ({<<container[p], pid>>} \cap records)
          /\ ~isWriter(fl) => records' = records /\ twice' = twice
      BY <1>0, <2>2, NewFdFields DEF OpenNewParts
    <3> HIDE DEF isWriter
    <3>2. RecordsRight
      BY <1>0, <1>01, <3>1 DEF RecordsOK
    <3>3. /\ fd'[h].file = container[p] /\ fd'[h].path = p /\ fd'[h].pid = pid
          /\ Writing(h)' => isWriter(fl)
          /\ \A g \in Handle : g # h => fd'[g] = fd[g] /\ (Writing(g)' <=> Writing(g))
      BY <3>1 DEF NewFdIs, Writing, Live
    <3>4. ASSUME NEW g \in Handle, Live(g)', ~fd'[g].logical
          PROVE  container'[fd'[g].path] = fd'[g].file
      BY <3>1, <3>2, <3>3, <3>4 DEF RecordsRight, Live
    <3>5. records \subseteq records' /\ twice \subseteq twice'
      BY <3>1
    <3>6. ASSUME NEW g \in Handle, Writing(g)', <<fd'[g].file, fd'[g].pid>> \notin twice'
          PROVE  <<fd'[g].file, fd'[g].pid>> \in records'
      <4>1. CASE g = h
        BY <3>1, <3>3, <3>6, <4>1
      <4>2. CASE g # h
        BY <3>2, <3>3, <3>5, <3>6, <4>2 DEF RecordsRight
      <4> QED BY <4>1, <4>2
    <3>7. ASSUME NEW g \in Handle, g # h, Writing(g)', Writing(h)',
                 fd'[g].file = fd'[h].file, fd'[g].pid = fd'[h].pid
          PROVE  <<fd'[h].file, fd'[h].pid>> \in twice'
      <4>1. Writing(g) /\ isWriter(fl) /\ fd[g].file = container[p] /\ fd[g].pid = pid
        BY <3>3, <3>7
      <4>2. <<container[p], pid>> \in twice \/ <<container[p], pid>> \in records
        BY <3>2, <4>1 DEF RecordsRight
      <4> QED BY <3>1, <3>3, <4>1, <4>2
    <3>8. ASSUME NEW a \in Handle, NEW b \in Handle, Writing(a)', Writing(b)', a # b,
                 fd'[a].file = fd'[b].file, fd'[a].pid = fd'[b].pid
          PROVE  <<fd'[b].file, fd'[b].pid>> \in twice'
      <4>1. CASE a # h /\ b # h
        BY <3>2, <3>3, <3>5, <3>8, <4>1 DEF RecordsRight
      <4>2. CASE a = h \/ b = h
        BY <3>7, <3>8, <4>2
      <4> QED BY <4>1, <4>2
    <3> QED BY <3>4, <3>6, <3>8 DEF RecordsRight
  <2>3. CASE OpenSharedParts(p, pid, fl, n, h)
    BY <1>0, <1>1, <2>3, SharedKeeps DEF SharedKept
  <2> QED BY <2>1, <2>2, <2>3
<1>6. ASSUME NEW o \in opens, Release(o) PROVE RecordsRight'
  <2> DEFINE h == o.h
  <2>1. ReleaseParts(o) /\ h \in Handle /\ Live(h)
    BY <1>0, <1>6, ReleaseHasParts, LiveHasOpen
  <2>2. /\ dragged' = dragged /\ container' = container /\ twice' = twice
        /\ \A g \in Handle : g # h => fd'[g] = fd[g]
        /\ Live(h)' => SameFile(h)
        /\ Writing(h)' => Writing(h)
    BY <2>1 DEF ReleaseParts
  <2>3. RecordsRight
    BY <1>0, <1>01, <2>2 DEF RecordsOK
  <2>4. ASSUME NEW g \in Handle
        PROVE  /\ Live(g)' => Live(g) /\ SameFile(g)
               /\ Writing(g)' => Writing(g) /\ SameFile(g)
    <3>1. CASE g = h
      BY <2>1, <2>2, <3>1 DEF Writing
    <3>2. CASE g # h
      BY <2>2, <3>2 DEF Live, Writing, SameFile
    <3> QED BY <3>1, <3>2
  <2>5. ASSUME NEW g \in Handle, Writing(g)', <<fd[g].file, fd[g].pid>> \in records,
               <<fd[g].file, fd[g].pid>> \notin twice
        PROVE  <<fd[g].file, fd[g].pid>> \in records'
    <3>1. CASE UNCHANGED <<records, metas>>
      BY <2>5, <3>1
    <3>2. CASE Writing(h) /\ ~Writing(h)' /\ DropMeta(fd[h])
      <4>1. g # h /\ Writing(g)
        BY <2>4, <2>5, <3>2
      <4>2. <<fd[g].file, fd[g].pid>> # <<fd[h].file, fd[h].pid>>
        BY <2>1, <2>3, <2>5, <3>2, <4>1 DEF RecordsRight
      <4>3. ~fd[h].logical => container[fd[h].path] = fd[h].file
        BY <2>1, <2>3 DEF RecordsRight
      <4> QED BY <2>5, <3>2, <4>2, <4>3 DEF DropMeta
    <3> QED BY <2>1, <3>1, <3>2 DEF ReleaseParts
  <2> QED BY <2>2, <2>3, <2>4, <2>5 DEF RecordsRight, SameFile
<1>7. ASSUME NEW from \in Path, NEW to \in Path, Rename(from, to) PROVE RecordsRight'
  <2>1. RenameParts(from, to) /\ RenameKept(from, to)
    BY <1>0, <1>7, RenameHasParts, RenameKeeps
  <2>2. /\ dragged = {} /\ TableRight /\ RecordsRight
        /\ \A k \in DOMAIN open_files : k \in Matched(from) <=> k[1] = from
    BY <1>0, <1>01, <2>1, NothingDragged DEF TableOK, RecordsOK
  <2>3. /\ ~IsOpen(container[to]) /\ container[from] # 0 /\ twice' = twice
        /\ records' = {r \in records : r[1] # container[to]}
    BY <2>1 DEF RenameParts
  <2>4. \A g \in Handle : Live(g) => fd[g].file # container[to]
    BY <1>0, <2>3, NotOpen
  <2>5. ASSUME NEW g \in Handle, Live(g), g \notin Taken(from) PROVE fd[g].file # container[from]
    <3>1. PICK q \in opens : q.h = g
      BY <1>0, <2>5, LiveHasOpen
    <3>2. Entry(q) \in DOMAIN open_files /\ open_files[Entry(q)] = g
      BY <2>2, <3>1 DEF TableRight
    <3>3. Entry(q)[1] # from
      BY <2>2, <2>5, <3>2 DEF Taken
    <3>4. fd[g].file = container[from] => Entry(q) = <<from, q.flags>>
      BY <1>0, <2>3, <3>1, EntriesUnique DEF EntriesOK
    <3> QED BY <3>3, <3>4
  <2>6. ASSUME NEW g \in Handle, Live(g)', ~fd'[g].logical PROVE container'[fd'[g].path] = fd'[g].file
    <3>1. g \notin Taken(from) /\ fd'[g] = fd[g] /\ Live(g)
      BY <2>1, <2>6 DEF RenameKept, Live
    <3>2. container[fd[g].path] = fd[g].file /\ fd[g].path \in Path
      BY <1>02, <2>2, <2>6, <3>1 DEF RecordsRight
    <3>3. fd[g].path # from /\ fd[g].path # to
      BY <2>4, <2>5, <3>1, <3>2
    <3> QED BY <2>1, <3>1, <3>2, <3>3 DEF RenameKept
  <2>7. \A g \in Handle : /\ fd'[g].file = fd[g].file /\ fd'[g].pid = fd[g].pid
                          /\ Writing(g)' <=> Writing(g)
                          /\ Writing(g) => Live(g)
    BY <2>1 DEF RenameKept, Writing, Live
  <2> QED BY <2>2, <2>3, <2>4, <2>6, <2>7 DEF RecordsRight
<1>8. CASE UNCHANGED vars
  BY <1>1, <1>8 DEF vars, backend, history, SameFile, Writing, Live
<1> QED BY <1>2, <1>3, <1>4, <1>5, <1>6, <1>7, <1>8 DEF Next

-----------------------------------------------------------------------------
(* What is left of a file nobody writes.                                   *)
LEMMA MetasKept ==
  ASSUME Inv, [Next]_vars
  PROVE  MetasOK'
<1>0. TypeOK /\ CountsOK /\ FlagsOK /\ FilesOK /\ MetasOK
  BY DEF Inv
<1>01. \A h \in Handle : Live(h) => fd[h].path \in Path /\ fd[h].file # 0
  BY <1>0 DEF FilesOK
<1>02. \A h \in Handle : Writing(h) => Live(h)
  BY DEF Writing
<1>03. \A file : BeingWritten(file) <=> \E h \in Handle : Writing(h) /\ fd[h].file = file
  BY DEF BeingWritten, Writing, Live
<1>04. \A file : BeingWritten(file)' <=> \E h \in Handle : Writing(h)' /\ fd'[h].file = file
  BY DEF BeingWritten, Writing, Live
<1>1. ASSUME UNCHANGED <<moved, wrote>>, records' \subseteq records,
             \A g \in Handle : SameFile(g) /\ fd'[g].state = fd[g].state /\ (Writing(g)' <=> Writing(g)),
             \A g \in Handle : Live(g) /\ container[fd[g].path] = fd[g].file
                                 => container'[fd[g].path] = fd[g].file,
             \A file \in wrote : Exists(file)' => Exists(file) /\ (file \in metas => file \in metas')
      PROVE  MetasOK'
  <2>1. ASSUME NEW h \in Handle, Live(h)', fd'[h].file \notin moved'
        PROVE  ~fd'[h].logical /\ container'[fd'[h].path] = fd'[h].file
    BY <1>0, <1>1, <2>1 DEF MetasOK, SameFile, Live
  <2>2. ASSUME NEW r \in records', r[1] \notin moved'
        PROVE  \E h \in Handle : Writing(h)' /\ fd'[h].file = r[1] /\ fd'[h].pid = r[2]
    BY <1>0, <1>1, <2>2 DEF MetasOK, SameFile
  <2>3. ASSUME NEW file \in wrote' \ moved', Exists(file)'
        PROVE  file \in metas' \/ BeingWritten(file)'
    <3>1. file \in metas \/ BeingWritten(file)
      BY <1>0, <1>1, <2>3 DEF MetasOK
    <3> QED BY <1>03, <1>04, <1>1, <2>3, <3>1 DEF SameFile
  <2> QED BY <2>1, <2>2, <2>3 DEF MetasOK
<1>2. ASSUME NEW p \in Path, Create(p) PROVE MetasOK'
  <2>1. /\ UNCHANGED <<fd, moved, wrote, records, metas>> /\ container[p] = 0
        /\ \A q \in Path : q # p => container'[q] = container[q]
        /\ container'[p] = created + 1
    BY <1>0, <1>2 DEF Create, TypeOK, history
  <2>2. \A file \in wrote : file # created + 1
    <3>1. \A file \in wrote : file \in Nat /\ file <= created
      BY <1>0, BoundAssumption DEF FilesOK, TypeOK, File
    <3>2. created \in Nat
      BY <1>0, BoundAssumption DEF TypeOK, File
    <3> QED BY <3>1, <3>2
  <2>3. \A file \in wrote : Exists(file)' => Exists(file)
    BY <2>1, <2>2 DEF Exists
  <2> QED BY <1>01, <1>1, <2>1, <2>3 DEF SameFile, Writing, Live
<1>3. ASSUME NEW p \in Path, Unlink(p) PROVE MetasOK'
  <2>1. /\ UNCHANGED <<fd, moved, wrote>> /\ ~IsOpen(container[p]) /\ container[p] # 0
        /\ records' = {r \in records : r[1] # container[p]} /\ metas' = metas \ {container[p]}
        /\ \A q \in Path : q # p => container'[q] = container[q]
        /\ container'[p] = 0
    BY <1>0, <1>3 DEF Unlink, WithoutFile, TypeOK, history
  <2>2. \A g \in Handle : Live(g) => fd[g].file # container[p]
    BY <1>0, <2>1, NotOpen
  <2>3. ASSUME NEW file \in wrote, Exists(file)'
        PROVE  Exists(file) /\ (file \in metas => file \in metas')
    <3>1. PICK q \in Path : container'[q] = file
      BY <2>3 DEF Exists
    <3>2. q # p
      BY <1>0, <2>1, <3>1 DEF FilesOK
    <3>3. container[q] = file /\ file # container[p]
      BY <1>0, <2>1, <3>1, <3>2 DEF FilesOK
    <3> QED BY <2>1, <3>3 DEF Exists
  <2> QED BY <1>01, <1>1, <2>1, <2>2, <2>3 DEF SameFile, Writing, Live
<1>4. ASSUME NEW p \in Path, NEW fl \in Flags, OpenFailing(p, fl) PROVE MetasOK'
  <2>1. SharedKept
    BY <1>0, <1>4, FailingKeeps
  <2> QED BY <1>1, <2>1 DEF SharedKept, Exists
<1>5. ASSUME NEW p \in Path, NEW fl \in Flags, NEW pid \in Pid, Opening(p, pid, fl)
      PROVE  MetasOK'
  <2>1. PICK n \in OpenFile, h \in Handle :
          OpenNewParts(p, pid, fl, n, h) \/ OpenSharedParts(p, pid, fl, n, h)
    BY <1>0, <1>5, OpeningHasParts
  <2>2. CASE OpenNewParts(p, pid, fl, n, h)
    <3>1. /\ fd[h].state = "new" /\ NewFdIs(p, pid, fl, h)
          /\ moved' = moved /\ container' = container /\ metas' = metas
          /\ isWriter(fl) => /\ records' = records \cup {<<container[p], pid>>}
                             /\ wrote' = wrote \cup {container[p]}
          /\ ~isWriter(fl) => records' = records /\ wrote' = wrote
      BY <1>0, <2>2, NewFdFields DEF OpenNewParts
    <3> HIDE DEF isWriter
    <3>2. /\ fd'[h].file = container[p] /\ fd'[h].path = p /\ fd'[h].pid = pid /\ ~fd'[h].logical
          /\ isWriter(fl) => Writing(h)'
          /\ \A g \in Handle : g # h => fd'[g] = fd[g] /\ (Writing(g)' <=> Writing(g))
          /\ ~Writing(h)
      BY <3>1 DEF NewFdIs, Writing, Live
    <3>3. ASSUME NEW g \in Handle, Live(g)', fd'[g].file \notin moved'
          PROVE  ~fd'[g].logical /\ container'[fd'[g].path] = fd'[g].file
      BY <1>0, <3>1, <3>2, <3>3 DEF MetasOK, Live
    <3>4. ASSUME NEW r \in records', r[1] \notin moved'
          PROVE  \E g \in Handle : Writing(g)' /\ fd'[g].file = r[1] /\ fd'[g].pid = r[2]
      <4>1. CASE r \in records
        <5>1. PICK g \in Handle : Writing(g) /\ fd[g].file = r[1] /\ fd[g].pid = r[2]
          BY <1>0, <3>1, <3>4, <4>1 DEF MetasOK
        <5> QED BY <3>2, <5>1
      <4>2. CASE r \notin records
        <5>1. isWriter(fl) /\ r = <<container[p], pid>>
          BY <3>1, <3>4, <4>2
        <5> QED BY <3>2, <5>1
      <4> QED BY <4>1, <4>2
    <3>5. ASSUME NEW file \in wrote' \ moved', Exists(file)'
          PROVE  file \in metas' \/ BeingWritten(file)'
      <4>1. CASE file \in wrote
        <5>1. file \in metas \/ BeingWritten(file)
          BY <1>0, <3>1, <3>5, <4>1 DEF MetasOK, Exists
        <5> QED BY <1>03, <1>04, <3>1, <3>2, <5>1
      <4>2. CASE file \notin wrote
        <5>1. isWriter(fl) /\ file = container[p]
          BY <3>1, <3>5, <4>2
        <5> QED BY <1>04, <3>2, <5>1
      <4> QED BY <4>1, <4>2
    <3> QED BY <3>3, <3>4, <3>5 DEF MetasOK
  <2>3. CASE OpenSharedParts(p, pid, fl, n, h)
    <3>1. SharedKept
      BY <1>0, <2>3, SharedKeeps
    <3> QED BY <1>1, <3>1 DEF SharedKept, Exists
  <2> QED BY <2>1, <2>2, <2>3
<1>6. ASSUME NEW o \in opens, Release(o) PROVE MetasOK'
  <2> DEFINE h == o.h
  <2>1. ReleaseParts(o) /\ h \in Handle /\ Live(h)
    BY <1>0, <1>6, ReleaseHasParts, LiveHasOpen
  <2>2. /\ UNCHANGED <<container, moved, wrote>>
        /\ \A g \in Handle : g # h => fd'[g] = fd[g] /\ (Writing(g)' <=> Writing(g))
        /\ Live(h)' => SameFile(h)
        /\ Writing(h)' => Writing(h) /\ SameFile(h)
    BY <2>1 DEF ReleaseParts, Writing, Live
  <2>3. records' \subseteq records /\ metas \subseteq metas'
    BY <2>1 DEF ReleaseParts, DropMeta
  <2>4. ASSUME Writing(h), ~Writing(h)', fd[h].file \notin moved
        PROVE  fd[h].file \in metas' /\ records' = records \ {<<fd[h].file, fd[h].pid>>}
    <3>1. ~fd[h].logical /\ container[fd[h].path] = fd[h].file
      BY <1>0, <2>1, <2>4 DEF MetasOK
    <3> QED BY <2>1, <2>4, <3>1 DEF ReleaseParts, DropMeta
  <2>5. ASSUME NEW g \in Handle, Live(g)', fd'[g].file \notin moved'
        PROVE  ~fd'[g].logical /\ container'[fd'[g].path] = fd'[g].file
    <3>1. CASE g = h
      BY <1>0, <2>1, <2>2, <2>5, <3>1 DEF MetasOK, SameFile
    <3>2. CASE g # h
      BY <1>0, <2>2, <2>5, <3>2 DEF MetasOK, Live
    <3> QED BY <3>1, <3>2
  <2>6. ASSUME NEW r \in records', r[1] \notin moved'
        PROVE  \E g \in Handle : Writing(g)' /\ fd'[g].file = r[1] /\ fd'[g].pid = r[2]
    <3>1. PICK g \in Handle : Writing(g) /\ fd[g].file = r[1] /\ fd[g].pid = r[2]
      BY <1>0, <2>2, <2>3, <2>6 DEF MetasOK
    <3>2. CASE g # h \/ Writing(h)'
      BY <2>2, <3>1, <3>2 DEF SameFile
    <3>3. CASE g = h /\ ~Writing(h)'
      <4>1. r \notin records' \/ r # <<fd[h].file, fd[h].pid>>
        BY <2>2, <2>4, <2>6, <3>1, <3>3
      <4>2. r = <<r[1], r[2]>>
        BY <1>0, <2>3, <2>6 DEF TypeOK
      <4> QED BY <2>6, <3>1, <3>3, <4>1, <4>2
    <3> QED BY <3>2, <3>3
  <2>7. ASSUME NEW file \in wrote' \ moved', Exists(file)'
        PROVE  file \in metas' \/ BeingWritten(file)'
    <3>1. file \in metas \/ BeingWritten(file)
      BY <1>0, <2>2, <2>7 DEF MetasOK, Exists
    <3>2. CASE BeingWritten(file)
      <4>1. PICK g \in Handle : Writing(g) /\ fd[g].file = file
        BY <1>03, <3>2
      <4>2. CASE g # h \/ Writing(h)'
        BY <1>04, <2>2, <4>1, <4>2 DEF SameFile
      <4>3. CASE g = h /\ ~Writing(h)'
        BY <2>2, <2>4, <2>7, <4>1, <4>3
      <4> QED BY <4>2, <4>3
    <3> QED BY <2>3, <3>1, <3>2
  <2> QED BY <2>5, <2>6, <2>7 DEF MetasOK
<1>7. ASSUME NEW from \in Path, NEW to \in Path, Rename(from, to) PROVE MetasOK'
  <2>1. RenameParts(from, to) /\ RenameKept(from, to)
    BY <1>0, <1>7, RenameHasParts, RenameKeeps
  <2>2. /\ ~IsOpen(container[to]) /\ container[from] # 0 /\ wrote' = wrote
        /\ records' = {r \in records : r[1] # container[to]} /\ metas' = metas \ {container[to]}
        /\ moved' = moved \cup {fd[o.h].file :
                               o \in {q \in opens : q.h \in Taken(from) \/ fd[q.h].file = container[from]}}
    BY <2>1 DEF RenameParts
  <2>3. \A g \in Handle : Live(g) => fd[g].file # container[to]
    BY <1>0, <2>2, NotOpen
  <2>4. \A g \in Handle : /\ fd'[g].file = fd[g].file /\ fd'[g].pid = fd[g].pid
                          /\ (Writing(g)' <=> Writing(g)) /\ (Live(g)' <=> Live(g))
    BY <2>1 DEF RenameKept, Writing, Live
  <2>5. ASSUME NEW g \in Handle, Live(g), fd[g].file \notin moved'
        PROVE  g \notin Taken(from) /\ fd[g].file # container[from] /\ fd[g].file \notin moved
    <3>1. PICK q \in opens : q.h = g
      BY <1>0, <2>5, LiveHasOpen
    <3> QED BY <2>2, <2>5, <3>1
  <2>6. ASSUME NEW g \in Handle, Live(g)', fd'[g].file \notin moved'
        PROVE  ~fd'[g].logical /\ container'[fd'[g].path] = fd'[g].file
    <3>1. Live(g) /\ fd[g].file \notin moved'
      BY <2>4, <2>6
    <3>2. g \notin Taken(from) /\ fd[g].file # container[from] /\ fd[g].file \notin moved
      BY <2>5, <3>1
    <3>3. ~fd[g].logical /\ container[fd[g].path] = fd[g].file /\ fd[g].path \in Path
      BY <1>0, <1>01, <3>1, <3>2 DEF MetasOK
    <3>4. fd[g].path # from /\ fd[g].path # to /\ fd'[g] = fd[g]
      BY <2>1, <2>3, <3>1, <3>2, <3>3 DEF RenameKept
    <3> QED BY <2>1, <3>3, <3>4 DEF RenameKept
  <2>7. ASSUME NEW r \in records', r[1] \notin moved'
        PROVE  \E g \in Handle : Writing(g)' /\ fd'[g].file = r[1] /\ fd'[g].pid = r[2]
    BY <1>0, <2>2, <2>4, <2>7 DEF MetasOK
  <2>8. ASSUME NEW file \in wrote' \ moved', Exists(file)'
        PROVE  file \in metas' \/ BeingWritten(file)'
    <3>1. PICK q \in Path : container'[q] = file
      BY <2>8 DEF Exists
    <3>2. file # 0
      BY <1>0, <2>2, <2>8 DEF FilesOK
    <3>3. Exists(file) /\ file # container[to]
      <4>1. CASE q = to
        <5>1. container[from] = file
          BY <2>1, <3>1, <4>1 DEF RenameKept
        <5>2. container[to] # container[from]
          BY <1>0, <2>1, <2>2 DEF FilesOK, RenameKept
        <5> QED BY <5>1, <5>2 DEF Exists
      <4>2. CASE q # to
        <5>1. q # from /\ container[q] = file
          BY <2>1, <3>1, <3>2, <4>2 DEF RenameKept
        <5> QED BY <1>0, <3>2, <4>2, <5>1 DEF FilesOK, Exists
      <4> QED BY <4>1, <4>2
    <3>4. file \in metas \/ BeingWritten(file)
      BY <1>0, <2>2, <2>8, <3>3 DEF MetasOK
    <3> QED BY <1>03, <1>04, <2>2, <2>4, <3>3, <3>4
  <2> QED BY <2>6, <2>7, <2>8 DEF MetasOK
<1>8. CASE UNCHANGED vars
  BY <1>1, <1>8 DEF vars, backend, history, SameFile, Writing, Live, Exists
<1> QED BY <1>2, <1>3, <1>4, <1>5, <1>6, <1>7, <1>8 DEF Next

-----------------------------------------------------------------------------
LEMMA InvInit == Init => Inv
<1> SUFFICES ASSUME Init PROVE Inv
  OBVIOUS
<1>1. TypeOK /\ CountsOK
  BY TypeInit, CountsInit
<1>2. opens = {} /\ DOMAIN open_files = {} /\ records = {} /\ wrote = {} /\ created = 0
        /\ (\A p \in Path : container[p] = 0) /\ \A h \in Handle : fd[h].state = "new"
  BY DEF Init, NoFd
<1>3. FlagsOK /\ FilesOK
  BY <1>2 DEF FlagsOK, FilesOK, Live
<1>4. TableRight /\ RecordsRight
  BY <1>2 DEF TableRight, RecordsRight, Live, Writing
<1>5. MetasOK
  BY <1>2 DEF MetasOK, Live
<1> QED BY <1>1, <1>3, <1>4, <1>5 DEF Inv, TableOK, RecordsOK

LEMMA InvKept ==
  ASSUME Inv, [Next]_vars
  PROVE  Inv'
<1>1. FilesOK'
  BY FilesKept
<1> QED BY <1>1, TypeKept, CountsKept, FlagsKept, TableKept, RecordsKept, MetasKept DEF Inv

THEOREM Invariance == Spec => []Inv
BY InvInit, InvKept, PTL DEF Spec

(* Every reachable state of the daemon is well typed.                      *)
THEOREM TypeCorrect == Spec => []TypeOK
BY Invariance, PTL DEF Inv

(* A Plfs_fd counts the opens that use it, lives until the last of them is *)
(* released, and has a WriteFile while one writes (plfs_close,             *)
(* plfs_reference_count), unless an open failed half-way on it.            *)
THEOREM OutlivesItsOpens == Spec => []HandleOutlivesItsOpens
<1>1. ASSUME CountsOK, TypeOK, NEW h \in Handle \ half_opened
      PROVE  /\ fd[h].refs = Cardinality(OpensOf(h)) /\ CountsAgree(h)
             /\ OpensOf(h) # {} <=> fd[h].state = "live"
             /\ \A o \in OpensOf(h) : isWriter(o.flags) => fd[h].wf
  <2>1. HandleCounts(h) /\ IsFiniteSet(opens)
    BY <1>1 DEF CountsOK
  <2>2. Cardinality(OpensOf(h)) = Cardinality(WritersOf(h)) + Cardinality(ReadersOf(h))
    BY <2>1, OpensFinite
  <2>3. CountsAgree(h)
    BY <2>1, <2>2 DEF HandleCounts, CountsAgree
  <2>4. \A o \in OpensOf(h) : isWriter(o.flags) => fd[h].wf
    BY <2>1 DEF HandleCounts, WritersOf
  <2> QED BY <2>1, <2>3, <2>4 DEF HandleCounts, Live
<1>2. Inv => HandleOutlivesItsOpens
  BY <1>1 DEF Inv, HandleOutlivesItsOpens
<1> QED BY <1>2, Invariance, PTL

(* Opens of a file with the same flags share one Plfs_fd, whatever was     *)
(* renamed, unless that dragged another file along (f_open, f_rename).     *)
THEOREM OpensShare == Spec => []OpensShareUnlessDragged
<1>1. ASSUME TableRight, NEW o \in opens, NEW q \in opens,
             o.flags = q.flags, fd[o.h].file = fd[q.h].file
      PROVE  o.h = q.h
  <2>1. Entry(o) = Entry(q)
    BY <1>1 DEF Entry
  <2> QED BY <1>1, <2>1 DEF TableRight
<1>2. Inv => OpensShareUnlessDragged
  BY <1>1 DEF Inv, TableOK, OpensShareUnlessDragged
<1> QED BY <1>2, Invariance, PTL

(* The table open_files lists every Plfs_fd in use under the present name  *)
(* of its file and no deleted one (findAllOpenFiles, removeOpenFile).      *)
THEOREM TableIsCurrent == Spec => []TableIsCurrentUnlessDragged
<1>1. ASSUME TableRight, NEW o \in opens PROVE Listed(o.h)
  BY <1>1 DEF TableRight, Entry, Listed
<1>2. Inv => TableIsCurrentUnlessDragged
  BY <1>1 DEF Inv, TableOK, TableRight, Live, TableIsCurrentUnlessDragged
<1> QED BY <1>2, Invariance, PTL

(* A file being written has the open record that tells a stat so, unless   *)
(* one process opened it through two Plfs_fds (addOpenrecord, removeOpenrecord). *)
THEOREM WritersRecorded == Spec => []WritersAreRecordedUnlessDragged
<1>1. Inv => WritersAreRecordedUnlessDragged
  BY DEF Inv, RecordsOK, RecordsRight, Writing, Live, WritersAreRecordedUnlessDragged
<1> QED BY <1>1, Invariance, PTL

(* A file that was written and that nobody writes any more has metadata    *)
(* and no open record, unless it was renamed while open (plfs_close).      *)
THEOREM ClosedAreFinal == Spec => []ClosedFilesAreFinal
<1>1. ASSUME MetasOK, NEW file \in wrote \ moved, Exists(file), ~BeingWritten(file)
      PROVE  Final(file)
  <2>1. file \in metas
    BY <1>1 DEF MetasOK
  <2>2. \A r \in records : r[1] # file
    BY <1>1 DEF MetasOK, BeingWritten, Writing, Live
  <2> QED BY <2>1, <2>2 DEF Final
<1>2. Inv => ClosedFilesAreFinal
  BY <1>1 DEF Inv, ClosedFilesAreFinal
<1> QED BY <1>2, Invariance, PTL

-----------------------------------------------------------------------------
(* ParallelOpen.                                                            *)

(* A set of naturals that is not empty has a least one.                     *)
LEMMA LeastNatural ==
  ASSUME NEW S \in SUBSET Nat, S # {}
  PROVE  \E m \in S : \A x \in S : m <= x
<1>1. PICK m \in S : \A x \in S : ~(<<x, m>> \in OpToRel(<, Nat))
  BY WFMin, NatLessThanWellFounded
<1>2. ASSUME NEW x \in S, ~(m <= x) PROVE FALSE
  <2>1. x \in Nat /\ m \in Nat /\ x < m
    BY <1>2
  <2>2. <<x, m>> \in OpToRel(<, Nat)
    BY <2>1 DEF OpToRel
  <2> QED BY <1>1, <2>2
<1> QED BY <1>2

LEMMA MinIs ==
  ASSUME NEW S \in SUBSET Nat, S # {}
  PROVE  Min(S) \in S /\ \A x \in S : Min(S) <= x
<1>1. \E m \in S : \A x \in S : m <= x
  BY LeastNatural
<1> QED BY <1>1 DEF Min

-----------------------------------------------------------------------------
(* ParallelOpen: numbers and lists.                                         *)

(* The n-th of a set of numbers: each of them is one.                       *)
UpTo(S, s) == {m \in S : m <= s}

LEMMA UpToParts ==
  ASSUME NEW S \in SUBSET Nat, IsFiniteSet(S)
  PROVE  /\ Cardinality(S) \in Nat
         /\ \A s \in S : Cardinality(UpTo(S, s)) \in 1..Cardinality(S)
         /\ \A s, t \in S : s < t => Cardinality(UpTo(S, s)) < Cardinality(UpTo(S, t))
<1>1. Cardinality(S) \in Nat
  BY FS_CardinalityType
<1>2. ASSUME NEW s \in S
      PROVE  /\ UpTo(S, s) \in SUBSET S /\ IsFiniteSet(UpTo(S, s)) /\ Cardinality(UpTo(S, s)) \in Nat
             /\ Cardinality(UpTo(S, s)) <= Cardinality(S) /\ Cardinality(UpTo(S, s)) # 0
  <2>1. UpTo(S, s) \in SUBSET S /\ s \in UpTo(S, s)
    BY DEF UpTo
  <2>2. IsFiniteSet(UpTo(S, s)) /\ Cardinality(UpTo(S, s)) <= Cardinality(S)
    BY <2>1, FS_Subset
  <2> QED BY <2>1, <2>2, FS_CardinalityType, FS_EmptySet
<1>3. ASSUME NEW s \in S, NEW t \in S, s < t
      PROVE  Cardinality(UpTo(S, s)) < Cardinality(UpTo(S, t))
  <2>1. UpTo(S, s) \in SUBSET UpTo(S, t) /\ t \in UpTo(S, t) /\ t \notin UpTo(S, s)
    <3>1. s \in Nat /\ t \in Nat
      OBVIOUS
    <3>2. \A m \in S : m <= s => m <= t
      BY <1>3, <3>1
    <3>3. \A m : /\ m \in UpTo(S, s) <=> m \in S /\ m <= s
                 /\ m \in UpTo(S, t) <=> m \in S /\ m <= t
      BY DEF UpTo
    <3>4. t <= t /\ ~(t <= s)
      BY <1>3, <3>1
    <3> QED BY <3>2, <3>3, <3>4
  <2>2. /\ Cardinality(UpTo(S, s)) <= Cardinality(UpTo(S, t))
        /\ Cardinality(UpTo(S, s)) # Cardinality(UpTo(S, t))
    BY <1>2, <2>1, FS_Subset
  <2> QED BY <1>2, <2>2
<1>4. \A s \in S : Cardinality(UpTo(S, s)) \in 1..Cardinality(S)
  <2> TAKE s \in S
  <2> QED BY <1>1, <1>2
<1> QED BY <1>1, <1>3, <1>4

LEMMA Numbers ==
  ASSUME NEW S \in SUBSET Nat, IsFiniteSet(S)
  PROVE  /\ Cardinality(S) \in Nat
         /\ \A i \in 1..Cardinality(S) : Nth(S, i) \in S /\ Cardinality(UpTo(S, Nth(S, i))) = i
         /\ \A i, j \in 1..Cardinality(S) : Nth(S, i) = Nth(S, j) => i = j
         /\ \A s \in S : Nth(S, Cardinality(UpTo(S, s))) = s
         /\ \A s \in S : \E i \in 1..Cardinality(S) : Nth(S, i) = s
<1>1. /\ Cardinality(S) \in Nat
      /\ \A s \in S : Cardinality(UpTo(S, s)) \in 1..Cardinality(S)
      /\ \A s, t \in S : s < t => Cardinality(UpTo(S, s)) < Cardinality(UpTo(S, t))
  BY UpToParts
<1>2. \A s, t \in S : Cardinality(UpTo(S, s)) = Cardinality(UpTo(S, t)) => s = t
  <2> TAKE s \in S, t \in S
  <2>1. s \in Nat /\ t \in Nat /\ Cardinality(UpTo(S, s)) \in Nat /\ Cardinality(UpTo(S, t)) \in Nat
    BY <1>1
  <2>2. ~(s < t /\ Cardinality(UpTo(S, s)) = Cardinality(UpTo(S, t)))
    BY <1>1, <2>1
  <2>3. ~(t < s /\ Cardinality(UpTo(S, s)) = Cardinality(UpTo(S, t)))
    BY <1>1, <2>1
  <2> QED BY <2>1, <2>2, <2>3
<1>3. \A i \in 1..Cardinality(S) : \E s \in S : Cardinality(UpTo(S, s)) = i
  <2>1. PICK I : I = 1..Cardinality(S)
    OBVIOUS
  <2>2. IsFiniteSet(I) /\ Cardinality(I) = Cardinality(S)
    BY <1>1, <2>1, FS_Interval
  <2>3. PICK f : f = [s \in S |-> Cardinality(UpTo(S, s))]
    OBVIOUS
  <2>4. f \in [S -> I]
    BY <1>1, <2>1, <2>3
  <2>5. f \in Injection(S, I)
    BY <1>2, <2>3, <2>4 DEF Injection, IsInjective
  <2>6. f \in Surjection(S, I)
    BY <2>2, <2>5, FS_Injection
  <2> QED BY <2>1, <2>3, <2>6 DEF Surjection
<1>4. \A i : Nth(S, i) = CHOOSE n \in S : Cardinality(UpTo(S, n)) = i
  BY DEF Nth, UpTo
<1>5. \A i \in 1..Cardinality(S) : Nth(S, i) \in S /\ Cardinality(UpTo(S, Nth(S, i))) = i
  BY <1>3, <1>4
<1>6. \A s \in S : Nth(S, Cardinality(UpTo(S, s))) = s
  <2> TAKE s \in S
  <2>1. PICK i : i = Cardinality(UpTo(S, s))
    OBVIOUS
  <2>2. Nth(S, i) \in S /\ Cardinality(UpTo(S, Nth(S, i))) = i
    BY <1>1, <1>5, <2>1
  <2> QED BY <1>2, <2>1, <2>2
<1> QED BY <1>1, <1>5, <1>6

(* A list of the elements of a set.                                         *)
Lists(s, D) ==
  /\ s \in Seq(D)
  /\ \A i, j \in 1..Len(s) : s[i] = s[j] => i = j
  /\ \A d \in D : \E i \in 1..Len(s) : s[i] = d

LEMMA ListOf ==
  ASSUME NEW D, IsFiniteSet(D)
  PROVE  Lists(SetToSeq(D), D)
<1>1. PICK n \in Nat : n = Cardinality(D)
  BY FS_CardinalityType
<1>2. ExistsBijection(1..n, D)
  BY <1>1, FS_CardinalityType
<1>3. PICK g : g \in [1..n -> D] /\ IsInjective(g)
  BY <1>2 DEF ExistsBijection, Bijection, Injection
<1>4. PICK f : f = SetToSeq(D)
  OBVIOUS
<1>5. f \in [1..n -> D] /\ IsInjective(f)
  BY <1>1, <1>3, <1>4 DEF SetToSeq
<1>6. f \in Seq(D) /\ Len(f) = n
  BY <1>5, SeqDef, LenProperties
<1>7. IsFiniteSet(1..n) /\ Cardinality(1..n) = n
  BY FS_Interval
<1>8. f \in Surjection(1..n, D)
  BY <1>1, <1>5, <1>7, FS_Injection DEF Injection
<1>9. \A d \in D : \E i \in 1..n : f[i] = d
  BY <1>8 DEF Surjection
<1>10. \A i, j \in 1..n : f[i] = f[j] => i = j
  BY <1>5 DEF IsInjective
<1> QED BY <1>4, <1>6, <1>9, <1>10 DEF Lists

Entries(s, P) == {s[i] : i \in P}

LEMMA ChosenLists ==
  ASSUME NEW D, NEW s, Lists(s, D), NEW P \in SUBSET DOMAIN s
  PROVE  /\ Entries(s, P) \subseteq D /\ ToSet(Chosen(s, P)) = Entries(s, P)
         /\ Lists(Chosen(s, P), Entries(s, P))
<1>1. s \in Seq(D) /\ Len(s) \in Nat /\ DOMAIN s = 1..Len(s) /\ \A i \in 1..Len(s) : s[i] \in D
  BY LenProperties, ElementOfSeq DEF Lists
<1>2. P \in SUBSET Nat /\ P \in SUBSET (1..Len(s))
  BY <1>1
<1>3. IsFiniteSet(P)
  <2>1. IsFiniteSet(1..Len(s))
    BY <1>1, FS_Interval
  <2> QED BY <1>2, <2>1, FS_Subset
<1>4. PICK n \in Nat : n = Cardinality(P)
  BY <1>3, FS_CardinalityType
<1>5. /\ \A i \in 1..n : Nth(P, i) \in P
      /\ \A i, j \in 1..n : Nth(P, i) = Nth(P, j) => i = j
      /\ \A p \in P : \E i \in 1..n : Nth(P, i) = p
  BY <1>2, <1>3, <1>4, Numbers
<1> DEFINE E == Entries(s, P)
<1>6. PICK c : c = Chosen(s, P)
  OBVIOUS
<1>7. c = [i \in 1..n |-> s[Nth(P, i)]]
  BY <1>4, <1>6 DEF Chosen
<1>8. c \in [1..n -> E] /\ DOMAIN c = 1..n
  BY <1>5, <1>7 DEF Entries
<1>9. c \in Seq(E) /\ Len(c) = n
  BY <1>8, SeqDef, LenProperties
<1>10. \A i, j \in 1..n : c[i] = c[j] => i = j
  <2> TAKE i \in 1..n, j \in 1..n
  <2>1. c[i] = s[Nth(P, i)] /\ c[j] = s[Nth(P, j)] /\ Nth(P, i) \in 1..Len(s) /\ Nth(P, j) \in 1..Len(s)
    BY <1>2, <1>5, <1>7
  <2> QED BY <1>5, <2>1 DEF Lists
<1>11. \A d \in E : \E i \in 1..n : c[i] = d
  BY <1>5, <1>7 DEF Entries
<1>12. ToSet(c) = E
  BY <1>8, <1>11 DEF ToSet
<1>13. E \subseteq D
  BY <1>1, <1>2 DEF Entries
<1> HIDE DEF E
<1>14. Lists(c, E)
  BY <1>9, <1>10, <1>11 DEF Lists
<1> QED BY <1>6, <1>12, <1>13, <1>14 DEF E

(* What comes before the first entry of a list is not there after it.       *)
LEMMA TailOfCons ==
  ASSUME NEW x, NEW D, NEW s \in Seq(D)
  PROVE  <<x>> \o s # <<>> /\ Tail(<<x>> \o s) = s
<1>1. PICK T : T = D \cup {x}
  OBVIOUS
<1>2. s \in Seq(T) /\ <<x>> \in Seq(T) /\ Len(<<x>>) = 1
  BY <1>1, SeqMonotonic
<1>3. PICK t : t = <<x>> \o s
  OBVIOUS
<1>4. /\ t \in Seq(T) /\ Len(s) \in Nat /\ Len(t) = 1 + Len(s)
      /\ \A i \in 1..(1 + Len(s)) : t[i] = IF i <= 1 THEN <<x>>[i] ELSE s[i - 1]
  BY <1>2, <1>3, ConcatProperties, LenProperties
<1>5. t # <<>>
  BY <1>4, EmptySeq
<1>6. Tail(t) \in Seq(T) /\ Len(Tail(t)) = Len(s) /\ \A i \in 1..Len(Tail(t)) : Tail(t)[i] = t[i + 1]
  BY <1>4, <1>5, HeadTailProperties
<1>7. \A i \in 1..Len(s) : Tail(t)[i] = s[i]
  BY <1>4, <1>6
<1>8. Tail(t) = s
  BY <1>2, <1>6, <1>7, SeqEqual
<1> QED BY <1>3, <1>5, <1>8

-----------------------------------------------------------------------------
(* A chunk_map serves the droppings D: it has one chunk for each of them,   *)
(* among the ids of which is its own, and no more. C is any set the chunks  *)
(* are in.                                                                  *)
Serves(C, s, D) ==
  /\ s \in Seq(C)
  /\ \A i \in 1..Len(s) : s[i].dropping \in D /\ s[i].dropping[2] \in s[i].ids
  /\ \A i, j \in 1..Len(s) : s[i].dropping = s[j].dropping => i = j
  /\ \A d \in D : \E i \in 1..Len(s) : s[i].dropping = d

ChunksOf(A) == [dropping : A, ids : SUBSET {d[2] : d \in A}]

LEMMA TaskManager ==
  ASSUME NEW A, NEW D \in SUBSET A, NEW s, Lists(s, D)
  PROVE  Serves(ChunksOf(A), indexTaskManager(s).chunks, D)
<1>1. s \in Seq(D) /\ Len(s) \in Nat /\ DOMAIN s = 1..Len(s) /\ \A i \in 1..Len(s) : s[i] \in D
  BY LenProperties, ElementOfSeq DEF Lists
<1>2. PICK n \in Nat : n = Len(s)
  BY <1>1
<1> DEFINE ids(i) == IF job.pooled THEN {s[i][2]} ELSE {s[j][2] : j \in 1..i}
<1>3. PICK c : c = indexTaskManager(s).chunks
  OBVIOUS
<1>4. c = [i \in 1..n |-> [dropping |-> s[i], ids |-> ids(i)]]
  BY <1>1, <1>2, <1>3 DEF indexTaskManager
<1>5. ASSUME NEW i \in 1..n
      PROVE  ids(i) \in SUBSET {d[2] : d \in A} /\ s[i][2] \in ids(i)
  <2>1. \A j \in 1..i : s[j] \in A
    BY <1>1, <1>2
  <2>2. i \in 1..i
    BY <1>2
  <2> QED BY <2>1, <2>2
<1> HIDE DEF ids
<1>6. \A i \in 1..n : c[i].dropping = s[i] /\ c[i].ids = ids(i) /\ c[i] \in ChunksOf(A)
  BY <1>1, <1>2, <1>4, <1>5 DEF ChunksOf
<1>7. c \in [1..n -> ChunksOf(A)]
  BY <1>4, <1>6
<1>8. c \in Seq(ChunksOf(A)) /\ Len(c) = n
  BY <1>7, SeqDef, LenProperties
<1>9. \A i \in 1..n : c[i].dropping \in D /\ c[i].dropping[2] \in c[i].ids
  BY <1>1, <1>2, <1>5, <1>6
<1>10. \A i, j \in 1..n : c[i].dropping = c[j].dropping => i = j
  BY <1>2, <1>6 DEF Lists
<1>11. \A d \in D : \E i \in 1..n : c[i].dropping = d
  BY <1>2, <1>6 DEF Lists
<1> QED BY <1>3, <1>8, <1>9, <1>10, <1>11 DEF Serves

LEMMA ServesBoth ==
  ASSUME NEW C, NEW s, NEW t, NEW D, NEW E, Serves(C, s, D), Serves(C, t, E), D \cap E = {}
  PROVE  Serves(C, s \o t, D \cup E)
<1>1. s \in Seq(C) /\ t \in Seq(C) /\ Len(s) \in Nat /\ Len(t) \in Nat
  BY LenProperties DEF Serves
<1>2. PICK u, m, n : u = s \o t /\ m = Len(s) /\ n = Len(t)
  OBVIOUS
<1>3. /\ u \in Seq(C) /\ m \in Nat /\ n \in Nat /\ Len(u) = m + n
      /\ \A i \in 1..(m + n) : u[i] = IF i <= m THEN s[i] ELSE t[i - m]
  BY <1>1, <1>2, ConcatProperties
<1>4. /\ \A i \in 1..m : s[i].dropping \in D /\ s[i].dropping[2] \in s[i].ids
      /\ \A i, j \in 1..m : s[i].dropping = s[j].dropping => i = j
      /\ \A d \in D : \E i \in 1..m : s[i].dropping = d
  BY <1>2 DEF Serves
<1>5. /\ \A i \in 1..n : t[i].dropping \in E /\ t[i].dropping[2] \in t[i].ids
      /\ \A i, j \in 1..n : t[i].dropping = t[j].dropping => i = j
      /\ \A d \in E : \E i \in 1..n : t[i].dropping = d
  BY <1>2 DEF Serves
<1>6. \A i \in 1..m : i \in 1..(m + n) /\ u[i] = s[i]
  BY <1>3
<1>7. \A i \in 1..n : m + i \in 1..(m + n) /\ u[m + i] = t[i]
  BY <1>3
<1>8. \A i \in 1..(m + n) : i \in 1..m \/ \E k \in 1..n : i = m + k
  <2> TAKE i \in 1..(m + n)
  <2>1. CASE i <= m
    BY <1>3, <2>1
  <2>2. CASE ~(i <= m)
    <3>1. i - m \in 1..n /\ i = m + (i - m)
      BY <1>3, <2>2
    <3> QED BY <3>1
  <2> QED BY <2>1, <2>2
<1>9. \A i \in 1..(m + n) : u[i].dropping \in D \cup E /\ u[i].dropping[2] \in u[i].ids
  BY <1>4, <1>5, <1>6, <1>7, <1>8
<1>10. ASSUME NEW i \in 1..(m + n), NEW j \in 1..(m + n), u[i].dropping = u[j].dropping
       PROVE  i = j
  <2>1. CASE i \in 1..m /\ j \in 1..m
    BY <1>4, <1>6, <1>10, <2>1
  <2>2. CASE i \in 1..m /\ \E k \in 1..n : j = m + k
    BY <1>4, <1>5, <1>6, <1>7, <1>10, <2>2
  <2>3. CASE j \in 1..m /\ \E k \in 1..n : i = m + k
    BY <1>4, <1>5, <1>6, <1>7, <1>10, <2>3
  <2>4. ASSUME NEW k \in 1..n, NEW l \in 1..n, i = m + k, j = m + l PROVE i = j
    BY <1>5, <1>7, <1>10, <2>4
  <2> QED BY <1>8, <2>1, <2>2, <2>3, <2>4
<1>11. \A d \in D \cup E : \E i \in 1..(m + n) : u[i].dropping = d
  BY <1>4, <1>5, <1>6, <1>7
<1>12. /\ \A i \in 1..Len(u) : u[i].dropping \in D \cup E /\ u[i].dropping[2] \in u[i].ids
       /\ \A i, j \in 1..Len(u) : u[i].dropping = u[j].dropping => i = j
       /\ \A d \in D \cup E : \E i \in 1..Len(u) : u[i].dropping = d
  BY <1>3, <1>9, <1>10, <1>11
<1>13. Serves(C, u, D \cup E)
  BY <1>3, <1>12 DEF Serves
<1> QED BY <1>2, <1>13

(* FlattenSeq is the last value of a recursive function, of which there is  *)
(* one for every length.                                                    *)
Joined(f, n, ss) == f = [i \in 1..n |-> IF i = 1 THEN ss[i] ELSE f[i - 1] \o ss[i]]

LEMMA JoinedAt ==
  ASSUME NEW f, NEW n \in Nat, NEW ss, Joined(f, n, ss)
  PROVE  \A i \in 1..n : f[i] = IF i = 1 THEN ss[i] ELSE f[i - 1] \o ss[i]
<1> DEFINE h(i) == IF i = 1 THEN ss[i] ELSE f[i - 1] \o ss[i]
<1>1. f = [i \in 1..n |-> h(i)]
  BY DEF Joined
<1> HIDE DEF h
<1>2. \A i \in 1..n : f[i] = h(i)
  BY <1>1
<1> QED BY <1>2 DEF h

LEMMA JoinedExists ==
  ASSUME NEW ss, NEW n \in Nat
  PROVE  \E f : Joined(f, n, ss)
<1> DEFINE Bad == {m \in Nat : ~\E f : Joined(f, m, ss)}
<1> SUFFICES ASSUME Bad # {} PROVE FALSE
  OBVIOUS
<1>1. PICK m \in Bad : \A x \in Bad : m <= x
  <2>1. Bad \in SUBSET Nat
    OBVIOUS
  <2> HIDE DEF Bad
  <2> QED BY <2>1, LeastNatural
<1>2. m # 0
  <2> DEFINE f == [i \in 1..0 |-> ss[i]]
  <2>1. f = [i \in 1..0 |-> IF i = 1 THEN ss[i] ELSE f[i - 1] \o ss[i]]
    OBVIOUS
  <2> HIDE DEF f
  <2>2. Joined(f, 0, ss)
    BY <2>1 DEF Joined
  <2> QED BY <2>2
<1>3. m - 1 \in Nat /\ m - 1 \notin Bad
  BY <1>1, <1>2
<1>4. PICK f : Joined(f, m - 1, ss)
  BY <1>3
<1> DEFINE value(x, i) == x \o ss[i]
           last == IF m = 1 THEN ss[1] ELSE value(f[m - 1], m)
           g == [i \in 1..m |-> IF i = m THEN last ELSE f[i]]
<1>5. \A i \in 1..(m - 1) : f[i] = IF i = 1 THEN ss[i] ELSE f[i - 1] \o ss[i]
  BY <1>3, <1>4, JoinedAt
<1> HIDE DEF value
<1>6. \A i \in 1..m : g[i] = IF i = 1 THEN ss[i] ELSE value(g[i - 1], i)
  <2> TAKE i \in 1..m
  <2>1. CASE i = m /\ i = 1
    BY <2>1
  <2>2. CASE i = m /\ i # 1
    <3>1. g[i] = value(f[m - 1], m) /\ m - 1 \in 1..m /\ m - 1 # m
      BY <1>1, <1>2, <2>2
    <3>2. g[m - 1] = f[m - 1]
      BY <3>1
    <3> QED BY <2>2, <3>1, <3>2
  <2>3. CASE i # m /\ i # 1
    <3>1. i \in 1..(m - 1) /\ i - 1 \in 1..m /\ i - 1 # m
      BY <1>1, <2>3
    <3>2. g[i] = f[i] /\ g[i - 1] = f[i - 1]
      BY <2>3, <3>1
    <3>3. f[i] = value(f[i - 1], i)
      BY <1>5, <2>3, <3>1 DEF value
    <3> QED BY <2>3, <3>2, <3>3
  <2>4. CASE i # m /\ i = 1
    <3>1. 1 \in 1..(m - 1) /\ g[1] = f[1]
      BY <1>1, <1>2, <2>4
    <3> QED BY <1>5, <2>4, <3>1
  <2> QED BY <2>1, <2>2, <2>3, <2>4
<1>7. g = [i \in 1..m |-> g[i]]
  OBVIOUS
<1> HIDE DEF g
<1>8. Joined(g, m, ss)
  BY <1>6, <1>7 DEF Joined, value
<1> QED BY <1>1, <1>8

LEMMA FlatIsJoined ==
  ASSUME NEW ss, NEW n \in Nat \ {0}, Len(ss) = n
  PROVE  \E f : FlattenSeq(ss) = f[n] /\ Joined(f, n, ss)
<1>1. PICK g : g = CHOOSE f : Joined(f, n, ss)
  OBVIOUS
<1>2. Joined(g, n, ss)
  BY <1>1, JoinedExists
<1>3. FlattenSeq(ss) = g[n]
  BY <1>1 DEF FlattenSeq, Joined
<1> QED BY <1>2, <1>3

(* What the parts serve one by one, the parts joined serve together.        *)
Under(A, m) == UNION {A[i] : i \in 1..m}

LEMMA ServesAll ==
  ASSUME NEW C, NEW ss, NEW n \in Nat \ {0}, Len(ss) = n, NEW A,
         \A i \in 1..n : Serves(C, ss[i], A[i]),
         \A i, j \in 1..n : i # j => A[i] \cap A[j] = {}
  PROVE  Serves(C, FlattenSeq(ss), Under(A, n))
<1>1. PICK f : FlattenSeq(ss) = f[n] /\ Joined(f, n, ss)
  BY FlatIsJoined
<1>2. \A i \in 1..n : f[i] = IF i = 1 THEN ss[i] ELSE f[i - 1] \o ss[i]
  BY <1>1, JoinedAt
<1> DEFINE Bad == {m \in Nat : m \in 1..n /\ ~Serves(C, f[m], Under(A, m))}
<1>3. Bad = {}
  <2> SUFFICES ASSUME Bad # {} PROVE FALSE
    OBVIOUS
  <2>1. PICK m \in Bad : \A x \in Bad : m <= x
    <3>1. Bad \in SUBSET Nat
      OBVIOUS
    <3> HIDE DEF Bad
    <3> QED BY <3>1, LeastNatural
  <2>2. m \in 1..n /\ ~Serves(C, f[m], Under(A, m)) /\ m - 1 \notin Bad
    BY <2>1
  <2>3. CASE m = 1
    <3>1. f[1] = ss[1]
      BY <1>2, <2>2, <2>3
    <3>2. Under(A, 1) = A[1]
      <4>1. 1..1 = {1}
        OBVIOUS
      <4> QED BY <4>1 DEF Under
    <3> QED BY <2>2, <2>3, <3>1, <3>2
  <2>4. CASE m # 1
    <3>1. PICK k : k = m - 1
      OBVIOUS
    <3>2. k \in 1..n /\ m \in 1..n /\ m = k + 1 /\ k \in Nat /\ k \notin Bad
      BY <2>2, <2>4, <3>1
    <3>3. Serves(C, f[k], Under(A, k))
      BY <3>2
    <3>4. f[m] = f[k] \o ss[m]
      BY <1>2, <2>4, <3>1, <3>2
    <3>5. 1..m = (1..k) \cup {m} /\ 1..k \subseteq 1..n /\ m \notin 1..k
      BY <3>2
    <3>6. Under(A, m) = Under(A, k) \cup A[m]
      BY <3>5 DEF Under
    <3>7. Under(A, k) \cap A[m] = {}
      <4>1. \A i \in 1..k : i \in 1..n /\ i # m
        BY <3>5
      <4>2. \A i \in 1..k : A[i] \cap A[m] = {}
        BY <3>2, <4>1
      <4> QED BY <4>2 DEF Under
    <3>8. Serves(C, f[k] \o ss[m], Under(A, k) \cup A[m])
      BY <3>2, <3>3, <3>7, ServesBoth
    <3> QED BY <2>2, <3>4, <3>6, <3>8
  <2> QED BY <2>3, <2>4
<1>4. n \in 1..n /\ n \notin Bad
  BY <1>3
<1>5. Serves(C, f[n], Under(A, n))
  BY <1>4
<1> QED BY <1>1, <1>5

(* How often a dropping is in a chunk_map that serves a set.                *)
LEMMA TimesServed ==
  ASSUME NEW C, NEW s, NEW D, Serves(C, s, D), NEW d
  PROVE  Cardinality({i \in DOMAIN s : s[i].dropping = d /\ d[2] \in s[i].ids})
           = IF d \in D THEN 1 ELSE 0
<1>1. DOMAIN s = 1..Len(s)
  BY LenProperties DEF Serves
<1>2. PICK I : I = {i \in DOMAIN s : s[i].dropping = d /\ d[2] \in s[i].ids}
  OBVIOUS
<1>3. CASE d \in D
  <2>1. PICK i \in 1..Len(s) : s[i].dropping = d
    BY <1>3 DEF Serves
  <2>2. i \in I
    BY <1>1, <1>2, <2>1 DEF Serves
  <2>3. \A k \in I : k = i
    BY <1>1, <1>2, <2>1 DEF Serves
  <2>4. I = {i}
    BY <2>2, <2>3
  <2> QED BY <1>2, <1>3, <2>4, FS_Singleton
<1>4. CASE d \notin D
  <2>1. I = {}
    BY <1>1, <1>2, <1>4 DEF Serves
  <2> QED BY <1>2, <1>4, <2>1, FS_EmptySet
<1> QED BY <1>3, <1>4

-----------------------------------------------------------------------------
(* How the work is shared out, for a job j.                                 *)
N(j) == Cardinality(j.container.hostdirs)

RanksOf(j) == 0..(j.np - 1)

(* Whether there are no more hostdirs than ranks.                           *)
Narrow(j) == N(j) > 0 /\ j.np \div N(j) > 0

GroupOf(j, r) == rank_to_group_index(r, j.np \div N(j), j.np % N(j))

MembersOf(j, c) == {q \in RanksOf(j) : GroupOf(j, q) = c}

LeadersOf(j) == {r \in RanksOf(j) : Min(MembersOf(j, GroupOf(j, r))) = r}

PlaceOf(j, r) == Cardinality({q \in MembersOf(j, GroupOf(j, r)) : q < r})

DirOf(j, c) == Nth(j.container.hostdirs, c + 1)

In(j, dir) == {d \in j.container.droppings : d[1] = dir}

FilesOf(j, r) == SetToSeq(In(j, DirOf(j, GroupOf(j, r))))

Places(files, r, k) == {i \in DOMAIN files : (i - 1) % k = r}

SharePlaces(j, r) == Places(FilesOf(j, r), PlaceOf(j, r), Cardinality(MembersOf(j, GroupOf(j, r))))

Mult(j, r) == hostdir_per_rank(r, j.np, N(j))

WideDir(j, r, i) == Nth(j.container.hostdirs, r + 1 + (i - 1) * j.np)

WideParts(j, r) == [i \in 1..Mult(j, r) |-> In(j, WideDir(j, r, i))]

(* The droppings that rank r is to read.                                    *)
Share(j, r) ==
  IF Narrow(j) THEN Entries(FilesOf(j, r), SharePlaces(j, r)) ELSE Under(WideParts(j, r), Mult(j, r))

LEMMA JobParts ==
  ASSUME NEW j \in Jobs
  PROVE  /\ j.np \in Nat \ {0} /\ j.hint \in {"paropen", "broadcast", "alone"}
         /\ j.container.hostdirs \in SUBSET Nat /\ IsFiniteSet(j.container.hostdirs)
         /\ IsFiniteSet(j.container.droppings) /\ N(j) \in Nat
         /\ \A d \in j.container.droppings : d[1] \in j.container.hostdirs
<1>1. j.container.hostdirs \subseteq Nat \ {0} /\ IsFiniteSet(j.container.hostdirs)
  BY JobsAssumption
<1> QED BY <1>1, JobsAssumption, FS_CardinalityType DEF N

LEMMA Quotient ==
  ASSUME NEW a \in Nat, NEW b \in Nat \ {0}
  PROVE  /\ a \div b \in Nat /\ a % b \in 0..(b - 1)
         /\ a = b * (a \div b) + (a % b)
OBVIOUS

LEMMA QuotientIs ==
  ASSUME NEW a \in Nat, NEW b \in Nat \ {0}, NEW q \in Nat, NEW m \in 0..(b - 1), a = b * q + m
  PROVE  a \div b = q /\ a % b = m
OBVIOUS

LEMMA QuotientBelow ==
  ASSUME NEW a \in Nat, NEW b \in Nat \ {0}, NEW c \in Nat, a < b * c
  PROVE  a \div b \in Nat /\ a \div b < c
OBVIOUS

LEMMA ProductGrows ==
  ASSUME NEW a \in Nat, NEW b \in Nat, NEW c \in Nat
  PROVE  /\ a * b \in Nat /\ (a <= b => a * c <= b * c)
         /\ a < b /\ c > 0 => a * c < b * c /\ a * c + c <= b * c
<1>1. a * b \in Nat
  OBVIOUS
<1>2. ASSUME a <= b PROVE a * c <= b * c
  <2>1. PICK d \in Nat : b = a + d
    <3>1. b - a \in Nat /\ b = a + (b - a)
      BY <1>2
    <3> QED BY <3>1
  <2>2. b * c = a * c + d * c /\ d * c \in Nat /\ a * c \in Nat
    BY <2>1
  <2> QED BY <2>2
<1>3. ASSUME a < b, c > 0 PROVE a * c < b * c /\ a * c + c <= b * c
  <2>1. PICK d \in Nat : b = (a + 1) + d
    <3>1. b - (a + 1) \in Nat /\ b = (a + 1) + (b - (a + 1))
      BY <1>3
    <3> QED BY <3>1
  <2>2. b * c = (a * c + c) + d * c /\ d * c \in Nat /\ a * c \in Nat
    BY <2>1
  <2> QED BY <1>3, <2>2
<1> QED BY <1>1, <1>2, <1>3

(* Where there are enough ranks every hostdir has some, and every rank one. *)
LEMMA Groups ==
  ASSUME NEW j \in Jobs, Narrow(j)
  PROVE  /\ \A r \in RanksOf(j) : GroupOf(j, r) \in 0..(N(j) - 1)
         /\ \A c \in 0..(N(j) - 1) : \E r \in RanksOf(j) : GroupOf(j, r) = c
<1>1. PICK p, n : p = j.np /\ n = N(j)
  OBVIOUS
<1>2. p \in Nat \ {0} /\ n \in Nat \ {0}
  BY <1>1, JobParts DEF Narrow
<1>3. PICK k, x : k = p \div n /\ x = p % n
  OBVIOUS
<1>4. k \in Nat \ {0} /\ x \in 0..(n - 1) /\ p = n * k + x /\ x \in Nat /\ k + 1 \in Nat \ {0}
  <2>1. k > 0
    BY <1>1, <1>3 DEF Narrow
  <2>2. p \div n \in Nat /\ p % n \in 0..(n - 1) /\ p = n * (p \div n) + (p % n)
    BY <1>2, Quotient
  <2>3. k \in Nat /\ x \in 0..(n - 1) /\ p = n * k + x
    BY <1>3, <2>2
  <2> QED BY <1>2, <2>1, <2>3
<1>5. \A r : GroupOf(j, r) = IF r < x * (k + 1) THEN r \div (k + 1) ELSE (r - x) \div k
  BY <1>1, <1>3 DEF GroupOf, rank_to_group_index
<1>6. n * k \in Nat /\ x * k \in Nat /\ x * (k + 1) = x * k + x /\ x * k <= n * k
  BY <1>2, <1>4, ProductGrows
<1>7. ASSUME NEW r \in 0..(p - 1)
      PROVE  GroupOf(j, r) \in 0..(n - 1)
  <2>1. CASE r < x * (k + 1)
    <3>1. r < (k + 1) * x /\ r \in Nat
      BY <1>4, <2>1
    <3>2. r \div (k + 1) \in Nat /\ r \div (k + 1) < x
      BY <1>4, <3>1, QuotientBelow
    <3> QED BY <1>2, <1>4, <1>5, <2>1, <3>2
  <2>2. CASE ~(r < x * (k + 1))
    <3>1. PICK a : a = r - x
      OBVIOUS
    <3>2. a \in Nat /\ a < k * n
      BY <1>2, <1>4, <1>6, <2>2, <3>1
    <3>3. a \div k \in Nat /\ a \div k < n
      BY <1>2, <1>4, <3>2, QuotientBelow
    <3> QED BY <1>2, <1>5, <2>2, <3>1, <3>3
  <2> QED BY <2>1, <2>2
<1>8. ASSUME NEW c \in 0..(n - 1)
      PROVE  \E r \in 0..(p - 1) : GroupOf(j, r) = c
  <2>1. c \in Nat /\ c < n
    BY <1>2
  <2>2. CASE c < x
    <3>1. PICK r : r = (k + 1) * c
      OBVIOUS
    <3>2. c * (k + 1) < x * (k + 1) /\ r \in Nat /\ r = c * (k + 1)
      BY <1>4, <2>1, <2>2, <3>1, ProductGrows
    <3>3. r \div (k + 1) = c
      <4>1. r = (k + 1) * c + 0 /\ 0 \in 0..((k + 1) - 1)
        BY <1>4, <2>1, <3>1, <3>2
      <4> QED BY <1>4, <2>1, <3>2, <4>1, QuotientIs
    <3>4. r \in 0..(p - 1)
      BY <1>4, <1>6, <3>2
    <3> QED BY <1>5, <3>2, <3>3, <3>4
  <2>3. CASE ~(c < x)
    <3>1. PICK a, r : a = k * c /\ r = a + x
      OBVIOUS
    <3>2. a \in Nat /\ x * k <= c * k /\ a = c * k /\ c * k < n * k
      BY <1>2, <1>4, <2>1, <2>3, <3>1, ProductGrows
    <3>3. a \div k = c
      <4>1. a = k * c + 0 /\ 0 \in 0..(k - 1)
        BY <1>4, <2>1, <3>1, <3>2
      <4> QED BY <1>4, <2>1, <3>2, <4>1, QuotientIs
    <3>4. r \in 0..(p - 1) /\ ~(r < x * (k + 1)) /\ r - x = a
      BY <1>4, <1>6, <3>1, <3>2
    <3> QED BY <1>5, <3>3, <3>4
  <2> QED BY <2>2, <2>3
<1> QED BY <1>1, <1>7, <1>8 DEF RanksOf

LEMMA MembersAre ==
  ASSUME NEW j \in Jobs, NEW c
  PROVE  /\ MembersOf(j, c) \in SUBSET Nat /\ MembersOf(j, c) \in SUBSET RanksOf(j)
         /\ IsFiniteSet(MembersOf(j, c)) /\ Cardinality(MembersOf(j, c)) \in Nat
<1>1. MembersOf(j, c) \in SUBSET RanksOf(j) /\ j.np \in Nat
  BY JobParts DEF MembersOf
<1>2. RanksOf(j) \in SUBSET Nat /\ IsFiniteSet(RanksOf(j))
  BY <1>1, FS_Interval DEF RanksOf
<1>3. MembersOf(j, c) \in SUBSET Nat
  BY <1>1, <1>2
<1>4. IsFiniteSet(MembersOf(j, c))
  BY <1>1, <1>2, FS_Subset
<1> QED BY <1>1, <1>3, <1>4, FS_CardinalityType

(* The ranks of a hostdir are numbered from 0 on.                           *)
LEMMA PlacesAre ==
  ASSUME NEW j \in Jobs, NEW c
  PROVE  LET M == MembersOf(j, c)
         IN  /\ \A r \in M : GroupOf(j, r) = c /\ PlaceOf(j, r) \in 0..(Cardinality(M) - 1)
             /\ \A r, q \in M : PlaceOf(j, r) = PlaceOf(j, q) => r = q
             /\ \A i \in 0..(Cardinality(M) - 1) : \E r \in M : PlaceOf(j, r) = i
<1> DEFINE M == MembersOf(j, c)
<1>1. M \in SUBSET Nat /\ IsFiniteSet(M) /\ Cardinality(M) \in Nat /\ \A r \in M : GroupOf(j, r) = c
  <2>1. \A r \in M : GroupOf(j, r) = c
    BY DEF MembersOf
  <2> QED BY <2>1, MembersAre
<1>2. \A r \in M : PlaceOf(j, r) = Cardinality({q \in M : q < r})
  BY <1>1 DEF PlaceOf
<1> HIDE DEF M
<1>3. ASSUME NEW r \in M
      PROVE  PlaceOf(j, r) = Cardinality(UpTo(M, r)) - 1
  <2>1. PICK B : B = {q \in M : q < r}
    OBVIOUS
  <2>2. r \in Nat /\ B \in SUBSET M /\ r \notin B
    BY <1>1, <2>1
  <2>3. \A q \in M : q <= r <=> q < r \/ q = r
    BY <1>1
  <2>4. UpTo(M, r) = B \cup {r}
    BY <2>1, <2>3 DEF UpTo
  <2>5. IsFiniteSet(B)
    BY <1>1, <2>2, FS_Subset
  <2>6. Cardinality(UpTo(M, r)) = Cardinality(B) + 1 /\ Cardinality(B) \in Nat
    BY <2>2, <2>4, <2>5, FS_AddElement, FS_CardinalityType
  <2> QED BY <1>2, <2>1, <2>6
<1>4. \A r \in M : Cardinality(UpTo(M, r)) \in 1..Cardinality(M)
  BY <1>1, UpToParts
<1>5. /\ \A i \in 1..Cardinality(M) : Nth(M, i) \in M /\ Cardinality(UpTo(M, Nth(M, i))) = i
      /\ \A r \in M : Nth(M, Cardinality(UpTo(M, r))) = r
  BY <1>1, Numbers
<1>6. \A r \in M : PlaceOf(j, r) \in 0..(Cardinality(M) - 1)
  BY <1>1, <1>3, <1>4
<1>7. ASSUME NEW r \in M, NEW q \in M, PlaceOf(j, r) = PlaceOf(j, q)
      PROVE  r = q
  <2>1. Cardinality(UpTo(M, r)) = Cardinality(UpTo(M, q))
    BY <1>3, <1>4, <1>7
  <2> QED BY <1>5, <2>1
<1>8. ASSUME NEW i \in 0..(Cardinality(M) - 1)
      PROVE  \E r \in M : PlaceOf(j, r) = i
  <2>1. i + 1 \in 1..Cardinality(M) /\ (i + 1) - 1 = i
    BY <1>1
  <2>2. Nth(M, i + 1) \in M /\ Cardinality(UpTo(M, Nth(M, i + 1))) = i + 1
    BY <1>5, <2>1
  <2> QED BY <1>3, <2>1, <2>2
<1> QED BY <1>1, <1>6, <1>7, <1>8 DEF M

(* Every hostdir has one rank that leads.                                   *)
LEMMA LeadersAre ==
  ASSUME NEW j \in Jobs, Narrow(j)
  PROVE  /\ LeadersOf(j) \in SUBSET RanksOf(j) /\ LeadersOf(j) \in SUBSET Nat
         /\ IsFiniteSet(LeadersOf(j)) /\ LeadersOf(j) # {}
         /\ \A l, m \in LeadersOf(j) : GroupOf(j, l) = GroupOf(j, m) => l = m
         /\ \A c \in 0..(N(j) - 1) : \E l \in LeadersOf(j) : GroupOf(j, l) = c
         /\ \A r \in RanksOf(j) : LET l == Min(MembersOf(j, GroupOf(j, r)))
                                  IN  l \in LeadersOf(j) /\ GroupOf(j, l) = GroupOf(j, r)
<1>1. LeadersOf(j) \in SUBSET RanksOf(j) /\ RanksOf(j) \in SUBSET Nat /\ IsFiniteSet(RanksOf(j))
  <2>1. LeadersOf(j) \in SUBSET RanksOf(j)
    BY DEF LeadersOf
  <2>2. PICK p \in Nat \ {0} : p = j.np
    BY JobParts
  <2>3. RanksOf(j) = 0..(p - 1)
    BY <2>2 DEF RanksOf
  <2>4. 0..(p - 1) \in SUBSET Nat
    OBVIOUS
  <2>5. IsFiniteSet(0..(p - 1))
    BY FS_Interval
  <2> QED BY <2>1, <2>3, <2>4, <2>5
<1>2. LeadersOf(j) \in SUBSET Nat /\ IsFiniteSet(LeadersOf(j))
  BY <1>1, FS_Subset
<1>3. \A l, m \in LeadersOf(j) : GroupOf(j, l) = GroupOf(j, m) => l = m
  BY DEF LeadersOf
<1>4. ASSUME NEW r \in RanksOf(j)
      PROVE  /\ Min(MembersOf(j, GroupOf(j, r))) \in LeadersOf(j)
             /\ GroupOf(j, Min(MembersOf(j, GroupOf(j, r)))) = GroupOf(j, r)
  <2>1. PICK c, l : c = GroupOf(j, r) /\ l = Min(MembersOf(j, c))
    OBVIOUS
  <2>2. r \in MembersOf(j, c)
    BY <2>1 DEF MembersOf
  <2>3. l \in MembersOf(j, c)
    BY <2>1, <2>2, MembersAre, MinIs
  <2>4. l \in RanksOf(j) /\ GroupOf(j, l) = c
    BY <2>3 DEF MembersOf
  <2> QED BY <2>1, <2>4 DEF LeadersOf
<1>5. \A c \in 0..(N(j) - 1) : \E l \in LeadersOf(j) : GroupOf(j, l) = c
  <2> TAKE c \in 0..(N(j) - 1)
  <2>1. PICK r \in RanksOf(j) : GroupOf(j, r) = c
    BY Groups
  <2> QED BY <1>4, <2>1
<1>6. 0 \in 0..(N(j) - 1)
  BY JobParts DEF Narrow
<1>7. LeadersOf(j) # {}
  BY <1>5, <1>6
<1> QED BY <1>1, <1>2, <1>3, <1>4, <1>5, <1>7

LEMMA HostdirsAre ==
  ASSUME NEW j \in Jobs
  PROVE  /\ \A c, b \in 0..(N(j) - 1) : DirOf(j, c) = DirOf(j, b) => c = b
         /\ \A d \in j.container.droppings : \E c \in 0..(N(j) - 1) : d \in In(j, DirOf(j, c))
         /\ \A dir, e : dir # e => In(j, dir) \cap In(j, e) = {}
         /\ \A dir : In(j, dir) \subseteq j.container.droppings /\ IsFiniteSet(In(j, dir))
<1> DEFINE Hosts == j.container.hostdirs
<1>1. Hosts \in SUBSET Nat /\ IsFiniteSet(Hosts) /\ N(j) \in Nat /\ N(j) = Cardinality(Hosts)
  BY JobParts DEF N
<1> HIDE DEF Hosts
<1>2. /\ \A i, k \in 1..N(j) : Nth(Hosts, i) = Nth(Hosts, k) => i = k
      /\ \A s \in Hosts : \E i \in 1..N(j) : Nth(Hosts, i) = s
  BY <1>1, Numbers
<1>3. \A c : DirOf(j, c) = Nth(Hosts, c + 1)
  BY DEF DirOf, Hosts
<1>4. ASSUME NEW c \in 0..(N(j) - 1), NEW b \in 0..(N(j) - 1), DirOf(j, c) = DirOf(j, b)
      PROVE  c = b
  <2>1. c + 1 \in 1..N(j) /\ b + 1 \in 1..N(j)
    BY <1>1
  <2>2. c + 1 = b + 1
    BY <1>2, <1>3, <1>4, <2>1
  <2> QED BY <1>1, <2>2
<1>5. ASSUME NEW d \in j.container.droppings
      PROVE  \E c \in 0..(N(j) - 1) : d \in In(j, DirOf(j, c))
  <2>1. d[1] \in Hosts
    BY JobParts DEF Hosts
  <2>2. PICK i \in 1..N(j) : Nth(Hosts, i) = d[1]
    BY <1>2, <2>1
  <2>3. i - 1 \in 0..(N(j) - 1) /\ (i - 1) + 1 = i
    BY <1>1
  <2>4. DirOf(j, i - 1) = d[1]
    BY <1>3, <2>2, <2>3
  <2> QED BY <2>3, <2>4 DEF In
<1>6. \A dir, e : dir # e => In(j, dir) \cap In(j, e) = {}
  BY DEF In
<1>7. ASSUME NEW dir
      PROVE  In(j, dir) \subseteq j.container.droppings /\ IsFiniteSet(In(j, dir))
  <2>1. In(j, dir) \in SUBSET j.container.droppings
    BY DEF In
  <2> QED BY <2>1, JobParts, FS_Subset
<1> QED BY <1>4, <1>5, <1>6, <1>7

(* The ranks of a hostdir share out its droppings.                          *)
LEMMA NarrowShares ==
  ASSUME NEW j \in Jobs, Narrow(j)
  PROVE  /\ \A r \in RanksOf(j) : Lists(FilesOf(j, r), In(j, DirOf(j, GroupOf(j, r))))
         /\ \A r \in RanksOf(j) : Share(j, r) \subseteq In(j, DirOf(j, GroupOf(j, r)))
         /\ \A r, q \in RanksOf(j) : r # q => Share(j, r) \cap Share(j, q) = {}
         /\ \A c \in 0..(N(j) - 1) : \A d \in In(j, DirOf(j, c)) :
              \E r \in MembersOf(j, c) : d \in Share(j, r)
<1>1. \A r \in RanksOf(j) : Lists(FilesOf(j, r), In(j, DirOf(j, GroupOf(j, r))))
  BY HostdirsAre, ListOf DEF FilesOf
<1>2. \A r : Share(j, r) = {FilesOf(j, r)[i] : i \in SharePlaces(j, r)}
  BY DEF Share, Entries
<1>3. ASSUME NEW r \in RanksOf(j)
      PROVE  /\ Len(FilesOf(j, r)) \in Nat /\ DOMAIN FilesOf(j, r) = 1..Len(FilesOf(j, r))
             /\ \A i \in 1..Len(FilesOf(j, r)) : FilesOf(j, r)[i] \in In(j, DirOf(j, GroupOf(j, r)))
             /\ \A i, k \in 1..Len(FilesOf(j, r)) : FilesOf(j, r)[i] = FilesOf(j, r)[k] => i = k
             /\ \A d \in In(j, DirOf(j, GroupOf(j, r))) :
                  \E i \in 1..Len(FilesOf(j, r)) : FilesOf(j, r)[i] = d
  BY <1>1, LenProperties, ElementOfSeq DEF Lists
<1>4. ASSUME NEW r \in RanksOf(j)
      PROVE  Share(j, r) \subseteq In(j, DirOf(j, GroupOf(j, r)))
  <2>1. SharePlaces(j, r) \subseteq 1..Len(FilesOf(j, r))
    BY <1>3 DEF SharePlaces, Places
  <2> QED BY <1>2, <1>3, <2>1
<1>5. ASSUME NEW r \in RanksOf(j), NEW q \in RanksOf(j), NEW d \in Share(j, r), d \in Share(j, q)
      PROVE  r = q
  <2>1. PICK c, b : c = GroupOf(j, r) /\ b = GroupOf(j, q)
    OBVIOUS
  <2>2. c \in 0..(N(j) - 1) /\ b \in 0..(N(j) - 1)
    BY <2>1, Groups
  <2>3. d \in In(j, DirOf(j, c)) /\ d \in In(j, DirOf(j, b))
    BY <1>4, <1>5, <2>1
  <2>4. c = b
    BY <2>2, <2>3, HostdirsAre
  <2>5. r \in MembersOf(j, c) /\ q \in MembersOf(j, c)
    BY <2>1, <2>4 DEF MembersOf
  <2>6. PICK s : s = FilesOf(j, r)
    OBVIOUS
  <2>7. s = FilesOf(j, q)
    BY <2>1, <2>4, <2>6 DEF FilesOf
  <2>8. PICK i \in SharePlaces(j, r) : s[i] = d
    BY <1>2, <2>6
  <2>9. PICK k \in SharePlaces(j, q) : s[k] = d
    BY <1>2, <1>5, <2>7
  <2>10. /\ i \in 1..Len(s) /\ (i - 1) % Cardinality(MembersOf(j, c)) = PlaceOf(j, r)
         /\ k \in 1..Len(s) /\ (k - 1) % Cardinality(MembersOf(j, c)) = PlaceOf(j, q)
    BY <1>3, <2>1, <2>4, <2>6, <2>7, <2>8, <2>9 DEF SharePlaces, Places
  <2>11. i = k
    BY <1>3, <2>6, <2>8, <2>9, <2>10
  <2>12. PlaceOf(j, r) = PlaceOf(j, q)
    BY <2>10, <2>11
  <2> QED BY <2>5, <2>12, PlacesAre
<1>6. ASSUME NEW c \in 0..(N(j) - 1), NEW d \in In(j, DirOf(j, c))
      PROVE  \E r \in MembersOf(j, c) : d \in Share(j, r)
  <2>1. PICK q \in RanksOf(j) : GroupOf(j, q) = c
    BY Groups
  <2>2. PICK k : k = Cardinality(MembersOf(j, c))
    OBVIOUS
  <2>3. q \in MembersOf(j, c)
    BY <2>1 DEF MembersOf
  <2>4. k \in Nat \ {0}
    BY <2>2, <2>3, MembersAre, FS_EmptySet
  <2>5. PICK i \in 1..Len(FilesOf(j, q)) : FilesOf(j, q)[i] = d
    BY <1>3, <2>1
  <2>6. i - 1 \in Nat /\ i \in DOMAIN FilesOf(j, q)
    BY <1>3, <2>5
  <2>7. (i - 1) % k \in 0..(k - 1)
    BY <2>4, <2>6, Quotient
  <2>8. PICK r \in MembersOf(j, c) : PlaceOf(j, r) = (i - 1) % k
    BY <2>2, <2>7, PlacesAre
  <2>9. GroupOf(j, r) = c
    BY <2>8 DEF MembersOf
  <2>10. FilesOf(j, r) = FilesOf(j, q)
    BY <2>1, <2>9 DEF FilesOf
  <2>11. i \in SharePlaces(j, r)
    BY <2>2, <2>6, <2>8, <2>9, <2>10 DEF SharePlaces, Places
  <2> QED BY <1>2, <2>5, <2>8, <2>10, <2>11
<1>7. \A r, q \in RanksOf(j) : r # q => Share(j, r) \cap Share(j, q) = {}
  BY <1>5
<1> QED BY <1>1, <1>4, <1>6, <1>7

(* With more hostdirs than ranks each has whole ones.                       *)
LEMMA WideDirs ==
  ASSUME NEW j \in Jobs, ~Narrow(j), N(j) > 0
  PROVE  /\ \A r \in RanksOf(j) : Mult(j, r) \in Nat \ {0}
         /\ \A r, q \in RanksOf(j) : \A i \in 1..Mult(j, r), k \in 1..Mult(j, q) :
              WideDir(j, r, i) = WideDir(j, q, k) => r = q /\ i = k
         /\ \A d \in j.container.droppings : \E r \in RanksOf(j) : \E i \in 1..Mult(j, r) :
              d[1] = WideDir(j, r, i)
<1>1. PICK p, n : p = j.np /\ n = N(j)
  OBVIOUS
<1>2. p \in Nat \ {0} /\ n \in Nat \ {0} /\ RanksOf(j) = 0..(p - 1)
  BY <1>1, JobParts DEF RanksOf
<1>3. p < n
  <2>1. p \div n \in Nat /\ p % n \in 0..(n - 1) /\ p = n * (p \div n) + (p % n)
    BY <1>2, Quotient
  <2>2. p \div n = 0
    BY <1>1, <1>2, <2>1 DEF Narrow
  <2>3. p = p % n
    BY <1>2, <2>1, <2>2
  <2> QED BY <1>2, <2>1, <2>3
<1>4. PICK m, e : m = n \div p /\ e = n % p
  OBVIOUS
<1>5. m \in Nat /\ e \in 0..(p - 1) /\ n = p * m + e
  <2>1. n \div p \in Nat /\ n % p \in 0..(p - 1) /\ n = p * (n \div p) + (n % p)
    BY <1>2, Quotient
  <2> QED BY <1>4, <2>1
<1>6. m # 0
  BY <1>2, <1>3, <1>5
<1>7. \A r : Mult(j, r) = m + (IF r < e THEN 1 ELSE 0)
  BY <1>1, <1>4 DEF Mult, hostdir_per_rank
<1>8. \A r \in RanksOf(j) : Mult(j, r) \in Nat \ {0}
  BY <1>5, <1>6, <1>7
<1> DEFINE pos(r, i) == r + 1 + (i - 1) * p
<1>9. ASSUME NEW r \in 0..(p - 1), NEW i \in 1..Mult(j, r)
      PROVE  pos(r, i) \in 1..n /\ (pos(r, i) - 1) % p = r /\ (pos(r, i) - 1) \div p = i - 1
  <2>1. i - 1 \in Nat /\ i \in Nat /\ r \in Nat /\ (i - 1) * p \in Nat /\ (i - 1) * p = p * (i - 1)
    BY <1>2, <1>5, <1>7
  <2>2. pos(r, i) - 1 = p * (i - 1) + r /\ pos(r, i) - 1 \in Nat
    BY <1>2, <2>1
  <2>3. (pos(r, i) - 1) % p = r /\ (pos(r, i) - 1) \div p = i - 1
    BY <1>2, <2>1, <2>2, QuotientIs
  <2>4. CASE i - 1 < m
    <3>1. (i - 1) * p + p <= m * p /\ m * p = p * m /\ p * m \in Nat
      BY <1>2, <1>5, <2>1, <2>4, ProductGrows
    <3> QED BY <1>2, <1>5, <2>1, <2>2, <2>3, <3>1
  <2>5. CASE ~(i - 1 < m)
    <3>1. i - 1 = m /\ r < e
      BY <1>5, <1>7, <2>1, <2>5
    <3>2. pos(r, i) - 1 = p * m + r /\ p * m \in Nat
      BY <1>2, <1>5, <2>2, <3>1
    <3> QED BY <1>2, <1>5, <2>1, <2>2, <2>3, <3>1, <3>2
  <2> QED BY <2>4, <2>5
<1>10. ASSUME NEW x \in 1..n
       PROVE  \E r \in 0..(p - 1) : \E i \in 1..Mult(j, r) : pos(r, i) = x
  <2>1. PICK q, r : q = (x - 1) \div p /\ r = (x - 1) % p
    OBVIOUS
  <2>2. q \in Nat /\ r \in 0..(p - 1) /\ x - 1 = p * q + r
    <3>1. x - 1 \in Nat
      BY <1>2
    <3>2. (x - 1) \div p \in Nat /\ (x - 1) % p \in 0..(p - 1) /\ x - 1 = p * ((x - 1) \div p) + ((x - 1) % p)
      BY <1>2, <3>1, Quotient
    <3> QED BY <2>1, <3>2
  <2>3. ~(m < q)
    <3>1. ASSUME m < q PROVE m * p + p <= q * p
      BY <1>2, <1>5, <2>2, <3>1, ProductGrows
    <3>2. m * p = p * m /\ q * p = p * q /\ p * m \in Nat /\ p * q \in Nat
      BY <1>2, <1>5, <2>2
    <3> QED BY <1>2, <1>5, <2>2, <3>1, <3>2
  <2>4. q = m => r < e
    BY <1>2, <1>5, <2>2
  <2>5. q + 1 \in 1..Mult(j, r)
    BY <1>5, <1>7, <2>2, <2>3, <2>4
  <2>6. pos(r, q + 1) = x
    <3>1. (q + 1) - 1 = q /\ q * p = p * q /\ p * q \in Nat
      BY <1>2, <2>2
    <3> QED BY <1>2, <2>2, <3>1
  <2> QED BY <2>2, <2>5, <2>6
<1> DEFINE Hosts == j.container.hostdirs
<1>11. Hosts \in SUBSET Nat /\ IsFiniteSet(Hosts) /\ n = Cardinality(Hosts)
  BY <1>1, JobParts DEF N
<1>12. \A r, i : WideDir(j, r, i) = Nth(Hosts, pos(r, i))
  BY <1>1 DEF WideDir
<1> HIDE DEF pos, Hosts
<1>13. /\ \A i, k \in 1..n : Nth(Hosts, i) = Nth(Hosts, k) => i = k
       /\ \A s \in Hosts : \E i \in 1..n : Nth(Hosts, i) = s
  BY <1>11, Numbers
<1>14. ASSUME NEW r \in RanksOf(j), NEW q \in RanksOf(j), NEW i \in 1..Mult(j, r), NEW k \in 1..Mult(j, q),
              WideDir(j, r, i) = WideDir(j, q, k)
       PROVE  r = q /\ i = k
  <2>1. r \in 0..(p - 1) /\ q \in 0..(p - 1)
    BY <1>2
  <2>2. pos(r, i) \in 1..n /\ (pos(r, i) - 1) % p = r /\ (pos(r, i) - 1) \div p = i - 1
    BY <1>9, <2>1
  <2>3. pos(q, k) \in 1..n /\ (pos(q, k) - 1) % p = q /\ (pos(q, k) - 1) \div p = k - 1
    BY <1>9, <2>1
  <2>4. Nth(Hosts, pos(r, i)) = Nth(Hosts, pos(q, k))
    BY <1>12, <1>14
  <2>5. pos(r, i) = pos(q, k)
    BY <1>13, <2>2, <2>3, <2>4
  <2>6. r = q /\ i - 1 = k - 1
    BY <2>2, <2>3, <2>5
  <2>7. i \in Nat /\ k \in Nat
    BY <1>8
  <2> QED BY <2>6, <2>7
<1>15. ASSUME NEW d \in j.container.droppings
       PROVE  \E r \in RanksOf(j) : \E i \in 1..Mult(j, r) : d[1] = WideDir(j, r, i)
  <2>1. d[1] \in Hosts
    BY JobParts DEF Hosts
  <2>2. PICK x \in 1..n : Nth(Hosts, x) = d[1]
    BY <1>13, <2>1
  <2>3. PICK r \in 0..(p - 1) : \E i \in 1..Mult(j, r) : pos(r, i) = x
    BY <1>10
  <2>4. PICK i \in 1..Mult(j, r) : pos(r, i) = x
    BY <2>3
  <2>5. d[1] = WideDir(j, r, i) /\ r \in RanksOf(j)
    BY <1>2, <1>12, <2>2, <2>4
  <2> QED BY <2>5
<1> QED BY <1>8, <1>14, <1>15

LEMMA Shares ==
  ASSUME NEW j \in Jobs, N(j) > 0
  PROVE  /\ \A r \in RanksOf(j) : Share(j, r) \subseteq j.container.droppings
         /\ \A r, q \in RanksOf(j) : r # q => Share(j, r) \cap Share(j, q) = {}
         /\ \A d \in j.container.droppings : \E r \in RanksOf(j) : d \in Share(j, r)
<1>1. CASE Narrow(j)
  <2>1. \A r \in RanksOf(j) : Share(j, r) \subseteq j.container.droppings
    BY <1>1, NarrowShares, HostdirsAre
  <2>2. \A d \in j.container.droppings : \E r \in RanksOf(j) : d \in Share(j, r)
    BY <1>1, NarrowShares, HostdirsAre, MembersAre
  <2> QED BY <1>1, <2>1, <2>2, NarrowShares
<1>2. CASE ~Narrow(j)
  <2>1. \A r, d : d \in Share(j, r) <=> \E i \in 1..Mult(j, r) : d \in In(j, WideDir(j, r, i))
    BY <1>2 DEF Share, Under, WideParts
  <2>2. \A r, i, d : d \in In(j, WideDir(j, r, i)) <=> d \in j.container.droppings /\ d[1] = WideDir(j, r, i)
    BY DEF In
  <2>3. ASSUME NEW r \in RanksOf(j), NEW q \in RanksOf(j), NEW d \in Share(j, r), d \in Share(j, q)
        PROVE  r = q
    BY <1>2, <2>1, <2>2, <2>3, WideDirs
  <2>4. \A d \in j.container.droppings : \E r \in RanksOf(j) : d \in Share(j, r)
    BY <1>2, <2>1, <2>2, WideDirs
  <2> QED BY <2>1, <2>2, <2>3, <2>4
<1> QED BY <1>1, <1>2

-----------------------------------------------------------------------------
(* What reading and merging makes of the shares.                            *)
LEMMA ReadPart ==
  ASSUME NEW A, NEW D \in SUBSET A, NEW files, Lists(files, D), NEW r, NEW k,
         NEW p \in parAggregateIndices(files, r, k)
  PROVE  LET T == Entries(files, Places(files, r, k))
         IN  p.missed \subseteq T /\ Serves(ChunksOf(A), p.index.chunks, T \ p.missed)
<1>1. PICK P : P = Places(files, r, k)
  OBVIOUS
<1> DEFINE T == Entries(files, P)
<1>2. PICK tasks : tasks = Tasks(files, r, k)
  OBVIOUS
<1>3. tasks = Chosen(files, P) /\ P \in SUBSET DOMAIN files
  BY <1>1, <1>2 DEF Tasks, Places
<1>4. T \subseteq D /\ ToSet(tasks) = T /\ Lists(tasks, T)
  BY <1>3, ChosenLists
<1> HIDE DEF T
<1>5. PICK done : /\ p = [index |-> indexTaskManager(done), missed |-> ToSet(tasks) \ ToSet(done)]
                  /\ done = tasks \/ \E some \in SUBSET DOMAIN tasks : done = Chosen(tasks, some)
  BY <1>2 DEF parAggregateIndices
<1>6. \E E \in SUBSET T : ToSet(done) = E /\ Lists(done, E)
  <2>1. CASE done = tasks
    BY <1>4, <2>1
  <2>2. ASSUME NEW some \in SUBSET DOMAIN tasks, done = Chosen(tasks, some)
        PROVE  \E E \in SUBSET T : ToSet(done) = E /\ Lists(done, E)
    <3> DEFINE E == Entries(tasks, some)
    <3>1. E \subseteq T /\ ToSet(done) = E /\ Lists(done, E)
      BY <1>4, <2>2, ChosenLists
    <3> HIDE DEF E
    <3> QED BY <3>1
  <2> QED BY <1>5, <2>1, <2>2
<1>7. PICK E \in SUBSET T : ToSet(done) = E /\ Lists(done, E)
  BY <1>6
<1>8. p.missed = T \ E /\ p.index = indexTaskManager(done)
  BY <1>4, <1>5, <1>7
<1>9. T \ p.missed = E /\ E \in SUBSET A
  BY <1>4, <1>7, <1>8
<1>10. Serves(ChunksOf(A), indexTaskManager(done).chunks, E)
  BY <1>7, <1>9, TaskManager
<1>11. p.missed \subseteq T /\ Serves(ChunksOf(A), p.index.chunks, T \ p.missed)
  BY <1>8, <1>9, <1>10
<1> QED BY <1>1, <1>11 DEF T

LEMMA FilesListed ==
  ASSUME NEW j \in Jobs, job = j, NEW dir
  PROVE  /\ hostdir_index_read(dir) # <<>> /\ Tail(hostdir_index_read(dir)) = SetToSeq(In(j, dir))
         /\ Lists(SetToSeq(In(j, dir)), In(j, dir))
<1>1. Lists(SetToSeq(In(j, dir)), In(j, dir))
  BY HostdirsAre, ListOf
<1>2. SetToSeq(In(j, dir)) \in Seq(In(j, dir))
  BY <1>1 DEF Lists
<1>3. hostdir_index_read(dir) = << <<dir, -1>> >> \o SetToSeq(In(j, dir))
  BY DEF hostdir_index_read, In
<1> QED BY <1>1, <1>2, <1>3, TailOfCons

(* plfs_parindex_read.                                                      *)
LEMMA NarrowRead ==
  ASSUME NEW j \in Jobs, job = j, Narrow(j), NEW r \in RanksOf(j),
         NEW p \in parAggregateIndices(FilesOf(j, r), PlaceOf(j, r), Cardinality(MembersOf(j, GroupOf(j, r))))
  PROVE  /\ p.missed \subseteq Share(j, r)
         /\ Serves(ChunksOf(j.container.droppings), global_to_stream(p.index), Share(j, r) \ p.missed)
<1>1. PICK D : D = In(j, DirOf(j, GroupOf(j, r)))
  OBVIOUS
<1>2. Lists(FilesOf(j, r), D) /\ D \in SUBSET j.container.droppings
  BY <1>1, NarrowShares, HostdirsAre
<1>3. Share(j, r) = Entries(FilesOf(j, r), Places(FilesOf(j, r), PlaceOf(j, r),
                                                  Cardinality(MembersOf(j, GroupOf(j, r)))))
  BY DEF Share, SharePlaces
<1>4. /\ p.missed \subseteq Share(j, r)
      /\ Serves(ChunksOf(j.container.droppings), p.index.chunks, Share(j, r) \ p.missed)
  BY <1>2, <1>3, ReadPart
<1> QED BY <1>4 DEF global_to_stream

(* Streaming made one.                                                        *)
LEMMA MergeServes ==
  ASSUME NEW C, NEW n \in Nat \ {0}, NEW streams, DOMAIN streams = 1..n, NEW A,
         \A i \in 1..n : Serves(C, streams[i], A[i]),
         \A i, k \in 1..n : i # k => A[i] \cap A[k] = {}
  PROVE  Serves(C, plfs_parindexread_merge(streams), Under(A, n))
<1>1. \A i \in 1..n : streams[i] \in Seq(C)
  BY DEF Serves
<1>2. PICK idx : idx = [i \in DOMAIN streams |-> global_from_stream(NoIndex, streams[i])]
  OBVIOUS
<1>3. DOMAIN idx = 1..n /\ \A i \in 1..n : idx[i] = global_from_stream(NoIndex, streams[i])
  BY <1>2
<1>4. \A i \in 1..n : idx[i].chunks = streams[i]
  <2> TAKE i \in 1..n
  <2>1. <<>> \o streams[i] = streams[i]
    BY <1>1, ConcatEmptySeq
  <2>2. global_from_stream(NoIndex, streams[i]).chunks = <<>> \o streams[i]
    BY DEF global_from_stream, NoIndex
  <2> QED BY <1>3, <2>1, <2>2
<1>5. PICK ss : ss = [i \in DOMAIN idx |-> idx[i].chunks]
  OBVIOUS
<1>6. ss \in [1..n -> Seq(C)] /\ \A i \in 1..n : ss[i] = streams[i]
  BY <1>1, <1>3, <1>4, <1>5
<1>7. Len(ss) = n
  BY <1>6, SeqDef, LenProperties
<1>8. Serves(C, FlattenSeq(ss), Under(A, n))
  BY <1>6, <1>7, ServesAll
<1>9. plfs_parindexread_merge(streams) = FlattenSeq(ss)
  BY <1>2, <1>5 DEF plfs_parindexread_merge, global_to_stream, merge
<1> QED BY <1>8, <1>9

(* plfs_hostdir_rddir.                                                      *)
DirsOf(j, r) == [i \in 1..Mult(j, r) |-> WideDir(j, r, i)]

FilesIn(dirs) == [i \in DOMAIN dirs |-> Tail(hostdir_index_read(dirs[i]))]

ReadAll(dirs, files, spoilt, p) ==
  merge([i \in DOMAIN dirs |-> IF i = spoilt THEN p.index ELSE indexTaskManager(files[i])])

LEMMA WideRead ==
  ASSUME NEW j \in Jobs, job = j, ~Narrow(j), N(j) > 0, NEW r \in RanksOf(j),
         NEW files, files = FilesIn(DirsOf(j, r)),
         NEW spoilt \in DOMAIN DirsOf(j, r), NEW p \in parAggregateIndices(files[spoilt], 0, 1),
         NEW index, index = ReadAll(DirsOf(j, r), files, spoilt, p)
  PROVE  /\ p.missed \subseteq Share(j, r)
         /\ Serves(ChunksOf(j.container.droppings), global_to_stream(index), Share(j, r) \ p.missed)
<1>1. PICK n \in Nat \ {0} : n = Mult(j, r)
  BY WideDirs
<1>2. DOMAIN DirsOf(j, r) = 1..n /\ \A i \in 1..n : DirsOf(j, r)[i] = WideDir(j, r, i)
  BY <1>1 DEF DirsOf
<1>3. PICK D, W : D = j.container.droppings /\ W = WideParts(j, r)
  OBVIOUS
<1>4. \A i \in 1..n : W[i] = In(j, WideDir(j, r, i)) /\ W[i] \in SUBSET D
  BY <1>1, <1>3, HostdirsAre DEF WideParts
<1>5. \A i, k \in 1..n : i # k => W[i] \cap W[k] = {}
  BY <1>1, <1>4, WideDirs, HostdirsAre
<1>6. Share(j, r) = Under(W, n)
  BY <1>1, <1>3 DEF Share
<1>7. \A i \in 1..n : Lists(files[i], W[i])
  <2> TAKE i \in 1..n
  <2>1. files[i] = Tail(hostdir_index_read(WideDir(j, r, i)))
    BY <1>2 DEF FilesIn
  <2> QED BY <1>4, <2>1, FilesListed
<1>8. p.missed \subseteq W[spoilt] /\ Serves(ChunksOf(D), p.index.chunks, W[spoilt] \ p.missed)
  <2>1. Lists(files[spoilt], W[spoilt]) /\ W[spoilt] \in SUBSET D
    BY <1>2, <1>4, <1>7
  <2>2. Entries(files[spoilt], Places(files[spoilt], 0, 1)) = W[spoilt]
    <3>1. PICK s : s = files[spoilt]
      OBVIOUS
    <3>2. DOMAIN s = 1..Len(s) /\ \A i \in 1..Len(s) : s[i] \in W[spoilt]
      BY <2>1, <3>1, LenProperties, ElementOfSeq DEF Lists
    <3>3. \A i \in 1..Len(s) : (i - 1) % 1 = 0
      OBVIOUS
    <3>4. Places(s, 0, 1) = 1..Len(s)
      BY <3>2, <3>3 DEF Places
    <3>5. \A d \in W[spoilt] : \E i \in 1..Len(s) : s[i] = d
      BY <2>1, <3>1 DEF Lists
    <3>6. Entries(s, 1..Len(s)) = W[spoilt]
      BY <3>2, <3>5 DEF Entries
    <3> QED BY <3>1, <3>4, <3>6
  <2>3. PICK f, V : f = files[spoilt] /\ V = W[spoilt]
    OBVIOUS
  <2>4. p \in parAggregateIndices(f, 0, 1)
    BY <2>3
  <2>5. Lists(f, V) /\ V \in SUBSET D /\ Entries(f, Places(f, 0, 1)) = V
    BY <2>1, <2>2, <2>3
  <2>6. p.missed \subseteq V /\ Serves(ChunksOf(D), p.index.chunks, V \ p.missed)
    BY <2>4, <2>5, ReadPart
  <2> QED BY <2>3, <2>6
<1>9. PICK idx : idx = [i \in DOMAIN DirsOf(j, r) |-> IF i = spoilt THEN p.index ELSE indexTaskManager(files[i])]
  OBVIOUS
<1>10. DOMAIN idx = 1..n /\ \A i \in 1..n : idx[i] = IF i = spoilt THEN p.index ELSE indexTaskManager(files[i])
  BY <1>2, <1>9
<1>11. PICK B : B = [i \in 1..n |-> W[i] \ p.missed]
  OBVIOUS
<1>12. \A i \in 1..n : Serves(ChunksOf(D), idx[i].chunks, B[i])
  <2> TAKE i \in 1..n
  <2>1. CASE i = spoilt
    BY <1>8, <1>10, <1>11, <2>1
  <2>2. CASE i # spoilt
    <3>1. B[i] = W[i]
      BY <1>2, <1>5, <1>8, <1>11, <2>2
    <3>2. Serves(ChunksOf(D), indexTaskManager(files[i]).chunks, W[i])
      BY <1>4, <1>7, TaskManager
    <3> QED BY <1>10, <2>2, <3>1, <3>2
  <2> QED BY <2>1, <2>2
<1>13. PICK ss : ss = [i \in DOMAIN idx |-> idx[i].chunks]
  OBVIOUS
<1>14. \A i \in 1..n : ss[i] = idx[i].chunks /\ ss[i] \in Seq(ChunksOf(D))
  BY <1>10, <1>12, <1>13 DEF Serves
<1>15. ss \in [1..n -> Seq(ChunksOf(D))]
  BY <1>10, <1>13, <1>14
<1>16. Len(ss) = n
  BY <1>15, SeqDef, LenProperties
<1>17. \A i, k \in 1..n : i # k => B[i] \cap B[k] = {}
  BY <1>5, <1>11
<1>18. Serves(ChunksOf(D), FlattenSeq(ss), Under(B, n))
  BY <1>12, <1>14, <1>16, <1>17, ServesAll
<1>19. Under(B, n) = Under(W, n) \ p.missed
  BY <1>11 DEF Under
<1>20. global_to_stream(index) = FlattenSeq(ss)
  BY <1>9, <1>13 DEF global_to_stream, merge, ReadAll
<1>21. p.missed \subseteq Under(W, n)
  BY <1>2, <1>8 DEF Under
<1> QED BY <1>3, <1>6, <1>18, <1>19, <1>20, <1>21

-----------------------------------------------------------------------------
(* The invariant.  How far a rank is, and from where on it has entered the  *)
(* collective call op.                                                      *)
Stage(at) ==
  CASE at = "start" -> 0
    [] at = "counted" -> 1
    [] at = "split" -> 2
    [] at = "zeros" -> 3
    [] at = "list" -> 4
    [] at = "bitmap" -> 4
    [] at = "read" -> 5
    [] at = "gather" -> 6
    [] at = "global" -> 6
    [] at = "allgather" -> 6
    [] at = "leaders" -> 7
    [] at = "plfs_open" -> 8
    [] at = "result" -> 9
    [] at = "returned" -> 10
    [] at = "dead" -> 10
    [] OTHER -> 10

Leaving(op) ==
  CASE op = "num_host_dir" -> 0
    [] op = "hostdir_comm" -> 1
    [] op = "hostdir_zeros_comm" -> 2
    [] op = "bitmap" -> 3
    [] op = "list" -> 4
    [] op = "part" -> 5
    [] op = "merged" -> 6
    [] op = "global" -> 7
    [] op \in {"err", "opened", "stream"} -> 8
    [] OTHER -> 10

EnteredOnce ==
  /\ \A m \in sent : m.rank \in Ranks /\ Leaving(m.op) < Stage(rank[m.rank].at)
  /\ \A m, n \in sent : m.op = n.op /\ m.rank = n.rank => m = n

(* All ranks have entered the split, with the groups they belong to.        *)
Colored == \A q \in Ranks : Entered("hostdir_comm", "world", q)

NarrowAts == {"split", "zeros", "list", "read", "gather", "global", "leaders"}

WideAts == {"bitmap", "allgather"}

Indexes(A) == [units : SUBSET {d[2] : d \in A}, chunks : Seq(ChunksOf(A))]

States(ats, nums, bitmaps, streams, indexes, errs) ==
  [at : ats, num : nums, bitmap : bitmaps, stream : streams, index : indexes, opened : BOOLEAN, err : errs]

Ats == {"start", "counted", "plfs_open", "result", "returned", "dead"} \cup NarrowAts \cup WideAts

StatesOf(j) ==
  States(Ats, Nat, SUBSET Nat, Seq(ChunksOf(j.container.droppings)), Indexes(j.container.droppings), {0, -1})

(* Where a rank is, and what it then knows.                                 *)
Placed(r) ==
  /\ rank[r].at \in {"counted"} \cup NarrowAts \cup WideAts => job.hint = "paropen"
  /\ rank[r].at \in NarrowAts => Narrow(job) /\ rank[r].num = N(job)
  /\ rank[r].at \in WideAts => ~Narrow(job) /\ rank[r].num = N(job) /\ N(job) > 0
  /\ rank[r].at = "counted" => rank[r].num \in {0, N(job)}
  /\ r = 0 /\ rank[r].at \in {"counted"} \cup NarrowAts \cup WideAts /\ rank[r].num > 0
        => rank[r].bitmap = job.container.hostdirs
  /\ rank[r].at \in NarrowAts \ {"split"} => Colored
  /\ rank[r].at \in {"list", "gather", "leaders"} => r \in LeadersOf(job)

(* What the streams are that members of a communicator make one.            *)
AllIn(op, comm, M) == \A q \in M : Entered(op, comm, q)

OneOf(op, comm, M) == plfs_parindexread_merge(InOrder(op, comm, M))

Gathered(l, s) ==
  /\ Narrow(job) /\ l \in LeadersOf(job)
  /\ AllIn("part", GroupOf(job, l), MembersOf(job, GroupOf(job, l)))
  /\ s = OneOf("part", GroupOf(job, l), MembersOf(job, GroupOf(job, l)))

Whole(s) ==
  CASE job.hint = "paropen" /\ Narrow(job) ->
         AllIn("merged", "zeros", LeadersOf(job)) /\ s = OneOf("merged", "zeros", LeadersOf(job))
    [] job.hint = "paropen" /\ ~Narrow(job) ->
         N(job) > 0 /\ AllIn("part", "world", RanksOf(job)) /\ s = OneOf("part", "world", RanksOf(job))
    [] OTHER -> s = global_to_stream(Populated)

(* What is in the collective calls.                                         *)
Said(m) ==
  /\ m.op = "num_host_dir" => m.data \in {0, N(job)}
  /\ m.op = "hostdir_comm" => m.data = GroupOf(job, m.rank) /\ Narrow(job)
  /\ m.op = "bitmap" => m.data = job.container.hostdirs
  /\ m.op = "list" => m.data \in {listToStream(<<>>),
                           listToStream(hostdir_index_read(DirOf(job, GroupOf(job, m.rank))))}
  /\ m.op = "part" =>
        /\ job.hint = "paropen" /\ N(job) > 0
        /\ Serves(ChunksOf(job.container.droppings), m.data, Share(job, m.rank) \ lost)
  /\ m.op = "merged" => job.hint = "paropen" /\ Gathered(m.rank, m.data)
  /\ m.op = "global" => job.hint = "paropen" /\ Narrow(job) /\ Whole(m.data)
  /\ m.op = "stream" => job.hint = "broadcast" /\ Whole(m.data)
  /\ m.op = "opened" => (m.data = 0 => Entered("stream", "world", 0))
  /\ m.op = "err" => m.data \in {0, -1}

(* A dropping is lost in the share of a rank that has read.                 *)
LostInAPart == \A d \in lost : \E m \in sent : m.op = "part" /\ d \in Share(job, m.rank)

(* Who opens has the whole.                                                 *)
Served(r) ==
  /\ rank[r].at = "plfs_open" => Whole(rank[r].stream)
  /\ rank[r].opened => rank[r].at \in {"result", "returned"} /\ Whole(rank[r].index.chunks)

ParInv ==
  /\ job \in Jobs /\ rank \in [RanksOf(job) -> StatesOf(job)]
  /\ EnteredOnce /\ LostInAPart
  /\ \A r \in RanksOf(job) : Placed(r) /\ Served(r)
  /\ \A m \in sent : Said(m)

-----------------------------------------------------------------------------
(* What a rank has, and how it changes as it goes on.                       *)
LEMMA StateIs ==
  ASSUME NEW j, NEW s \in StatesOf(j)
  PROVE  /\ s = [at |-> s.at, num |-> s.num, bitmap |-> s.bitmap, stream |-> s.stream,
                 index |-> s.index, opened |-> s.opened, err |-> s.err]
         /\ s.at \in Ats /\ s.num \in Nat /\ s.bitmap \in SUBSET Nat
         /\ s.stream \in Seq(ChunksOf(j.container.droppings))
         /\ s.index \in Indexes(j.container.droppings) /\ s.opened \in BOOLEAN /\ s.err \in {0, -1}
<1>1. PICK A, B, C, D, E, F : /\ A = Ats /\ B = Nat /\ C = SUBSET Nat
                              /\ D = Seq(ChunksOf(j.container.droppings))
                              /\ E = Indexes(j.container.droppings) /\ F = {0, -1}
  OBVIOUS
<1>2. s \in States(A, B, C, D, E, F)
  BY <1>1 DEF StatesOf
<1>3. /\ s = [at |-> s.at, num |-> s.num, bitmap |-> s.bitmap, stream |-> s.stream,
              index |-> s.index, opened |-> s.opened, err |-> s.err]
      /\ s.at \in A /\ s.num \in B /\ s.bitmap \in C /\ s.stream \in D
      /\ s.index \in E /\ s.opened \in BOOLEAN /\ s.err \in F
  BY <1>2 DEF States
<1> QED BY <1>1, <1>3

LEMMA StateMade ==
  ASSUME NEW j, NEW t,
         t = [at |-> t.at, num |-> t.num, bitmap |-> t.bitmap, stream |-> t.stream,
              index |-> t.index, opened |-> t.opened, err |-> t.err],
         t.at \in Ats, t.num \in Nat, t.bitmap \in SUBSET Nat,
         t.stream \in Seq(ChunksOf(j.container.droppings)),
         t.index \in Indexes(j.container.droppings), t.opened \in BOOLEAN, t.err \in {0, -1}
  PROVE  t \in StatesOf(j)
<1>1. PICK A, B, C, D, E, F : /\ A = Ats /\ B = Nat /\ C = SUBSET Nat
                              /\ D = Seq(ChunksOf(j.container.droppings))
                              /\ E = Indexes(j.container.droppings) /\ F = {0, -1}
  OBVIOUS
<1>2. t \in States(A, B, C, D, E, F)
  BY <1>1 DEF States
<1> QED BY <1>1, <1>2 DEF StatesOf

(* r's state is t, the others' are as they were.                            *)
Kept(R, S, j, r, t) ==
  /\ S \in [RanksOf(j) -> StatesOf(j)] /\ S[r] = t /\ \A q \in RanksOf(j) : q # r => S[q] = R[q]

LEMMA Moved ==
  ASSUME NEW j, NEW R \in [RanksOf(j) -> StatesOf(j)], NEW r \in RanksOf(j), NEW t \in StatesOf(j)
  PROVE  Kept(R, [R EXCEPT ![r] = t], j, r, t)
<1>1. PICK T, D : T = StatesOf(j) /\ D = RanksOf(j)
  OBVIOUS
<1>2. PICK S : S = [R EXCEPT ![r] = t]
  OBVIOUS
<1>3. S \in [D -> T] /\ S[r] = t /\ \A q \in D : q # r => S[q] = R[q]
  BY <1>1, <1>2
<1> QED BY <1>1, <1>2, <1>3 DEF Kept

(* The changes of more than one field.                                      *)
Counting(s, b, n, a) == [s EXCEPT !.bitmap = b, !.num = n, !.at = a]

Receiving(s, n, a) == [s EXCEPT !.num = n, !.at = a]

Streaming(s, c, a) == [s EXCEPT !.stream = c, !.at = a]

Returning(s, e, a) == [s EXCEPT !.err = e, !.at = a]

Outcome(s, i, o, e, a) == [s EXCEPT !.index = i, !.opened = o, !.err = e, !.at = a]

SameIndex(s, t) == s.index = t.index /\ s.opened = t.opened /\ s.err = t.err

LEMMA StateAt ==
  ASSUME NEW j, NEW s \in StatesOf(j), NEW a \in Ats, NEW t, t = [s EXCEPT !.at = a]
  PROVE  /\ t \in StatesOf(j) /\ t.at = a /\ t.num = s.num /\ t.bitmap = s.bitmap
         /\ t.stream = s.stream /\ SameIndex(t, s)
<1>1. t = [at |-> a, num |-> s.num, bitmap |-> s.bitmap, stream |-> s.stream,
           index |-> s.index, opened |-> s.opened, err |-> s.err]
  BY StateIs
<1>2. t \in StatesOf(j)
  BY <1>1, StateIs, StateMade
<1> QED BY <1>1, <1>2 DEF SameIndex

LEMMA StateCounted ==
  ASSUME NEW j, NEW s \in StatesOf(j), NEW b \in SUBSET Nat, NEW n \in Nat, NEW a \in Ats,
         NEW t, t = Counting(s, b, n, a)
  PROVE  /\ t \in StatesOf(j) /\ t.at = a /\ t.num = n /\ t.bitmap = b
         /\ t.stream = s.stream /\ SameIndex(t, s)
<1>1. PICK u : u = [s EXCEPT !.bitmap = b]
  OBVIOUS
<1>2. u = [at |-> s.at, num |-> s.num, bitmap |-> b, stream |-> s.stream,
           index |-> s.index, opened |-> s.opened, err |-> s.err]
  BY <1>1, StateIs
<1>3. PICK v : v = [u EXCEPT !.num = n]
  OBVIOUS
<1>4. v = [at |-> s.at, num |-> n, bitmap |-> b, stream |-> s.stream,
           index |-> s.index, opened |-> s.opened, err |-> s.err]
  BY <1>2, <1>3
<1>5. t = [v EXCEPT !.at = a]
  BY <1>1, <1>3 DEF Counting
<1>6. t = [at |-> a, num |-> n, bitmap |-> b, stream |-> s.stream,
           index |-> s.index, opened |-> s.opened, err |-> s.err]
  BY <1>4, <1>5
<1>7. t \in StatesOf(j)
  BY <1>6, StateIs, StateMade
<1> QED BY <1>6, <1>7 DEF SameIndex

LEMMA StateReceived ==
  ASSUME NEW j, NEW s \in StatesOf(j), NEW n \in Nat, NEW a \in Ats,
         NEW t, t = Receiving(s, n, a)
  PROVE  /\ t \in StatesOf(j) /\ t.at = a /\ t.num = n /\ t.bitmap = s.bitmap
         /\ t.stream = s.stream /\ SameIndex(t, s)
<1>1. PICK v : v = [s EXCEPT !.num = n]
  OBVIOUS
<1>2. v = [at |-> s.at, num |-> n, bitmap |-> s.bitmap, stream |-> s.stream,
           index |-> s.index, opened |-> s.opened, err |-> s.err]
  BY <1>1, StateIs
<1>3. t = [v EXCEPT !.at = a]
  BY <1>1 DEF Receiving
<1>4. t = [at |-> a, num |-> n, bitmap |-> s.bitmap, stream |-> s.stream,
           index |-> s.index, opened |-> s.opened, err |-> s.err]
  BY <1>2, <1>3
<1>5. t \in StatesOf(j)
  BY <1>4, StateIs, StateMade
<1> QED BY <1>4, <1>5 DEF SameIndex

LEMMA StateStreamed ==
  ASSUME NEW j, NEW s \in StatesOf(j), NEW c \in Seq(ChunksOf(j.container.droppings)), NEW a \in Ats,
         NEW t, t = Streaming(s, c, a)
  PROVE  /\ t \in StatesOf(j) /\ t.at = a /\ t.num = s.num /\ t.bitmap = s.bitmap
         /\ t.stream = c /\ SameIndex(t, s)
<1>1. PICK v : v = [s EXCEPT !.stream = c]
  OBVIOUS
<1>2. v = [at |-> s.at, num |-> s.num, bitmap |-> s.bitmap, stream |-> c,
           index |-> s.index, opened |-> s.opened, err |-> s.err]
  BY <1>1, StateIs
<1>3. t = [v EXCEPT !.at = a]
  BY <1>1 DEF Streaming
<1>4. t = [at |-> a, num |-> s.num, bitmap |-> s.bitmap, stream |-> c,
           index |-> s.index, opened |-> s.opened, err |-> s.err]
  BY <1>2, <1>3
<1>5. t \in StatesOf(j)
  BY <1>4, StateIs, StateMade
<1> QED BY <1>4, <1>5 DEF SameIndex

LEMMA StateReturned ==
  ASSUME NEW j, NEW s \in StatesOf(j), NEW e \in {0, -1}, NEW a \in Ats,
         NEW t, t = Returning(s, e, a)
  PROVE  /\ t \in StatesOf(j) /\ t.at = a /\ t.num = s.num /\ t.bitmap = s.bitmap
         /\ t.stream = s.stream /\ t.index = s.index /\ t.opened = s.opened
<1>1. PICK v : v = [s EXCEPT !.err = e]
  OBVIOUS
<1>2. v = [at |-> s.at, num |-> s.num, bitmap |-> s.bitmap, stream |-> s.stream,
           index |-> s.index, opened |-> s.opened, err |-> e]
  BY <1>1, StateIs
<1>3. t = [v EXCEPT !.at = a]
  BY <1>1 DEF Returning
<1>4. t = [at |-> a, num |-> s.num, bitmap |-> s.bitmap, stream |-> s.stream,
           index |-> s.index, opened |-> s.opened, err |-> e]
  BY <1>2, <1>3
<1>5. /\ t = [at |-> t.at, num |-> t.num, bitmap |-> t.bitmap, stream |-> t.stream,
             index |-> t.index, opened |-> t.opened, err |-> t.err]
      /\ t.at \in Ats /\ t.num \in Nat /\ t.bitmap \in SUBSET Nat
      /\ t.stream \in Seq(ChunksOf(j.container.droppings))
      /\ t.index \in Indexes(j.container.droppings) /\ t.opened \in BOOLEAN /\ t.err = e
  BY <1>4, StateIs
<1>6. t \in StatesOf(j)
  BY <1>5, StateMade
<1> QED BY <1>4, <1>6

LEMMA StateOpened ==
  ASSUME NEW j, NEW s \in StatesOf(j), NEW i \in Indexes(j.container.droppings), NEW o \in BOOLEAN,
         NEW e \in {0, -1}, NEW a \in Ats,
         NEW t, t = Outcome(s, i, o, e, a)
  PROVE  /\ t \in StatesOf(j) /\ t.at = a /\ t.num = s.num /\ t.bitmap = s.bitmap
         /\ t.stream = s.stream /\ t.index = i /\ t.opened = o
<1>1. PICK u : u = [s EXCEPT !.index = i]
  OBVIOUS
<1>2. u = [at |-> s.at, num |-> s.num, bitmap |-> s.bitmap, stream |-> s.stream,
           index |-> i, opened |-> s.opened, err |-> s.err]
  BY <1>1, StateIs
<1>3. PICK v : v = [u EXCEPT !.opened = o]
  OBVIOUS
<1>4. v = [at |-> s.at, num |-> s.num, bitmap |-> s.bitmap, stream |-> s.stream,
           index |-> i, opened |-> o, err |-> s.err]
  BY <1>2, <1>3
<1>5. PICK w : w = [v EXCEPT !.err = e]
  OBVIOUS
<1>6. w = [at |-> s.at, num |-> s.num, bitmap |-> s.bitmap, stream |-> s.stream,
           index |-> i, opened |-> o, err |-> e]
  BY <1>4, <1>5
<1>7. t = [w EXCEPT !.at = a]
  BY <1>1, <1>3, <1>5 DEF Outcome
<1>8. t = [at |-> a, num |-> s.num, bitmap |-> s.bitmap, stream |-> s.stream,
           index |-> i, opened |-> o, err |-> e]
  BY <1>6, <1>7
<1>9. /\ t = [at |-> t.at, num |-> t.num, bitmap |-> t.bitmap, stream |-> t.stream,
             index |-> t.index, opened |-> t.opened, err |-> t.err]
      /\ t.at = a /\ t.num = s.num /\ t.bitmap = s.bitmap /\ t.stream = s.stream
      /\ t.index = i /\ t.opened = o /\ t.err = e
  BY <1>8
<1>10. /\ t.at \in Ats /\ t.num \in Nat /\ t.bitmap \in SUBSET Nat
       /\ t.stream \in Seq(ChunksOf(j.container.droppings))
  BY <1>9, StateIs
<1>11. t \in StatesOf(j)
  <2> HIDE <1>8
  <2> QED BY <1>9, <1>10, StateMade
<1> QED BY <1>8, <1>11

-----------------------------------------------------------------------------
(* Collective calls: what was entered stays entered.                        *)
LEMMA StagesAre ==
  /\ \A at : Stage(at) \in 0..10
  /\ \A op : Leaving(op) \in 0..10
<1>1. \A at : Stage(at) \in 0..10
  BY DEF Stage
<1>2. \A op : Leaving(op) \in 0..10
  BY DEF Leaving
<1> QED BY <1>1, <1>2

LEMMA DataIs ==
  ASSUME EnteredOnce, NEW m \in sent
  PROVE  DataOf(m.op, m.comm, m.rank) = m.data
<1>1. \A n \in sent : n.op = m.op /\ n.comm = m.comm /\ n.rank = m.rank => n = m
  BY DEF EnteredOnce
<1>2. (CHOOSE n \in sent : n.op = m.op /\ n.comm = m.comm /\ n.rank = m.rank) = m
  BY <1>1
<1> QED BY <1>2 DEF DataOf

LEMMA DataIsNext ==
  ASSUME EnteredOnce', NEW m \in sent'
  PROVE  DataOf(m.op, m.comm, m.rank)' = m.data
<1>1. \A n \in sent' : n.op = m.op /\ n.comm = m.comm /\ n.rank = m.rank => n = m
  BY DEF EnteredOnce
<1>2. (CHOOSE n \in sent' : n.op = m.op /\ n.comm = m.comm /\ n.rank = m.rank) = m
  BY <1>1
<1> QED BY <1>2 DEF DataOf

LEMMA DataKept ==
  ASSUME EnteredOnce, EnteredOnce', sent \subseteq sent', NEW op, NEW comm, NEW q, Entered(op, comm, q)
  PROVE  Entered(op, comm, q)' /\ DataOf(op, comm, q)' = DataOf(op, comm, q)
<1>1. PICK m \in sent : m.op = op /\ m.comm = comm /\ m.rank = q
  BY DEF Entered
<1>2. m \in sent'
  BY <1>1
<1>3. Entered(op, comm, q)'
  BY <1>1, <1>2 DEF Entered
<1>4. DataOf(m.op, m.comm, m.rank) = m.data
  BY DataIs
<1>5. DataOf(m.op, m.comm, m.rank)' = m.data
  BY <1>2, DataIsNext
<1> QED BY <1>1, <1>3, <1>4, <1>5

LEMMA OneOfKept ==
  ASSUME EnteredOnce, EnteredOnce', sent \subseteq sent', NEW op, NEW comm, NEW M \in SUBSET Nat,
         IsFiniteSet(M), AllIn(op, comm, M)
  PROVE  AllIn(op, comm, M)' /\ OneOf(op, comm, M)' = OneOf(op, comm, M)
<1>1. \A q \in M : Entered(op, comm, q)' /\ DataOf(op, comm, q)' = DataOf(op, comm, q)
  BY DataKept DEF AllIn
<1>2. AllIn(op, comm, M)'
  BY <1>1 DEF AllIn
<1>3. \A i \in 1..Cardinality(M) : Nth(M, i) \in M
  BY Numbers
<1>4. PICK s, t : s = InOrder(op, comm, M) /\ t = InOrder(op, comm, M)'
  OBVIOUS
<1>5. s = [i \in 1..Cardinality(M) |-> DataOf(op, comm, Nth(M, i))]
  BY <1>4 DEF InOrder
<1>6. t = [i \in 1..Cardinality(M) |-> DataOf(op, comm, Nth(M, i))']
  BY <1>4 DEF InOrder
<1>7. s = t
  BY <1>1, <1>3, <1>5, <1>6
<1>8. OneOf(op, comm, M) = plfs_parindexread_merge(s)
  BY <1>4 DEF OneOf
<1>9. OneOf(op, comm, M)' = plfs_parindexread_merge(t)
  BY <1>4 DEF OneOf
<1> QED BY <1>2, <1>7, <1>8, <1>9

(* A step of rank r, which enters new and misses some of its droppings.     *)
Keeps(r, t, new, missed) ==
  /\ job' = job /\ Kept(rank, rank', job, r, t)
  /\ Stage(rank[r].at) < Stage(t.at)
  /\ sent' = sent \cup new
  /\ \A m \in new : /\ m.rank = r
                    /\ Stage(rank[r].at) <= Leaving(m.op) /\ Leaving(m.op) < Stage(t.at)
  /\ \A m, n \in new : m.op = n.op => m = n
  /\ lost' = lost \cup missed /\ missed \subseteq Share(job, r)
  /\ missed # {} => \E m \in new : m.op = "part"

LEMMA StillOnce ==
  ASSUME ParInv, NEW r \in RanksOf(job), NEW t, NEW new, NEW missed, Keeps(r, t, new, missed)
  PROVE  EnteredOnce' /\ sent \subseteq sent'
<1>1. /\ \A m \in sent : m.rank \in RanksOf(job) /\ Leaving(m.op) < Stage(rank[m.rank].at)
      /\ \A m, n \in sent : m.op = n.op /\ m.rank = n.rank => m = n
  BY DEF ParInv, EnteredOnce, Ranks, RanksOf
<1>2. /\ job' = job /\ rank'[r] = t /\ \A q \in RanksOf(job) : q # r => rank'[q] = rank[q]
      /\ Stage(rank[r].at) < Stage(t.at) /\ sent' = sent \cup new
  BY DEF Keeps, Kept
<1>3. \A m \in new : /\ m.rank = r
                     /\ Stage(rank[r].at) <= Leaving(m.op) /\ Leaving(m.op) < Stage(t.at)
  BY DEF Keeps
<1>4. ASSUME NEW m \in sent'
      PROVE  m.rank \in RanksOf(job) /\ Leaving(m.op) < Stage(rank'[m.rank].at)
  <2>1. CASE m \in new
    BY <1>2, <1>3, <2>1
  <2>2. CASE m \in sent /\ m.rank = r
    <3>1. Leaving(m.op) < Stage(rank[r].at)
      BY <1>1, <2>2
    <3> QED BY <1>2, <2>2, <3>1, StagesAre
  <2>3. CASE m \in sent /\ m.rank # r
    BY <1>1, <1>2, <2>3
  <2> QED BY <1>2, <2>1, <2>2, <2>3
<1>5. ASSUME NEW m \in sent', NEW n \in sent', m.op = n.op, m.rank = n.rank
      PROVE  m = n
  <2>1. ASSUME NEW x \in sent, NEW y \in new, x.op = y.op, x.rank = y.rank PROVE FALSE
    <3>1. Leaving(x.op) < Stage(rank[r].at) /\ Stage(rank[r].at) <= Leaving(x.op)
      BY <1>1, <1>3, <2>1
    <3> QED BY <3>1, StagesAre
  <2>2. CASE m \in sent /\ n \in sent
    BY <1>1, <1>5, <2>2
  <2>3. CASE m \in new /\ n \in new
    BY <1>5, <2>3 DEF Keeps
  <2> QED BY <1>2, <1>5, <2>1, <2>2, <2>3
<1>6. sent \subseteq sent'
  BY <1>2
<1>7. Ranks' = RanksOf(job)
  BY <1>2 DEF Ranks, RanksOf
<1> QED BY <1>4, <1>5, <1>6, <1>7 DEF EnteredOnce

LEMMA StreamsKept ==
  ASSUME ParInv, EnteredOnce', sent \subseteq sent', job' = job
  PROVE  /\ \A s : Whole(s) => Whole(s)'
         /\ \A l, s : Gathered(l, s) => Gathered(l, s)'
         /\ Colored => Colored'
<1>1. job \in Jobs /\ EnteredOnce
  BY DEF ParInv
<1>2. RanksOf(job) \in SUBSET Nat /\ IsFiniteSet(RanksOf(job))
  <2>1. job.np \in Nat
    BY <1>1, JobParts
  <2> QED BY <2>1, FS_Interval DEF RanksOf
<1>3. ASSUME NEW s, Whole(s) PROVE Whole(s)'
  <2>1. CASE job.hint = "paropen" /\ Narrow(job)
    <3>1. AllIn("merged", "zeros", LeadersOf(job)) /\ s = OneOf("merged", "zeros", LeadersOf(job))
      BY <1>3, <2>1 DEF Whole
    <3>2. PICK M : M = LeadersOf(job)
      OBVIOUS
    <3>3. M \in SUBSET Nat /\ IsFiniteSet(M)
      BY <1>1, <2>1, <3>2, LeadersAre
    <3>4. AllIn("merged", "zeros", M)' /\ s = OneOf("merged", "zeros", M)'
      BY <1>1, <3>1, <3>2, <3>3, OneOfKept
    <3>5. LeadersOf(job)' = M /\ (job.hint = "paropen" /\ Narrow(job))'
      BY <2>1, <3>2
    <3> QED BY <3>4, <3>5 DEF Whole
  <2>2. CASE job.hint = "paropen" /\ ~Narrow(job)
    <3>1. N(job) > 0 /\ AllIn("part", "world", RanksOf(job)) /\ s = OneOf("part", "world", RanksOf(job))
      BY <1>3, <2>2 DEF Whole
    <3>2. PICK M : M = RanksOf(job)
      OBVIOUS
    <3>3. AllIn("part", "world", M)' /\ s = OneOf("part", "world", M)'
      BY <1>1, <1>2, <3>1, <3>2, OneOfKept
    <3>4. RanksOf(job)' = M /\ (job.hint = "paropen" /\ ~Narrow(job) /\ N(job) > 0)'
      BY <2>2, <3>1, <3>2
    <3> QED BY <3>3, <3>4 DEF Whole
  <2>3. CASE job.hint # "paropen"
    <3>1. s = global_to_stream(Populated)
      BY <1>3, <2>3 DEF Whole
    <3>2. Populated' = Populated
      BY DEF Populated, indexTaskManager
    <3>3. s = global_to_stream(Populated)' /\ (job.hint # "paropen")'
      BY <2>3, <3>1, <3>2 DEF global_to_stream
    <3> QED BY <3>3 DEF Whole
  <2> QED BY <2>1, <2>2, <2>3
<1>4. ASSUME NEW l, NEW s, Gathered(l, s) PROVE Gathered(l, s)'
  <2>1. PICK c, M : c = GroupOf(job, l) /\ M = MembersOf(job, c)
    OBVIOUS
  <2>2. Narrow(job) /\ l \in LeadersOf(job) /\ AllIn("part", c, M) /\ s = OneOf("part", c, M)
    BY <1>4, <2>1 DEF Gathered
  <2>3. M \in SUBSET Nat /\ IsFiniteSet(M)
    BY <1>1, <2>1, MembersAre
  <2>4. AllIn("part", c, M)' /\ s = OneOf("part", c, M)'
    BY <1>1, <2>2, <2>3, OneOfKept
  <2>5. c = GroupOf(job, l)' /\ M = MembersOf(job, c)' /\ Narrow(job)' /\ (l \in LeadersOf(job))'
    BY <2>1, <2>2
  <2> QED BY <2>4, <2>5 DEF Gathered
<1>5. ASSUME Colored PROVE Colored'
  <2>1. Ranks' = Ranks
    BY DEF Ranks
  <2>2. \A q \in Ranks : Entered("hostdir_comm", "world", q)'
    BY <1>1, <1>5, DataKept DEF Colored
  <2> QED BY <2>1, <2>2 DEF Colored
<1> QED BY <1>3, <1>4, <1>5

LEMMA SaidKept ==
  ASSUME ParInv, EnteredOnce', sent \subseteq sent', job' = job, NEW m \in sent,
         m.op = "part" /\ N(job) > 0 => Share(job, m.rank) \ lost = Share(job, m.rank) \ lost'
  PROVE  Said(m)'
<1>1. EnteredOnce' /\ sent \subseteq sent' /\ job' = job
  OBVIOUS
<1>2. /\ \A s : Whole(s) => Whole(s)'
      /\ \A l, s : Gathered(l, s) => Gathered(l, s)'
  BY <1>1, StreamsKept
<1>3. Said(m) /\ job \in Jobs /\ m.rank \in RanksOf(job)
  BY DEF ParInv, EnteredOnce, Ranks, RanksOf
<1>4. \A dir : hostdir_index_read(dir)' = hostdir_index_read(dir)
  BY <1>1 DEF hostdir_index_read
<1>5. /\ m.op = "num_host_dir" => m.data \in {0, N(job)'}
      /\ m.op = "hostdir_comm" => m.data = GroupOf(job, m.rank)' /\ Narrow(job)'
      /\ m.op = "bitmap" => m.data = job'.container.hostdirs
  BY <1>1, <1>3 DEF Said
<1>6. ASSUME m.op = "list"
      PROVE  m.data \in {listToStream(<<>>),
                         listToStream(hostdir_index_read(DirOf(job, GroupOf(job, m.rank))))'}
  <2>1. PICK dir : dir = DirOf(job, GroupOf(job, m.rank))
    OBVIOUS
  <2>2. m.data \in {listToStream(<<>>), listToStream(hostdir_index_read(dir))}
    BY <1>3, <1>6, <2>1 DEF Said
  <2>3. listToStream(hostdir_index_read(dir))' = listToStream(hostdir_index_read(dir))
    BY <1>4 DEF listToStream
  <2>4. dir = DirOf(job, GroupOf(job, m.rank))'
    BY <1>1, <2>1
  <2> QED BY <2>2, <2>3, <2>4
<1>7. ASSUME m.op = "part"
      PROVE  /\ (job.hint = "paropen" /\ N(job) > 0)'
             /\ Serves(ChunksOf(job.container.droppings), m.data, Share(job, m.rank) \ lost)'
  <2>1. /\ job.hint = "paropen" /\ N(job) > 0
        /\ Serves(ChunksOf(job.container.droppings), m.data, Share(job, m.rank) \ lost)
    BY <1>3, <1>7 DEF Said
  <2>2. PICK C, D : C = ChunksOf(job.container.droppings) /\ D = Share(job, m.rank) \ lost
    OBVIOUS
  <2>3. C = ChunksOf(job.container.droppings)' /\ D = (Share(job, m.rank) \ lost)'
    BY <1>1, <1>7, <2>1, <2>2
  <2>4. Serves(C, m.data, D)
    BY <2>1, <2>2
  <2>5. (job.hint = "paropen" /\ N(job) > 0)'
    BY <1>1, <2>1
  <2> QED BY <2>3, <2>4, <2>5
<1>8. /\ m.op = "merged" => (job.hint = "paropen" /\ Gathered(m.rank, m.data))'
      /\ m.op = "global" => (job.hint = "paropen" /\ Narrow(job) /\ Whole(m.data))'
      /\ m.op = "stream" => (job.hint = "broadcast" /\ Whole(m.data))'
  BY <1>1, <1>2, <1>3 DEF Said
<1>9. /\ m.op = "opened" => (m.data = 0 => Entered("stream", "world", 0))'
      /\ m.op = "err" => m.data \in {0, -1}
  BY <1>1, <1>3, DataKept DEF Said, ParInv
<1> QED BY <1>5, <1>6, <1>7, <1>8, <1>9 DEF Said

LEMMA StillSaid ==
  ASSUME ParInv, NEW r \in RanksOf(job), NEW t, NEW new, NEW missed, Keeps(r, t, new, missed),
         NEW m \in sent
  PROVE  Said(m)'
<1>1. EnteredOnce' /\ sent \subseteq sent' /\ job' = job
  BY StillOnce DEF Keeps
<1>2. ASSUME m.op = "part", N(job) > 0
      PROVE  Share(job, m.rank) \ lost = Share(job, m.rank) \ lost'
  <2>1. lost' = lost \cup missed /\ missed \subseteq Share(job, r)
    BY DEF Keeps
  <2>2. CASE missed = {}
    BY <2>1, <2>2
  <2>3. CASE missed # {}
    <3>1. PICK n \in new : n.op = "part"
      BY <2>3 DEF Keeps
    <3>2. n.rank = r /\ n \in sent' /\ Stage(rank[r].at) <= Leaving(n.op)
      BY <3>1 DEF Keeps
    <3>3. m.rank \in RanksOf(job) /\ Leaving(m.op) < Stage(rank[m.rank].at) /\ job \in Jobs
      BY DEF ParInv, EnteredOnce, Ranks, RanksOf
    <3>4. m.rank # r
      BY <1>2, <3>1, <3>2, <3>3, StagesAre
    <3>5. Share(job, m.rank) \cap Share(job, r) = {}
      BY <1>2, <3>3, <3>4, Shares
    <3> QED BY <2>1, <3>5
  <2> QED BY <2>2, <2>3
<1> QED BY <1>1, <1>2, SaidKept

(* What a step of r need not show, but for r itself and for what it enters. *)
LEMMA Preserved ==
  ASSUME ParInv, NEW r \in RanksOf(job), NEW t, NEW new, NEW missed, Keeps(r, t, new, missed),
         Placed(r)', Served(r)', \A m \in new : Said(m)'
  PROVE  ParInv'
<1>1. EnteredOnce' /\ sent \subseteq sent' /\ job' = job
  BY StillOnce DEF Keeps
<1>2. (\A s : Whole(s) => Whole(s)') /\ (Colored => Colored')
  BY <1>1, StreamsKept
<1>3. job \in Jobs /\ rank' \in [RanksOf(job) -> StatesOf(job)]
  BY DEF ParInv, Keeps, Kept
<1>4. LostInAPart'
  <2>1. ASSUME NEW d \in lost' PROVE \E m \in sent' : m.op = "part" /\ d \in Share(job, m.rank)
    <3>1. CASE d \in lost
      BY <1>1, <3>1 DEF ParInv, LostInAPart
    <3>2. CASE d \in missed
      BY <3>2 DEF Keeps
    <3> QED BY <2>1, <3>1, <3>2 DEF Keeps
  <2> QED BY <1>1, <2>1 DEF LostInAPart
<1>5. ASSUME NEW q \in RanksOf(job), q # r PROVE Placed(q)' /\ Served(q)'
  <2>1. rank'[q] = rank[q]
    BY <1>5 DEF Keeps, Kept
  <2>2. Placed(q) /\ Served(q)
    BY DEF ParInv
  <2>3. Placed(q)'
    BY <1>1, <1>2, <2>1, <2>2 DEF Placed
  <2>4. Served(q)'
    BY <1>1, <1>2, <2>1, <2>2 DEF Served
  <2> QED BY <2>3, <2>4
<1>6. \A q \in RanksOf(job)' : Placed(q)' /\ Served(q)'
  BY <1>1, <1>5
<1>7. \A m \in sent' : Said(m)'
  BY StillSaid DEF Keeps
<1>8. (job \in Jobs /\ rank \in [RanksOf(job) -> StatesOf(job)])'
  BY <1>1, <1>3
<1> QED BY <1>1, <1>4, <1>6, <1>7, <1>8 DEF ParInv

-----------------------------------------------------------------------------
(* The shares taken together.                                               *)
LEMMA RanksAre ==
  ASSUME NEW j \in Jobs
  PROVE  /\ RanksOf(j) \in SUBSET Nat /\ IsFiniteSet(RanksOf(j)) /\ RanksOf(j) # {} /\ 0 \in RanksOf(j)
         /\ Cardinality(RanksOf(j)) \in Nat \ {0}
<1>1. PICK p \in Nat \ {0} : p = j.np
  BY JobParts
<1>2. RanksOf(j) \in SUBSET Nat /\ IsFiniteSet(RanksOf(j)) /\ 0 \in RanksOf(j)
  <2>1. RanksOf(j) = 0..(p - 1)
    BY <1>1 DEF RanksOf
  <2>2. 0..(p - 1) \in SUBSET Nat /\ 0 \in 0..(p - 1)
    OBVIOUS
  <2>3. IsFiniteSet(0..(p - 1))
    BY FS_Interval
  <2> QED BY <2>1, <2>2, <2>3
<1>3. Cardinality(RanksOf(j)) \in Nat /\ Cardinality(RanksOf(j)) # 0
  BY <1>2, FS_CardinalityType, FS_EmptySet
<1> QED BY <1>2, <1>3

(* Streaming of ranks M, each of which serves what it holds, made one.        *)
Together(A, M) == UNION {A[q] : q \in M}

LEMMA OneOfServes ==
  ASSUME EnteredOnce, NEW op, NEW comm, NEW M \in SUBSET Nat, IsFiniteSet(M), M # {}, AllIn(op, comm, M),
         NEW C, NEW A,
         \A m \in sent : m.op = op /\ m.rank \in M => Serves(C, m.data, A[m.rank]),
         \A q, p \in M : q # p => A[q] \cap A[p] = {}
  PROVE  Serves(C, OneOf(op, comm, M), Together(A, M))
<1>1. PICK n \in Nat \ {0} : n = Cardinality(M)
  BY FS_CardinalityType, FS_EmptySet
<1>2. /\ \A i \in 1..n : Nth(M, i) \in M
      /\ \A i, k \in 1..n : Nth(M, i) = Nth(M, k) => i = k
      /\ \A q \in M : \E i \in 1..n : Nth(M, i) = q
  BY <1>1, Numbers
<1>3. ASSUME NEW q \in M PROVE Serves(C, DataOf(op, comm, q), A[q])
  <2>1. PICK m \in sent : m.op = op /\ m.comm = comm /\ m.rank = q
    BY DEF AllIn, Entered
  <2>2. DataOf(op, comm, q) = m.data
    BY <2>1, DataIs
  <2> QED BY <2>1, <2>2
<1>4. PICK streams : streams = InOrder(op, comm, M)
  OBVIOUS
<1>5. DOMAIN streams = 1..n /\ \A i \in 1..n : streams[i] = DataOf(op, comm, Nth(M, i))
  BY <1>1, <1>4 DEF InOrder
<1>6. PICK B : B = [i \in 1..n |-> A[Nth(M, i)]]
  OBVIOUS
<1>7. ASSUME NEW i \in 1..n PROVE B[i] = A[Nth(M, i)] /\ Serves(C, streams[i], B[i])
  <2>1. PICK q \in M : q = Nth(M, i)
    BY <1>2
  <2>2. B[i] = A[q] /\ streams[i] = DataOf(op, comm, q)
    BY <1>5, <1>6, <2>1
  <2>3. Serves(C, DataOf(op, comm, q), A[q])
    BY <1>3
  <2> QED BY <2>1, <2>2, <2>3
<1>8. ASSUME NEW i \in 1..n, NEW k \in 1..n, i # k PROVE B[i] \cap B[k] = {}
  <2>1. PICK q \in M, l \in M : q = Nth(M, i) /\ l = Nth(M, k)
    BY <1>2
  <2>2. q # l
    BY <1>2, <1>8, <2>1
  <2>3. B[i] = A[q] /\ B[k] = A[l]
    BY <1>7, <2>1
  <2> QED BY <2>2, <2>3
<1>9. Serves(C, plfs_parindexread_merge(streams), Under(B, n))
  BY <1>5, <1>7, <1>8, MergeServes
<1>10. Under(B, n) = Together(A, M)
  <2>1. \A x : x \in Under(B, n) <=> \E i \in 1..n : x \in A[Nth(M, i)]
    BY <1>7 DEF Under
  <2>2. \A x : x \in Together(A, M) <=> \E q \in M : x \in A[q]
    BY DEF Together
  <2>3. \A x : (\E i \in 1..n : x \in A[Nth(M, i)]) <=> (\E q \in M : x \in A[q])
    BY <1>2
  <2> QED BY <2>1, <2>2, <2>3
<1> QED BY <1>4, <1>9, <1>10 DEF OneOf

LEMMA PopulatedServes ==
  ASSUME job \in Jobs
  PROVE  /\ Serves(ChunksOf(job.container.droppings), global_to_stream(Populated), job.container.droppings)
         /\ Populated \in Indexes(job.container.droppings)
<1>1. PICK D : D = job.container.droppings
  OBVIOUS
<1>2. IsFiniteSet(D)
  BY <1>1, JobParts
<1>3. Lists(SetToSeq(D), D)
  BY <1>2, ListOf
<1>4. PICK s : s = SetToSeq(D)
  OBVIOUS
<1>5. Populated = indexTaskManager(s)
  BY <1>1, <1>4 DEF Populated
<1>6. Serves(ChunksOf(D), indexTaskManager(s).chunks, D)
  BY <1>3, <1>4, TaskManager
<1>7. indexTaskManager(s).units \in SUBSET {d[2] : d \in D}
  <2>1. DOMAIN s = 1..Len(s) /\ \A i \in 1..Len(s) : s[i] \in D
    BY <1>3, <1>4, LenProperties, ElementOfSeq DEF Lists
  <2>2. \A d \in ToSet(s) : d \in D
    BY <2>1 DEF ToSet
  <2>3. indexTaskManager(s).units = {d[2] : d \in ToSet(s)}
    BY DEF indexTaskManager
  <2> QED BY <2>2, <2>3
<1>8. indexTaskManager(s).chunks \in Seq(ChunksOf(D))
  BY <1>6 DEF Serves
<1>9. indexTaskManager(s) \in Indexes(D)
  <2>1. PICK u, c : u = indexTaskManager(s).units /\ c = indexTaskManager(s).chunks
    OBVIOUS
  <2>2. indexTaskManager(s) = [units |-> u, chunks |-> c]
    BY <2>1 DEF indexTaskManager
  <2> QED BY <1>7, <1>8, <2>1, <2>2 DEF Indexes
<1> QED BY <1>1, <1>5, <1>6, <1>9 DEF global_to_stream

LEMMA GatheredServes ==
  ASSUME ParInv, NEW l, NEW s, Gathered(l, s)
  PROVE  Serves(ChunksOf(job.container.droppings), s, In(job, DirOf(job, GroupOf(job, l))) \ lost)
<1>1. EnteredOnce /\ job \in Jobs /\ \A m \in sent : Said(m)
  BY DEF ParInv
<1>2. PICK c, M : c = GroupOf(job, l) /\ M = MembersOf(job, c)
  OBVIOUS
<1>3. Narrow(job) /\ l \in LeadersOf(job) /\ AllIn("part", c, M) /\ s = OneOf("part", c, M)
  BY <1>2 DEF Gathered
<1>4. l \in RanksOf(job) /\ l \in M
  BY <1>2, <1>3 DEF LeadersOf, MembersOf
<1>5. M \in SUBSET Nat /\ IsFiniteSet(M) /\ M # {} /\ M \in SUBSET RanksOf(job) /\ c \in 0..(N(job) - 1)
  BY <1>1, <1>2, <1>3, <1>4, MembersAre, Groups
<1>6. PICK A : A = [q \in RanksOf(job) |-> Share(job, q) \ lost]
  OBVIOUS
<1>7. \A q \in M : A[q] = Share(job, q) \ lost
  BY <1>5, <1>6
<1>8. PICK C : C = ChunksOf(job.container.droppings)
  OBVIOUS
<1>9. \A m \in sent : m.op = "part" /\ m.rank \in M => Serves(C, m.data, A[m.rank])
  BY <1>1, <1>7, <1>8 DEF Said
<1>10. \A q, p \in M : q # p => A[q] \cap A[p] = {}
  <2>1. \A q, p \in M : q # p => Share(job, q) \cap Share(job, p) = {}
    BY <1>1, <1>3, <1>5, NarrowShares
  <2> QED BY <1>7, <2>1
<1>11. Serves(C, OneOf("part", c, M), Together(A, M))
  BY <1>1, <1>3, <1>5, <1>9, <1>10, OneOfServes
<1>12. Together(A, M) = In(job, DirOf(job, c)) \ lost
  <2>1. \A q \in M : Share(job, q) \subseteq In(job, DirOf(job, c))
    <3>1. \A q \in M : GroupOf(job, q) = c
      BY <1>2 DEF MembersOf
    <3> QED BY <1>1, <1>3, <1>5, <3>1, NarrowShares
  <2>2. \A d \in In(job, DirOf(job, c)) : \E q \in M : d \in Share(job, q)
    BY <1>1, <1>2, <1>3, <1>5, NarrowShares
  <2>3. \A x : x \in Together(A, M) <=> \E q \in M : x \in Share(job, q) /\ x \notin lost
    BY <1>7 DEF Together
  <2>4. \A x : x \in In(job, DirOf(job, c)) <=> \E q \in M : x \in Share(job, q)
    BY <2>1, <2>2
  <2> QED BY <2>3, <2>4
<1> QED BY <1>2, <1>3, <1>8, <1>11, <1>12

(* Whoever has the whole can serve every dropping that is not lost.         *)
LEMMA WholeServes ==
  ASSUME ParInv, NEW s, Whole(s)
  PROVE  Serves(ChunksOf(job.container.droppings), s, job.container.droppings \ lost)
<1>1. EnteredOnce /\ job \in Jobs /\ \A m \in sent : Said(m) /\ m.rank \in RanksOf(job)
  BY DEF ParInv, EnteredOnce, Ranks, RanksOf
<1>2. PICK C, D : C = ChunksOf(job.container.droppings) /\ D = job.container.droppings
  OBVIOUS
<1>3. CASE job.hint = "paropen" /\ Narrow(job)
  <2>1. PICK M : M = LeadersOf(job)
    OBVIOUS
  <2>2. AllIn("merged", "zeros", M) /\ s = OneOf("merged", "zeros", M)
    BY <1>3, <2>1 DEF Whole
  <2>3. /\ M \in SUBSET Nat /\ IsFiniteSet(M) /\ M # {} /\ M \in SUBSET RanksOf(job)
        /\ \A l, m \in M : GroupOf(job, l) = GroupOf(job, m) => l = m
        /\ \A c \in 0..(N(job) - 1) : \E l \in M : GroupOf(job, l) = c
        /\ \A l \in M : GroupOf(job, l) \in 0..(N(job) - 1)
    BY <1>1, <1>3, <2>1, LeadersAre, Groups
  <2>4. PICK A : A = [q \in RanksOf(job) |-> In(job, DirOf(job, GroupOf(job, q))) \ lost]
    OBVIOUS
  <2>5. \A l \in M : A[l] = In(job, DirOf(job, GroupOf(job, l))) \ lost
    BY <2>3, <2>4
  <2>6. \A m \in sent : m.op = "merged" /\ m.rank \in M => Serves(C, m.data, A[m.rank])
    <3>1. ASSUME NEW m \in sent, m.op = "merged", m.rank \in M PROVE Serves(C, m.data, A[m.rank])
      <4>1. Gathered(m.rank, m.data)
        BY <1>1, <3>1 DEF Said
      <4>2. Serves(C, m.data, In(job, DirOf(job, GroupOf(job, m.rank))) \ lost)
        BY <1>2, <4>1, GatheredServes
      <4> QED BY <2>5, <3>1, <4>2
    <3> QED BY <3>1
  <2>7. \A l, m \in M : l # m => A[l] \cap A[m] = {}
    <3>1. \A l, m \in M : l # m => DirOf(job, GroupOf(job, l)) # DirOf(job, GroupOf(job, m))
      BY <1>1, <2>3, HostdirsAre
    <3>2. \A dir, e : dir # e => In(job, dir) \cap In(job, e) = {}
      BY <1>1, HostdirsAre
    <3> QED BY <2>5, <3>1, <3>2
  <2>8. Serves(C, OneOf("merged", "zeros", M), Together(A, M))
    BY <1>1, <2>2, <2>3, <2>6, <2>7, OneOfServes
  <2>9. Together(A, M) = D \ lost
    <3>1. \A x : x \in Together(A, M) <=> \E l \in M : x \in In(job, DirOf(job, GroupOf(job, l))) /\ x \notin lost
      BY <2>5 DEF Together
    <3>2. \A dir : In(job, dir) \subseteq D
      BY <1>1, <1>2, HostdirsAre
    <3>3. \A d \in D : \E l \in M : d \in In(job, DirOf(job, GroupOf(job, l)))
      BY <1>1, <1>2, <2>3, HostdirsAre
    <3> QED BY <3>1, <3>2, <3>3
  <2> QED BY <1>2, <2>2, <2>8, <2>9
<1>4. CASE job.hint = "paropen" /\ ~Narrow(job)
  <2>1. PICK M : M = RanksOf(job)
    OBVIOUS
  <2>2. AllIn("part", "world", M) /\ s = OneOf("part", "world", M) /\ N(job) > 0
    BY <1>4, <2>1 DEF Whole
  <2>3. M \in SUBSET Nat /\ IsFiniteSet(M) /\ M # {}
    BY <1>1, <2>1, RanksAre
  <2>4. PICK A : A = [q \in M |-> Share(job, q) \ lost]
    OBVIOUS
  <2>5. \A m \in sent : m.op = "part" /\ m.rank \in M => Serves(C, m.data, A[m.rank])
    BY <1>1, <1>2, <2>4 DEF Said
  <2>6. \A q, p \in M : q # p => A[q] \cap A[p] = {}
    <3>1. \A q, p \in M : q # p => Share(job, q) \cap Share(job, p) = {}
      BY <1>1, <2>1, <2>2, Shares
    <3> QED BY <2>4, <3>1
  <2>7. Serves(C, OneOf("part", "world", M), Together(A, M))
    BY <1>1, <2>2, <2>3, <2>5, <2>6, OneOfServes
  <2>8. Together(A, M) = D \ lost
    <3>1. \A x : x \in Together(A, M) <=> \E q \in M : x \in Share(job, q) /\ x \notin lost
      BY <2>4 DEF Together
    <3>2. \A q \in M : Share(job, q) \subseteq D
      BY <1>1, <1>2, <2>1, <2>2, Shares
    <3>3. \A d \in D : \E q \in M : d \in Share(job, q)
      BY <1>1, <1>2, <2>1, <2>2, Shares
    <3> QED BY <3>1, <3>2, <3>3
  <2> QED BY <1>2, <2>2, <2>7, <2>8
<1>5. CASE job.hint # "paropen"
  <2>1. lost = {}
    BY <1>1, <1>5 DEF ParInv, LostInAPart, Said
  <2>2. s = global_to_stream(Populated)
    BY <1>5 DEF Whole
  <2>3. D \ lost = D
    BY <2>1
  <2> QED BY <1>1, <1>2, <2>2, <2>3, PopulatedServes
<1> QED BY <1>3, <1>4, <1>5

LEMMA WholeIsOne ==
  ASSUME NEW s, NEW t, Whole(s), Whole(t)
  PROVE  s = t
BY DEF Whole

(* What the ranks of a group know of each other.                            *)
LEMMA HeardOf ==
  ASSUME ParInv, NEW op, NEW comm, NEW q, Entered(op, comm, q)
  PROVE  \E m \in sent : /\ m.op = op /\ m.comm = comm /\ m.rank = q
                        /\ DataOf(op, comm, q) = m.data /\ Said(m)
<1>1. PICK m \in sent : m.op = op /\ m.comm = comm /\ m.rank = q
  BY DEF Entered
<1>2. EnteredOnce /\ Said(m)
  BY DEF ParInv
<1>3. DataOf(m.op, m.comm, m.rank) = m.data
  BY <1>2, DataIs
<1> QED BY <1>1, <1>2, <1>3

LEMMA ColorsAre ==
  ASSUME ParInv, Colored
  PROVE  /\ Narrow(job) /\ Ranks = RanksOf(job)
         /\ \A q \in RanksOf(job) : /\ Color(q) = GroupOf(job, q)
                                   /\ Members(q) = MembersOf(job, GroupOf(job, q))
                                   /\ Leader(q) = Min(MembersOf(job, GroupOf(job, q)))
                                   /\ new_rank(q) = PlaceOf(job, q)
         /\ Leaders = LeadersOf(job)
<1>1. Ranks = RanksOf(job)
  BY DEF Ranks, RanksOf
<1>2. ASSUME NEW q \in RanksOf(job) PROVE Color(q) = GroupOf(job, q) /\ Narrow(job)
  <2>1. Entered("hostdir_comm", "world", q)
    BY <1>1 DEF Colored
  <2>2. PICK m \in sent : /\ m.op = "hostdir_comm" /\ m.rank = q
                         /\ DataOf("hostdir_comm", "world", q) = m.data /\ Said(m)
    BY <2>1, HeardOf
  <2> QED BY <2>2 DEF Said, Color
<1>3. \E q : q \in RanksOf(job)
  BY RanksAre DEF ParInv
<1>4. ASSUME NEW q \in RanksOf(job)
      PROVE  /\ Members(q) = MembersOf(job, GroupOf(job, q))
             /\ Leader(q) = Min(MembersOf(job, GroupOf(job, q)))
             /\ new_rank(q) = PlaceOf(job, q)
  <2>1. Members(q) = MembersOf(job, GroupOf(job, q))
    BY <1>1, <1>2 DEF Members, MembersOf
  <2>2. Leader(q) = Min(MembersOf(job, GroupOf(job, q)))
    BY <2>1 DEF Leader
  <2>3. new_rank(q) = PlaceOf(job, q)
    BY <2>1 DEF new_rank, PlaceOf
  <2> QED BY <2>1, <2>2, <2>3
<1>5. Leaders = LeadersOf(job)
  BY <1>1, <1>4 DEF Leaders, LeadersOf
<1> QED BY <1>1, <1>2, <1>3, <1>4, <1>5

LEMMA RankIs ==
  ASSUME ParInv, NEW r \in RanksOf(job)
  PROVE  /\ rank \in [RanksOf(job) -> StatesOf(job)] /\ rank[r] \in StatesOf(job)
         /\ Placed(r) /\ Served(r)
BY DEF ParInv

LEMMA NotLostYet ==
  ASSUME ParInv, NEW r \in RanksOf(job), Stage(rank[r].at) <= 5, N(job) > 0
  PROVE  Share(job, r) \cap lost = {}
<1>1. ASSUME NEW d \in lost, d \in Share(job, r) PROVE FALSE
  <2>1. PICK m \in sent : m.op = "part" /\ d \in Share(job, m.rank)
    BY DEF ParInv, LostInAPart
  <2>2. m.rank \in RanksOf(job) /\ Leaving(m.op) < Stage(rank[m.rank].at)
    BY DEF ParInv, EnteredOnce, Ranks, RanksOf
  <2>3. Leaving(m.op) = 5
    BY <2>1 DEF Leaving
  <2>4. m.rank # r
    BY <2>2, <2>3, StagesAre
  <2>5. Share(job, m.rank) \cap Share(job, r) = {}
    BY <2>2, <2>4, Shares DEF ParInv
  <2> QED BY <1>1, <2>1, <2>5
<1> QED BY <1>1

-----------------------------------------------------------------------------
(* ParallelOpen: the steps.                                                 *)
LEMMA AtsAre ==
  /\ "counted" \in Ats /\ "split" \in Ats /\ "zeros" \in Ats /\ "list" \in Ats /\ "read" \in Ats
  /\ "gather" \in Ats /\ "global" \in Ats /\ "leaders" \in Ats /\ "bitmap" \in Ats
  /\ "allgather" \in Ats /\ "plfs_open" \in Ats /\ "result" \in Ats /\ "returned" \in Ats
  /\ "dead" \in Ats
BY DEF Ats, NarrowAts, WideAts

LEMMA ServedOn ==
  ASSUME ParInv, NEW r \in RanksOf(job), NEW t, rank'[r] = t, SameIndex(t, rank[r]),
         rank[r].at \notin {"result", "returned"}, t.at # "plfs_open"
  PROVE  Served(r)'
<1>1. ~rank[r].opened
  BY DEF ParInv, Served
<1> QED BY <1>1 DEF Served, SameIndex

LEMMA CountKept ==
  ASSUME ParInv, num_host_dirs
  PROVE  ParInv'
<1>1. 0 \in RanksOf(job) /\ job \in Jobs /\ N(job) \in Nat
  BY RanksAre, JobParts DEF ParInv
<1>2. PICK s : s = rank[0]
  OBVIOUS
<1>3. rank \in [RanksOf(job) -> StatesOf(job)] /\ s \in StatesOf(job) /\ Placed(0) /\ Served(0)
  BY <1>1, <1>2, RankIs
<1>4. PICK seen \in {job.container.hostdirs, {}} :
        /\ rank' = [rank EXCEPT ![0] = [@ EXCEPT !.bitmap = seen, !.num = Cardinality(seen), !.at = "counted"]]
        /\ sent' = sent \cup {[op |-> "num_host_dir", comm |-> "world", rank |-> 0, data |-> Cardinality(seen)]}
  BY DEF num_host_dirs, Enter
<1>5. s.at = "start" /\ job.hint = "paropen" /\ job' = job /\ lost' = lost
  BY <1>2 DEF num_host_dirs
<1>6. PICK n : n = Cardinality(seen)
  OBVIOUS
<1>7. n \in {0, N(job)} /\ n \in Nat /\ seen \in SUBSET Nat /\ (n > 0 => seen = job.container.hostdirs)
  BY <1>1, <1>6, JobParts, FS_EmptySet DEF N
<1>8. PICK t : t = [s EXCEPT !.bitmap = seen, !.num = n, !.at = "counted"]
  OBVIOUS
<1>9. /\ t \in StatesOf(job) /\ t.at = "counted" /\ t.num = n /\ t.bitmap = seen
      /\ t.stream = s.stream /\ SameIndex(t, s)
  <2>1. PICK a \in Ats : a = "counted"
    BY AtsAre
  <2>2. t = Counting(s, seen, n, a)
    BY <1>8, <2>1 DEF Counting
  <2>3. seen \in SUBSET Nat /\ n \in Nat
    BY <1>7
  <2>4. /\ t \in StatesOf(job) /\ t.at = a /\ t.num = n /\ t.bitmap = seen
        /\ t.stream = s.stream /\ SameIndex(t, s)
    BY <1>3, <2>2, <2>3, StateCounted
  <2> QED BY <2>1, <2>4
<1>10. Kept(rank, rank', job, 0, t)
  <2>1. rank' = [rank EXCEPT ![0] = t]
    BY <1>2, <1>4, <1>6, <1>8
  <2> QED BY <1>1, <1>3, <1>9, <2>1, Moved
<1>11. PICK m : m = [op |-> "num_host_dir", comm |-> "world", rank |-> 0, data |-> n]
  OBVIOUS
<1>12. Keeps(0, t, {m}, {})
  BY <1>2, <1>4, <1>5, <1>6, <1>9, <1>10, <1>11 DEF Keeps, Stage, Leaving
<1>13. rank'[0] = t
  BY <1>10 DEF Kept
<1>14. Placed(0)'
  BY <1>5, <1>7, <1>9, <1>13 DEF Placed, NarrowAts, WideAts
<1>15. Served(0)'
  BY <1>1, <1>2, <1>5, <1>9, <1>13, ServedOn
<1>16. Said(m)'
  BY <1>5, <1>7, <1>11 DEF Said
<1> QED BY <1>1, <1>12, <1>14, <1>15, <1>16, Preserved

LEMMA ReceiveCountKept ==
  ASSUME ParInv, NEW r \in RanksOf(job), ReceiveCount(r)
  PROVE  ParInv'
<1>1. job \in Jobs /\ N(job) \in Nat
  BY JobParts DEF ParInv
<1>2. PICK s : s = rank[r]
  OBVIOUS
<1>3. rank \in [RanksOf(job) -> StatesOf(job)] /\ s \in StatesOf(job) /\ Placed(r) /\ Served(r)
  BY <1>1, <1>2, RankIs
<1>4. PICK n : n = DataOf("num_host_dir", "world", 0)
  OBVIOUS
<1>5. /\ rank' = [rank EXCEPT ![r] = [@ EXCEPT !.num = n, !.at = "counted"]]
      /\ r # 0 /\ s.at = "start" /\ job.hint = "paropen" /\ Entered("num_host_dir", "world", 0)
      /\ job' = job /\ sent' = sent /\ lost' = lost
  BY <1>2, <1>4 DEF ReceiveCount
<1>6. n \in {0, N(job)} /\ n \in Nat
  <2>1. PICK m \in sent : m.op = "num_host_dir" /\ DataOf("num_host_dir", "world", 0) = m.data /\ Said(m)
    BY <1>5, HeardOf
  <2> QED BY <1>1, <1>4, <2>1 DEF Said
<1>7. PICK t : t = [s EXCEPT !.num = n, !.at = "counted"]
  OBVIOUS
<1>8. t \in StatesOf(job) /\ t.at = "counted" /\ t.num = n /\ SameIndex(t, s)
  <2>1. PICK a \in Ats : a = "counted"
    BY AtsAre
  <2>2. t = Receiving(s, n, a)
    BY <1>7, <2>1 DEF Receiving
  <2> QED BY <1>3, <1>6, <2>1, <2>2, StateReceived
<1>9. Kept(rank, rank', job, r, t) /\ rank'[r] = t
  <2>1. rank' = [rank EXCEPT ![r] = t]
    BY <1>2, <1>5, <1>7
  <2> QED BY <1>3, <1>8, <2>1, Moved DEF Kept
<1>10. Keeps(r, t, {}, {})
  BY <1>2, <1>5, <1>8, <1>9 DEF Keeps, Stage
<1>11. Placed(r)'
  BY <1>5, <1>6, <1>8, <1>9 DEF Placed, NarrowAts, WideAts
<1>12. Served(r)'
  BY <1>2, <1>5, <1>8, <1>9, ServedOn
<1> QED BY <1>10, <1>11, <1>12, Preserved

(* After the count.                                                         *)
LEMMA ChooseWayKept ==
  ASSUME ParInv, NEW r \in RanksOf(job), ChooseWay(r)
  PROVE  ParInv'
<1>1. job \in Jobs /\ N(job) \in Nat /\ job.np \in Nat \ {0}
  BY JobParts DEF ParInv
<1>2. PICK s : s = rank[r]
  OBVIOUS
<1>3. rank \in [RanksOf(job) -> StatesOf(job)] /\ s \in StatesOf(job) /\ Placed(r) /\ Served(r)
  BY <1>1, <1>2, RankIs
<1>4. PICK a : a = AfterCount(r, s.num)
  OBVIOUS
<1>5. /\ rank' = [rank EXCEPT ![r].at = a] /\ s.at = "counted"
      /\ job' = job /\ lost' = lost
      /\ job.hint = "paropen" /\ s.num \in {0, N(job)}
      /\ (r = 0 /\ s.num > 0 => s.bitmap = job.container.hostdirs)
  BY <1>2, <1>3, <1>4 DEF ChooseWay, Goto, Placed
<1>6. a \in {"dead", "split", "bitmap"}
  BY <1>4 DEF AfterCount
<1>7. PICK t : t = [s EXCEPT !.at = a]
  OBVIOUS
<1>8. t \in StatesOf(job) /\ t.at = a /\ t.num = s.num /\ t.bitmap = s.bitmap /\ SameIndex(t, s)
  <2>1. a \in Ats
    BY <1>6, AtsAre
  <2> QED BY <1>3, <1>7, <2>1, StateAt
<1>9. Kept(rank, rank', job, r, t) /\ rank'[r] = t
  <2>1. rank' = [rank EXCEPT ![r] = t]
    BY <1>2, <1>5, <1>7
  <2> QED BY <1>3, <1>8, <2>1, Moved DEF Kept
<1>10. Served(r)'
  BY <1>2, <1>5, <1>6, <1>8, <1>9, ServedOn
<1>11. Stage(s.at) = 1 /\ Stage(a) > 1
  BY <1>5, <1>6 DEF Stage
<1>12. CASE a = "split"
  <2>1. s.num > 0 /\ s.num = N(job) /\ Narrow(job)
    BY <1>1, <1>4, <1>5, <1>12 DEF AfterCount, Narrow, ranks_per_comm_calc
  <2>2. Group(r) = GroupOf(job, r)
    BY <1>2, <2>1 DEF Group, GroupOf, ranks_per_comm_calc, extra_rank_calc
  <2>3. PICK m : m = [op |-> "hostdir_comm", comm |-> "world", rank |-> r, data |-> GroupOf(job, r)]
    OBVIOUS
  <2>4. sent' = sent \cup {m}
    BY <1>2, <1>4, <1>12, <2>2, <2>3 DEF ChooseWay, Enter
  <2>5. Keeps(r, t, {m}, {})
    BY <1>2, <1>5, <1>8, <1>9, <1>11, <1>12, <2>3, <2>4 DEF Keeps, Leaving, Stage
  <2>6. Placed(r)'
    BY <1>5, <1>8, <1>9, <1>12, <2>1 DEF Placed, NarrowAts, WideAts
  <2>7. Said(m)'
    BY <1>5, <2>1, <2>3 DEF Said
  <2> QED BY <1>10, <2>5, <2>6, <2>7, Preserved
<1>13. CASE a = "bitmap"
  <2>1. s.num > 0 /\ s.num = N(job) /\ N(job) > 0 /\ ~Narrow(job)
    BY <1>1, <1>4, <1>5, <1>13 DEF AfterCount, Narrow, ranks_per_comm_calc
  <2>2. Placed(r)'
    BY <1>5, <1>8, <1>9, <1>13, <2>1 DEF Placed, NarrowAts, WideAts
  <2>3. CASE r = 0
    <3>1. PICK m : m = [op |-> "bitmap", comm |-> "world", rank |-> 0, data |-> s.bitmap]
      OBVIOUS
    <3>2. sent' = sent \cup {m}
      BY <1>2, <1>4, <1>13, <2>3, <3>1 DEF ChooseWay, Enter
    <3>3. Keeps(r, t, {m}, {})
      BY <1>2, <1>5, <1>8, <1>9, <1>11, <1>13, <2>3, <3>1, <3>2 DEF Keeps, Leaving, Stage
    <3>4. Said(m)'
      BY <1>5, <2>1, <2>3, <3>1 DEF Said
    <3> QED BY <1>10, <2>2, <3>3, <3>4, Preserved
  <2>4. CASE r # 0
    <3>1. sent' = sent
      BY <1>2, <1>4, <1>13, <2>4 DEF ChooseWay
    <3>2. Keeps(r, t, {}, {})
      BY <1>2, <1>5, <1>8, <1>9, <1>11, <1>13, <3>1 DEF Keeps
    <3> QED BY <1>10, <2>2, <3>2, Preserved
  <2> QED BY <2>3, <2>4
<1>14. CASE a = "dead"
  <2>1. sent' = sent
    BY <1>2, <1>4, <1>14 DEF ChooseWay
  <2>2. Keeps(r, t, {}, {})
    BY <1>2, <1>5, <1>8, <1>9, <1>11, <1>14, <2>1 DEF Keeps
  <2>3. Placed(r)'
    BY <1>8, <1>9, <1>14 DEF Placed, NarrowAts, WideAts
  <2> QED BY <1>10, <2>2, <2>3, Preserved
<1> QED BY <1>6, <1>12, <1>13, <1>14

(* A step that changes no more of a rank than where it is.                  *)
LEMMA WentTo ==
  ASSUME ParInv, NEW r \in RanksOf(job), NEW a \in Ats, Goto(r, a),
         rank[r].at \notin {"result", "returned"}, a # "plfs_open"
  PROVE  \E t : /\ Kept(rank, rank', job, r, t) /\ rank'[r] = t /\ t.at = a
               /\ t.num = rank[r].num /\ t.bitmap = rank[r].bitmap /\ Served(r)'
<1>1. PICK s : s = rank[r]
  OBVIOUS
<1>2. rank \in [RanksOf(job) -> StatesOf(job)] /\ s \in StatesOf(job)
  BY <1>1, RankIs
<1>3. PICK t : t = [s EXCEPT !.at = a]
  OBVIOUS
<1>4. t \in StatesOf(job) /\ t.at = a /\ t.num = s.num /\ t.bitmap = s.bitmap /\ SameIndex(t, s)
  BY <1>2, <1>3, StateAt
<1>5. Kept(rank, rank', job, r, t) /\ rank'[r] = t
  <2>1. rank' = [rank EXCEPT ![r] = t]
    BY <1>1, <1>3 DEF Goto
  <2> QED BY <1>2, <1>4, <2>1, Moved DEF Kept
<1>6. Served(r)'
  BY <1>1, <1>4, <1>5, ServedOn
<1> QED BY <1>1, <1>4, <1>5, <1>6

(* A rank that came into a way stays in it.                                 *)
LEMMA StaysNarrow ==
  ASSUME ParInv, NEW r \in RanksOf(job), rank[r].at \in NarrowAts, NEW t, NEW new, NEW missed,
         Keeps(r, t, new, missed), rank'[r] = t, t.num = rank[r].num, t.bitmap = rank[r].bitmap,
         t.at \in NarrowAts, Colored, t.at \in {"list", "gather", "leaders"} => r \in LeadersOf(job)
  PROVE  Placed(r)'
<1>1. EnteredOnce' /\ sent \subseteq sent' /\ job' = job
  BY StillOnce DEF Keeps
<1>2. Colored'
  BY <1>1, StreamsKept
<1>3. /\ job.hint = "paropen" /\ Narrow(job) /\ rank[r].num = N(job)
      /\ (r = 0 /\ rank[r].num > 0 => rank[r].bitmap = job.container.hostdirs)
  BY RankIs DEF Placed
<1>4. t.at \notin WideAts /\ t.at # "counted"
  BY DEF NarrowAts, WideAts
<1> QED BY <1>1, <1>2, <1>3, <1>4 DEF Placed

LEMMA SplitHostdirsKept ==
  ASSUME ParInv, NEW r \in RanksOf(job), SplitHostdirs(r)
  PROVE  ParInv'
<1>1. /\ rank[r].at = "split" /\ Goto(r, "zeros") /\ job' = job /\ lost' = lost
      /\ \A q \in Ranks : Entered("hostdir_comm", "world", q)
  BY DEF SplitHostdirs
<1>2. PICK m : m = [op |-> "hostdir_zeros_comm", comm |-> "world", rank |-> r, data |-> (Leader(r) = r)]
  OBVIOUS
<1>3. sent' = sent \cup {m}
  BY <1>2 DEF SplitHostdirs, Enter
<1>4. PICK t : /\ Kept(rank, rank', job, r, t) /\ rank'[r] = t /\ t.at = "zeros"
               /\ t.num = rank[r].num /\ t.bitmap = rank[r].bitmap /\ Served(r)'
  BY <1>1, AtsAre, WentTo
<1>5. Keeps(r, t, {m}, {})
  BY <1>1, <1>2, <1>3, <1>4 DEF Keeps, Stage, Leaving
<1>6. Placed(r)'
  BY <1>1, <1>4, <1>5, StaysNarrow DEF NarrowAts, Colored
<1>7. Said(m)'
  BY <1>2 DEF Said
<1> QED BY <1>4, <1>5, <1>6, <1>7, Preserved

LEMMA SplitZerosKept ==
  ASSUME ParInv, NEW r \in RanksOf(job), SplitZeros(r)
  PROVE  ParInv'
<1>1. PICK a : a = IF Leader(r) = r THEN "list" ELSE "read"
  OBVIOUS
<1>2. rank[r].at = "zeros" /\ Goto(r, a) /\ job' = job /\ lost' = lost /\ a \in {"list", "read"}
  BY <1>1 DEF SplitZeros
<1>3. PICK t : /\ Kept(rank, rank', job, r, t) /\ rank'[r] = t /\ t.at = a
               /\ t.num = rank[r].num /\ t.bitmap = rank[r].bitmap /\ Served(r)'
  BY <1>2, AtsAre, WentTo
<1>4. /\ Placed(r) /\ Colored /\ N(job) > 0 /\ job \in Jobs
      /\ rank[r].num = N(job) /\ (r = 0 => rank[r].bitmap = job.container.hostdirs)
  BY <1>2, RankIs DEF Placed, NarrowAts, Narrow, ParInv
<1>5. a = "list" => r \in LeadersOf(job)
  BY <1>1, <1>4, ColorsAre DEF LeadersOf
<1>6. CASE r = 0
  <2>1. PICK m : m = [op |-> "bitmap", comm |-> "zeros", rank |-> 0, data |-> rank[0].bitmap]
    OBVIOUS
  <2>2. sent' = sent \cup {m}
    BY <1>6, <2>1 DEF SplitZeros, Enter
  <2>3. Keeps(r, t, {m}, {})
    BY <1>2, <1>3, <1>6, <2>1, <2>2 DEF Keeps, Stage, Leaving
  <2>4. Placed(r)'
    BY <1>2, <1>3, <1>4, <1>5, <2>3, StaysNarrow DEF NarrowAts
  <2>5. Said(m)'
    BY <1>2, <1>4, <1>6, <2>1 DEF Said
  <2> QED BY <1>3, <2>3, <2>4, <2>5, Preserved
<1>7. CASE r # 0
  <2>1. sent' = sent
    BY <1>7 DEF SplitZeros
  <2>2. Keeps(r, t, {}, {})
    BY <1>2, <1>3, <2>1 DEF Keeps, Stage
  <2>3. Placed(r)'
    BY <1>2, <1>3, <1>4, <1>5, <2>2, StaysNarrow DEF NarrowAts
  <2> QED BY <1>3, <2>2, <2>3, Preserved
<1> QED BY <1>6, <1>7

LEMMA ListHostdirKept ==
  ASSUME ParInv, NEW r \in RanksOf(job), ListHostdir(r)
  PROVE  ParInv'
<1>1. rank[r].at = "list" /\ Goto(r, "read") /\ job' = job /\ lost' = lost /\ Entered("bitmap", "zeros", 0)
  BY DEF ListHostdir
<1>2. /\ Colored /\ N(job) > 0 /\ job \in Jobs
  BY <1>1, RankIs DEF Placed, NarrowAts, Narrow, ParInv
<1>3. PICK t : /\ Kept(rank, rank', job, r, t) /\ rank'[r] = t /\ t.at = "read"
               /\ t.num = rank[r].num /\ t.bitmap = rank[r].bitmap /\ Served(r)'
  BY <1>1, AtsAre, WentTo
<1>4. PICK dir : dir = bitmap_to_dirname(DataOf("bitmap", "zeros", 0), Color(r), 0, job.np)[1]
  OBVIOUS
<1>5. dir = DirOf(job, GroupOf(job, r))
  <2>1. PICK m \in sent : m.op = "bitmap" /\ DataOf("bitmap", "zeros", 0) = m.data /\ Said(m)
    BY <1>1, HeardOf
  <2>2. DataOf("bitmap", "zeros", 0) = job.container.hostdirs
    BY <2>1 DEF Said
  <2>3. Color(r) = GroupOf(job, r)
    BY <1>2, ColorsAre
  <2> QED BY <1>4, <2>2, <2>3 DEF bitmap_to_dirname, count_to_hostdir, DirOf
<1>6. PICK list \in {<<>>, hostdir_index_read(dir)} :
        sent' = sent \cup {[op |-> "list", comm |-> Color(r), rank |-> r, data |-> listToStream(list)]}
  BY <1>4 DEF ListHostdir, Enter
<1>7. PICK m : m = [op |-> "list", comm |-> Color(r), rank |-> r, data |-> listToStream(list)]
  OBVIOUS
<1>8. Keeps(r, t, {m}, {})
  BY <1>1, <1>3, <1>6, <1>7 DEF Keeps, Stage, Leaving
<1>9. Placed(r)'
  BY <1>1, <1>2, <1>3, <1>8, StaysNarrow DEF NarrowAts
<1>10. Said(m)'
  <2>1. list \in {<<>>, hostdir_index_read(DirOf(job, GroupOf(job, r)))}
    BY <1>5, <1>6
  <2>2. hostdir_index_read(DirOf(job, GroupOf(job, r)))' = hostdir_index_read(DirOf(job, GroupOf(job, r)))
    BY <1>1 DEF hostdir_index_read
  <2>3. m.op = "list" /\ m.rank = r /\ m.data = listToStream(list)
    BY <1>7
  <2> QED BY <1>1, <2>1, <2>2, <2>3 DEF Said
<1> QED BY <1>3, <1>8, <1>9, <1>10, Preserved

(* A list comes out of its stream as it was put in.                         *)
LEMMA StreamOfList ==
  ASSUME NEW D, NEW list \in Seq(D)
  PROVE  streamToList(listToStream(list)) = list
<1>1. PICK n \in Nat : n = Len(list)
  BY LenProperties
<1>2. listToStream(list).size = n /\ listToStream(list).entries = list
  BY <1>1 DEF listToStream
<1>3. streamToList(listToStream(list)) = [i \in 1..n |-> list[i]]
  BY <1>2 DEF streamToList
<1>4. list = [i \in 1..n |-> list[i]]
  BY <1>1, LenProperties, ElementOfSeq
<1> QED BY <1>3, <1>4

LEMMA ListsAreLists ==
  ASSUME job \in Jobs, NEW dir
  PROVE  \E D : hostdir_index_read(dir) \in Seq(D) /\ <<>> \in Seq(D)
<1>1. PICK s, D : s = SetToSeq(In(job, dir)) /\ D = In(job, dir) \cup {<<dir, -1>>}
  OBVIOUS
<1>2. s \in Seq(In(job, dir))
  BY <1>1, FilesListed DEF Lists
<1>3. s \in Seq(D) /\ << <<dir, -1>> >> \in Seq(D)
  BY <1>1, <1>2, SeqMonotonic
<1>4. hostdir_index_read(dir) = << <<dir, -1>> >> \o s
  BY <1>1 DEF hostdir_index_read, In
<1>5. hostdir_index_read(dir) \in Seq(D)
  BY <1>3, <1>4, ConcatProperties
<1>6. <<>> \in Seq(D)
  BY EmptySeq
<1> QED BY <1>5, <1>6

LEMMA ReadDroppingsKept ==
  ASSUME ParInv, NEW r \in RanksOf(job), ReadDroppings(r)
  PROVE  ParInv'
<1>1. rank[r].at = "read" /\ job' = job /\ Entered("list", Color(r), Leader(r))
  BY DEF ReadDroppings
<1>2. Colored /\ Narrow(job) /\ N(job) > 0 /\ job \in Jobs /\ job.hint = "paropen"
  BY <1>1, RankIs DEF Placed, NarrowAts, Narrow, ParInv
<1>3. PICK g, l : g = GroupOf(job, r) /\ l = Min(MembersOf(job, g))
  OBVIOUS
<1>4. /\ Color(r) = g /\ Leader(r) = l /\ new_rank(r) = PlaceOf(job, r) /\ Members(r) = MembersOf(job, g)
      /\ l \in LeadersOf(job) /\ GroupOf(job, l) = g
  BY <1>2, <1>3, ColorsAre, LeadersAre
<1>5. PICK list : list = streamToList(DataOf("list", Color(r), Leader(r)))
  OBVIOUS
<1>6. list = <<>> \/ list = hostdir_index_read(DirOf(job, g))
  <2>1. PICK m \in sent : m.op = "list" /\ m.rank = l /\ DataOf("list", Color(r), Leader(r)) = m.data /\ Said(m)
    BY <1>1, <1>4, HeardOf
  <2>2. m.data \in {listToStream(<<>>), listToStream(hostdir_index_read(DirOf(job, g)))}
    BY <1>4, <2>1 DEF Said
  <2>3. PICK D : hostdir_index_read(DirOf(job, g)) \in Seq(D) /\ <<>> \in Seq(D)
    BY <1>2, ListsAreLists
  <2> QED BY <1>5, <2>1, <2>2, <2>3, StreamOfList
<1>7. CASE list = <<>> /\ Goto(r, "dead") /\ UNCHANGED <<sent, faults, lost>>
  <2>1. PICK t : Kept(rank, rank', job, r, t) /\ rank'[r] = t /\ t.at = "dead" /\ Served(r)'
    BY <1>1, <1>7, AtsAre, WentTo
  <2>2. Keeps(r, t, {}, {})
    BY <1>1, <1>7, <2>1 DEF Keeps, Stage
  <2>3. Placed(r)'
    BY <2>1 DEF Placed, NarrowAts, WideAts
  <2> QED BY <2>1, <2>2, <2>3, Preserved
<1>8. ASSUME list # <<>>,
             NEW p \in parAggregateIndices(Tail(list), new_rank(r), Cardinality(Members(r))),
             Enter("part", Color(r), r, global_to_stream(p.index)), lost' = lost \cup p.missed,
             Goto(r, IF Leader(r) = r THEN "gather" ELSE "global")
      PROVE  ParInv'
  <2>1. PICK a : a = IF l = r THEN "gather" ELSE "global"
    OBVIOUS
  <2>2. Goto(r, a) /\ a \in {"gather", "global"}
    BY <1>4, <1>8, <2>1
  <2>3. PICK t : /\ Kept(rank, rank', job, r, t) /\ rank'[r] = t /\ t.at = a
                 /\ t.num = rank[r].num /\ t.bitmap = rank[r].bitmap /\ Served(r)'
    BY <1>1, <2>2, AtsAre, WentTo
  <2>4. Tail(list) = FilesOf(job, r)
    BY <1>2, <1>3, <1>6, <1>8, FilesListed DEF FilesOf
  <2>5. p \in parAggregateIndices(FilesOf(job, r), PlaceOf(job, r), Cardinality(MembersOf(job, GroupOf(job, r))))
    BY <1>3, <1>4, <1>8, <2>4
  <2>6. PICK C, data : C = ChunksOf(job.container.droppings) /\ data = global_to_stream(p.index)
    OBVIOUS
  <2>7. p.missed \subseteq Share(job, r) /\ Serves(C, data, Share(job, r) \ p.missed)
    BY <1>2, <2>5, <2>6, NarrowRead
  <2>8. PICK m : m = [op |-> "part", comm |-> g, rank |-> r, data |-> data]
    OBVIOUS
  <2>9. sent' = sent \cup {m}
    BY <1>4, <1>8, <2>6, <2>8 DEF Enter
  <2>10. Stage(rank[r].at) = 5 /\ Leaving(m.op) = 5 /\ Stage(t.at) = 6
    BY <1>1, <2>2, <2>3, <2>8 DEF Stage, Leaving
  <2>11. Keeps(r, t, {m}, p.missed)
    BY <1>1, <1>8, <2>3, <2>7, <2>8, <2>9, <2>10 DEF Keeps
  <2>12. Placed(r)'
    <3>1. a = "gather" => r \in LeadersOf(job)
      BY <1>4, <2>1
    <3>2. rank[r].at \in NarrowAts /\ t.at \in NarrowAts /\ (t.at \in {"list", "gather", "leaders"} => r \in LeadersOf(job))
      BY <1>1, <2>2, <2>3, <3>1 DEF NarrowAts
    <3> QED BY <1>2, <2>3, <2>11, <3>2, StaysNarrow
  <2>13. Share(job, r) \cap lost = {}
    BY <1>2, <2>10, NotLostYet
  <2>14. Share(job, r) \ p.missed = Share(job, r) \ lost'
    BY <1>8, <2>13
  <2>15. Serves(C, data, Share(job, r) \ lost)'
    BY <1>1, <2>7, <2>14
  <2>16. Said(m)'
    BY <1>1, <1>2, <2>6, <2>8, <2>15 DEF Said
  <2> QED BY <2>3, <2>11, <2>12, <2>16, Preserved
<1> QED BY <1>5, <1>7, <1>8 DEF ReadDroppings

LEMMA GatherPartsKept ==
  ASSUME ParInv, NEW r \in RanksOf(job), GatherParts(r)
  PROVE  ParInv'
<1>1. /\ rank[r].at = "gather" /\ job' = job /\ lost' = lost /\ Goto(r, "leaders")
      /\ \A q \in Members(r) : Entered("part", Color(r), q)
  BY DEF GatherParts
<1>2. Colored /\ Narrow(job) /\ job \in Jobs /\ job.hint = "paropen" /\ r \in LeadersOf(job)
  BY <1>1, RankIs DEF Placed, NarrowAts, ParInv
<1>3. PICK g, M : g = GroupOf(job, r) /\ M = MembersOf(job, g)
  OBVIOUS
<1>4. Color(r) = g /\ Members(r) = M
  BY <1>2, <1>3, ColorsAre
<1>5. PICK stream : stream = OneOf("part", g, M)
  OBVIOUS
<1>6. PICK m : m = [op |-> "merged", comm |-> "zeros", rank |-> r, data |-> stream]
  OBVIOUS
<1>7. sent' = sent \cup {m}
  BY <1>4, <1>5, <1>6 DEF GatherParts, Enter, OneOf
<1>8. Gathered(r, stream)
  BY <1>1, <1>2, <1>3, <1>4, <1>5 DEF Gathered, AllIn
<1>9. PICK t : /\ Kept(rank, rank', job, r, t) /\ rank'[r] = t /\ t.at = "leaders"
               /\ t.num = rank[r].num /\ t.bitmap = rank[r].bitmap /\ Served(r)'
  BY <1>1, AtsAre, WentTo
<1>10. Keeps(r, t, {m}, {})
  BY <1>1, <1>6, <1>7, <1>9 DEF Keeps, Stage, Leaving
<1>11. Placed(r)'
  BY <1>1, <1>2, <1>9, <1>10, StaysNarrow DEF NarrowAts
<1>12. Gathered(r, stream)'
  BY <1>1, <1>8, <1>10, StillOnce, StreamsKept
<1>13. Said(m)'
  BY <1>1, <1>2, <1>6, <1>12 DEF Said
<1> QED BY <1>9, <1>10, <1>11, <1>13, Preserved

(* A rank gets the whole.                                                   *)
LEMMA GotStream ==
  ASSUME ParInv, NEW r \in RanksOf(job), NEW stream, Whole(stream), Streamed(r, stream),
         rank[r].at \notin {"result", "returned"}
  PROVE  \E t : /\ Kept(rank, rank', job, r, t) /\ rank'[r] = t /\ t.at = "plfs_open"
               /\ t.stream = stream /\ ~t.opened
<1>1. PICK s : s = rank[r]
  OBVIOUS
<1>2. rank \in [RanksOf(job) -> StatesOf(job)] /\ s \in StatesOf(job)
  BY <1>1, RankIs
<1>3. stream \in Seq(ChunksOf(job.container.droppings))
  BY WholeServes DEF Serves
<1>4. PICK a \in Ats : a = "plfs_open"
  BY AtsAre
<1>5. PICK t : t = Streaming(s, stream, a)
  OBVIOUS
<1>6. t \in StatesOf(job) /\ t.at = a /\ t.stream = stream /\ SameIndex(t, s)
  BY <1>2, <1>3, <1>5, StateStreamed
<1>7. rank' = [rank EXCEPT ![r] = t]
  BY <1>1, <1>4, <1>5 DEF Streamed, Streaming
<1>8. Kept(rank, rank', job, r, t) /\ rank'[r] = t
  BY <1>2, <1>6, <1>7, Moved DEF Kept
<1>9. ~t.opened
  BY <1>1, <1>6, RankIs DEF SameIndex, Served
<1> QED BY <1>4, <1>6, <1>8, <1>9

LEMMA HasWhole ==
  ASSUME ParInv, NEW r \in RanksOf(job), NEW t, NEW new, NEW missed, Keeps(r, t, new, missed),
         rank'[r] = t, t.at = "plfs_open", Whole(t.stream), ~t.opened
  PROVE  Placed(r)' /\ Served(r)'
<1>1. EnteredOnce' /\ sent \subseteq sent' /\ job' = job
  BY StillOnce DEF Keeps
<1>2. Whole(t.stream)'
  BY <1>1, StreamsKept
<1>3. Placed(r)'
  BY DEF Placed, NarrowAts, WideAts
<1>4. Served(r)'
  BY <1>2 DEF Served
<1> QED BY <1>3, <1>4

LEMMA MergeHostdirsKept ==
  ASSUME ParInv, NEW r \in RanksOf(job), MergeHostdirs(r)
  PROVE  ParInv'
<1>1. /\ rank[r].at = "leaders" /\ job' = job /\ lost' = lost
      /\ \A q \in Leaders : Entered("merged", "zeros", q)
  BY DEF MergeHostdirs
<1>2. Colored /\ Narrow(job) /\ job \in Jobs /\ job.hint = "paropen"
  BY <1>1, RankIs DEF Placed, NarrowAts, ParInv
<1>3. PICK M : M = LeadersOf(job)
  OBVIOUS
<1>4. Leaders = M
  BY <1>2, <1>3, ColorsAre
<1>5. PICK stream : stream = OneOf("merged", "zeros", M)
  OBVIOUS
<1>6. Whole(stream)
  BY <1>1, <1>2, <1>3, <1>4, <1>5 DEF Whole, AllIn
<1>7. PICK m : m = [op |-> "global", comm |-> Color(r), rank |-> r, data |-> stream]
  OBVIOUS
<1>8. sent' = sent \cup {m} /\ Streamed(r, stream)
  BY <1>4, <1>5, <1>7 DEF MergeHostdirs, Enter, OneOf
<1>9. PICK t : /\ Kept(rank, rank', job, r, t) /\ rank'[r] = t /\ t.at = "plfs_open"
               /\ t.stream = stream /\ ~t.opened
  BY <1>1, <1>6, <1>8, GotStream
<1>10. Keeps(r, t, {m}, {})
  BY <1>1, <1>7, <1>8, <1>9 DEF Keeps, Stage, Leaving
<1>11. Placed(r)' /\ Served(r)'
  BY <1>6, <1>9, <1>10, HasWhole
<1>12. Whole(stream)'
  BY <1>1, <1>6, <1>10, StillOnce, StreamsKept
<1>13. Said(m)'
  BY <1>1, <1>2, <1>7, <1>12 DEF Said
<1> QED BY <1>10, <1>11, <1>13, Preserved

LEMMA ReceiveGlobalKept ==
  ASSUME ParInv, NEW r \in RanksOf(job), ReceiveGlobal(r)
  PROVE  ParInv'
<1>1. /\ rank[r].at = "global" /\ job' = job /\ lost' = lost /\ sent' = sent
      /\ Entered("global", Color(r), Leader(r))
  BY DEF ReceiveGlobal
<1>2. PICK stream : stream = DataOf("global", Color(r), Leader(r))
  OBVIOUS
<1>3. Whole(stream)
  <2>1. PICK m \in sent : m.op = "global" /\ DataOf("global", Color(r), Leader(r)) = m.data /\ Said(m)
    BY <1>1, HeardOf
  <2> QED BY <1>2, <2>1 DEF Said
<1>4. Streamed(r, stream)
  BY <1>2 DEF ReceiveGlobal
<1>5. PICK t : /\ Kept(rank, rank', job, r, t) /\ rank'[r] = t /\ t.at = "plfs_open"
               /\ t.stream = stream /\ ~t.opened
  BY <1>1, <1>3, <1>4, GotStream
<1>6. Keeps(r, t, {}, {})
  BY <1>1, <1>5 DEF Keeps, Stage
<1>7. Placed(r)' /\ Served(r)'
  BY <1>3, <1>5, <1>6, HasWhole
<1> QED BY <1>6, <1>7, Preserved

LEMMA MergePartsKept ==
  ASSUME ParInv, NEW r \in RanksOf(job), MergeParts(r)
  PROVE  ParInv'
<1>1. /\ rank[r].at = "allgather" /\ job' = job /\ lost' = lost /\ sent' = sent
      /\ \A q \in Ranks : Entered("part", "world", q)
  BY DEF MergeParts
<1>2. ~Narrow(job) /\ N(job) > 0 /\ job.hint = "paropen"
  BY <1>1, RankIs DEF Placed, WideAts
<1>3. PICK M : M = RanksOf(job)
  OBVIOUS
<1>4. Ranks = M
  BY <1>3 DEF Ranks, RanksOf
<1>5. PICK stream : stream = OneOf("part", "world", M)
  OBVIOUS
<1>6. Whole(stream)
  BY <1>1, <1>2, <1>3, <1>4, <1>5 DEF Whole, AllIn
<1>7. Streamed(r, stream)
  BY <1>4, <1>5 DEF MergeParts, OneOf
<1>8. PICK t : /\ Kept(rank, rank', job, r, t) /\ rank'[r] = t /\ t.at = "plfs_open"
               /\ t.stream = stream /\ ~t.opened
  BY <1>1, <1>6, <1>7, GotStream
<1>9. Keeps(r, t, {}, {})
  BY <1>1, <1>8 DEF Keeps, Stage
<1>10. Placed(r)' /\ Served(r)'
  BY <1>6, <1>8, <1>9, HasWhole
<1> QED BY <1>9, <1>10, Preserved

LEMMA ReadHostdirsKept ==
  ASSUME ParInv, NEW r \in RanksOf(job), ReadHostdirs(r)
  PROVE  ParInv'
<1>1. rank[r].at = "bitmap" /\ job' = job /\ Entered("bitmap", "world", 0)
  BY DEF ReadHostdirs
<1>2. /\ ~Narrow(job) /\ N(job) > 0 /\ job \in Jobs /\ job.hint = "paropen" /\ rank[r].num = N(job)
      /\ (r = 0 => rank[r].bitmap = job.container.hostdirs)
  BY <1>1, RankIs DEF Placed, WideAts, ParInv
<1>3. PICK dirs : dirs = bitmap_to_dirname(DataOf("bitmap", "world", 0), r,
                           hostdir_per_rank(r, job.np, rank[r].num), job.np)
  OBVIOUS
<1>4. dirs = DirsOf(job, r)
  <2>1. PICK m \in sent : m.op = "bitmap" /\ DataOf("bitmap", "world", 0) = m.data /\ Said(m)
    BY <1>1, HeardOf
  <2>2. DataOf("bitmap", "world", 0) = job.container.hostdirs
    BY <2>1 DEF Said
  <2>3. PICK k : k = Mult(job, r)
    OBVIOUS
  <2>4. k # 0 /\ hostdir_per_rank(r, job.np, rank[r].num) = k
    BY <1>2, <2>3, WideDirs DEF Mult
  <2>5. dirs = [i \in 1..k |-> count_to_hostdir(job.container.hostdirs, r + 1 + (i - 1) * job.np)]
    BY <1>3, <2>2, <2>4 DEF bitmap_to_dirname
  <2> QED BY <2>3, <2>5 DEF DirsOf, WideDir, count_to_hostdir
<1>5. PICK files : files = FilesIn(dirs)
  OBVIOUS
<1>6. CASE Goto(r, "dead") /\ UNCHANGED <<sent, lost>>
  <2>1. PICK t : Kept(rank, rank', job, r, t) /\ rank'[r] = t /\ t.at = "dead" /\ Served(r)'
    BY <1>1, <1>6, AtsAre, WentTo
  <2>2. Keeps(r, t, {}, {})
    BY <1>1, <1>6, <2>1 DEF Keeps, Stage
  <2>3. Placed(r)'
    BY <2>1 DEF Placed, NarrowAts, WideAts
  <2> QED BY <2>1, <2>2, <2>3, Preserved
<1>7. ASSUME NEW spoilt \in DOMAIN dirs, NEW p \in parAggregateIndices(files[spoilt], 0, 1), NEW index,
             index = ReadAll(dirs, files, spoilt, p),
             Enter("part", "world", r, global_to_stream(index)), lost' = lost \cup p.missed,
             Goto(r, "allgather")
      PROVE  ParInv'
  <2>1. PICK t : /\ Kept(rank, rank', job, r, t) /\ rank'[r] = t /\ t.at = "allgather"
                 /\ t.num = rank[r].num /\ t.bitmap = rank[r].bitmap /\ Served(r)'
    BY <1>1, <1>7, AtsAre, WentTo
  <2>2. PICK C, data : C = ChunksOf(job.container.droppings) /\ data = global_to_stream(index)
    OBVIOUS
  <2>3. p.missed \subseteq Share(job, r) /\ Serves(C, data, Share(job, r) \ p.missed)
    <3>1. /\ files = FilesIn(DirsOf(job, r)) /\ spoilt \in DOMAIN DirsOf(job, r)
          /\ index = ReadAll(DirsOf(job, r), files, spoilt, p)
      BY <1>4, <1>5, <1>7
    <3> QED BY <1>2, <2>2, <3>1, WideRead
  <2>4. PICK m : m = [op |-> "part", comm |-> "world", rank |-> r, data |-> data]
    OBVIOUS
  <2>5. sent' = sent \cup {m}
    BY <1>7, <2>2, <2>4 DEF Enter
  <2>6. Stage(rank[r].at) = 4 /\ Leaving(m.op) = 5 /\ Stage(t.at) = 6
    BY <1>1, <2>1, <2>4 DEF Stage, Leaving
  <2>7. Keeps(r, t, {m}, p.missed)
    BY <1>1, <1>7, <2>1, <2>3, <2>4, <2>5, <2>6 DEF Keeps
  <2>8. Placed(r)'
    BY <1>1, <1>2, <2>1 DEF Placed, NarrowAts, WideAts
  <2>9. Share(job, r) \cap lost = {}
    BY <1>2, <2>6, NotLostYet
  <2>10. Share(job, r) \ p.missed = Share(job, r) \ lost'
    BY <1>7, <2>9
  <2>11. Serves(C, data, Share(job, r) \ lost)'
    BY <1>1, <2>3, <2>10
  <2>12. Said(m)'
    BY <1>1, <1>2, <2>2, <2>4, <2>11 DEF Said
  <2> QED BY <2>1, <2>7, <2>8, <2>12, Preserved
<1>8. \/ Goto(r, "dead") /\ UNCHANGED <<sent, lost>>
      \/ \E spoilt \in DOMAIN dirs : \E p \in parAggregateIndices(files[spoilt], 0, 1) :
         \E index \in {ReadAll(dirs, files, spoilt, p)} :
           /\ Enter("part", "world", r, global_to_stream(index))
           /\ lost' = lost \cup p.missed
           /\ Goto(r, "allgather")
  BY <1>3, <1>5 DEF ReadHostdirs, ReadAll, FilesIn
<1> QED BY <1>6, <1>7, <1>8

(* A rank opens.                                                            *)
LEMMA OpenedAs ==
  ASSUME ParInv, NEW r \in RanksOf(job), NEW i \in Indexes(job.container.droppings), NEW o \in BOOLEAN,
         NEW e \in {0, -1}, OpenAs(r, i, o, e)
  PROVE  \E t : /\ Kept(rank, rank', job, r, t) /\ rank'[r] = t /\ t.at = "result"
               /\ t.index = i /\ t.opened = o
<1>1. PICK s : s = rank[r]
  OBVIOUS
<1>2. rank \in [RanksOf(job) -> StatesOf(job)] /\ s \in StatesOf(job)
  BY <1>1, RankIs
<1>3. PICK a \in Ats : a = "result"
  BY AtsAre
<1>4. PICK t : t = Outcome(s, i, o, e, a)
  OBVIOUS
<1>5. t \in StatesOf(job) /\ t.at = a /\ t.index = i /\ t.opened = o
  BY <1>2, <1>4, StateOpened
<1>6. rank' = [rank EXCEPT ![r] = t]
  BY <1>1, <1>3, <1>4 DEF OpenAs, Outcome
<1>7. Kept(rank, rank', job, r, t) /\ rank'[r] = t
  BY <1>2, <1>5, <1>6, Moved DEF Kept
<1> QED BY <1>3, <1>5, <1>7

LEMMA HasOpened ==
  ASSUME ParInv, NEW r \in RanksOf(job), NEW t, NEW new, NEW missed, Keeps(r, t, new, missed),
         rank'[r] = t, t.at \in {"result", "returned"}, t.opened => Whole(t.index.chunks)
  PROVE  Placed(r)' /\ Served(r)'
<1>1. EnteredOnce' /\ sent \subseteq sent' /\ job' = job
  BY StillOnce DEF Keeps
<1>2. t.opened => Whole(t.index.chunks)'
  BY <1>1, StreamsKept
<1>3. Placed(r)'
  BY DEF Placed, NarrowAts, WideAts
<1>4. Served(r)'
  BY <1>2 DEF Served
<1> QED BY <1>3, <1>4

LEMMA NoIndexIs ==
  ASSUME NEW D
  PROVE  NoIndex \in Indexes(D)
<1>1. <<>> \in Seq(ChunksOf(D)) /\ {} \in SUBSET {d[2] : d \in D}
  BY EmptySeq
<1> QED BY <1>1 DEF NoIndex, Indexes

LEMMA ResultsAre ==
  ASSUME NEW r, NEW err \in {0, -1}, NEW m \in Results(r, err)
  PROVE  m.op = "err" /\ m.rank = r /\ m.data \in {0, -1} /\ \A n \in Results(r, err) : n = m
BY DEF Results

LEMMA OpenWithStreamKept ==
  ASSUME ParInv, NEW r \in RanksOf(job), OpenWithStream(r)
  PROVE  ParInv'
<1>1. /\ rank[r].at = "plfs_open" /\ job' = job /\ lost' = lost /\ sent' = sent \cup Results(r, 0)
      /\ OpenAs(r, global_from_stream(NoIndex, rank[r].stream), TRUE, 0)
  BY DEF OpenWithStream
<1>2. PICK stream, D : stream = rank[r].stream /\ D = job.container.droppings
  OBVIOUS
<1>3. Whole(stream)
  BY <1>1, <1>2, RankIs DEF Served
<1>4. stream \in Seq(ChunksOf(D))
  BY <1>2, <1>3, WholeServes DEF Serves
<1>5. PICK i : i = global_from_stream(NoIndex, stream)
  OBVIOUS
<1>6. i = [units |-> {}, chunks |-> stream]
  <2>1. <<>> \o stream = stream
    BY <1>4, ConcatEmptySeq
  <2> QED BY <1>5, <2>1 DEF global_from_stream, NoIndex
<1>7. i \in Indexes(D) /\ i.chunks = stream
  <2>1. {} \in SUBSET {d[2] : d \in D}
    OBVIOUS
  <2> QED BY <1>4, <1>6, <2>1 DEF Indexes
<1>8. PICK o \in BOOLEAN, e \in {0, -1} : o = TRUE /\ e = 0
  OBVIOUS
<1>9. OpenAs(r, i, o, e)
  BY <1>1, <1>2, <1>5, <1>8
<1>10. PICK t : /\ Kept(rank, rank', job, r, t) /\ rank'[r] = t /\ t.at = "result"
                /\ t.index = i /\ t.opened = o
  BY <1>2, <1>7, <1>9, OpenedAs
<1>11. Stage(rank[r].at) = 8 /\ Stage(t.at) = 9 /\ Leaving("err") = 8
  BY <1>1, <1>10 DEF Stage, Leaving
<1>12. Keeps(r, t, Results(r, 0), {})
  BY <1>1, <1>10, <1>11, ResultsAre DEF Keeps
<1>13. Placed(r)' /\ Served(r)'
  BY <1>3, <1>7, <1>10, <1>12, HasOpened
<1>14. \A m \in Results(r, 0) : Said(m)'
  BY ResultsAre DEF Said
<1> QED BY <1>12, <1>13, <1>14, Preserved

LEMMA OpenAloneKept ==
  ASSUME ParInv, NEW r \in RanksOf(job), OpenAlone(r)
  PROVE  ParInv'
<1>1. rank[r].at = "start" /\ job.hint = "alone" /\ job' = job /\ lost' = lost /\ job \in Jobs
  BY DEF OpenAlone, ParInv
<1>2. ASSUME NEW i \in Indexes(job.container.droppings), NEW o \in BOOLEAN, NEW e \in {0, -1},
             OpenAs(r, i, o, e), sent' = sent \cup Results(r, e), o => Whole(i.chunks)
      PROVE  ParInv'
  <2>1. PICK t : /\ Kept(rank, rank', job, r, t) /\ rank'[r] = t /\ t.at = "result"
                 /\ t.index = i /\ t.opened = o
    BY <1>2, OpenedAs
  <2>2. Stage(rank[r].at) = 0 /\ Stage(t.at) = 9 /\ Leaving("err") = 8
    BY <1>1, <2>1 DEF Stage, Leaving
  <2>3. Keeps(r, t, Results(r, e), {})
    BY <1>1, <1>2, <2>1, <2>2, ResultsAre DEF Keeps
  <2>4. Placed(r)' /\ Served(r)'
    BY <1>2, <2>1, <2>3, HasOpened
  <2>5. \A m \in Results(r, e) : Said(m)'
    BY ResultsAre DEF Said
  <2> QED BY <2>3, <2>4, <2>5, Preserved
<1>3. CASE OpenAs(r, Populated, TRUE, 0) /\ sent' = sent \cup Results(r, 0)
  <2>1. PICK i : i = Populated
    OBVIOUS
  <2>2. PICK o \in BOOLEAN, e \in {0, -1} : o = TRUE /\ e = 0
    OBVIOUS
  <2>3. i \in Indexes(job.container.droppings) /\ Whole(i.chunks)
    BY <1>1, <2>1, PopulatedServes DEF Whole, global_to_stream
  <2>4. OpenAs(r, i, o, e) /\ sent' = sent \cup Results(r, e)
    BY <1>3, <2>1, <2>2
  <2> QED BY <1>2, <2>3, <2>4
<1>4. CASE OpenAs(r, NoIndex, FALSE, -1) /\ sent' = sent \cup Results(r, -1)
  <2>1. PICK i : i = NoIndex
    OBVIOUS
  <2>2. PICK o \in BOOLEAN, e \in {0, -1} : o = FALSE /\ e = -1
    OBVIOUS
  <2>3. i \in Indexes(job.container.droppings) /\ ~o
    BY <2>1, <2>2, NoIndexIs
  <2>4. OpenAs(r, i, o, e) /\ sent' = sent \cup Results(r, e)
    BY <1>4, <2>1, <2>2
  <2> QED BY <1>2, <2>3, <2>4
<1> QED BY <1>3, <1>4 DEF OpenAlone

LEMMA OpenFirstKept ==
  ASSUME ParInv, OpenFirst
  PROVE  ParInv'
<1>1. /\ rank[0].at = "start" /\ job.hint = "broadcast" /\ job' = job /\ lost' = lost /\ job \in Jobs
      /\ 0 \in RanksOf(job)
  BY RanksAre DEF OpenFirst, ParInv
<1>2. ASSUME NEW i \in Indexes(job.container.droppings), NEW o \in BOOLEAN, NEW e \in {0, -1}, NEW more,
             OpenAs(0, i, o, e), sent' = sent \cup (Results(0, e) \cup more), o => Whole(i.chunks),
             \A m \in more : m.op \in {"opened", "stream"} /\ m.rank = 0,
             \A m, n \in more : m.op = n.op => m = n,
             \A m \in more : Said(m)'
      PROVE  ParInv'
  <2>1. PICK t : /\ Kept(rank, rank', job, 0, t) /\ rank'[0] = t /\ t.at = "result"
                 /\ t.index = i /\ t.opened = o
    BY <1>1, <1>2, OpenedAs
  <2>2. /\ Stage(rank[0].at) = 0 /\ Stage(t.at) = 9
        /\ Leaving("err") = 8 /\ Leaving("opened") = 8 /\ Leaving("stream") = 8
    BY <1>1, <2>1 DEF Stage, Leaving
  <2>3. PICK new : new = Results(0, e) \cup more
    OBVIOUS
  <2>4. \A m \in new : m.rank = 0 /\ Leaving(m.op) = 8
    BY <1>2, <2>2, <2>3, ResultsAre
  <2>5. \A m, n \in new : m.op = n.op => m = n
    <3>1. ASSUME NEW m \in Results(0, e), NEW n \in new, m.op = n.op PROVE m = n
      <4>1. m.op = "err" /\ n \in Results(0, e)
        BY <1>2, <2>3, <3>1, ResultsAre
      <4> QED BY <4>1, ResultsAre
    <3>2. ASSUME NEW m \in more, NEW n \in more, m.op = n.op PROVE m = n
      BY <1>2, <3>2
    <3> QED BY <2>3, <3>1, <3>2
  <2>6. Keeps(0, t, new, {})
    <3>1. Stage(rank[0].at) < Stage(t.at) /\ sent' = sent \cup new /\ lost' = lost \cup {}
      BY <1>1, <1>2, <2>2, <2>3
    <3>2. \A m \in new : /\ m.rank = 0
                         /\ Stage(rank[0].at) <= Leaving(m.op) /\ Leaving(m.op) < Stage(t.at)
      BY <2>2, <2>4
    <3> QED BY <1>1, <2>1, <2>5, <3>1, <3>2 DEF Keeps
  <2>7. Placed(0)' /\ Served(0)'
    BY <1>1, <1>2, <2>1, <2>6, HasOpened
  <2>8. \A m \in Results(0, e) : Said(m)'
    BY ResultsAre DEF Said
  <2>9. \A m \in new : Said(m)'
    BY <1>2, <2>3, <2>8
  <2> QED BY <1>1, <2>6, <2>7, <2>9, Preserved
<1>3. PICK opened, failed, stream :
        /\ opened = [op |-> "opened", comm |-> "world", rank |-> 0, data |-> 0]
        /\ failed = [op |-> "opened", comm |-> "world", rank |-> 0, data |-> -1]
        /\ stream = [op |-> "stream", comm |-> "world", rank |-> 0, data |-> global_to_stream(Populated)]
  OBVIOUS
<1>4. CASE /\ OpenAs(0, Populated, TRUE, 0)
           /\ sent' = sent \cup Results(0, 0) \cup {opened, stream}
  <2>1. PICK i : i = Populated
    OBVIOUS
  <2>2. PICK o \in BOOLEAN, e \in {0, -1} : o = TRUE /\ e = 0
    OBVIOUS
  <2>3. PICK more : more = {opened, stream}
    OBVIOUS
  <2>4. i \in Indexes(job.container.droppings) /\ Whole(i.chunks) /\ Whole(global_to_stream(Populated))
    BY <1>1, <2>1, PopulatedServes DEF Whole, global_to_stream
  <2>5. OpenAs(0, i, o, e) /\ sent' = sent \cup (Results(0, e) \cup more)
    BY <1>4, <2>1, <2>2, <2>3
  <2>6. Entered("stream", "world", 0)'
    BY <1>3, <1>4 DEF Entered
  <2>7. Said(opened)'
    BY <1>3, <2>6 DEF Said
  <2>8. Said(stream)'
    <3>1. Populated' = Populated
      BY <1>1 DEF Populated, indexTaskManager
    <3>2. Whole(global_to_stream(Populated))'
      BY <1>1, <3>1 DEF Whole, global_to_stream
    <3>3. PICK d : d = global_to_stream(Populated)
      OBVIOUS
    <3>4. d = global_to_stream(Populated)'
      BY <3>1, <3>3 DEF global_to_stream
    <3>5. Whole(d)'
      BY <1>1, <3>4 DEF Whole
    <3> QED BY <1>1, <1>3, <3>3, <3>5 DEF Said
  <2>9. /\ \A m \in more : m.op \in {"opened", "stream"} /\ m.rank = 0
        /\ \A m, n \in more : m.op = n.op => m = n
        /\ \A m \in more : Said(m)'
    BY <1>3, <2>3, <2>7, <2>8
  <2> QED BY <1>2, <2>4, <2>5, <2>9
<1>5. CASE /\ OpenAs(0, NoIndex, FALSE, -1)
           /\ sent' = sent \cup Results(0, -1) \cup {failed}
  <2>1. PICK i : i = NoIndex
    OBVIOUS
  <2>2. PICK o \in BOOLEAN, e \in {0, -1} : o = FALSE /\ e = -1
    OBVIOUS
  <2>3. PICK more : more = {failed}
    OBVIOUS
  <2>4. i \in Indexes(job.container.droppings) /\ ~o
    BY <2>1, <2>2, NoIndexIs
  <2>5. OpenAs(0, i, o, e) /\ sent' = sent \cup (Results(0, e) \cup more)
    BY <1>5, <2>1, <2>2, <2>3
  <2>6. Said(failed)'
    BY <1>3 DEF Said
  <2>7. /\ \A m \in more : m.op \in {"opened", "stream"} /\ m.rank = 0
        /\ \A m, n \in more : m.op = n.op => m = n
        /\ \A m \in more : Said(m)'
    BY <1>3, <2>3, <2>6
  <2> QED BY <1>2, <2>4, <2>5, <2>7
<1> QED BY <1>3, <1>4, <1>5 DEF OpenFirst

LEMMA ReceiveIndexKept ==
  ASSUME ParInv, NEW r \in RanksOf(job), ReceiveIndex(r)
  PROVE  ParInv'
<1>1. /\ rank[r].at = "start" /\ job.hint = "broadcast" /\ job' = job /\ lost' = lost /\ sent' = sent
      /\ Entered("opened", "world", 0)
  BY DEF ReceiveIndex
<1>2. CASE DataOf("opened", "world", 0) # 0
  <2>1. PICK i : i = NoIndex
    OBVIOUS
  <2>2. PICK o \in BOOLEAN, e \in {0, -1} : o = FALSE /\ e = -1
    OBVIOUS
  <2>3. i \in Indexes(job.container.droppings) /\ ~o
    BY <2>1, <2>2, NoIndexIs
  <2>4. OpenAs(r, i, o, e)
    BY <1>2, <2>1, <2>2 DEF ReceiveIndex
  <2>5. PICK t : /\ Kept(rank, rank', job, r, t) /\ rank'[r] = t /\ t.at = "result"
                 /\ t.index = i /\ t.opened = o
    BY <2>3, <2>4, OpenedAs
  <2>6. Keeps(r, t, {}, {})
    BY <1>1, <2>5 DEF Keeps, Stage
  <2>7. Placed(r)' /\ Served(r)'
    BY <2>3, <2>5, <2>6, HasOpened
  <2> QED BY <2>6, <2>7, Preserved
<1>3. CASE DataOf("opened", "world", 0) = 0
  <2>1. PICK stream : stream = DataOf("stream", "world", 0)
    OBVIOUS
  <2>2. Entered("stream", "world", 0)
    <3>1. PICK m \in sent : m.op = "opened" /\ DataOf("opened", "world", 0) = m.data /\ Said(m)
      BY <1>1, HeardOf
    <3> QED BY <1>3, <3>1 DEF Said
  <2>3. Whole(stream)
    <3>1. PICK m \in sent : m.op = "stream" /\ DataOf("stream", "world", 0) = m.data /\ Said(m)
      BY <2>2, HeardOf
    <3> QED BY <2>1, <3>1 DEF Said
  <2>4. Streamed(r, stream)
    BY <1>3, <2>1 DEF ReceiveIndex
  <2>5. PICK t : /\ Kept(rank, rank', job, r, t) /\ rank'[r] = t /\ t.at = "plfs_open"
                 /\ t.stream = stream /\ ~t.opened
    BY <1>1, <2>3, <2>4, GotStream
  <2>6. Keeps(r, t, {}, {})
    BY <1>1, <2>5 DEF Keeps, Stage
  <2>7. Placed(r)' /\ Served(r)'
    BY <2>3, <2>5, <2>6, HasWhole
  <2> QED BY <2>6, <2>7, Preserved
<1> QED BY <1>2, <1>3

LEMMA ReceiveResultKept ==
  ASSUME ParInv, NEW r \in RanksOf(job), ReceiveResult(r)
  PROVE  ParInv'
<1>1. PICK s, e : s = rank[r] /\ e = DataOf("err", "world", 0)
  OBVIOUS
<1>2. /\ s.at = "result" /\ job' = job /\ lost' = lost /\ sent' = sent
      /\ Entered("err", "world", 0)
      /\ rank' = [rank EXCEPT ![r] = [@ EXCEPT !.err = e, !.at = "returned"]]
  BY <1>1 DEF ReceiveResult
<1>3. rank \in [RanksOf(job) -> StatesOf(job)] /\ s \in StatesOf(job) /\ Served(r)
  BY <1>1, RankIs
<1>4. e \in {0, -1}
  <2>1. PICK m \in sent : m.op = "err" /\ DataOf("err", "world", 0) = m.data /\ Said(m)
    BY <1>2, HeardOf
  <2> QED BY <1>1, <2>1 DEF Said
<1>5. PICK a \in Ats : a = "returned"
  BY AtsAre
<1>6. PICK t : t = Returning(s, e, a)
  OBVIOUS
<1>7. t \in StatesOf(job) /\ t.at = a /\ t.index = s.index /\ t.opened = s.opened
  BY <1>3, <1>4, <1>6, StateReturned
<1>8. rank' = [rank EXCEPT ![r] = t]
  BY <1>1, <1>2, <1>5, <1>6 DEF Returning
<1>9. Kept(rank, rank', job, r, t) /\ rank'[r] = t
  BY <1>3, <1>7, <1>8, Moved DEF Kept
<1>10. Keeps(r, t, {}, {})
  BY <1>1, <1>2, <1>5, <1>7, <1>9 DEF Keeps, Stage
<1>11. t.opened => Whole(t.index.chunks)
  BY <1>1, <1>3, <1>7 DEF Served
<1>12. Placed(r)' /\ Served(r)'
  BY <1>5, <1>7, <1>9, <1>10, <1>11, HasOpened
<1> QED BY <1>10, <1>12, Preserved

-----------------------------------------------------------------------------
LEMMA ParInvStarts ==
  ASSUME OpenInit
  PROVE  ParInv
<1>1. job \in Jobs /\ rank = [r \in RanksOf(job) |-> Starting] /\ sent = {} /\ lost = {}
  BY DEF OpenInit, Ranks, RanksOf
<1>2. Starting \in StatesOf(job)
  <2>1. PICK s : s = Starting
    OBVIOUS
  <2>2. s = [at |-> "start", num |-> 0, bitmap |-> {}, stream |-> <<>>,
             index |-> NoIndex, opened |-> FALSE, err |-> 0]
    BY <2>1 DEF Starting
  <2>3. s = [at |-> s.at, num |-> s.num, bitmap |-> s.bitmap, stream |-> s.stream,
             index |-> s.index, opened |-> s.opened, err |-> s.err]
    BY <2>2
  <2>4. /\ s.at \in Ats /\ s.num \in Nat /\ s.bitmap \in SUBSET Nat
        /\ s.stream \in Seq(ChunksOf(job.container.droppings))
        /\ s.index = NoIndex /\ s.opened \in BOOLEAN /\ s.err \in {0, -1}
    BY <2>2, EmptySeq DEF Ats
  <2> QED BY <2>1, <2>3, <2>4, NoIndexIs, StateMade
<1>3. rank \in [RanksOf(job) -> StatesOf(job)]
  BY <1>1, <1>2
<1>4. ASSUME NEW r \in RanksOf(job) PROVE Placed(r) /\ Served(r)
  <2>1. rank[r].at = "start" /\ ~rank[r].opened
    BY <1>1 DEF Starting
  <2> QED BY <2>1 DEF Placed, Served, NarrowAts, WideAts
<1> QED BY <1>1, <1>3, <1>4 DEF ParInv, EnteredOnce, LostInAPart

LEMMA ParInvKept ==
  ASSUME ParInv, [OpenNext]_openVars
  PROVE  ParInv'
<1>1. ASSUME NEW r \in Ranks, RankStep(r) PROVE ParInv'
  <2>1. r \in RanksOf(job)
    BY DEF Ranks, RanksOf
  <2>2. CASE ReceiveCount(r)
    BY <2>1, <2>2, ReceiveCountKept
  <2>3. CASE ChooseWay(r)
    BY <2>1, <2>3, ChooseWayKept
  <2>4. CASE SplitHostdirs(r)
    BY <2>1, <2>4, SplitHostdirsKept
  <2>5. CASE SplitZeros(r)
    BY <2>1, <2>5, SplitZerosKept
  <2>6. CASE ListHostdir(r)
    BY <2>1, <2>6, ListHostdirKept
  <2>7. CASE ReadDroppings(r)
    BY <2>1, <2>7, ReadDroppingsKept
  <2>8. CASE GatherParts(r)
    BY <2>1, <2>8, GatherPartsKept
  <2>9. CASE MergeHostdirs(r)
    BY <2>1, <2>9, MergeHostdirsKept
  <2>10. CASE ReceiveGlobal(r)
    BY <2>1, <2>10, ReceiveGlobalKept
  <2>11. CASE ReadHostdirs(r)
    BY <2>1, <2>11, ReadHostdirsKept
  <2>12. CASE MergeParts(r)
    BY <2>1, <2>12, MergePartsKept
  <2>13. CASE OpenWithStream(r)
    BY <2>1, <2>13, OpenWithStreamKept
  <2>14. CASE OpenAlone(r)
    BY <2>1, <2>14, OpenAloneKept
  <2>15. CASE ReceiveIndex(r)
    BY <2>1, <2>15, ReceiveIndexKept
  <2>16. CASE ReceiveResult(r)
    BY <2>1, <2>16, ReceiveResultKept
  <2>17. CASE num_host_dirs
    BY <2>17, CountKept
  <2>18. CASE OpenFirst
    BY <2>18, OpenFirstKept
  <2> QED BY <1>1, <2>2, <2>3, <2>4, <2>5, <2>6, <2>7, <2>8, <2>9, <2>10, <2>11, <2>12, <2>13, <2>14,
             <2>15, <2>16, <2>17, <2>18 DEF RankStep, Step
<1>2. CASE UNCHANGED openVars
  <2>1. job' = job /\ rank' = rank /\ sent' = sent /\ lost' = lost /\ Ranks' = Ranks
    BY <1>2 DEF openVars, Ranks
  <2>2. EnteredOnce' /\ sent \subseteq sent'
    BY <2>1 DEF ParInv, EnteredOnce
  <2>3. (\A s : Whole(s) => Whole(s)') /\ (Colored => Colored')
    BY <2>1, <2>2, StreamsKept
  <2>4. ASSUME NEW q \in RanksOf(job) PROVE Placed(q)' /\ Served(q)'
    <3>1. Placed(q)'
      BY <2>1, <2>3 DEF ParInv, Placed
    <3>2. Served(q)'
      BY <2>1, <2>3 DEF ParInv, Served
    <3> QED BY <3>1, <3>2
  <2>5. \A m \in sent : Said(m)'
    BY <2>1, <2>2, SaidKept
  <2> QED BY <2>1, <2>2, <2>4, <2>5 DEF ParInv, LostInAPart
<1> QED BY <1>1, <1>2 DEF OpenNext

LEMMA ParInvServes ==
  ASSUME ParInv
  PROVE  EveryDroppingOnce
<1>1. Ranks = RanksOf(job)
  BY DEF Ranks, RanksOf
<1>2. PICK D, C : D = job.container.droppings /\ C = ChunksOf(job.container.droppings)
  OBVIOUS
<1>3. ASSUME NEW r \in Ranks, rank[r].opened
      PROVE  Whole(rank[r].index.chunks)
  BY <1>1, <1>3 DEF ParInv, Served
<1>4. ASSUME NEW r \in Ranks, rank[r].opened, NEW d \in D
      PROVE  Cardinality({i \in DOMAIN rank[r].index.chunks :
                rank[r].index.chunks[i].dropping = d /\ d[2] \in rank[r].index.chunks[i].ids})
               = IF d \in lost THEN 0 ELSE 1
  <2>1. PICK s : s = rank[r].index.chunks
    OBVIOUS
  <2>2. Serves(C, s, D \ lost)
    BY <1>2, <1>3, <1>4, <2>1, WholeServes
  <2>3. Cardinality({i \in DOMAIN s : s[i].dropping = d /\ d[2] \in s[i].ids})
          = IF d \in D \ lost THEN 1 ELSE 0
    BY <2>2, TimesServed
  <2> QED BY <1>4, <2>1, <2>3
<1>5. ASSUME NEW r \in Ranks, rank[r].opened, NEW q \in Ranks, rank[q].opened
      PROVE  rank[q].index.chunks = rank[r].index.chunks
  BY <1>3, <1>5, WholeIsOne
<1> QED BY <1>2, <1>4, <1>5 DEF EveryDroppingOnce

(* Every rank that has the file open has every dropping once, but for those *)
(* that were lost, and all have the same: however many ranks there are, and *)
(* however many hostdirs and droppings in them.                             *)
THEOREM OpensServeEveryDropping == OpenSpec => []EveryDroppingOnce
<1>1. OpenInit => ParInv
  BY ParInvStarts
<1>2. ParInv /\ [OpenNext]_openVars => ParInv'
  BY ParInvKept
<1>3. ParInv => EveryDroppingOnce
  BY ParInvServes
<1> QED BY <1>1, <1>2, <1>3, PTL DEF OpenSpec

=============================================================================
