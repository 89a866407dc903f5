----------------------------- MODULE OpenFiles -----------------------------
(***************************************************************************)
(* The open files of one FUSE daemon (fuse/plfs_fuse.cpp) and the shared   *)
(* handles they refer to (plfs_open, plfs_close and Plfs_fd, src/plfs.cpp  *)
(* and src/OpenFile.cpp).                                                  *)
(*                                                                         *)
(* Every open has an OpenFile of its own.  Opens of the same path with the *)
(* same flags (and user: one user is modelled, another one is like other   *)
(* flags) share a Plfs_fd, found through the table open_files.  The        *)
(* handlers run under fd_mutex, so each is one action.  What they leave in *)
(* the container, open records and metadata, is what a later stat uses.    *)
(*                                                                         *)
(* A path is a sequence of letters, since f_rename compares prefixes.  A   *)
(* file is the number of its creation; a handle's number is never reused,  *)
(* so that a pointer to a deleted handle can be told.                      *)
(***************************************************************************)
EXTENDS Integers, FiniteSets, Sequences, SequencesExt

CONSTANTS
  Path,       \* names files may have
  Pid,        \* processes
  Flags,      \* "r", "w" or "rw": how files are opened
  Handle,     \* Plfs_fds that may be created
  MayFail,    \* what may fail inside plfs_open: "addWriter", "populateIndex"
  OpenFile,   \* the OpenFiles, one per open at a time
  MaxFiles, MaxRenames   \* bounds: files created, renames

ASSUME FlagsAssumption == Flags \subseteq {"r", "w", "rw"}

(* What a path is made of. *)
Letter == UNION {{p[i] : i \in 1..Len(p)} : p \in Path}

ASSUME PathAssumption == \A p \in Path : p \in Seq(Letter) /\ Len(p) > 0
ASSUME BoundAssumption == MaxFiles \in Nat /\ MaxRenames \in Nat

VARIABLES
  container,   \* the backend: the file a path names, 0 when there is none
  created,     \* files created so far
  open_files,  \* the daemon's table: Plfs_fd of a path and flags
  fd,          \* the Plfs_fds
  opens,       \* the OpenFiles in use: itself, Plfs_fd, process, flags
  records,     \* open records: file and process
  metas,       \* files with a metadata dropping
  renames,     \* renames so far, for the bound
  dragged,     \* history: Plfs_fds rebound by the rename of another file
  moved,       \* history: files renamed while open
  half_opened, \* history: Plfs_fds on which an open failed half-way
  twice,       \* history: open records two Plfs_fds made
  wrote        \* history: files opened for writing

backend == <<container, created>>
history == <<dragged, moved, half_opened, twice, wrote>>
vars == <<backend, open_files, fd, opens, records, metas, renames, history>>

isWriter(fl) == fl \in {"w", "rw"}

(* A Plfs_fd that does not exist, or no longer does. *)
NoFd == [state |-> "new", file |-> 0, path |-> << >>, logical |-> FALSE, pid |-> "none",
         refs |-> 0, writers |-> 0, readers |-> 0, wf |-> FALSE]

Init ==
  /\ container = [p \in Path |-> 0] /\ created = 0
  /\ open_files = [k \in {} |-> 0]
  /\ fd = [h \in Handle |-> NoFd]
  /\ opens = {}
  /\ records = {} /\ metas = {}
  /\ renames = 0
  /\ dragged = {} /\ moved = {} /\ half_opened = {} /\ twice = {} /\ wrote = {}

OpensOf(h) == {o \in opens : o.h = h}

IsOpen(file) == \E o \in opens : fd[o.h].file = file

(* FUSE passes the path a file has now: the test tests/rename.C is about it. *)
NameOf(file) == CHOOSE p \in Path : container[p] = file

(* plfs_reference_count's assertion: otherwise the daemon aborts.           *)
CountsAgree(h) == fd[h].refs = fd[h].writers + fd[h].readers

(* A handle the code may go on using: neither it nor its WriteFile has been *)
(* deleted, and the assertion holds.  Where a handler meets another one the *)
(* daemon aborts or has undefined behaviour, and the model goes no further. *)
Usable(h) ==
  /\ fd[h].state = "live" /\ CountsAgree(h)
  /\ fd[h].writers > 0 => fd[h].wf

-----------------------------------------------------------------------------
(* f_mknod of a path that does not exist.                                   *)
Create(p) ==
  /\ container[p] = 0 /\ created < MaxFiles
  /\ created' = created + 1
  /\ container' = [container EXCEPT ![p] = created + 1]
  /\ UNCHANGED <<open_files, fd, opens, records, metas, renames, history>>

(* What one more open does to the counts of a Plfs_fd.  A read-write open   *)
(* drops its index before it returns, so only its writer is counted.        *)
Counted(f, fl) ==
  IF isWriter(fl) THEN [f EXCEPT !.refs = @ + 1, !.writers = @ + 1, !.wf = TRUE]
  ELSE [f EXCEPT !.refs = @ + 1, !.readers = @ + 1]

(* The first open of a path with these flags makes the Plfs_fd, and an open *)
(* record if it is for writing.  A failure in between leaves nothing in the *)
(* table, at most objects nobody deletes: it is not an action.              *)
OpenNew(p, pid, fl, n) ==
  /\ container[p] # 0
  /\ <<p, fl>> \notin DOMAIN open_files
  /\ \E h \in Handle :
       /\ fd[h].state = "new"
       /\ fd' = [fd EXCEPT ![h] =
            Counted([NoFd EXCEPT !.state = "live", !.file = container[p], !.path = p, !.pid = pid], fl)]
       /\ open_files' = [k \in DOMAIN open_files \cup {<<p, fl>>} |->
                           IF k = <<p, fl>> THEN h ELSE open_files[k]]
       /\ opens' = opens \cup {[n |-> n, h |-> h, pid |-> pid, flags |-> fl]}
  /\ IF isWriter(fl)
     THEN /\ records' = records \cup {<<container[p], pid>>}
          /\ twice' = twice \cup ({<<container[p], pid>>} \cap records)
          /\ wrote' = wrote \cup {container[p]}
     ELSE UNCHANGED <<records, twice, wrote>>
  /\ UNCHANGED <<backend, metas, renames, dragged, moved, half_opened>>

\* Mutant: the Plfs_fd found in the table is used without counting the open.
OpenShared_Uncounted(p, pid, fl, n) ==
  /\ container[p] # 0
  /\ <<p, fl>> \in DOMAIN open_files
  /\ LET h == open_files[<<p, fl>>] IN
       /\ Usable(h)
       /\ opens' = opens \cup {[n |-> n, h |-> h, pid |-> pid, flags |-> fl]}
  /\ UNCHANGED <<backend, open_files, fd, records, metas, renames, history>>

OpenShared(p, pid, fl, n) ==
  /\ container[p] # 0
  /\ <<p, fl>> \in DOMAIN open_files
  /\ LET h == open_files[<<p, fl>>] IN
       /\ Usable(h)
       /\ fd' = [fd EXCEPT ![h] = Counted(@, fl)]
       /\ opens' = opens \cup {[n |-> n, h |-> h, pid |-> pid, flags |-> fl]}
  /\ UNCHANGED <<backend, open_files, records, metas, renames, history>>

(* addWriter fails on a shared Plfs_fd: plfs_open deletes the WriteFile the *)
(* Plfs_fd still points to.                                                 *)
OpenSharedLosesWriteFile(p, fl) ==
  /\ "addWriter" \in MayFail /\ isWriter(fl) /\ container[p] # 0
  /\ <<p, fl>> \in DOMAIN open_files
  /\ LET h == open_files[<<p, fl>>] IN
       /\ Usable(h)
       /\ fd' = [fd EXCEPT ![h].wf = FALSE]
       /\ half_opened' = half_opened \cup {h}
  /\ UNCHANGED <<backend, open_files, opens, records, metas, renames, dragged, moved, twice, wrote>>

(* populateIndex fails in a read-write open of a shared Plfs_fd, after      *)
(* addWriter has counted a writer.                                          *)
OpenSharedCountsWriter(p, fl) ==
  /\ "populateIndex" \in MayFail /\ fl = "rw" /\ container[p] # 0
  /\ <<p, fl>> \in DOMAIN open_files
  /\ LET h == open_files[<<p, fl>>] IN
       /\ Usable(h)
       /\ fd' = [fd EXCEPT ![h].writers = @ + 1]
       /\ half_opened' = half_opened \cup {h}
  /\ UNCHANGED <<backend, open_files, opens, records, metas, renames, dragged, moved, twice, wrote>>

-----------------------------------------------------------------------------
Uncounted(f, fl) ==
  IF isWriter(fl) THEN [f EXCEPT !.refs = @ - 1, !.writers = @ - 1, !.wf = f.writers > 1]
  ELSE [f EXCEPT !.refs = @ - 1, !.readers = @ - 1]

\* Mutant: every writer that closes behaves like the last one.
NobodyWrites_Ever(f) == TRUE

NobodyWrites(f) == f.writers = 0

(* The last writer of a Plfs_fd drops the metadata and then removes the     *)
(* open record, at the path the Plfs_fd has.  f_rename gives it a path      *)
(* under the mount point, where neither of the two exists: both fail and    *)
(* nothing looks at it.                                                     *)
\* Mutant: the last writer drops its metadata and leaves the open record.
DropMeta_KeepsRecord(f) ==
  IF f.logical THEN UNCHANGED <<records, metas>>
  ELSE /\ metas' = metas \cup {container[f.path]}
       /\ UNCHANGED records

DropMeta(f) ==
  IF f.logical THEN UNCHANGED <<records, metas>>
  ELSE /\ metas' = metas \cup {container[f.path]}
       /\ records' = records \ {<<container[f.path], f.pid>>}

\* Mutant: the handle is not taken out of the table with its last open.
Forget_Keeps(f, key) == open_files' = open_files

(* The last close deletes the Plfs_fd and takes the path of the call, with  *)
(* its flags, out of the table.                                             *)
Forget(f, key) ==
  open_files' = IF f.refs > 1 THEN open_files
                ELSE [k \in DOMAIN open_files \ {key} |-> open_files[k]]

Release(o) ==
  LET f == fd[o.h]
      after == Uncounted(f, o.flags)
  IN  /\ Usable(o.h)
      /\ opens' = opens \ {o}
      /\ fd' = [fd EXCEPT ![o.h] = IF after.refs = 0 THEN [NoFd EXCEPT !.state = "gone"] ELSE after]
      /\ IF isWriter(o.flags) /\ NobodyWrites(after) THEN DropMeta(f) ELSE UNCHANGED <<records, metas>>
      /\ Forget(f, <<NameOf(f.file), o.flags>>)
      /\ UNCHANGED <<backend, renames, history>>

-----------------------------------------------------------------------------
(* plfs_unlink of a file nobody has open (FUSE renames an open one away     *)
(* instead: see Rename), with everything in its container.                  *)
WithoutFile(file) ==
  /\ records' = {r \in records : r[1] # file}
  /\ metas' = metas \ {file}

Unlink(p) ==
  /\ container[p] # 0 /\ ~IsOpen(container[p])
  /\ container' = [container EXCEPT ![p] = 0]
  /\ WithoutFile(container[p])
  /\ UNCHANGED <<created, open_files, fd, opens, renames, history>>

(* findAllOpenFiles: the entries whose path begins with the renamed one.    *)
Matched(from) == {k \in DOMAIN open_files : IsPrefix(from, k[1])}

(* getRenameHash: the new path takes the place of the prefix.               *)
Renamed(k, from, to) == <<to \o SubSeq(k[1], Len(from) + 1, Len(k[1])), k[2]>>

\* Mutant: the table keeps the old path of the renamed file.
Rebound_Not(from, to) == open_files

Rebound(from, to) ==
  LET new == {Renamed(k, from, to) : k \in Matched(from)}
      old(k) == CHOOSE m \in Matched(from) : Renamed(m, from, to) = k
  IN  [k \in (DOMAIN open_files \ Matched(from)) \cup new |->
         IF k \in new THEN open_files[old(k)] ELSE open_files[k]]

(* f_rename: the container moves, over a file nobody has open, and the      *)
(* entries of the table with it.  Where an entry would be moved onto one    *)
(* that is itself still to be moved, the outcome depends on the order of    *)
(* the hash map: that case is left out.                                     *)
Rename(from, to) ==
  LET hs == {open_files[k] : k \in Matched(from)} IN
  /\ from # to /\ container[from] # 0 /\ ~IsOpen(container[to])
  /\ renames < MaxRenames
  /\ \A k, m \in Matched(from) : Renamed(k, from, to) # m
  /\ \A h \in hs : fd[h].state = "live"
  /\ container' = [container EXCEPT ![from] = 0, ![to] = container[from]]
  /\ WithoutFile(container[to])
  /\ open_files' = Rebound(from, to)
  /\ fd' = [h \in Handle |-> IF h \in hs THEN [fd[h] EXCEPT !.path = to, !.logical = TRUE] ELSE fd[h]]
  /\ renames' = renames + 1
  /\ dragged' = dragged \cup {h \in hs : fd[h].file # container[from]}
  /\ moved' = moved \cup {fd[o.h].file : o \in {q \in opens : q.h \in hs \/ fd[q.h].file = container[from]}}
  /\ UNCHANGED <<created, opens, half_opened, twice, wrote>>

-----------------------------------------------------------------------------
Opening(p, pid, fl) ==
  \E n \in OpenFile :
    /\ \A o \in opens : o.n # n
    /\ OpenNew(p, pid, fl, n) \/ OpenShared(p, pid, fl, n)

OpenFailing(p, fl) == OpenSharedLosesWriteFile(p, fl) \/ OpenSharedCountsWriter(p, fl)

Next ==
  \/ \E p \in Path : Create(p) \/ Unlink(p)
  \/ \E p \in Path, fl \in Flags : OpenFailing(p, fl) \/ (\E pid \in Pid : Opening(p, pid, fl))
  \/ \E o \in opens : Release(o)
  \/ \E from, to \in Path : Rename(from, to)

Spec == Init /\ [][Next]_vars

-----------------------------------------------------------------------------
Key == Seq(Letter) \X Flags

File == 0..MaxFiles

Fd == [state : {"new", "live", "gone"}, file : File, path : Path \cup {<< >>}, logical : BOOLEAN,
       pid : Pid \cup {"none"}, refs : Nat, writers : Nat, readers : Nat, wf : BOOLEAN]

Open == [n : OpenFile, h : Handle, pid : Pid, flags : Flags]

(* The types of the state. *)
TypeOK ==
  /\ container \in [Path -> File] /\ created \in File
  /\ DOMAIN open_files \subseteq Key /\ open_files \in [DOMAIN open_files -> Handle]
  /\ fd \in [Handle -> Fd]
  /\ opens \subseteq Open
  /\ records \subseteq (File \X Pid) /\ metas \subseteq File
  /\ renames \in 0..MaxRenames
  /\ dragged \subseteq Handle /\ half_opened \subseteq Handle
  /\ moved \subseteq File /\ wrote \subseteq File /\ twice \subseteq (File \X Pid)

(* plfs_close returns the number of opens left: a Plfs_fd counts the        *)
(* OpenFiles that point to it, and lives as long as one does.               *)
HandleOutlivesItsOpens ==
  \A h \in Handle \ half_opened :
    /\ fd[h].refs = Cardinality(OpensOf(h)) /\ CountsAgree(h)
    /\ OpensOf(h) # {} <=> fd[h].state = "live"
    /\ \A o \in OpensOf(h) : isWriter(o.flags) => fd[h].wf

(* Two opens of the same file with the same flags share a Plfs_fd,          *)
(* whatever was renamed in between: "otherwise, they'll open the same       *)
(* droppings".  Not after a rename has dragged along a file whose name only *)
(* begins like the renamed one: its release then takes the entry of a later *)
(* open out of the table.                                                   *)
OpensShareUnlessDragged ==
  dragged = {} =>
    \A o, q \in opens : o.flags = q.flags /\ fd[o.h].file = fd[q.h].file => o.h = q.h

(* The table has the live Plfs_fds, under the name their file has now, and  *)
(* never one that was deleted.                                              *)
Listed(h) ==
  \E k \in DOMAIN open_files : open_files[k] = h /\ k[1] = NameOf(fd[h].file)

TableIsCurrentUnlessDragged ==
  dragged = {} =>
    /\ \A k \in DOMAIN open_files : fd[open_files[k]].state = "live"
    /\ \A o \in opens : Listed(o.h)

BeingWritten(file) == \E h \in Handle : fd[h].state = "live" /\ fd[h].file = file /\ fd[h].writers > 0

(* A file being written has an open record, which is how a stat knows that  *)
(* its metadata is not final, except when one process has opened it through *)
(* two Plfs_fds and closed one.  Not after a rename has dragged a file      *)
(* along: a Plfs_fd that is then lost from the table keeps its old path,    *)
(* and removes the open record of a file that has come to be there.         *)
WritersAreRecordedUnlessDragged ==
  dragged = {} =>
    \A h \in Handle :
      fd[h].state = "live" /\ fd[h].writers > 0 /\ <<fd[h].file, fd[h].pid>> \notin twice
        => <<fd[h].file, fd[h].pid>> \in records

(* Once nobody writes a file any more, a stat finds its metadata dropping   *)
(* and no open record.  True of files that were not renamed while open.     *)
Final(file) == file \in metas /\ \A r \in records : r[1] # file

Exists(file) == \E p \in Path : container[p] = file

ClosedFilesAreFinal ==
  \A file \in wrote \ moved : Exists(file) /\ ~BeingWritten(file) => Final(file)

=============================================================================
