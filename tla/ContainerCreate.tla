-------------------------- MODULE ContainerCreate ---------------------------
(***************************************************************************)
(* Container::create (src/Container.cpp) on several nodes, against unlink, *)
(* writers that open the file, a user's mkdir and rmdir of the same name,  *)
(* failing calls and crashes; and the FUSE daemon's createdContainers,     *)
(* which lets f_mknod skip the call.  One file, one backend.               *)
(*                                                                         *)
(* A container is a directory with an access file.  It is made under a     *)
(* name of the host and pid alone, renamed to its place, and completed     *)
(* there with a meta directory, a version file and, by every creator, the  *)
(* directory of its host.                                                  *)
(***************************************************************************)
EXTENDS Integers, FiniteSets

CONSTANTS
  Nodes,
  Unlinkers,         \* the nodes that unlink the file,
  Openers,           \* and those that open it to write
  ExtraAttempts,     \* 5 in the code
  Tops,              \* what may be at the name at first
  Faults,            \* the calls that may fail for reasons of their own
  Crashing           \* the nodes whose daemon may die

ASSUME NodesAssumption ==
  /\ Unlinkers \subseteq Nodes /\ Openers \subseteq Nodes /\ Crashing \subseteq Nodes
  /\ "access" \notin Nodes /\ "other" \notin Nodes   \* a host's directory has a name of its own
ASSUME AttemptsAssumption == ExtraAttempts \in Nat
ASSUME FaultsAssumption ==
  Faults \subseteq {"mkdir", "access", "rename", "meta", "version", "hostdir", "rmtree"}

VARIABLES
  top,               \* the name: [kind, parts], parts being what is in a directory
  tmp,               \* per node: has it a temporary directory
  call,              \* per node: its f_mknod: [at, attempts, errno, extra] and history
  createdContainers, \* per node: does the cache have the name
  unlinker,          \* per node: where its f_unlink is
  opener             \* per node: where its addWriter is

vars == <<top, tmp, call, createdContainers, unlinker, opener>>
others == <<createdContainers, unlinker, opener>>

(* In a directory: the access file, the directories of the hosts, and      *)
(* "other" for what nobody looks for, meta, version and users' files,      *)
(* which is noted where it alone may keep a directory from being empty.    *)
Parts == {"access", "other"} \cup Nodes
Absent == [kind |-> "absent", parts |-> {}]
Dir(parts) == [kind |-> "dir", parts |-> parts]

ASSUME TopsAssumption ==
  /\ Tops \subseteq [kind : {"absent", "file", "dir"}, parts : SUBSET Parts]
  /\ \A t \in Tops : t.kind # "dir" => t.parts = {}

With(t, part) == IF part = "other" /\ t.parts # {} THEN t ELSE Dir(t.parts \cup {part})

(* A directory with an access file in it.                                  *)
isContainer(t) == "access" \in t.parts

(* History: hit, whether others took away what was at the name during this *)
(* attempt; overtaken, whether somebody did whom the cache cannot notice.  *)
NoCall == [at |-> "idle", attempts |-> 0, errno |-> "none", extra |-> 0,
           hit |-> FALSE, overtaken |-> FALSE]
Over == {"idle", "ok", "error"}

Init ==
  /\ top \in Tops
  /\ tmp = [n \in Nodes |-> FALSE]
  /\ call = [n \in Nodes |-> NoCall]
  /\ createdContainers = [n \in Nodes |-> FALSE]
  /\ unlinker = [n \in Nodes |-> "idle"]
  /\ opener = [n \in Nodes |-> "idle"]

Goto(n, at) == call' = [call EXCEPT ![n].at = at]
(* A call that is over leaves nothing once the name is out of the cache.   *)
Forgotten(n) == call' = [call EXCEPT ![n] = IF @.at \in Over THEN NoCall ELSE @]
Failing(n, errno) == call' = [call EXCEPT ![n].at = "failed", ![n].errno = errno, ![n].attempts = 0]
Fault(n, what) ==
  /\ what \in Faults
  /\ call' = [call EXCEPT ![n].at = "failed", ![n].errno = "EIO"]

(* What is at the name goes, by an action of a node in by; a call of a     *)
(* node in spared goes to its next step at the same time.                  *)
Vanish(by, spared, at) ==
  /\ top' = Absent
  /\ call' = [n \in Nodes |->
       [call[n] EXCEPT
          !.at = IF n \in spared THEN at ELSE @,
          !.hit = @ \/ (n \notin spared /\ call[n].at \notin Over),
          !.overtaken = @ \/ call[n].at \notin Over \/ (createdContainers[n] /\ n \notin by)]]

(* Something is made at the name: nothing is there, a plain file or a      *)
(* directory.  What mkdir and creat do in path, and their errno.           *)
MadeIn(n, part, next) ==
  \/ /\ top.kind = "dir"
     /\ top' = With(top, part) /\ Goto(n, next)
  \/ top.kind = "absent" /\ Failing(n, "ENOENT") /\ UNCHANGED top
  \/ top.kind = "file" /\ Failing(n, "ENOTDIR") /\ UNCHANGED top

-----------------------------------------------------------------------------
(* makePlfsFile, under container_mutex: one call of a node at a time.  If  *)
(* the cache has the name it returns 0 at once, and nothing changes.       *)
f_mknod(n) ==
  /\ call[n].at \in Over /\ ~createdContainers[n]
  /\ call' = [call EXCEPT ![n] = [NoCall EXCEPT !.at = "check"]]
  /\ UNCHANGED <<top, tmp, others>>

(* createHelper: is it a container?                                        *)
CheckContainer(n) ==
  /\ call[n].at = "check"
  /\ Goto(n, IF isContainer(top) THEN "hostdir" ELSE "mkdir")
  /\ UNCHANGED <<top, tmp, others>>

(* makeTopLevel: the temporary directory, which nobody else sees, and the  *)
(* access file in it.  One that is there already will do; but if then the  *)
(* access file cannot be made, errno is that of the rmdir of a directory   *)
(* with something in it, and create tries again.                           *)
MakeTmp(n) ==
  /\ call[n].at = "mkdir"
  /\ \/ tmp' = [tmp EXCEPT ![n] = TRUE] /\ Goto(n, "rename")
     \/ ~tmp[n] /\ Fault(n, "mkdir") /\ UNCHANGED tmp
     \/ ~tmp[n] /\ Fault(n, "access") /\ UNCHANGED tmp
     \/ tmp[n] /\ "access" \in Faults /\ Failing(n, "ENOTEMPTY") /\ UNCHANGED tmp
  /\ UNCHANGED <<top, others>>

(* The rename, at most twice.  It replaces an empty directory.  If it      *)
(* fails the temporary directory is removed; the race is lost, or what is  *)
(* there is a directory: not told apart.                                   *)
RenameTmp(n) ==
  /\ call[n].at = "rename"
  /\ \/ /\ top \in {Absent, Dir({})}
        /\ top' = Dir({"access"}) /\ tmp' = [tmp EXCEPT ![n] = FALSE]
        /\ call' = [call EXCEPT ![n].at = "meta", ![n].attempts = 0]
     \/ /\ top.kind = "file" /\ UNCHANGED <<top, tmp>>
        /\ call' = [call EXCEPT ![n].at = "plain", ![n].attempts = @ + 1]
     \/ /\ top.kind = "dir" /\ top.parts # {} /\ UNCHANGED top
        /\ tmp' = [tmp EXCEPT ![n] = FALSE]
        /\ call' = [call EXCEPT ![n].at = "hostdir", ![n].attempts = 0]
     \/ Fault(n, "rename") /\ tmp' = [tmp EXCEPT ![n] = FALSE] /\ UNCHANGED top
  /\ UNCHANGED others

(* There is a plain file: it is unlinked, and after the first time the     *)
(* rename tried again, after the second 0 returned.  The result of Unlink  *)
(* is -1, not an errno, so that a file somebody else has unlinked is a     *)
(* failure.  The temporary directory stays.                                *)
UnlinkPlain(n) ==
  /\ call[n].at = "plain"
  /\ \/ top.kind = "file" /\ Vanish({}, {n}, IF call[n].attempts < 2 THEN "rename" ELSE "hostdir")
     \/ top.kind = "absent" /\ Failing(n, "ENOENT") /\ UNCHANGED top
     \/ top.kind = "dir" /\ Failing(n, "EISDIR") /\ UNCHANGED top
  /\ UNCHANGED <<tmp, others>>

(* The winner makes the meta directory, which is that of the open records  *)
(* too, and the version file.  One step for the three calls: each of them  *)
(* fails or not for the same reasons, and nobody looks for what they make. *)
MakeMeta(n) ==
  /\ call[n].at = "meta"
  /\ \/ MadeIn(n, "other", "hostdir")
     \/ Fault(n, "meta") /\ top' = top
     \/ Fault(n, "version") /\ top' = (IF top.kind = "dir" THEN With(top, "other") ELSE top)
  /\ UNCHANGED <<tmp, others>>

\* Mutant: a failure to make the directory of the host is not returned.
MakeHostDir_Ignored(n) ==
  /\ call[n].at = "hostdir"
  /\ top' = IF top.kind = "dir" THEN With(top, n) ELSE top
  /\ Goto(n, "insert")
  /\ UNCHANGED <<tmp, others>>

(* makeHostDir, with PARENT_CREATED.                                       *)
MakeHostDir(n) ==
  /\ call[n].at = "hostdir"
  /\ \/ MadeIn(n, n, "insert")
     \/ Fault(n, "hostdir") /\ UNCHANGED top
  /\ UNCHANGED <<tmp, others>>

Retried == {"EEXIST", "ENOENT", "EISDIR", "ENOTEMPTY"}

\* Mutant: the attempts are not counted.
Retry_Uncounted(n) ==
  /\ call[n].at = "failed"
  /\ call' = [call EXCEPT ![n] =
       IF call[n].errno \notin Retried THEN [NoCall EXCEPT !.at = "error", !.errno = call[n].errno]
       ELSE [NoCall EXCEPT !.at = "check", !.overtaken = call[n].overtaken]]
  /\ UNCHANGED <<top, tmp, others>>

\* Mutant: an error that another creator or remover causes is final.
Retry_Never(n) ==
  /\ call[n].at = "failed"
  /\ call' = [call EXCEPT ![n] = [NoCall EXCEPT !.at = "error", !.errno = call[n].errno]]
  /\ UNCHANGED <<top, tmp, others>>

(* create: another attempt if the errno is one that others can cause.      *)
Retry(n) ==
  /\ call[n].at = "failed"
  /\ LET extra == call[n].extra + 1 IN
     call' = [call EXCEPT ![n] =
       IF call[n].errno \notin Retried THEN [NoCall EXCEPT !.at = "error", !.errno = call[n].errno]
       ELSE IF extra > ExtraAttempts THEN [NoCall EXCEPT !.at = "error", !.extra = extra]
       ELSE [NoCall EXCEPT !.at = "check", !.extra = extra, !.overtaken = call[n].overtaken]]
  /\ UNCHANGED <<top, tmp, others>>

(* Back in makePlfsFile.                                                   *)
f_mknod_done(n) ==
  /\ call[n].at = "insert"
  /\ call' = [call EXCEPT ![n] = [NoCall EXCEPT !.at = "ok", !.overtaken = call[n].overtaken]]
  /\ createdContainers' = [createdContainers EXCEPT ![n] = TRUE]
  /\ UNCHANGED <<top, tmp, unlinker, opener>>

CallStep(n) ==
  \/ CheckContainer(n) \/ MakeTmp(n) \/ RenameTmp(n) \/ UnlinkPlain(n)
  \/ MakeMeta(n) \/ MakeHostDir(n) \/ Retry(n) \/ f_mknod_done(n)

-----------------------------------------------------------------------------
(* f_unlink: a container is renamed to a hidden name and its tree removed  *)
(* there, which nobody can see; anything else is unlinked.  The cache      *)
(* forgets the name on success, with no lock.                              *)
UnlinkBegin(n) ==
  /\ n \in Unlinkers /\ unlinker[n] = "idle" /\ top.kind # "absent"
  /\ unlinker' = [unlinker EXCEPT ![n] = IF isContainer(top) THEN "rename" ELSE "plain"]
  /\ UNCHANGED <<top, tmp, call, createdContainers, opener>>

UnlinkRename(n) ==
  /\ unlinker[n] = "rename"
  /\ \/ /\ top.kind = "dir" /\ Vanish({n}, {}, "idle")
        /\ unlinker' = [unlinker EXCEPT ![n] = "erase"]
     \/ /\ top.kind = "file" \/ (top.kind = "dir" /\ "rmtree" \in Faults)
        /\ Vanish({}, {}, "idle")
        /\ unlinker' = [unlinker EXCEPT ![n] = "idle"]
     \/ /\ top.kind = "absent" /\ UNCHANGED <<top, call>>
        /\ unlinker' = [unlinker EXCEPT ![n] = "idle"]
  /\ UNCHANGED <<tmp, createdContainers, opener>>

UnlinkOther(n) ==
  /\ unlinker[n] = "plain"
  /\ IF top.kind = "file"
     THEN Vanish({n}, {}, "idle") /\ unlinker' = [unlinker EXCEPT ![n] = "erase"]
     ELSE UNCHANGED <<top, call>> /\ unlinker' = [unlinker EXCEPT ![n] = "idle"]
  /\ UNCHANGED <<tmp, createdContainers, opener>>

\* Mutant: an unlink leaves the cache as it is.
EraseCreated_Not(n) ==
  /\ unlinker[n] = "erase"
  /\ unlinker' = [unlinker EXCEPT ![n] = "idle"]
  /\ UNCHANGED <<top, tmp, call, createdContainers, opener>>

EraseCreated(n) ==
  /\ unlinker[n] = "erase"
  /\ createdContainers' = [createdContainers EXCEPT ![n] = FALSE] /\ Forgotten(n)
  /\ unlinker' = [unlinker EXCEPT ![n] = "idle"]
  /\ UNCHANGED <<top, tmp, opener>>

(* getattr_helper: the cache forgets a name that is not there.             *)
f_getattr(n) ==
  /\ top.kind = "absent" /\ createdContainers[n]
  /\ createdContainers' = [createdContainers EXCEPT ![n] = FALSE] /\ Forgotten(n)
  /\ UNCHANGED <<top, tmp, unlinker, opener>>

-----------------------------------------------------------------------------
(* plfs_open of a writer, of a file that was a container when the kernel   *)
(* looked it up.  A host directory that is not there is made, twice at     *)
(* most, with its parent, which then has no access file.                   *)
OpenBegin(n) ==
  /\ n \in Openers /\ opener[n] = "idle" /\ isContainer(top)
  /\ opener' = [opener EXCEPT ![n] = "open"]
  /\ UNCHANGED <<top, tmp, call, createdContainers, unlinker>>

AddWriter(n) ==
  /\ opener[n] \in {"open", "again"}
  /\ opener' = [opener EXCEPT ![n] =
       IF n \in top.parts \/ top.kind = "file" THEN "idle"
       ELSE IF @ = "open" THEN "parent" ELSE "lastparent"]
  /\ UNCHANGED <<top, tmp, call, createdContainers, unlinker>>

MakeParent(n) ==
  /\ opener[n] \in {"parent", "lastparent"}
  /\ top' = IF top = Absent THEN Dir({}) ELSE top
  /\ opener' = [opener EXCEPT ![n] = IF @ = "parent" THEN "own" ELSE "lastown"]
  /\ UNCHANGED <<tmp, call, createdContainers, unlinker>>

MakeOwn(n) ==
  /\ opener[n] \in {"own", "lastown"}
  /\ top' = IF top.kind = "dir" THEN With(top, n) ELSE top
  /\ opener' = [opener EXCEPT ![n] = IF @ = "own" THEN "again" ELSE "idle"]
  /\ UNCHANGED <<tmp, call, createdContainers, unlinker>>

(* Users: mkdir and rmdir of the name.                                     *)
UserMkdir == top.kind = "absent" /\ top' = Dir({}) /\ UNCHANGED <<tmp, call, others>>
UserRmdir == top = Dir({}) /\ Vanish({}, {}, "idle") /\ UNCHANGED <<tmp, others>>

(* The daemon of a node dies.  Its temporary directory stays on the        *)
(* backend for ever, and the next caller, of another pid, has none yet.    *)
Crash(n) ==
  /\ n \in Crashing
  /\ call' = [call EXCEPT ![n] = NoCall]
  /\ createdContainers' = [createdContainers EXCEPT ![n] = FALSE]
  /\ unlinker' = [unlinker EXCEPT ![n] = "idle"]
  /\ opener' = [opener EXCEPT ![n] = "idle"]
  /\ tmp' = [tmp EXCEPT ![n] = FALSE]
  /\ UNCHANGED top

NodeStep(n) ==
  \/ f_mknod(n) \/ CallStep(n) \/ f_getattr(n) \/ Crash(n)
  \/ UnlinkBegin(n) \/ UnlinkRename(n) \/ UnlinkOther(n) \/ EraseCreated(n)
  \/ OpenBegin(n) \/ AddWriter(n) \/ MakeParent(n) \/ MakeOwn(n)

Next == (\E n \in Nodes : NodeStep(n)) \/ UserMkdir \/ UserRmdir

(* A thread that is in a call goes on.                                     *)
Spec == Init /\ [][Next]_vars /\ \A n \in Nodes : WF_vars(CallStep(n))

-----------------------------------------------------------------------------
(* The types of the state.                                                 *)
Where == Over \cup {"check", "mkdir", "rename", "plain", "meta", "hostdir", "insert", "failed"}
Errnos == {"none", "EIO", "ENOENT", "ENOTDIR", "EISDIR", "ENOTEMPTY"}
Attempts == 0..2
Extras == 0..(ExtraAttempts + 1)
Call == [at : Where, attempts : Attempts, errno : Errnos, extra : Extras,
         hit : BOOLEAN, overtaken : BOOLEAN]
Name == {t \in [kind : {"absent", "file", "dir"}, parts : SUBSET Parts] : t.kind # "dir" => t.parts = {}}

TypeOK ==
  /\ top \in Name
  /\ tmp \in [Nodes -> BOOLEAN]
  /\ call \in [Nodes -> Call]
  /\ createdContainers \in [Nodes -> BOOLEAN]
  /\ unlinker \in [Nodes -> {"idle", "rename", "plain", "erase"}]
  /\ opener \in [Nodes -> {"idle", "open", "again", "parent", "own", "lastparent", "lastown"}]

Promise == INSTANCE AtomicCreate WITH
  place <- IF isContainer(top) THEN "container" ELSE IF top.kind = "dir" THEN "dir" ELSE "none",
  hosts <- top.parts \cap Nodes,
  status <- [n \in Nodes |-> IF call[n].at = "idle" THEN "idle"
                             ELSE IF call[n].at \in {"ok", "insert"} THEN "ok"
                             ELSE IF call[n].at = "error" THEN "error" ELSE "busy"]

(* create keeps the promise of AtomicCreate: however creators, removers    *)
(* and writers interleave, a container appears whole and by a creator, and *)
(* 0 means that the host's directory has just been seen in place.          *)
CreatesAtomically == Promise!Spec

(* createdContainers has no name at which there is no directory, be it a   *)
(* container or one of the user's that create took for success, except     *)
(* between an unlink and its erase, and when another client took it away,  *)
(* or an unlink of this daemon did during the f_mknod or failed half way.  *)
CacheIsTrueUnlessOvertaken ==
  \A n \in Nodes :
    createdContainers[n] => top.kind = "dir" \/ unlinker[n] = "erase" \/ call[n].overtaken

(* An attempt that fails, without a failure of another kind, has had what  *)
(* it found at the name taken away by others under its hands, be they      *)
(* removers or creators that take a plain file out of the way, and a call  *)
(* that gives up has made all its attempts.                                *)
GivesUpOnlyIfDisturbed ==
  \A n \in Nodes :
    /\ call[n].at = "failed" => call[n].hit \/ call[n].errno \in {"EIO", "ENOTEMPTY"}
    /\ call[n].at = "error" => call[n].extra > ExtraAttempts \/ call[n].errno = "EIO"

(* Every call of create returns, also when others remove and make the file *)
(* again for ever.                                                         *)
CreatesReturn == \A n \in Nodes : call[n].at \notin Over ~> call[n].at \in Over
=============================================================================
