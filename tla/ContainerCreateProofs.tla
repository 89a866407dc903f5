----------------------- MODULE ContainerCreateProofs ------------------------
(***************************************************************************)
(* What ContainerCreate guarantees for every set of nodes, of those that   *)
(* unlink, open and crash, of failing calls, every content the name may    *)
(* have at first, and every number of attempts.                            *)
(***************************************************************************)
EXTENDS ContainerCreate, TLAPS

(* How far a node's call has come, and what that says of the name.  A call *)
(* renames a second time only after it has unlinked a plain file, which    *)
(* nobody makes again; it goes on to meta and the host's directory only    *)
(* after it has seen a directory, which is still there unless somebody     *)
(* took it away, which is a hit.                                           *)
CallOK(n) ==
  LET c == call[n] IN
  /\ c.at \notin Over => c.extra <= ExtraAttempts
  /\ c.at \in {"check", "mkdir"} => c.attempts = 0
  /\ c.at = "rename" => c.attempts < 2 /\ (c.attempts = 1 => top.kind # "file")
  /\ c.at = "plain" => c.attempts = 1 /\ (top.kind = "file" \/ c.hit)
  /\ c.at \in {"rename", "plain"} => tmp[n]
  /\ c.at \in {"meta", "hostdir"} => top.kind # "file" /\ (top.kind = "dir" \/ c.hit)
  /\ c.at = "failed" => c.errno \in Retried \cup {"EIO"} /\ (c.hit \/ c.errno \in {"EIO", "ENOTEMPTY"})
  /\ c.at = "error" => c.extra > ExtraAttempts \/ c.errno = "EIO"

(* CacheIsTrueUnlessOvertaken is not inductive: the name enters the cache  *)
(* one step after the host's directory was made, and while it is in the    *)
(* cache no call of the node is under way.                                 *)
CacheOK(n) ==
  /\ call[n].at = "insert" => top.kind = "dir" \/ call[n].overtaken
  /\ createdContainers[n] => /\ call[n].at \in Over
                             /\ top.kind = "dir" \/ unlinker[n] = "erase" \/ call[n].overtaken

Inv == TypeOK /\ (\A n \in Nodes : CallOK(n) /\ CacheOK(n))

(* A node whose call and cache stay as they are, while what is at the name *)
(* stays what it is, or a directory is made where there was nothing.       *)
LEMMA Bystander ==
  ASSUME Inv, NEW m \in Nodes,
         call'[m] = call[m], tmp'[m] = tmp[m], createdContainers'[m] = createdContainers[m],
         unlinker[m] = "erase" => unlinker'[m] = "erase",
         top'.kind = top.kind \/ (top.kind = "absent" /\ top'.kind = "dir")
  PROVE  CallOK(m)' /\ CacheOK(m)'
BY DEF Inv, CallOK, CacheOK

LEMMA VanishedType ==
  ASSUME TypeOK, NEW by, NEW spared, NEW at \in Where, Vanish(by, spared, at)
  PROVE  call' \in [Nodes -> Call] /\ top' \in Name /\ top'.kind = "absent"
<1>1. ASSUME NEW m \in Nodes
      PROVE  [call[m] EXCEPT
                !.at = IF m \in spared THEN at ELSE @,
                !.hit = @ \/ (m \notin spared /\ call[m].at \notin Over),
                !.overtaken = @ \/ call[m].at \notin Over \/ (createdContainers[m] /\ m \notin by)] \in Call
  <2>1. call[m] \in Call
    BY DEF TypeOK
  <2> QED BY <2>1 DEF Call
<1>2. call' \in [Nodes -> Call]
  BY <1>1 DEF Vanish
<1>3. top' \in Name /\ top'.kind = "absent"
  BY DEF Vanish, Absent, Name
<1> QED BY <1>2, <1>3

(* What the vanishing of what is at the name does to a node's call.        *)
LEMMA Vanished ==
  ASSUME TypeOK, NEW m \in Nodes, NEW by, NEW spared, NEW at \in Where, Vanish(by, spared, at)
  PROVE  /\ call' \in [Nodes -> Call] /\ top' \in Name /\ top'.kind = "absent"
         /\ call'[m].at = IF m \in spared THEN at ELSE call[m].at
         /\ call'[m].attempts = call[m].attempts /\ call'[m].errno = call[m].errno
         /\ call'[m].extra = call[m].extra
         /\ call'[m].hit = (call[m].hit \/ (m \notin spared /\ call[m].at \notin Over))
         /\ call'[m].overtaken = (call[m].overtaken \/ call[m].at \notin Over
                                   \/ (createdContainers[m] /\ m \notin by))
<1>1. call' \in [Nodes -> Call] /\ top' \in Name /\ top'.kind = "absent"
  BY VanishedType
<1>2. call[m] \in Call
  BY DEF TypeOK
<1>3. call'[m] = [call[m] EXCEPT
        !.at = IF m \in spared THEN at ELSE @,
        !.hit = @ \/ (m \notin spared /\ call[m].at \notin Over),
        !.overtaken = @ \/ call[m].at \notin Over \/ (createdContainers[m] /\ m \notin by)]
  BY DEF Vanish
<1> QED BY <1>1, <1>2, <1>3 DEF Call

(* A node under whose hands what was at the name goes.                     *)
LEMMA Robbed ==
  ASSUME Inv, NEW m \in Nodes, NEW by, NEW spared, NEW at \in Where, m \notin spared,
         Vanish(by, spared, at),
         tmp'[m] = tmp[m], createdContainers'[m] = createdContainers[m],
         unlinker[m] = "erase" => unlinker'[m] = "erase",
         m \in by => unlinker'[m] = "erase"
  PROVE  CallOK(m)' /\ CacheOK(m)'
<1>1. TypeOK
  BY DEF Inv
<1>2. /\ top'.kind = "absent"
      /\ call'[m].at = call[m].at /\ call'[m].attempts = call[m].attempts
      /\ call'[m].errno = call[m].errno /\ call'[m].extra = call[m].extra
      /\ call'[m].hit = (call[m].hit \/ call[m].at \notin Over)
      /\ call'[m].overtaken = (call[m].overtaken \/ call[m].at \notin Over
                                \/ (createdContainers[m] /\ m \notin by))
  BY <1>1, Vanished
<1>3. CallOK(m)'
  BY <1>2 DEF Inv, CallOK, Over
<1>4. CacheOK(m)'
  BY <1>2 DEF Inv, CacheOK, Over
<1> QED BY <1>3, <1>4

(* A step of one node's call, in which nothing vanishes.                   *)
LEMMA OwnStep ==
  ASSUME Inv, NEW n \in Nodes,
         call' \in [Nodes -> Call], tmp' \in [Nodes -> BOOLEAN], top' \in Name,
         \A m \in Nodes \ {n} : call'[m] = call[m] /\ tmp'[m] = tmp[m],
         top'.kind = top.kind \/ (top.kind = "absent" /\ top'.kind = "dir"),
         UNCHANGED others,
         CallOK(n)', CacheOK(n)'
  PROVE  Inv'
<1>1. TypeOK'
  BY DEF Inv, TypeOK, others
<1>2. \A m \in Nodes \ {n} : CallOK(m)' /\ CacheOK(m)'
  BY Bystander DEF others
<1> QED BY <1>1, <1>2 DEF Inv

(* What a step leaves of the record of a node's call, and of the others'.   *)
Kept(n) ==
  /\ call' \in [Nodes -> Call] /\ \A m \in Nodes \ {n} : call'[m] = call[m]
  /\ call'[n].extra = call[n].extra
  /\ call'[n].hit = call[n].hit /\ call'[n].overtaken = call[n].overtaken

LEMMA Moved ==
  ASSUME TypeOK, NEW n \in Nodes, NEW at \in Where, Goto(n, at)
  PROVE  Kept(n) /\ call'[n].at = at /\ call'[n].attempts = call[n].attempts
BY DEF TypeOK, Call, Goto, Kept

LEMMA MovedCounting ==
  ASSUME TypeOK, NEW n \in Nodes, NEW at \in Where, NEW k \in Attempts,
         call' = [call EXCEPT ![n].at = at, ![n].attempts = k]
  PROVE  Kept(n) /\ call'[n].at = at /\ call'[n].attempts = k
BY ZenonT(60) DEF TypeOK, Call, Kept

LEMMA Failed ==
  ASSUME TypeOK, NEW n \in Nodes, NEW errno \in Errnos, Failing(n, errno)
  PROVE  Kept(n) /\ call'[n].at = "failed" /\ call'[n].errno = errno
<1>1. "failed" \in Where /\ 0 \in Attempts
  BY DEF Where, Attempts
<1> QED BY <1>1, ZenonT(60) DEF TypeOK, Call, Failing, Kept

LEMMA Faulted ==
  ASSUME TypeOK, NEW n \in Nodes, NEW what, Fault(n, what)
  PROVE  Kept(n) /\ call'[n].at = "failed" /\ call'[n].errno = "EIO"
<1>1. "failed" \in Where /\ "EIO" \in Errnos
  BY DEF Where, Errnos
<1> QED BY <1>1, ZenonT(60) DEF TypeOK, Call, Fault, Kept

(* A node's record replaced by another.                                    *)
LEMMA Replaced ==
  ASSUME TypeOK, NEW n \in Nodes, NEW c \in Call, call' = [call EXCEPT ![n] = c]
  PROVE  /\ call' \in [Nodes -> Call] /\ \A m \in Nodes \ {n} : call'[m] = call[m]
         /\ call'[n] = c
BY DEF TypeOK

LEMMA NoCallType == NoCall \in Call
BY AttemptsAssumption DEF NoCall, Call, Where, Over, Errnos, Attempts, Extras

LEMMA WithType ==
  ASSUME NEW t \in Name, t.kind = "dir", NEW part \in Parts
  PROVE  /\ With(t, part) \in Name /\ With(t, part).kind = "dir"
         /\ isContainer(With(t, part)) <=> isContainer(t) \/ part = "access"
         /\ part \in Nodes => With(t, part).parts \cap Nodes = (t.parts \cap Nodes) \cup {part}
         /\ part = "other" => With(t, part).parts \cap Nodes = t.parts \cap Nodes
BY NodesAssumption DEF With, Dir, Parts, isContainer, Name

(* A call that fails, for a reason of the call's own or because it was hit. *)
LEMMA FailedStep ==
  ASSUME Inv, NEW n \in Nodes, call[n].at \notin Over, UNCHANGED others,
         tmp' \in [Nodes -> BOOLEAN], \A m \in Nodes \ {n} : tmp'[m] = tmp[m],
         top' \in Name, top'.kind = top.kind,
         Kept(n), call'[n].at = "failed",
         \/ call'[n].errno \in {"EIO", "ENOTEMPTY"}
         \/ call[n].hit /\ call'[n].errno \in Retried
  PROVE  Inv'
<1>1. CallOK(n)' /\ CacheOK(n)'
  BY DEF Inv, CallOK, CacheOK, Kept, Over, Retried, others
<1> QED BY <1>1, OwnStep DEF Kept

LEMMA HitStep ==
  ASSUME Inv, NEW n \in Nodes, call[n].at \notin Over, call[n].hit, UNCHANGED <<top, tmp, others>>,
         NEW errno \in Errnos, errno \in Retried, Failing(n, errno)
  PROVE  Inv'
<1>1. TypeOK /\ tmp' \in [Nodes -> BOOLEAN] /\ top' \in Name
  BY DEF Inv, TypeOK
<1>2. Kept(n) /\ call'[n].at = "failed" /\ call'[n].errno = errno
  BY <1>1, Failed
<1> QED BY <1>1, <1>2, FailedStep

LEMMA FaultStep ==
  ASSUME Inv, NEW n \in Nodes, call[n].at \notin Over, UNCHANGED others, NEW what, Fault(n, what),
         tmp' = tmp \/ tmp' = [tmp EXCEPT ![n] = FALSE],
         top' \in Name, top'.kind = top.kind
  PROVE  Inv'
<1>1. TypeOK
  BY DEF Inv
<1>2. tmp' \in [Nodes -> BOOLEAN] /\ \A m \in Nodes \ {n} : tmp'[m] = tmp[m]
  BY <1>1 DEF TypeOK
<1>3. Kept(n) /\ call'[n].at = "failed" /\ call'[n].errno = "EIO"
  BY <1>1, Faulted
<1> QED BY <1>2, <1>3, FailedStep

-----------------------------------------------------------------------------
(* Each step keeps Inv.                                                    *)

LEMMA f_mknodInv ==
  ASSUME Inv, NEW n \in Nodes, f_mknod(n)
  PROVE  Inv'
<1>0. TypeOK /\ UNCHANGED <<top, tmp, others>> /\ createdContainers[n] = FALSE
  BY DEF Inv, f_mknod, TypeOK
<1>1. [NoCall EXCEPT !.at = "check"] \in Call
  BY NoCallType DEF Call, Where
<1>2. CallOK(n)' /\ CacheOK(n)'
  <2>1. call'[n] = [NoCall EXCEPT !.at = "check"]
    BY <1>0, <1>1, Replaced DEF f_mknod
  <2>2. call'[n].at = "check" /\ call'[n].attempts = 0 /\ call'[n].extra = 0
    BY <2>1 DEF NoCall
  <2> QED BY <1>0, <2>2, AttemptsAssumption DEF CallOK, CacheOK, Over, others
<1> QED
  BY <1>0, <1>1, <1>2, Replaced, OwnStep DEF f_mknod, TypeOK

LEMMA CheckContainerInv ==
  ASSUME Inv, NEW n \in Nodes, CheckContainer(n)
  PROVE  Inv'
<1> DEFINE at == IF isContainer(top) THEN "hostdir" ELSE "mkdir"
<1>0. TypeOK /\ CallOK(n) /\ CacheOK(n) /\ call[n].at = "check" /\ UNCHANGED <<top, tmp, others>>
  BY DEF Inv, CheckContainer
<1>1. at \in Where /\ Goto(n, at)
  BY DEF Where, CheckContainer
<1>2. Kept(n) /\ call'[n].at = at /\ call'[n].attempts = call[n].attempts
  BY <1>0, <1>1, Moved
<1>3. at = "hostdir" => top.kind = "dir"
  BY <1>0 DEF TypeOK, Name, isContainer
<1>4. CallOK(n)' /\ CacheOK(n)'
  BY <1>0, <1>2, <1>3 DEF CallOK, CacheOK, Over, Kept, others
<1> QED BY <1>0, <1>2, <1>4, OwnStep DEF Kept, TypeOK

LEMMA MakeTmpInv ==
  ASSUME Inv, NEW n \in Nodes, MakeTmp(n)
  PROVE  Inv'
<1>0. /\ TypeOK /\ CallOK(n) /\ CacheOK(n) /\ call[n].at = "mkdir" /\ call[n].at \notin Over
      /\ UNCHANGED <<top, others>> /\ top' \in Name /\ top'.kind = top.kind
  BY DEF Inv, MakeTmp, Over, TypeOK
<1>1. CASE tmp' = [tmp EXCEPT ![n] = TRUE] /\ Goto(n, "rename")
  <2>1. Kept(n) /\ call'[n].at = "rename" /\ call'[n].attempts = call[n].attempts
    BY <1>0, <1>1, Moved DEF Where
  <2>2. tmp' \in [Nodes -> BOOLEAN] /\ tmp'[n] /\ \A m \in Nodes \ {n} : tmp'[m] = tmp[m]
    BY <1>0, <1>1 DEF TypeOK
  <2>3. CallOK(n)' /\ CacheOK(n)'
    BY <1>0, <2>1, <2>2 DEF CallOK, CacheOK, Over, Kept, others
  <2> QED BY <1>0, <2>1, <2>2, <2>3, OwnStep DEF Kept
<1>2. CASE (Fault(n, "mkdir") \/ Fault(n, "access")) /\ UNCHANGED tmp
  BY <1>0, <1>2, FaultStep
<1>3. CASE Failing(n, "ENOTEMPTY") /\ UNCHANGED tmp
  <2>1. Kept(n) /\ call'[n].at = "failed" /\ call'[n].errno = "ENOTEMPTY"
    BY <1>0, <1>3, Failed DEF Errnos
  <2>2. tmp' \in [Nodes -> BOOLEAN] /\ \A m \in Nodes \ {n} : tmp'[m] = tmp[m]
    BY <1>0, <1>3 DEF TypeOK
  <2> QED BY <1>0, <2>1, <2>2, FailedStep
<1> QED BY <1>1, <1>2, <1>3 DEF MakeTmp

LEMMA RenameTmpInv ==
  ASSUME Inv, NEW n \in Nodes, RenameTmp(n)
  PROVE  Inv'
<1>0. /\ TypeOK /\ CallOK(n) /\ CacheOK(n) /\ call[n].at = "rename" /\ call[n].at \notin Over
      /\ UNCHANGED others
  BY DEF Inv, RenameTmp, Over
<1>1. tmp' = [tmp EXCEPT ![n] = FALSE] =>
         tmp' \in [Nodes -> BOOLEAN] /\ \A m \in Nodes \ {n} : tmp'[m] = tmp[m]
  BY <1>0 DEF TypeOK
<1>2. {"meta", "plain", "hostdir"} \subseteq Where /\ 0 \in Attempts /\ 1 \in Attempts
  BY DEF Where, Attempts
<1>3. CASE /\ top \in {Absent, Dir({})} /\ top' = Dir({"access"}) /\ tmp' = [tmp EXCEPT ![n] = FALSE]
           /\ call' = [call EXCEPT ![n].at = "meta", ![n].attempts = 0]
  <2>1. Kept(n) /\ call'[n].at = "meta"
    BY <1>0, <1>3, <1>2, MovedCounting
  <2>2. top' \in Name /\ top'.kind = "dir" /\ top.kind \in {"absent", "dir"}
    BY <1>3 DEF Dir, Absent, Name, Parts
  <2>3. CallOK(n)' /\ CacheOK(n)'
    BY <1>0, <2>1, <2>2 DEF CallOK, CacheOK, Over, Kept, others
  <2> QED BY <1>0, <1>1, <1>3, <2>1, <2>2, <2>3, OwnStep DEF Kept
<1>4. CASE /\ top.kind = "file" /\ UNCHANGED <<top, tmp>>
           /\ call' = [call EXCEPT ![n].at = "plain", ![n].attempts = @ + 1]
  <2>1. call[n].attempts = 0
    BY <1>0, <1>4 DEF CallOK, TypeOK, Call, Attempts
  <2>2. call' = [call EXCEPT ![n].at = "plain", ![n].attempts = 1]
    BY <1>0, <1>4, <2>1 DEF TypeOK, Call
  <2>3. Kept(n) /\ call'[n].at = "plain" /\ call'[n].attempts = 1
    BY <1>0, <2>2, <1>2, MovedCounting
  <2>4. CallOK(n)' /\ CacheOK(n)'
    BY <1>0, <1>4, <2>3 DEF CallOK, CacheOK, Over, Kept, others
  <2> QED BY <1>0, <1>4, <2>3, <2>4, OwnStep DEF Kept, TypeOK
<1>5. CASE /\ top.kind = "dir" /\ UNCHANGED top /\ tmp' = [tmp EXCEPT ![n] = FALSE]
           /\ call' = [call EXCEPT ![n].at = "hostdir", ![n].attempts = 0]
  <2>1. Kept(n) /\ call'[n].at = "hostdir"
    BY <1>0, <1>5, <1>2, MovedCounting
  <2>2. CallOK(n)' /\ CacheOK(n)'
    BY <1>0, <1>5, <2>1 DEF CallOK, CacheOK, Over, Kept, others
  <2> QED BY <1>0, <1>1, <1>5, <2>1, <2>2, OwnStep DEF Kept, TypeOK
<1>6. CASE Fault(n, "rename") /\ tmp' = [tmp EXCEPT ![n] = FALSE] /\ UNCHANGED top
  <2>1. top' \in Name /\ top'.kind = top.kind
    BY <1>0, <1>6 DEF TypeOK
  <2> QED BY <1>0, <1>6, <2>1, FaultStep
<1> QED BY <1>3, <1>4, <1>5, <1>6 DEF RenameTmp

(* What makes a directory in what is at the name, for a call that has seen *)
(* a directory there: it goes on, or it fails for having been hit.         *)
LEMMA MadeInStep ==
  ASSUME Inv, NEW n \in Nodes, NEW part \in Parts, NEW at \in {"hostdir", "insert"},
         call[n].at \in {"meta", "hostdir"}, MadeIn(n, part, at), UNCHANGED <<tmp, others>>
  PROVE  Inv'
<1>0. TypeOK /\ CallOK(n) /\ CacheOK(n) /\ call[n].at \notin Over
  BY DEF Inv, Over
<1>1. CASE top.kind = "dir" /\ top' = With(top, part) /\ Goto(n, at)
  <2>1. at \in Where
    BY DEF Where
  <2>2. Kept(n) /\ call'[n].at = at /\ call'[n].attempts = call[n].attempts
    BY <1>0, <1>1, <2>1, Moved
  <2>3. top' \in Name /\ top'.kind = "dir"
    BY <1>0, <1>1, WithType DEF TypeOK
  <2>4. CallOK(n)' /\ CacheOK(n)'
    BY <1>0, <2>2, <2>3 DEF CallOK, CacheOK, Over, Kept, others
  <2> QED BY <1>0, <1>1, <2>2, <2>3, <2>4, OwnStep DEF Kept, TypeOK
<1>2. CASE top.kind = "absent" /\ Failing(n, "ENOENT") /\ UNCHANGED top
  <2>1. "ENOENT" \in Errnos /\ "ENOENT" \in Retried
    BY DEF Errnos, Retried
  <2>2. call[n].hit
    BY <1>0, <1>2 DEF CallOK
  <2> QED BY <1>0, <1>2, <2>1, <2>2, HitStep
<1>3. top.kind # "file"
  BY <1>0 DEF CallOK
<1> QED BY <1>1, <1>2, <1>3 DEF MadeIn

LEMMA MakeMetaInv ==
  ASSUME Inv, NEW n \in Nodes, MakeMeta(n)
  PROVE  Inv'
<1>0. /\ TypeOK /\ call[n].at = "meta" /\ call[n].at \notin Over
      /\ UNCHANGED <<tmp, others>> /\ "other" \in Parts
  BY DEF Inv, MakeMeta, Over, Parts
<1>1. CASE MadeIn(n, "other", "hostdir")
  BY <1>0, <1>1, MadeInStep
<1>2. CASE /\ Fault(n, "meta") \/ Fault(n, "version")
           /\ top' = top \/ (top.kind = "dir" /\ top' = With(top, "other"))
  <2>1. top' \in Name /\ top'.kind = top.kind
    BY <1>0, <1>2, WithType DEF TypeOK
  <2> QED BY <1>0, <1>2, <2>1, FaultStep
<1> QED BY <1>1, <1>2 DEF MakeMeta

LEMMA MakeHostDirInv ==
  ASSUME Inv, NEW n \in Nodes, MakeHostDir(n)
  PROVE  Inv'
<1>0. /\ TypeOK /\ call[n].at = "hostdir" /\ call[n].at \notin Over
      /\ UNCHANGED <<tmp, others>> /\ n \in Parts
  BY DEF Inv, MakeHostDir, Over, Parts
<1>1. CASE MadeIn(n, n, "insert")
  BY <1>0, <1>1, MadeInStep
<1>2. CASE Fault(n, "hostdir") /\ UNCHANGED top
  BY <1>0, <1>2, FaultStep DEF TypeOK
<1> QED BY <1>1, <1>2 DEF MakeHostDir

LEMMA UnlinkPlainInv ==
  ASSUME Inv, NEW n \in Nodes, UnlinkPlain(n)
  PROVE  Inv'
<1>0. /\ TypeOK /\ CallOK(n) /\ CacheOK(n) /\ call[n].at = "plain" /\ call[n].at \notin Over
      /\ UNCHANGED <<tmp, others>> /\ call[n].attempts = 1 /\ tmp[n]
  BY DEF Inv, UnlinkPlain, Over, CallOK
<1>1. CASE Vanish({}, {n}, "rename")
  <2>1. "rename" \in Where
    BY DEF Where
  <2>2. /\ call' \in [Nodes -> Call] /\ top' \in Name /\ top'.kind = "absent"
        /\ call'[n].at = "rename" /\ call'[n].attempts = 1 /\ call'[n].extra = call[n].extra
    BY <1>0, <1>1, <2>1, Vanished
  <2>3. \A m \in Nodes \ {n} : CallOK(m)' /\ CacheOK(m)'
    <3> SUFFICES ASSUME NEW m \in Nodes, m # n PROVE CallOK(m)' /\ CacheOK(m)'
      OBVIOUS
    <3>1. m \notin {n} /\ m \notin {}
      OBVIOUS
    <3>2. tmp'[m] = tmp[m] /\ createdContainers'[m] = createdContainers[m] /\ unlinker' = unlinker
      BY <1>0 DEF others
    <3> QED BY <1>1, <2>1, <3>1, <3>2, Robbed
  <2>4. CallOK(n)'
    BY <1>0, <2>2 DEF CallOK, Over
  <2>5. CacheOK(n)'
    BY <1>0, <2>2 DEF CacheOK, others
  <2>6. TypeOK'
    BY <1>0, <2>2 DEF TypeOK, others
  <2> QED BY <2>3, <2>4, <2>5, <2>6 DEF Inv
<1>2. CASE top.kind = "absent" /\ Failing(n, "ENOENT") /\ UNCHANGED top
  <2>1. "ENOENT" \in Errnos /\ "ENOENT" \in Retried
    BY DEF Errnos, Retried
  <2>2. call[n].hit
    BY <1>0, <1>2 DEF CallOK
  <2> QED BY <1>0, <1>2, <2>1, <2>2, HitStep
<1>3. CASE top.kind = "dir" /\ Failing(n, "EISDIR") /\ UNCHANGED top
  <2>1. "EISDIR" \in Errnos /\ "EISDIR" \in Retried
    BY DEF Errnos, Retried
  <2>2. call[n].hit
    BY <1>0, <1>3 DEF CallOK
  <2> QED BY <1>0, <1>3, <2>1, <2>2, HitStep
<1> QED BY <1>0, <1>1, <1>2, <1>3 DEF UnlinkPlain

(* The last attempt is over, or another one begins.                        *)
LEMMA RetryInv ==
  ASSUME Inv, NEW n \in Nodes, Retry(n)
  PROVE  Inv'
<1>0. /\ TypeOK /\ CallOK(n) /\ CacheOK(n) /\ call[n].at = "failed" /\ call[n].at \notin Over
      /\ call[n] \in Call /\ UNCHANGED <<top, tmp, others>> /\ ~createdContainers[n]
  BY DEF Inv, Retry, Over, TypeOK, CacheOK
<1>1. call[n].extra + 1 \in Extras /\ call[n].extra \in Int /\ ExtraAttempts \in Int
  BY <1>0, AttemptsAssumption DEF CallOK, Call, Extras
<1>2. SUFFICES ASSUME NEW c \in Call, call' = [call EXCEPT ![n] = c],
                      c.at \in {"error", "check"},
                      c.at = "error" => c.extra > ExtraAttempts \/ c.errno = "EIO",
                      c.at = "check" => c.attempts = 0 /\ c.extra <= ExtraAttempts
               PROVE  Inv'
  <2>1. CASE call[n].errno \notin Retried
    <3> DEFINE c == [NoCall EXCEPT !.at = "error", !.errno = call[n].errno]
    <3>1. c \in Call
      BY <1>0, NoCallType DEF Call, Where, Over
    <3>2. c.at = "error" /\ c.errno = "EIO"
      BY <1>0, <2>1 DEF NoCall, CallOK
    <3>3. call' = [call EXCEPT ![n] = c]
      BY <2>1 DEF Retry
    <3> HIDE DEF c
    <3> QED BY <1>2, <3>1, <3>2, <3>3
  <2>2. CASE call[n].errno \in Retried /\ call[n].extra + 1 > ExtraAttempts
    <3> DEFINE c == [NoCall EXCEPT !.at = "error", !.extra = call[n].extra + 1]
    <3>1. c \in Call
      BY <1>1, NoCallType DEF Call, Where, Over
    <3>2. c.at = "error" /\ c.extra > ExtraAttempts
      BY <2>2 DEF NoCall
    <3>3. call' = [call EXCEPT ![n] = c]
      BY <2>2 DEF Retry
    <3> HIDE DEF c
    <3> QED BY <1>2, <3>1, <3>2, <3>3
  <2>3. CASE call[n].errno \in Retried /\ ~(call[n].extra + 1 > ExtraAttempts)
    <3> DEFINE c == [NoCall EXCEPT !.at = "check", !.extra = call[n].extra + 1,
                                   !.overtaken = call[n].overtaken]
    <3>1. c \in Call
      BY <1>0, <1>1, NoCallType DEF Call, Where
    <3>2. c.at = "check" /\ c.attempts = 0 /\ c.extra = call[n].extra + 1
      BY DEF NoCall
    <3>3. c.extra <= ExtraAttempts
      BY <1>1, <2>3, <3>2
    <3>4. call' = [call EXCEPT ![n] = c]
      BY <2>3 DEF Retry
    <3> HIDE DEF c
    <3> QED BY <1>2, <3>1, <3>2, <3>3, <3>4
  <2> QED BY <2>1, <2>2, <2>3
<1>3. call' \in [Nodes -> Call] /\ call'[n] = c /\ \A m \in Nodes \ {n} : call'[m] = call[m]
  BY <1>0, <1>2, Replaced
<1>4. CallOK(n)'
  BY <1>2, <1>3 DEF CallOK, Over
<1>5. CacheOK(n)'
  BY <1>0, <1>2, <1>3 DEF CacheOK, others
<1> QED BY <1>0, <1>3, <1>4, <1>5, OwnStep DEF TypeOK

LEMMA f_mknod_doneInv ==
  ASSUME Inv, NEW n \in Nodes, f_mknod_done(n)
  PROVE  Inv'
<1> DEFINE c == [NoCall EXCEPT !.at = "ok", !.overtaken = call[n].overtaken]
<1>0. /\ TypeOK /\ CacheOK(n) /\ call[n] \in Call /\ call[n].at = "insert"
      /\ UNCHANGED <<top, tmp, unlinker, opener>>
      /\ createdContainers' = [createdContainers EXCEPT ![n] = TRUE]
  BY DEF Inv, f_mknod_done, TypeOK
<1>1. c \in Call
  BY <1>0, NoCallType DEF Call, Where, Over
<1>2. c.at = "ok" /\ c.overtaken = call[n].overtaken
  BY DEF NoCall
<1>3. call' \in [Nodes -> Call] /\ call'[n] = c /\ \A m \in Nodes \ {n} : call'[m] = call[m]
  BY <1>0, <1>1, Replaced DEF f_mknod_done
<1> HIDE DEF c
<1>4. CallOK(n)'
  BY <1>2, <1>3 DEF CallOK, Over
<1>5. CacheOK(n)'
  BY <1>0, <1>2, <1>3 DEF CacheOK, Over
<1>6. \A m \in Nodes \ {n} : CallOK(m)' /\ CacheOK(m)'
  BY <1>0, <1>3, Bystander DEF TypeOK
<1>7. TypeOK'
  BY <1>0, <1>3 DEF TypeOK
<1> QED BY <1>4, <1>5, <1>6, <1>7 DEF Inv

LEMMA CallStepInv ==
  ASSUME Inv, NEW n \in Nodes, CallStep(n)
  PROVE  Inv'
BY CheckContainerInv, MakeTmpInv, RenameTmpInv, UnlinkPlainInv, MakeMetaInv, MakeHostDirInv,
   RetryInv, f_mknod_doneInv DEF CallStep

(* A step that takes away what is at the name.                             *)
LEMMA RemoveInv ==
  ASSUME Inv, NEW by, Vanish(by, {}, "idle"), UNCHANGED <<tmp, createdContainers, opener>>,
         unlinker' \in [Nodes -> {"idle", "rename", "plain", "erase"}],
         \A m \in Nodes : unlinker[m] = "erase" \/ m \in by => unlinker'[m] = "erase"
  PROVE  Inv'
<1>1. TypeOK /\ "idle" \in Where
  BY DEF Inv, Where, Over
<1>2. call' \in [Nodes -> Call] /\ top' \in Name
  BY <1>1, VanishedType
<1>3. \A m \in Nodes : CallOK(m)' /\ CacheOK(m)'
  BY <1>1, Robbed
<1>4. TypeOK'
  BY <1>1, <1>2 DEF TypeOK
<1> QED BY <1>3, <1>4 DEF Inv

(* A step that leaves the calls and the cache alone.                        *)
LEMMA ElsewhereInv ==
  ASSUME Inv, UNCHANGED <<tmp, call, createdContainers>>,
         top' \in Name, top'.kind = top.kind \/ (top.kind = "absent" /\ top'.kind = "dir"),
         unlinker' \in [Nodes -> {"idle", "rename", "plain", "erase"}],
         \A m \in Nodes : unlinker[m] = "erase" => unlinker'[m] = "erase",
         opener' \in [Nodes -> {"idle", "open", "again", "parent", "own", "lastparent", "lastown"}]
  PROVE  Inv'
<1>1. TypeOK'
  BY DEF Inv, TypeOK
<1>2. \A m \in Nodes : CallOK(m)' /\ CacheOK(m)'
  BY Bystander
<1> QED BY <1>1, <1>2 DEF Inv

LEMMA UnlinkBeginInv ==
  ASSUME Inv, NEW n \in Nodes, UnlinkBegin(n)
  PROVE  Inv'
BY ElsewhereInv DEF Inv, UnlinkBegin, TypeOK

LEMMA UnlinkRenameInv ==
  ASSUME Inv, NEW n \in Nodes, UnlinkRename(n)
  PROVE  Inv'
<1>0. TypeOK /\ unlinker[n] = "rename" /\ UNCHANGED <<tmp, createdContainers, opener>>
  BY DEF Inv, UnlinkRename
<1>1. CASE Vanish({n}, {}, "idle") /\ unlinker' = [unlinker EXCEPT ![n] = "erase"]
  BY <1>0, <1>1, RemoveInv DEF TypeOK
<1>2. CASE Vanish({}, {}, "idle") /\ unlinker' = [unlinker EXCEPT ![n] = "idle"]
  BY <1>0, <1>2, RemoveInv DEF TypeOK
<1>3. CASE UNCHANGED <<top, call>> /\ unlinker' = [unlinker EXCEPT ![n] = "idle"]
  BY <1>0, <1>3, ElsewhereInv DEF TypeOK
<1> QED BY <1>1, <1>2, <1>3 DEF UnlinkRename

LEMMA UnlinkOtherInv ==
  ASSUME Inv, NEW n \in Nodes, UnlinkOther(n)
  PROVE  Inv'
<1>0. TypeOK /\ unlinker[n] = "plain" /\ UNCHANGED <<tmp, createdContainers, opener>>
  BY DEF Inv, UnlinkOther
<1>1. CASE Vanish({n}, {}, "idle") /\ unlinker' = [unlinker EXCEPT ![n] = "erase"]
  BY <1>0, <1>1, RemoveInv DEF TypeOK
<1>2. CASE UNCHANGED <<top, call>> /\ unlinker' = [unlinker EXCEPT ![n] = "idle"]
  BY <1>0, <1>2, ElsewhereInv DEF TypeOK
<1> QED BY <1>1, <1>2 DEF UnlinkOther

(* The name leaves the cache of a node, whose call, if it is over, leaves   *)
(* nothing.                                                                *)
LEMMA ForgottenInv ==
  ASSUME Inv, NEW n \in Nodes, createdContainers' = [createdContainers EXCEPT ![n] = FALSE],
         Forgotten(n), UNCHANGED <<top, tmp, opener>>,
         unlinker' = unlinker \/ unlinker' = [unlinker EXCEPT ![n] = "idle"]
  PROVE  Inv'
<1>0. TypeOK /\ CallOK(n) /\ CacheOK(n)
  BY DEF Inv
<1>1. PICK c \in Call : call' = [call EXCEPT ![n] = c] /\ c \in {NoCall, call[n]}
  <2>1. CASE call[n].at \in Over
    BY <2>1, NoCallType DEF Forgotten
  <2>2. CASE call[n].at \notin Over
    BY <1>0, <2>2 DEF Forgotten, TypeOK
  <2> QED BY <2>1, <2>2
<1>2. call' \in [Nodes -> Call] /\ call'[n] = c /\ \A m \in Nodes \ {n} : call'[m] = call[m]
  BY <1>0, <1>1, Replaced
<1>3. NoCall.at = "idle"
  BY DEF NoCall
<1>4. CallOK(n)'
  BY <1>0, <1>1, <1>2, <1>3 DEF CallOK, Over
<1>5. CacheOK(n)'
  BY <1>0, <1>1, <1>2, <1>3 DEF CacheOK, TypeOK
<1>6. \A m \in Nodes \ {n} : CallOK(m)' /\ CacheOK(m)'
  BY <1>0, <1>2, Bystander DEF TypeOK
<1>7. TypeOK'
  BY <1>0, <1>2 DEF TypeOK
<1> QED BY <1>4, <1>5, <1>6, <1>7 DEF Inv

LEMMA EraseCreatedInv ==
  ASSUME Inv, NEW n \in Nodes, EraseCreated(n)
  PROVE  Inv'
BY ForgottenInv DEF EraseCreated

LEMMA f_getattrInv ==
  ASSUME Inv, NEW n \in Nodes, f_getattr(n)
  PROVE  Inv'
BY ForgottenInv DEF f_getattr

LEMMA OpenerInv ==
  ASSUME Inv, NEW n \in Nodes, OpenBegin(n) \/ AddWriter(n)
  PROVE  Inv'
<1>1. TypeOK
  BY DEF Inv
<1>2. CASE OpenBegin(n)
  BY <1>1, <1>2, ElsewhereInv DEF OpenBegin, TypeOK
<1>3. CASE AddWriter(n)
  BY <1>1, <1>3, ElsewhereInv DEF AddWriter, TypeOK
<1> QED BY <1>2, <1>3

LEMMA MakeParentInv ==
  ASSUME Inv, NEW n \in Nodes, MakeParent(n)
  PROVE  Inv'
<1>1. TypeOK
  BY DEF Inv
<1>2. top' \in Name /\ (top'.kind = top.kind \/ (top.kind = "absent" /\ top'.kind = "dir"))
  BY <1>1 DEF MakeParent, TypeOK, Dir, Absent, Name
<1> QED BY <1>1, <1>2, ElsewhereInv DEF MakeParent, TypeOK

LEMMA MakeOwnInv ==
  ASSUME Inv, NEW n \in Nodes, MakeOwn(n)
  PROVE  Inv'
<1>1. TypeOK /\ n \in Parts
  BY DEF Inv, Parts
<1>2. top' \in Name /\ top'.kind = top.kind
  BY <1>1, WithType DEF MakeOwn, TypeOK
<1> QED BY <1>1, <1>2, ElsewhereInv DEF MakeOwn, TypeOK

LEMMA UserInv ==
  ASSUME Inv, UserMkdir \/ UserRmdir
  PROVE  Inv'
<1>1. TypeOK
  BY DEF Inv
<1>2. CASE UserMkdir
  <2>1. top' \in Name /\ top'.kind = "dir"
    BY <1>2 DEF UserMkdir, Dir, Name
  <2> QED BY <1>1, <1>2, <2>1, ElsewhereInv DEF UserMkdir, TypeOK, others
<1>3. CASE UserRmdir
  BY <1>1, <1>3, RemoveInv DEF UserRmdir, TypeOK, others
<1> QED BY <1>2, <1>3

LEMMA CrashInv ==
  ASSUME Inv, NEW n \in Nodes, Crash(n)
  PROVE  Inv'
<1>0. TypeOK
  BY DEF Inv
<1>1. call' \in [Nodes -> Call] /\ call'[n] = NoCall /\ \A m \in Nodes \ {n} : call'[m] = call[m]
  BY <1>0, NoCallType, Replaced DEF Crash
<1>2. NoCall.at = "idle"
  BY DEF NoCall
<1>3. CallOK(n)'
  BY <1>1, <1>2 DEF CallOK, Over
<1>4. CacheOK(n)'
  BY <1>0, <1>1, <1>2 DEF CacheOK, Crash, TypeOK
<1>5. \A m \in Nodes \ {n} : CallOK(m)' /\ CacheOK(m)'
  BY <1>0, <1>1, Bystander DEF Crash, TypeOK
<1>6. TypeOK'
  BY <1>0, <1>1 DEF TypeOK, Crash
<1> QED BY <1>3, <1>4, <1>5, <1>6 DEF Inv

LEMMA NextInv ==
  ASSUME Inv, [Next]_vars
  PROVE  Inv'
<1>1. CASE UNCHANGED vars
  BY <1>1 DEF Inv, TypeOK, CallOK, CacheOK, vars
<1>2. ASSUME NEW n \in Nodes, NodeStep(n) PROVE Inv'
  BY <1>2, f_mknodInv, CallStepInv, f_getattrInv, CrashInv, UnlinkBeginInv, UnlinkRenameInv,
     UnlinkOtherInv, EraseCreatedInv, OpenerInv, MakeParentInv, MakeOwnInv DEF NodeStep
<1> QED BY <1>1, <1>2, UserInv DEF Next

LEMMA InitInv ==
  ASSUME Init
  PROVE  Inv
<1>1. TypeOK
  BY TopsAssumption, NoCallType DEF Init, TypeOK, Name
<1>2. \A n \in Nodes : call[n] = NoCall /\ ~createdContainers[n]
  BY DEF Init
<1>3. NoCall.at = "idle"
  BY DEF NoCall
<1>4. \A n \in Nodes : CallOK(n) /\ CacheOK(n)
  BY <1>2, <1>3 DEF CallOK, CacheOK, Over
<1> QED BY <1>1, <1>4 DEF Inv

LEMMA Invariance == Spec => []Inv
BY InitInv, NextInv, PTL DEF Spec

(* The state has the types of the code's.                                  *)
THEOREM TypeCorrect == Spec => []TypeOK
<1>1. Inv => TypeOK
  BY DEF Inv
<1> QED BY <1>1, Invariance, PTL

(* At a name in the cache of the containers a daemon has made there is a   *)
(* directory, but for the races the cache is known to lose, however many   *)
(* daemons, unlinks and crashes there are.                                 *)
THEOREM CacheIsTrue == Spec => []CacheIsTrueUnlessOvertaken
<1>1. Inv => CacheIsTrueUnlessOvertaken
  BY DEF Inv, CacheOK, CacheIsTrueUnlessOvertaken
<1> QED BY <1>1, Invariance, PTL

(* An attempt of create fails only when a call of its own does, or when    *)
(* others, another creator included, took away what it found at the name,  *)
(* and create only when its attempts are used up or a call failed.         *)
THEOREM FailsOnlyIfDisturbed == Spec => []GivesUpOnlyIfDisturbed
<1>1. Inv => GivesUpOnlyIfDisturbed
  BY DEF Inv, CallOK, GivesUpOnlyIfDisturbed
<1> QED BY <1>1, Invariance, PTL

-----------------------------------------------------------------------------
(* ContainerCreate implements AtomicCreate.  The mapping reads what is at  *)
(* the name, and where each call is.                                       *)
Place == IF isContainer(top) THEN "container" ELSE IF top.kind = "dir" THEN "dir" ELSE "none"
Hosts == top.parts \cap Nodes
StatusOf(c) == IF c.at = "idle" THEN "idle"
               ELSE IF c.at \in {"ok", "insert"} THEN "ok"
               ELSE IF c.at = "error" THEN "error" ELSE "busy"
Status == [n \in Nodes |-> StatusOf(call[n])]

LEMMA Mapping ==
  /\ Promise!Init <=> /\ Place \in {"none", "dir", "container"} /\ Hosts \subseteq Nodes
                      /\ Place = "none" => Hosts = {}
                      /\ Status = [n \in Nodes |-> "idle"]
  /\ \A n \in Nodes :
       /\ Promise!Begin(n) <=> /\ Status[n] # "busy" /\ Status' = [Status EXCEPT ![n] = "busy"]
                               /\ UNCHANGED <<Place, Hosts>>
       /\ Promise!Make(n) <=> /\ Status[n] = "busy" /\ Place # "container"
                              /\ Place' = "container" /\ Hosts' = {} /\ UNCHANGED Status
       /\ Promise!Ready(n) <=> /\ Status[n] = "busy" /\ Place # "none" /\ Hosts' = Hosts \cup {n}
                               /\ Status' = [Status EXCEPT ![n] = "ok"] /\ UNCHANGED Place
       /\ Promise!Fail(n) <=> /\ Status[n] = "busy" /\ Status' = [Status EXCEPT ![n] = "error"]
                              /\ UNCHANGED <<Place, Hosts>>
       /\ Promise!Leave(n) <=> Status' = [Status EXCEPT ![n] = "idle"] /\ UNCHANGED <<Place, Hosts>>
       /\ Promise!MakeHost(n) <=> Place # "none" /\ Hosts' = Hosts \cup {n} /\ UNCHANGED <<Place, Status>>
  /\ Promise!Remove <=> Place' = "none" /\ Hosts' = {} /\ UNCHANGED Status
  /\ Promise!Mkdir <=> Place = "none" /\ Place' = "dir" /\ UNCHANGED <<Hosts, Status>>
  /\ UNCHANGED Promise!vars <=> UNCHANGED <<Place, Hosts, Status>>
BY DEF Promise!Init, Promise!Begin, Promise!Make, Promise!Ready, Promise!Fail, Promise!Leave,
       Promise!MakeHost, Promise!Remove, Promise!Mkdir, Promise!vars, Place, Hosts, Status, StatusOf

LEMMA StatusMoved ==
  ASSUME NEW n \in Nodes, \A m \in Nodes \ {n} : call'[m].at = call[m].at
  PROVE  /\ Status' = [Status EXCEPT ![n] = StatusOf(call'[n])]
         /\ StatusOf(call'[n]) = StatusOf(call[n]) => Status' = Status
BY DEF Status, StatusOf

LEMMA StatusVanished ==
  ASSUME TypeOK, NEW by, Vanish(by, {}, "idle")
  PROVE  Status' = Status /\ Place' = "none" /\ Hosts' = {}
<1>1. "idle" \in Where
  BY DEF Where, Over
<1>2. \A m \in Nodes : call'[m].at = call[m].at
  BY <1>1, Vanished
<1>3. Place' = "none" /\ Hosts' = {}
  BY DEF Vanish, Absent, Place, Hosts, isContainer
<1> QED BY <1>2, <1>3 DEF Status, StatusOf

LEMMA MadeInMaps ==
  ASSUME TypeOK, NEW part \in Nodes \cup {"other"}, top.kind = "dir", top' = With(top, part)
  PROVE  /\ UNCHANGED Place /\ Place # "none"
         /\ part \in Nodes => Hosts' = Hosts \cup {part}
         /\ part = "other" => UNCHANGED Hosts
<1>1. part \in Parts /\ part # "access"
  BY NodesAssumption DEF Parts
<1> QED BY <1>1, WithType DEF TypeOK, Place, Hosts

LEMMA CallStepMaps ==
  ASSUME Inv, NEW n \in Nodes, CallStep(n)
  PROVE  [Promise!Next]_(Promise!vars)
<1>0. TypeOK /\ CallOK(n) /\ Status[n] = StatusOf(call[n])
  BY DEF Inv, Status
<1>a. UNCHANGED top => UNCHANGED <<Place, Hosts>>
  BY DEF Place, Hosts
<1>b. ASSUME Kept(n) \/ \E c : call' = [call EXCEPT ![n] = c],
             StatusOf(call'[n]) = StatusOf(call[n]), UNCHANGED <<Place, Hosts>>
      PROVE  UNCHANGED Promise!vars
  <2>1. \A m \in Nodes \ {n} : call'[m] = call[m]
    BY <1>0, <1>b DEF Kept, TypeOK
  <2>2. UNCHANGED Status
    BY <1>b, <2>1, StatusMoved
  <2> QED BY <1>b, <2>2, Mapping
<1>1. CASE CheckContainer(n)
  <2>1. {"hostdir", "mkdir"} \subseteq Where
    BY DEF Where
  <2>2. Kept(n) /\ call'[n].at \in {"hostdir", "mkdir"} /\ call[n].at = "check"
    BY <1>0, <1>1, <2>1, Moved DEF CheckContainer
  <2> QED BY <1>1, <1>a, <1>b, <2>2 DEF StatusOf, CheckContainer
<1>2. CASE MakeTmp(n)
  <2>1. "rename" \in Where /\ "ENOTEMPTY" \in Errnos
    BY DEF Where, Errnos
  <2>2. Kept(n) /\ call'[n].at \in {"rename", "failed"} /\ call[n].at = "mkdir"
    BY <1>0, <1>2, <2>1, Moved, Failed, Faulted DEF MakeTmp
  <2> QED BY <1>2, <1>a, <1>b, <2>2 DEF StatusOf, MakeTmp
<1>3. CASE RenameTmp(n)
  <2>1. {"meta", "hostdir"} \subseteq Where /\ 0 \in Attempts
    BY DEF Where, Attempts
  <2>2. call[n].at = "rename"
    BY <1>3 DEF RenameTmp
  <2>3. CASE /\ top \in {Absent, Dir({})} /\ top' = Dir({"access"})
             /\ call' = [call EXCEPT ![n].at = "meta", ![n].attempts = 0]
    <3>1. Kept(n) /\ call'[n].at = "meta"
      BY <1>0, <2>1, <2>3, MovedCounting
    <3>2. Status' = Status /\ Status[n] = "busy"
      BY <1>0, <2>2, <3>1, StatusMoved DEF Kept, StatusOf
    <3>3. Place # "container" /\ Place' = "container" /\ Hosts' = {}
      BY <2>3, NodesAssumption DEF Place, Hosts, isContainer, Absent, Dir
    <3>4. Promise!Make(n)
      BY <3>2, <3>3, Mapping
    <3> QED BY <3>4 DEF Promise!Next
  <2>4. CASE UNCHANGED top /\ call' = [call EXCEPT ![n].at = "plain", ![n].attempts = @ + 1]
    <3>1. \E c : call' = [call EXCEPT ![n] = c]
      BY <2>4
    <3>2. call'[n].at = "plain"
      BY <1>0, <2>4 DEF TypeOK, Call
    <3> QED BY <1>a, <1>b, <2>2, <2>4, <3>1, <3>2 DEF StatusOf
  <2>5. CASE UNCHANGED top /\ call' = [call EXCEPT ![n].at = "hostdir", ![n].attempts = 0]
    <3>1. Kept(n) /\ call'[n].at = "hostdir"
      BY <1>0, <2>1, <2>5, MovedCounting
    <3> QED BY <1>a, <1>b, <2>2, <2>5, <3>1 DEF StatusOf
  <2>6. CASE UNCHANGED top /\ Fault(n, "rename")
    <3>1. Kept(n) /\ call'[n].at = "failed"
      BY <1>0, <2>6, Faulted
    <3> QED BY <1>a, <1>b, <2>2, <2>6, <3>1 DEF StatusOf
  <2> QED BY <1>3, <2>3, <2>4, <2>5, <2>6 DEF RenameTmp
<1>4. CASE UnlinkPlain(n)
  <2>1. {"rename", "hostdir"} \subseteq Where /\ {"ENOENT", "EISDIR"} \subseteq Errnos /\ call[n].at = "plain"
    BY <1>4 DEF Where, Errnos, UnlinkPlain
  <2>2. ASSUME NEW at \in {"rename", "hostdir"}, top.kind = "file", Vanish({}, {n}, at)
        PROVE  UNCHANGED Promise!vars
    <3>1. \A m \in Nodes : call'[m].at = IF m \in {n} THEN at ELSE call[m].at
      BY <1>0, <2>1, <2>2, Vanished
    <3>2. UNCHANGED Status
      BY <2>1, <3>1, StatusMoved DEF StatusOf
    <3>3. UNCHANGED <<Place, Hosts>>
      BY <1>0, <2>2 DEF Vanish, Absent, Place, Hosts, isContainer, TypeOK, Name
    <3> QED BY <3>2, <3>3, Mapping
  <2>3. CASE UNCHANGED top /\ \E e \in {"ENOENT", "EISDIR"} : Failing(n, e)
    <3>1. Kept(n) /\ call'[n].at = "failed"
      BY <1>0, <2>1, <2>3, Failed
    <3> QED BY <1>a, <1>b, <2>1, <2>3, <3>1 DEF StatusOf
  <2> QED BY <1>4, <2>2, <2>3 DEF UnlinkPlain
<1>5. CASE MakeMeta(n)
  <2>1. "hostdir" \in Where /\ {"ENOENT", "ENOTDIR"} \subseteq Errnos /\ call[n].at = "meta"
    BY <1>5 DEF Where, Errnos, MakeMeta
  <2>2. Kept(n) /\ call'[n].at \in {"hostdir", "failed"}
    BY <1>0, <1>5, <2>1, Moved, Failed, Faulted DEF MakeMeta, MadeIn
  <2>3. top' = top \/ (top.kind = "dir" /\ top' = With(top, "other"))
    BY <1>5 DEF MakeMeta, MadeIn
  <2>4. UNCHANGED <<Place, Hosts>>
    BY <1>0, <1>a, <2>3, MadeInMaps
  <2> QED BY <1>b, <2>1, <2>2, <2>4 DEF StatusOf
<1>6. CASE MakeHostDir(n)
  <2>1. "insert" \in Where /\ {"ENOENT", "ENOTDIR"} \subseteq Errnos /\ call[n].at = "hostdir"
    BY <1>6 DEF Where, Errnos, MakeHostDir
  <2>2. CASE top.kind = "dir" /\ top' = With(top, n) /\ Goto(n, "insert")
    <3>1. Kept(n) /\ call'[n].at = "insert"
      BY <1>0, <2>1, <2>2, Moved
    <3>2. Status[n] = "busy" /\ Status' = [Status EXCEPT ![n] = "ok"]
      BY <1>0, <2>1, <3>1, StatusMoved DEF Kept, StatusOf
    <3>3. Place # "none" /\ Hosts' = Hosts \cup {n} /\ UNCHANGED Place
      BY <1>0, <2>2, MadeInMaps
    <3>4. Promise!Ready(n)
      BY <3>2, <3>3, Mapping
    <3> QED BY <3>4 DEF Promise!Next
  <2>3. CASE UNCHANGED top /\ (Fault(n, "hostdir") \/ \E e \in {"ENOENT", "ENOTDIR"} : Failing(n, e))
    <3>1. Kept(n) /\ call'[n].at = "failed"
      BY <1>0, <2>1, <2>3, Failed, Faulted
    <3> QED BY <1>a, <1>b, <2>1, <2>3, <3>1 DEF StatusOf
  <2> QED BY <1>6, <2>2, <2>3 DEF MakeHostDir, MadeIn
<1>7. CASE Retry(n)
  <2>1. /\ \E c : call' = [call EXCEPT ![n] = c]
        /\ call'[n].at \in {"error", "check"} /\ call[n].at = "failed" /\ UNCHANGED top
    BY <1>0, <1>7 DEF Retry, NoCall, TypeOK
  <2>2. CASE call'[n].at = "check"
    BY <1>a, <1>b, <2>1, <2>2 DEF StatusOf
  <2>3. CASE call'[n].at = "error"
    <3>1. Status[n] = "busy" /\ Status' = [Status EXCEPT ![n] = "error"]
      BY <1>0, <2>1, <2>3, StatusMoved DEF StatusOf
    <3>2. Promise!Fail(n)
      BY <1>a, <2>1, <3>1, Mapping
    <3> QED BY <3>2 DEF Promise!Next
  <2> QED BY <2>1, <2>2, <2>3
<1>8. CASE f_mknod_done(n)
  <2>1. /\ \E c : call' = [call EXCEPT ![n] = c]
        /\ call'[n].at = "ok" /\ call[n].at = "insert" /\ UNCHANGED top
    BY <1>0, <1>8 DEF f_mknod_done, NoCall, TypeOK
  <2> QED BY <1>a, <1>b, <2>1 DEF StatusOf
<1> QED
  BY <1>1, <1>2, <1>3, <1>4, <1>5, <1>6, <1>7, <1>8 DEF CallStep

LEMMA NextMaps ==
  ASSUME Inv, [Next]_vars
  PROVE  [Promise!Next]_(Promise!vars)
<1>1. TypeOK
  BY DEF Inv
<1>2. UNCHANGED top => UNCHANGED <<Place, Hosts>>
  BY DEF Place, Hosts
<1>3. UNCHANGED call => UNCHANGED Status
  BY DEF Status, StatusOf
<1>4. ASSUME NEW by, Vanish(by, {}, "idle") PROVE Promise!Next
  <2>1. Promise!Remove
    BY <1>1, <1>4, StatusVanished, Mapping
  <2> QED BY <2>1 DEF Promise!Next
<1>5. ASSUME NEW n \in Nodes, NEW c, call' = [call EXCEPT ![n] = c], c.at = "idle", UNCHANGED top
      PROVE  Promise!Next
  <2>1. call'[n].at = "idle" /\ \A m \in Nodes \ {n} : call'[m] = call[m]
    BY <1>1, <1>5 DEF TypeOK
  <2>2. Status' = [Status EXCEPT ![n] = "idle"]
    BY <2>1, StatusMoved DEF StatusOf
  <2>3. Promise!Leave(n)
    BY <1>2, <1>5, <2>2, Mapping
  <2> QED BY <2>3 DEF Promise!Next
<1>6. ASSUME NEW n \in Nodes, Forgotten(n), UNCHANGED top
      PROVE  [Promise!Next]_(Promise!vars)
  <2>1. CASE call[n].at \in Over
    <3>1. call' = [call EXCEPT ![n] = NoCall] /\ NoCall.at = "idle"
      BY <1>6, <2>1 DEF Forgotten, NoCall
    <3> QED BY <1>5, <1>6, <3>1
  <2>2. CASE call[n].at \notin Over
    <3>1. call' = call
      BY <1>1, <1>6, <2>2 DEF Forgotten, TypeOK
    <3> QED BY <1>2, <1>3, <1>6, <3>1, Mapping
  <2> QED BY <2>1, <2>2
<1>7. ASSUME NEW n \in Nodes, f_mknod(n) PROVE Promise!Next
  <2>1. /\ call'[n].at = "check" /\ call[n].at \in Over /\ UNCHANGED top
        /\ \A m \in Nodes \ {n} : call'[m] = call[m]
    BY <1>1, <1>7 DEF f_mknod, NoCall, TypeOK
  <2>2. Status' = [Status EXCEPT ![n] = "busy"]
    BY <2>1, StatusMoved DEF StatusOf
  <2>3. Status[n] # "busy"
    BY <2>1 DEF Status, StatusOf, Over
  <2>4. Promise!Begin(n)
    BY <1>2, <2>1, <2>2, <2>3, Mapping
  <2> QED BY <2>4 DEF Promise!Next
<1>8. ASSUME NEW n \in Nodes, Crash(n) PROVE Promise!Next
  BY <1>5, <1>8 DEF Crash, NoCall
<1>9. ASSUME NEW n \in Nodes, UnlinkRename(n) \/ UnlinkOther(n) PROVE [Promise!Next]_(Promise!vars)
  BY <1>2, <1>3, <1>4, <1>9, Mapping DEF UnlinkRename, UnlinkOther
<1>10. ASSUME top = Absent, top' = Dir({}), UNCHANGED call PROVE Promise!Next
  <2>1. Place = "none" /\ Place' = "dir" /\ UNCHANGED Hosts
    BY <1>10 DEF Place, Hosts, Absent, Dir, isContainer
  <2>2. Promise!Mkdir
    BY <1>3, <1>10, <2>1, Mapping
  <2> QED BY <2>2 DEF Promise!Next
<1>11. ASSUME NEW n \in Nodes, MakeOwn(n) PROVE [Promise!Next]_(Promise!vars)
  <2>1. CASE top.kind = "dir"
    <3>1. Place # "none" /\ Hosts' = Hosts \cup {n} /\ UNCHANGED Place
      BY <1>1, <1>11, <2>1, MadeInMaps DEF MakeOwn
    <3>2. Promise!MakeHost(n)
      BY <1>3, <1>11, <3>1, Mapping DEF MakeOwn
    <3> QED BY <3>2 DEF Promise!Next
  <2>2. CASE top.kind # "dir"
    BY <1>2, <1>3, <1>11, <2>2, Mapping DEF MakeOwn
  <2> QED BY <2>1, <2>2
<1>12. ASSUME NEW n \in Nodes,
              UnlinkBegin(n) \/ OpenBegin(n) \/ AddWriter(n) \/ (MakeParent(n) /\ top # Absent)
       PROVE  UNCHANGED Promise!vars
  BY <1>2, <1>3, <1>12, Mapping DEF UnlinkBegin, OpenBegin, AddWriter, MakeParent
<1>13. ASSUME NEW n \in Nodes, NodeStep(n) PROVE [Promise!Next]_(Promise!vars)
  <2>1. CASE MakeParent(n) /\ top = Absent
    BY <1>10, <2>1 DEF MakeParent
  <2>2. CASE EraseCreated(n) \/ f_getattr(n)
    BY <1>6, <2>2 DEF EraseCreated, f_getattr
  <2> QED BY <1>7, <1>8, <1>9, <1>11, <1>12, <1>13, <2>1, <2>2, CallStepMaps DEF NodeStep
<1>14. CASE UserMkdir
  <2>1. top = Absent
    BY <1>1, <1>14 DEF UserMkdir, Absent, TypeOK, Name
  <2> QED BY <1>10, <1>14, <2>1 DEF UserMkdir
<1>15. CASE UserRmdir
  BY <1>4, <1>15 DEF UserRmdir
<1>16. CASE UNCHANGED vars
  BY <1>2, <1>3, <1>16, Mapping DEF vars
<1> QED BY <1>13, <1>14, <1>15, <1>16 DEF Next

LEMMA InitMaps ==
  ASSUME Init
  PROVE  Promise!Init
<1>1. TypeOK
  BY InitInv DEF Inv
<1>2. Status = [n \in Nodes |-> "idle"]
  BY DEF Init, Status, StatusOf, NoCall
<1>3. Hosts \subseteq Nodes /\ Place \in {"none", "dir", "container"} /\ (Place = "none" => Hosts = {})
  BY <1>1 DEF Hosts, Place, TypeOK, Name, isContainer
<1> QED BY <1>2, <1>3, Mapping

(* create keeps its promise: a container appears whole and in one step, by *)
(* a call that is under way, and 0 means that the directory of the host    *)
(* has been seen in place.                                                 *)
THEOREM Creation == Spec => CreatesAtomically
<1>1. Init => Promise!Init
  BY InitMaps
<1>2. Inv /\ [Next]_vars => [Promise!Next]_(Promise!vars)
  BY NextMaps
<1> QED BY <1>1, <1>2, Invariance, PTL DEF Spec, CreatesAtomically, Promise!Spec
=============================================================================
