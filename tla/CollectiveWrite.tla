-------------------------- MODULE CollectiveWrite --------------------------
(***************************************************************************)
(* How the ranks of an MPI job open a container for writing, resize it and *)
(* close it: the ADIO driver of src/ad_plfs over plfs_open, plfs_trunc and *)
(* plfs_close with the interface PLFS_MPIIO (src/src/plfs.cpp).            *)
(*                                                                         *)
(* Of the ranks that share a hostdir the first opens the file, and makes   *)
(* the hostdir if it is missing, before the others do.  Rank 0 alone keeps *)
(* the open record and drops the metadata, for which the ends of all       *)
(* ranks' writes are reduced to it at the close; or, with the hint         *)
(* plfs_flatten_close, their indexes are gathered.                         *)
(*                                                                         *)
(* Collective calls are as in ParallelOpen: sent holds who has entered one *)
(* with what, and a rank goes on when those it waits for have.             *)
(***************************************************************************)
EXTENDS Integers, FiniteSets, FiniteSetsExt

CONSTANTS
  Jobs,        \* [np, hostdir, shadow, flatten, resize, first]: the hostdir of each rank;
               \* the hostdirs that belong in another backend; the hint; the size that
               \* the job sets, or -1; the rank that is first in hints->ranklist
  MaxOffset,   \* bound: ends of writes
  Faults,      \* what may go wrong: "mkdir", "open", "record", "trunc"
  MaxFaults    \* bound: how often, all together

ASSUME JobsAssumption == \A j \in Jobs :
  /\ j.np \in Nat \ {0} /\ j.hostdir \in [0..(j.np - 1) -> Nat \ {0}]
  /\ j.flatten \in BOOLEAN /\ j.resize \in -1..MaxOffset /\ j.first \in 0..(j.np - 1)
ASSUME BoundsAssumption == MaxOffset \in Nat /\ MaxFaults \in Nat
ASSUME FaultsAssumption == Faults \subseteq {"mkdir", "open", "record", "trunc"}

VARIABLES
  job,
  rank,      \* per rank: where it is, its Plfs_fd and its results
  sent,      \* who entered which collective call with what
  shadows,   \* the hostdirs that exist in another backend,
  hostdirs,  \* and those in the container, as directories or links
  record,    \* the open record
  metas,     \* the ends in the names of the meta droppings
  faults,
  beaten     \* history: somebody made a hostdir or link between two steps of a rank that would

vars == <<job, rank, sent, shadows, hostdirs, record, metas, faults, beaten>>
files == <<shadows, hostdirs, record, metas, beaten>>

Ranks == 0..(job.np - 1)
Starting == [at |-> "start", attempts |-> 0, opened |-> FALSE, err |-> 0,
             last_offset |-> 0, buffering |-> FALSE, filled |-> FALSE,
             resized |-> FALSE, told |-> 0, stop |-> FALSE]

Init ==
  /\ job \in Jobs
  /\ rank = [r \in Ranks |-> Starting]
  /\ hostdirs \in SUBSET {job.hostdir[r] : r \in Ranks}
  /\ shadows = hostdirs \cap job.shadow
  /\ sent = {} /\ record = FALSE /\ metas = {} /\ faults = 0 /\ beaten = FALSE

-----------------------------------------------------------------------------
Entered(op, r) == \E m \in sent : m.op = op /\ m.rank = r
DataOf(op, r) == (CHOOSE m \in sent : m.op = op /\ m.rank = r).data
Message(op, r, data) == [op |-> op, rank |-> r, data |-> data]
Enter(op, r, data) == sent' = sent \cup {Message(op, r, data)}

Goto(r, at) == rank' = [rank EXCEPT ![r].at = at]
Fails(fault) == fault \in Faults /\ faults < MaxFaults /\ faults' = faults + 1

Sharers(r) == {q \in Ranks : job.hostdir[q] = job.hostdir[r]}
Leads(r) == r = Min(Sharers(r))

-----------------------------------------------------------------------------
(* open_helper: a communicator for the ranks of a hostdir.                 *)
Start(r) ==
  /\ rank[r].at = "start"
  /\ Enter("split", r, job.hostdir[r]) /\ Goto(r, "split")
  /\ UNCHANGED <<job, faults>> /\ UNCHANGED files

\* Mutant: the leader meets the others before it opens, and not after.
Split_LeaderLast(r) ==
  /\ rank[r].at = "split" /\ \A q \in Ranks : Entered("split", q)
  /\ Enter("barrier", r, 0)
  /\ Goto(r, IF Leads(r) THEN "addWriter" ELSE "barrier")
  /\ UNCHANGED <<job, faults>> /\ UNCHANGED files

(* The leaders go on to plfs_open, the others into the barrier.            *)
Split(r) ==
  /\ rank[r].at = "split" /\ \A q \in Ranks : Entered("split", q)
  /\ IF Leads(r)
     THEN UNCHANGED sent /\ Goto(r, "addWriter")
     ELSE Enter("barrier", r, 0) /\ Goto(r, "barrier")
  /\ UNCHANGED <<job, faults>> /\ UNCHANGED files

(* The others leave the barrier when all have entered it, the leader after *)
(* its plfs_open.                                                          *)
Barrier(r) ==
  /\ rank[r].at = "barrier" /\ \A q \in Sharers(r) : Entered("barrier", q)
  /\ Goto(r, "addWriter")
  /\ UNCHANGED <<job, sent, faults>> /\ UNCHANGED files

(* plfs_open returns; a leader enters the barrier.                         *)
OpenReturns(r, err) ==
  /\ rank' = [rank EXCEPT ![r].at = "opened", ![r].opened = err = 0, ![r].err = err,
                          ![r].buffering = job.flatten]
  /\ IF Leads(r) THEN Enter("barrier", r, 0) ELSE UNCHANGED sent

(* addWriter of plfs.cpp: opening the droppings fails if there is no       *)
(* hostdir.  Two attempts to make it.                                      *)
AddWriter(r) ==
  /\ rank[r].at = "addWriter"
  /\ \/ /\ Fails("open") /\ OpenReturns(r, -1)
     \/ /\ job.hostdir[r] \in hostdirs
        /\ Goto(r, "record") /\ UNCHANGED <<sent, faults>>
     \/ /\ job.hostdir[r] \notin hostdirs
        /\ rank' = [rank EXCEPT ![r].at = "makeHostDir", ![r].attempts = @ + 1]
        /\ UNCHANGED <<sent, faults>>
  /\ UNCHANGED job /\ UNCHANGED files

(* After the second attempt no writer is added any more.                   *)
AfterAttempt(r) ==
  IF rank[r].attempts = 2 THEN OpenReturns(r, -1) ELSE Goto(r, "addWriter") /\ UNCHANGED sent

(* Container::makeHostDir, where the host hashes to.                       *)
MakeHostDir(r) ==
  LET dir == job.hostdir[r] IN
  /\ rank[r].at = "makeHostDir"
  /\ \/ /\ Fails("mkdir") /\ AfterAttempt(r)
        /\ UNCHANGED <<shadows, hostdirs, beaten>>
     \/ /\ dir \in job.shadow
        /\ shadows' = shadows \cup {dir}
        /\ beaten' = (beaten \/ dir \in shadows)
        /\ Goto(r, "symlink") /\ UNCHANGED <<sent, hostdirs, faults>>
     \/ /\ dir \notin job.shadow
        /\ hostdirs' = hostdirs \cup {dir}
        /\ beaten' = (beaten \/ dir \in hostdirs)
        /\ AfterAttempt(r) /\ UNCHANGED <<shadows, faults>>
  /\ UNCHANGED <<job, record, metas>>

Symlink(r) ==
  LET dir == job.hostdir[r] IN
  /\ rank[r].at = "symlink"
  /\ hostdirs' = hostdirs \cup {dir}
  /\ beaten' = (beaten \/ dir \in hostdirs)
  /\ AfterAttempt(r)
  /\ UNCHANGED <<job, shadows, record, metas, faults>>

(* The open record, by rank 0 alone.                                       *)
AddOpenrecord(r) ==
  /\ rank[r].at = "record"
  /\ \/ /\ OpenReturns(r, 0) /\ record' = (record \/ r = 0) /\ UNCHANGED faults
     \/ /\ r = 0 /\ Fails("record") /\ OpenReturns(r, -1) /\ UNCHANGED record
  /\ UNCHANGED <<job, shadows, hostdirs, metas, beaten>>

(* ADIOI_PLFS_Open: the result of rank 0 is everybody's.  A leader waits   *)
(* in the barrier before.                                                  *)
SendResult ==
  /\ rank[0].at = "opened" /\ \A q \in Sharers(0) : Entered("barrier", q)
  /\ Enter("err", 0, rank[0].err)
  /\ Goto(0, IF rank[0].err = 0 THEN "open" ELSE "failed")
  /\ UNCHANGED <<job, faults>> /\ UNCHANGED files

ReceiveResult(r) ==
  /\ r # 0 /\ rank[r].at = "opened" /\ Entered("err", 0)
  /\ Leads(r) => \A q \in Sharers(r) : Entered("barrier", q)
  /\ Goto(r, IF DataOf("err", 0) = 0 THEN "open" ELSE "failed")
  /\ UNCHANGED <<job, sent, faults>> /\ UNCHANGED files

-----------------------------------------------------------------------------
(* ADIOI_PLFS_WriteContig, by a rank that has a Plfs_fd.  To flatten, the  *)
(* index buffers until a write finds it too large: stopBuffering.          *)
Write(r, end) ==
  /\ rank[r].at = "open" /\ rank[r].opened /\ end > rank[r].last_offset
  /\ \E stops \in IF rank[r].buffering THEN BOOLEAN ELSE {FALSE} :
       rank' = [rank EXCEPT ![r].last_offset = end, ![r].buffering = @ /\ ~stops,
                            ![r].filled = @ \/ stops]
  /\ UNCHANGED <<job, sent, faults>> /\ UNCHANGED files

(* ADIOI_PLFS_Resize: one rank truncates, with its own handle, which is    *)
(* the only one that learns of it.  What rank 0 broadcasts as the result   *)
(* was not initialized if that is another rank.                            *)
Results(r) == IF r = job.first /\ "trunc" \notin Faults THEN {0} ELSE {0, -1}

Resize(r) ==
  /\ rank[r].at = "open" /\ job.resize >= 0 /\ ~rank[r].resized
  /\ \E err \in Results(r) :
       /\ rank' = [rank EXCEPT ![r].resized = TRUE, ![r].at = "resize",
            ![r].last_offset = IF r = job.first /\ rank[r].opened /\ err = 0 THEN job.resize ELSE @]
       /\ IF r = 0 THEN Enter("resize", 0, err) ELSE UNCHANGED sent
  /\ UNCHANGED <<job, faults>> /\ UNCHANGED files

ResizeReturns(r) ==
  /\ rank[r].at = "resize" /\ Entered("resize", 0)
  /\ rank' = [rank EXCEPT ![r].at = "open", ![r].told = DataOf("resize", 0)]
  /\ UNCHANGED <<job, sent, faults>> /\ UNCHANGED files

-----------------------------------------------------------------------------
(* ADIOI_PLFS_Close, of a rank with no Plfs_fd: nothing.  Otherwise it     *)
(* enters the reduction of the ends or, to flatten, the gathering of the   *)
(* sizes of indexes.                                                       *)
Close(r) ==
  /\ rank[r].at = "open" /\ (job.resize >= 0 => rank[r].resized)
  /\ IF ~rank[r].opened
     THEN Goto(r, "closed") /\ UNCHANGED sent
     ELSE IF job.flatten
     THEN Goto(r, "flatten") /\ Enter("size", r, 0)
     ELSE Goto(r, "reduce") /\ Enter("meta", r, rank[r].last_offset)
  /\ UNCHANGED <<job, faults>> /\ UNCHANGED files

(* The size that global_to_stream finds for the index of a rank.           *)
index_size(r) == IF rank[r].buffering /\ rank[r].filled THEN -1 ELSE 0

(* flatten_then_close: root decides whether all indexes are there.         *)
GatherSizes ==
  /\ rank[0].at = "flatten" /\ \A q \in Ranks : Entered("size", q)
  /\ LET stop == \E q \in Ranks : index_size(q) = -1 IN
     /\ sent' = sent \cup {Message("stop", 0, stop)}
                     \cup (IF stop THEN {Message("meta", 0, rank[0].last_offset)} ELSE {})
     /\ rank' = [rank EXCEPT ![0].stop = stop, ![0].at = IF stop THEN "reduce" ELSE "gather"]
  /\ UNCHANGED <<job, faults>> /\ UNCHANGED files

\* Mutant: only root calls MPI_Gatherv.
ReceiveStop_RootGathers(r) ==
  /\ r # 0 /\ rank[r].at = "flatten" /\ Entered("stop", 0)
  /\ LET stop == DataOf("stop", 0) IN
     /\ IF stop THEN Enter("meta", r, rank[r].last_offset) ELSE UNCHANGED sent
     /\ rank' = [rank EXCEPT ![r].stop = stop, ![r].at = IF stop THEN "reduce" ELSE "plfs_close"]
  /\ UNCHANGED <<job, faults>> /\ UNCHANGED files

ReceiveStop(r) ==
  /\ r # 0 /\ rank[r].at = "flatten" /\ Entered("stop", 0)
  /\ LET stop == DataOf("stop", 0) IN
     /\ IF stop THEN Enter("meta", r, rank[r].last_offset) ELSE Enter("index", r, 0)
     /\ rank' = [rank EXCEPT ![r].stop = stop, ![r].at = IF stop THEN "reduce" ELSE "plfs_close"]
  /\ UNCHANGED <<job, faults>> /\ UNCHANGED files

GatherIndexes ==
  /\ rank[0].at = "gather" /\ \A q \in Ranks \ {0} : Entered("index", q)
  /\ Goto(0, "plfs_close")
  /\ UNCHANGED <<job, sent, faults>> /\ UNCHANGED files

\* Mutant: root goes on when the others that are in the reduction have brought their ends.
Reduced_Present == \A q \in Ranks \ {0} : rank[q].at = "reduce" => Entered("meta", q)

(* reduce_meta: root needs the end of every rank, the others need nothing. *)
Reduced == \A q \in Ranks : Entered("meta", q)

ReduceMeta(r) ==
  /\ rank[r].at = "reduce" /\ (r = 0 => Reduced)
  /\ Goto(r, "plfs_close")
  /\ UNCHANGED <<job, sent, faults>> /\ UNCHANGED files

(* plfs_close.  Only rank 0 drops the metadata: the reduced maximum, or    *)
(* the lastOffset of an index that no write has raised.                    *)
PlfsClose(r) ==
  /\ rank[r].at = "plfs_close"
  /\ Goto(r, "closed")
  /\ IF r # 0 THEN UNCHANGED <<metas, record>>
     ELSE /\ metas' = metas \cup {IF job.flatten /\ ~rank[0].stop THEN 0
                                  ELSE Max({m.data : m \in {x \in sent : x.op = "meta"}})}
          /\ record' = FALSE
  /\ UNCHANGED <<job, sent, shadows, hostdirs, faults, beaten>>

-----------------------------------------------------------------------------
Step(r) ==
  \/ Start(r) \/ Split(r) \/ Barrier(r) \/ AddWriter(r) \/ MakeHostDir(r) \/ Symlink(r)
  \/ AddOpenrecord(r) \/ ReceiveResult(r)
  \/ Resize(r) \/ ResizeReturns(r) \/ Close(r)
  \/ ReceiveStop(r) \/ ReduceMeta(r) \/ PlfsClose(r)
  \/ r = 0 /\ (SendResult \/ GatherSizes \/ GatherIndexes)

Next == \E r \in Ranks : Step(r) \/ \E end \in 1..MaxOffset : Write(r, end)

(* As long as a rank can go on in a call or with the next call that all    *)
(* make, some rank does; writes may be left out.                           *)
Spec == Init /\ [][Next]_vars /\ WF_vars(\E r \in Ranks : Step(r))

-----------------------------------------------------------------------------
(* The types of the state.                                                 *)
Places == {"start", "split", "barrier", "addWriter", "makeHostDir", "symlink", "record", "opened",
           "open", "failed", "resize", "flatten", "gather", "reduce", "plfs_close", "closed"}
Attempts == 0..2
Errs == {0, -1}
Ends == 0..MaxOffset
Rank == [at : Places, attempts : Attempts, opened : BOOLEAN, err : Errs, last_offset : Ends,
         buffering : BOOLEAN, filled : BOOLEAN, resized : BOOLEAN, told : Errs, stop : BOOLEAN]

MessageOK(m) ==
  /\ m.rank \in Ranks
  /\ m.op \in {"err", "resize"} => m.data \in Errs
  /\ m.op = "stop" => m.data \in BOOLEAN
  /\ m.op = "meta" => m.data \in Ends

TypeOK ==
  /\ job \in Jobs /\ rank \in [Ranks -> Rank] /\ \A m \in sent : MessageOK(m)
  /\ hostdirs \subseteq {job.hostdir[r] : r \in Ranks} /\ shadows \subseteq job.shadow
  /\ record \in BOOLEAN /\ metas \subseteq Ends /\ faults \in 0..MaxFaults /\ beaten \in BOOLEAN

(* What the comment in addWriter says of ADIO: no sibling makes a hostdir, *)
(* or the link to it, under a rank that is about to, as long as nothing    *)
(* has failed in the job; it is the failure of the first rank of a hostdir *)
(* that leaves its siblings to race.                                       *)
NoSiblingBeatsUs == beaten => faults > 0

(* The one meta dropping of a job that does not flatten has the end of     *)
(* every rank's handle, however late some ranks write; all of them have    *)
(* done with it by then.                                                   *)
MetaCoversEveryRank ==
  \A end \in metas : ~job.flatten =>
    /\ end = Max({rank[r].last_offset : r \in Ranks})
    /\ \A r \in Ranks : rank[r].at \in {"reduce", "plfs_close", "closed"}

(* The open and the close come to their end on every rank, unless a rank   *)
(* failed to open without that the others know of it: the close of rank 0  *)
(* then waits for a call that this rank does not make.                     *)
HiddenFailure == rank[0].opened /\ \E r \in Ranks : rank[r].err # 0
CloseReturns == <>(HiddenFailure \/ \A r \in Ranks : rank[r].at \in {"closed", "failed"})

=============================================================================
