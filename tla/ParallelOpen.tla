--------------------------- MODULE ParallelOpen ---------------------------
(***************************************************************************)
(* How the ranks of an MPI job open a container for reading: the ADIO      *)
(* driver of src/ad_plfs/ad_plfs_open.c over the parindex functions of     *)
(* src/src/plfs.cpp and src/src/Container.cpp.                             *)
(*                                                                         *)
(* The ranks share out the index droppings, each reads its part into an    *)
(* Index, and streams of these go up and down through collective calls     *)
(* until every rank can give plfs_open a stream of the whole.  With other  *)
(* hints rank 0 reads all and broadcasts the stream, or every rank reads   *)
(* all by itself.                                                          *)
(*                                                                         *)
(* A collective call is modelled by what it has to wait for.  A rank that  *)
(* enters it leaves a record [op, comm, rank, data] in sent.  The other    *)
(* ranks leave a broadcast once the root has entered it, the root leaves a *)
(* gather and everybody leaves an allgather or a split once all have       *)
(* entered.  The broadcast of a size goes together with that of the bytes. *)
(*                                                                         *)
(* A dropping is <<hostdir, id>>, with the pid that wrote it.  An Index is *)
(* its units, of which the ids matter here, and its chunk_map: for every   *)
(* dropping that was read, the ids of the chunks named after it.           *)
(***************************************************************************)
EXTENDS Integers, Sequences, FiniteSets, FiniteSetsExt, SequencesExt

CONSTANTS
  Jobs,         \* [np, container, hint, pooled]: the ranks; [hostdirs, droppings], the
                \* hostdirs being numbers; "paropen", "broadcast" or "alone"; whether
                \* threadpool_size is more than 1
  Faults,       \* what may go wrong: "count", "list", "read", "open"
  MaxFaults     \* bound: how often, all together

ASSUME JobsAssumption == \A j \in Jobs :
  /\ j.np \in Nat \ {0} /\ j.hint \in {"paropen", "broadcast", "alone"} /\ j.pooled \in BOOLEAN
  /\ j.container.hostdirs \subseteq Nat \ {0}
  /\ \A d \in j.container.droppings : d[1] \in j.container.hostdirs
  /\ IsFiniteSet(j.container.hostdirs) /\ IsFiniteSet(j.container.droppings)
ASSUME FaultsAssumption == Faults \subseteq {"count", "list", "read", "open"} /\ MaxFaults \in Nat

VARIABLES
  job,    \* the job
  rank,   \* per rank: where it is and what it knows
  sent,   \* who entered which collective call with what
  faults, \* how many faults there were
  lost    \* history: droppings that some readIndex failed on

openVars == <<job, rank, sent, faults, lost>>

Ranks == 0..(job.np - 1)
NoIndex == [units |-> {}, chunks |-> << >>]

(* The start of a rank; num is the number of hostdirs, bitmap which these  *)
(* are, stream what it has of the index, opened and index its Plfs_fd, err *)
(* what open_helper returned.                                              *)
Starting == [at |-> "start", num |-> 0, bitmap |-> {}, stream |-> << >>,
             index |-> NoIndex, opened |-> FALSE, err |-> 0]

OpenInit ==
  /\ job \in Jobs
  /\ rank = [r \in Ranks |-> Starting]
  /\ sent = {} /\ faults = 0 /\ lost = {}

-----------------------------------------------------------------------------
(* The collective calls.                                                   *)
Entered(op, comm, r) == \E m \in sent : m.op = op /\ m.comm = comm /\ m.rank = r
DataOf(op, comm, r) == (CHOOSE m \in sent : m.op = op /\ m.comm = comm /\ m.rank = r).data
Enter(op, comm, r, data) == sent' = sent \cup {[op |-> op, comm |-> comm, rank |-> r, data |-> data]}

Nth(numbers, i) == CHOOSE n \in numbers : Cardinality({m \in numbers : m <= n}) = i

(* The streams of the members of a communicator, in the order of ranks.    *)
InOrder(op, comm, members) ==
  [i \in 1..Cardinality(members) |-> DataOf(op, comm, Nth(members, i))]

Goto(r, at) == rank' = [rank EXCEPT ![r].at = at]
Streamed(r, stream) == rank' = [rank EXCEPT ![r] = [@ EXCEPT !.stream = stream, !.at = "plfs_open"]]
May(fault) == fault \in Faults /\ faults < MaxFaults

-----------------------------------------------------------------------------
(* Which part of the work is whose.                                        *)
ranks_per_comm_calc(np, num_host_dir) == np \div num_host_dir
extra_rank_calc(np, num_host_dir) == np % num_host_dir

rank_to_group_index(r, ranks_per_comm, extra_rank) ==
  IF r < extra_rank * (ranks_per_comm + 1)
  THEN r \div (ranks_per_comm + 1)
  ELSE (r - extra_rank) \div ranks_per_comm

hostdir_per_rank(r, np, num_host_dir) ==
  num_host_dir \div np + (IF r < num_host_dir % np THEN 1 ELSE 0)

(* The hostdir at the stop_point-th bit that is set.                       *)
count_to_hostdir(bitmap, stop_point) == Nth(bitmap, stop_point)

bitmap_to_dirname(bitmap, group_index, mult, np) ==
  IF mult = 0
  THEN <<count_to_hostdir(bitmap, group_index + 1)>>
  ELSE [i \in 1..mult |-> count_to_hostdir(bitmap, group_index + 1 + (i - 1) * np)]

Group(r) == rank_to_group_index(r, ranks_per_comm_calc(job.np, rank[r].num),
                                extra_rank_calc(job.np, rank[r].num))

(* The members of the hostdir_comm of a rank, by the colors they gave to   *)
(* MPI_Comm_split; the first leads.                                        *)
Color(r) == DataOf("hostdir_comm", "world", r)
Members(r) == {q \in Ranks : Color(q) = Color(r)}
Leader(r) == Min(Members(r))
new_rank(r) == Cardinality({q \in Members(r) : q < r})
Leaders == {r \in Ranks : Leader(r) = r}

-----------------------------------------------------------------------------
(* Reading index droppings.  The list of those of a hostdir has its path   *)
(* before them; it is empty if the hostdir cannot be opened.               *)
hostdir_index_read(dir) ==
  << <<dir, -1>> >> \o SetToSeq({d \in job.container.droppings : d[1] = dir})

(* The list as a stream, with the number of entries at its head.           *)
listToStream(list) == [size |-> Len(list), entries |-> list]
streamToList(stream) == [i \in 1..stream.size |-> stream.entries[i]]

(* indexTaskManager.  readIndex makes a chunk of the dropping for every id *)
(* in the index: those of the droppings before it too, if they are read    *)
(* one by one, and only its own if a pool of threads reads each into an    *)
(* Index that is merged in.                                                *)
indexTaskManager(tasks) ==
  [units |-> {d[2] : d \in ToSet(tasks)},
   chunks |-> [i \in DOMAIN tasks |->
     [dropping |-> tasks[i],
      ids |-> IF job.pooled THEN {tasks[i][2]} ELSE {tasks[j][2] : j \in 1..i}]]]

(* An Index that the others are merged into one after the other.           *)
merge(indices) ==
  [units |-> UNION {indices[i].units : i \in DOMAIN indices},
   chunks |-> FlattenSeq([i \in DOMAIN indices |-> indices[i].chunks])]

(* What is at some places of a list, in its order.                         *)
Chosen(list, places) == [n \in 1..Cardinality(places) |-> list[Nth(places, n)]]

\* Mutant: the list is shared out from its second entry on.
Tasks_SkipsOne(files, r, ranks_per_comm) ==
  Chosen(files, {i \in DOMAIN files : i > 1 /\ (i - 1) % ranks_per_comm = r})

(* The tasks of parAggregateIndices: from r on, every ranks_per_comm-th.   *)
Tasks(files, r, ranks_per_comm) ==
  Chosen(files, {i \in DOMAIN files : (i - 1) % ranks_per_comm = r})

(* What parAggregateIndices may return.  If readIndex fails on a dropping, *)
(* others may be left unread as well, and no error is passed on.           *)
parAggregateIndices(files, r, ranks_per_comm) ==
  LET tasks == Tasks(files, r, ranks_per_comm)
      reads == {tasks} \cup
        (IF May("read") THEN {Chosen(tasks, some) : some \in SUBSET DOMAIN tasks} ELSE {})
  IN  {[index |-> indexTaskManager(done), missed |-> ToSet(tasks) \ ToSet(done)] : done \in reads}

(* The streams.  They hold the entries of global_index, of which there are *)
(* none, and the chunk_map: the units do not travel.                       *)
global_to_stream(index) == index.chunks
global_from_stream(index, stream) == [index EXCEPT !.chunks = @ \o stream]

plfs_parindexread_merge(streams) ==
  global_to_stream(merge([i \in DOMAIN streams |-> global_from_stream(NoIndex, streams[i])]))

-----------------------------------------------------------------------------
(* par_index_read.  Rank 0 counts the hostdirs and sets their bits; all    *)
(* get the number.  A division by it decides between the two ways to go    *)
(* on, and kills the ranks when it is 0, which it is when the container    *)
(* could not be opened.                                                    *)
AfterCount(r, num) ==
  IF num = 0 THEN "dead" ELSE IF ranks_per_comm_calc(job.np, num) > 0 THEN "split" ELSE "bitmap"

num_host_dirs ==
  /\ rank[0].at = "start" /\ job.hint = "paropen"
  /\ \E seen \in {job.container.hostdirs} \cup (IF May("count") THEN {{}} ELSE {}) :
       /\ rank' = [rank EXCEPT ![0] = [@ EXCEPT !.bitmap = seen, !.num = Cardinality(seen), !.at = "counted"]]
       /\ Enter("num_host_dir", "world", 0, Cardinality(seen))
       /\ faults' = IF seen = job.container.hostdirs THEN faults ELSE faults + 1
  /\ UNCHANGED <<job, lost>>

ReceiveCount(r) ==
  /\ r # 0 /\ rank[r].at = "start" /\ job.hint = "paropen"
  /\ Entered("num_host_dir", "world", 0)
  /\ rank' = [rank EXCEPT ![r] = [@ EXCEPT !.num = DataOf("num_host_dir", "world", 0), !.at = "counted"]]
  /\ UNCHANGED <<job, sent, faults, lost>>

(* The calculations, and the entry into the first call that follows them.  *)
ChooseWay(r) ==
  /\ rank[r].at = "counted"
  /\ Goto(r, AfterCount(r, rank[r].num))
  /\ CASE AfterCount(r, rank[r].num) = "split" -> Enter("hostdir_comm", "world", r, Group(r))
       [] AfterCount(r, rank[r].num) = "bitmap" /\ r = 0 -> Enter("bitmap", "world", 0, rank[0].bitmap)
       [] OTHER -> UNCHANGED sent
  /\ UNCHANGED <<job, faults, lost>>

-----------------------------------------------------------------------------
\* Mutant: only the leaders enter the second split.
SplitHostdirs_LeadersOnly(r) ==
  /\ rank[r].at = "split"
  /\ \A q \in Ranks : Entered("hostdir_comm", "world", q)
  /\ IF Leader(r) = r THEN Enter("hostdir_zeros_comm", "world", r, TRUE) ELSE UNCHANGED sent
  /\ Goto(r, IF Leader(r) = r THEN "zeros" ELSE "read")
  /\ UNCHANGED <<job, faults, lost>>

(* split_and_merge: a communicator for every hostdir, and one of their     *)
(* first ranks.                                                            *)
SplitHostdirs(r) ==
  /\ rank[r].at = "split"
  /\ \A q \in Ranks : Entered("hostdir_comm", "world", q)
  /\ Enter("hostdir_zeros_comm", "world", r, Leader(r) = r)
  /\ Goto(r, "zeros")
  /\ UNCHANGED <<job, faults, lost>>

SplitZeros(r) ==
  /\ rank[r].at = "zeros"
  /\ \A q \in Ranks : Entered("hostdir_zeros_comm", "world", q)
  /\ Goto(r, IF Leader(r) = r THEN "list" ELSE "read")
  /\ IF r = 0 THEN Enter("bitmap", "zeros", 0, rank[0].bitmap) ELSE UNCHANGED sent
  /\ UNCHANGED <<job, faults, lost>>

(* plfs_hostdir_zero_rddir by a leader.                                    *)
ListHostdir(r) ==
  /\ rank[r].at = "list" /\ Entered("bitmap", "zeros", 0)
  /\ LET dir == bitmap_to_dirname(DataOf("bitmap", "zeros", 0), Color(r), 0, job.np)[1] IN
     \/ Enter("list", Color(r), r, listToStream(hostdir_index_read(dir))) /\ UNCHANGED faults
     \/ May("list") /\ faults' = faults + 1 /\ Enter("list", Color(r), r, listToStream(<< >>))
  /\ Goto(r, "read")
  /\ UNCHANGED <<job, lost>>

(* plfs_parindex_read: the first entry of the list is taken off unseen.    *)
ReadDroppings(r) ==
  /\ rank[r].at = "read" /\ Entered("list", Color(r), Leader(r))
  /\ LET list == streamToList(DataOf("list", Color(r), Leader(r))) IN
     \/ list = << >> /\ Goto(r, "dead") /\ UNCHANGED <<sent, faults, lost>>
     \/ /\ list # << >>
        /\ \E p \in parAggregateIndices(Tail(list), new_rank(r), Cardinality(Members(r))) :
             /\ Enter("part", Color(r), r, global_to_stream(p.index))
             /\ lost' = lost \cup p.missed
             /\ faults' = IF p.missed = {} THEN faults ELSE faults + 1
        /\ Goto(r, IF Leader(r) = r THEN "gather" ELSE "global")
  /\ UNCHANGED job

GatherParts(r) ==
  /\ rank[r].at = "gather"
  /\ \A q \in Members(r) : Entered("part", Color(r), q)
  /\ \E streams \in {InOrder("part", Color(r), Members(r))} :
       Enter("merged", "zeros", r, plfs_parindexread_merge(streams))
  /\ Goto(r, "leaders")
  /\ UNCHANGED <<job, faults, lost>>

MergeHostdirs(r) ==
  /\ rank[r].at = "leaders"
  /\ \A q \in Leaders : Entered("merged", "zeros", q)
  /\ \E streams \in {InOrder("merged", "zeros", Leaders)} :
     \E stream \in {plfs_parindexread_merge(streams)} :
       /\ Enter("global", Color(r), r, stream)
       /\ Streamed(r, stream)
  /\ UNCHANGED <<job, faults, lost>>

ReceiveGlobal(r) ==
  /\ rank[r].at = "global" /\ Entered("global", Color(r), Leader(r))
  /\ Streamed(r, DataOf("global", Color(r), Leader(r)))
  /\ UNCHANGED <<job, sent, faults, lost>>

-----------------------------------------------------------------------------
(* read_and_merge: more hostdirs than ranks.  plfs_hostdir_rddir takes the *)
(* first entry of each list off unseen, too.                               *)
ReadHostdirs(r) ==
  /\ rank[r].at = "bitmap" /\ Entered("bitmap", "world", 0)
  /\ LET dirs == bitmap_to_dirname(DataOf("bitmap", "world", 0), r,
                                   hostdir_per_rank(r, job.np, rank[r].num), job.np)
         files == [i \in DOMAIN dirs |-> Tail(hostdir_index_read(dirs[i]))]
     IN
     \/ /\ May("list") /\ faults' = faults + 1
        /\ Goto(r, "dead") /\ UNCHANGED <<sent, lost>>
     \/ \E spoilt \in DOMAIN dirs : \E p \in parAggregateIndices(files[spoilt], 0, 1) :
        \E index \in {merge([i \in DOMAIN dirs |->
                       IF i = spoilt THEN p.index ELSE indexTaskManager(files[i])])} :
              /\ Enter("part", "world", r, global_to_stream(index))
              /\ lost' = lost \cup p.missed
              /\ faults' = IF p.missed = {} THEN faults ELSE faults + 1
              /\ Goto(r, "allgather")
  /\ UNCHANGED job

MergeParts(r) ==
  /\ rank[r].at = "allgather"
  /\ \A q \in Ranks : Entered("part", "world", q)
  /\ \E streams \in {InOrder("part", "world", Ranks)} :
       Streamed(r, plfs_parindexread_merge(streams))
  /\ UNCHANGED <<job, sent, faults, lost>>

-----------------------------------------------------------------------------
(* plfs_open, with what populateIndex makes of all droppings, or with a    *)
(* stream.                                                                 *)
Populated == indexTaskManager(SetToSeq(job.container.droppings))

OpenAs(r, index, opened, err) ==
  rank' = [rank EXCEPT ![r] = [@ EXCEPT !.index = index, !.opened = opened, !.err = err, !.at = "result"]]

(* open_helper returns; rank 0 goes on into the broadcast of its result.   *)
Results(r, err) == IF r = 0 THEN {[op |-> "err", comm |-> "world", rank |-> 0, data |-> err]} ELSE {}

OpenWithStream(r) ==
  /\ rank[r].at = "plfs_open"
  /\ OpenAs(r, global_from_stream(NoIndex, rank[r].stream), TRUE, 0)
  /\ sent' = sent \cup Results(r, 0)
  /\ UNCHANGED <<job, faults, lost>>

OpenAlone(r) ==
  /\ rank[r].at = "start" /\ job.hint = "alone"
  /\ \/ OpenAs(r, Populated, TRUE, 0) /\ sent' = sent \cup Results(r, 0) /\ UNCHANGED faults
     \/ /\ May("open") /\ faults' = faults + 1
        /\ OpenAs(r, NoIndex, FALSE, -1) /\ sent' = sent \cup Results(r, -1)
  /\ UNCHANGED <<job, lost>>

(* broadcast_index.                                                        *)
OpenFirst ==
  /\ rank[0].at = "start" /\ job.hint = "broadcast"
  /\ \/ /\ OpenAs(0, Populated, TRUE, 0) /\ UNCHANGED faults
        /\ sent' = sent \cup Results(0, 0)
             \cup {[op |-> "opened", comm |-> "world", rank |-> 0, data |-> 0],
                   [op |-> "stream", comm |-> "world", rank |-> 0, data |-> global_to_stream(Populated)]}
     \/ /\ May("open") /\ faults' = faults + 1
        /\ OpenAs(0, NoIndex, FALSE, -1)
        /\ sent' = sent \cup Results(0, -1)
             \cup {[op |-> "opened", comm |-> "world", rank |-> 0, data |-> -1]}
  /\ UNCHANGED <<job, lost>>

ReceiveIndex(r) ==
  /\ r # 0 /\ rank[r].at = "start" /\ job.hint = "broadcast"
  /\ Entered("opened", "world", 0)
  /\ IF DataOf("opened", "world", 0) # 0
     THEN OpenAs(r, NoIndex, FALSE, -1)
     ELSE Streamed(r, DataOf("stream", "world", 0))
  /\ UNCHANGED <<job, sent, faults, lost>>

(* ADIOI_PLFS_Open: the result of rank 0 is everybody's.                   *)
ReceiveResult(r) ==
  /\ rank[r].at = "result" /\ Entered("err", "world", 0)
  /\ rank' = [rank EXCEPT ![r] = [@ EXCEPT !.err = DataOf("err", "world", 0), !.at = "returned"]]
  /\ UNCHANGED <<job, sent, faults, lost>>

Returned == \A r \in Ranks : rank[r].at = "returned"
SomebodyDied == \E r \in Ranks : rank[r].at = "dead"

Step(r) ==
  \/ ReceiveCount(r) \/ ChooseWay(r)
  \/ SplitHostdirs(r) \/ SplitZeros(r) \/ ListHostdir(r) \/ ReadDroppings(r)
  \/ GatherParts(r) \/ MergeHostdirs(r) \/ ReceiveGlobal(r)
  \/ ReadHostdirs(r) \/ MergeParts(r)
  \/ OpenWithStream(r) \/ OpenAlone(r) \/ ReceiveIndex(r) \/ ReceiveResult(r)

RankStep(r) == Step(r) \/ (r = 0 /\ (num_host_dirs \/ OpenFirst))

OpenNext == \E r \in Ranks : RankStep(r)

(* As long as a rank can go on, some rank does: all that is needed of the  *)
(* scheduling, as no rank goes on for ever.                                *)
Fairness == WF_openVars(OpenNext)
OpenSpec == OpenInit /\ [][OpenNext]_openVars /\ Fairness

-----------------------------------------------------------------------------
(* A rank that has the file open has in its chunk_map the data dropping of *)
(* every index dropping once and not twice, however the hostdirs and the   *)
(* droppings in them were shared out; only those that somebody failed to   *)
(* read are not there, of which nobody is told.  The chunk_maps of all     *)
(* ranks are the same.                                                     *)
EveryDroppingOnce ==
  \A r \in Ranks : rank[r].opened =>
    LET chunks == rank[r].index.chunks
        times(d) == Cardinality({i \in DOMAIN chunks : chunks[i].dropping = d /\ d[2] \in chunks[i].ids})
    IN  /\ \A d \in job.container.droppings : times(d) = IF d \in lost THEN 0 ELSE 1
        /\ \A q \in Ranks : rank[q].opened => rank[q].index.chunks = chunks

(* A collective open comes to its end on every rank, with no rank left     *)
(* waiting in a call that others do not make.  A rank dies, dividing by    *)
(* the number of no hostdirs or taking the first entry off an empty list,  *)
(* only if a directory could not be opened.                                *)
OpenReturns == <>(Returned \/ (SomebodyDied /\ faults > 0))

=============================================================================
