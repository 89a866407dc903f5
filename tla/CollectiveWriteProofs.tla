----------------------- MODULE CollectiveWriteProofs ------------------------
(***************************************************************************)
(* What CollectiveWrite guarantees for jobs of any number of ranks, on any *)
(* hostdirs, and any number of faults.                                     *)
(***************************************************************************)
EXTENDS CollectiveWrite, WellFoundedInduction, TLAPS

Placed(r) == job.hostdir[r] \in hostdirs
Makes(r) == rank[r].at \in {"makeHostDir", "symlink"}
Early == {"start", "split", "barrier"}
Late == {"reduce", "plfs_close", "closed"}

(* Nobody makes a hostdir but the first of its ranks: the others are held  *)
(* up until it has, and nothing but a fault makes it leave without.        *)
HostdirsOK ==
  faults = 0 =>
    /\ ~beaten
    /\ \A r \in Ranks : Leads(r) /\ Entered("barrier", r) => Placed(r)
    /\ \A r \in Ranks : rank[r].at \notin Early /\ ~Leads(r) => \A q \in Sharers(r) : Entered("barrier", q)
    /\ \A r \in Ranks : rank[r].at = "record" => Placed(r)
    /\ \A r \in Ranks : Makes(r) => ~Placed(r)
    /\ \A d \in shadows : d \in hostdirs \/ \E r \in Ranks : rank[r].at = "symlink" /\ job.hostdir[r] = d

(* Root drops the metadata when it has the end of every rank, unless the   *)
(* indexes were gathered; and a rank that has brought its end is done with *)
(* writing.                                                                *)
MetasOK ==
  /\ rank[0].at = "plfs_close" => Reduced \/ (job.flatten /\ ~rank[0].stop)
  /\ rank[0].at = "gather" => ~rank[0].stop
  /\ \A r \in Ranks : rank[r].at \in {"flatten", "gather"} => job.flatten
  /\ \A m \in sent : m.op = "meta" => m.data = rank[m.rank].last_offset /\ rank[m.rank].at \in Late
  /\ \A end \in metas : ~job.flatten => Reduced /\ end = Max({rank[r].last_offset : r \in Ranks})

AttemptsOK ==
  \A r \in Ranks : rank[r].at \in Early \cup {"addWriter"} => rank[r].attempts < 2

Inv == TypeOK /\ AttemptsOK /\ HostdirsOK /\ MetasOK

(* Rank r goes to s and enters the collective calls msgs.                  *)
Moved(r, s, msgs) ==
  /\ rank' = [rank EXCEPT ![r] = s] /\ s \in Rank
  /\ sent' = sent \cup msgs /\ \A m \in msgs : m.rank = r /\ MessageOK(m)
  /\ UNCHANGED job

-----------------------------------------------------------------------------
(* Numbers: the least and the greatest of a set.                           *)

LEMMA MinOfNats ==
  ASSUME NEW S \in SUBSET Nat, S # {}
  PROVE  Min(S) \in S /\ \A x \in S : Min(S) <= x
<1>1. PICK x \in S : \A y \in S : ~(<<y, x>> \in OpToRel(<, Nat))
  BY WFMin, NatLessThanWellFounded
<1>2. \A y \in S : x <= y
  <2> SUFFICES ASSUME NEW y \in S, ~(x <= y) PROVE FALSE
    OBVIOUS
  <2>1. x \in Nat /\ y \in Nat /\ y < x
    OBVIOUS
  <2>2. <<y, x>> \in OpToRel(<, Nat)
    BY <2>1 DEF OpToRel
  <2> QED BY <1>1, <2>2
<1> QED BY <1>2 DEF Min

LEMMA MaxOfNats ==
  ASSUME NEW N \in Nat, NEW S \in SUBSET (0..N), S # {}
  PROVE  Max(S) \in S /\ \A x \in S : x <= Max(S)
<1> DEFINE T == {N - x : x \in S}
<1>1. T \in SUBSET Nat /\ T # {}
  <2>1. \A x \in S : x \in Nat /\ x <= N
    OBVIOUS
  <2>2. \A x \in S : N - x \in Nat
    BY <2>1
  <2> QED BY <2>2
<1>2. PICK y \in T : \A z \in T : y <= z
  BY <1>1, MinOfNats
<1>3. PICK x \in S : y = N - x
  BY <1>2
<1>4. \A z \in S : z <= x
  BY <1>2, <1>3
<1> QED BY <1>4 DEF Max

(* The facts about a job that steps need.                                  *)
LEMMA JobFacts ==
  ASSUME TypeOK
  PROVE  /\ job.np \in Nat \ {0} /\ 0 \in Ranks /\ Ranks \subseteq Nat
         /\ job.hostdir \in [Ranks -> Nat \ {0}] /\ job.flatten \in BOOLEAN
         /\ job.resize \in -1..MaxOffset /\ job.first \in Ranks /\ Ranks = 0..(job.np - 1)
BY JobsAssumption DEF TypeOK, Ranks

LEMMA FirstSharer ==
  ASSUME TypeOK, NEW r \in Ranks
  PROVE  \E l \in Sharers(r) : Leads(l)
<1>1. Sharers(r) \in SUBSET Nat /\ r \in Sharers(r)
  BY JobFacts DEF Sharers
<1>2. Min(Sharers(r)) \in Sharers(r)
  BY <1>1, MinOfNats
<1>3. \A l \in Sharers(r) : Sharers(l) = Sharers(r)
  BY DEF Sharers
<1> QED BY <1>2, <1>3 DEF Leads

(* Two first ranks of a hostdir are one.                                   *)
LEMMA OneLeads ==
  ASSUME NEW q \in Ranks, NEW r \in Ranks, Leads(q), Leads(r), job.hostdir[q] = job.hostdir[r]
  PROVE  q = r
<1>1. Sharers(q) = Sharers(r)
  BY DEF Sharers
<1> QED BY <1>1 DEF Leads

LEMMA DataFound ==
  ASSUME TypeOK, NEW op, NEW r, Entered(op, r)
  PROVE  \E m \in sent : m.op = op /\ m.rank = r /\ m.data = DataOf(op, r)
<1>1. PICK m \in sent : m.op = op /\ m.rank = r
  BY DEF Entered
<1> QED BY <1>1 DEF DataOf

-----------------------------------------------------------------------------
(* What a move of a rank keeps of each part of Inv.                        *)

LEMMA MovedFacts ==
  ASSUME TypeOK, NEW r \in Ranks, NEW s, NEW msgs, Moved(r, s, msgs)
  PROVE  /\ Ranks' = Ranks /\ rank' \in [Ranks -> Rank] /\ rank'[r] = s
         /\ \A q \in Ranks \ {r} : rank'[q] = rank[q]
         /\ \A m \in sent' : MessageOK(m)' /\ (m \in sent \/ (m \in msgs /\ m.rank = r))
         /\ \A op, q : Entered(op, q) => Entered(op, q)'
         /\ \A q : Entered("barrier", q)' => Entered("barrier", q) \/ (q = r /\ \E m \in msgs : m.op = "barrier")
         /\ \A q : Leads(q)' = Leads(q) /\ Sharers(q)' = Sharers(q)
<1>1. Ranks' = Ranks
  BY DEF Moved, Ranks
<1>2. rank' \in [Ranks -> Rank] /\ rank'[r] = s /\ \A q \in Ranks \ {r} : rank'[q] = rank[q]
  BY DEF Moved, TypeOK
<1>3. \A m \in sent' : MessageOK(m)' /\ (m \in sent \/ (m \in msgs /\ m.rank = r))
  BY <1>1 DEF Moved, TypeOK, MessageOK
<1>4. \A op, q : Entered(op, q) => Entered(op, q)'
  BY DEF Moved, Entered
<1>5. \A q : Entered("barrier", q)' => Entered("barrier", q) \/ (q = r /\ \E m \in msgs : m.op = "barrier")
  <2> SUFFICES ASSUME NEW q, Entered("barrier", q)', ~Entered("barrier", q)
               PROVE  q = r /\ \E m \in msgs : m.op = "barrier"
    OBVIOUS
  <2>1. PICK m \in sent' : m.op = "barrier" /\ m.rank = q
    BY DEF Entered
  <2>2. m \notin sent
    BY <2>1 DEF Entered
  <2> QED BY <1>3, <2>1, <2>2
<1>6. \A q : Sharers(q)' = Sharers(q)
  BY <1>1 DEF Sharers, Moved
<1>7. \A q : Leads(q)' = Leads(q)
  BY <1>6 DEF Leads
<1> QED BY <1>1, <1>2, <1>3, <1>4, <1>5, <1>6, <1>7

LEMMA TypeKept ==
  ASSUME TypeOK, NEW r \in Ranks, NEW s, NEW msgs, Moved(r, s, msgs),
         hostdirs' \subseteq hostdirs \cup {job.hostdir[r]}, shadows' \subseteq job.shadow,
         record' \in BOOLEAN, metas' \subseteq Ends, faults' \in 0..MaxFaults, beaten' \in BOOLEAN
  PROVE  TypeOK'
<1>1. Ranks' = Ranks /\ rank' \in [Ranks -> Rank] /\ \A m \in sent' : MessageOK(m)'
  BY MovedFacts
<1>2. UNCHANGED job
  BY DEF Moved
<1>3. hostdirs' \subseteq {job.hostdir[q] : q \in Ranks}
  BY DEF TypeOK
<1> QED BY <1>1, <1>2, <1>3 DEF TypeOK

LEMMA AttemptsKept ==
  ASSUME TypeOK, AttemptsOK, NEW r \in Ranks, NEW s, NEW msgs, Moved(r, s, msgs),
         s.at \in Early \cup {"addWriter"} => s.attempts < 2
  PROVE  AttemptsOK'
<1>1. Ranks' = Ranks /\ rank'[r] = s /\ \A q \in Ranks \ {r} : rank'[q] = rank[q]
  BY MovedFacts
<1> QED BY <1>1 DEF AttemptsOK

(* A move that makes no directory.                                         *)
LEMMA HostdirsKept ==
  ASSUME TypeOK, HostdirsOK, NEW r \in Ranks, NEW s, NEW msgs, Moved(r, s, msgs),
         UNCHANGED <<hostdirs, shadows, beaten>>, faults' = 0 => faults = 0,
         rank[r].at # "symlink",
         s.at \in {"makeHostDir", "record"} => (s.at = "record" <=> Placed(r)),
         s.at # "symlink",
         s.at \notin Early /\ ~Leads(r) => rank[r].at \notin Early \/ \A q \in Sharers(r) : Entered("barrier", q),
         faults' = 0 /\ Leads(r) /\ (\E m \in msgs : m.op = "barrier") => Placed(r)
  PROVE  HostdirsOK'
<1> SUFFICES ASSUME faults' = 0 PROVE HostdirsOK'
  BY DEF HostdirsOK
<1>1. /\ Ranks' = Ranks /\ rank'[r] = s /\ \A q \in Ranks \ {r} : rank'[q] = rank[q]
      /\ \A q : Entered("barrier", q) => Entered("barrier", q)'
      /\ \A q : Entered("barrier", q)' => Entered("barrier", q) \/ (q = r /\ \E m \in msgs : m.op = "barrier")
      /\ \A q : Leads(q)' = Leads(q) /\ Sharers(q)' = Sharers(q)
  BY MovedFacts
<1>2. faults = 0 /\ \A q : Placed(q)' = Placed(q)
  BY DEF Placed, Moved
<1>3. \A q \in Ranks : Leads(q)' /\ Entered("barrier", q)' => Placed(q)'
  BY <1>1, <1>2 DEF HostdirsOK
<1>4. ASSUME NEW q \in Ranks, rank'[q].at \notin Early, ~Leads(q)
      PROVE  \A p \in Sharers(q) : Entered("barrier", p)
  <2>1. CASE q = r
    BY <1>1, <1>2, <1>4, <2>1 DEF HostdirsOK
  <2>2. CASE q # r
    BY <1>1, <1>2, <1>4, <2>2 DEF HostdirsOK
  <2> QED BY <2>1, <2>2
<1>5. \A q \in Ranks : rank'[q].at = "record" => Placed(q)'
  BY <1>1, <1>2 DEF HostdirsOK
<1>6. \A q \in Ranks : Makes(q)' => ~Placed(q)'
  BY <1>1, <1>2 DEF HostdirsOK, Makes
<1>7. \A d \in shadows : d \in hostdirs \/ \E q \in Ranks : rank'[q].at = "symlink" /\ job.hostdir[q] = d
  BY <1>1, <1>2 DEF HostdirsOK
<1>8. ~beaten
  BY <1>2 DEF HostdirsOK
<1> QED BY <1>1, <1>3, <1>4, <1>5, <1>6, <1>7, <1>8 DEF HostdirsOK, Moved

LEMMA MetasKept ==
  ASSUME TypeOK, MetasOK, NEW r \in Ranks, NEW s, NEW msgs, Moved(r, s, msgs),
         \A end \in metas' : end \in metas \/ (~job.flatten => /\ Reduced
                                              /\ end = Max({rank[q].last_offset : q \in Ranks})),
         s.at \in {"flatten", "gather"} => job.flatten,
         s.at \in {"gather", "plfs_close"} /\ r = 0 =>
           (s.at = "plfs_close" /\ Reduced) \/ (job.flatten /\ ~s.stop),
         \A m \in msgs : m.op = "meta" => m.data = s.last_offset /\ s.at \in Late,
         rank[r].at \in Late => s.at \in Late /\ s.last_offset = rank[r].last_offset
  PROVE  MetasOK'
<1>1. /\ Ranks' = Ranks /\ rank'[r] = s /\ \A q \in Ranks \ {r} : rank'[q] = rank[q]
      /\ \A q : Entered("meta", q) => Entered("meta", q)'
      /\ \A m \in sent' : m \in sent \/ (m \in msgs /\ m.rank = r)
      /\ \A m \in sent : m.rank \in Ranks
  <2>1. \A m \in sent : m.rank \in Ranks
    BY DEF TypeOK, MessageOK
  <2> QED BY <2>1, MovedFacts
<1>2. 0 \in Ranks /\ UNCHANGED job
  BY JobFacts DEF Moved
<1>3. Reduced => Reduced'
  BY <1>1 DEF Reduced
<1>4. rank'[0].at = "plfs_close" => Reduced' \/ (job.flatten /\ ~rank'[0].stop)
  BY <1>1, <1>2, <1>3 DEF MetasOK
<1>5. rank'[0].at = "gather" => ~rank'[0].stop
  BY <1>1, <1>2 DEF MetasOK
<1>6. \A q \in Ranks : rank'[q].at \in {"flatten", "gather"} => job.flatten
  BY <1>1 DEF MetasOK
<1>7. ASSUME NEW m \in sent', m.op = "meta"
      PROVE  m.data = rank'[m.rank].last_offset /\ rank'[m.rank].at \in Late
  <2>1. CASE m \in sent
    <3>1. m.data = rank[m.rank].last_offset /\ rank[m.rank].at \in Late /\ m.rank \in Ranks
      BY <1>1, <1>7, <2>1 DEF MetasOK
    <3> QED BY <1>1, <3>1
  <2>2. CASE m \in msgs /\ m.rank = r
    BY <1>1, <1>7, <2>2
  <2> QED BY <1>1, <2>1, <2>2
<1>8. ASSUME NEW end \in metas', ~job.flatten
      PROVE  Reduced' /\ end = Max({rank'[q].last_offset : q \in Ranks})
  <2>1. Reduced /\ end = Max({rank[q].last_offset : q \in Ranks})
    BY <1>8 DEF MetasOK
  <2>2. \A q \in Ranks : rank[q].at \in Late
    BY <2>1 DEF Reduced, Entered, MetasOK
  <2>3. \A q \in Ranks : rank'[q].last_offset = rank[q].last_offset
    BY <1>1, <2>2
  <2>4. {rank'[q].last_offset : q \in Ranks} = {rank[q].last_offset : q \in Ranks}
    BY <2>3
  <2> QED BY <1>3, <2>1, <2>4
<1> QED BY <1>1, <1>2, <1>4, <1>5, <1>6, <1>7, <1>8 DEF MetasOK

(* A move that leaves the directories and the metadata alone.              *)
LEMMA Kept ==
  ASSUME Inv, NEW r \in Ranks, NEW s, NEW msgs, Moved(r, s, msgs),
         UNCHANGED <<hostdirs, shadows, beaten, metas>>,
         record' \in BOOLEAN, faults' \in 0..MaxFaults, faults' = 0 => faults = 0,
         s.at \in Early \cup {"addWriter"} => s.attempts < 2,
         rank[r].at # "symlink", s.at # "symlink",
         s.at \in {"makeHostDir", "record"} => (s.at = "record" <=> Placed(r)),
         s.at \notin Early /\ ~Leads(r) => rank[r].at \notin Early \/ \A q \in Sharers(r) : Entered("barrier", q),
         faults' = 0 /\ Leads(r) /\ (\E m \in msgs : m.op = "barrier") => Placed(r),
         s.at \in {"flatten", "gather"} => job.flatten,
         s.at \in {"gather", "plfs_close"} /\ r = 0 =>
           (s.at = "plfs_close" /\ Reduced) \/ (job.flatten /\ ~s.stop),
         \A m \in msgs : m.op = "meta" => m.data = s.last_offset /\ s.at \in Late,
         rank[r].at \in Late => s.at \in Late /\ s.last_offset = rank[r].last_offset
  PROVE  Inv'
<1>1. TypeOK'
  <2>1. /\ hostdirs' \subseteq hostdirs \cup {job.hostdir[r]} /\ shadows' \subseteq job.shadow
        /\ metas' \subseteq Ends /\ beaten' \in BOOLEAN
    BY DEF Inv, TypeOK
  <2> QED BY <2>1, TypeKept DEF Inv
<1>2. AttemptsOK'
  BY AttemptsKept DEF Inv
<1>3. HostdirsOK'
  BY HostdirsKept DEF Inv
<1>4. MetasOK'
  <2>1. \A end \in metas' : end \in metas \/ (~job.flatten => /\ Reduced
                                              /\ end = Max({rank[q].last_offset : q \in Ranks}))
    OBVIOUS
  <2> QED BY <2>1, MetasKept DEF Inv
<1> QED BY <1>1, <1>2, <1>3, <1>4 DEF Inv

LEMMA MessageFacts ==
  \A op, r, data : /\ Message(op, r, data).op = op /\ Message(op, r, data).rank = r
                   /\ Message(op, r, data).data = data
BY DEF Message

(* Going on, with nothing else changed of the rank.                        *)
LEMMA GotoMoves ==
  ASSUME TypeOK, NEW r \in Ranks, NEW at \in Places, Goto(r, at), NEW msgs, UNCHANGED job,
         sent' = sent \cup msgs, \A m \in msgs : m.rank = r /\ MessageOK(m)
  PROVE  LET s == [rank[r] EXCEPT !.at = at]
         IN  /\ Moved(r, s, msgs) /\ s.at = at /\ s.attempts = rank[r].attempts
             /\ s.last_offset = rank[r].last_offset /\ s.stop = rank[r].stop
<1> DEFINE s == [rank[r] EXCEPT !.at = at]
<1>1. rank[r] \in Rank
  BY DEF TypeOK
<1>2. /\ s \in Rank /\ s.at = at /\ s.attempts = rank[r].attempts
      /\ s.last_offset = rank[r].last_offset /\ s.stop = rank[r].stop
  BY <1>1 DEF Rank
<1>3. rank' = [rank EXCEPT ![r] = s]
  BY <1>1 DEF Goto, Rank
<1> HIDE DEF s
<1>4. Moved(r, s, msgs)
  BY <1>2, <1>3 DEF Moved
<1> QED BY <1>2, <1>4 DEF s

(* plfs_open returns, and a first rank enters the barrier.                 *)
LEMMA OpenReturnsMoves ==
  ASSUME TypeOK, NEW r \in Ranks, NEW err \in Errs, OpenReturns(r, err), UNCHANGED job
  PROVE  \E s, msgs :
           /\ Moved(r, s, msgs) /\ s.at = "opened"
           /\ \A m \in msgs : m.op = "barrier"
<1> DEFINE s == [rank[r] EXCEPT !.at = "opened", !.opened = err = 0, !.err = err, !.buffering = job.flatten]
           msgs == IF Leads(r) THEN {Message("barrier", r, 0)} ELSE {}
<1>1. rank[r] \in Rank /\ job.flatten \in BOOLEAN /\ "opened" \in Places
  BY JobFacts DEF TypeOK, Places
<1>2. s \in Rank /\ s.at = "opened"
  BY <1>1 DEF Rank
<1>3. rank' = [rank EXCEPT ![r] = s]
  BY <1>1 DEF OpenReturns, Rank
<1>4. \A m \in msgs : m.op = "barrier" /\ m.rank = r /\ MessageOK(m)
  BY MessageFacts DEF MessageOK
<1>5. sent' = sent \cup msgs
  BY DEF OpenReturns, Enter
<1> HIDE DEF s, msgs
<1>6. Moved(r, s, msgs)
  BY <1>2, <1>3, <1>4, <1>5 DEF Moved
<1> QED BY <1>2, <1>4, <1>6

-----------------------------------------------------------------------------
(* Each step keeps Inv.                                                    *)

LEMMA StartInv == ASSUME Inv, NEW r \in Ranks, Start(r) PROVE Inv'
<1> DEFINE s == [rank[r] EXCEPT !.at = "split"]
           msgs == {Message("split", r, job.hostdir[r])}
<1>0. TypeOK /\ UNCHANGED <<job, faults, shadows, hostdirs, record, metas, beaten>> /\ rank[r].at = "start"
  BY DEF Inv, Start, files
<1>1. \A m \in msgs : m.rank = r /\ m.op = "split" /\ MessageOK(m)
  BY MessageFacts DEF MessageOK
<1>2. sent' = sent \cup msgs /\ Goto(r, "split") /\ "split" \in Places
  BY DEF Start, Enter, Places
<1> HIDE DEF msgs
<1>3. Moved(r, s, msgs) /\ s.at = "split" /\ s.attempts = rank[r].attempts
  BY <1>0, <1>1, <1>2, GotoMoves
<1> HIDE DEF s
<1>4. s.attempts < 2 /\ s.at \in Early
  BY <1>0, <1>3 DEF Inv, AttemptsOK, Early
<1>5. record' \in BOOLEAN /\ faults' \in 0..MaxFaults
  BY <1>0 DEF TypeOK
<1> QED BY <1>0, <1>1, <1>3, <1>4, <1>5, Kept DEF Late

LEMMA SplitInv == ASSUME Inv, NEW r \in Ranks, Split(r) PROVE Inv'
<1> DEFINE at == IF Leads(r) THEN "addWriter" ELSE "barrier"
           s == [rank[r] EXCEPT !.at = at]
           msgs == IF Leads(r) THEN {} ELSE {Message("barrier", r, 0)}
<1>0. TypeOK /\ UNCHANGED <<job, faults, shadows, hostdirs, record, metas, beaten>> /\ rank[r].at = "split"
  BY DEF Inv, Split, files
<1>1. \A m \in msgs : m.rank = r /\ m.op = "barrier" /\ MessageOK(m)
  BY MessageFacts DEF MessageOK
<1>2. sent' = sent \cup msgs /\ Goto(r, at) /\ at \in Places
  BY DEF Split, Enter, Places
<1>3. Leads(r) => msgs = {}
  OBVIOUS
<1>4. at = IF Leads(r) THEN "addWriter" ELSE "barrier"
  OBVIOUS
<1> HIDE DEF msgs, at
<1>5. Moved(r, s, msgs) /\ s.at = at /\ s.attempts = rank[r].attempts
  BY <1>0, <1>1, <1>2, GotoMoves
<1> HIDE DEF s
<1>6. s.attempts < 2
  BY <1>0, <1>5 DEF Inv, AttemptsOK, Early
<1>7. record' \in BOOLEAN /\ faults' \in 0..MaxFaults
  BY <1>0 DEF TypeOK
<1>8. s.at \notin Early /\ ~Leads(r) => FALSE
  BY <1>4, <1>5 DEF Early
<1> QED BY <1>0, <1>1, <1>3, <1>4, <1>5, <1>6, <1>7, <1>8, Kept DEF Late

LEMMA BarrierInv == ASSUME Inv, NEW r \in Ranks, Barrier(r) PROVE Inv'
<1> DEFINE s == [rank[r] EXCEPT !.at = "addWriter"]
<1>0. TypeOK /\ UNCHANGED <<job, faults, shadows, hostdirs, record, metas, beaten>> /\ rank[r].at = "barrier"
      /\ \A q \in Sharers(r) : Entered("barrier", q)
  BY DEF Inv, Barrier, files
<1>2. sent' = sent \cup {} /\ Goto(r, "addWriter") /\ "addWriter" \in Places
  BY DEF Barrier, Places
<1>3. Moved(r, s, {}) /\ s.at = "addWriter" /\ s.attempts = rank[r].attempts
  BY <1>0, <1>2, GotoMoves
<1> HIDE DEF s
<1>4. s.attempts < 2
  BY <1>0, <1>3 DEF Inv, AttemptsOK, Early
<1>5. record' \in BOOLEAN /\ faults' \in 0..MaxFaults
  BY <1>0 DEF TypeOK
<1> QED BY <1>0, <1>3, <1>4, <1>5, Kept DEF Late

LEMMA FailsFacts ==
  ASSUME TypeOK, NEW fault, Fails(fault)
  PROVE  faults' \in 0..MaxFaults /\ faults' # 0
BY BoundsAssumption DEF TypeOK, Fails

LEMMA AddWriterInv == ASSUME Inv, NEW r \in Ranks, AddWriter(r) PROVE Inv'
<1>0. /\ TypeOK /\ UNCHANGED <<job, shadows, hostdirs, record, metas, beaten>> /\ rank[r].at = "addWriter"
      /\ record' \in BOOLEAN /\ faults \in 0..MaxFaults /\ rank[r] \in Rank
  BY DEF Inv, AddWriter, files, TypeOK
<1>1. CASE Fails("open") /\ OpenReturns(r, -1)
  <2>1. PICK s, msgs : Moved(r, s, msgs) /\ s.at = "opened" /\ \A m \in msgs : m.op = "barrier"
    BY <1>0, <1>1, OpenReturnsMoves DEF Errs
  <2>2. faults' \in 0..MaxFaults /\ faults' # 0
    BY <1>0, <1>1, FailsFacts
  <2> QED BY <1>0, <2>1, <2>2, Kept DEF Early, Late
<1>2. CASE Placed(r) /\ Goto(r, "record") /\ UNCHANGED <<sent, faults>>
  <2> DEFINE s == [rank[r] EXCEPT !.at = "record"]
  <2>1. sent' = sent \cup {} /\ "record" \in Places
    BY <1>2 DEF Places
  <2>2. Moved(r, s, {}) /\ s.at = "record"
    BY <1>0, <1>2, <2>1, GotoMoves
  <2> HIDE DEF s
  <2> QED BY <1>0, <1>2, <2>2, Kept DEF Early, Late
<1>3. CASE /\ ~Placed(r) /\ UNCHANGED <<sent, faults>>
           /\ rank' = [rank EXCEPT ![r].at = "makeHostDir", ![r].attempts = @ + 1]
  <2> DEFINE s == [rank[r] EXCEPT !.at = "makeHostDir", !.attempts = rank[r].attempts + 1]
  <2>1. rank[r].attempts + 1 \in Attempts
    BY <1>0 DEF Inv, AttemptsOK, Attempts, Rank
  <2>2. "makeHostDir" \in Places
    BY DEF Places
  <2>3. s \in Rank /\ s.at = "makeHostDir"
    BY <1>0, <2>1, <2>2 DEF Rank
  <2>4. rank' = [rank EXCEPT ![r] = s]
    BY <1>0, <1>3 DEF Rank
  <2> HIDE DEF s
  <2>5. Moved(r, s, {})
    BY <1>0, <1>3, <2>3, <2>4 DEF Moved
  <2> QED BY <1>0, <1>3, <2>3, <2>5, Kept DEF Early, Late
<1> QED BY <1>1, <1>2, <1>3 DEF AddWriter, Placed

(* As long as nothing failed, only first ranks make directories.           *)
LEMMA FirstMakes ==
  ASSUME TypeOK, HostdirsOK, faults = 0, NEW r \in Ranks, Makes(r)
  PROVE  Leads(r) /\ ~Placed(r)
<1>1. ~Placed(r)
  BY DEF HostdirsOK
<1>2. ASSUME ~Leads(r) PROVE FALSE
  <2>1. \A q \in Sharers(r) : Entered("barrier", q)
    BY <1>2 DEF HostdirsOK, Makes, Early
  <2>2. PICK l \in Sharers(r) : Leads(l)
    BY FirstSharer
  <2>3. l \in Ranks /\ job.hostdir[l] = job.hostdir[r]
    BY DEF Sharers
  <2>4. Placed(l)
    BY <2>1, <2>2, <2>3 DEF HostdirsOK
  <2> QED BY <1>1, <2>3, <2>4 DEF Placed
<1> QED BY <1>1, <1>2

(* The hostdir, or the link to it, is made.                                *)
LEMMA HostdirMade ==
  ASSUME TypeOK, HostdirsOK, NEW r \in Ranks, Makes(r), NEW s, NEW msgs, Moved(r, s, msgs),
         hostdirs' = hostdirs \cup {job.hostdir[r]}, beaten' = (beaten \/ Placed(r)),
         UNCHANGED <<shadows, faults>>, s.at \in {"addWriter", "opened"}
  PROVE  HostdirsOK'
<1> SUFFICES ASSUME faults = 0 PROVE HostdirsOK'
  BY DEF HostdirsOK
<1>1. /\ Ranks' = Ranks /\ rank'[r] = s /\ \A q \in Ranks \ {r} : rank'[q] = rank[q]
      /\ \A q : Entered("barrier", q) => Entered("barrier", q)'
      /\ \A q : Entered("barrier", q)' => Entered("barrier", q) \/ (q = r /\ \E m \in msgs : m.op = "barrier")
      /\ \A q : Leads(q)' = Leads(q) /\ Sharers(q)' = Sharers(q)
  BY MovedFacts
<1>2. /\ Placed(r)' /\ \A q \in Ranks : Placed(q) => Placed(q)'
      /\ \A q \in Ranks : Placed(q)' => Placed(q) \/ job.hostdir[q] = job.hostdir[r]
  BY DEF Placed, Moved
<1>3. Leads(r) /\ ~Placed(r)
  BY FirstMakes
<1>4. ~beaten'
  BY <1>3 DEF HostdirsOK
<1>5. \A q \in Ranks : Leads(q)' /\ Entered("barrier", q)' => Placed(q)'
  BY <1>1, <1>2 DEF HostdirsOK
<1>6. ASSUME NEW q \in Ranks, rank'[q].at \notin Early, ~Leads(q)'
      PROVE  \A p \in Sharers(q)' : Entered("barrier", p)'
  <2>1. q # r
    BY <1>1, <1>3, <1>6
  <2> QED BY <1>1, <1>6, <2>1 DEF HostdirsOK
<1>7. \A q \in Ranks : rank'[q].at = "record" => Placed(q)'
  BY <1>1, <1>2 DEF HostdirsOK
<1>8. ASSUME NEW q \in Ranks, Makes(q)' PROVE ~Placed(q)'
  <2>1. q # r /\ Makes(q)
    BY <1>1, <1>8 DEF Makes
  <2>2. Leads(q) /\ ~Placed(q)
    BY <2>1, FirstMakes
  <2> QED BY <1>2, <1>3, <2>1, <2>2, OneLeads
<1>9. \A d \in shadows : d \in hostdirs' \/ \E q \in Ranks : rank'[q].at = "symlink" /\ job.hostdir[q] = d
  BY <1>1 DEF HostdirsOK
<1> QED BY <1>1, <1>4, <1>5, <1>6, <1>7, <1>8, <1>9 DEF HostdirsOK, Moved

(* The hostdir is made in the other backend, the link is still missing.    *)
LEMMA ShadowMade ==
  ASSUME TypeOK, HostdirsOK, NEW r \in Ranks, rank[r].at = "makeHostDir", NEW s, Moved(r, s, {}),
         shadows' = shadows \cup {job.hostdir[r]}, beaten' = (beaten \/ job.hostdir[r] \in shadows),
         UNCHANGED <<hostdirs, faults>>, s.at = "symlink"
  PROVE  HostdirsOK'
<1> SUFFICES ASSUME faults = 0 PROVE HostdirsOK'
  BY DEF HostdirsOK
<1>0. Makes(r)
  BY DEF Makes
<1>1. /\ Ranks' = Ranks /\ rank'[r] = s /\ \A q \in Ranks \ {r} : rank'[q] = rank[q]
      /\ \A q : Entered("barrier", q)' <=> Entered("barrier", q)
      /\ \A q : Leads(q)' = Leads(q) /\ Sharers(q)' = Sharers(q)
  BY MovedFacts
<1>2. \A q : Placed(q)' = Placed(q)
  BY DEF Placed, Moved
<1>3. Leads(r) /\ ~Placed(r)
  BY <1>0, FirstMakes
<1>4. ~beaten'
  <2>1. ASSUME job.hostdir[r] \in shadows PROVE FALSE
    <3>1. PICK q \in Ranks : rank[q].at = "symlink" /\ job.hostdir[q] = job.hostdir[r]
      BY <1>3, <2>1 DEF HostdirsOK, Placed
    <3>2. Leads(q)
      BY <3>1, FirstMakes DEF Makes
    <3> QED BY <1>3, <3>1, <3>2, OneLeads
  <2> QED BY <2>1 DEF HostdirsOK
<1>5. \A q \in Ranks : Leads(q)' /\ Entered("barrier", q)' => Placed(q)'
  BY <1>1, <1>2 DEF HostdirsOK
<1>6. ASSUME NEW q \in Ranks, rank'[q].at \notin Early, ~Leads(q)'
      PROVE  \A p \in Sharers(q)' : Entered("barrier", p)'
  <2>1. q # r
    BY <1>1, <1>3, <1>6
  <2> QED BY <1>1, <1>6, <2>1 DEF HostdirsOK
<1>7. \A q \in Ranks : rank'[q].at = "record" => Placed(q)'
  BY <1>1, <1>2 DEF HostdirsOK
<1>8. \A q \in Ranks : Makes(q)' => ~Placed(q)'
  BY <1>1, <1>2, <1>3 DEF HostdirsOK, Makes
<1>9. ASSUME NEW d \in shadows'
      PROVE  d \in hostdirs \/ \E q \in Ranks : rank'[q].at = "symlink" /\ job.hostdir[q] = d
  <2>1. CASE d = job.hostdir[r]
    BY <1>1, <2>1
  <2>2. CASE d # job.hostdir[r]
    BY <1>1, <2>2 DEF HostdirsOK
  <2> QED BY <2>1, <2>2
<1> QED BY <1>1, <1>4, <1>5, <1>6, <1>7, <1>8, <1>9 DEF HostdirsOK, Moved

LEMMA AfterAttemptMoves ==
  ASSUME TypeOK, NEW r \in Ranks, AfterAttempt(r), UNCHANGED job
  PROVE  \E s, msgs :
           /\ Moved(r, s, msgs) /\ s.at \in {"addWriter", "opened"}
           /\ s.at = "addWriter" => s.attempts < 2
           /\ \A m \in msgs : m.op = "barrier"
<1>1. CASE rank[r].attempts = 2
  <2>1. PICK s, msgs : Moved(r, s, msgs) /\ s.at = "opened" /\ \A m \in msgs : m.op = "barrier"
    BY <1>1, OpenReturnsMoves DEF AfterAttempt, Errs
  <2> QED BY <2>1
<1>2. CASE rank[r].attempts # 2
  <2> DEFINE s == [rank[r] EXCEPT !.at = "addWriter"]
  <2>1. sent' = sent \cup {} /\ "addWriter" \in Places /\ Goto(r, "addWriter")
    BY <1>2 DEF Places, AfterAttempt
  <2>2. Moved(r, s, {}) /\ s.at = "addWriter" /\ s.attempts = rank[r].attempts
    BY <2>1, GotoMoves
  <2> HIDE DEF s
  <2>3. rank[r].attempts < 2
    BY <1>2 DEF TypeOK, Rank, Attempts
  <2>4. s \in Rank
    BY <2>2 DEF Moved
  <2> QED BY <2>2, <2>3, <2>4
<1> QED BY <1>1, <1>2

(* The rest of Inv, after an attempt to make a hostdir.                    *)
LEMMA AttemptKept ==
  ASSUME Inv, NEW r \in Ranks, Makes(r), NEW s, NEW msgs, Moved(r, s, msgs),
         s.at \in {"addWriter", "opened", "symlink"}, s.at = "addWriter" => s.attempts < 2,
         \A m \in msgs : m.op = "barrier", HostdirsOK', UNCHANGED <<record, metas>>,
         hostdirs' \subseteq hostdirs \cup {job.hostdir[r]}, shadows' \subseteq job.shadow,
         faults' \in 0..MaxFaults, beaten' \in BOOLEAN
  PROVE  Inv'
<1>1. TypeOK'
  <2>1. record' \in BOOLEAN /\ metas' \subseteq Ends
    BY DEF Inv, TypeOK
  <2> QED BY <2>1, TypeKept DEF Inv
<1>2. AttemptsOK'
  <2>1. s.at \in Early \cup {"addWriter"} => s.attempts < 2
    BY DEF Early
  <2> QED BY <2>1, AttemptsKept DEF Inv
<1>3. MetasOK'
  <2>1. /\ s.at \in {"flatten", "gather"} => job.flatten
        /\ s.at \notin {"gather", "plfs_close"} /\ \A m \in msgs : m.op # "meta"
        /\ rank[r].at \notin Late /\ \A end \in metas' : end \in metas
    BY DEF Makes, Late
  <2> QED BY <2>1, MetasKept DEF Inv
<1> QED BY <1>1, <1>2, <1>3 DEF Inv

LEMMA MakeHostDirInv == ASSUME Inv, NEW r \in Ranks, MakeHostDir(r) PROVE Inv'
<1>0. /\ TypeOK /\ HostdirsOK /\ UNCHANGED <<job, record, metas>> /\ rank[r].at = "makeHostDir" /\ Makes(r)
      /\ hostdirs \subseteq hostdirs \cup {job.hostdir[r]} /\ shadows \subseteq job.shadow
      /\ faults \in 0..MaxFaults /\ beaten \in BOOLEAN
  BY DEF Inv, MakeHostDir, TypeOK, Makes
<1>1. CASE Fails("mkdir") /\ AfterAttempt(r) /\ UNCHANGED <<shadows, hostdirs, beaten>>
  <2>1. PICK s, msgs :
          /\ Moved(r, s, msgs) /\ s.at \in {"addWriter", "opened"}
          /\ s.at = "addWriter" => s.attempts < 2
          /\ \A m \in msgs : m.op = "barrier"
    BY <1>0, <1>1, AfterAttemptMoves
  <2>2. faults' \in 0..MaxFaults /\ faults' # 0
    BY <1>0, <1>1, FailsFacts
  <2>3. HostdirsOK'
    BY <2>2 DEF HostdirsOK
  <2> QED BY <1>0, <1>1, <2>1, <2>2, <2>3, AttemptKept
<1>2. CASE /\ job.hostdir[r] \in job.shadow /\ shadows' = shadows \cup {job.hostdir[r]}
           /\ beaten' = (beaten \/ job.hostdir[r] \in shadows) /\ Goto(r, "symlink")
           /\ UNCHANGED <<sent, hostdirs, faults>>
  <2> DEFINE s == [rank[r] EXCEPT !.at = "symlink"]
  <2>1. sent' = sent \cup {} /\ "symlink" \in Places
    BY <1>2 DEF Places
  <2>2. Moved(r, s, {}) /\ s.at = "symlink"
    BY <1>0, <1>2, <2>1, GotoMoves
  <2> HIDE DEF s
  <2>3. HostdirsOK'
    BY <1>0, <1>2, <2>2, ShadowMade
  <2>4. beaten' \in BOOLEAN /\ shadows' \subseteq job.shadow
    BY <1>0, <1>2
  <2> QED BY <1>0, <1>2, <2>2, <2>3, <2>4, AttemptKept
<1>3. CASE /\ hostdirs' = hostdirs \cup {job.hostdir[r]} /\ beaten' = (beaten \/ job.hostdir[r] \in hostdirs)
           /\ AfterAttempt(r) /\ UNCHANGED <<shadows, faults>>
  <2>1. PICK s, msgs :
          /\ Moved(r, s, msgs) /\ s.at \in {"addWriter", "opened"}
          /\ s.at = "addWriter" => s.attempts < 2
          /\ \A m \in msgs : m.op = "barrier"
    BY <1>0, <1>3, AfterAttemptMoves
  <2>2. HostdirsOK'
    BY <1>0, <1>3, <2>1, HostdirMade DEF Placed
  <2>3. beaten' \in BOOLEAN
    BY <1>0, <1>3
  <2> QED BY <1>0, <1>3, <2>1, <2>2, <2>3, AttemptKept
<1> QED BY <1>1, <1>2, <1>3 DEF MakeHostDir

LEMMA SymlinkInv == ASSUME Inv, NEW r \in Ranks, Symlink(r) PROVE Inv'
<1>0. /\ TypeOK /\ HostdirsOK /\ UNCHANGED <<job, shadows, record, metas, faults>> /\ Makes(r)
      /\ shadows \subseteq job.shadow /\ faults \in 0..MaxFaults /\ beaten \in BOOLEAN
      /\ hostdirs' = hostdirs \cup {job.hostdir[r]} /\ beaten' = (beaten \/ job.hostdir[r] \in hostdirs)
      /\ AfterAttempt(r)
  BY DEF Inv, Symlink, TypeOK, Makes
<1>1. PICK s, msgs :
        /\ Moved(r, s, msgs) /\ s.at \in {"addWriter", "opened"}
        /\ s.at = "addWriter" => s.attempts < 2
        /\ \A m \in msgs : m.op = "barrier"
  BY <1>0, AfterAttemptMoves
<1>2. HostdirsOK'
  BY <1>0, <1>1, HostdirMade DEF Placed
<1>3. beaten' \in BOOLEAN
  BY <1>0
<1> QED BY <1>0, <1>1, <1>2, <1>3, AttemptKept

LEMMA AddOpenrecordInv == ASSUME Inv, NEW r \in Ranks, AddOpenrecord(r) PROVE Inv'
<1>0. /\ TypeOK /\ UNCHANGED <<job, shadows, hostdirs, metas, beaten>> /\ rank[r].at = "record"
      /\ record' \in BOOLEAN /\ faults \in 0..MaxFaults
  BY DEF Inv, AddOpenrecord, TypeOK
<1>1. \E err \in Errs : OpenReturns(r, err)
  BY DEF AddOpenrecord, Errs
<1>2. PICK s, msgs : Moved(r, s, msgs) /\ s.at = "opened" /\ \A m \in msgs : m.op = "barrier"
  BY <1>0, <1>1, OpenReturnsMoves
<1>3. faults' \in 0..MaxFaults /\ (faults' = 0 => faults = 0)
  BY <1>0, FailsFacts DEF AddOpenrecord
<1>4. faults' = 0 => Placed(r)
  BY <1>0, <1>3 DEF Inv, HostdirsOK
<1> QED BY <1>0, <1>2, <1>3, <1>4, Kept DEF Early, Late

LEMMA SendResultInv == ASSUME Inv, SendResult PROVE Inv'
<1> DEFINE at == IF rank[0].err = 0 THEN "open" ELSE "failed"
           s == [rank[0] EXCEPT !.at = at]
           msgs == {Message("err", 0, rank[0].err)}
<1>0. /\ TypeOK /\ UNCHANGED <<job, faults, shadows, hostdirs, record, metas, beaten>> /\ rank[0].at = "opened"
      /\ record' \in BOOLEAN /\ faults' \in 0..MaxFaults /\ 0 \in Ranks
  BY JobFacts DEF Inv, SendResult, files, TypeOK
<1>1. rank[0].err \in Errs
  BY <1>0 DEF TypeOK, Rank
<1>2. \A m \in msgs : m.rank = 0 /\ m.op = "err" /\ MessageOK(m)
  BY <1>0, <1>1, MessageFacts DEF MessageOK
<1>3. sent' = sent \cup msgs /\ Goto(0, at) /\ at \in Places
  BY DEF SendResult, Enter, Places
<1>4. at \in {"open", "failed"}
  OBVIOUS
<1> HIDE DEF msgs, at
<1>5. Moved(0, s, msgs) /\ s.at = at
  BY <1>0, <1>2, <1>3, GotoMoves
<1> HIDE DEF s
<1> QED BY <1>0, <1>2, <1>4, <1>5, Kept DEF Early, Late

LEMMA ReceiveResultInv == ASSUME Inv, NEW r \in Ranks, ReceiveResult(r) PROVE Inv'
<1> DEFINE at == IF DataOf("err", 0) = 0 THEN "open" ELSE "failed"
           s == [rank[r] EXCEPT !.at = at]
<1>0. /\ TypeOK /\ UNCHANGED <<job, faults, shadows, hostdirs, record, metas, beaten>> /\ rank[r].at = "opened"
      /\ record' \in BOOLEAN /\ faults' \in 0..MaxFaults
  BY DEF Inv, ReceiveResult, files, TypeOK
<1>1. sent' = sent \cup {} /\ Goto(r, at) /\ at \in Places
  BY DEF ReceiveResult, Places
<1>2. at \in {"open", "failed"}
  OBVIOUS
<1> HIDE DEF at
<1>3. Moved(r, s, {}) /\ s.at = at
  BY <1>0, <1>1, GotoMoves
<1> HIDE DEF s
<1> QED BY <1>0, <1>2, <1>3, Kept DEF Early, Late

(* A rank that is open and stays so, or waits for the result of a resize.  *)
LEMMA OpenKept ==
  ASSUME Inv, NEW r \in Ranks, rank[r].at \in {"open", "resize"}, NEW s, NEW msgs, Moved(r, s, msgs),
         s.at \in {"open", "resize"}, \A m \in msgs : m.op = "resize",
         UNCHANGED <<job, faults, shadows, hostdirs, record, metas, beaten>>
  PROVE  Inv'
<1>1. record' \in BOOLEAN /\ faults' \in 0..MaxFaults
  BY DEF Inv, TypeOK
<1> QED BY <1>1, Kept DEF Early, Late

LEMMA WriteInv == ASSUME Inv, NEW r \in Ranks, NEW end \in Ends, Write(r, end) PROVE Inv'
<1>0. /\ UNCHANGED <<job, sent, faults, shadows, hostdirs, record, metas, beaten>> /\ rank[r].at = "open"
      /\ rank[r] \in Rank
  BY DEF Inv, Write, files, TypeOK
<1>1. PICK stops \in BOOLEAN :
        rank' = [rank EXCEPT ![r].last_offset = end, ![r].buffering = @ /\ ~stops, ![r].filled = @ \/ stops]
  BY DEF Write
<1> DEFINE s == [rank[r] EXCEPT !.last_offset = end, !.buffering = rank[r].buffering /\ ~stops,
                                !.filled = rank[r].filled \/ stops]
<1>2. s \in Rank /\ s.at = "open"
  BY <1>0 DEF Rank
<1>3. rank' = [rank EXCEPT ![r] = s]
  BY <1>0, <1>1 DEF Rank
<1> HIDE DEF s
<1>4. Moved(r, s, {})
  BY <1>0, <1>2, <1>3 DEF Moved
<1> QED BY <1>0, <1>2, <1>4, OpenKept

LEMMA ResizeInv == ASSUME Inv, NEW r \in Ranks, Resize(r) PROVE Inv'
<1>0. /\ UNCHANGED <<job, faults, shadows, hostdirs, record, metas, beaten>> /\ rank[r].at = "open"
      /\ rank[r] \in Rank /\ TypeOK
  BY DEF Inv, Resize, files, TypeOK
<1>1. PICK err \in Results(r) :
        /\ rank' = [rank EXCEPT ![r].resized = TRUE, ![r].at = "resize",
             ![r].last_offset = IF r = job.first /\ rank[r].opened /\ err = 0 THEN job.resize ELSE @]
        /\ IF r = 0 THEN Enter("resize", 0, err) ELSE UNCHANGED sent
  BY DEF Resize
<1> DEFINE last == IF r = job.first /\ rank[r].opened /\ err = 0 THEN job.resize ELSE rank[r].last_offset
           s == [rank[r] EXCEPT !.resized = TRUE, !.at = "resize", !.last_offset = last]
           msgs == IF r = 0 THEN {Message("resize", r, err)} ELSE {}
<1>2. last \in Ends
  <2>1. job.resize \in Ends
    BY <1>0, JobFacts, BoundsAssumption DEF Resize, Ends
  <2> QED BY <1>0, <2>1 DEF Rank
<1>3. rank' = [rank EXCEPT ![r] = s]
  BY <1>0, <1>1 DEF Rank
<1> HIDE DEF last
<1>4. s \in Rank /\ s.at = "resize"
  BY <1>0, <1>2 DEF Rank, Places
<1> HIDE DEF s
<1>5. err \in Errs
  BY DEF Results, Errs
<1>6. \A m \in msgs : m.rank = r /\ m.op = "resize" /\ MessageOK(m)
  BY <1>5, MessageFacts DEF MessageOK
<1>7. sent' = sent \cup msgs
  BY <1>1 DEF Enter
<1> HIDE DEF msgs
<1>8. Moved(r, s, msgs)
  BY <1>0, <1>3, <1>4, <1>6, <1>7 DEF Moved
<1> QED BY <1>0, <1>4, <1>6, <1>8, OpenKept

LEMMA ResizeReturnsInv == ASSUME Inv, NEW r \in Ranks, ResizeReturns(r) PROVE Inv'
<1>0. /\ UNCHANGED <<job, sent, faults, shadows, hostdirs, record, metas, beaten>> /\ rank[r].at = "resize"
      /\ rank[r] \in Rank /\ TypeOK
  BY DEF Inv, ResizeReturns, files, TypeOK
<1> DEFINE told == DataOf("resize", 0)
           s == [rank[r] EXCEPT !.at = "open", !.told = told]
<1>1. told \in Errs
  BY <1>0, DataFound DEF ResizeReturns, TypeOK, MessageOK
<1>2. rank' = [rank EXCEPT ![r] = s]
  BY <1>0 DEF Rank, ResizeReturns
<1> HIDE DEF told
<1>3. s \in Rank /\ s.at = "open"
  BY <1>0, <1>1 DEF Rank, Places
<1> HIDE DEF s
<1>4. Moved(r, s, {})
  BY <1>0, <1>2, <1>3 DEF Moved
<1> QED BY <1>0, <1>3, <1>4, OpenKept

LEMMA CloseInv == ASSUME Inv, NEW r \in Ranks, Close(r) PROVE Inv'
<1> DEFINE at == IF ~rank[r].opened THEN "closed" ELSE IF job.flatten THEN "flatten" ELSE "reduce"
           s == [rank[r] EXCEPT !.at = at]
           msgs == IF ~rank[r].opened THEN {}
                   ELSE IF job.flatten THEN {Message("size", r, 0)} ELSE {Message("meta", r, rank[r].last_offset)}
<1>0. /\ TypeOK /\ UNCHANGED <<job, faults, shadows, hostdirs, record, metas, beaten>> /\ rank[r].at = "open"
      /\ record' \in BOOLEAN /\ faults' \in 0..MaxFaults /\ rank[r].last_offset \in Ends
  BY DEF Inv, Close, files, TypeOK, Rank
<1>1. \A m \in msgs : m.rank = r /\ m.op # "barrier" /\ MessageOK(m)
  BY <1>0, MessageFacts DEF MessageOK
<1>2. \A m \in msgs : m.op = "meta" => at = "reduce" /\ m.data = rank[r].last_offset
  BY MessageFacts
<1>3. sent' = sent \cup msgs /\ Goto(r, at) /\ at \in Places
  BY DEF Close, Enter, Places
<1>4. at \in {"closed", "flatten", "reduce"} /\ (at = "flatten" => job.flatten)
  OBVIOUS
<1> HIDE DEF msgs, at
<1>5. Moved(r, s, msgs) /\ s.at = at /\ s.last_offset = rank[r].last_offset
  BY <1>0, <1>1, <1>3, GotoMoves
<1> HIDE DEF s
<1> QED BY <1>0, <1>1, <1>2, <1>4, <1>5, Kept DEF Early, Late

LEMMA GatherSizesInv == ASSUME Inv, GatherSizes PROVE Inv'
<1> DEFINE stop == \E q \in Ranks : index_size(q) = -1
           at == IF stop THEN "reduce" ELSE "gather"
           s == [rank[0] EXCEPT !.stop = stop, !.at = at]
           msgs == {Message("stop", 0, stop)} \cup
                   (IF stop THEN {Message("meta", 0, rank[0].last_offset)} ELSE {})
<1>0. /\ TypeOK /\ UNCHANGED <<job, faults, shadows, hostdirs, record, metas, beaten>> /\ rank[0].at = "flatten"
      /\ record' \in BOOLEAN /\ faults' \in 0..MaxFaults /\ 0 \in Ranks /\ rank[0] \in Rank
  BY JobFacts DEF Inv, GatherSizes, files, TypeOK
<1>1. stop \in BOOLEAN /\ rank[0].last_offset \in Ends
  BY <1>0 DEF Rank
<1> HIDE DEF stop
<1>2. \A m \in msgs : m.rank = 0 /\ m.op # "barrier" /\ MessageOK(m)
  <2>1. /\ Message("stop", 0, stop).op = "stop" /\ Message("stop", 0, stop).rank = 0
        /\ Message("stop", 0, stop).data = stop
    BY MessageFacts
  <2>2. MessageOK(Message("stop", 0, stop))
    BY <1>0, <1>1, <2>1 DEF MessageOK
  <2>3. MessageOK(Message("meta", 0, rank[0].last_offset))
    BY <1>0, <1>1, MessageFacts DEF MessageOK
  <2> QED BY <2>1, <2>2, <2>3, MessageFacts
<1>3. \A m \in msgs : m.op = "meta" => at = "reduce" /\ m.data = rank[0].last_offset
  <2>1. Message("stop", 0, stop).op # "meta"
    BY MessageFacts
  <2> QED BY <2>1, MessageFacts
<1>4. sent' = sent \cup msgs /\ rank' = [rank EXCEPT ![0].stop = stop, ![0].at = at]
  BY DEF GatherSizes, stop
<1>5. at \in {"reduce", "gather"} /\ (at = "gather" => ~stop)
  OBVIOUS
<1> HIDE DEF msgs, at
<1>6. rank' = [rank EXCEPT ![0] = s]
  BY <1>0, <1>4 DEF Rank
<1>7. s \in Rank /\ s.at = at /\ s.stop = stop /\ s.last_offset = rank[0].last_offset
  BY <1>0, <1>1, <1>5 DEF Rank, Places
<1> HIDE DEF s
<1>8. Moved(0, s, msgs)
  BY <1>0, <1>2, <1>4, <1>6, <1>7 DEF Moved
<1>9. job.flatten
  BY <1>0 DEF Inv, MetasOK
<1> QED BY <1>0, <1>2, <1>3, <1>5, <1>7, <1>8, <1>9, Kept DEF Early, Late

LEMMA ReceiveStopInv == ASSUME Inv, NEW r \in Ranks, ReceiveStop(r) PROVE Inv'
<1> DEFINE stop == DataOf("stop", 0)
           at == IF stop THEN "reduce" ELSE "plfs_close"
           s == [rank[r] EXCEPT !.stop = stop, !.at = at]
           msgs == IF stop THEN {Message("meta", r, rank[r].last_offset)} ELSE {Message("index", r, 0)}
<1>0. /\ TypeOK /\ UNCHANGED <<job, faults, shadows, hostdirs, record, metas, beaten>> /\ rank[r].at = "flatten"
      /\ record' \in BOOLEAN /\ faults' \in 0..MaxFaults /\ rank[r] \in Rank /\ r # 0
  BY DEF Inv, ReceiveStop, files, TypeOK
<1>1. stop \in BOOLEAN /\ rank[r].last_offset \in Ends
  BY <1>0, DataFound DEF Rank, ReceiveStop, TypeOK, MessageOK
<1>2. \A m \in msgs : m.rank = r /\ m.op # "barrier" /\ MessageOK(m)
  BY <1>1, MessageFacts DEF MessageOK
<1>3. \A m \in msgs : m.op = "meta" => at = "reduce" /\ m.data = rank[r].last_offset
  BY MessageFacts
<1>4. sent' = sent \cup msgs /\ rank' = [rank EXCEPT ![r].stop = stop, ![r].at = at]
  BY DEF ReceiveStop, Enter
<1>5. at \in {"reduce", "plfs_close"}
  OBVIOUS
<1> HIDE DEF msgs, at, stop
<1>6. rank' = [rank EXCEPT ![r] = s]
  BY <1>0, <1>4 DEF Rank
<1>7. s \in Rank /\ s.at = at /\ s.last_offset = rank[r].last_offset
  BY <1>0, <1>1, <1>5 DEF Rank, Places
<1> HIDE DEF s
<1>8. Moved(r, s, msgs)
  BY <1>0, <1>2, <1>4, <1>6, <1>7 DEF Moved
<1> QED BY <1>0, <1>2, <1>3, <1>5, <1>7, <1>8, Kept DEF Early, Late

LEMMA GatherIndexesInv == ASSUME Inv, GatherIndexes PROVE Inv'
<1> DEFINE s == [rank[0] EXCEPT !.at = "plfs_close"]
<1>0. /\ TypeOK /\ UNCHANGED <<job, faults, shadows, hostdirs, record, metas, beaten>> /\ rank[0].at = "gather"
      /\ record' \in BOOLEAN /\ faults' \in 0..MaxFaults /\ 0 \in Ranks
  BY JobFacts DEF Inv, GatherIndexes, files, TypeOK
<1>1. sent' = sent \cup {} /\ Goto(0, "plfs_close") /\ "plfs_close" \in Places
  BY DEF GatherIndexes, Places
<1>2. Moved(0, s, {}) /\ s.at = "plfs_close" /\ s.stop = rank[0].stop
  BY <1>0, <1>1, GotoMoves
<1> HIDE DEF s
<1>3. job.flatten /\ ~rank[0].stop
  BY <1>0 DEF Inv, MetasOK
<1> QED BY <1>0, <1>2, <1>3, Kept DEF Early, Late

LEMMA ReduceMetaInv == ASSUME Inv, NEW r \in Ranks, ReduceMeta(r) PROVE Inv'
<1> DEFINE s == [rank[r] EXCEPT !.at = "plfs_close"]
<1>0. /\ TypeOK /\ UNCHANGED <<job, faults, shadows, hostdirs, record, metas, beaten>> /\ rank[r].at = "reduce"
      /\ record' \in BOOLEAN /\ faults' \in 0..MaxFaults /\ (r = 0 => Reduced)
  BY DEF Inv, ReduceMeta, files, TypeOK
<1>1. sent' = sent \cup {} /\ Goto(r, "plfs_close") /\ "plfs_close" \in Places
  BY DEF ReduceMeta, Places
<1>2. Moved(r, s, {}) /\ s.at = "plfs_close" /\ s.last_offset = rank[r].last_offset
  BY <1>0, <1>1, GotoMoves
<1> HIDE DEF s
<1> QED BY <1>0, <1>2, Kept DEF Early, Late

(* The ends that were brought are those of all ranks.                      *)
LEMMA AllEnds ==
  ASSUME TypeOK, MetasOK, Reduced
  PROVE  LET ends == {m.data : m \in {x \in sent : x.op = "meta"}}
         IN  ends = {rank[q].last_offset : q \in Ranks} /\ Max(ends) \in Ends
<1> DEFINE ends == {m.data : m \in {x \in sent : x.op = "meta"}}
           lasts == {rank[q].last_offset : q \in Ranks}
<1>1. ASSUME NEW x \in ends PROVE x \in lasts
  <2>1. PICK m \in sent : m.op = "meta" /\ x = m.data
    OBVIOUS
  <2>2. m.rank \in Ranks /\ m.data = rank[m.rank].last_offset
    BY <2>1 DEF TypeOK, MessageOK, MetasOK
  <2> QED BY <2>1, <2>2
<1>2. ASSUME NEW q \in Ranks PROVE rank[q].last_offset \in ends
  <2>1. PICK m \in sent : m.op = "meta" /\ m.rank = q
    BY DEF Reduced, Entered
  <2>2. m.data = rank[q].last_offset /\ m.data \in ends
    BY <2>1 DEF MetasOK
  <2> QED BY <2>2
<1>3. ends = lasts
  BY <1>1, <1>2
<1>4. rank[0].last_offset \in ends /\ ends \in SUBSET (0..MaxOffset) /\ MaxOffset \in Nat
  <2>1. \A x \in ends : x \in Ends
    BY DEF TypeOK, MessageOK
  <2> QED BY <1>2, <2>1, JobFacts, BoundsAssumption DEF Ends
<1>5. ends # {}
  BY <1>4
<1> HIDE DEF ends
<1>6. Max(ends) \in ends
  BY <1>4, <1>5, MaxOfNats
<1> QED BY <1>3, <1>4, <1>6 DEF ends, Ends

LEMMA PlfsCloseInv == ASSUME Inv, NEW r \in Ranks, PlfsClose(r) PROVE Inv'
<1> DEFINE s == [rank[r] EXCEPT !.at = "closed"]
           end == IF job.flatten /\ ~rank[0].stop THEN 0
                  ELSE Max({m.data : m \in {x \in sent : x.op = "meta"}})
<1>0. /\ TypeOK /\ MetasOK /\ UNCHANGED <<job, faults, shadows, hostdirs, beaten>> /\ rank[r].at = "plfs_close"
      /\ faults' \in 0..MaxFaults /\ metas \subseteq Ends /\ beaten' \in BOOLEAN
      /\ hostdirs' \subseteq hostdirs \cup {job.hostdir[r]} /\ shadows' \subseteq job.shadow
  BY DEF Inv, PlfsClose, TypeOK
<1>1. sent' = sent \cup {} /\ Goto(r, "closed") /\ "closed" \in Places
  BY DEF PlfsClose, Places
<1>2. Moved(r, s, {}) /\ s.at = "closed" /\ s.last_offset = rank[r].last_offset
  BY <1>0, <1>1, GotoMoves
<1> HIDE DEF s
<1>3. record' \in BOOLEAN
  BY <1>0 DEF PlfsClose, TypeOK
<1>4. metas' = metas \/ (r = 0 /\ metas' = metas \cup {end})
  BY DEF PlfsClose
<1>5. r = 0 => end \in Ends /\ (~job.flatten => Reduced /\ end = Max({rank[q].last_offset : q \in Ranks}))
  <2> SUFFICES ASSUME r = 0
               PROVE  end \in Ends /\ (~job.flatten => Reduced /\ end = Max({rank[q].last_offset : q \in Ranks}))
    OBVIOUS
  <2>1. CASE job.flatten /\ ~rank[0].stop
    <3>1. 0 \in Ends
      BY BoundsAssumption DEF Ends
    <3> QED BY <2>1, <3>1
  <2>2. CASE ~(job.flatten /\ ~rank[0].stop)
    <3>1. Reduced
      BY <1>0, <2>2 DEF MetasOK
    <3> QED BY <1>0, <2>2, <3>1, AllEnds
  <2> QED BY <2>1, <2>2
<1> HIDE DEF end
<1>6. TypeOK'
  <2>1. metas' \subseteq Ends
    BY <1>0, <1>4, <1>5
  <2> QED BY <1>0, <1>2, <1>3, <2>1, TypeKept
<1>7. AttemptsOK'
  BY <1>0, <1>2, AttemptsKept DEF Inv, Early
<1>8. HostdirsOK'
  BY <1>0, <1>2, HostdirsKept DEF Inv, Early
<1>9. MetasOK'
  <2>1. \A e \in metas' : e \in metas \/ (~job.flatten => /\ Reduced
                                            /\ e = Max({rank[q].last_offset : q \in Ranks}))
    BY <1>4, <1>5
  <2>2. s.at \in Late
    BY <1>2 DEF Late
  <2> QED BY <1>0, <1>2, <2>1, <2>2, MetasKept
<1> QED BY <1>6, <1>7, <1>8, <1>9 DEF Inv

-----------------------------------------------------------------------------
LEMMA InitInv == Init => Inv
<1> SUFFICES ASSUME Init PROVE Inv
  OBVIOUS
<1>1. Starting \in Rank /\ Starting.at = "start" /\ Starting.attempts = 0
  BY BoundsAssumption DEF Starting, Rank, Places, Attempts, Errs, Ends
<1>2. /\ \A r \in Ranks : rank[r] = Starting
      /\ rank \in [Ranks -> Rank] /\ job \in Jobs /\ sent = {} /\ metas = {}
  BY <1>1 DEF Init
<1>3. TypeOK
  <2>1. faults \in 0..MaxFaults /\ hostdirs \subseteq {job.hostdir[r] : r \in Ranks}
    BY BoundsAssumption DEF Init
  <2>2. shadows \subseteq job.shadow /\ record \in BOOLEAN /\ beaten \in BOOLEAN
    BY DEF Init
  <2> QED BY <1>2, <2>1, <2>2 DEF TypeOK
<1>4. 0 \in Ranks
  BY <1>3, JobFacts
<1>5. AttemptsOK
  BY <1>1, <1>2 DEF AttemptsOK
<1>6. HostdirsOK
  BY <1>1, <1>2 DEF Init, HostdirsOK, Early, Makes, Entered
<1>7. MetasOK
  BY <1>1, <1>2, <1>4 DEF MetasOK
<1> QED BY <1>3, <1>5, <1>6, <1>7 DEF Inv

LEMMA StutterInv == Inv /\ UNCHANGED vars => Inv'
<1> SUFFICES ASSUME Inv, UNCHANGED vars PROVE Inv'
  OBVIOUS
<1>0. UNCHANGED <<job, rank, sent, shadows, hostdirs, record, metas, faults, beaten>>
  BY DEF vars
<1>1. TypeOK' /\ AttemptsOK'
  BY <1>0 DEF Inv, TypeOK, AttemptsOK, Ranks, MessageOK
<1>2. HostdirsOK'
  BY <1>0 DEF Inv, HostdirsOK, Ranks, Leads, Sharers, Entered, Placed, Makes
<1>3. MetasOK'
  BY <1>0 DEF Inv, MetasOK, Reduced, Ranks, Entered
<1> QED BY <1>1, <1>2, <1>3 DEF Inv

LEMMA NextInv == Inv /\ [Next]_vars => Inv'
<1> SUFFICES ASSUME Inv, [Next]_vars PROVE Inv'
  OBVIOUS
<1>1. ASSUME NEW r \in Ranks, Step(r) PROVE Inv'
  <2>1. CASE Start(r) \/ Split(r) \/ Barrier(r) \/ AddWriter(r) \/ MakeHostDir(r) \/ Symlink(r)
    BY <2>1, StartInv, SplitInv, BarrierInv, AddWriterInv, MakeHostDirInv, SymlinkInv
  <2>2. CASE AddOpenrecord(r) \/ ReceiveResult(r) \/ Resize(r) \/ ResizeReturns(r) \/ Close(r)
    BY <2>2, AddOpenrecordInv, ReceiveResultInv, ResizeInv, ResizeReturnsInv, CloseInv
  <2>3. CASE ReceiveStop(r) \/ ReduceMeta(r) \/ PlfsClose(r)
    BY <2>3, ReceiveStopInv, ReduceMetaInv, PlfsCloseInv
  <2>4. CASE SendResult \/ GatherSizes \/ GatherIndexes
    BY <2>4, SendResultInv, GatherSizesInv, GatherIndexesInv
  <2> QED BY <1>1, <2>1, <2>2, <2>3, <2>4 DEF Step
<1>2. ASSUME NEW r \in Ranks, NEW end \in 1..MaxOffset, Write(r, end) PROVE Inv'
  <2>1. end \in Ends
    BY BoundsAssumption DEF Ends
  <2> QED BY <1>2, <2>1, WriteInv
<1> QED BY <1>1, <1>2, StutterInv DEF Next

THEOREM Invariance == Spec => []Inv
BY InitInv, NextInv, PTL DEF Spec

(* The state has its types, for every job.                                 *)
THEOREM TypeCorrect == Spec => []TypeOK
<1>1. Inv => TypeOK
  BY DEF Inv
<1> QED BY <1>1, Invariance, PTL

(* No sibling makes a hostdir under a rank that is about to, in a job of   *)
(* any number of ranks on any hostdirs, unless something failed: what the  *)
(* comment in addWriter (plfs.cpp) relies on, through the split and the    *)
(* barrier of open_helper.                                                 *)
THEOREM NoSiblingBeats == Spec => []NoSiblingBeatsUs
<1>1. Inv => NoSiblingBeatsUs
  BY DEF Inv, TypeOK, HostdirsOK, NoSiblingBeatsUs
<1> QED BY <1>1, Invariance, PTL

(* The meta dropping of a job has the greatest end of all ranks' handles,  *)
(* and no rank writes after it was dropped (ADIOI_PLFS_Close, plfs_close). *)
THEOREM MetaCovers == Spec => []MetaCoversEveryRank
<1>1. ASSUME Inv, NEW end \in metas, ~job.flatten
      PROVE  /\ end = Max({rank[r].last_offset : r \in Ranks})
             /\ \A r \in Ranks : rank[r].at \in Late
  <2>1. Reduced /\ end = Max({rank[r].last_offset : r \in Ranks})
    BY <1>1 DEF Inv, MetasOK
  <2>2. \A r \in Ranks : rank[r].at \in Late
    BY <1>1, <2>1 DEF Reduced, Entered, Inv, MetasOK
  <2> QED BY <2>1, <2>2
<1>2. Inv => MetaCoversEveryRank
  BY <1>1 DEF MetaCoversEveryRank, Late
<1> QED BY <1>2, Invariance, PTL
=============================================================================
