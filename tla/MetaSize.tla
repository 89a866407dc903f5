------------------------------ MODULE MetaSize ------------------------------
(***************************************************************************)
(* The size of a container, as plfs_getattr finds it (src/plfs.cpp,        *)
(* src/Container.cpp, src/Metadata.h) while hosts open it, write, close    *)
(* and die, and truncates run.                                             *)
(*                                                                         *)
(* A writer keeps the end of its writes in its WriteFile.  The last close  *)
(* on a host drops a file in the meta directory that has the end in its    *)
(* name, and removes the record by which the host was known to be open.    *)
(* getattr uses the meta droppings of hosts that are not open.  For the    *)
(* others it reads the index droppings and asks each Index for its         *)
(* lastOffset, which is 0 for an index of patterns: only insertGlobal,     *)
(* which nobody calls, raises it.  So they add nothing, and neither does   *)
(* Container::Truncate find one to cut.                                    *)
(***************************************************************************)
EXTENDS Integers, FiniteSets, FiniteSetsExt

CONSTANTS
  Hosts,
  Statters,          \* processes, anywhere, that stat,
  Truncaters,        \* and that truncate
  MaxOffset,         \* bound: ends of writes and of truncates
  MaxBytes,          \* bound: what total_bytes may count up to
  MaxOpens,          \* bound: opens for writing, all together
  Width,             \* total_bytes has 2^Width values, 2^64 in the code
  NoHandle           \* a client without a Plfs_fd that is open for writing

ASSUME BoundsAssumption ==
  /\ MaxOffset \in Nat /\ MaxBytes \in Nat /\ MaxOpens \in Nat
  /\ Width \in Nat /\ MaxOffset <= MaxBytes /\ MaxBytes < 2^Width
ASSUME NoHandleAssumption == NoHandle \notin Hosts

VARIABLES
  handle,   \* per host: its writing Plfs_fd: [at, last_offset, total_bytes, dense]
  live,     \* the hosts with the open record of their handle in the meta directory,
  stale,    \* and with one of a process that died
  metas,    \* the meta droppings: [host, last_offset]
  client,   \* per client: where its plfs_getattr or plfs_trunc is
  opens,    \* how many opens there were
  history   \* [end, highest, exact, written]: what the size should be

Clients == Statters \cup Truncaters
vars == <<handle, live, stale, metas, client, opens, history>>

Offsets == 0..MaxOffset
Metas == [host : Hosts, last_offset : Offsets]
Closed == [at |-> "closed", last_offset |-> 0, total_bytes |-> 0, dense |-> TRUE]
Idle == [at |-> "idle", job |-> "stat", by |-> NoHandle, offset |-> 0, open |-> {},
         size |-> 0, left |-> {}, steady |-> {}]

Init ==
  /\ handle = [h \in Hosts |-> Closed]
  /\ live = {} /\ stale = {} /\ metas = {} /\ opens = 0
  /\ client = [c \in Clients |-> Idle]
  /\ history = [end |-> 0, highest |-> 0, exact |-> TRUE, written |-> [h \in Hosts |-> 0]]

Truncating(c) == client[c].at # "idle" /\ client[c].job = "truncate"
Using(c, h) == client[c].at # "idle" /\ client[c].by = h

(* What a host does counts for the exact size only if no client truncates  *)
(* at the same time, other than with the handle of the host.               *)
Disturbed(h) == \E c \in Clients : Truncating(c) /\ client[c].by # h

(* What is sure to be there of a write up to an end, now.                  *)
Kept(end) == Min({end} \cup {client[c].offset : c \in {x \in Clients : Truncating(x)}})

-----------------------------------------------------------------------------
(* The writers.  plfs_open of a file that the host has not open: a new     *)
(* WriteFile, and an open record.                                          *)
Open(h) ==
  /\ handle[h].at = "closed" /\ opens < MaxOpens
  /\ handle' = [handle EXCEPT ![h] = [Closed EXCEPT !.at = "open"]]
  /\ live' = live \cup {h}
  /\ opens' = opens + 1
  /\ client' = [c \in Clients |-> [client[c] EXCEPT !.steady = @ \ {h}]]
  /\ history' = [history EXCEPT !.exact = @ /\ ~Disturbed(h)]
  /\ UNCHANGED <<stale, metas>>

(* Metadata::addWrite.                                                     *)
Write(h, offset, bytes) ==
  /\ handle[h].at = "open"
  /\ handle[h].total_bytes + bytes <= MaxBytes
  /\ handle' = [handle EXCEPT
       ![h].total_bytes = (@ + bytes) % 2^Width,
       ![h].last_offset = IF offset + bytes > @ THEN offset + bytes ELSE @,
       ![h].dense = @ /\ offset <= handle[h].last_offset]
  /\ history' = [history EXCEPT
       !.end = Max({@, offset + bytes}), !.highest = Max({@, offset + bytes}),
       !.written[h] = Max({@, Kept(offset + bytes)}), !.exact = @ /\ ~Disturbed(h)]
  /\ UNCHANGED <<live, stale, metas, client, opens>>

AddMeta(h) == metas' = metas \cup {[host |-> h, last_offset |-> handle[h].last_offset]}
RemoveOpenrecord(h) ==
  /\ live' = live \ {h}
  /\ history' = [history EXCEPT !.exact = @ /\ ~Disturbed(h)]

\* Mutant: the open record goes before the meta dropping is there.
Close_RecordFirst(h) ==
  /\ ~\E c \in Clients : Using(c, h)
  /\ \/ /\ handle[h].at = "open" /\ RemoveOpenrecord(h)
        /\ handle' = [handle EXCEPT ![h].at = "added"] /\ UNCHANGED metas
     \/ /\ handle[h].at = "added" /\ AddMeta(h)
        /\ handle' = [handle EXCEPT ![h] = Closed] /\ UNCHANGED <<live, history>>
  /\ UNCHANGED <<stale, client, opens>>

(* plfs_close of the last writer, when no call uses the handle any more.   *)
Close(h) ==
  /\ ~\E c \in Clients : Using(c, h)
  /\ \/ /\ handle[h].at = "open" /\ AddMeta(h)
        /\ handle' = [handle EXCEPT ![h].at = "added"]
        /\ history' = [history EXCEPT !.exact = @ /\ ~Disturbed(h)]
        /\ UNCHANGED live
     \/ /\ handle[h].at = "added" /\ RemoveOpenrecord(h)
        /\ handle' = [handle EXCEPT ![h] = Closed] /\ UNCHANGED metas
  /\ UNCHANGED <<stale, client, opens>>

(* The process dies, with the clients that used its handle.                *)
Crash(h) ==
  /\ handle[h].at # "closed"
  /\ handle' = [handle EXCEPT ![h] = Closed]
  /\ live' = live \ {h} /\ stale' = stale \cup {h}
  /\ client' = [c \in Clients |-> IF client[c].by = h THEN Idle ELSE client[c]]
  /\ history' = [history EXCEPT !.exact = FALSE]
  /\ UNCHANGED <<metas, opens>>

-----------------------------------------------------------------------------
(* plfs_getattr, by a client with or without a handle for writing: first   *)
(* discoverOpenHosts reads the open records.                               *)
Begun(by) == [Idle EXCEPT !.at = "metas", !.by = by, !.open = live \cup stale,
                          !.steady = Hosts \ (live \cup stale)]

BeginStat(c, by) ==
  /\ c \in Statters /\ client[c].at = "idle"
  /\ by # NoHandle => handle[by].at = "open"
  /\ client' = [client EXCEPT ![c] = Begun(by)]
  /\ UNCHANGED <<handle, live, stale, metas, opens, history>>

(* Which meta droppings getattr uses.                                      *)
Valid(m, open) == m.host \notin open

(* Then the meta droppings, and in the end the handle.                     *)
Size(c) ==
  Max({0} \cup {m.last_offset : m \in {x \in metas : Valid(x, client[c].open)}}
          \cup IF client[c].by = NoHandle THEN {} ELSE {handle[client[c].by].last_offset})

ReadMetas(c) ==
  /\ client[c].at = "metas"
  /\ client' = [client EXCEPT ![c] =
       IF @.job = "stat" THEN Idle ELSE [@ EXCEPT !.at = "sized", !.size = Size(c), !.open = {}, !.steady = {}]]
  /\ UNCHANGED <<handle, live, stale, metas, opens, history>>

-----------------------------------------------------------------------------
(* plfs_trunc.  With a handle for writing the getattr is a lazy one, which *)
(* takes the size from there and does not look into the container.         *)
BeginTruncate(c, by, offset) ==
  /\ c \in Truncaters /\ client[c].at = "idle"
  /\ by # NoHandle => handle[by].at = "open"
  /\ client' = [client EXCEPT ![c] =
       IF offset = 0 THEN [Idle EXCEPT !.job = "truncate", !.by = by, !.at = "empty", !.left = metas]
       ELSE IF by = NoHandle
       THEN [Begun(by) EXCEPT !.job = "truncate", !.offset = offset, !.steady = {}]
       ELSE [Idle EXCEPT !.job = "truncate", !.by = by, !.offset = offset, !.at = "sized",
                         !.size = handle[by].last_offset]]
  /\ history' = [history EXCEPT
       !.written = [h \in Hosts |-> Min({@[h], offset})],
       !.exact =
       /\ @ /\ ~(\E d \in Clients : Truncating(d)) /\ \A h \in Hosts \ {by} : handle[h].at = "closed"
       /\ by # NoHandle /\ offset > 0 => handle[by].last_offset = history.end]
  /\ UNCHANGED <<handle, live, stale, metas, opens>>

Smaller(c) ==
  /\ client[c].at = "sized" /\ client[c].size > client[c].offset
  /\ client' = [client EXCEPT ![c].at = "cut", ![c].left = metas]
  /\ UNCHANGED <<handle, live, stale, metas, opens, history>>

AsBig(c) ==
  /\ client[c].at = "sized" /\ client[c].size = client[c].offset
  /\ client' = [client EXCEPT ![c].at = "handle"]
  /\ UNCHANGED <<handle, live, stale, metas, opens, history>>

(* extendFile: a write of no bytes at the new end, by the handle.  A       *)
(* WriteFile made for the occasion has no descriptors and can not: -ENOENT *)
Bigger(c) ==
  /\ client[c].at = "sized" /\ client[c].size < client[c].offset
  /\ LET by == client[c].by IN
     IF by = NoHandle
     THEN client' = [client EXCEPT ![c] = Idle] /\ UNCHANGED <<handle, history>>
     ELSE /\ client' = [client EXCEPT ![c].at = "handle"]
          /\ handle' = [handle EXCEPT ![by].last_offset = Max({@, client[c].offset}),
                                      ![by].dense = FALSE]
          /\ history' = [history EXCEPT !.highest = Max({@, client[c].offset})]
  /\ UNCHANGED <<live, stale, metas, opens>>

(* truncateMeta, one dropping after the other: a dropping beyond the new   *)
(* end is renamed.  If it is not there any more the loop ends, and what    *)
(* the rename returned is overwritten with what closedir returns.          *)
Renamed(m, offset) == [m EXCEPT !.last_offset = offset]

\* Mutant: only droppings that are smaller than the new end are renamed.
TruncateMeta_Smaller(c, m) ==
  /\ client[c].at = "cut" /\ m \in client[c].left
  /\ client' = [client EXCEPT ![c].left = @ \ {m}]
  /\ metas' = IF m.last_offset < client[c].offset /\ m \in metas
              THEN (metas \ {m}) \cup {Renamed(m, client[c].offset)} ELSE metas
  /\ UNCHANGED <<handle, live, stale, opens, history>>

TruncateMeta(c, m) ==
  /\ client[c].at = "cut" /\ m \in client[c].left
  /\ \/ /\ m.last_offset <= client[c].offset /\ UNCHANGED metas
        /\ client' = [client EXCEPT ![c].left = @ \ {m}]
     \/ /\ m.last_offset > client[c].offset /\ m \in metas
        /\ metas' = (metas \ {m}) \cup {Renamed(m, client[c].offset)}
        /\ client' = [client EXCEPT ![c].left = @ \ {m}]
     \/ /\ m.last_offset > client[c].offset /\ m \notin metas
        /\ client' = [client EXCEPT ![c].left = {}] /\ UNCHANGED metas
  /\ UNCHANGED <<handle, live, stale, opens, history>>

(* removeDirectoryTree with truncate_only: meta droppings are unlinked,    *)
(* open records kept.                                                      *)
UnlinkMeta(c, m) ==
  /\ client[c].at = "empty" /\ m \in client[c].left
  /\ client' = [client EXCEPT ![c].left = @ \ {m}]
  /\ metas' = metas \ {m}
  /\ UNCHANGED <<handle, live, stale, opens, history>>

(* The droppings are done.                                                 *)
EndLoop(c) ==
  /\ client[c].at \in {"cut", "empty"} /\ client[c].left = {}
  /\ client' = [client EXCEPT ![c].at = "handle"]
  /\ UNCHANGED <<handle, live, stale, metas, opens, history>>

\* Mutant: every byte beyond the new end is taken off, the lost ones or not.
Truncated_Twice(w, offset) ==
  [w EXCEPT !.last_offset = offset,
     !.total_bytes = IF offset = 0 THEN 0
                     ELSE IF w.last_offset > offset THEN (@ - 2 * (w.last_offset - offset)) % 2^Width ELSE @]

(* Metadata::truncate.                                                     *)
Truncated(w, offset) ==
  [w EXCEPT !.last_offset = offset,
     !.total_bytes = IF offset = 0 THEN 0
                     ELSE IF w.last_offset > offset THEN (@ - (w.last_offset - offset)) % 2^Width ELSE @]

(* A file of size 0 has no holes, whatever it was.                         *)
TruncateHandle(c) ==
  /\ client[c].at = "handle"
  /\ LET by == client[c].by
         offset == client[c].offset
     IN  /\ handle' = IF by = NoHandle THEN handle
                      ELSE [handle EXCEPT ![by] = Truncated([handle[by] EXCEPT
                             !.dense = \/ offset = 0
                                       \/ handle[by].dense /\ offset <= handle[by].last_offset], offset)]
         /\ history' = [history EXCEPT !.end = offset]
  /\ client' = [client EXCEPT ![c] = Idle]
  /\ UNCHANGED <<live, stale, metas, opens>>

-----------------------------------------------------------------------------
HostStep(h) ==
  \/ Open(h) \/ Close(h) \/ Crash(h)
  \/ \E offset \in Offsets, bytes \in 1..MaxOffset : offset + bytes <= MaxOffset /\ Write(h, offset, bytes)

ClientStep(c) ==
  \/ \E by \in Hosts \cup {NoHandle} :
       BeginStat(c, by) \/ \E offset \in Offsets : BeginTruncate(c, by, offset)
  \/ ReadMetas(c)
  \/ Smaller(c) \/ AsBig(c) \/ Bigger(c) \/ EndLoop(c) \/ TruncateHandle(c)
  \/ \E m \in client[c].left : TruncateMeta(c, m) \/ UnlinkMeta(c, m)

Next == (\E h \in Hosts : HostStep(h)) \/ (\E c \in Clients : ClientStep(c))

Spec == Init /\ [][Next]_vars

-----------------------------------------------------------------------------
(* The types of the state.                                                 *)
Totals == 0..(2^Width - 1)
Handle == [at : {"closed", "open", "added"}, last_offset : Offsets, total_bytes : Totals, dense : BOOLEAN]
Client == [at : {"idle", "metas", "sized", "cut", "empty", "handle"}, job : {"stat", "truncate"},
           by : Hosts \cup {NoHandle}, offset : Offsets, open : SUBSET Hosts,
           size : Offsets, left : SUBSET Metas, steady : SUBSET Hosts]
History == [end : Offsets, highest : Offsets, exact : BOOLEAN, written : [Hosts -> Offsets]]

TypeOK ==
  /\ handle \in [Hosts -> Handle]
  /\ live \subseteq Hosts /\ stale \subseteq Hosts
  /\ metas \subseteq Metas /\ opens \in 0..MaxOpens
  /\ client \in [Clients -> Client]
  /\ history \in History

(* A stat shows at least what every host that had no open record all along *)
(* has written below the offsets of truncates, whatever the others open,   *)
(* close and lose meanwhile; and never an end the file has not had.        *)
StatSeesClosedWrites ==
  \A c \in Clients :
    client[c].at = "metas" =>
      /\ \A h \in client[c].steady : Size(c) >= history.written[h]
      /\ Size(c) <= history.highest

(* When everybody has closed, nobody died, and truncates met no other      *)
(* truncate, and no handle but one that had written up to the end and made *)
(* the call, the droppings give the size of the file: sequences of opens,  *)
(* writes, truncates and closes on several hosts add up.                   *)
SizeIsExactAtRest ==
  (/\ history.exact /\ live = {} /\ \A c \in Clients : ~Truncating(c))
    => Max({0} \cup {m.last_offset : m \in metas}) = history.end

(* total_bytes, from which st_blocks is computed, does not wrap around     *)
(* unless the handle has left a hole, which a truncate counts as bytes:    *)
(* every byte below last_offset has been counted at least once.            *)
BytesAreCounted ==
  \A h \in Hosts : handle[h].dense => handle[h].last_offset <= handle[h].total_bytes
                                      /\ handle[h].total_bytes <= MaxBytes

(* The comment in Container::getattr: "if we can't use meta than we need   *)
(* to pull the info from the hostdir": what a host has written and closed  *)
(* stays in the size when it opens the file again.                         *)
StatSeesReopened ==
  \A c \in Clients, m \in metas :
    client[c].at = "metas" /\ handle[m.host].at = "open" => Size(c) >= m.last_offset
=============================================================================
