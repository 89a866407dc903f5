----------------------------- MODULE Namespace ------------------------------
(***************************************************************************)
(* One directory of a mount point with several backends (src/plfs.cpp).    *)
(* The directory is on every backend.  A file is a container on the        *)
(* backend that its path hashes to, the canonical one; a node that writes  *)
(* it and whose host directory is not there makes a shadow container on    *)
(* the backend that the node hashes to, and links to it (addWriter).  So   *)
(* unlink, rename, mkdir, rmdir and readdir are loops over backends or     *)
(* forget that there are several, and none of them takes a lock.           *)
(*                                                                         *)
(* Creating a container is one step here: AtomicCreate is what             *)
(* ContainerCreate shows of it.  Host directories are not shared by nodes. *)
(***************************************************************************)
EXTENDS Integers, FiniteSets, Sequences

CONSTANTS
  Nodes,
  Names,         \* the names used in the directory, a sequence in their order
  Backends,      \* of the mount point: 1..Backends
  Canon,         \* HASH_BY_PATH: name -> backend
  Home,          \* HASH_BY_NODE: node -> backend
  MaxFiles,      \* bound: how often a file is created
  BufferSize,    \* the entries that fit into the buffer of a readdir
  Calls,         \* bound: the calls that a node makes
  Faults,        \* what may fail for reasons of its own
  MaxFaults      \* bound: how often

Name == {Names[i] : i \in DOMAIN Names}
Backend == 1..Backends

ASSUME NamesAssumption == Names \in Seq(Name) /\ Names # <<>>
ASSUME HashAssumption ==
  Backends \in Nat \ {0} /\ Canon \in [Name -> Backend] /\ Home \in [Nodes -> Backend]
ASSUME BufferAssumption == BufferSize \in Nat \ {0} /\ MaxFiles \in Nat
ASSUME CallsAssumption ==
  Calls \in [Nodes -> SUBSET {"open", "unlink", "rename", "mkdir", "rmdir", "list"}]
ASSUME FaultsAssumption ==
  Faults \subseteq {"mkdir", "rename", "rmtree", "opendir", "crash"} /\ MaxFaults \in Nat

VARIABLES
  dir,         \* the backends that have the directory
  place,       \* <<backend, name>> -> what is there
  trash,       \* containers under their hidden names: [node, backend, name]
  op,          \* per node: the call it is in
  lister,      \* the listing of the directory that goes on, by a node of its own
  files,       \* how many files were created
  acked,       \* history: <<file, node>>, the droppings made by opens that succeeded
  tainted,     \* history: names whose shadow containers were left behind
  spoiled,     \* history: files that came to such a name
  faults       \* how often something failed

state == <<dir, place, trash>>
history == <<files, acked, tainted, spoiled, faults>>
vars == <<state, op, lister, history>>

(* A container: the file it is (0: it has no access file), the host        *)
(* directories in it with their droppings, and the links in it.            *)
NoPlace == [id |-> 0, there |-> FALSE, dirs |-> <<>>, links |-> <<>>]
Shadow == [NoPlace EXCEPT !.there = TRUE]
Hosts(c) == DOMAIN c.dirs \cup DOMAIN c.links
And(f, n, v) == [m \in DOMAIN f \cup {n} |-> IF m = n THEN v ELSE f[m]]
WithHost(c, n) == IF n \in Hosts(c) THEN c ELSE [c EXCEPT !.dirs = And(@, n, {})]

Canonical(p) == <<Canon[p], p>>
isContainer(p) == place[Canonical(p)].id # 0

Idle == [call |-> "none", at |-> "idle", name |-> Names[1], to |-> Names[1], b |-> 0, attempts |-> 0]
Busy(n) == op[n].call # "none"
Fails(f) == f \in Faults /\ faults < MaxFaults /\ faults' = faults + 1
Enters(n, call) == ~Busy(n) /\ call \in Calls[n]
Goto(n, at) == op' = [op EXCEPT ![n].at = at]
Return(n) == op' = [op EXCEPT ![n] = Idle]

(* What can be listed: hidden names begin with a dot and come first.       *)
Hidden(p) == <<"hidden", p>>
Order == [i \in 1..(2 * Len(Names)) |->
           IF i <= Len(Names) THEN Hidden(Names[i]) ELSE <<"name", Names[i - Len(Names)]>>]
EntriesOn(b) == {<<"name", p>> : p \in {q \in Name : place[<<b, q>>].there}}
                  \cup {Hidden(t.name) : t \in {u \in trash : u.b = b}}

(* What a listing owes: the files that are there from its beginning on     *)
(* while no entry in front of them comes or goes, on any backend.          *)
NoLister == [at |-> "idle", b |-> 1, dents |-> {}, offset |-> 0, ret |-> 0, seen |-> <<>>,
             due |-> {}, missed |-> FALSE]
Rank(e) == CHOOSE i \in DOMAIN Order : Order[i] = e
Noting(entries) ==
  IF lister.at = "idle" THEN UNCHANGED lister
  ELSE lister' = [lister EXCEPT !.due =
         {p \in @ : /\ place'[Canonical(p)].id = place[Canonical(p)].id
                    /\ \A e \in entries : Rank(e) >= Rank(<<"name", p>>)}]

Init ==
  /\ dir = Backend
  /\ place = [k \in Backend \X Name |-> NoPlace]
  /\ trash = {} /\ op = [n \in Nodes |-> Idle] /\ lister = NoLister
  /\ files = 0 /\ acked = {} /\ tainted = {} /\ spoiled = {} /\ faults = 0

-----------------------------------------------------------------------------
(* A name is unsafe for a file to come to while an unlink of it goes on,   *)
(* and after one has failed, or a file was renamed from it, or an open     *)
(* made a shadow container when the file was gone: what is left on other   *)
(* backends becomes part of the new file, and of the renamed one.          *)
Unlinking(n, p) ==
  /\ op[n].at \in {"canonical", "tree", "copies"}
  /\ p = IF op[n].call = "unlink" THEN op[n].name ELSE op[n].to
Unsafe(p) == p \in tainted \/ \E n \in Nodes : Unlinking(n, p)
LinkedTo(p) == {place[k].id : k \in {l \in DOMAIN place : l[2] # p /\
                  \E n \in DOMAIN place[l].links : place[l].links[n][2] = p}}
Arrived(i, p) == spoiled' = spoiled \cup (IF Unsafe(p) THEN {i} \cup LinkedTo(p) ELSE {})

(* plfs_create.                                                            *)
Create(n, p) ==
  /\ ~Busy(n) /\ Canon[p] \in dir
  /\ LET k == Canonical(p) IN
     \/ /\ place[k] \in {NoPlace, Shadow} /\ files < MaxFiles
        /\ place' = [place EXCEPT ![k] = WithHost([Shadow EXCEPT !.id = files + 1], n)]
        /\ files' = files + 1 /\ Arrived(files + 1, p) /\ Noting({<<"name", p>>})
     \/ /\ place[k] \notin {NoPlace, Shadow} /\ n \notin Hosts(place[k])
        /\ place' = [place EXCEPT ![k] = WithHost(@, n)]
        /\ UNCHANGED <<files, spoiled, lister>>
  /\ UNCHANGED <<dir, trash, op, acked, tainted, faults>>

(* plfs_open to write, from the test whether the file is a container.      *)
Open(n, p) ==
  /\ Enters(n, "open") /\ isContainer(p)
  /\ op' = [op EXCEPT ![n] = [Idle EXCEPT !.call = "open", !.at = "try", !.name = p]]
  /\ UNCHANGED <<state, lister, history>>

(* Where the path of the host directory leads: to a place, or nowhere.     *)
Resolved(n, p) ==
  LET c == place[Canonical(p)] IN
  IF n \in DOMAIN c.links THEN {k \in {c.links[n]} : n \in DOMAIN place[k].dirs}
  ELSE {k \in {Canonical(p)} : n \in DOMAIN c.dirs}

(* addWriter: the droppings are opened if the host directory is there; at  *)
(* most two attempts, and not after a link to itself.                      *)
TryOpen(n) ==
  /\ op[n].at = "try"
  /\ LET p == op[n].name
         i == place[Canonical(p)].id
         links == place[Canonical(p)].links
     IN
     \/ \E k \in Resolved(n, p) :
          /\ place' = [place EXCEPT ![k].dirs[n] = @ \cup {<<i, n>>}]
          /\ acked' = acked \cup {<<j, n>> : j \in {i} \ {0}} /\ Return(n)
     \/ /\ Resolved(n, p) = {}
        /\ IF op[n].attempts = 2 \/ (n \in DOMAIN links /\ links[n] = Canonical(p))
           THEN Return(n) ELSE Goto(n, "shadow")
        /\ UNCHANGED <<place, acked>>
  /\ UNCHANGED <<dir, trash, lister, files, tainted, spoiled, faults>>

Again(n) == op' = [op EXCEPT ![n].at = "try", ![n].attempts = @ + 1]

(* The host directory is made on the backend of the node, and its parent.  *)
MakeShadow(n) ==
  /\ op[n].at = "shadow"
  /\ LET k == <<Home[n], op[n].name>> IN
     \/ /\ k[1] \in dir
        /\ place' = [place EXCEPT ![k] = WithHost([@ EXCEPT !.there = TRUE], n)]
        /\ (IF place[k].there THEN UNCHANGED lister ELSE Noting({<<"name", k[2]>>}))
        /\ (IF isContainer(k[2]) THEN UNCHANGED <<tainted, spoiled>>
            ELSE tainted' = tainted \cup {k[2]} /\ spoiled' = spoiled \cup LinkedTo(k[2]))
        /\ Goto(n, "link") /\ UNCHANGED faults
     \/ /\ (k[1] \notin dir /\ UNCHANGED faults) \/ Fails("mkdir")
        /\ Again(n) /\ UNCHANGED <<place, lister, tainted, spoiled>>
  /\ UNCHANGED <<dir, trash, files, acked>>

(* And linked to.  The two paths never compare equal (one has a slash too  *)
(* many), so that this is tried on the canonical backend as well.          *)
Link(n) ==
  /\ op[n].at = "link"
  /\ LET c == Canonical(op[n].name) IN
     place' = IF place[c].there /\ n \notin Hosts(place[c])
              THEN [place EXCEPT ![c].links = And(@, n, <<Home[n], op[n].name>>)] ELSE place
  /\ Again(n)
  /\ UNCHANGED <<dir, trash, lister, history>>

-----------------------------------------------------------------------------
(* plfs_unlink, also that of the target of a rename.                       *)
Unlink(n, p) ==
  /\ Enters(n, "unlink") /\ isContainer(p)
  /\ op' = [op EXCEPT ![n] = [Idle EXCEPT !.call = "unlink", !.at = "canonical", !.name = p]]
  /\ UNCHANGED <<state, lister, history>>

Victim(n) == IF op[n].call = "unlink" THEN op[n].name ELSE op[n].to
Unlinked(n) == IF op[n].call = "unlink" THEN Return(n) ELSE Goto(n, "rename")

(* The canonical container goes to a hidden name.                          *)
UnlinkCanonical(n) ==
  /\ op[n].at = "canonical"
  /\ LET p == Victim(n) IN
     \/ /\ place[Canonical(p)].there
        /\ place' = [place EXCEPT ![Canonical(p)] = NoPlace]
        /\ trash' = trash \cup {[node |-> n, b |-> Canon[p], name |-> p]}
        /\ acked' = {d \in acked : d[1] # place[Canonical(p)].id}
        /\ spoiled' = spoiled \ {place[Canonical(p)].id}
        /\ Goto(n, "tree") /\ Noting({<<"name", p>>, Hidden(p)})
     \/ /\ ~place[Canonical(p)].there
        /\ Unlinked(n) /\ UNCHANGED <<place, trash, lister, acked, spoiled>>
  /\ UNCHANGED <<dir, files, tainted, faults>>

(* Its tree is removed.  If that fails the others are not looked at.       *)
RemoveTree(n) ==
  /\ op[n].at = "tree"
  /\ \/ /\ trash' = trash \ {[node |-> n, b |-> Canon[Victim(n)], name |-> Victim(n)]}
        /\ op' = [op EXCEPT ![n].at = "copies", ![n].b = 1]
        /\ UNCHANGED <<place, tainted, faults>> /\ Noting({Hidden(Victim(n))})
     \/ /\ Fails("rmtree")
        /\ Unlinked(n) /\ tainted' = tainted \cup {Victim(n)} /\ UNCHANGED <<place, trash, lister>>
  /\ UNCHANGED <<dir, files, acked, spoiled>>

NextCopy(n) ==
  IF op[n].b = Backends THEN Unlinked(n) ELSE op' = [op EXCEPT ![n].b = @ + 1]

\* Mutant: the first backend is forgotten.
RemoveCopies_NotTheFirst(n) ==
  /\ op[n].at = "copies"
  /\ LET k == <<op[n].b, Victim(n)>> IN
     IF k[1] # Canon[k[2]] /\ k[1] # 1 /\ place[k].there
     THEN place' = [place EXCEPT ![k] = NoPlace] /\ Noting({<<"name", k[2]>>})
     ELSE UNCHANGED <<place, lister>>
  /\ NextCopy(n)
  /\ UNCHANGED <<dir, trash, history>>

(* And the shadow containers, one backend after the other; here a failure  *)
(* does not end the loop.                                                  *)
RemoveCopies(n) ==
  /\ op[n].at = "copies"
  /\ LET k == <<op[n].b, Victim(n)>>
         shadow == k[1] # Canon[k[2]] /\ place[k].there
     IN
     \/ /\ shadow
        /\ place' = [place EXCEPT ![k] = NoPlace] /\ Noting({<<"name", k[2]>>})
        /\ UNCHANGED <<tainted, faults>>
     \/ ~shadow /\ UNCHANGED <<place, lister, tainted, faults>>
     \/ shadow /\ Fails("rmtree") /\ tainted' = tainted \cup {k[2]} /\ UNCHANGED <<place, lister>>
  /\ NextCopy(n)
  /\ UNCHANGED <<dir, trash, files, acked, spoiled>>

(* plfs_rename: a container at the new name is unlinked, with no look at   *)
(* the result.                                                             *)
Rename(n, p, q) ==
  /\ Enters(n, "rename") /\ p # q /\ isContainer(p)
  /\ op' = [op EXCEPT ![n] = [Idle EXCEPT !.call = "rename", !.name = p, !.to = q,
                                          !.at = IF isContainer(q) THEN "canonical" ELSE "rename"]]
  /\ UNCHANGED <<state, lister, history>>

(* Only the canonical container is renamed; the links in it go on leading  *)
(* to the shadow containers of the old name.  Between file systems it      *)
(* fails.                                                                  *)
RenameCanonical(n) ==
  /\ op[n].at = "rename"
  /\ LET p == op[n].name
         q == op[n].to
         from == Canonical(p)
         to == Canonical(q)
     IN
     \/ /\ place[from].there /\ place[to] \in {NoPlace, Shadow} /\ Canon[q] \in dir
        /\ place' = [place EXCEPT ![from] = NoPlace, ![to] = place[from]]
        /\ tainted' = tainted \cup {p} /\ Arrived(place[from].id, q)
        /\ Noting({<<"name", p>>, <<"name", q>>}) /\ UNCHANGED faults
     \/ /\ \/ Fails("rename")
           \/ /\ ~place[from].there \/ place[to] \notin {NoPlace, Shadow} \/ Canon[q] \notin dir
              /\ UNCHANGED faults
        /\ UNCHANGED <<place, tainted, spoiled, lister>>
  /\ Return(n)
  /\ UNCHANGED <<dir, trash, files, acked>>

(* A node dies in the middle of a call.                                    *)
Crash(n) ==
  /\ Fails("crash") /\ Busy(n) /\ op[n].call # "list"
  /\ tainted' = IF op[n].at \in {"tree", "copies"} THEN tainted \cup {Victim(n)} ELSE tainted
  /\ Return(n)
  /\ UNCHANGED <<state, lister, files, acked, spoiled>>

-----------------------------------------------------------------------------
(* plfs_mkdir and plfs_rmdir: on every backend, whatever happened on the   *)
(* ones before.  A backend's directory is removed if it is empty.          *)
DirCall(n, call) ==
  /\ Enters(n, call)
  /\ op' = [op EXCEPT ![n] = [Idle EXCEPT !.call = call, !.at = "loop", !.b = 1]]
  /\ UNCHANGED <<state, lister, history>>

NextBackend(n) ==
  IF op[n].b = Backends THEN Return(n) ELSE op' = [op EXCEPT ![n].b = @ + 1]

plfs_mkdir(n) ==
  /\ op[n].call = "mkdir"
  /\ dir' = dir \cup {op[n].b}
  /\ NextBackend(n)
  /\ UNCHANGED <<place, trash, lister, history>>

plfs_rmdir(n) ==
  /\ op[n].call = "rmdir"
  /\ dir' = IF EntriesOn(op[n].b) = {} THEN dir \ {op[n].b} ELSE dir
  /\ NextBackend(n)
  /\ UNCHANGED <<place, trash, lister, history>>

-----------------------------------------------------------------------------
(* f_opendir reads the directory, and what it has read is not used;        *)
(* f_readdir, called for each bufferful, reads it all again.               *)
f_opendir(n) ==
  /\ lister.at = "idle" /\ Enters(n, "list")
  /\ op' = [op EXCEPT ![n] = [Idle EXCEPT !.call = "list", !.at = "list"]]
  /\ lister' = [NoLister EXCEPT !.at = "reading", !.seen = [p \in Name |-> 0],
                                !.due = {p \in Name : isContainer(p)}]
  /\ UNCHANGED <<state, history>>

(* plfs_readdir: the entries of one backend are added to the set.  The     *)
(* result is that of the last one.                                         *)
plfs_readdir ==
  /\ lister.at = "reading" /\ lister.b <= Backends
  /\ \/ /\ lister.b \in dir
        /\ lister' = [lister EXCEPT !.dents = @ \cup EntriesOn(lister.b), !.ret = 0, !.b = @ + 1]
        /\ UNCHANGED faults
     \/ /\ (lister.b \notin dir /\ UNCHANGED faults) \/ Fails("opendir")
        /\ lister' = [lister EXCEPT !.ret = -1, !.b = @ + 1,
                                    !.missed = @ \/ EntriesOn(lister.b) # {}]
  /\ UNCHANGED <<state, op, files, acked, tainted, spoiled>>

(* The first m entries of the set, whose order is that of the names.        *)
InFront(dents, e) == {x \in dents : Rank(x) < Rank(e)}
First(dents, m) == {e \in dents : Cardinality(InFront(dents, e)) < m}

\* Mutant: the entries are counted from one.
Bufferful_FromOne(dents, offset) ==
  First(dents, offset + 1 + BufferSize) \ First(dents, offset + 1)

(* The entries from the offset on, as many as fit.                         *)
Bufferful(dents, offset) == First(dents, offset + BufferSize) \ First(dents, offset)

(* The caller comes again, from where the last buffer ended, until there   *)
(* is nothing more, or an error.                                           *)
f_readdir ==
  /\ lister.at = "reading" /\ lister.b > Backends
  /\ LET es == Bufferful(lister.dents, lister.offset)
         times(p) == IF <<"name", p>> \in es THEN 1 ELSE 0
     IN  lister' =
           IF lister.ret # 0 THEN [lister EXCEPT !.at = "error"]
           ELSE IF es = {} THEN [lister EXCEPT !.at = "done", !.dents = {}]
           ELSE [lister EXCEPT !.seen = [p \in Name |-> IF p \in lister.due THEN @[p] + times(p) ELSE 0],
                               !.offset = @ + Cardinality(es), !.b = 1, !.dents = {}]
  /\ UNCHANGED <<state, op, history>>

f_releasedir(n) ==
  /\ op[n].call = "list" /\ lister.at \in {"done", "error"}
  /\ lister' = NoLister /\ Return(n)
  /\ UNCHANGED <<state, history>>

-----------------------------------------------------------------------------
NodeStep(n) ==
  \/ \E p \in Name : Create(n, p) \/ Open(n, p) \/ Unlink(n, p) \/ \E q \in Name : Rename(n, p, q)
  \/ TryOpen(n) \/ MakeShadow(n) \/ Link(n)
  \/ UnlinkCanonical(n) \/ RemoveTree(n) \/ RemoveCopies(n) \/ RenameCanonical(n)
  \/ DirCall(n, "mkdir") \/ DirCall(n, "rmdir") \/ plfs_mkdir(n) \/ plfs_rmdir(n)
  \/ Crash(n) \/ f_opendir(n) \/ f_releasedir(n)

Next == (\E n \in Nodes : NodeStep(n)) \/ plfs_readdir \/ f_readdir

Spec == Init /\ [][Next]_vars

-----------------------------------------------------------------------------
Dropping == Nat \X Nodes
IsPlace(c) ==
  /\ c = [id |-> c.id, there |-> c.there, dirs |-> c.dirs, links |-> c.links]
  /\ c.id \in Nat /\ c.there \in BOOLEAN
  /\ \E N \in SUBSET Nodes : c.dirs \in [N -> SUBSET Dropping]
  /\ \E N \in SUBSET Nodes : c.links \in [N -> Backend \X Name]
Entry == {"hidden", "name"} \X Name
Call == {"none", "open", "unlink", "rename", "mkdir", "rmdir", "list"}
Step == {"idle", "try", "shadow", "link", "canonical", "tree", "copies", "rename", "loop", "list"}
Op == [call : Call, at : Step, name : Name, to : Name, b : 0..Backends, attempts : 0..2]
Listing == [at : {"idle", "reading", "done", "error"}, b : 1..(Backends + 1), dents : SUBSET Entry,
            offset : Nat, ret : {0, -1}, seen : {<<>>} \cup [Name -> Nat],
            due : SUBSET Name, missed : BOOLEAN]

TypeOK ==
  /\ dir \subseteq Backend
  /\ place = [k \in Backend \X Name |-> place[k]] /\ \A k \in Backend \X Name : IsPlace(place[k])
  /\ trash \subseteq [node : Nodes, b : Backend, name : Name]
  /\ op \in [Nodes -> Op]
  /\ lister \in Listing /\ (lister.at # "idle" => lister.seen \in [Name -> Nat])
  /\ files \in 0..MaxFiles /\ acked \subseteq (1..files) \X Nodes
  /\ tainted \subseteq Name /\ spoiled \subseteq 0..files /\ faults \in 0..MaxFaults

(* The droppings that a reader of the file finds.                          *)
DroppingsOf(p) ==
  LET c == place[Canonical(p)] IN
  UNION {UNION {place[k].dirs[n] : k \in Resolved(n, p)} : n \in Hosts(c)}

(* A file has the droppings of its own writers, all of them and no others, *)
(* wherever they are: no node loses what it was told is open, and nothing  *)
(* of an earlier file comes back, however creators, writers, removers and  *)
(* renames on other nodes interleave.  Not if the file came to its name    *)
(* while an unlink of it was under way, or after one had failed, a file    *)
(* had been renamed from it, or an open had made a shadow container for a  *)
(* file already gone: shadow containers of an old file are then still      *)
(* there, and the new file gets or loses them.  Nor if the file was        *)
(* renamed away from its shadows, and one of these things happened at the  *)
(* old name, where they still are, or a file came to it: LinkedTo.         *)
FilesHaveTheirDroppings ==
  \A p \in Name :
    LET i == place[Canonical(p)].id IN
    i # 0 /\ i \notin spoiled => DroppingsOf(p) = {d \in acked : d[1] = i}

(* A file that is there from the opening of the directory to the end of    *)
(* the listing is listed once, although every bufferful reads all backends *)
(* again and counts from the front, unless something in front of it came   *)
(* or went meanwhile, or a directory could not be read.                    *)
ListingsAreComplete ==
  lister.at = "done" /\ ~lister.missed => \A p \in lister.due : lister.seen[p] = 1
=============================================================================
