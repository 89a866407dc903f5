-------------------------- MODULE NamespaceProofs ---------------------------
(***************************************************************************)
(* Every file keeps its own droppings and every listing is complete, for   *)
(* every set of nodes, names, backends, places of both on them, and every  *)
(* failure.                                                                *)
(***************************************************************************)
EXTENDS Namespace, FiniteSetTheorems, SequenceTheorems, TLAPS

Places == Backend \X Name

-----------------------------------------------------------------------------
(* What a call is in: its step, and what that step relies on.              *)
Fits(call, at) ==
  /\ call = "none" => at = "idle"
  /\ call = "open" => at \in {"try", "shadow", "link"}
  /\ call = "unlink" => at \in {"canonical", "tree", "copies"}
  /\ call = "rename" => at \in {"canonical", "tree", "copies", "rename"}
  /\ call \in {"mkdir", "rmdir"} => at = "loop"
  /\ call = "list" => at = "list"

OpOK(o) ==
  /\ o \in Op /\ Fits(o.call, o.at)
  /\ o.at \in {"copies", "loop"} => o.b # 0
  /\ o.at \in {"shadow", "link"} => o.attempts # 2
  /\ o.call = "rename" => o.name # o.to

OpsOK == \A n \in Nodes : OpOK(op[n])

(* The name that a call is removing the shadows of, and those that it has  *)
(* not looked at yet.                                                      *)
VictimOf(o) == IF o.call = "unlink" THEN o.name ELSE o.to
Removes(o, p) == o.at \in {"tree", "copies"} /\ p = VictimOf(o)
Reaches(o, b, p) == Removes(o, p) /\ (o.at = "copies" => o.b <= b)

Removing(n, p) == Removes(op[n], p)
WillRemove(n, b, p) == Reaches(op[n], b, p)

-----------------------------------------------------------------------------
(* A place: the droppings in the host directory of a node, and where the   *)
(* path of the host directory leads when the place is k.                   *)
DirsOf(c, n) == IF n \in DOMAIN c.dirs THEN c.dirs[n] ELSE {}
LeadsTo(c, k, n) == IF n \in DOMAIN c.links THEN c.links[n] ELSE k

cid(p) == place[Canonical(p)].id
There(k) == place[k].there
DirsAt(k, n) == DirsOf(place[k], n)
Where(p, n) == LeadsTo(place[Canonical(p)], Canonical(p), n)
Unspoiled(p) == cid(p) # 0 /\ cid(p) \notin spoiled

(* What is not there is empty; a file is at the canonical place; a host    *)
(* directory is one or a link.                                             *)
PlacesOK ==
  \A k \in Places : /\ ~place[k].there => place[k] = NoPlace
                    /\ k # Canonical(k[2]) => place[k].id = 0
                    /\ DOMAIN place[k].dirs \cap DOMAIN place[k].links = {}

(* A file is at one name.                                                  *)
IdsOK ==
  /\ \A p \in Name : cid(p) \in 0..files
  /\ \A p, q \in Name : p # q /\ cid(p) = cid(q) => cid(p) = 0

(* Of a name without a file and without a taint, whatever is left on other *)
(* backends is about to be removed.                                        *)
EmptyOK ==
  \A p \in Name, b \in Backend :
    cid(p) = 0 /\ p \notin tainted /\ b # Canon[p] /\ There(<<b, p>>) =>
      \E n \in Nodes : WillRemove(n, b, p)

(* A link to the shadow of another name: files were renamed from there, so *)
(* that no file can come there and stay as it is.                          *)
LinksOK ==
  \A p, q \in Name, n \in Nodes :
    p # q /\ Where(p, n)[2] = q => q \in tainted /\ ~Unspoiled(q)

(* A file that was renamed and is unspoiled has the shadows of its old     *)
(* name to itself: nothing is at that name, no call removes them, and no   *)
(* other file links to them.                                               *)
RenamedOK ==
  \A p, q \in Name, n \in Nodes :
    p # q /\ Where(p, n)[2] = q /\ Unspoiled(p) =>
      /\ ~There(Canonical(q))
      /\ \A m \in Nodes : ~Removing(m, q)
      /\ \A r \in Name, m \in Nodes : r # p /\ r # q => Where(r, m)[2] # q

(* Nor does a call remove those of its own name, and what is in them was   *)
(* written through its links.                                              *)
ShadowsOK ==
  \A p \in Name : Unspoiled(p) =>
    /\ \A m \in Nodes : ~Removing(m, p)
    /\ \A b \in Backend, n \in Nodes :
         b # Canon[p] /\ DirsAt(<<b, p>>, n) # {} => Where(p, n) = <<b, p>>

(* Where a node's host directory is, there are its droppings.              *)
DropsOK ==
  \A p \in Name, n \in Nodes :
    Unspoiled(p) => DirsAt(Where(p, n), n) = {<<cid(p), n>>} \cap acked

FilesInv == IdsOK /\ EmptyOK /\ LinksOK /\ RenamedOK /\ ShadowsOK /\ DropsOK

Inv == TypeOK /\ OpsOK /\ PlacesOK /\ FilesInv

-----------------------------------------------------------------------------
LEMMA Constants ==
  /\ Backends \in Nat \ {0} /\ \A p \in Name : Canon[p] \in Backend
  /\ \A n \in Nodes : Home[n] \in Backend
  /\ Names[1] \in Name
<1>1. Names \in Seq(Name) /\ Len(Names) # 0
  BY NamesAssumption, EmptySeq
<1>2. 1 \in 1..Len(Names)
  BY <1>1, LenProperties
<1> QED BY <1>1, <1>2, ElementOfSeq, HashAssumption

LEMMA CanonicalPlace ==
  /\ \A p \in Name : Canonical(p) \in Places /\ Canonical(p)[1] = Canon[p] /\ Canonical(p)[2] = p
  /\ \A p, q \in Name : Canonical(p) = Canonical(q) => p = q
  /\ \A b \in Backend, p, q \in Name : <<b, p>> = Canonical(q) <=> b = Canon[p] /\ p = q
  BY Constants DEF Canonical, Places

(* The places of a function with partial functions in it. *)
LEMMA PlaceFields ==
  ASSUME NEW c, IsPlace(c)
  PROVE  /\ c.id \in Nat /\ c.there \in BOOLEAN
         /\ DOMAIN c.dirs \subseteq Nodes /\ DOMAIN c.links \subseteq Nodes
         /\ \A n \in DOMAIN c.dirs : c.dirs[n] \subseteq Dropping
         /\ \A n \in DOMAIN c.links : c.links[n] \in Places
<1>1. PICK D \in SUBSET Nodes : c.dirs \in [D -> SUBSET Dropping]
  BY DEF IsPlace
<1>2. PICK L \in SUBSET Nodes : c.links \in [L -> Places]
  BY DEF IsPlace, Places
<1> QED BY <1>1, <1>2 DEF IsPlace

LEMMA PlaceType ==
  ASSUME NEW i \in Nat, NEW t \in BOOLEAN,
         NEW D \in SUBSET Nodes, NEW ds \in [D -> SUBSET Dropping],
         NEW L \in SUBSET Nodes, NEW ls \in [L -> Places]
  PROVE  IsPlace([id |-> i, there |-> t, dirs |-> ds, links |-> ls])
  BY DEF IsPlace, Places

LEMMA EmptyPlaces ==
  /\ IsPlace(NoPlace) /\ NoPlace.id = 0 /\ NoPlace.there = FALSE
  /\ DOMAIN NoPlace.dirs = {} /\ DOMAIN NoPlace.links = {}
  /\ IsPlace(Shadow) /\ Shadow.id = 0 /\ Shadow.there = TRUE
  /\ DOMAIN Shadow.dirs = {} /\ DOMAIN Shadow.links = {}
  /\ Shadow = [id |-> 0, there |-> TRUE, dirs |-> <<>>, links |-> <<>>]
<1>1. <<>> \in [{} -> SUBSET Dropping] /\ <<>> \in [{} -> Places]
  OBVIOUS
<1>2. NoPlace = [id |-> 0, there |-> FALSE, dirs |-> <<>>, links |-> <<>>]
  BY DEF NoPlace
<1>3. Shadow = [id |-> 0, there |-> TRUE, dirs |-> <<>>, links |-> <<>>]
  <2>1. Shadow = [NoPlace EXCEPT !.there = TRUE]
    BY DEF Shadow
  <2>2. PICK e : e = <<>>
    OBVIOUS
  <2>3. NoPlace = [id |-> 0, there |-> FALSE, dirs |-> e, links |-> e]
    BY <1>2, <2>2
  <2>4. Shadow = [id |-> 0, there |-> TRUE, dirs |-> e, links |-> e]
    BY <2>1, <2>3
  <2> QED BY <2>2, <2>4
<1>4. {} \in SUBSET Nodes /\ 0 \in Nat /\ TRUE \in BOOLEAN /\ FALSE \in BOOLEAN
  OBVIOUS
<1>5. IsPlace(NoPlace)
  BY <1>1, <1>2, <1>4, PlaceType
<1>6. IsPlace(Shadow)
  BY <1>1, <1>3, <1>4, PlaceType
<1> QED BY <1>1, <1>2, <1>3, <1>5, <1>6

LEMMA HostAdded ==
  ASSUME NEW c, IsPlace(c), NEW n \in Nodes, NEW d, d = WithHost(c, n)
  PROVE  /\ IsPlace(d) /\ d.id = c.id /\ d.there = c.there /\ d.links = c.links
         /\ \A m \in Nodes : DirsOf(d, m) = DirsOf(c, m)
         /\ DOMAIN c.dirs \cap DOMAIN c.links = {} => DOMAIN d.dirs \cap DOMAIN d.links = {}
<1>1. CASE n \in Hosts(c)
  BY <1>1 DEF WithHost
<1>2. CASE n \notin Hosts(c)
  <2>1. PICK D \in SUBSET Nodes : c.dirs \in [D -> SUBSET Dropping]
    BY DEF IsPlace
  <2>2. PICK L \in SUBSET Nodes : c.links \in [L -> Places]
    BY DEF IsPlace, Places
  <2>3. PICK e : e = And(c.dirs, n, {})
    OBVIOUS
  <2>4. /\ e \in [D \cup {n} -> SUBSET Dropping] /\ D \cup {n} \in SUBSET Nodes
        /\ e[n] = {} /\ \A m \in D : m # n => e[m] = c.dirs[m]
    BY <2>1, <2>3 DEF And
  <2>5. d = [id |-> c.id, there |-> c.there, dirs |-> e, links |-> c.links]
    BY <1>2, <2>3 DEF WithHost, IsPlace
  <2>6. IsPlace(d)
    <3>1. c.id \in Nat /\ c.there \in BOOLEAN
      BY PlaceFields
    <3> QED BY <2>2, <2>4, <2>5, <3>1, PlaceType
  <2>7. n \notin D /\ n \notin L /\ DOMAIN d.dirs = D \cup {n} /\ DOMAIN c.dirs = D
    BY <1>2, <2>1, <2>2, <2>4, <2>5 DEF Hosts
  <2>8. \A m \in Nodes : DirsOf(d, m) = DirsOf(c, m)
    BY <2>1, <2>4, <2>5, <2>7 DEF DirsOf
  <2>9. DOMAIN c.dirs \cap DOMAIN c.links = {} => DOMAIN d.dirs \cap DOMAIN d.links = {}
    BY <2>2, <2>5, <2>7
  <2> QED BY <2>5, <2>6, <2>8, <2>9
<1> QED BY <1>1, <1>2

-----------------------------------------------------------------------------
(* What the invariants are made of.                                        *)
LEMMA PlaceFacts ==
  ASSUME TypeOK
  PROVE  /\ \A k \in Places : IsPlace(place[k]) /\ There(k) \in BOOLEAN
         /\ \A k \in Places, n \in Nodes : DirsAt(k, n) \subseteq Dropping
         /\ \A p \in Name : cid(p) \in Nat
         /\ \A p \in Name, n \in Nodes : Where(p, n) \in Places
<1>1. \A k \in Places : IsPlace(place[k])
  BY DEF TypeOK, Places
<1>2. \A k \in Places, n \in Nodes : DirsAt(k, n) \subseteq Dropping
  BY <1>1, PlaceFields DEF DirsAt, DirsOf
<1>3. \A p \in Name, n \in Nodes : Where(p, n) \in Places
  BY <1>1, PlaceFields, CanonicalPlace DEF Where, LeadsTo
<1> QED BY <1>1, <1>2, <1>3, PlaceFields, CanonicalPlace DEF There, cid

LEMMA NothingThere ==
  ASSUME PlacesOK
  PROVE  /\ \A k \in Places, n \in Nodes : ~There(k) => DirsAt(k, n) = {}
         /\ \A p \in Name : ~There(Canonical(p)) =>
              cid(p) = 0 /\ \A n \in Nodes : Where(p, n) = Canonical(p)
<1>1. \A k \in Places : ~There(k) => place[k] = NoPlace
  BY DEF PlacesOK, There
<1> QED BY <1>1, EmptyPlaces, CanonicalPlace DEF DirsAt, DirsOf, cid, Where, LeadsTo

LEMMA LinkedIs ==
  ASSUME TypeOK, NEW p \in Name, NEW q \in Name, p # q, NEW n \in Nodes, Where(p, n)[2] = q
  PROVE  cid(p) \in LinkedTo(q)
<1>1. PICK k \in Places : k = Canonical(p) /\ k[2] = p
  <2>1. Canonical(p) \in Places
    BY CanonicalPlace
  <2>2. Canonical(p)[2] = p
    BY DEF Canonical
  <2> QED BY <2>1, <2>2
<1>2. n \in DOMAIN place[k].links /\ place[k].links[n][2] = q
  BY <1>1 DEF Where, LeadsTo
<1>3. k \in DOMAIN place
  BY DEF TypeOK, Places
<1> QED BY <1>1, <1>2, <1>3 DEF LinkedTo, cid

LEMMA UnsafeIs ==
  ASSUME NEW p, ~Unsafe(p)
  PROVE  /\ p \notin tainted /\ \A m \in Nodes : ~Removing(m, p)
         /\ \A m \in Nodes, b \in Backend : ~WillRemove(m, b, p)
  BY DEF Unsafe, Unlinking, Removing, WillRemove, Reaches, Removes, VictimOf

-----------------------------------------------------------------------------
(* The files, step by step.  First a step that leaves every file where it  *)
(* is, with its links and its droppings.                                   *)
LEMMA FilesSame ==
  ASSUME FilesInv,
         \A p \in Name : cid(p)' = cid(p),
         \A p \in Name, n \in Nodes : Where(p, n)' = Where(p, n),
         \A k \in Places, n \in Nodes : DirsAt(k, n)' = DirsAt(k, n),
         \A p \in Name, n \in Nodes : Where(p, n) \in Places,
         files' = files, acked' = acked, tainted \subseteq tainted', spoiled \subseteq spoiled',
         \A m \in Nodes, p \in Name : Removing(m, p)' => Removing(m, p),
         \A p \in Name, b \in Backend :
           cid(p) = 0 /\ p \notin tainted' /\ b # Canon[p] /\ There(<<b, p>>)' =>
             /\ There(<<b, p>>)
             /\ \A m \in Nodes : WillRemove(m, b, p) => WillRemove(m, b, p)',
         \A q \in Name : There(Canonical(q))' =>
           \/ There(Canonical(q))
           \/ \A p \in Name, n \in Nodes : p # q /\ Where(p, n)[2] = q => ~(Unspoiled(p)')
  PROVE  FilesInv'
<1>0. \A p \in Name : Unspoiled(p)' => Unspoiled(p)
  BY DEF Unspoiled
<1>1. IdsOK'
  BY DEF FilesInv, IdsOK
<1>2. EmptyOK'
  <2> SUFFICES ASSUME NEW p \in Name, NEW b \in Backend,
                      cid(p)' = 0, p \notin tainted', b # Canon[p], There(<<b, p>>)'
               PROVE  \E n \in Nodes : WillRemove(n, b, p)'
    BY DEF EmptyOK
  <2>1. cid(p) = 0 /\ p \notin tainted /\ There(<<b, p>>)
    OBVIOUS
  <2>2. PICK n \in Nodes : WillRemove(n, b, p)
    BY <2>1 DEF FilesInv, EmptyOK
  <2> QED BY <2>1, <2>2
<1>3. LinksOK'
  BY <1>0 DEF FilesInv, LinksOK
<1>4. RenamedOK'
  BY <1>0 DEF FilesInv, RenamedOK
<1>5. ShadowsOK'
  <2>1. \A b \in Backend, p \in Name : <<b, p>> \in Places
    BY DEF Places
  <2> QED BY <1>0, <2>1 DEF FilesInv, ShadowsOK
<1>6. DropsOK'
  BY <1>0 DEF FilesInv, DropsOK
<1> QED BY <1>1, <1>2, <1>3, <1>4, <1>5, <1>6 DEF FilesInv

(* A new file at p.                                                        *)
LEMMA FilesCreated ==
  ASSUME TypeOK, PlacesOK, FilesInv, NEW p \in Name,
         cid(p) = 0, cid(p)' = files + 1, \A q \in Name : q # p => cid(q)' = cid(q),
         \A n \in Nodes : Where(p, n) = Canonical(p) /\ DirsAt(Canonical(p), n) = {},
         \A q \in Name, n \in Nodes : Where(q, n)' = Where(q, n),
         \A k \in Places, n \in Nodes : DirsAt(k, n)' = DirsAt(k, n),
         \A k \in Places : k # Canonical(p) => There(k)' = There(k),
         files' = files + 1, acked' = acked, tainted' = tainted, Arrived(files + 1, p),
         \A m \in Nodes, q \in Name : Removing(m, q)' = Removing(m, q),
         \A m \in Nodes, b \in Backend, q \in Name : WillRemove(m, b, q)' = WillRemove(m, b, q)
  PROVE  FilesInv'
<1> USE DEF FilesInv
<1>0. /\ spoiled \subseteq spoiled' /\ \A q \in Name : q # p /\ Unspoiled(q)' => Unspoiled(q)
      /\ Unsafe(p) => files + 1 \in spoiled' /\ LinkedTo(p) \subseteq spoiled'
  BY DEF Unspoiled, Arrived
<1>a. \A q \in Name, n \in Nodes : Where(q, n) \in Places
  BY PlaceFacts
<1>b. \A b \in Backend, q \in Name : <<b, q>> \in Places
  BY DEF Places
<1>c. files \in Nat
  BY DEF TypeOK
<1>1. IdsOK'
  BY <1>c DEF IdsOK
<1>2. EmptyOK'
  <2> SUFFICES ASSUME NEW q \in Name, NEW b \in Backend,
                      cid(q)' = 0, q \notin tainted', b # Canon[q], There(<<b, q>>)'
               PROVE  \E n \in Nodes : WillRemove(n, b, q)'
    BY DEF EmptyOK
  <2>1. q # p /\ <<b, q>> # Canonical(p)
    BY <1>c, CanonicalPlace
  <2>2. cid(q) = 0 /\ There(<<b, q>>)
    BY <1>b, <2>1
  <2> QED BY <2>2 DEF EmptyOK
<1>3. LinksOK'
  <2>1. p \in tainted => ~(Unspoiled(p)')
    BY <1>0 DEF Unspoiled, Unsafe
  <2> QED BY <1>0, <2>1 DEF LinksOK
<1>4. RenamedOK'
  <2> SUFFICES ASSUME NEW q \in Name, NEW r \in Name, NEW n \in Nodes,
                      q # r, Where(q, n)[2] = r, Unspoiled(q)'
               PROVE  /\ ~(There(Canonical(r))')
                      /\ \A m \in Nodes : ~(Removing(m, r)')
                      /\ \A x \in Name, m \in Nodes : x # q /\ x # r => (Where(x, m)')[2] # r
    BY DEF RenamedOK
  <2>1. q # p
    BY DEF Canonical
  <2>2. Unspoiled(q)
    BY <1>0, <2>1
  <2>3. r # p
    <3> SUFFICES ASSUME r = p PROVE FALSE
      OBVIOUS
    <3>1. p \in tainted
      BY DEF LinksOK
    <3>2. cid(q) \in spoiled'
      BY <1>0, <3>1, LinkedIs DEF Unsafe
    <3> QED BY <2>1, <3>2 DEF Unspoiled
  <2>4. Canonical(r) # Canonical(p) /\ Canonical(r) \in Places
    BY <2>3, CanonicalPlace
  <2> QED BY <2>2, <2>4 DEF RenamedOK
<1>5. ShadowsOK'
  <2> SUFFICES ASSUME NEW q \in Name, Unspoiled(q)'
               PROVE  /\ \A m \in Nodes : ~(Removing(m, q)')
                      /\ \A b \in Backend, n \in Nodes :
                           b # Canon[q] /\ DirsAt(<<b, q>>, n)' # {} => Where(q, n)' = <<b, q>>
    BY DEF ShadowsOK
  <2>1. CASE q # p
    BY <1>0, <1>b, <2>1 DEF ShadowsOK
  <2>2. CASE q = p
    <3>1. ~Unsafe(p)
      BY <1>0, <2>2 DEF Unspoiled
    <3>2. \A b \in Backend : b # Canon[p] => ~There(<<b, p>>)
      BY <3>1, UnsafeIs DEF EmptyOK
    <3>3. \A m \in Nodes : ~(Removing(m, p)')
      BY <3>1, UnsafeIs
    <3>4. \A b \in Backend, n \in Nodes : b # Canon[p] => DirsAt(<<b, p>>, n)' = {}
      BY <1>b, <3>2, NothingThere
    <3> QED BY <2>2, <3>3, <3>4
  <2> QED BY <2>1, <2>2
<1>6. DropsOK'
  <2> SUFFICES ASSUME NEW q \in Name, NEW n \in Nodes, Unspoiled(q)'
               PROVE  (DirsAt(Where(q, n), n))' = {<<cid(q)', n>>} \cap acked
    BY DEF DropsOK
  <2>1. (DirsAt(Where(q, n), n))' = DirsAt(Where(q, n), n)
    BY <1>a
  <2>2. CASE q # p
    BY <1>0, <2>1, <2>2 DEF DropsOK
  <2>3. CASE q = p
    <3>1. acked \subseteq (1..files) \X Nodes
      BY DEF TypeOK
    <3>2. <<files + 1, n>> \notin acked
      BY <1>c, <3>1
    <3> QED BY <2>1, <2>3, <3>2
  <2> QED BY <2>2, <2>3
<1> QED BY <1>1, <1>2, <1>3, <1>4, <1>5, <1>6

(* Node n opens its droppings of the file at p.                            *)
LEMMA FilesWritten ==
  ASSUME TypeOK, PlacesOK, FilesInv, NEW p \in Name, NEW n \in Nodes, NEW k \in Places,
         k = Where(p, n), There(k),
         DirsAt(k, n)' = DirsAt(k, n) \cup {<<cid(p), n>>},
         \A l \in Places, m \in Nodes : l # k \/ m # n => DirsAt(l, m)' = DirsAt(l, m),
         acked' = acked \cup {<<j, n>> : j \in {cid(p)} \ {0}},
         \A q \in Name : cid(q)' = cid(q),
         \A q \in Name, m \in Nodes : Where(q, m)' = Where(q, m),
         \A l \in Places : There(l)' = There(l),
         files' = files, tainted' = tainted, spoiled' = spoiled,
         \A m \in Nodes, q \in Name : Removing(m, q)' = Removing(m, q),
         \A m \in Nodes, b \in Backend, q \in Name : WillRemove(m, b, q)' = WillRemove(m, b, q)
  PROVE  FilesInv'
<1> USE DEF FilesInv
<1>0. \A q \in Name : Unspoiled(q)' = Unspoiled(q)
  BY DEF Unspoiled
<1>a. \A q \in Name, m \in Nodes : Where(q, m) \in Places
  BY PlaceFacts
<1>b. \A b \in Backend, q \in Name : <<b, q>> \in Places
  BY DEF Places
<1>1. IdsOK'
  BY DEF IdsOK
<1>2. EmptyOK'
  BY <1>b DEF EmptyOK
<1>3. LinksOK'
  BY <1>0 DEF LinksOK
<1>4. RenamedOK'
  BY <1>0, CanonicalPlace DEF RenamedOK
<1>5. ShadowsOK'
  <2> SUFFICES ASSUME NEW q \in Name, Unspoiled(q), NEW b \in Backend, NEW m \in Nodes,
                      b # Canon[q], DirsAt(<<b, q>>, m)' # {}
               PROVE  Where(q, m) = <<b, q>>
    BY <1>0 DEF ShadowsOK
  <2>1. CASE <<b, q>> = k /\ m = n
    <3>1. Where(p, n)[2] = q
      BY <2>1
    <3> QED BY <2>1, <3>1 DEF LinksOK
  <2>2. CASE ~(<<b, q>> = k /\ m = n)
    BY <1>b, <2>2 DEF ShadowsOK
  <2> QED BY <2>1, <2>2
<1>6. DropsOK'
  <2> SUFFICES ASSUME NEW q \in Name, NEW m \in Nodes, Unspoiled(q)
               PROVE  (DirsAt(Where(q, m), m))' = {<<cid(q), m>>} \cap acked'
    BY <1>0 DEF DropsOK
  <2>1. (DirsAt(Where(q, m), m))' = DirsAt(Where(q, m), m)' /\ DirsAt(Where(q, m), m) = {<<cid(q), m>>} \cap acked
    BY <1>a DEF DropsOK
  <2>2. CASE q = p /\ m = n
    <3>1. cid(q) # 0
      BY DEF Unspoiled
    <3>2. acked' = acked \cup {<<cid(p), n>>}
      BY <2>2, <3>1
    <3> QED BY <2>1, <2>2, <3>2
  <2>3. CASE q = p /\ m # n
    <3>1. DirsAt(Where(q, m), m)' = DirsAt(Where(q, m), m)
      BY <1>a, <2>3
    <3> QED BY <2>1, <2>3, <3>1
  <2>4. CASE q # p
    <3>1. cid(q) # cid(p)
      BY <2>4 DEF Unspoiled, IdsOK
    <3>2. Where(q, m) # k \/ m # n
      <4> SUFFICES ASSUME Where(q, m) = k, m = n PROVE FALSE
        OBVIOUS
      <4>1. k[2] \in Name
        BY DEF Places
      <4>2. CASE k[2] = q
        BY <2>4, <4>2 DEF LinksOK
      <4>3. CASE k[2] # q /\ k[2] # p
        BY <2>4, <4>1, <4>3 DEF RenamedOK
      <4>4. CASE k[2] = p
        <5>1. ~There(Canonical(p))
          BY <2>4, <4>4 DEF RenamedOK
        <5>2. k = Canonical(p)
          BY <5>1, NothingThere
        <5> QED BY <5>1, <5>2
      <4> QED BY <4>2, <4>3, <4>4
    <3>3. DirsAt(Where(q, m), m)' = DirsAt(Where(q, m), m)
      BY <1>a, <3>2
    <3> QED BY <2>1, <3>1, <3>3
  <2> QED BY <2>2, <2>3, <2>4
<1> QED BY <1>1, <1>2, <1>3, <1>4, <1>5, <1>6

(* Node n gets a link to the place of p on its own backend.                *)
LEMMA FilesLinked ==
  ASSUME TypeOK, FilesInv, NEW p \in Name, NEW n \in Nodes,
         Where(p, n) = Canonical(p), DirsAt(Canonical(p), n) = {},
         Where(p, n)' = <<Home[n], p>>,
         \A q \in Name, m \in Nodes : q # p \/ m # n => Where(q, m)' = Where(q, m),
         \A q \in Name : cid(q)' = cid(q),
         \A l \in Places, m \in Nodes : DirsAt(l, m)' = DirsAt(l, m),
         \A l \in Places : There(l)' = There(l),
         files' = files, acked' = acked, tainted' = tainted, spoiled' = spoiled,
         \A m \in Nodes, q \in Name : Removing(m, q)' = Removing(m, q),
         \A m \in Nodes, b \in Backend, q \in Name : WillRemove(m, b, q)' = WillRemove(m, b, q)
  PROVE  FilesInv'
<1> USE DEF FilesInv
<1>0. \A q \in Name : Unspoiled(q)' = Unspoiled(q)
  BY DEF Unspoiled
<1>a. \A q \in Name, m \in Nodes : Where(q, m) \in Places
  BY PlaceFacts
<1>b. \A b \in Backend, q \in Name : <<b, q>> \in Places
  BY DEF Places
<1>c. Canonical(p)[2] = p /\ Home[n] \in Backend
  BY Constants DEF Canonical
<1>d. \A q \in Name, m \in Nodes : (Where(q, m)')[2] = Where(q, m)[2]
  BY <1>c
<1>1. IdsOK'
  BY DEF IdsOK
<1>2. EmptyOK'
  BY <1>b DEF EmptyOK
<1>3. LinksOK'
  BY <1>0, <1>d DEF LinksOK
<1>4. RenamedOK'
  BY <1>0, <1>d, CanonicalPlace DEF RenamedOK
<1>e. Unspoiled(p) => \A b \in Backend : b # Canon[p] => DirsAt(<<b, p>>, n) = {}
  BY DEF ShadowsOK, Canonical
<1>5. ShadowsOK'
  <2> SUFFICES ASSUME NEW q \in Name, Unspoiled(q), NEW b \in Backend, NEW m \in Nodes,
                      b # Canon[q], DirsAt(<<b, q>>, m) # {}
               PROVE  Where(q, m)' = <<b, q>>
    BY <1>0, <1>b DEF ShadowsOK
  <2>1. q # p \/ m # n
    BY <1>e
  <2> QED BY <2>1 DEF ShadowsOK
<1>6. DropsOK'
  <2> SUFFICES ASSUME NEW q \in Name, NEW m \in Nodes, Unspoiled(q)
               PROVE  (DirsAt(Where(q, m), m))' = {<<cid(q), m>>} \cap acked
    BY <1>0 DEF DropsOK
  <2>1. DirsAt(Where(q, m), m) = {<<cid(q), m>>} \cap acked
    BY DEF DropsOK
  <2>2. CASE q = p /\ m = n
    <3>1. DirsAt(<<Home[n], p>>, n) = {}
      BY <1>c, <1>e, <2>2 DEF Canonical
    <3>2. (DirsAt(Where(p, n), n))' = DirsAt(<<Home[n], p>>, n)'
      BY DEF DirsAt
    <3> QED BY <1>b, <1>c, <2>1, <2>2, <3>1, <3>2
  <2>3. CASE q # p \/ m # n
    <3>1. (DirsAt(Where(q, m), m))' = DirsAt(Where(q, m), m)'
      BY <2>3 DEF DirsAt
    <3> QED BY <1>a, <2>1, <2>3, <3>1
  <2> QED BY <2>2, <2>3
<1> QED BY <1>1, <1>2, <1>3, <1>4, <1>5, <1>6

(* The canonical container of p is taken away; its shadows will be.        *)
LEMMA FilesUnlinked ==
  ASSUME TypeOK, PlacesOK, FilesInv, NEW p \in Name, NEW n \in Nodes,
         There(Canonical(p)), cid(p)' = 0, ~(There(Canonical(p))'),
         \A m \in Nodes : Where(p, m)' = Canonical(p) /\ DirsAt(Canonical(p), m)' = {},
         \A q \in Name : q # p => cid(q)' = cid(q),
         \A q \in Name, m \in Nodes : q # p => Where(q, m)' = Where(q, m),
         \A l \in Places, m \in Nodes : l # Canonical(p) => DirsAt(l, m)' = DirsAt(l, m),
         \A l \in Places : l # Canonical(p) => There(l)' = There(l),
         acked' = {d \in acked : d[1] # cid(p)}, spoiled' = spoiled \ {cid(p)},
         files' = files, tainted' = tainted,
         \A m \in Nodes, q \in Name : Removing(m, q)' => Removing(m, q) \/ q = p,
         \A m \in Nodes, b \in Backend, q \in Name : WillRemove(m, b, q) => WillRemove(m, b, q)',
         \A b \in Backend : WillRemove(n, b, p)'
  PROVE  FilesInv'
<1> USE DEF FilesInv
<1>0. \A q \in Name : Unspoiled(q)' => q # p /\ Unspoiled(q) /\ cid(q) # cid(p)
  BY DEF Unspoiled, IdsOK
<1>z. \A q \in Name : ~Unspoiled(q) => ~(Unspoiled(q)')
  BY <1>0
<1>a. \A q \in Name, m \in Nodes : Where(q, m) \in Places
  BY PlaceFacts
<1>b. \A b \in Backend, q \in Name : <<b, q>> \in Places
  BY DEF Places
<1>c. Canonical(p)[2] = p
  BY DEF Canonical
<1>1. IdsOK'
  <2>1. files \in Nat
    BY DEF TypeOK
  <2> QED BY <2>1 DEF IdsOK
<1>2. EmptyOK'
  <2> SUFFICES ASSUME NEW q \in Name, NEW b \in Backend,
                      cid(q)' = 0, q \notin tainted', b # Canon[q], There(<<b, q>>)'
               PROVE  \E m \in Nodes : WillRemove(m, b, q)'
    BY DEF EmptyOK
  <2>1. CASE q = p
    BY <2>1
  <2>2. CASE q # p
    <3>1. cid(q) = 0 /\ There(<<b, q>>)
      BY <1>b, <2>2, CanonicalPlace
    <3> QED BY <3>1 DEF EmptyOK
  <2> QED BY <2>1, <2>2
<1>3. LinksOK'
  <2> SUFFICES ASSUME NEW x \in Name, NEW q \in Name, NEW m \in Nodes, x # q, (Where(x, m)')[2] = q
               PROVE  q \in tainted' /\ ~(Unspoiled(q)')
    BY DEF LinksOK
  <2>1. x # p
    BY <1>c
  <2> QED BY <1>z, <2>1 DEF LinksOK
<1>4. RenamedOK'
  <2> SUFFICES ASSUME NEW x \in Name, NEW q \in Name, NEW m \in Nodes,
                      x # q, (Where(x, m)')[2] = q, Unspoiled(x)'
               PROVE  /\ ~(There(Canonical(q))')
                      /\ \A i \in Nodes : ~(Removing(i, q)')
                      /\ \A r \in Name, i \in Nodes : r # x /\ r # q => (Where(r, i)')[2] # q
    BY DEF RenamedOK
  <2>1. x # p /\ Unspoiled(x) /\ Where(x, m)[2] = q
    BY <1>0
  <2>2. /\ ~There(Canonical(q)) /\ \A i \in Nodes : ~Removing(i, q)
        /\ \A r \in Name, i \in Nodes : r # x /\ r # q => Where(r, i)[2] # q
    BY <2>1 DEF RenamedOK
  <2>3. q # p /\ Canonical(q) # Canonical(p) /\ Canonical(q) \in Places
    BY <2>2, CanonicalPlace
  <2> QED BY <1>c, <2>2, <2>3
<1>5. ShadowsOK'
  <2>1. \A q \in Name, b \in Backend : q # p => <<b, q>> # Canonical(p)
    BY CanonicalPlace
  <2> QED BY <1>0, <1>b, <2>1 DEF ShadowsOK
<1>6. DropsOK'
  <2> SUFFICES ASSUME NEW q \in Name, NEW m \in Nodes, Unspoiled(q)'
               PROVE  (DirsAt(Where(q, m), m))' = {<<cid(q)', m>>} \cap acked'
    BY DEF DropsOK
  <2>1. q # p /\ Unspoiled(q) /\ cid(q) # cid(p) /\ cid(q)' = cid(q)
    BY <1>0
  <2>2. Where(q, m) # Canonical(p)
    BY <1>c, <2>1 DEF RenamedOK
  <2>3. PICK l \in Places : l = Where(q, m) /\ l = Where(q, m)'
    BY <1>a, <2>1
  <2>4. (DirsAt(Where(q, m), m))' = DirsAt(l, m)' /\ DirsAt(l, m)' = DirsAt(l, m)
    BY <2>2, <2>3 DEF DirsAt
  <2>5. {<<cid(q), m>>} \cap acked' = {<<cid(q), m>>} \cap acked
    BY <2>1
  <2> QED BY <2>1, <2>3, <2>4, <2>5 DEF DropsOK
<1> QED BY <1>1, <1>2, <1>3, <1>4, <1>5, <1>6

(* A call that removes the shadows of p removes one.                       *)
LEMMA FilesRemoved ==
  ASSUME TypeOK, PlacesOK, FilesInv, NEW p \in Name, NEW n \in Nodes, NEW k \in Places,
         k[2] = p, k # Canonical(p), Removing(n, p),
         ~(There(k)'), \A m \in Nodes : DirsAt(k, m)' = {},
         \A q \in Name : cid(q)' = cid(q),
         \A q \in Name, m \in Nodes : Where(q, m)' = Where(q, m),
         \A l \in Places, m \in Nodes : l # k => DirsAt(l, m)' = DirsAt(l, m),
         \A l \in Places : l # k => There(l)' = There(l),
         files' = files, acked' = acked, tainted' = tainted, spoiled' = spoiled,
         \A m \in Nodes, q \in Name : Removing(m, q)' => Removing(m, q),
         \A m \in Nodes, b \in Backend, q \in Name :
           WillRemove(m, b, q) /\ <<b, q>> # k => WillRemove(m, b, q)'
  PROVE  FilesInv'
<1> USE DEF FilesInv
<1>0. \A q \in Name : Unspoiled(q)' = Unspoiled(q)
  BY DEF Unspoiled
<1>a. \A q \in Name, m \in Nodes : Where(q, m) \in Places
  BY PlaceFacts
<1>b. \A b \in Backend, q \in Name : <<b, q>> \in Places
  BY DEF Places
<1>1. IdsOK'
  BY DEF IdsOK
<1>2. EmptyOK'
  <2> SUFFICES ASSUME NEW q \in Name, NEW b \in Backend,
                      cid(q)' = 0, q \notin tainted', b # Canon[q], There(<<b, q>>)'
               PROVE  \E m \in Nodes : WillRemove(m, b, q)'
    BY DEF EmptyOK
  <2>1. <<b, q>> # k
    BY <1>b
  <2>2. cid(q) = 0 /\ There(<<b, q>>)
    BY <1>b, <2>1
  <2> QED BY <2>1, <2>2 DEF EmptyOK
<1>3. LinksOK'
  BY <1>0 DEF LinksOK
<1>4. RenamedOK'
  <2>1. \A q \in Name : There(Canonical(q))' => There(Canonical(q))
    BY CanonicalPlace
  <2> QED BY <1>0, <2>1 DEF RenamedOK
<1>5. ShadowsOK'
  <2>1. \A l \in Places, m \in Nodes : DirsAt(l, m)' # {} => DirsAt(l, m) # {}
    OBVIOUS
  <2> QED BY <1>0, <1>b, <2>1 DEF ShadowsOK
<1>6. DropsOK'
  <2> SUFFICES ASSUME NEW q \in Name, NEW m \in Nodes, Unspoiled(q)
               PROVE  (DirsAt(Where(q, m), m))' = {<<cid(q), m>>} \cap acked
    BY <1>0 DEF DropsOK
  <2>1. Where(q, m) # k
    <3>1. p = q => ~Removing(n, p)
      BY DEF ShadowsOK
    <3> QED BY <3>1 DEF RenamedOK
  <2>2. (DirsAt(Where(q, m), m))' = DirsAt(Where(q, m), m)'
    BY DEF DirsAt
  <2> QED BY <1>a, <2>1, <2>2 DEF DropsOK
<1> QED BY <1>1, <1>2, <1>3, <1>4, <1>5, <1>6

(* The canonical container of p becomes that of q, with its links.         *)
LEMMA FilesRenamed ==
  ASSUME TypeOK, PlacesOK, FilesInv, NEW p \in Name, NEW q \in Name, p # q,
         There(Canonical(p)), ~(There(Canonical(p))'),
         cid(q) = 0, cid(q)' = cid(p), cid(p)' = 0,
         \A m \in Nodes : /\ Where(p, m)' = Canonical(p) /\ DirsAt(Canonical(p), m)' = {}
                          /\ DirsAt(Canonical(q), m)' = DirsAt(Canonical(p), m)
                          /\ \/ Where(q, m)' = Where(p, m)
                             \/ Where(p, m) = Canonical(p) /\ Where(q, m)' = Canonical(q)
                          /\ Where(q, m)' = Canonical(p) => DirsAt(Canonical(p), m) = {},
         \A x \in Name : x # p /\ x # q => cid(x)' = cid(x),
         \A x \in Name, m \in Nodes : x # p /\ x # q => Where(x, m)' = Where(x, m),
         \A l \in Places, m \in Nodes :
           l # Canonical(p) /\ l # Canonical(q) => DirsAt(l, m)' = DirsAt(l, m),
         \A l \in Places : l # Canonical(p) /\ l # Canonical(q) => There(l)' = There(l),
         files' = files, acked' = acked, tainted' = tainted \cup {p}, Arrived(cid(p), q),
         \A m \in Nodes, x \in Name : Removing(m, x)' = Removing(m, x),
         \A m \in Nodes, b \in Backend, x \in Name : WillRemove(m, b, x)' = WillRemove(m, b, x)
  PROVE  FilesInv'
<1> USE DEF FilesInv
<1>0. /\ spoiled \subseteq spoiled'
      /\ Unsafe(q) => cid(p) \in spoiled' /\ LinkedTo(q) \subseteq spoiled'
  BY DEF Arrived
<1>a. \A x \in Name, m \in Nodes : Where(x, m) \in Places
  BY PlaceFacts
<1>b. \A b \in Backend, x \in Name : <<b, x>> \in Places
  BY DEF Places
<1>c. Canonical(p)[2] = p /\ Canonical(q)[2] = q /\ Canonical(p) # Canonical(q)
  BY DEF Canonical
<1>d. \A x \in Name : Unspoiled(x)' => /\ x # p
                                       /\ x # q => Unspoiled(x)
                                       /\ x = q => Unspoiled(p) /\ ~Unsafe(q)
  BY <1>0 DEF Unspoiled
<1>e. \A x \in Name, m \in Nodes : x # q /\ x # p /\ Where(x, m)[2] = q => ~(Unspoiled(x)')
  <2> TAKE x \in Name, m \in Nodes
  <2> SUFFICES ASSUME x # q, x # p, Where(x, m)[2] = q PROVE ~(Unspoiled(x)')
    OBVIOUS
  <2>1. Unsafe(q)
    BY DEF LinksOK, Unsafe
  <2>2. cid(x) \in spoiled'
    BY <1>0, <2>1, LinkedIs
  <2> QED BY <2>2 DEF Unspoiled
<1>f. \A x \in Name : \A b \in Backend : b # Canon[x] =>
        <<b, x>> \in Places /\ <<b, x>> # Canonical(p) /\ <<b, x>> # Canonical(q)
  BY <1>b, CanonicalPlace
<1>1. IdsOK'
  <2>1. cid(p) \in 0..files /\ 0 \in 0..files /\ \A x \in Name : cid(x) \in 0..files
    BY DEF IdsOK, TypeOK
  <2>2. \A x \in Name : cid(x)' \in 0..files
    BY <2>1
  <2>3. \A x, y \in Name : x # y /\ cid(x)' = cid(y)' => cid(x)' = 0
    BY DEF IdsOK
  <2> QED BY <2>2, <2>3 DEF IdsOK
<1>2. EmptyOK'
  <2> SUFFICES ASSUME NEW x \in Name, NEW b \in Backend,
                      cid(x)' = 0, x \notin tainted', b # Canon[x], There(<<b, x>>)'
               PROVE  \E m \in Nodes : WillRemove(m, b, x)'
    BY DEF EmptyOK
  <2>1. x # p /\ x \notin tainted /\ cid(x) = 0 /\ There(<<b, x>>)
    BY <1>f
  <2> QED BY <2>1 DEF EmptyOK
<1>3. LinksOK'
  <2> SUFFICES ASSUME NEW x \in Name, NEW y \in Name, NEW m \in Nodes, x # y, (Where(x, m)')[2] = y
               PROVE  y \in tainted' /\ ~(Unspoiled(y)')
    BY DEF LinksOK
  <2>1. x # p
    BY <1>c
  <2>2. CASE y = p
    BY <1>d, <2>2
  <2>3. CASE y # p /\ x = q
    <3>1. Where(p, m)[2] = y
      BY <1>c, <2>3
    <3> QED BY <1>d, <2>3, <3>1 DEF LinksOK
  <2>4. CASE y # p /\ x # q
    <3>1. Where(x, m)[2] = y
      BY <2>1, <2>4
    <3>2. y \in tainted /\ ~Unspoiled(y)
      BY <3>1 DEF LinksOK
    <3>3. y = q => Unsafe(q)
      BY <3>2 DEF Unsafe
    <3> QED BY <1>d, <2>4, <3>2, <3>3
  <2> QED BY <2>2, <2>3, <2>4
<1>4. RenamedOK'
  <2> SUFFICES ASSUME NEW x \in Name, NEW y \in Name, NEW m \in Nodes,
                      x # y, (Where(x, m)')[2] = y, Unspoiled(x)'
               PROVE  /\ ~(There(Canonical(y))')
                      /\ \A i \in Nodes : ~(Removing(i, y)')
                      /\ \A r \in Name, i \in Nodes : r # x /\ r # y => (Where(r, i)')[2] # y
    BY DEF RenamedOK
  <2>1. x # p
    BY <1>d
  <2>2. CASE x = q
    <3>1. Unspoiled(p) /\ Where(p, m)[2] = y
      BY <1>c, <1>d, <2>2
    <3>2. CASE y = p
      <4>1. \A i \in Nodes : ~Removing(i, p)
        BY <3>1 DEF ShadowsOK
      <4>2. \A r \in Name, i \in Nodes : r # q /\ r # p => Where(r, i)[2] # p
        BY <3>1 DEF LinksOK
      <4> QED BY <2>2, <3>2, <4>1, <4>2
    <3>3. CASE y # p
      <4>1. /\ ~There(Canonical(y)) /\ \A i \in Nodes : ~Removing(i, y)
            /\ \A r \in Name, i \in Nodes : r # p /\ r # y => Where(r, i)[2] # y
        BY <3>1, <3>3 DEF RenamedOK
      <4>2. Canonical(y) \in Places /\ Canonical(y) # Canonical(p) /\ Canonical(y) # Canonical(q)
        BY <2>2, <3>3, CanonicalPlace
      <4>3. \A r \in Name, i \in Nodes : r # q /\ r # y => (Where(r, i)')[2] # y
        <5> SUFFICES ASSUME NEW r \in Name, NEW i \in Nodes, r # q, r # y PROVE (Where(r, i)')[2] # y
          OBVIOUS
        <5>1. CASE r = p
          BY <1>c, <3>3, <5>1
        <5>2. CASE r # p
          BY <4>1, <5>2
        <5> QED BY <5>1, <5>2
      <4> QED BY <2>2, <4>1, <4>2, <4>3
    <3> QED BY <3>2, <3>3
  <2>3. CASE x # q
    <3>1. Unspoiled(x) /\ Where(x, m)[2] = y
      BY <1>d, <2>1, <2>3
    <3>2. /\ ~There(Canonical(y)) /\ \A i \in Nodes : ~Removing(i, y)
          /\ \A r \in Name, i \in Nodes : r # x /\ r # y => Where(r, i)[2] # y
      BY <3>1 DEF RenamedOK
    <3>3. y # p /\ y # q
      BY <1>e, <2>1, <2>3, <3>1, <3>2
    <3>4. Canonical(y) \in Places /\ Canonical(y) # Canonical(p) /\ Canonical(y) # Canonical(q)
      BY <3>3, CanonicalPlace
    <3>5. \A r \in Name, i \in Nodes : r # x /\ r # y => (Where(r, i)')[2] # y
      <4> SUFFICES ASSUME NEW r \in Name, NEW i \in Nodes, r # x, r # y PROVE (Where(r, i)')[2] # y
        OBVIOUS
      <4>1. CASE r = p
        BY <1>c, <3>3, <4>1
      <4>2. CASE r = q
        BY <1>c, <2>1, <3>2, <3>3, <4>2
      <4>3. CASE r # p /\ r # q
        BY <3>2, <4>3
      <4> QED BY <4>1, <4>2, <4>3
    <3> QED BY <3>2, <3>4, <3>5
  <2> QED BY <2>2, <2>3
<1>5. ShadowsOK'
  <2> SUFFICES ASSUME NEW x \in Name, Unspoiled(x)'
               PROVE  /\ \A m \in Nodes : ~(Removing(m, x)')
                      /\ \A b \in Backend, m \in Nodes :
                           b # Canon[x] /\ DirsAt(<<b, x>>, m)' # {} => Where(x, m)' = <<b, x>>
    BY DEF ShadowsOK
  <2>1. CASE x # q
    BY <1>d, <1>f, <2>1 DEF ShadowsOK
  <2>2. CASE x = q
    <3>1. ~Unsafe(q)
      BY <1>d, <2>2
    <3>2. \A b \in Backend : b # Canon[q] => ~There(<<b, q>>)
      BY <3>1, UnsafeIs DEF EmptyOK
    <3>3. \A m \in Nodes : ~(Removing(m, q)')
      BY <3>1, UnsafeIs
    <3>4. \A b \in Backend, m \in Nodes : b # Canon[q] => DirsAt(<<b, q>>, m)' = {}
      BY <1>f, <3>2, NothingThere
    <3> QED BY <2>2, <3>3, <3>4
  <2> QED BY <2>1, <2>2
<1>6. DropsOK'
  <2> SUFFICES ASSUME NEW x \in Name, NEW m \in Nodes, Unspoiled(x)'
               PROVE  (DirsAt(Where(x, m), m))' = {<<cid(x)', m>>} \cap acked
    BY DEF DropsOK
  <2>1. x # p
    BY <1>d
  <2>2. CASE x = q
    <3>1. Unspoiled(p) /\ q \notin tainted
      BY <1>d, <2>2, UnsafeIs
    <3>2. PICK l \in Places : l = Where(p, m)
      BY <1>a
    <3>3. DirsAt(l, m) = {<<cid(p), m>>} \cap acked
      BY <3>1, <3>2 DEF DropsOK
    <3>4. l # Canonical(q)
      BY <1>c, <3>1, <3>2 DEF LinksOK
    <3>5. CASE Where(q, m)' = l
      <4>1. (DirsAt(Where(q, m), m))' = DirsAt(l, m)'
        BY <3>5 DEF DirsAt
      <4>2. DirsAt(l, m)' = DirsAt(l, m)
        BY <3>4, <3>5
      <4> QED BY <2>2, <3>3, <4>1, <4>2
    <3>6. CASE l = Canonical(p) /\ Where(q, m)' = Canonical(q)
      <4>1. (DirsAt(Where(q, m), m))' = DirsAt(Canonical(q), m)'
        BY <3>6 DEF DirsAt, Canonical
      <4> QED BY <2>2, <3>3, <3>6, <4>1
    <3> QED BY <3>2, <3>5, <3>6
  <2>3. CASE x # q
    <3>1. Unspoiled(x)
      BY <1>d, <2>3
    <3>2. PICK l \in Places : l = Where(x, m) /\ l = Where(x, m)'
      BY <1>a, <2>1, <2>3
    <3>3. l # Canonical(p)
      BY <1>c, <2>1, <3>1, <3>2 DEF RenamedOK
    <3>4. l # Canonical(q)
      BY <1>c, <1>e, <2>1, <2>3, <3>2
    <3>5. (DirsAt(Where(x, m), m))' = DirsAt(l, m)' /\ DirsAt(l, m)' = DirsAt(l, m)
      BY <3>2, <3>3, <3>4 DEF DirsAt
    <3> QED BY <2>1, <2>3, <3>1, <3>2, <3>5 DEF DropsOK
  <2> QED BY <2>2, <2>3
<1> QED BY <1>1, <1>2, <1>3, <1>4, <1>5, <1>6

-----------------------------------------------------------------------------
(* A call goes on.                                                         *)
LEMMA OpParts ==
  ASSUME NEW o \in Op
  PROVE  /\ o = [call |-> o.call, at |-> o.at, name |-> o.name, to |-> o.to, b |-> o.b, attempts |-> o.attempts]
         /\ o.call \in Call /\ o.at \in Step /\ o.name \in Name /\ o.to \in Name
         /\ o.b \in 0..Backends /\ o.attempts \in 0..2
<1>1. PICK B, T : B = 0..Backends /\ T = 0..2
  OBVIOUS
<1>2. o \in [call : Call, at : Step, name : Name, to : Name, b : B, attempts : T]
  BY <1>1 DEF Op
<1> QED BY <1>1, <1>2

LEMMA OpType ==
  ASSUME NEW c \in Call, NEW x \in Step, NEW p \in Name, NEW q \in Name,
         NEW y \in 0..Backends, NEW z \in 0..2
  PROVE  [call |-> c, at |-> x, name |-> p, to |-> q, b |-> y, attempts |-> z] \in Op
<1>1. PICK B, T : B = 0..Backends /\ T = 0..2
  OBVIOUS
<1>2. y \in B /\ z \in T
  BY <1>1
<1>3. [call |-> c, at |-> x, name |-> p, to |-> q, b |-> y, attempts |-> z] \in
        [call : Call, at : Step, name : Name, to : Name, b : B, attempts : T]
  BY <1>2
<1> QED BY <1>1, <1>3 DEF Op

LEMMA IdleOK == OpOK(Idle)
<1>1. "none" \in Call /\ "idle" \in Step /\ 0 \in 0..Backends /\ 0 \in 0..2 /\ Names[1] \in Name
  BY Constants DEF Call, Step
<1>2. Idle \in Op
  BY <1>1, OpType DEF Idle
<1> QED BY <1>2 DEF OpOK, Fits, Idle

LEMMA OpChange ==
  ASSUME TypeOK, OpsOK, NEW n \in Nodes, NEW o, OpOK(o), op' = [op EXCEPT ![n] = o]
  PROVE  /\ op' \in [Nodes -> Op] /\ OpsOK' /\ op'[n] = o
         /\ \A m \in Nodes : m # n => op'[m] = op[m]
<1>1. op \in [Nodes -> Op] /\ o \in Op
  BY DEF TypeOK, OpOK
<1>2. \A m \in Nodes : op'[m] = IF m = n THEN o ELSE op[m]
  BY <1>1
<1>3. op' \in [Nodes -> Op]
  BY <1>1
<1> QED BY <1>2, <1>3 DEF OpsOK

(* A call that is not removing, and is not about to.                       *)
LEMMA QuietOp ==
  ASSUME TypeOK, OpsOK, NEW n \in Nodes, NEW o, OpOK(o), op' = [op EXCEPT ![n] = o],
         op[n].at \notin {"tree", "copies"}, o.at \notin {"tree", "copies"}
  PROVE  /\ op' \in [Nodes -> Op] /\ OpsOK'
         /\ \A m \in Nodes, q \in Name : Removing(m, q)' = Removing(m, q)
         /\ \A m \in Nodes, b \in Backend, q \in Name : WillRemove(m, b, q)' = WillRemove(m, b, q)
<1>1. /\ op' \in [Nodes -> Op] /\ OpsOK' /\ op'[n] = o
      /\ \A m \in Nodes : m # n => op'[m] = op[m]
  BY OpChange
<1>2. ASSUME NEW m \in Nodes, NEW q \in Name
      PROVE  /\ Removing(m, q)' = Removing(m, q)
             /\ \A b \in Backend : WillRemove(m, b, q)' = WillRemove(m, b, q)
  <2>1. CASE m # n
    BY <1>1, <2>1 DEF Removing, WillRemove
  <2>2. CASE m = n
    BY <1>1, <2>2 DEF Removing, WillRemove, Reaches, Removes
  <2> QED BY <2>1, <2>2
<1> QED BY <1>1, <1>2

LEMMA SameOp ==
  ASSUME TypeOK, OpsOK, op' = op
  PROVE  /\ op' \in [Nodes -> Op] /\ OpsOK'
         /\ \A m \in Nodes, q \in Name : Removing(m, q)' = Removing(m, q)
         /\ \A m \in Nodes, b \in Backend, q \in Name : WillRemove(m, b, q)' = WillRemove(m, b, q)
  BY DEF TypeOK, OpsOK, Removing, WillRemove

(* The ways on: back to the caller, to another step, once more, to the     *)
(* next backend.                                                           *)
LEMMA OpFacts ==
  ASSUME TypeOK, OpsOK, NEW n \in Nodes
  PROVE  /\ op[n] \in Op /\ OpOK(op[n]) /\ op[n].name \in Name /\ op[n].to \in Name
         /\ Victim(n) \in Name /\ Victim(n) = VictimOf(op[n])
<1>1. op[n] \in Op
  BY DEF TypeOK
<1>2. op[n].name \in Name /\ op[n].to \in Name
  BY <1>1 DEF Op
<1> QED BY <1>1, <1>2 DEF OpsOK, Victim, VictimOf

LEMMA OpReturn ==
  ASSUME NEW n, Return(n)
  PROVE  op' = [op EXCEPT ![n] = Idle] /\ OpOK(Idle) /\ Idle.at = "idle" /\ Idle.call = "none"
  BY IdleOK DEF Return, Idle

LEMMA OpGoto ==
  ASSUME TypeOK, OpsOK, NEW n \in Nodes, NEW x \in Step, Goto(n, x),
         Fits(op[n].call, x), x \notin {"copies", "loop"}, x \in {"shadow", "link"} => op[n].attempts # 2
  PROVE  \E o : /\ op' = [op EXCEPT ![n] = o] /\ OpOK(o) /\ o.at = x
                /\ o.call = op[n].call /\ o.name = op[n].name /\ o.to = op[n].to
<1>1. PICK w : w = op[n]
  OBVIOUS
<1>2. w \in Op
  BY <1>1, OpFacts
<1>3. PICK o : o = [call |-> w.call, at |-> x, name |-> w.name, to |-> w.to, b |-> w.b, attempts |-> w.attempts]
  OBVIOUS
<1>4. o \in Op
  BY <1>2, <1>3, OpParts, OpType
<1>5. [w EXCEPT !.at = x] = o
  <2>1. PICK c, a, p, q, y, z : w = [call |-> c, at |-> a, name |-> p, to |-> q, b |-> y, attempts |-> z]
    BY <1>2, OpParts
  <2> QED BY <1>3, <2>1
<1>6. op' = [op EXCEPT ![n] = o]
  BY <1>1, <1>5 DEF Goto
<1>7. o.at = x /\ o.call = w.call /\ o.name = w.name /\ o.to = w.to /\ o.attempts = w.attempts
  BY <1>3
<1>8. OpOK(o)
  <2>1. w.call = "rename" => w.name # w.to
    BY <1>1, OpFacts DEF OpOK
  <2> QED BY <1>1, <1>4, <1>7, <2>1 DEF OpOK
<1> QED BY <1>1, <1>6, <1>7, <1>8

LEMMA OpAgain ==
  ASSUME TypeOK, OpsOK, NEW n \in Nodes, Again(n), op[n].at \in {"shadow", "link"}
  PROVE  \E o : /\ op' = [op EXCEPT ![n] = o] /\ OpOK(o) /\ o.at = "try"
<1>1. PICK w : w = op[n]
  OBVIOUS
<1>2. w \in Op /\ w.attempts # 2 /\ w.call = "open"
  <2>1. w \in Op /\ OpOK(w) /\ w.call \in Call
    BY <1>1, OpFacts, OpParts
  <2> QED BY <1>1, <2>1 DEF OpOK, Fits, Call
<1>3. PICK o : o = [call |-> w.call, at |-> "try", name |-> w.name, to |-> w.to, b |-> w.b, attempts |-> w.attempts + 1]
  OBVIOUS
<1>4. o \in Op
  <2>1. w.attempts + 1 \in 0..2 /\ "try" \in Step
    BY <1>2, OpParts DEF Step
  <2> QED BY <1>2, <1>3, <2>1, OpParts, OpType
<1>5. [w EXCEPT !.at = "try", !.attempts = w.attempts + 1] = o
  <2>1. PICK c, a, p, q, y, z : w = [call |-> c, at |-> a, name |-> p, to |-> q, b |-> y, attempts |-> z]
    BY <1>2, OpParts
  <2>2. PICK k : k = w.attempts + 1
    OBVIOUS
  <2>3. o = [call |-> c, at |-> "try", name |-> p, to |-> q, b |-> y, attempts |-> k]
    BY <1>3, <2>1, <2>2
  <2>4. PICK u : u = [w EXCEPT !.at = "try"]
    OBVIOUS
  <2>5. u = [call |-> c, at |-> "try", name |-> p, to |-> q, b |-> y, attempts |-> z]
    BY <2>1, <2>4
  <2>6. [u EXCEPT !.attempts = k] = o
    BY <2>3, <2>5
  <2> QED BY <2>2, <2>4, <2>6
<1>6. op' = [op EXCEPT ![n] = o]
  BY <1>1, <1>5 DEF Again
<1>7. OpOK(o) /\ o.at = "try"
  BY <1>2, <1>3, <1>4 DEF OpOK, Fits
<1> QED BY <1>6, <1>7

-----------------------------------------------------------------------------
(* TypeOK in parts, and what a step does to the places.                    *)
PlaceTypeOK == place = [k \in Places |-> place[k]] /\ \A k \in Places : IsPlace(place[k])
TrashOK == dir \subseteq Backend /\ trash \subseteq [node : Nodes, b : Backend, name : Name]
ListerOK == lister \in Listing /\ (lister.at # "idle" => lister.seen \in [Name -> Nat])
HistoryOK ==
  /\ files \in 0..MaxFiles /\ acked \subseteq (1..files) \X Nodes
  /\ tainted \subseteq Name /\ spoiled \subseteq 0..files /\ faults \in 0..MaxFaults

LEMMA TypeParts ==
  TypeOK <=> PlaceTypeOK /\ TrashOK /\ op \in [Nodes -> Op] /\ ListerOK /\ HistoryOK
  BY DEF TypeOK, PlaceTypeOK, TrashOK, ListerOK, HistoryOK, Places

LEMMA TypePartsNext ==
  TypeOK' <=> PlaceTypeOK' /\ TrashOK' /\ (op' \in [Nodes -> Op]) /\ ListerOK' /\ HistoryOK'
  BY DEF TypeOK, PlaceTypeOK, TrashOK, ListerOK, HistoryOK, Places

LEMMA PlaceSet ==
  ASSUME TypeOK, PlacesOK, NEW k \in Places, NEW c, IsPlace(c), ~c.there => c = NoPlace,
         k # Canonical(k[2]) => c.id = 0, DOMAIN c.dirs \cap DOMAIN c.links = {},
         place' = [place EXCEPT ![k] = c]
  PROVE  /\ PlaceTypeOK' /\ PlacesOK' /\ place'[k] = c
         /\ \A l \in Places : l # k => place'[l] = place[l]
<1>1. place = [l \in Places |-> place[l]] /\ \A l \in Places : IsPlace(place[l])
  BY TypeParts DEF PlaceTypeOK
<1>2. \A l \in Places : place'[l] = IF l = k THEN c ELSE place[l]
  BY <1>1
<1>3. place' = [l \in Places |-> place'[l]]
  BY <1>1
<1>4. PlaceTypeOK'
  BY <1>1, <1>2, <1>3 DEF PlaceTypeOK
<1>5. PlacesOK'
  BY <1>2 DEF PlacesOK, Canonical
<1> QED BY <1>2, <1>4, <1>5

LEMMA PlaceEffect ==
  ASSUME NEW k \in Places, NEW c, place'[k] = c, \A l \in Places : l # k => place'[l] = place[l]
  PROVE  /\ There(k)' = c.there
         /\ \A m \in Nodes : DirsAt(k, m)' = DirsOf(c, m)
         /\ \A l \in Places : l # k => There(l)' = There(l)
         /\ \A l \in Places, m \in Nodes : l # k => DirsAt(l, m)' = DirsAt(l, m)
         /\ \A q \in Name : Canonical(q) # k => cid(q)' = cid(q)
         /\ \A q \in Name, m \in Nodes : Canonical(q) # k => Where(q, m)' = Where(q, m)
         /\ \A q \in Name : Canonical(q) = k => cid(q)' = c.id
         /\ \A q \in Name, m \in Nodes : Canonical(q) = k => Where(q, m)' = LeadsTo(c, k, m)
<1>1. \A q \in Name : Canonical(q) \in Places
  BY CanonicalPlace
<1>2. \A q \in Name : Canonical(q)' = Canonical(q)
  BY DEF Canonical
<1>3. There(k)' = c.there /\ \A l \in Places : l # k => There(l)' = There(l)
  BY DEF There
<1>4. /\ \A m \in Nodes : DirsAt(k, m)' = DirsOf(c, m)
      /\ \A l \in Places, m \in Nodes : l # k => DirsAt(l, m)' = DirsAt(l, m)
  BY DEF DirsAt
<1>5. \A q \in Name : cid(q)' = place'[Canonical(q)].id
  BY DEF cid, Canonical
<1>6. \A q \in Name, m \in Nodes : Where(q, m)' = LeadsTo(place'[Canonical(q)], Canonical(q), m)
  BY DEF Where, Canonical
<1>7. /\ \A q \in Name : Canonical(q) # k => cid(q)' = cid(q)
      /\ \A q \in Name, m \in Nodes : Canonical(q) # k => Where(q, m)' = Where(q, m)
  BY <1>1, <1>5, <1>6 DEF cid, Where
<1> QED BY <1>3, <1>4, <1>5, <1>6, <1>7

LEMMA PlaceKept ==
  ASSUME TypeOK, PlacesOK, place' = place
  PROVE  /\ PlaceTypeOK' /\ PlacesOK'
         /\ \A k \in Places : There(k)' = There(k)
         /\ \A k \in Places, m \in Nodes : DirsAt(k, m)' = DirsAt(k, m)
         /\ \A q \in Name : cid(q)' = cid(q)
         /\ \A q \in Name, m \in Nodes : Where(q, m)' = Where(q, m)
<1>1. PlaceTypeOK' /\ PlacesOK'
  BY TypeParts DEF PlaceTypeOK, PlacesOK, Canonical
<1> QED BY <1>1 DEF There, DirsAt, cid, Where, Canonical

(* A step that changes no place and no removing.                           *)
LEMMA FilesKept ==
  ASSUME Inv, place' = place, UNCHANGED <<files, acked, tainted, spoiled>>,
         \A m \in Nodes, q \in Name : Removing(m, q)' = Removing(m, q),
         \A m \in Nodes, b \in Backend, q \in Name : WillRemove(m, b, q)' = WillRemove(m, b, q)
  PROVE  PlaceTypeOK' /\ PlacesOK' /\ FilesInv'
<1>1. TypeOK /\ PlacesOK /\ FilesInv
  BY DEF Inv
<1>2. \A b \in Backend, x \in Name : <<b, x>> \in Places
  BY DEF Places
<1>3. \A q \in Name : Canonical(q) \in Places
  BY CanonicalPlace
<1>4. \A q \in Name, n \in Nodes : Where(q, n) \in Places
  BY <1>1, PlaceFacts
<1> QED BY <1>1, <1>2, <1>3, <1>4, PlaceKept, FilesSame

-----------------------------------------------------------------------------
(* What a listing is told of a step: the entries that come or go are among *)
(* those of S.                                                             *)
Heeded(S) ==
  /\ \/ Noting(S)
     \/ S = {} /\ lister' = lister /\ \A p \in Name : cid(p)' = cid(p)
  /\ \A b \in Backend : \A e : e \notin S => (e \in EntriesOn(b)' <=> e \in EntriesOn(b))

(* At a place k, or nowhere, something came or went.                       *)
LEMMA EntriesAt ==
  ASSUME NEW k \in Places, \A l \in Places : l # k => There(l)' = There(l), trash' = trash
  PROVE  \A b \in Backend : \A e : e # <<"name", k[2]>> => (e \in EntriesOn(b)' <=> e \in EntriesOn(b))
<1>1. ASSUME NEW b \in Backend, NEW p \in Name, p # k[2] PROVE There(<<b, p>>)' = There(<<b, p>>)
  <2>1. <<b, p>> \in Places /\ <<b, p>> # k
    BY <1>1 DEF Places
  <2> QED BY <2>1
<1>2. \A b \in Backend, p \in Name : p # k[2] => (place'[<<b, p>>].there = place[<<b, p>>].there)
  BY <1>1 DEF There
<1> QED BY <1>2 DEF EntriesOn

LEMMA EntriesSame ==
  ASSUME \A l \in Places : There(l)' = There(l), trash' = trash
  PROVE  \A b \in Backend : \A e : e \in EntriesOn(b)' <=> e \in EntriesOn(b)
<1>1. \A b \in Backend, p \in Name : <<b, p>> \in Places
  BY DEF Places
<1>2. \A b \in Backend, p \in Name : place'[<<b, p>>].there = place[<<b, p>>].there
  BY <1>1 DEF There
<1> QED BY <1>2 DEF EntriesOn

LEMMA EntriesKept ==
  ASSUME place' = place, trash' = trash
  PROVE  \A b \in Backend : EntriesOn(b)' = EntriesOn(b)
  BY DEF EntriesOn

LEMMA HeededNothing ==
  ASSUME place' = place, trash' = trash, lister' = lister
  PROVE  Heeded({})
  BY EntriesKept DEF Heeded, cid, Canonical

LEMMA ListerKept ==
  ASSUME ListerOK, NEW S, Heeded(S)
  PROVE  ListerOK'
<1>1. CASE lister' = lister
  BY <1>1 DEF ListerOK
<1>2. CASE lister.at # "idle" /\ Noting(S)
  <2>1. PICK D : D \subseteq lister.due /\ lister' = [lister EXCEPT !.due = D]
    BY <1>2 DEF Noting
  <2>2. PICK Ds, N : Ds = 1..(Backends + 1) /\ N = Nat
    OBVIOUS
  <2>3. PICK R : R = {0, -1}
    OBVIOUS
  <2>4. PICK Sn : Sn = {<<>>} \cup [Name -> Nat]
    OBVIOUS
  <2>5. PICK A, E : A = {"idle", "reading", "done", "error"} /\ E = SUBSET Entry
    OBVIOUS
  <2>6. Listing = [at : A, b : Ds, dents : E, offset : N, ret : R, seen : Sn, due : SUBSET Name, missed : BOOLEAN]
    BY <2>2, <2>3, <2>4, <2>5 DEF Listing
  <2>7. lister \in Listing
    BY DEF ListerOK
  <2>8. lister' \in Listing /\ lister'.at = lister.at /\ lister'.seen = lister.seen
    BY <2>1, <2>6, <2>7
  <2> QED BY <2>8 DEF ListerOK
<1> QED BY <1>1, <1>2 DEF Heeded, Noting

-----------------------------------------------------------------------------
(* The steps.  plfs_create: a new file, or a host directory in one.        *)
LEMMA NewPlace ==
  ASSUME NEW i \in Nat, NEW c, c = [Shadow EXCEPT !.id = i]
  PROVE  IsPlace(c) /\ c.id = i /\ c.there = TRUE /\ DOMAIN c.dirs = {} /\ DOMAIN c.links = {}
<1>1. PICK e : e = <<>>
  OBVIOUS
<1>2. e \in [{} -> SUBSET Dropping] /\ e \in [{} -> Places] /\ DOMAIN e = {}
  BY <1>1
<1>3. Shadow = [id |-> 0, there |-> TRUE, dirs |-> e, links |-> e]
  BY <1>1, EmptyPlaces
<1>4. c = [id |-> i, there |-> TRUE, dirs |-> e, links |-> e]
  BY <1>3
<1>5. {} \in SUBSET Nodes /\ TRUE \in BOOLEAN
  OBVIOUS
<1>6. IsPlace(c)
  <2>1. PICK N \in SUBSET Nodes : N = {}
    BY <1>5
  <2>2. e \in [N -> SUBSET Dropping] /\ e \in [N -> Places]
    BY <1>2, <2>1
  <2>3. IsPlace([id |-> i, there |-> TRUE, dirs |-> e, links |-> e])
    BY <1>5, <2>2, PlaceType
  <2> QED BY <1>4, <2>3
<1> QED BY <1>2, <1>4, <1>6

(* The ids of the files that link to the places of p. *)
LEMMA LinkedFiles ==
  ASSUME Inv, NEW p
  PROVE  LinkedTo(p) \subseteq 0..files
<1>1. \A l \in DOMAIN place : l \in Places
  BY DEF Inv, TypeOK, Places
<1>2. \A l \in Places : place[l].id \in 0..files
  <2> TAKE l \in Places
  <2>1. CASE l = Canonical(l[2])
    BY <2>1 DEF Inv, FilesInv, IdsOK, Places, cid
  <2>2. CASE l # Canonical(l[2])
    <3>1. files \in Nat
      BY DEF Inv, TypeOK
    <3> QED BY <2>2, <3>1 DEF Inv, PlacesOK
  <2> QED BY <2>1, <2>2
<1> QED BY <1>1, <1>2 DEF LinkedTo

LEMMA CreateStep ==
  ASSUME Inv, NEW n \in Nodes, NEW p \in Name, Create(n, p)
  PROVE  Inv' /\ \E S : Heeded(S)
<1>1. TypeOK /\ OpsOK /\ PlacesOK /\ FilesInv
  BY DEF Inv
<1>2. PICK k \in Places : k = Canonical(p) /\ k[2] = p
  BY CanonicalPlace
<1>3. IsPlace(place[k]) /\ DOMAIN place[k].dirs \cap DOMAIN place[k].links = {}
  BY <1>1, PlaceFacts DEF PlacesOK
<1>4. /\ op' = op /\ trash' = trash /\ dir' = dir
      /\ UNCHANGED <<acked, tainted, faults>>
  BY DEF Create
<1>5. /\ op' \in [Nodes -> Op] /\ OpsOK'
      /\ \A m \in Nodes, q \in Name : Removing(m, q)' = Removing(m, q)
      /\ \A m \in Nodes, b \in Backend, q \in Name : WillRemove(m, b, q)' = WillRemove(m, b, q)
  BY <1>1, <1>4, SameOp
<1>6. TrashOK' /\ ListerOK /\ HistoryOK
  BY <1>1, <1>4, TypeParts DEF TrashOK
<1>7. CASE /\ place[k] \in {NoPlace, Shadow} /\ files < MaxFiles
           /\ place' = [place EXCEPT ![k] = WithHost([Shadow EXCEPT !.id = files + 1], n)]
           /\ files' = files + 1 /\ Arrived(files + 1, p) /\ Noting({<<"name", p>>})
  <2>1. files \in Nat /\ files + 1 \in Nat /\ files + 1 \in 0..MaxFiles /\ files + 1 # 0
    BY <1>6, <1>7, BufferAssumption DEF HistoryOK
  <2>2. PICK d : d = [Shadow EXCEPT !.id = files + 1]
    OBVIOUS
  <2>3. PICK c : c = WithHost(d, n)
    OBVIOUS
  <2>4. IsPlace(d) /\ d.id = files + 1 /\ d.there = TRUE /\ DOMAIN d.dirs = {} /\ DOMAIN d.links = {}
    BY <2>1, <2>2, NewPlace
  <2>5. /\ IsPlace(c) /\ c.id = files + 1 /\ c.there = TRUE /\ DOMAIN c.links = {}
        /\ \A m \in Nodes : DirsOf(c, m) = {}
        /\ DOMAIN c.dirs \cap DOMAIN c.links = {}
    BY <2>3, <2>4, HostAdded DEF DirsOf
  <2>6. place' = [place EXCEPT ![k] = c]
    BY <1>7, <2>2, <2>3
  <2>7. /\ PlaceTypeOK' /\ PlacesOK' /\ place'[k] = c
        /\ \A l \in Places : l # k => place'[l] = place[l]
    BY <1>1, <1>2, <2>5, <2>6, PlaceSet
  <2>8. cid(p) = 0 /\ \A m \in Nodes : Where(p, m) = k /\ DirsAt(k, m) = {}
    BY <1>2, <1>7, EmptyPlaces DEF cid, Where, LeadsTo, DirsAt, DirsOf
  <2>9. \A m \in Nodes : LeadsTo(c, k, m) = k
    BY <2>5 DEF LeadsTo
  <2>10. /\ cid(p)' = files + 1 /\ \A q \in Name : q # p => cid(q)' = cid(q)
         /\ \A q \in Name, m \in Nodes : Where(q, m)' = Where(q, m)
         /\ \A l \in Places, m \in Nodes : DirsAt(l, m)' = DirsAt(l, m)
         /\ \A l \in Places : l # k => There(l)' = There(l)
    <3>1. \A q \in Name : Canonical(q) = k <=> q = p
      BY <1>2, CanonicalPlace
    <3> QED BY <2>5, <2>7, <2>8, <2>9, <3>1, PlaceEffect
  <2>11. FilesInv'
    BY <1>1, <1>2, <1>4, <1>5, <1>7, <2>8, <2>10, FilesCreated
  <2>12. Heeded({<<"name", p>>})
    BY <1>2, <1>4, <1>7, <2>10, EntriesAt DEF Heeded
  <2>13. HistoryOK'
    <3>1. spoiled' \subseteq 0..(files + 1)
      <4>1. LinkedTo(p) \subseteq 0..files
        BY LinkedFiles
      <4> QED BY <1>6, <1>7, <2>1, <4>1 DEF Arrived, HistoryOK
    <3>2. acked \subseteq (1..(files + 1)) \X Nodes
      BY <1>6, <2>1 DEF HistoryOK
    <3> QED BY <1>4, <1>6, <1>7, <2>1, <3>1, <3>2 DEF HistoryOK
  <2> QED BY <1>5, <1>6, <2>7, <2>11, <2>12, <2>13, ListerKept, TypePartsNext DEF Inv
<1>8. CASE /\ place[k] \notin {NoPlace, Shadow} /\ n \notin Hosts(place[k])
           /\ place' = [place EXCEPT ![k] = WithHost(@, n)]
           /\ UNCHANGED <<files, spoiled, lister>>
  <2>1. PICK c : c = WithHost(place[k], n)
    OBVIOUS
  <2>2. /\ IsPlace(c) /\ c.id = place[k].id /\ c.there = place[k].there /\ c.links = place[k].links
        /\ \A m \in Nodes : DirsOf(c, m) = DirsOf(place[k], m)
        /\ DOMAIN c.dirs \cap DOMAIN c.links = {}
    BY <1>3, <2>1, HostAdded
  <2>3. c.there
    BY <1>1, <1>8, <2>2 DEF PlacesOK
  <2>4. place' = [place EXCEPT ![k] = c]
    BY <1>1, <1>8, <2>1
  <2>5. /\ PlaceTypeOK' /\ PlacesOK' /\ place'[k] = c
        /\ \A l \in Places : l # k => place'[l] = place[l]
    BY <1>1, <1>2, <2>2, <2>3, <2>4, PlaceSet
  <2>6. /\ \A q \in Name : cid(q)' = cid(q)
        /\ \A q \in Name, m \in Nodes : Where(q, m)' = Where(q, m)
        /\ \A l \in Places, m \in Nodes : DirsAt(l, m)' = DirsAt(l, m)
        /\ \A l \in Places : There(l)' = There(l)
    <3>1. \A q \in Name : cid(q) = place[Canonical(q)].id
      BY DEF cid
    <3>2. \A q \in Name, m \in Nodes : Where(q, m) = LeadsTo(place[Canonical(q)], Canonical(q), m)
      BY DEF Where
    <3>3. \A m \in Nodes : LeadsTo(c, k, m) = LeadsTo(place[k], k, m)
      BY <2>2 DEF LeadsTo
    <3>4. \A m \in Nodes : DirsAt(k, m) = DirsOf(place[k], m)
      BY DEF DirsAt
    <3>5. There(k) = place[k].there
      BY DEF There
    <3> QED BY <2>2, <2>5, <3>1, <3>2, <3>3, <3>4, <3>5, PlaceEffect
  <2>7. FilesInv'
    <3>1. \A q \in Name, m \in Nodes : Where(q, m) \in Places
      BY <1>1, PlaceFacts
    <3>2. \A b \in Backend, x \in Name : <<b, x>> \in Places
      BY DEF Places
    <3>3. \A q \in Name : Canonical(q) \in Places
      BY CanonicalPlace
    <3> QED BY <1>1, <1>4, <1>5, <1>8, <2>6, <3>1, <3>2, <3>3, FilesSame
  <2>8. Heeded({})
    BY <1>4, <1>8, <2>6, EntriesSame DEF Heeded
  <2>9. HistoryOK'
    BY <1>4, <1>6, <1>8 DEF HistoryOK
  <2> QED BY <1>5, <1>6, <2>5, <2>7, <2>8, <2>9, ListerKept, TypePartsNext DEF Inv
<1> QED BY <1>2, <1>7, <1>8 DEF Create
-----------------------------------------------------------------------------
(* A step that changes no place, no file and no removing.                  *)
LEMMA Failing ==
  ASSUME HistoryOK, NEW f, Fails(f)
  PROVE  faults' \in 0..MaxFaults
  BY FaultsAssumption DEF HistoryOK, Fails

LEMMA KeptStep ==
  ASSUME Inv, place' = place, TrashOK', UNCHANGED <<files, acked, tainted, spoiled>>,
         faults' \in 0..MaxFaults, ListerOK',
         op' \in [Nodes -> Op], OpsOK',
         \A m \in Nodes, q \in Name : Removing(m, q)' = Removing(m, q),
         \A m \in Nodes, b \in Backend, q \in Name : WillRemove(m, b, q)' = WillRemove(m, b, q)
  PROVE  Inv'
<1>1. PlaceTypeOK' /\ PlacesOK' /\ FilesInv'
  BY FilesKept
<1>2. HistoryOK'
  BY TypeParts DEF Inv, HistoryOK
<1> QED BY <1>1, <1>2, TypePartsNext DEF Inv

(* And the call of n goes on with o. *)
LEMMA QuietStep ==
  ASSUME Inv, NEW n \in Nodes, NEW o, OpOK(o), op' = [op EXCEPT ![n] = o],
         op[n].at \notin {"tree", "copies"}, o.at \notin {"tree", "copies"},
         place' = place, trash' = trash, UNCHANGED <<files, acked, tainted, spoiled>>,
         dir' \subseteq Backend, faults' = faults \/ \E f : Fails(f), ListerOK'
  PROVE  Inv'
<1>1. TypeOK /\ OpsOK /\ HistoryOK
  BY TypeParts DEF Inv
<1>2. /\ op' \in [Nodes -> Op] /\ OpsOK'
      /\ \A m \in Nodes, q \in Name : Removing(m, q)' = Removing(m, q)
      /\ \A m \in Nodes, b \in Backend, q \in Name : WillRemove(m, b, q)' = WillRemove(m, b, q)
  BY <1>1, QuietOp
<1>3. faults' \in 0..MaxFaults
  BY <1>1, Failing DEF HistoryOK
<1>4. TrashOK'
  BY <1>1, TypeParts DEF TrashOK
<1> QED BY <1>2, <1>3, <1>4, KeptStep

LEMMA StateKept ==
  ASSUME Inv
  PROVE  /\ UNCHANGED <<dir>> => dir' \subseteq Backend
         /\ lister' = lister => ListerOK'
  BY TypeParts DEF Inv, TrashOK, ListerOK

(* A call begins. *)
OfName(c, x, p) == [Idle EXCEPT !.call = c, !.at = x, !.name = p]
OfDir(c, x, y) == [Idle EXCEPT !.call = c, !.at = x, !.b = y]
OfList(c, x) == [Idle EXCEPT !.call = c, !.at = x]
OfNames(c, p, q, x) == [Idle EXCEPT !.call = c, !.name = p, !.to = q, !.at = x]

LEMMA Calling ==
  /\ \A c, x, p : OfName(c, x, p) =
       [call |-> c, at |-> x, name |-> p, to |-> Names[1], b |-> 0, attempts |-> 0]
  /\ \A c, x, y : OfDir(c, x, y) =
       [call |-> c, at |-> x, name |-> Names[1], to |-> Names[1], b |-> y, attempts |-> 0]
  /\ \A c, x : OfList(c, x) =
       [call |-> c, at |-> x, name |-> Names[1], to |-> Names[1], b |-> 0, attempts |-> 0]
  /\ \A c, p, q, x : OfNames(c, p, q, x) =
       [call |-> c, at |-> x, name |-> p, to |-> q, b |-> 0, attempts |-> 0]
<1>1. PICK i : i = Names[1]
  OBVIOUS
<1>2. PICK w : w = Idle
  OBVIOUS
<1>3. w = [call |-> "none", at |-> "idle", name |-> i, to |-> i, b |-> 0, attempts |-> 0]
  BY <1>1, <1>2 DEF Idle
<1>4. ASSUME NEW c, NEW x, NEW p
      PROVE  OfName(c, x, p) = [call |-> c, at |-> x, name |-> p, to |-> i, b |-> 0, attempts |-> 0]
  <2>1. PICK u : u = [w EXCEPT !.call = c]
    OBVIOUS
  <2>2. u = [call |-> c, at |-> "idle", name |-> i, to |-> i, b |-> 0, attempts |-> 0]
    BY <1>3, <2>1
  <2>3. PICK v : v = [u EXCEPT !.at = x]
    OBVIOUS
  <2>4. v = [call |-> c, at |-> x, name |-> i, to |-> i, b |-> 0, attempts |-> 0]
    BY <2>2, <2>3
  <2>5. OfName(c, x, p) = [v EXCEPT !.name = p]
    BY <1>2, <2>1, <2>3 DEF OfName
  <2> QED BY <2>4, <2>5
<1>5. ASSUME NEW c, NEW x, NEW y
      PROVE  OfDir(c, x, y) = [call |-> c, at |-> x, name |-> i, to |-> i, b |-> y, attempts |-> 0]
  <2>1. PICK u : u = [w EXCEPT !.call = c]
    OBVIOUS
  <2>2. u = [call |-> c, at |-> "idle", name |-> i, to |-> i, b |-> 0, attempts |-> 0]
    BY <1>3, <2>1
  <2>3. PICK v : v = [u EXCEPT !.at = x]
    OBVIOUS
  <2>4. v = [call |-> c, at |-> x, name |-> i, to |-> i, b |-> 0, attempts |-> 0]
    BY <2>2, <2>3
  <2>5. OfDir(c, x, y) = [v EXCEPT !.b = y]
    BY <1>2, <2>1, <2>3 DEF OfDir
  <2> QED BY <2>4, <2>5
<1>6. ASSUME NEW c, NEW x
      PROVE  OfList(c, x) = [call |-> c, at |-> x, name |-> i, to |-> i, b |-> 0, attempts |-> 0]
  <2>1. PICK u : u = [w EXCEPT !.call = c]
    OBVIOUS
  <2>2. u = [call |-> c, at |-> "idle", name |-> i, to |-> i, b |-> 0, attempts |-> 0]
    BY <1>3, <2>1
  <2>3. OfList(c, x) = [u EXCEPT !.at = x]
    BY <1>2, <2>1 DEF OfList
  <2> QED BY <2>2, <2>3
<1>7. ASSUME NEW c, NEW p, NEW q, NEW x
      PROVE  OfNames(c, p, q, x) = [call |-> c, at |-> x, name |-> p, to |-> q, b |-> 0, attempts |-> 0]
  <2>1. PICK u : u = [w EXCEPT !.call = c]
    OBVIOUS
  <2>2. u = [call |-> c, at |-> "idle", name |-> i, to |-> i, b |-> 0, attempts |-> 0]
    BY <1>3, <2>1
  <2>3. PICK r : r = [u EXCEPT !.name = p]
    OBVIOUS
  <2>4. r = [call |-> c, at |-> "idle", name |-> p, to |-> i, b |-> 0, attempts |-> 0]
    BY <2>2, <2>3
  <2>5. PICK s : s = [r EXCEPT !.to = q]
    OBVIOUS
  <2>6. s = [call |-> c, at |-> "idle", name |-> p, to |-> q, b |-> 0, attempts |-> 0]
    BY <2>4, <2>5
  <2>7. OfNames(c, p, q, x) = [s EXCEPT !.at = x]
    BY <1>2, <2>1, <2>3, <2>5 DEF OfNames
  <2> QED BY <2>6, <2>7
<1> QED BY <1>1, <1>4, <1>5, <1>6, <1>7

LEMMA CallOK ==
  ASSUME NEW c \in Call, NEW x \in Step, NEW p \in Name, NEW q \in Name, NEW y \in 0..Backends,
         NEW o, o = [call |-> c, at |-> x, name |-> p, to |-> q, b |-> y, attempts |-> 0],
         Fits(c, x), x \notin {"copies", "loop"} \/ y # 0, c = "rename" => p # q
  PROVE  OpOK(o) /\ o.at = x
<1>1. 0 \in 0..2
  OBVIOUS
<1>2. o \in Op
  BY <1>1, OpType
<1> QED BY <1>2 DEF OpOK

LEMMA CallStep ==
  ASSUME Inv, NEW n \in Nodes, ~Busy(n), NEW o, op' = [op EXCEPT ![n] = o],
         OpOK(o), o.at \notin {"tree", "copies"}, UNCHANGED <<state, history>>, ListerOK'
  PROVE  Inv'
<1>1. op[n].at = "idle"
  <2>1. OpOK(op[n])
    BY DEF Inv, OpsOK
  <2> QED BY <2>1 DEF OpOK, Fits, Busy
<1>2. /\ place' = place /\ trash' = trash /\ UNCHANGED <<files, acked, tainted, spoiled>>
      /\ dir' = dir /\ faults' = faults
  BY DEF state, history
<1>3. dir' \subseteq Backend
  BY <1>2, StateKept
<1> QED BY <1>1, <1>2, <1>3, QuietStep

LEMMA OpenStep ==
  ASSUME Inv, NEW n \in Nodes, NEW p \in Name, Open(n, p)
  PROVE  Inv' /\ \E S : Heeded(S)
<1>1. PICK o : o = [call |-> "open", at |-> "try", name |-> p, to |-> Names[1], b |-> 0, attempts |-> 0]
  OBVIOUS
<1>2. op' = [op EXCEPT ![n] = o]
  <2>1. op' = [op EXCEPT ![n] = OfName("open", "try", p)]
    BY DEF Open, OfName
  <2> QED BY <1>1, <2>1, Calling
<1>3. /\ ~Busy(n) /\ UNCHANGED <<state, history>> /\ lister' = lister
      /\ place' = place /\ trash' = trash
  BY DEF Open, Enters, state
<1>4. "open" \in Call /\ "try" \in Step /\ 0 \in 0..Backends /\ Fits("open", "try") /\ Names[1] \in Name
  BY Constants DEF Call, Step, Fits
<1>5. OpOK(o) /\ o.at \notin {"tree", "copies"}
  BY <1>1, <1>4, CallOK
<1>6. Inv'
  BY <1>2, <1>3, <1>5, StateKept, CallStep
<1> QED BY <1>3, <1>6, HeededNothing

LEMMA UnlinkStep ==
  ASSUME Inv, NEW n \in Nodes, NEW p \in Name, Unlink(n, p)
  PROVE  Inv' /\ \E S : Heeded(S)
<1>1. PICK o : o = [call |-> "unlink", at |-> "canonical", name |-> p, to |-> Names[1], b |-> 0, attempts |-> 0]
  OBVIOUS
<1>2. op' = [op EXCEPT ![n] = o]
  <2>1. op' = [op EXCEPT ![n] = OfName("unlink", "canonical", p)]
    BY DEF Unlink, OfName
  <2> QED BY <1>1, <2>1, Calling
<1>3. /\ ~Busy(n) /\ UNCHANGED <<state, history>> /\ lister' = lister
      /\ place' = place /\ trash' = trash
  BY DEF Unlink, Enters, state
<1>4. /\ "unlink" \in Call /\ "canonical" \in Step /\ 0 \in 0..Backends
      /\ Fits("unlink", "canonical") /\ Names[1] \in Name
  BY Constants DEF Call, Step, Fits
<1>5. OpOK(o) /\ o.at \notin {"tree", "copies"}
  BY <1>1, <1>4, CallOK
<1>6. Inv'
  BY <1>2, <1>3, <1>5, StateKept, CallStep
<1> QED BY <1>3, <1>6, HeededNothing

LEMMA RenameStep ==
  ASSUME Inv, NEW n \in Nodes, NEW p \in Name, NEW q \in Name, Rename(n, p, q)
  PROVE  Inv' /\ \E S : Heeded(S)
<1>1. PICK x : x = IF isContainer(q) THEN "canonical" ELSE "rename"
  OBVIOUS
<1>2. PICK o : o = [call |-> "rename", at |-> x, name |-> p, to |-> q, b |-> 0, attempts |-> 0]
  OBVIOUS
<1>3. op' = [op EXCEPT ![n] = o]
  <2>1. op' = [op EXCEPT ![n] = OfNames("rename", p, q, x)]
    BY <1>1 DEF Rename, OfNames
  <2> QED BY <1>2, <2>1, Calling
<1>4. /\ ~Busy(n) /\ UNCHANGED <<state, history>> /\ lister' = lister
      /\ place' = place /\ trash' = trash /\ p # q
  BY DEF Rename, Enters, state
<1>5. /\ "rename" \in Call /\ x \in Step /\ 0 \in 0..Backends /\ Fits("rename", x)
      /\ x \notin {"tree", "copies", "loop"} /\ ListerOK'
  BY <1>1, <1>4, StateKept, Constants DEF Call, Step, Fits
<1>6. OpOK(o) /\ o.at \notin {"tree", "copies"}
  BY <1>2, <1>4, <1>5, CallOK
<1>7. Inv'
  BY <1>3, <1>4, <1>5, <1>6, CallStep
<1> QED BY <1>4, <1>7, HeededNothing

(* plfs_mkdir and plfs_rmdir. *)
LEMMA DirCallStep ==
  ASSUME Inv, NEW n \in Nodes, NEW call, call \in {"mkdir", "rmdir"}, DirCall(n, call)
  PROVE  Inv' /\ \E S : Heeded(S)
<1>1. PICK o : o = [call |-> call, at |-> "loop", name |-> Names[1], to |-> Names[1], b |-> 1, attempts |-> 0]
  OBVIOUS
<1>2. op' = [op EXCEPT ![n] = o]
  <2>1. op' = [op EXCEPT ![n] = OfDir(call, "loop", 1)]
    BY DEF DirCall, OfDir
  <2> QED BY <1>1, <2>1, Calling
<1>3. /\ ~Busy(n) /\ UNCHANGED <<state, history>> /\ lister' = lister
      /\ place' = place /\ trash' = trash
  BY DEF DirCall, Enters, state
<1>4. /\ call \in Call /\ "loop" \in Step /\ 1 \in 0..Backends /\ Fits(call, "loop")
      /\ Names[1] \in Name /\ 1 # 0 /\ "loop" \notin {"tree", "copies"}
  BY Constants DEF Call, Step, Fits
<1>5. OpOK(o) /\ o.at \notin {"tree", "copies"}
  BY <1>1, <1>4, CallOK
<1>6. Inv'
  BY <1>2, <1>3, <1>5, StateKept, CallStep
<1> QED BY <1>3, <1>6, HeededNothing

(* To the next backend. *)
LEMMA OpNext ==
  ASSUME TypeOK, OpsOK, NEW n \in Nodes, op[n].b # Backends, op' = [op EXCEPT ![n].b = @ + 1]
  PROVE  \E o : /\ op' = [op EXCEPT ![n] = o] /\ OpOK(o) /\ o.b = op[n].b + 1
                /\ o.at = op[n].at /\ o.call = op[n].call /\ o.name = op[n].name /\ o.to = op[n].to
<1>1. PICK w : w = op[n]
  OBVIOUS
<1>2. w \in Op /\ OpOK(w) /\ w.b # Backends /\ w.b \in 0..Backends
  BY <1>1, OpFacts, OpParts
<1>3. PICK y : y = w.b + 1
  OBVIOUS
<1>4. y \in 0..Backends /\ y # 0
  BY <1>2, <1>3, Constants
<1>5. PICK o : o = [call |-> w.call, at |-> w.at, name |-> w.name, to |-> w.to, b |-> y, attempts |-> w.attempts]
  OBVIOUS
<1>6. o \in Op
  BY <1>2, <1>4, <1>5, OpParts, OpType
<1>7. [w EXCEPT !.b = y] = o
  <2>1. PICK c, a, p, q, x, z : w = [call |-> c, at |-> a, name |-> p, to |-> q, b |-> x, attempts |-> z]
    BY <1>2, OpParts
  <2> QED BY <1>5, <2>1
<1>8. op' = [op EXCEPT ![n] = o]
  BY <1>1, <1>3, <1>7
<1>9. /\ o.at = w.at /\ o.call = w.call /\ o.name = w.name /\ o.to = w.to
      /\ o.attempts = w.attempts /\ o.b = y
  BY <1>5
<1>10. OpOK(o)
  BY <1>2, <1>4, <1>6, <1>9 DEF OpOK
<1> QED BY <1>1, <1>3, <1>8, <1>9, <1>10

LEMMA BackendStep ==
  ASSUME Inv, NEW n \in Nodes, op[n].call \in {"mkdir", "rmdir"}, NextBackend(n),
         UNCHANGED <<place, trash, lister, history>>, dir' \subseteq Backend
  PROVE  Inv' /\ \E S : Heeded(S)
<1>1. TypeOK /\ OpsOK
  BY DEF Inv
<1>2. op[n].at = "loop"
  BY <1>1 DEF OpsOK, OpOK, Fits
<1>3. PICK o : op' = [op EXCEPT ![n] = o] /\ OpOK(o) /\ o.at \notin {"tree", "copies"}
  <2>1. CASE op[n].b = Backends
    BY <2>1, OpReturn DEF NextBackend
  <2>2. CASE op[n].b # Backends
    <3>1. op' = [op EXCEPT ![n].b = @ + 1]
      BY <2>2 DEF NextBackend
    <3>2. PICK o : op' = [op EXCEPT ![n] = o] /\ OpOK(o) /\ o.at = op[n].at
      BY <1>1, <2>2, <3>1, OpNext
    <3> QED BY <1>2, <3>2
  <2> QED BY <2>1, <2>2
<1>4. /\ place' = place /\ trash' = trash /\ UNCHANGED <<files, acked, tainted, spoiled>>
      /\ lister' = lister /\ faults' = faults
  BY DEF history
<1>5. Inv'
  BY <1>2, <1>3, <1>4, StateKept, QuietStep
<1> QED BY <1>4, <1>5, HeededNothing

LEMMA MkdirStep ==
  ASSUME Inv, NEW n \in Nodes, plfs_mkdir(n)
  PROVE  Inv' /\ \E S : Heeded(S)
<1>1. op[n] \in Op /\ op[n].at = "loop" /\ op[n].b # 0
  BY DEF Inv, OpsOK, OpOK, Fits, plfs_mkdir
<1>2. op[n].b \in Backend
  BY <1>1, OpParts, Constants DEF Backend
<1>3. dir \subseteq Backend
  BY DEF Inv, TypeOK
<1> QED BY <1>2, <1>3, BackendStep DEF plfs_mkdir

LEMMA RmdirStep ==
  ASSUME Inv, NEW n \in Nodes, plfs_rmdir(n)
  PROVE  Inv' /\ \E S : Heeded(S)
<1>1. dir \subseteq Backend
  BY DEF Inv, TypeOK
<1> QED BY <1>1, BackendStep DEF plfs_rmdir

(* A place gets host directories, or droppings. *)
LEMMA PlaceGrown ==
  ASSUME Inv, NEW k \in Places, NEW c, IsPlace(c), c.id = place[k].id, c.links = place[k].links,
         c.there, DOMAIN c.dirs \cap DOMAIN c.links = {}, place' = [place EXCEPT ![k] = c]
  PROVE  /\ PlaceTypeOK' /\ PlacesOK'
         /\ \A q \in Name : cid(q)' = cid(q)
         /\ \A q \in Name, m \in Nodes : Where(q, m)' = Where(q, m)
         /\ There(k)' /\ \A l \in Places : l # k => There(l)' = There(l)
         /\ \A m \in Nodes : DirsAt(k, m)' = DirsOf(c, m)
         /\ \A l \in Places, m \in Nodes : l # k => DirsAt(l, m)' = DirsAt(l, m)
<1>1. TypeOK /\ PlacesOK
  BY DEF Inv
<1>2. k # Canonical(k[2]) => c.id = 0
  BY <1>1 DEF PlacesOK
<1>3. /\ PlaceTypeOK' /\ PlacesOK' /\ place'[k] = c
      /\ \A l \in Places : l # k => place'[l] = place[l]
  BY <1>1, <1>2, PlaceSet
<1>4. \A q \in Name : cid(q) = place[Canonical(q)].id
  BY DEF cid
<1>5. \A q \in Name, m \in Nodes : Where(q, m) = LeadsTo(place[Canonical(q)], Canonical(q), m)
  BY DEF Where
<1>6. \A m \in Nodes : LeadsTo(c, k, m) = LeadsTo(place[k], k, m)
  BY DEF LeadsTo
<1> QED BY <1>3, <1>4, <1>5, <1>6, PlaceEffect

LEMMA ResolvedIs ==
  ASSUME NEW p, NEW n
  PROVE  Resolved(n, p) = {k \in {Where(p, n)} : n \in DOMAIN place[k].dirs}
  BY DEF Resolved, Where, LeadsTo

(* addWriter. *)
LEMMA OpenCall ==
  ASSUME Inv, NEW n \in Nodes, op[n].at \in {"try", "shadow", "link"}
  PROVE  /\ op[n].call = "open" /\ op[n].name \in Name /\ Home[n] \in Backend
         /\ op[n].at \in {"shadow", "link"} => op[n].attempts # 2
<1>1. OpOK(op[n]) /\ op[n].call \in Call /\ op[n].name \in Name
  BY OpFacts, OpParts DEF Inv
<1> QED BY <1>1, Constants DEF OpOK, Fits, Call

LEMMA TryOpenStep ==
  ASSUME Inv, NEW n \in Nodes, TryOpen(n)
  PROVE  Inv' /\ \E S : Heeded(S)
<1>1. TypeOK /\ OpsOK /\ PlacesOK /\ FilesInv /\ HistoryOK /\ ListerOK
  BY TypeParts DEF Inv
<1>2. op[n].at = "try" /\ op[n].call = "open"
  BY OpenCall DEF TryOpen
<1>3. PICK p \in Name : p = op[n].name
  BY <1>1, OpFacts
<1>4. /\ dir' = dir /\ trash' = trash /\ lister' = lister
      /\ files' = files /\ tainted' = tainted /\ spoiled' = spoiled /\ faults' = faults
  BY DEF TryOpen
<1>5. TrashOK' /\ ListerOK'
  BY <1>1, <1>4, TypeParts DEF TrashOK, ListerOK
<1>6. ASSUME NEW k \in Resolved(n, p),
             place' = [place EXCEPT ![k].dirs[n] = @ \cup {<<place[Canonical(p)].id, n>>}],
             acked' = acked \cup {<<j, n>> : j \in {place[Canonical(p)].id} \ {0}}, Return(n)
      PROVE  Inv' /\ \E S : Heeded(S)
  <2>1. k = Where(p, n) /\ n \in DOMAIN place[k].dirs /\ k \in Places
    BY <1>1, <1>3, ResolvedIs, PlaceFacts
  <2>2. IsPlace(place[k]) /\ DOMAIN place[k].dirs \cap DOMAIN place[k].links = {}
    BY <1>1, <2>1, PlaceFacts DEF PlacesOK
  <2>3. place[k].there
    BY <1>1, <2>1, EmptyPlaces DEF PlacesOK
  <2>4. PICK D \in SUBSET Nodes : place[k].dirs \in [D -> SUBSET Dropping]
    BY <2>2 DEF IsPlace
  <2>5. PICK L \in SUBSET Nodes : place[k].links \in [L -> Places]
    BY <2>2 DEF IsPlace, Places
  <2>6. PICK i \in Nat : i = place[Canonical(p)].id /\ i = cid(p) /\ i \in 0..files
    <3>1. cid(p) \in 0..files /\ cid(p) \in Nat
      BY <1>1, PlaceFacts DEF FilesInv, IdsOK
    <3> QED BY <3>1 DEF cid
  <2>7. PICK e : e = [place[k].dirs EXCEPT ![n] = @ \cup {<<i, n>>}]
    OBVIOUS
  <2>8. /\ e \in [D -> SUBSET Dropping] /\ n \in D /\ e[n] = place[k].dirs[n] \cup {<<i, n>>}
        /\ \A m \in D : m # n => e[m] = place[k].dirs[m]
    BY <2>1, <2>4, <2>7 DEF Dropping
  <2>9. PICK c : c = [id |-> place[k].id, there |-> place[k].there, dirs |-> e, links |-> place[k].links]
    OBVIOUS
  <2>10. /\ c.id = place[k].id /\ c.there = place[k].there /\ c.dirs = e
         /\ c.links = place[k].links
    BY <2>9
  <2>11. IsPlace(c)
    <3>1. place[k].id \in Nat /\ place[k].there \in BOOLEAN
      BY <2>2, PlaceFields
    <3> QED BY <2>5, <2>8, <2>9, <3>1, PlaceType
  <2>12. DOMAIN c.dirs \cap DOMAIN c.links = {}
    BY <2>2, <2>4, <2>8, <2>10
  <2>13. place' = [place EXCEPT ![k] = c]
    <3>1. [place[k] EXCEPT !.dirs = e] = c
      <4>1. PICK w : w = place[k]
        OBVIOUS
      <4>2. w = [id |-> w.id, there |-> w.there, dirs |-> w.dirs, links |-> w.links]
        BY <2>2, <4>1 DEF IsPlace
      <4> QED BY <2>9, <4>1, <4>2
    <3> QED BY <1>6, <2>6, <2>7, <3>1
  <2>14. /\ DirsOf(c, n) = DirsAt(k, n) \cup {<<cid(p), n>>}
         /\ \A m \in Nodes : m # n => DirsOf(c, m) = DirsAt(k, m)
    BY <2>4, <2>6, <2>8, <2>10 DEF DirsOf, DirsAt
  <2>15. There(k)
    BY <2>3 DEF There
  <2>16. /\ PlaceTypeOK' /\ PlacesOK'
         /\ \A q \in Name : cid(q)' = cid(q)
         /\ \A q \in Name, m \in Nodes : Where(q, m)' = Where(q, m)
         /\ There(k)' /\ \A l \in Places : l # k => There(l)' = There(l)
         /\ \A m \in Nodes : DirsAt(k, m)' = DirsOf(c, m)
         /\ \A l \in Places, m \in Nodes : l # k => DirsAt(l, m)' = DirsAt(l, m)
    BY <2>1, <2>3, <2>10, <2>11, <2>12, <2>13, PlaceGrown
  <2>17. /\ op' \in [Nodes -> Op] /\ OpsOK'
         /\ \A m \in Nodes, q \in Name : Removing(m, q)' = Removing(m, q)
         /\ \A m \in Nodes, b \in Backend, q \in Name : WillRemove(m, b, q)' = WillRemove(m, b, q)
    BY <1>1, <1>2, <1>6, OpReturn, QuietOp
  <2>18. FilesInv'
    <3>1. acked' = acked \cup {<<j, n>> : j \in {cid(p)} \ {0}}
      BY <1>6 DEF cid
    <3>2. DirsAt(k, n)' = DirsAt(k, n) \cup {<<cid(p), n>>}
      BY <2>14, <2>16
    <3>3. \A l \in Places, m \in Nodes : l # k \/ m # n => DirsAt(l, m)' = DirsAt(l, m)
      BY <2>14, <2>16
    <3>4. \A l \in Places : There(l)' = There(l)
      BY <2>15, <2>16, <1>1, PlaceFacts
    <3> QED BY <1>1, <1>4, <2>1, <2>15, <2>16, <2>17, <3>1, <3>2, <3>3, <3>4, FilesWritten
  <2>19. HistoryOK'
    <3>1. \A j \in {i} \ {0} : j \in 1..files
      BY <2>6
    <3> QED BY <1>1, <1>4, <1>6, <2>6, <3>1 DEF HistoryOK
  <2>20. Heeded({})
    <3>1. \A l \in Places : There(l)' = There(l)
      BY <2>15, <2>16, <1>1, PlaceFacts
    <3> QED BY <1>4, <2>16, <3>1, EntriesSame DEF Heeded
  <2> QED BY <1>5, <2>16, <2>17, <2>18, <2>19, <2>20, TypePartsNext DEF Inv
<1>7. CASE /\ Resolved(n, p) = {}
           /\ \/ Return(n)
              \/ Goto(n, "shadow") /\ op[n].attempts # 2
           /\ UNCHANGED <<place, acked>>
  <2>1. PICK o : op' = [op EXCEPT ![n] = o] /\ OpOK(o) /\ o.at \notin {"tree", "copies"}
    <3>1. CASE Return(n)
      BY <3>1, OpReturn
    <3>2. CASE Goto(n, "shadow") /\ op[n].attempts # 2
      <4>1. "shadow" \in Step /\ Fits(op[n].call, "shadow")
        BY <1>2 DEF Step, Fits
      <4>2. PICK o : op' = [op EXCEPT ![n] = o] /\ OpOK(o) /\ o.at = "shadow"
        BY <1>1, <3>2, <4>1, OpGoto
      <4> QED BY <4>2
    <3> QED BY <1>7, <3>1, <3>2
  <2>2. place' = place /\ UNCHANGED <<files, acked, tainted, spoiled>>
    BY <1>4, <1>7
  <2>3. Inv'
    BY <1>2, <1>4, <1>5, <2>1, <2>2, StateKept, QuietStep
  <2> QED BY <1>4, <2>2, <2>3, HeededNothing
<1>8. \/ \E k \in Resolved(n, p) :
           /\ place' = [place EXCEPT ![k].dirs[n] = @ \cup {<<place[Canonical(p)].id, n>>}]
           /\ acked' = acked \cup {<<j, n>> : j \in {place[Canonical(p)].id} \ {0}} /\ Return(n)
      \/ /\ Resolved(n, p) = {}
         /\ \/ Return(n)
            \/ Goto(n, "shadow") /\ op[n].attempts # 2
         /\ UNCHANGED <<place, acked>>
  BY <1>3 DEF TryOpen
<1> QED BY <1>6, <1>7, <1>8

(* A directory is made where there was nothing. *)
LEMMA MadeThere ==
  ASSUME NEW c, IsPlace(c), NEW d, d = [c EXCEPT !.there = TRUE]
  PROVE  /\ IsPlace(d) /\ d.there = TRUE
         /\ d.id = c.id /\ d.dirs = c.dirs /\ d.links = c.links
<1>1. c = [id |-> c.id, there |-> c.there, dirs |-> c.dirs, links |-> c.links]
  BY DEF IsPlace
<1>2. d = [id |-> c.id, there |-> TRUE, dirs |-> c.dirs, links |-> c.links]
  BY <1>1
<1>3. d.there = TRUE /\ d.id = c.id /\ d.dirs = c.dirs /\ d.links = c.links
  BY <1>2
<1>4. IsPlace(d)
  BY <1>2, <1>3 DEF IsPlace
<1> QED BY <1>3, <1>4

LEMMA MakeShadowStep ==
  ASSUME Inv, NEW n \in Nodes, MakeShadow(n)
  PROVE  Inv' /\ \E S : Heeded(S)
<1>1. TypeOK /\ OpsOK /\ PlacesOK /\ FilesInv /\ HistoryOK /\ ListerOK
  BY TypeParts DEF Inv
<1>2. op[n].at = "shadow" /\ op[n].call = "open" /\ op[n].attempts # 2 /\ op[n].name \in Name
  BY OpenCall DEF MakeShadow
<1>3. PICK k \in Places : k = <<Home[n], op[n].name>> /\ k[2] = op[n].name /\ k[2] \in Name
  <2>1. <<Home[n], op[n].name>> \in Places
    BY <1>2, Constants DEF Places
  <2>2. <<Home[n], op[n].name>>[2] = op[n].name
    OBVIOUS
  <2> QED BY <1>2, <2>1, <2>2
<1>4. dir' = dir /\ trash' = trash /\ files' = files /\ acked' = acked
  BY DEF MakeShadow
<1>5. TrashOK'
  BY <1>1, <1>4, TypeParts DEF TrashOK
<1>6. CASE /\ place' = [place EXCEPT ![k] = WithHost([@ EXCEPT !.there = TRUE], n)]
           /\ (IF place[k].there THEN UNCHANGED lister ELSE Noting({<<"name", k[2]>>}))
           /\ (IF isContainer(k[2]) THEN UNCHANGED <<tainted, spoiled>>
               ELSE tainted' = tainted \cup {k[2]} /\ spoiled' = spoiled \cup LinkedTo(k[2]))
           /\ Goto(n, "link") /\ UNCHANGED faults
  <2>1. IsPlace(place[k]) /\ DOMAIN place[k].dirs \cap DOMAIN place[k].links = {}
    BY <1>1, PlaceFacts DEF PlacesOK
  <2>2. PICK d : d = [place[k] EXCEPT !.there = TRUE]
    OBVIOUS
  <2>3. /\ IsPlace(d) /\ d.there = TRUE
        /\ d.id = place[k].id /\ d.dirs = place[k].dirs /\ d.links = place[k].links
    BY <2>1, <2>2, MadeThere
  <2>4. PICK c : c = WithHost(d, n)
    OBVIOUS
  <2>5. /\ IsPlace(c) /\ c.id = place[k].id /\ c.there /\ c.links = place[k].links
        /\ \A m \in Nodes : DirsOf(c, m) = DirsOf(d, m)
        /\ DOMAIN c.dirs \cap DOMAIN c.links = {}
    BY <2>1, <2>3, <2>4, HostAdded
  <2>6. place' = [place EXCEPT ![k] = c]
    BY <1>6, <2>2, <2>4
  <2>7. /\ PlaceTypeOK' /\ PlacesOK'
        /\ \A q \in Name : cid(q)' = cid(q)
        /\ \A q \in Name, m \in Nodes : Where(q, m)' = Where(q, m)
        /\ There(k)' /\ \A l \in Places : l # k => There(l)' = There(l)
        /\ \A m \in Nodes : DirsAt(k, m)' = DirsOf(c, m)
        /\ \A l \in Places, m \in Nodes : l # k => DirsAt(l, m)' = DirsAt(l, m)
    BY <2>5, <2>6, PlaceGrown
  <2>8. \A l \in Places, m \in Nodes : DirsAt(l, m)' = DirsAt(l, m)
    <3>1. \A m \in Nodes : DirsOf(d, m) = DirsAt(k, m)
      BY <2>3 DEF DirsOf, DirsAt
    <3> QED BY <2>5, <2>7, <3>1
  <2>9. PICK o : op' = [op EXCEPT ![n] = o] /\ OpOK(o) /\ o.at = "link"
    <3>1. "link" \in Step /\ Fits(op[n].call, "link")
      BY <1>2 DEF Step, Fits
    <3> QED BY <1>1, <1>2, <1>6, <3>1, OpGoto
  <2>10. /\ op' \in [Nodes -> Op] /\ OpsOK'
         /\ \A m \in Nodes, q \in Name : Removing(m, q)' = Removing(m, q)
         /\ \A m \in Nodes, b \in Backend, q \in Name : WillRemove(m, b, q)' = WillRemove(m, b, q)
    BY <1>1, <1>2, <2>9, QuietOp
  <2>11. /\ tainted \subseteq tainted' /\ spoiled \subseteq spoiled'
         /\ cid(k[2]) = 0 => k[2] \in tainted' /\ LinkedTo(k[2]) \subseteq spoiled'
    BY <1>6 DEF isContainer, cid
  <2>12. FilesInv'
    <3>1. \A p \in Name, m \in Nodes : Where(p, m) \in Places
      BY <1>1, PlaceFacts
    <3>2. ASSUME NEW p \in Name, NEW b \in Backend,
                 cid(p) = 0, p \notin tainted', b # Canon[p], There(<<b, p>>)'
          PROVE  There(<<b, p>>) /\ \A m \in Nodes : WillRemove(m, b, p) => WillRemove(m, b, p)'
      <4>1. <<b, p>> # k /\ <<b, p>> \in Places
        BY <2>11, <3>2 DEF Places
      <4> QED BY <2>7, <2>10, <3>2, <4>1
    <3>3. ASSUME NEW q \in Name, There(Canonical(q))', ~There(Canonical(q))
          PROVE  \A p \in Name, m \in Nodes : p # q /\ Where(p, m)[2] = q => ~(Unspoiled(p)')
      <4>1. Canonical(q) = k /\ k[2] = q
        BY <2>7, <3>3, CanonicalPlace DEF Canonical
      <4>2. cid(q) = 0
        BY <1>1, <3>3, NothingThere
      <4>3. LinkedTo(q) \subseteq spoiled'
        BY <2>11, <4>1, <4>2
      <4> SUFFICES ASSUME NEW p \in Name, NEW m \in Nodes, p # q, Where(p, m)[2] = q
                   PROVE  ~(Unspoiled(p)')
        OBVIOUS
      <4>4. cid(p) \in spoiled'
        BY <1>1, <4>3, LinkedIs
      <4> QED BY <2>7, <4>4 DEF Unspoiled
    <3>4. \A p \in Name, b \in Backend :
            cid(p) = 0 /\ p \notin tainted' /\ b # Canon[p] /\ There(<<b, p>>)' =>
              There(<<b, p>>) /\ \A m \in Nodes : WillRemove(m, b, p) => WillRemove(m, b, p)'
      BY <3>2
    <3>5. \A q \in Name : There(Canonical(q))' =>
            \/ There(Canonical(q))
            \/ \A p \in Name, m \in Nodes : p # q /\ Where(p, m)[2] = q => ~(Unspoiled(p)')
      BY <3>3
    <3> QED BY <1>1, <1>4, <2>7, <2>8, <2>10, <2>11, <3>1, <3>4, <3>5, FilesSame
  <2>13. HistoryOK'
    <3>1. tainted' \subseteq Name
      BY <1>1, <1>3, <1>6 DEF HistoryOK
    <3>2. spoiled' \subseteq 0..files
      BY <1>1, <1>6, LinkedFiles DEF HistoryOK
    <3> QED BY <1>1, <1>4, <1>6, <3>1, <3>2 DEF HistoryOK
  <2>14. \E S : Heeded(S)
    <3>1. CASE place[k].there
      <4>1. \A l \in Places : There(l)' = There(l)
        <5>1. There(k) = TRUE /\ There(k)' = TRUE
          BY <2>7, <3>1, <1>1, PlaceFacts DEF There, PlaceTypeOK, IsPlace
        <5> QED BY <2>7, <5>1
      <4> QED BY <1>4, <1>6, <2>7, <3>1, <4>1, EntriesSame DEF Heeded
    <3>2. CASE ~place[k].there
      <4>1. Noting({<<"name", k[2]>>})
        BY <1>6, <3>2
      <4>2. \A b \in Backend : \A e : e # <<"name", k[2]>> => (e \in EntriesOn(b)' <=> e \in EntriesOn(b))
        BY <1>4, <2>7, EntriesAt
      <4> QED BY <4>1, <4>2 DEF Heeded
    <3> QED BY <3>1, <3>2
  <2> QED BY <1>1, <1>5, <2>7, <2>10, <2>12, <2>13, <2>14, ListerKept, TypePartsNext DEF Inv
<1>7. CASE /\ faults' = faults \/ Fails("mkdir")
           /\ Again(n) /\ UNCHANGED <<place, lister, tainted, spoiled>>
  <2>1. PICK o : op' = [op EXCEPT ![n] = o] /\ OpOK(o) /\ o.at = "try"
    BY <1>1, <1>2, <1>7, OpAgain
  <2>2. /\ place' = place /\ lister' = lister /\ UNCHANGED <<files, acked, tainted, spoiled>>
        /\ faults' = faults \/ \E f : Fails(f)
    BY <1>4, <1>7
  <2>3. Inv'
    BY <1>2, <1>4, <2>1, <2>2, StateKept, QuietStep
  <2> QED BY <1>4, <2>2, <2>3, HeededNothing
<1>8. k = <<Home[n], op[n].name>>
  BY <1>3
<1>9. \/ /\ place' = [place EXCEPT ![k] = WithHost([@ EXCEPT !.there = TRUE], n)]
         /\ (IF place[k].there THEN UNCHANGED lister ELSE Noting({<<"name", k[2]>>}))
         /\ (IF isContainer(k[2]) THEN UNCHANGED <<tainted, spoiled>>
             ELSE tainted' = tainted \cup {k[2]} /\ spoiled' = spoiled \cup LinkedTo(k[2]))
         /\ Goto(n, "link") /\ UNCHANGED faults
      \/ /\ faults' = faults \/ Fails("mkdir")
         /\ Again(n) /\ UNCHANGED <<place, lister, tainted, spoiled>>
  BY <1>8 DEF MakeShadow
<1> QED BY <1>6, <1>7, <1>9

LEMMA LinkStep ==
  ASSUME Inv, NEW n \in Nodes, Link(n)
  PROVE  Inv' /\ \E S : Heeded(S)
<1>1. TypeOK /\ OpsOK /\ PlacesOK /\ FilesInv /\ HistoryOK
  BY TypeParts DEF Inv
<1>2. op[n].at = "link" /\ op[n].name \in Name /\ Home[n] \in Backend
  BY OpenCall DEF Link
<1>3. PICK p \in Name : p = op[n].name
  BY <1>2
<1>4. PICK k \in Places : k = Canonical(p) /\ k[2] = p
  BY CanonicalPlace
<1>5. /\ dir' = dir /\ trash' = trash /\ lister' = lister /\ faults' = faults
      /\ files' = files /\ acked' = acked /\ tainted' = tainted /\ spoiled' = spoiled
  BY DEF Link, history
<1>6. PICK o : op' = [op EXCEPT ![n] = o] /\ OpOK(o) /\ o.at = "try"
  BY <1>1, <1>2, OpAgain DEF Link
<1>7. CASE /\ place[k].there /\ n \notin Hosts(place[k])
           /\ place' = [place EXCEPT ![k].links = And(@, n, <<Home[n], p>>)]
  <2>1. IsPlace(place[k]) /\ DOMAIN place[k].dirs \cap DOMAIN place[k].links = {}
    BY <1>1, PlaceFacts DEF PlacesOK
  <2>2. PICK D \in SUBSET Nodes : place[k].dirs \in [D -> SUBSET Dropping]
    BY <2>1 DEF IsPlace
  <2>3. PICK L \in SUBSET Nodes : place[k].links \in [L -> Places]
    BY <2>1 DEF IsPlace, Places
  <2>4. PICK e : e = And(place[k].links, n, <<Home[n], p>>)
    OBVIOUS
  <2>5. /\ e \in [L \cup {n} -> Places] /\ L \cup {n} \in SUBSET Nodes
        /\ e[n] = <<Home[n], p>> /\ \A m \in L : m # n => e[m] = place[k].links[m]
    BY <1>2, <2>3, <2>4 DEF And, Places
  <2>6. PICK c : c = [id |-> place[k].id, there |-> place[k].there, dirs |-> place[k].dirs, links |-> e]
    OBVIOUS
  <2>7. /\ c.id = place[k].id /\ c.there = place[k].there /\ c.dirs = place[k].dirs /\ c.links = e
    BY <2>6
  <2>8. IsPlace(c)
    <3>1. place[k].id \in Nat /\ place[k].there \in BOOLEAN
      BY <2>1, PlaceFields
    <3> QED BY <2>2, <2>5, <2>6, <3>1, PlaceType
  <2>9. n \notin D /\ n \notin L
    BY <1>7, <2>2, <2>3 DEF Hosts
  <2>10. DOMAIN c.dirs \cap DOMAIN c.links = {}
    BY <2>1, <2>2, <2>3, <2>5, <2>7, <2>9
  <2>11. place' = [place EXCEPT ![k] = c]
    <3>1. [place[k] EXCEPT !.links = e] = c
      <4>1. PICK w : w = place[k]
        OBVIOUS
      <4>2. w = [id |-> w.id, there |-> w.there, dirs |-> w.dirs, links |-> w.links]
        BY <2>1, <4>1 DEF IsPlace
      <4> QED BY <2>6, <4>1, <4>2
    <3> QED BY <1>7, <2>4, <3>1
  <2>12. ~c.there => c = NoPlace
    BY <1>7, <2>7
  <2>13. k # Canonical(k[2]) => c.id = 0
    BY <1>4
  <2>14. /\ PlaceTypeOK' /\ PlacesOK' /\ place'[k] = c
         /\ \A l \in Places : l # k => place'[l] = place[l]
    BY <1>1, <2>8, <2>10, <2>11, <2>12, <2>13, PlaceSet
  <2>15. /\ \A q \in Name : Canonical(q) = k <=> q = p
         /\ cid(p) = place[k].id /\ There(k) = place[k].there
         /\ \A m \in Nodes : DirsAt(k, m) = DirsOf(place[k], m)
         /\ \A m \in Nodes : Where(p, m) = LeadsTo(place[k], k, m)
    BY <1>4, CanonicalPlace DEF cid, There, DirsAt, Where
  <2>16. /\ \A m \in Nodes : DirsOf(c, m) = DirsOf(place[k], m)
         /\ \A m \in Nodes : m # n => LeadsTo(c, k, m) = LeadsTo(place[k], k, m)
         /\ LeadsTo(c, k, n) = <<Home[n], p>> /\ LeadsTo(place[k], k, n) = k
         /\ DirsOf(place[k], n) = {}
    BY <2>2, <2>3, <2>5, <2>7, <2>9 DEF DirsOf, LeadsTo
  <2>17. /\ \A q \in Name : cid(q)' = cid(q)
         /\ \A l \in Places, m \in Nodes : DirsAt(l, m)' = DirsAt(l, m)
         /\ \A l \in Places : There(l)' = There(l)
         /\ Where(p, n)' = <<Home[n], p>>
         /\ \A q \in Name, m \in Nodes : q # p \/ m # n => Where(q, m)' = Where(q, m)
    BY <2>7, <2>14, <2>15, <2>16, PlaceEffect
  <2>18. /\ op' \in [Nodes -> Op] /\ OpsOK'
         /\ \A m \in Nodes, q \in Name : Removing(m, q)' = Removing(m, q)
         /\ \A m \in Nodes, b \in Backend, q \in Name : WillRemove(m, b, q)' = WillRemove(m, b, q)
    BY <1>1, <1>2, <1>6, QuietOp
  <2>19. FilesInv'
    BY <1>1, <1>4, <1>5, <2>15, <2>16, <2>17, <2>18, FilesLinked
  <2>20. TrashOK' /\ HistoryOK' /\ ListerOK'
    BY <1>1, <1>5, TypeParts DEF TrashOK, HistoryOK, ListerOK
  <2>21. Heeded({})
    BY <1>5, <2>17, EntriesSame DEF Heeded
  <2> QED BY <2>14, <2>18, <2>19, <2>20, <2>21, TypePartsNext DEF Inv
<1>8. CASE place' = place
  <2>1. Inv'
    BY <1>2, <1>5, <1>6, <1>8, StateKept, QuietStep
  <2> QED BY <1>5, <1>8, <2>1, HeededNothing
<1>9. \/ /\ place[k].there /\ n \notin Hosts(place[k])
         /\ place' = [place EXCEPT ![k].links = And(@, n, <<Home[n], p>>)]
      \/ place' = place
  BY <1>3, <1>4 DEF Link
<1> QED BY <1>7, <1>8, <1>9

-----------------------------------------------------------------------------
(* plfs_unlink. *)
LEMMA PlaceGone ==
  ASSUME Inv, NEW k \in Places, place' = [place EXCEPT ![k] = NoPlace]
  PROVE  /\ PlaceTypeOK' /\ PlacesOK'
         /\ ~(There(k)') /\ \A m \in Nodes : DirsAt(k, m)' = {}
         /\ \A l \in Places : l # k => There(l)' = There(l)
         /\ \A l \in Places, m \in Nodes : l # k => DirsAt(l, m)' = DirsAt(l, m)
         /\ \A q \in Name : Canonical(q) # k => cid(q)' = cid(q)
         /\ \A q \in Name, m \in Nodes : Canonical(q) # k => Where(q, m)' = Where(q, m)
         /\ \A q \in Name : Canonical(q) = k => cid(q)' = 0
         /\ \A q \in Name, m \in Nodes : Canonical(q) = k => Where(q, m)' = k
<1>1. PICK c : c = NoPlace
  OBVIOUS
<1>2. /\ IsPlace(c) /\ c.id = 0 /\ c.there = FALSE
      /\ DOMAIN c.dirs = {} /\ DOMAIN c.links = {}
  BY <1>1, EmptyPlaces
<1>3. /\ PlaceTypeOK' /\ PlacesOK' /\ place'[k] = c
      /\ \A l \in Places : l # k => place'[l] = place[l]
  BY <1>1, <1>2, PlaceSet DEF Inv
<1>4. \A m \in Nodes : DirsOf(c, m) = {} /\ LeadsTo(c, k, m) = k
  BY <1>2 DEF DirsOf, LeadsTo
<1> QED BY <1>2, <1>3, <1>4, PlaceEffect

LEMMA OpUnlinked ==
  ASSUME TypeOK, OpsOK, NEW n \in Nodes, op[n].at \in {"canonical", "tree", "copies"}, Unlinked(n)
  PROVE  \E o : /\ op' = [op EXCEPT ![n] = o] /\ OpOK(o) /\ o.at \notin {"tree", "copies"}
<1>1. CASE op[n].call = "unlink"
  BY <1>1, OpReturn DEF Unlinked
<1>2. CASE op[n].call # "unlink"
  <2>1. op[n].call = "rename"
    <3>1. op[n] \in Op /\ OpOK(op[n]) /\ op[n].call \in Call
      BY OpFacts, OpParts
    <3> QED BY <1>2, <3>1 DEF OpOK, Fits, Call
  <2>2. "rename" \in Step /\ Fits(op[n].call, "rename") /\ Goto(n, "rename")
    BY <1>2, <2>1 DEF Step, Fits, Unlinked
  <2>3. PICK o : op' = [op EXCEPT ![n] = o] /\ OpOK(o) /\ o.at = "rename"
    BY <2>2, OpGoto
  <2> QED BY <2>3
<1> QED BY <1>1, <1>2

(* The entries without a name. *)
LEMMA EntriesBut ==
  ASSUME NEW p \in Name, NEW k \in Places, k[2] = p,
         \A l \in Places : l # k => There(l)' = There(l),
         \A t : t.name # p => (t \in trash' <=> t \in trash)
  PROVE  \A b \in Backend : \A e : e \notin {<<"name", p>>, Hidden(p)} =>
           (e \in EntriesOn(b)' <=> e \in EntriesOn(b))
<1> TAKE b \in Backend
<1> TAKE e
<1> HAVE e \notin {<<"name", p>>, Hidden(p)}
<1>1. \A q \in Name : q # p => (place'[<<b, q>>].there = place[<<b, q>>].there)
  <2> TAKE q \in Name
  <2>1. q # p => <<b, q>> \in Places /\ <<b, q>> # k
    BY DEF Places
  <2> QED BY <2>1 DEF There
<1>2. (\E q \in Name : e = <<"name", q>> /\ place'[<<b, q>>].there) <=>
        (\E q \in Name : e = <<"name", q>> /\ place[<<b, q>>].there)
  BY <1>1
<1>3. (\E t \in trash' : e = Hidden(t.name) /\ t.b = b) <=> (\E t \in trash : e = Hidden(t.name) /\ t.b = b)
  OBVIOUS
<1>4. e \in EntriesOn(b) <=>
        \/ \E q \in Name : e = <<"name", q>> /\ place[<<b, q>>].there
        \/ \E t \in trash : e = Hidden(t.name) /\ t.b = b
  BY DEF EntriesOn
<1>5. e \in EntriesOn(b)' <=>
        \/ \E q \in Name : e = <<"name", q>> /\ place'[<<b, q>>].there
        \/ \E t \in trash' : e = Hidden(t.name) /\ t.b = b
  BY DEF EntriesOn, Hidden
<1> QED BY <1>2, <1>3, <1>4, <1>5

LEMMA UnlinkCanonicalStep ==
  ASSUME Inv, NEW n \in Nodes, UnlinkCanonical(n)
  PROVE  Inv' /\ \E S : Heeded(S)
<1>1. TypeOK /\ OpsOK /\ PlacesOK /\ FilesInv /\ HistoryOK /\ ListerOK /\ TrashOK
  BY TypeParts DEF Inv
<1>2. op[n].at = "canonical"
  BY DEF UnlinkCanonical
<1>3. PICK p \in Name : p = Victim(n) /\ p = VictimOf(op[n])
  BY <1>1, OpFacts
<1>4. PICK k \in Places : k = Canonical(p) /\ k[2] = p /\ k[1] = Canon[p]
  BY CanonicalPlace
<1>5. dir' = dir /\ files' = files /\ tainted' = tainted /\ faults' = faults
  BY DEF UnlinkCanonical
<1>6. CASE /\ place[k].there
           /\ place' = [place EXCEPT ![k] = NoPlace]
           /\ trash' = trash \cup {[node |-> n, b |-> Canon[p], name |-> p]}
           /\ acked' = {d \in acked : d[1] # place[k].id}
           /\ spoiled' = spoiled \ {place[k].id}
           /\ Goto(n, "tree") /\ Noting({<<"name", p>>, Hidden(p)})
  <2>1. /\ PlaceTypeOK' /\ PlacesOK'
        /\ ~(There(k)') /\ \A m \in Nodes : DirsAt(k, m)' = {}
        /\ \A l \in Places : l # k => There(l)' = There(l)
        /\ \A l \in Places, m \in Nodes : l # k => DirsAt(l, m)' = DirsAt(l, m)
        /\ \A q \in Name : Canonical(q) # k => cid(q)' = cid(q)
        /\ \A q \in Name, m \in Nodes : Canonical(q) # k => Where(q, m)' = Where(q, m)
        /\ \A q \in Name : Canonical(q) = k => cid(q)' = 0
        /\ \A q \in Name, m \in Nodes : Canonical(q) = k => Where(q, m)' = k
    BY <1>6, PlaceGone
  <2>2. \A q \in Name : Canonical(q) = k <=> q = p
    BY <1>4, CanonicalPlace
  <2>3. PICK o : /\ op' = [op EXCEPT ![n] = o] /\ OpOK(o) /\ o.at = "tree"
                 /\ VictimOf(o) = p
    <3>1. op[n] \in Op /\ OpOK(op[n]) /\ op[n].call \in Call
      BY <1>1, OpFacts, OpParts
    <3>2. "tree" \in Step /\ Fits(op[n].call, "tree")
      BY <1>2, <3>1 DEF OpOK, Fits, Call, Step
    <3>3. PICK o : /\ op' = [op EXCEPT ![n] = o] /\ OpOK(o) /\ o.at = "tree"
                   /\ o.call = op[n].call /\ o.name = op[n].name /\ o.to = op[n].to
      BY <1>1, <1>6, <3>2, OpGoto
    <3> QED BY <1>3, <3>3 DEF VictimOf
  <2>4. /\ op' \in [Nodes -> Op] /\ OpsOK' /\ op'[n] = o
        /\ \A m \in Nodes : m # n => op'[m] = op[m]
    BY <1>1, <2>3, OpChange
  <2>5. \A m \in Nodes, q \in Name : Removing(m, q)' => Removing(m, q) \/ q = p
    BY <2>3, <2>4 DEF Removing, Removes
  <2>6. \A m \in Nodes, b \in Backend, q \in Name : WillRemove(m, b, q) => WillRemove(m, b, q)'
    BY <1>2, <2>4 DEF WillRemove, Reaches, Removes
  <2>7. \A b \in Backend : WillRemove(n, b, p)'
    BY <2>3, <2>4 DEF WillRemove, Reaches, Removes
  <2>8. FilesInv'
    <3>1. There(k) /\ place[k].id = cid(p)
      BY <1>4, <1>6 DEF There, cid
    <3>2. \A m \in Nodes : Where(p, m)' = k /\ DirsAt(k, m)' = {}
      BY <2>1, <2>2
    <3>3. cid(p)' = 0 /\ \A q \in Name : q # p => cid(q)' = cid(q)
      BY <2>1, <2>2
    <3>4. \A q \in Name, m \in Nodes : q # p => Where(q, m)' = Where(q, m)
      BY <2>1, <2>2
    <3>5. acked' = {d \in acked : d[1] # cid(p)} /\ spoiled' = spoiled \ {cid(p)}
      BY <1>6, <3>1
    <3> QED BY <1>1, <1>4, <1>5, <2>1, <2>5, <2>6, <2>7, <3>1, <3>2, <3>3, <3>4, <3>5, FilesUnlinked
  <2>9. Heeded({<<"name", p>>, Hidden(p)})
    <3>1. \A t : t.name # p => (t \in trash' <=> t \in trash)
      BY <1>6
    <3>2. \A b \in Backend : \A e : e \notin {<<"name", p>>, Hidden(p)} =>
            (e \in EntriesOn(b)' <=> e \in EntriesOn(b))
      BY <1>4, <2>1, <3>1, EntriesBut
    <3> QED BY <1>6, <3>2 DEF Heeded
  <2>10. HistoryOK' /\ TrashOK'
    <3>1. [node |-> n, b |-> Canon[p], name |-> p] \in [node : Nodes, b : Backend, name : Name]
      BY Constants
    <3> QED BY <1>1, <1>5, <1>6, <3>1 DEF HistoryOK, TrashOK
  <2> QED BY <1>1, <2>1, <2>4, <2>8, <2>9, <2>10, ListerKept, TypePartsNext DEF Inv
<1>7. CASE Unlinked(n) /\ UNCHANGED <<place, trash, lister, acked, spoiled>>
  <2>1. PICK o : op' = [op EXCEPT ![n] = o] /\ OpOK(o) /\ o.at \notin {"tree", "copies"}
    BY <1>1, <1>2, <1>7, OpUnlinked
  <2>2. Inv'
    BY <1>2, <1>5, <1>7, <2>1, StateKept, QuietStep
  <2> QED BY <1>7, <2>2, HeededNothing
<1>8. \/ /\ place[k].there
         /\ place' = [place EXCEPT ![k] = NoPlace]
         /\ trash' = trash \cup {[node |-> n, b |-> Canon[p], name |-> p]}
         /\ acked' = {d \in acked : d[1] # place[k].id}
         /\ spoiled' = spoiled \ {place[k].id}
         /\ Goto(n, "tree") /\ Noting({<<"name", p>>, Hidden(p)})
      \/ Unlinked(n) /\ UNCHANGED <<place, trash, lister, acked, spoiled>>
  BY <1>3, <1>4 DEF UnlinkCanonical
<1> QED BY <1>6, <1>7, <1>8

(* A call gives up on removing the shadows of a name, which taints it. *)
LEMMA TaintedStep ==
  ASSUME Inv, NEW n \in Nodes, NEW o, OpOK(o), op' = [op EXCEPT ![n] = o],
         \A q \in Name : Removes(o, q) => Removes(op[n], q),
         tainted' = tainted \cup {VictimOf(op[n])},
         UNCHANGED <<state, lister, files, acked, spoiled>>, NEW f, Fails(f)
  PROVE  Inv' /\ \E S : Heeded(S)
<1>1. TypeOK /\ OpsOK /\ PlacesOK /\ FilesInv /\ HistoryOK /\ ListerOK /\ TrashOK
  BY TypeParts DEF Inv
<1>2. /\ place' = place /\ trash' = trash /\ dir' = dir /\ lister' = lister
      /\ files' = files /\ acked' = acked /\ spoiled' = spoiled
  BY DEF state
<1>3. /\ op' \in [Nodes -> Op] /\ OpsOK' /\ op'[n] = o
      /\ \A m \in Nodes : m # n => op'[m] = op[m]
  BY <1>1, OpChange
<1>4. PICK p \in Name : p = VictimOf(op[n])
  BY <1>1, OpFacts
<1>5. /\ PlaceTypeOK' /\ PlacesOK'
      /\ \A k \in Places : There(k)' = There(k)
      /\ \A k \in Places, m \in Nodes : DirsAt(k, m)' = DirsAt(k, m)
      /\ \A q \in Name : cid(q)' = cid(q)
      /\ \A q \in Name, m \in Nodes : Where(q, m)' = Where(q, m)
  BY <1>1, <1>2, PlaceKept
<1>6. FilesInv'
  <2>1. \A m \in Nodes, q \in Name : Removing(m, q)' => Removing(m, q)
    BY <1>3 DEF Removing
  <2>2. \A q \in Name, b \in Backend :
          cid(q) = 0 /\ q \notin tainted' /\ b # Canon[q] /\ There(<<b, q>>)' =>
            There(<<b, q>>) /\ \A m \in Nodes : WillRemove(m, b, q) => WillRemove(m, b, q)'
    <3> TAKE q \in Name, b \in Backend
    <3> HAVE cid(q) = 0 /\ q \notin tainted' /\ b # Canon[q] /\ There(<<b, q>>)'
    <3>1. q # p
      BY <1>4
    <3>2. There(<<b, q>>)
      BY <1>5 DEF Places
    <3>3. ~WillRemove(n, b, q)
      BY <1>4, <3>1 DEF WillRemove, Reaches, Removes
    <3>4. \A m \in Nodes : m # n => WillRemove(m, b, q)' = WillRemove(m, b, q)
      BY <1>3 DEF WillRemove
    <3> QED BY <3>2, <3>3, <3>4
  <2>3. \A q \in Name, m \in Nodes : Where(q, m) \in Places
    BY <1>1, PlaceFacts
  <2>4. \A q \in Name : There(Canonical(q))' => There(Canonical(q))
    BY <1>5, CanonicalPlace
  <2> QED BY <1>1, <1>2, <1>5, <2>1, <2>2, <2>3, <2>4, FilesSame
<1>7. faults' \in 0..MaxFaults
  BY <1>1, Failing
<1>8. HistoryOK' /\ TrashOK' /\ ListerOK'
  BY <1>1, <1>2, <1>4, <1>7 DEF HistoryOK, TrashOK, ListerOK
<1> QED BY <1>2, <1>3, <1>5, <1>6, <1>8, HeededNothing, TypePartsNext DEF Inv

(* The tree is gone: to the first backend. *)
LEMMA OpCopies ==
  ASSUME TypeOK, OpsOK, NEW n \in Nodes, op[n].at = "tree",
         op' = [op EXCEPT ![n].at = "copies", ![n].b = 1]
  PROVE  \E o : /\ op' = [op EXCEPT ![n] = o] /\ OpOK(o) /\ o.at = "copies" /\ o.b = 1
                /\ VictimOf(o) = VictimOf(op[n])
<1>1. PICK w : w = op[n]
  OBVIOUS
<1>2. w \in Op /\ OpOK(w) /\ w.call \in Call
  BY <1>1, OpFacts, OpParts
<1>3. PICK o : o = [call |-> w.call, at |-> "copies", name |-> w.name, to |-> w.to, b |-> 1, attempts |-> w.attempts]
  OBVIOUS
<1>4. o \in Op
  <2>1. 1 \in 0..Backends /\ "copies" \in Step
    BY Constants DEF Step
  <2> QED BY <1>2, <1>3, <2>1, OpParts, OpType
<1>5. op' = [op EXCEPT ![n] = o]
  <2>1. PICK c, a, p, q, x, z : w = [call |-> c, at |-> a, name |-> p, to |-> q, b |-> x, attempts |-> z]
    BY <1>2, OpParts
  <2>2. PICK u : u = [w EXCEPT !.at = "copies"]
    OBVIOUS
  <2>3. u = [call |-> c, at |-> "copies", name |-> p, to |-> q, b |-> x, attempts |-> z]
    BY <2>1, <2>2
  <2>4. [u EXCEPT !.b = 1] = o
    BY <1>3, <2>1, <2>3
  <2>5. op' = [[op EXCEPT ![n] = u] EXCEPT ![n].b = 1]
    BY <1>1, <2>2
  <2>6. op \in [Nodes -> Op]
    BY DEF TypeOK
  <2>7. [op EXCEPT ![n] = u][n] = u
    BY <2>6
  <2>8. op' = [[op EXCEPT ![n] = u] EXCEPT ![n] = o]
    BY <2>4, <2>5, <2>7
  <2> QED BY <2>6, <2>8
<1>6. /\ o.at = "copies" /\ o.b = 1 /\ o.call = w.call /\ o.name = w.name /\ o.to = w.to
  BY <1>3
<1>7. OpOK(o)
  BY <1>1, <1>2, <1>4, <1>6 DEF OpOK, Fits, Call
<1> QED BY <1>1, <1>5, <1>6, <1>7 DEF VictimOf

LEMMA RemoveTreeStep ==
  ASSUME Inv, NEW n \in Nodes, RemoveTree(n)
  PROVE  Inv' /\ \E S : Heeded(S)
<1>1. TypeOK /\ OpsOK /\ HistoryOK /\ ListerOK /\ TrashOK
  BY TypeParts DEF Inv
<1>2. op[n].at = "tree"
  BY DEF RemoveTree
<1>3. PICK p \in Name : p = Victim(n) /\ p = VictimOf(op[n])
  BY <1>1, OpFacts
<1>4. dir' = dir /\ files' = files /\ acked' = acked /\ spoiled' = spoiled
  BY DEF RemoveTree
<1>5. CASE /\ trash' = trash \ {[node |-> n, b |-> Canon[p], name |-> p]}
           /\ op' = [op EXCEPT ![n].at = "copies", ![n].b = 1]
           /\ UNCHANGED <<place, tainted, faults>> /\ Noting({Hidden(p)})
  <2>1. PICK o : /\ op' = [op EXCEPT ![n] = o] /\ OpOK(o) /\ o.at = "copies" /\ o.b = 1
                 /\ VictimOf(o) = VictimOf(op[n])
    BY <1>1, <1>2, <1>5, OpCopies
  <2>2. /\ op' \in [Nodes -> Op] /\ OpsOK' /\ op'[n] = o
        /\ \A m \in Nodes : m # n => op'[m] = op[m]
    BY <1>1, <2>1, OpChange
  <2>3. \A m \in Nodes, q \in Name : Removing(m, q)' = Removing(m, q)
    <3> TAKE m \in Nodes, q \in Name
    <3>1. CASE m # n
      BY <2>2, <3>1 DEF Removing
    <3>2. CASE m = n
      BY <1>2, <2>1, <2>2, <3>2 DEF Removing, Removes
    <3> QED BY <3>1, <3>2
  <2>4. \A m \in Nodes, b \in Backend, q \in Name : WillRemove(m, b, q)' = WillRemove(m, b, q)
    <3> TAKE m \in Nodes, b \in Backend, q \in Name
    <3>1. CASE m # n
      BY <2>2, <3>1 DEF WillRemove
    <3>2. CASE m = n
      <4>1. 1 <= b
        BY Constants DEF Backend
      <4> QED BY <1>2, <2>1, <2>2, <3>2, <4>1 DEF WillRemove, Reaches, Removes
    <3> QED BY <3>1, <3>2
  <2>5. Heeded({Hidden(p)})
    <3>1. \A b \in Backend : \A e : e # Hidden(p) => (e \in EntriesOn(b)' <=> e \in EntriesOn(b))
      <4> TAKE b \in Backend
      <4> TAKE e
      <4> HAVE e # Hidden(p)
      <4>1. (\E t \in trash' : e = Hidden(t.name) /\ t.b = b) <=> (\E t \in trash : e = Hidden(t.name) /\ t.b = b)
        BY <1>5
      <4> QED BY <1>5, <4>1 DEF EntriesOn, Hidden
    <3> QED BY <1>5, <3>1 DEF Heeded
  <2>6. TrashOK' /\ ListerOK' /\ faults' \in 0..MaxFaults
    BY <1>1, <1>4, <1>5, <2>5, ListerKept DEF TrashOK, HistoryOK
  <2>7. Inv'
    BY <1>4, <1>5, <2>2, <2>3, <2>4, <2>6, KeptStep
  <2> QED BY <2>5, <2>7
<1>6. CASE /\ Fails("rmtree") /\ Unlinked(n) /\ tainted' = tainted \cup {p}
           /\ UNCHANGED <<place, trash, lister>>
  <2>1. PICK o : op' = [op EXCEPT ![n] = o] /\ OpOK(o) /\ o.at \notin {"tree", "copies"}
    BY <1>1, <1>2, <1>6, OpUnlinked
  <2>2. \A q \in Name : Removes(o, q) => Removes(op[n], q)
    BY <2>1 DEF Removes
  <2>3. UNCHANGED <<state, lister, files, acked, spoiled>>
    BY <1>4, <1>6 DEF state
  <2> QED BY <1>3, <1>6, <2>1, <2>2, <2>3, TaintedStep
<1>7. \/ /\ trash' = trash \ {[node |-> n, b |-> Canon[p], name |-> p]}
         /\ op' = [op EXCEPT ![n].at = "copies", ![n].b = 1]
         /\ UNCHANGED <<place, tainted, faults>> /\ Noting({Hidden(p)})
      \/ /\ Fails("rmtree") /\ Unlinked(n) /\ tainted' = tainted \cup {p}
         /\ UNCHANGED <<place, trash, lister>>
  BY <1>3 DEF RemoveTree
<1> QED BY <1>5, <1>6, <1>7

(* To the next shadow: only the one at hand is no longer to be removed. *)
LEMMA OpNextCopy ==
  ASSUME TypeOK, OpsOK, NEW n \in Nodes, op[n].at = "copies", NextCopy(n)
  PROVE  \E o : /\ op' = [op EXCEPT ![n] = o] /\ OpOK(o)
                /\ \A q \in Name : Removes(o, q) => Removes(op[n], q)
                /\ \A b \in Backend, q \in Name : b # op[n].b /\ Reaches(op[n], b, q) => Reaches(o, b, q)
<1>1. CASE op[n].b = Backends
  <2>1. Unlinked(n)
    BY <1>1 DEF NextCopy
  <2>2. PICK o : op' = [op EXCEPT ![n] = o] /\ OpOK(o) /\ o.at \notin {"tree", "copies"}
    BY <2>1, OpUnlinked
  <2>3. \A q \in Name : ~Removes(o, q)
    BY <2>2 DEF Removes
  <2>4. \A b \in Backend, q \in Name : b # op[n].b => ~Reaches(op[n], b, q)
    BY <1>1, Constants DEF Reaches, Backend
  <2> QED BY <2>2, <2>3, <2>4
<1>2. CASE op[n].b # Backends
  <2>1. op' = [op EXCEPT ![n].b = @ + 1]
    BY <1>2 DEF NextCopy
  <2>2. PICK o : /\ op' = [op EXCEPT ![n] = o] /\ OpOK(o) /\ o.b = op[n].b + 1
                 /\ o.at = op[n].at /\ o.call = op[n].call /\ o.name = op[n].name /\ o.to = op[n].to
    BY <1>2, <2>1, OpNext
  <2>3. \A q \in Name : Removes(o, q) <=> Removes(op[n], q)
    BY <2>2 DEF Removes, VictimOf
  <2>4. op[n].b \in Nat
    BY OpFacts, OpParts
  <2>5. \A b \in Backend : op[n].b <= b /\ b # op[n].b => op[n].b + 1 <= b
    BY <2>4, Constants DEF Backend
  <2>6. \A b \in Backend, q \in Name : b # op[n].b /\ Reaches(op[n], b, q) => Reaches(o, b, q)
    BY <2>2, <2>3, <2>5 DEF Reaches
  <2> QED BY <2>2, <2>3, <2>6
<1> QED BY <1>1, <1>2

LEMMA RemoveCopiesStep ==
  ASSUME Inv, NEW n \in Nodes, RemoveCopies(n)
  PROVE  Inv' /\ \E S : Heeded(S)
<1>1. TypeOK /\ OpsOK /\ PlacesOK /\ FilesInv /\ HistoryOK /\ ListerOK /\ TrashOK
  BY TypeParts DEF Inv
<1>2. op[n].at = "copies" /\ NextCopy(n)
  BY DEF RemoveCopies
<1>3. PICK p \in Name : p = Victim(n) /\ p = VictimOf(op[n])
  BY <1>1, OpFacts
<1>4. op[n].b \in Backend
  <2>1. op[n] \in Op /\ op[n].b # 0
    BY <1>1, <1>2, OpFacts DEF OpOK
  <2> QED BY <2>1, OpParts, Constants DEF Backend
<1>5. PICK k \in Places : k = <<op[n].b, p>> /\ k[1] = op[n].b /\ k[2] = p
  <2>1. <<op[n].b, p>> \in Places
    BY <1>4 DEF Places
  <2>2. <<op[n].b, p>>[1] = op[n].b /\ <<op[n].b, p>>[2] = p
    OBVIOUS
  <2> QED BY <2>1, <2>2
<1>6. /\ dir' = dir /\ trash' = trash
      /\ files' = files /\ acked' = acked /\ spoiled' = spoiled
  BY DEF RemoveCopies
<1>7. PICK o : /\ op' = [op EXCEPT ![n] = o] /\ OpOK(o)
               /\ \A q \in Name : Removes(o, q) => Removes(op[n], q)
               /\ \A b \in Backend, q \in Name : b # op[n].b /\ Reaches(op[n], b, q) => Reaches(o, b, q)
  BY <1>1, <1>2, OpNextCopy
<1>8. /\ op' \in [Nodes -> Op] /\ OpsOK' /\ op'[n] = o
      /\ \A m \in Nodes : m # n => op'[m] = op[m]
  BY <1>1, <1>7, OpChange
<1>9. \A m \in Nodes, q \in Name : Removing(m, q)' => Removing(m, q)
  BY <1>7, <1>8 DEF Removing
<1>10. \A m \in Nodes, b \in Backend, q \in Name :
         WillRemove(m, b, q) /\ <<b, q>> # k => WillRemove(m, b, q)'
  <2> TAKE m \in Nodes, b \in Backend, q \in Name
  <2> HAVE WillRemove(m, b, q) /\ <<b, q>> # k
  <2>1. CASE m # n
    BY <1>8, <2>1 DEF WillRemove
  <2>2. CASE m = n
    <3>1. q = p
      BY <1>3, <2>2 DEF WillRemove, Reaches, Removes
    <3>2. b # op[n].b
      BY <1>5, <3>1
    <3> QED BY <1>7, <1>8, <2>2, <3>2 DEF WillRemove
  <2> QED BY <2>1, <2>2
<1>11. TrashOK'
  BY <1>1, <1>6 DEF TrashOK
<1>12. CASE /\ k[1] # Canon[k[2]] /\ place[k].there
            /\ place' = [place EXCEPT ![k] = NoPlace] /\ Noting({<<"name", k[2]>>})
            /\ UNCHANGED <<tainted, faults>>
  <2>1. /\ PlaceTypeOK' /\ PlacesOK'
        /\ ~(There(k)') /\ \A m \in Nodes : DirsAt(k, m)' = {}
        /\ \A l \in Places : l # k => There(l)' = There(l)
        /\ \A l \in Places, m \in Nodes : l # k => DirsAt(l, m)' = DirsAt(l, m)
        /\ \A q \in Name : Canonical(q) # k => cid(q)' = cid(q)
        /\ \A q \in Name, m \in Nodes : Canonical(q) # k => Where(q, m)' = Where(q, m)
    BY <1>12, PlaceGone
  <2>2. \A q \in Name : Canonical(q) # k
    BY <1>5, <1>12 DEF Canonical
  <2>3. k # Canonical(p) /\ Removing(n, p)
    BY <1>2, <1>3, <2>2 DEF Removing, Removes
  <2>4. FilesInv'
    <3>1. \A q \in Name : cid(q)' = cid(q)
      BY <2>1, <2>2
    <3>2. \A q \in Name, m \in Nodes : Where(q, m)' = Where(q, m)
      BY <2>1, <2>2
    <3> QED BY <1>1, <1>5, <1>6, <1>9, <1>10, <1>12, <2>1, <2>3, <3>1, <3>2, FilesRemoved
  <2>5. Heeded({<<"name", k[2]>>})
    BY <1>6, <1>12, <2>1, EntriesAt DEF Heeded
  <2>6. HistoryOK'
    BY <1>1, <1>6, <1>12 DEF HistoryOK
  <2> QED BY <1>1, <1>8, <1>11, <2>1, <2>4, <2>5, <2>6, ListerKept, TypePartsNext DEF Inv
<1>13. CASE /\ ~(k[1] # Canon[k[2]] /\ place[k].there)
            /\ UNCHANGED <<place, lister, tainted, faults>>
  <2>1. /\ PlaceTypeOK' /\ PlacesOK'
        /\ \A l \in Places : There(l)' = There(l)
        /\ \A l \in Places, m \in Nodes : DirsAt(l, m)' = DirsAt(l, m)
        /\ \A q \in Name : cid(q)' = cid(q)
        /\ \A q \in Name, m \in Nodes : Where(q, m)' = Where(q, m)
    BY <1>1, <1>13, PlaceKept
  <2>2. \A q \in Name, b \in Backend :
          cid(q) = 0 /\ q \notin tainted' /\ b # Canon[q] /\ There(<<b, q>>)' =>
            There(<<b, q>>) /\ \A m \in Nodes : WillRemove(m, b, q) => WillRemove(m, b, q)'
    <3> TAKE q \in Name, b \in Backend
    <3> HAVE cid(q) = 0 /\ q \notin tainted' /\ b # Canon[q] /\ There(<<b, q>>)'
    <3>1. There(<<b, q>>)
      BY <2>1 DEF Places
    <3>2. <<b, q>> # k
      BY <1>5, <1>13, <3>1 DEF There
    <3> QED BY <1>10, <3>1, <3>2
  <2>3. \A q \in Name, m \in Nodes : Where(q, m) \in Places
    BY <1>1, PlaceFacts
  <2>4. \A q \in Name : There(Canonical(q))' => There(Canonical(q))
    BY <2>1, CanonicalPlace
  <2>5. FilesInv'
    BY <1>1, <1>6, <1>9, <1>13, <2>1, <2>2, <2>3, <2>4, FilesSame
  <2>6. HistoryOK' /\ ListerOK'
    BY <1>1, <1>6, <1>13 DEF HistoryOK, ListerOK
  <2> QED BY <1>6, <1>8, <1>11, <1>13, <2>1, <2>5, <2>6, HeededNothing, TypePartsNext DEF Inv
<1>14. CASE Fails("rmtree") /\ tainted' = tainted \cup {k[2]} /\ UNCHANGED <<place, lister>>
  <2>1. UNCHANGED <<state, lister, files, acked, spoiled>>
    BY <1>6, <1>14 DEF state
  <2>2. tainted' = tainted \cup {VictimOf(op[n])}
    BY <1>3, <1>5, <1>14
  <2> QED BY <1>7, <1>14, <2>1, <2>2, TaintedStep
<1>15. k = <<op[n].b, Victim(n)>>
  BY <1>3, <1>5
<1>16. \/ /\ k[1] # Canon[k[2]] /\ place[k].there
          /\ place' = [place EXCEPT ![k] = NoPlace] /\ Noting({<<"name", k[2]>>})
          /\ UNCHANGED <<tainted, faults>>
       \/ /\ ~(k[1] # Canon[k[2]] /\ place[k].there)
          /\ UNCHANGED <<place, lister, tainted, faults>>
       \/ Fails("rmtree") /\ tainted' = tainted \cup {k[2]} /\ UNCHANGED <<place, lister>>
  BY <1>15 DEF RemoveCopies
<1> QED BY <1>12, <1>13, <1>14, <1>16

LEMMA CrashStep ==
  ASSUME Inv, NEW n \in Nodes, Crash(n)
  PROVE  Inv' /\ \E S : Heeded(S)
<1>1. TypeOK /\ OpsOK
  BY DEF Inv
<1>2. /\ Fails("crash") /\ UNCHANGED <<state, lister, files, acked, spoiled>>
      /\ op' = [op EXCEPT ![n] = Idle] /\ OpOK(Idle) /\ Idle.at = "idle"
  BY OpReturn DEF Crash
<1>3. CASE op[n].at \in {"tree", "copies"}
  <2>1. tainted' = tainted \cup {VictimOf(op[n])}
    BY <1>1, <1>3, OpFacts DEF Crash
  <2>2. \A q \in Name : Removes(Idle, q) => Removes(op[n], q)
    BY <1>2 DEF Removes
  <2> QED BY <1>2, <2>1, <2>2, TaintedStep
<1>4. CASE op[n].at \notin {"tree", "copies"}
  <2>1. tainted' = tainted
    BY <1>4 DEF Crash
  <2>2. /\ place' = place /\ trash' = trash /\ dir' = dir /\ lister' = lister
        /\ UNCHANGED <<files, acked, tainted, spoiled>> /\ \E f : Fails(f)
    BY <1>2, <2>1 DEF state
  <2>3. Idle.at \notin {"tree", "copies"}
    BY <1>2
  <2>4. Inv'
    BY <1>2, <1>4, <2>2, <2>3, StateKept, QuietStep
  <2> QED BY <2>2, <2>4, HeededNothing
<1> QED BY <1>3, <1>4

(* plfs_rename. *)
LEMMA RenameCanonicalStep ==
  ASSUME Inv, NEW n \in Nodes, RenameCanonical(n)
  PROVE  Inv' /\ \E S : Heeded(S)
<1>1. TypeOK /\ OpsOK /\ PlacesOK /\ FilesInv /\ HistoryOK /\ ListerOK /\ TrashOK
  BY TypeParts DEF Inv
<1>2. op[n].at = "rename" /\ op[n].call = "rename"
  <2>1. op[n].at = "rename"
    BY DEF RenameCanonical
  <2>2. op[n] \in Op /\ OpOK(op[n]) /\ op[n].call \in Call
    BY <1>1, OpFacts, OpParts
  <2> QED BY <2>1, <2>2 DEF OpOK, Fits, Call
<1>3. PICK p \in Name : p = op[n].name
  BY <1>1, OpFacts
<1>4. PICK q \in Name : q = op[n].to
  BY <1>1, OpFacts
<1>5. p # q
  BY <1>1, <1>2, <1>3, <1>4, OpFacts DEF OpOK
<1>6. PICK from \in Places : from = Canonical(p) /\ from[2] = p
  BY CanonicalPlace
<1>7. PICK to \in Places : to = Canonical(q) /\ to[2] = q
  BY CanonicalPlace
<1>8. from # to
  BY <1>5, <1>6, <1>7
<1>9. /\ dir' = dir /\ trash' = trash /\ files' = files /\ acked' = acked
      /\ op' = [op EXCEPT ![n] = Idle] /\ OpOK(Idle) /\ Idle.at = "idle"
  BY OpReturn DEF RenameCanonical
<1>10. Idle.at \notin {"tree", "copies"} /\ op[n].at \notin {"tree", "copies"}
  BY <1>2, <1>9
<1>11. CASE /\ place[from].there /\ place[to] \in {NoPlace, Shadow}
            /\ place' = [place EXCEPT ![from] = NoPlace, ![to] = place[from]]
            /\ tainted' = tainted \cup {p} /\ Arrived(place[from].id, q)
            /\ Noting({<<"name", p>>, <<"name", q>>}) /\ UNCHANGED faults
  <2>1. PICK c : c = place[from]
    OBVIOUS
  <2>2. IsPlace(c) /\ DOMAIN c.dirs \cap DOMAIN c.links = {} /\ c.there
    BY <1>1, <1>11, <2>1, PlaceFacts DEF PlacesOK
  <2>3. /\ place'[from] = NoPlace /\ place'[to] = c
        /\ \A l \in Places : l # from /\ l # to => place'[l] = place[l]
        /\ place' = [l \in Places |-> place'[l]]
    <3>1. place = [l \in Places |-> place[l]]
      BY <1>1, TypeParts DEF PlaceTypeOK
    <3>2. PICK P : P = [place EXCEPT ![from] = NoPlace]
      OBVIOUS
    <3>3. P = [l \in Places |-> IF l = from THEN NoPlace ELSE place[l]]
      BY <3>1, <3>2
    <3>4. place' = [P EXCEPT ![to] = c]
      BY <1>11, <2>1, <3>2
    <3>5. place' = [l \in Places |-> IF l = to THEN c ELSE P[l]]
      BY <3>3, <3>4
    <3> QED BY <1>8, <3>3, <3>5
  <2>4. \A k \in Places : IsPlace(place[k])
    BY <1>1, PlaceFacts
  <2>5. PlaceTypeOK'
    BY <2>2, <2>3, <2>4, EmptyPlaces DEF PlaceTypeOK
  <2>6. PlacesOK'
    <3> SUFFICES ASSUME NEW k \in Places
                 PROVE  /\ ~place'[k].there => place'[k] = NoPlace
                        /\ k # Canonical(k[2]) => place'[k].id = 0
                        /\ DOMAIN place'[k].dirs \cap DOMAIN place'[k].links = {}
      BY DEF PlacesOK, Canonical
    <3>1. CASE k = from
      BY <2>3, <3>1, EmptyPlaces
    <3>2. CASE k = to
      BY <1>7, <2>2, <2>3, <3>2
    <3>3. CASE k # from /\ k # to
      BY <1>1, <2>3, <3>3 DEF PlacesOK
    <3> QED BY <3>1, <3>2, <3>3
  <2>7. /\ \A x \in Name : cid(x)' = place'[Canonical(x)].id
        /\ \A x \in Name, m \in Nodes : Where(x, m)' = LeadsTo(place'[Canonical(x)], Canonical(x), m)
        /\ \A l \in Places : There(l)' = place'[l].there
        /\ \A l \in Places, m \in Nodes : DirsAt(l, m)' = DirsOf(place'[l], m)
    BY DEF cid, Where, There, DirsAt, Canonical
  <2>8. /\ \A x \in Name : Canonical(x) \in Places
        /\ \A x \in Name : (Canonical(x) = from <=> x = p) /\ (Canonical(x) = to <=> x = q)
    BY <1>6, <1>7, CanonicalPlace
  <2>9. /\ cid(p) = c.id /\ There(from) = c.there
        /\ \A m \in Nodes : DirsAt(from, m) = DirsOf(c, m)
        /\ \A m \in Nodes : Where(p, m) = LeadsTo(c, from, m)
    BY <1>6, <2>1 DEF cid, There, DirsAt, Where
  <2>10. cid(q) = 0
    BY <1>7, <1>11, EmptyPlaces DEF cid
  <2>11. /\ There(from) /\ ~(There(from)') /\ cid(q)' = cid(p) /\ cid(p)' = 0
    BY <1>6, <1>7, <2>2, <2>3, <2>7, <2>9, EmptyPlaces
  <2>12. \A m \in Nodes : /\ Where(p, m)' = from /\ DirsAt(from, m)' = {}
                          /\ DirsAt(to, m)' = DirsAt(from, m)
                          /\ Where(q, m)' = LeadsTo(c, to, m)
    <3>1. \A m \in Nodes : DirsOf(NoPlace, m) = {} /\ LeadsTo(NoPlace, from, m) = from
      BY EmptyPlaces DEF DirsOf, LeadsTo
    <3> QED BY <1>6, <1>7, <2>3, <2>7, <2>9, <3>1
  <2>13. \A m \in Nodes : /\ \/ Where(q, m)' = Where(p, m)
                             \/ Where(p, m) = from /\ Where(q, m)' = to
                          /\ Where(q, m)' = from => DirsAt(from, m) = {}
    <3> TAKE m \in Nodes
    <3>1. CASE m \in DOMAIN c.links
      <4>1. LeadsTo(c, to, m) = LeadsTo(c, from, m)
        BY <3>1 DEF LeadsTo
      <4>2. m \notin DOMAIN c.dirs
        BY <2>2, <3>1
      <4> QED BY <2>9, <2>12, <4>1, <4>2 DEF DirsOf
    <3>2. CASE m \notin DOMAIN c.links
      BY <1>8, <2>9, <2>12, <3>2 DEF LeadsTo
    <3> QED BY <3>1, <3>2
  <2>14. /\ \A x \in Name : x # p /\ x # q => cid(x)' = cid(x)
         /\ \A x \in Name, m \in Nodes : x # p /\ x # q => Where(x, m)' = Where(x, m)
         /\ \A l \in Places, m \in Nodes : l # from /\ l # to => DirsAt(l, m)' = DirsAt(l, m)
         /\ \A l \in Places : l # from /\ l # to => There(l)' = There(l)
    <3>1. /\ \A x \in Name : cid(x) = place[Canonical(x)].id
          /\ \A x \in Name, m \in Nodes : Where(x, m) = LeadsTo(place[Canonical(x)], Canonical(x), m)
          /\ \A l \in Places : There(l) = place[l].there
          /\ \A l \in Places, m \in Nodes : DirsAt(l, m) = DirsOf(place[l], m)
      BY DEF cid, Where, There, DirsAt
    <3> QED BY <2>3, <2>7, <2>8, <3>1
  <2>15. /\ op' \in [Nodes -> Op] /\ OpsOK'
         /\ \A m \in Nodes, x \in Name : Removing(m, x)' = Removing(m, x)
         /\ \A m \in Nodes, b \in Backend, x \in Name : WillRemove(m, b, x)' = WillRemove(m, b, x)
    BY <1>1, <1>9, <1>10, QuietOp
  <2>16. FilesInv'
    <3>1. /\ There(Canonical(p)) /\ ~(There(Canonical(p))')
          /\ \A m \in Nodes : /\ Where(p, m)' = Canonical(p) /\ DirsAt(Canonical(p), m)' = {}
                              /\ DirsAt(Canonical(q), m)' = DirsAt(Canonical(p), m)
                              /\ \/ Where(q, m)' = Where(p, m)
                                 \/ Where(p, m) = Canonical(p) /\ Where(q, m)' = Canonical(q)
                              /\ Where(q, m)' = Canonical(p) => DirsAt(Canonical(p), m) = {}
      BY <1>6, <1>7, <2>11, <2>12, <2>13
    <3>2. /\ \A l \in Places, m \in Nodes :
               l # Canonical(p) /\ l # Canonical(q) => DirsAt(l, m)' = DirsAt(l, m)
          /\ \A l \in Places : l # Canonical(p) /\ l # Canonical(q) => There(l)' = There(l)
      BY <1>6, <1>7, <2>14
    <3>3. tainted' = tainted \cup {p} /\ Arrived(cid(p), q)
      BY <1>11, <2>1, <2>9
    <3> QED BY <1>1, <1>5, <1>9, <2>10, <2>11, <2>14, <2>15, <3>1, <3>2, <3>3, FilesRenamed
  <2>17. HistoryOK'
    <3>1. spoiled' \subseteq 0..files
      <4>1. LinkedTo(q) \subseteq 0..files
        BY LinkedFiles
      <4>2. cid(p) \in 0..files
        BY <1>1 DEF FilesInv, IdsOK
      <4> QED BY <1>1, <1>11, <2>1, <2>9, <4>1, <4>2 DEF HistoryOK, Arrived
    <3> QED BY <1>1, <1>9, <1>11, <3>1 DEF HistoryOK
  <2>18. Heeded({<<"name", p>>, <<"name", q>>})
    <3>1. \A b \in Backend : \A e : e \notin {<<"name", p>>, <<"name", q>>} =>
            (e \in EntriesOn(b)' <=> e \in EntriesOn(b))
      <4>1. ASSUME NEW b \in Backend, NEW x \in Name, x # p, x # q
            PROVE  place'[<<b, x>>].there = place[<<b, x>>].there
        <5>1. <<b, x>> \in Places /\ <<b, x>> # from /\ <<b, x>> # to
          BY <1>6, <1>7, <4>1 DEF Places
        <5> QED BY <2>3, <5>1
      <4>2. \A b \in Backend, x \in Name : x # p /\ x # q => place'[<<b, x>>].there = place[<<b, x>>].there
        BY <4>1
      <4> QED BY <1>9, <4>2 DEF EntriesOn
    <3> QED BY <1>11, <3>1 DEF Heeded
  <2>19. TrashOK'
    BY <1>1, <1>9 DEF TrashOK
  <2> QED BY <1>1, <2>5, <2>6, <2>15, <2>16, <2>17, <2>18, <2>19, ListerKept, TypePartsNext DEF Inv
<1>12. CASE /\ faults' = faults \/ Fails("rename")
            /\ UNCHANGED <<place, tainted, spoiled, lister>>
  <2>1. Inv'
    BY <1>9, <1>10, <1>12, StateKept, QuietStep
  <2> QED BY <1>9, <1>12, <2>1, HeededNothing
<1>13. \/ /\ place[from].there /\ place[to] \in {NoPlace, Shadow}
          /\ place' = [place EXCEPT ![from] = NoPlace, ![to] = place[from]]
          /\ tainted' = tainted \cup {p} /\ Arrived(place[from].id, q)
          /\ Noting({<<"name", p>>, <<"name", q>>}) /\ UNCHANGED faults
       \/ /\ faults' = faults \/ Fails("rename")
          /\ UNCHANGED <<place, tainted, spoiled, lister>>
  BY <1>3, <1>4, <1>6, <1>7 DEF RenameCanonical
<1> QED BY <1>11, <1>12, <1>13

-----------------------------------------------------------------------------
(* The listing.                                                            *)
LEMMA ListingParts ==
  ASSUME NEW l \in Listing
  PROVE  /\ l = [at |-> l.at, b |-> l.b, dents |-> l.dents, offset |-> l.offset, ret |-> l.ret,
                 seen |-> l.seen, due |-> l.due, missed |-> l.missed]
         /\ l.at \in {"idle", "reading", "done", "error"} /\ l.b \in 1..(Backends + 1)
         /\ l.dents \in SUBSET Entry /\ l.offset \in Nat /\ l.ret \in {0, -1}
         /\ l.seen \in {<<>>} \cup [Name -> Nat] /\ l.due \in SUBSET Name /\ l.missed \in BOOLEAN
<1>1. PICK A, B, D, N, R, S : /\ A = {"idle", "reading", "done", "error"} /\ B = 1..(Backends + 1)
                              /\ D = SUBSET Entry /\ N = Nat /\ R = {0, -1}
                              /\ S = {<<>>} \cup [Name -> Nat]
  OBVIOUS
<1>2. Listing = [at : A, b : B, dents : D, offset : N, ret : R, seen : S, due : SUBSET Name, missed : BOOLEAN]
  BY <1>1 DEF Listing
<1>3. /\ l = [at |-> l.at, b |-> l.b, dents |-> l.dents, offset |-> l.offset, ret |-> l.ret,
              seen |-> l.seen, due |-> l.due, missed |-> l.missed]
      /\ l.at \in A /\ l.b \in B /\ l.dents \in D /\ l.offset \in N /\ l.ret \in R
      /\ l.seen \in S /\ l.due \in SUBSET Name /\ l.missed \in BOOLEAN
  BY <1>2
<1> QED BY <1>1, <1>3

ListingStep == {"idle", "reading", "done", "error"}
ListingBackend == 1..(Backends + 1)
ListingRet == {0, -1}
ListingSeen == {<<>>} \cup [Name -> Nat]

LEMMA ListingType ==
  ASSUME NEW a \in ListingStep, NEW b \in ListingBackend, NEW d \in SUBSET Entry, NEW o \in Nat,
         NEW r \in ListingRet, NEW s \in ListingSeen, NEW u \in SUBSET Name, NEW m \in BOOLEAN
  PROVE  [at |-> a, b |-> b, dents |-> d, offset |-> o, ret |-> r, seen |-> s, due |-> u, missed |-> m]
           \in Listing
<1>1. Listing = [at : ListingStep, b : ListingBackend, dents : SUBSET Entry, offset : Nat, ret : ListingRet,
                 seen : ListingSeen, due : SUBSET Name, missed : BOOLEAN]
  BY DEF Listing, ListingStep, ListingBackend, ListingRet, ListingSeen
<1> QED BY <1>1

LEMMA NoListerOK == NoLister \in Listing /\ NoLister.at = "idle"
<1>1. PICK e : e = <<>>
  OBVIOUS
<1>2. /\ 1 \in ListingBackend /\ {} \in SUBSET Entry /\ 0 \in Nat /\ 0 \in ListingRet
      /\ e \in ListingSeen /\ {} \in SUBSET Name /\ FALSE \in BOOLEAN /\ "idle" \in ListingStep
  BY <1>1, Constants DEF ListingStep, ListingBackend, ListingRet, ListingSeen
<1>3. NoLister = [at |-> "idle", b |-> 1, dents |-> {}, offset |-> 0, ret |-> 0, seen |-> e,
                  due |-> {}, missed |-> FALSE]
  BY <1>1 DEF NoLister
<1>4. NoLister \in Listing
  BY <1>2, <1>3, ListingType
<1> QED BY <1>3, <1>4

LEMMA EntriesType ==
  ASSUME TypeOK, NEW b
  PROVE  EntriesOn(b) \subseteq Entry
<1>1. trash \subseteq [node : Nodes, b : Backend, name : Name]
  BY DEF TypeOK
<1>2. \A t \in trash : t.name \in Name
  BY <1>1
<1>3. \A e \in EntriesOn(b) : \E p \in Name : e = <<"name", p>> \/ e = <<"hidden", p>>
  BY <1>2 DEF EntriesOn, Hidden
<1>4. \A p \in Name : <<"name", p>> \in Entry /\ <<"hidden", p>> \in Entry
  BY DEF Entry
<1> QED BY <1>3, <1>4

(* The order is that of the ranks. *)
LEMMA OrderCovers ==
  /\ IsFiniteSet(Entry)
  /\ \A e \in Entry : Rank(e) \in Nat /\ Order[Rank(e)] = e
<1>1. PICK N \in Nat : N = Len(Names) /\ DOMAIN Names = 1..N
  BY NamesAssumption
<1>2. \A i \in 1..N : Names[i] \in Name
  BY <1>1 DEF Name
<1>3. DOMAIN Order = 1..(2 * N)
  BY <1>1 DEF Order
<1>4. \A i \in 1..N : i \in 1..(2 * N) /\ Order[i] = <<"hidden", Names[i]>>
  BY <1>1 DEF Order, Hidden
<1>5. \A i \in 1..N : i + N \in 1..(2 * N) /\ Order[i + N] = <<"name", Names[i]>>
  <2> TAKE i \in 1..N
  <2>1. i + N \in 1..(2 * N) /\ ~(i + N <= N) /\ (i + N) - N = i
    BY <1>1
  <2> QED BY <1>1, <2>1 DEF Order
<1>6. \A e \in Entry : \E i \in 1..(2 * N) : Order[i] = e
  <2> TAKE e \in Entry
  <2>1. PICK p \in Name : e = <<"hidden", p>> \/ e = <<"name", p>>
    BY DEF Entry
  <2>2. PICK i \in 1..N : p = Names[i]
    BY <1>1 DEF Name
  <2> QED BY <1>4, <1>5, <2>1, <2>2
<1>7. \A i \in 1..(2 * N) : Order[i] \in Entry
  <2> TAKE i \in 1..(2 * N)
  <2>1. CASE i <= N
    <3>1. i \in 1..N
      BY <2>1, <1>1
    <3> QED BY <1>2, <1>4, <3>1 DEF Entry
  <2>2. CASE ~(i <= N)
    <3>1. PICK j \in 1..N : i = j + N
      <4>1. i - N \in 1..N /\ i = (i - N) + N
        BY <2>2, <1>1
      <4> QED BY <4>1
    <3>2. Order[i] = <<"name", Names[j]>> /\ Names[j] \in Name
      BY <1>2, <1>5, <3>1
    <3> QED BY <3>2 DEF Entry
  <2> QED BY <2>1, <2>2
<1>8. Order \in Surjection(1..(2 * N), Entry)
  <2>1. Order = [i \in 1..(2 * N) |-> Order[i]]
    BY <1>1 DEF Order
  <2>2. Order \in [1..(2 * N) -> Entry]
    BY <1>7, <2>1
  <2> QED BY <1>6, <2>2 DEF Surjection
<1>9. IsFiniteSet(Entry)
  <2>1. IsFiniteSet(1..(2 * N))
    BY FS_Interval
  <2> QED BY <1>8, <2>1, FS_Surjection
<1>10. \A e \in Entry : Rank(e) \in 1..(2 * N) /\ Order[Rank(e)] = e
  BY <1>3, <1>6 DEF Rank
<1> QED BY <1>9, <1>10

LEMMA RankOrders ==
  \A e, x \in Entry : /\ Rank(e) \in Nat /\ Rank(x) \in Nat
                      /\ Rank(e) = Rank(x) => e = x
  BY OrderCovers

-----------------------------------------------------------------------------
(* How many entries are in front of one: the entries of a listing are      *)
(* counted from 0 on, each with a number of its own.                       *)
Position(D, e) == Cardinality(InFront(D, e))

LEMMA Positions ==
  ASSUME NEW D \in SUBSET Entry
  PROVE  /\ IsFiniteSet(D) /\ Cardinality(D) \in Nat
         /\ \A e \in D : Position(D, e) \in 0..(Cardinality(D) - 1)
         /\ \A e, x \in D : Position(D, e) = Position(D, x) => e = x
         /\ \A i \in 0..(Cardinality(D) - 1) : \E e \in D : Position(D, e) = i
<1>1. IsFiniteSet(D) /\ Cardinality(D) \in Nat
  BY OrderCovers, FS_Subset, FS_CardinalityType
<1>2. \A e \in Entry : /\ InFront(D, e) \in SUBSET D /\ IsFiniteSet(InFront(D, e))
                       /\ Position(D, e) \in Nat /\ Position(D, e) <= Cardinality(D)
  <2> TAKE e \in Entry
  <2>1. InFront(D, e) \in SUBSET D
    BY DEF InFront
  <2>2. IsFiniteSet(InFront(D, e)) /\ Cardinality(InFront(D, e)) <= Cardinality(D)
    BY <1>1, <2>1, FS_Subset
  <2> QED BY <2>1, <2>2, FS_CardinalityType DEF Position
<1>3. ASSUME NEW e \in D
      PROVE  Position(D, e) \in 0..(Cardinality(D) - 1)
  <2>1. e \notin InFront(D, e) /\ e \in Entry
    BY RankOrders DEF InFront
  <2>2. InFront(D, e) # D
    BY <2>1
  <2>3. Cardinality(D) # Position(D, e)
    BY <1>1, <1>2, <2>1, <2>2, FS_Subset DEF Position
  <2> QED BY <1>1, <1>2, <2>1, <2>3
<1>4. ASSUME NEW e \in D, NEW x \in D, Rank(e) < Rank(x)
      PROVE  Position(D, e) < Position(D, x)
  <2>1. e \in Entry /\ x \in Entry /\ Rank(e) \in Nat /\ Rank(x) \in Nat
    BY RankOrders
  <2>2. InFront(D, e) \in SUBSET InFront(D, x)
    BY <1>4, <2>1, RankOrders DEF InFront
  <2>3. e \in InFront(D, x) /\ e \notin InFront(D, e)
    BY <1>4, <2>1 DEF InFront
  <2>4. Cardinality(InFront(D, e)) <= Cardinality(InFront(D, x))
    BY <1>2, <2>1, <2>2, FS_Subset
  <2>5. Cardinality(InFront(D, e)) # Cardinality(InFront(D, x))
    BY <1>2, <2>1, <2>2, <2>3, FS_Subset
  <2> QED BY <1>2, <2>1, <2>4, <2>5 DEF Position
<1>5. \A e, x \in D : Position(D, e) = Position(D, x) => e = x
  <2> TAKE e \in D, x \in D
  <2> HAVE Position(D, e) = Position(D, x)
  <2>1. e \in Entry /\ x \in Entry /\ Position(D, e) \in Nat /\ Position(D, x) \in Nat
    BY <1>2
  <2>2. ~(Rank(e) < Rank(x)) /\ ~(Rank(x) < Rank(e))
    BY <1>4, <2>1
  <2> QED BY <2>1, <2>2, RankOrders
<1>6. \A i \in 0..(Cardinality(D) - 1) : \E e \in D : Position(D, e) = i
  <2>1. PICK I : I = 0..(Cardinality(D) - 1)
    OBVIOUS
  <2>2. IsFiniteSet(I) /\ Cardinality(I) = Cardinality(D)
    BY <1>1, <2>1, FS_Interval
  <2>3. PICK f : f = [e \in D |-> Position(D, e)]
    OBVIOUS
  <2>4. f \in [D -> I]
    BY <1>3, <2>1, <2>3
  <2>5. f \in Injection(D, I)
    BY <1>5, <2>3, <2>4 DEF Injection, IsInjective
  <2>6. f \in Surjection(D, I)
    BY <2>2, <2>5, FS_Injection
  <2> QED BY <2>1, <2>3, <2>6 DEF Surjection
<1> QED BY <1>1, <1>3, <1>5, <1>6

(* What a bufferful is. *)
IsBufferful(es, D, o) ==
  /\ es \in SUBSET D /\ Cardinality(es) \in Nat /\ Cardinality(es) <= BufferSize
  /\ \A e \in D : e \in es <=> o <= Position(D, e) /\ Position(D, e) < o + BufferSize
  /\ \A e \in es : Position(D, e) < o + Cardinality(es)
  /\ es = {} => \A e \in D : Position(D, e) < o

LEMMA Bufferfuls ==
  ASSUME NEW D \in SUBSET Entry, NEW o \in Nat, NEW es, es = Bufferful(D, o)
  PROVE  IsBufferful(es, D, o)
<1>1. /\ IsFiniteSet(D) /\ Cardinality(D) \in Nat
      /\ \A e \in D : Position(D, e) \in 0..(Cardinality(D) - 1)
      /\ \A e, x \in D : Position(D, e) = Position(D, x) => e = x
      /\ \A i \in 0..(Cardinality(D) - 1) : \E e \in D : Position(D, e) = i
  BY Positions
<1>2. \A e \in D : Position(D, e) \in Nat /\ Position(D, e) < Cardinality(D)
  BY <1>1
<1>3. BufferSize \in Nat /\ BufferSize # 0
  BY BufferAssumption
<1>4. es \in SUBSET D /\ \A e \in D : e \in es <=> o <= Position(D, e) /\ Position(D, e) < o + BufferSize
  <2>1. \A e : e \in es <=> e \in D /\ Position(D, e) < o + BufferSize /\ ~(Position(D, e) < o)
    BY DEF Bufferful, First, Position
  <2> QED BY <1>2, <1>3, <2>1
<1>5. IsFiniteSet(es) /\ Cardinality(es) \in Nat
  BY <1>1, <1>4, FS_Subset, FS_CardinalityType
<1>6. Cardinality(es) <= BufferSize
  <2>1. PICK I : I = o..(o + BufferSize - 1)
    OBVIOUS
  <2>2. IsFiniteSet(I) /\ Cardinality(I) = BufferSize
    <3>1. o \in Int /\ o + BufferSize - 1 \in Int /\ ~(o > o + BufferSize - 1)
      BY <1>3
    <3>2. (o + BufferSize - 1) - o + 1 = BufferSize
      BY <1>3
    <3> QED BY <2>1, <3>1, <3>2, FS_Interval
  <2>3. PICK f : f = [e \in es |-> Position(D, e)]
    OBVIOUS
  <2>4. f \in [es -> I]
    <3>1. \A e \in es : Position(D, e) \in I
      BY <1>2, <1>3, <1>4, <2>1
    <3> QED BY <2>3, <3>1
  <2>5. f \in Injection(es, I)
    BY <1>1, <1>4, <2>3, <2>4 DEF Injection, IsInjective
  <2> QED BY <2>2, <2>5, FS_Injection
<1>7. ASSUME NEW e \in es PROVE Position(D, e) < o + Cardinality(es)
  <2>1. PICK i \in Nat : i = Position(D, e) /\ o <= i /\ i < o + BufferSize /\ i < Cardinality(D)
    BY <1>2, <1>4
  <2>2. PICK I : I = o..i
    OBVIOUS
  <2>3. IsFiniteSet(I) /\ Cardinality(I) = (i - o) + 1
    <3>1. o \in Int /\ i \in Int /\ ~(o > i)
      BY <2>1
    <3> QED BY <2>2, <3>1, FS_Interval
  <2>4. PICK f : f = [j \in I |-> CHOOSE x \in D : Position(D, x) = j]
    OBVIOUS
  <2>5. \A j \in I : f[j] \in es /\ Position(D, f[j]) = j
    <3> TAKE j \in I
    <3>1. j \in 0..(Cardinality(D) - 1) /\ o <= j /\ j < o + BufferSize
      BY <1>1, <1>3, <2>1, <2>2
    <3>2. \E x \in D : Position(D, x) = j
      BY <1>1, <3>1
    <3>3. f[j] \in D /\ Position(D, f[j]) = j
      BY <2>4, <3>2
    <3> QED BY <1>4, <3>1, <3>3
  <2>6. f \in [I -> es]
    BY <2>4, <2>5
  <2>7. f \in Injection(I, es)
    BY <2>5, <2>6 DEF Injection, IsInjective
  <2>8. Cardinality(I) <= Cardinality(es)
    BY <1>5, <2>7, FS_Injection
  <2> QED BY <1>5, <2>1, <2>3, <2>8
<1>8. ASSUME es = {}, NEW e \in D PROVE Position(D, e) < o
  <2> SUFFICES ASSUME ~(Position(D, e) < o) PROVE FALSE
    OBVIOUS
  <2>1. o \in 0..(Cardinality(D) - 1)
    BY <1>1, <1>2
  <2>2. PICK x \in D : Position(D, x) = o
    BY <1>1, <2>1
  <2>3. x \in es
    BY <1>3, <1>4, <2>2
  <2> QED BY <1>8, <2>3
<1> QED BY <1>4, <1>5, <1>6, <1>7, <1>8 DEF IsBufferful

-----------------------------------------------------------------------------
(* Where a listing stands with a file that it owes: it has read the        *)
(* backends up to c, and what is in front of the file there is in front of *)
(* it in the entries.                                                      *)
Ahead(p, c) ==
  {e \in Entry : Rank(e) < Rank(<<"name", p>>) /\ \E b \in 1..(c - 1) : e \in EntriesOn(b)}

Listed(p) ==
  /\ cid(p) # 0
  /\ InFront(lister.dents, <<"name", p>>) = Ahead(p, lister.b)
  /\ Canon[p] < lister.b => <<"name", p>> \in lister.dents
  /\ lister.seen[p] = IF Cardinality(Ahead(p, Backends + 1)) < lister.offset THEN 1 ELSE 0

ListOK ==
  /\ lister.at = "reading" /\ ~lister.missed => \A p \in lister.due : Listed(p)
  /\ ListingsAreComplete

LEMMA AheadFinite ==
  ASSUME NEW p, NEW c
  PROVE  IsFiniteSet(Ahead(p, c)) /\ Cardinality(Ahead(p, c)) \in Nat
<1>1. Ahead(p, c) \in SUBSET Entry
  BY DEF Ahead
<1> QED BY <1>1, OrderCovers, FS_Subset, FS_CardinalityType

LEMMA NameEntry ==
  \A p \in Name : <<"name", p>> \in Entry /\ Rank(<<"name", p>>) \in Nat
  BY RankOrders DEF Entry

(* A step of another call leaves what is owed as it is. *)
LEMMA ListNoted ==
  ASSUME Inv, ListOK, NEW S, Heeded(S)
  PROVE  ListOK'
<1>1. ListerOK /\ lister \in Listing /\ lister.due \subseteq Name /\ lister.b \in 1..(Backends + 1)
  <2>1. ListerOK
    BY TypeParts DEF Inv
  <2> QED BY <2>1, ListingParts DEF ListerOK
<1>2. CASE lister.at = "idle" /\ lister' = lister
  BY <1>2 DEF ListOK, ListingsAreComplete
<1>3. CASE ~(lister.at = "idle" /\ lister' = lister)
  <2>1. PICK D : /\ D \subseteq lister.due
                 /\ lister' = lister \/ lister' = [lister EXCEPT !.due = D]
                 /\ lister' = lister => D = lister.due
                 /\ \A p \in D : cid(p)' = cid(p) /\ \A e \in S : Rank(e) >= Rank(<<"name", p>>)
    <3>1. CASE Noting(S)
      <4>1. PICK D : /\ D = {p \in lister.due : /\ place'[Canonical(p)].id = place[Canonical(p)].id
                                                /\ \A e \in S : Rank(e) >= Rank(<<"name", p>>)}
                     /\ lister' = [lister EXCEPT !.due = D]
        BY <1>3, <3>1 DEF Noting
      <4>2. \A p \in D : cid(p)' = cid(p)
        BY <4>1 DEF cid, Canonical
      <4>3. lister' = lister => D = lister.due
        <5>1. lister'.due = D
          <6>1. PICK w : w = lister
            OBVIOUS
          <6>2. w = [at |-> w.at, b |-> w.b, dents |-> w.dents, offset |-> w.offset, ret |-> w.ret,
                     seen |-> w.seen, due |-> w.due, missed |-> w.missed]
            BY <1>1, <6>1, ListingParts
          <6> QED BY <4>1, <6>1, <6>2
        <5> QED BY <5>1
      <4> QED BY <4>1, <4>2, <4>3
    <3>2. CASE S = {} /\ lister' = lister /\ \A p \in Name : cid(p)' = cid(p)
      BY <1>1, <3>2
    <3> QED BY <3>1, <3>2 DEF Heeded
  <2>2. /\ lister'.at = lister.at /\ lister'.missed = lister.missed /\ lister'.due = D
        /\ lister'.b = lister.b /\ lister'.dents = lister.dents
        /\ lister'.seen = lister.seen /\ lister'.offset = lister.offset
    <3>1. PICK w : w = lister
      OBVIOUS
    <3>2. w = [at |-> w.at, b |-> w.b, dents |-> w.dents, offset |-> w.offset, ret |-> w.ret,
               seen |-> w.seen, due |-> w.due, missed |-> w.missed]
      BY <1>1, <3>1, ListingParts
    <3> QED BY <2>1, <3>1, <3>2
  <2>3. ASSUME NEW p \in D, NEW c \in 1..(Backends + 1) PROVE Ahead(p, c)' = Ahead(p, c)
    <3>1. \A e \in Entry : Rank(e) < Rank(<<"name", p>>) => e \notin S
      <4>1. \A e \in Entry : Rank(e) \in Nat /\ Rank(<<"name", p>>) \in Nat
        BY <1>1, <2>1, RankOrders, NameEntry
      <4> QED BY <2>1, <4>1
    <3>2. \A b \in 1..(c - 1) : b \in Backend
      BY Constants DEF Backend
    <3>3. \A e \in Entry, b \in 1..(c - 1) :
            Rank(e) < Rank(<<"name", p>>) => (e \in EntriesOn(b)' <=> e \in EntriesOn(b))
      BY <3>1, <3>2 DEF Heeded
    <3>4. Ahead(p, c)' = {e \in Entry : Rank(e) < Rank(<<"name", p>>) /\ \E b \in 1..(c - 1) : e \in EntriesOn(b)'}
      BY DEF Ahead, Rank
    <3>5. Ahead(p, c) = {e \in Entry : Rank(e) < Rank(<<"name", p>>) /\ \E b \in 1..(c - 1) : e \in EntriesOn(b)}
      BY DEF Ahead
    <3> QED BY <3>3, <3>4, <3>5
  <2>4. ASSUME lister'.at = "reading", ~lister'.missed, NEW p \in D PROVE Listed(p)'
    <3>1. Listed(p) /\ cid(p)' = cid(p)
      BY <2>1, <2>2, <2>4 DEF ListOK
    <3>2. Backends + 1 \in 1..(Backends + 1)
      BY Constants
    <3>3. Ahead(p, lister.b)' = Ahead(p, lister.b)
      <4>1. PICK c \in 1..(Backends + 1) : c = lister.b /\ c = lister'.b
        BY <1>1, <2>2
      <4>2. Ahead(p, lister.b)' = Ahead(p, c)'
        BY <4>1 DEF Ahead
      <4> QED BY <2>3, <4>1, <4>2
    <3>4. Ahead(p, Backends + 1)' = Ahead(p, Backends + 1)
      BY <2>3, <3>2
    <3>5. InFront(lister.dents, <<"name", p>>)' = InFront(lister.dents, <<"name", p>>)
      BY <2>2 DEF InFront, Rank
    <3> QED BY <2>2, <3>1, <3>3, <3>4, <3>5 DEF Listed
  <2>5. ListingsAreComplete'
    BY <2>1, <2>2 DEF ListOK, ListingsAreComplete
  <2> QED BY <2>2, <2>4, <2>5 DEF ListOK
<1> QED BY <1>2, <1>3

(* f_opendir. *)
LEMMA OpendirStep ==
  ASSUME Inv, NEW n \in Nodes, f_opendir(n)
  PROVE  Inv' /\ ListOK'
<1>1. TypeOK /\ OpsOK /\ ListerOK
  BY TypeParts DEF Inv
<1>2. PICK o : o = [call |-> "list", at |-> "list", name |-> Names[1], to |-> Names[1], b |-> 0, attempts |-> 0]
  OBVIOUS
<1>3. op' = [op EXCEPT ![n] = o]
  <2>1. op' = [op EXCEPT ![n] = OfList("list", "list")]
    BY DEF f_opendir, OfList
  <2> QED BY <1>2, <2>1, Calling
<1>4. OpOK(o) /\ o.at \notin {"tree", "copies"}
  <2>1. "list" \in Call /\ "list" \in Step /\ 0 \in 0..Backends /\ Fits("list", "list") /\ Names[1] \in Name
    BY Constants DEF Call, Step, Fits
  <2> QED BY <1>2, <2>1, CallOK
<1>5. ~Busy(n) /\ UNCHANGED <<state, history>>
  BY DEF f_opendir, Enters
<1>6. PICK z, owed : z = [p \in Name |-> 0] /\ owed = {p \in Name : isContainer(p)}
  OBVIOUS
<1>7. PICK l : l = [at |-> "reading", b |-> 1, dents |-> {}, offset |-> 0, ret |-> 0, seen |-> z,
                    due |-> owed, missed |-> FALSE]
  OBVIOUS
<1>8. lister' = l
  <2>1. PICK e : e = <<>>
    OBVIOUS
  <2>2. PICK w : w = NoLister
    OBVIOUS
  <2>3. w = [at |-> "idle", b |-> 1, dents |-> {}, offset |-> 0, ret |-> 0, seen |-> e,
             due |-> {}, missed |-> FALSE]
    BY <2>1, <2>2 DEF NoLister
  <2>4. PICK u : u = [w EXCEPT !.at = "reading"]
    OBVIOUS
  <2>5. u = [at |-> "reading", b |-> 1, dents |-> {}, offset |-> 0, ret |-> 0, seen |-> e,
             due |-> {}, missed |-> FALSE]
    BY <2>3, <2>4
  <2>6. PICK v : v = [u EXCEPT !.seen = z]
    OBVIOUS
  <2>7. v = [at |-> "reading", b |-> 1, dents |-> {}, offset |-> 0, ret |-> 0, seen |-> z,
             due |-> {}, missed |-> FALSE]
    BY <2>5, <2>6
  <2>8. [v EXCEPT !.due = owed] = l
    <3>1. PICK no : no = FALSE
      OBVIOUS
    <3>2. v = [at |-> "reading", b |-> 1, dents |-> {}, offset |-> 0, ret |-> 0, seen |-> z,
               due |-> {}, missed |-> no]
      BY <2>7, <3>1
    <3>3. [v EXCEPT !.due = owed] = [at |-> "reading", b |-> 1, dents |-> {}, offset |-> 0, ret |-> 0,
                                     seen |-> z, due |-> owed, missed |-> no]
      BY <3>2
    <3> QED BY <1>7, <3>1, <3>3
  <2>9. lister' = [v EXCEPT !.due = owed]
    BY <1>6, <2>2, <2>4, <2>6 DEF f_opendir
  <2> QED BY <2>8, <2>9
<1>9. ListerOK'
  <2>1. /\ 1 \in ListingBackend /\ {} \in SUBSET Entry /\ 0 \in Nat /\ 0 \in ListingRet
        /\ z \in [Name -> Nat] /\ owed \in SUBSET Name /\ FALSE \in BOOLEAN /\ "reading" \in ListingStep
    BY <1>6, Constants DEF ListingStep, ListingBackend, ListingRet
  <2>2. z \in ListingSeen
    BY <2>1 DEF ListingSeen
  <2>3. l \in Listing
    BY <1>7, <2>1, <2>2, ListingType
  <2>4. l.seen = z
    BY <1>7
  <2> QED BY <1>8, <2>1, <2>3, <2>4 DEF ListerOK
<1>10. Inv'
  BY <1>3, <1>4, <1>5, <1>9, CallStep
<1>11. ListOK'
  <2>1. /\ lister'.at = "reading" /\ lister'.b = 1 /\ lister'.dents = {} /\ lister'.offset = 0
        /\ lister'.seen = z /\ lister'.due = owed
    BY <1>7, <1>8
  <2>2. ASSUME NEW p \in owed PROVE Listed(p)'
    <3>1. p \in Name /\ cid(p) # 0 /\ cid(p)' = cid(p)
      BY <1>5, <1>6 DEF isContainer, cid, state, Canonical
    <3>2. Ahead(p, lister.b)' = {}
      <4>1. ~(\E b \in 1..(lister'.b - 1) : TRUE)
        BY <2>1
      <4> QED BY <4>1 DEF Ahead
    <3>3. InFront(lister.dents, <<"name", p>>)' = {}
      BY <2>1 DEF InFront
    <3>4. ~(Canon[p] < 1)
      BY <3>1, Constants DEF Backend
    <3>5. Cardinality(Ahead(p, Backends + 1))' \in Nat
      <4>1. Ahead(p, Backends + 1)' \in SUBSET Entry
        BY DEF Ahead
      <4> QED BY <4>1, OrderCovers, FS_Subset, FS_CardinalityType
    <3>6. z[p] = 0
      BY <1>6, <3>1
    <3>7. InFront(lister.dents, <<"name", p>>)' = Ahead(p, lister.b)'
      BY <3>2, <3>3
    <3>8. ~(Canon[p] < lister'.b)
      BY <2>1, <3>4
    <3>9. ~(Cardinality(Ahead(p, Backends + 1))' < lister'.offset)
      BY <2>1, <3>5
    <3>10. lister'.seen[p] = 0
      BY <2>1, <3>6
    <3> QED BY <3>1, <3>7, <3>8, <3>9, <3>10 DEF Listed
  <2> QED BY <2>1, <2>2 DEF ListOK, ListingsAreComplete
<1> QED BY <1>10, <1>11

LEMMA ReleasedirStep ==
  ASSUME Inv, NEW n \in Nodes, f_releasedir(n)
  PROVE  Inv' /\ ListOK'
<1>1. TypeOK /\ OpsOK
  BY DEF Inv
<1>2. /\ op' = [op EXCEPT ![n] = Idle] /\ OpOK(Idle) /\ Idle.at \notin {"tree", "copies"}
      /\ lister' = NoLister /\ UNCHANGED <<state, history>>
  BY OpReturn DEF f_releasedir
<1>3. op[n].at = "list"
  <2>1. op[n].call = "list"
    BY DEF f_releasedir
  <2> QED BY <1>1, <2>1 DEF OpsOK, OpOK, Fits
<1>4. ListerOK'
  BY <1>2, NoListerOK DEF ListerOK
<1>5. /\ place' = place /\ trash' = trash /\ dir' = dir /\ faults' = faults
      /\ UNCHANGED <<files, acked, tainted, spoiled>>
  BY <1>2 DEF state, history
<1>6. Inv'
  BY <1>2, <1>3, <1>4, <1>5, StateKept, QuietStep
<1> QED BY <1>2, <1>6, NoListerOK DEF ListOK, ListingsAreComplete

(* A step of the listing: only the listing changes, and faults. *)
LEMMA ListStep ==
  ASSUME Inv, UNCHANGED <<state, op, files, acked, tainted, spoiled>>, ListerOK',
         faults' = faults \/ \E f : Fails(f)
  PROVE  /\ Inv' /\ \A p \in Name : cid(p)' = cid(p)
         /\ \A p, c : {e \in Entry : Rank(e) < Rank(<<"name", p>>) /\ \E b \in 1..(c - 1) : e \in EntriesOn(b)'}
                        = Ahead(p, c)
<1>1. TypeOK /\ OpsOK /\ HistoryOK /\ TrashOK
  BY TypeParts DEF Inv
<1>2. place' = place /\ trash' = trash /\ dir' = dir /\ UNCHANGED <<op, files, acked, tainted, spoiled>>
  BY DEF state
<1>3. /\ op' \in [Nodes -> Op] /\ OpsOK'
      /\ \A m \in Nodes, q \in Name : Removing(m, q)' = Removing(m, q)
      /\ \A m \in Nodes, b \in Backend, q \in Name : WillRemove(m, b, q)' = WillRemove(m, b, q)
  BY <1>1, <1>2, SameOp
<1>4. faults' \in 0..MaxFaults
  BY <1>1, Failing DEF HistoryOK
<1>5. TrashOK'
  BY <1>1, <1>2 DEF TrashOK
<1>6. Inv'
  BY <1>2, <1>3, <1>4, <1>5, KeptStep
<1>7. \A b : EntriesOn(b)' = EntriesOn(b)
  BY <1>2 DEF EntriesOn
<1> QED BY <1>2, <1>6, <1>7 DEF cid, Canonical, Ahead
(* plfs_readdir: one backend more has been read.  If it could not be, and  *)
(* nothing was missed, nothing was there.                                  *)
LEMMA PlfsReaddirStep ==
  ASSUME Inv, ListOK, plfs_readdir
  PROVE  Inv' /\ ListOK'
<1>1. TypeOK /\ PlacesOK /\ ListerOK /\ lister \in Listing /\ lister.at = "reading"
  BY TypeParts DEF Inv, ListerOK, plfs_readdir
<1>2. PICK w, E, c : w = lister /\ E = EntriesOn(lister.b) /\ c = lister.b + 1
  OBVIOUS
<1>3. /\ w = [at |-> w.at, b |-> w.b, dents |-> w.dents, offset |-> w.offset, ret |-> w.ret,
              seen |-> w.seen, due |-> w.due, missed |-> w.missed]
      /\ w.at = "reading" /\ w.b \in 1..(Backends + 1)
      /\ w.dents \in SUBSET Entry /\ w.offset \in Nat /\ w.ret \in {0, -1}
      /\ w.seen \in {<<>>} \cup [Name -> Nat] /\ w.due \in SUBSET Name /\ w.missed \in BOOLEAN
  BY <1>1, <1>2, ListingParts
<1>20. /\ w.at \in ListingStep /\ w.b \in ListingBackend /\ w.dents \in SUBSET Entry
       /\ w.offset \in Nat /\ w.ret \in ListingRet /\ w.seen \in ListingSeen
       /\ w.due \in SUBSET Name /\ w.missed \in BOOLEAN
  BY <1>3 DEF ListingStep, ListingBackend, ListingRet, ListingSeen
<1>4. w.seen \in [Name -> Nat]
  BY <1>1, <1>2 DEF ListerOK
<1>5. w.b \in Backend /\ w.b \in Nat /\ c = w.b + 1 /\ c \in 1..(Backends + 1) /\ E \subseteq Entry
  BY <1>1, <1>2, <1>3, Constants, EntriesType DEF plfs_readdir, Backend
<1>6. PICK d, r, m :
        /\ lister' = [at |-> "reading", b |-> c, dents |-> d, offset |-> w.offset, ret |-> r,
                      seen |-> w.seen, due |-> w.due, missed |-> m]
        /\ d \in SUBSET Entry /\ r \in {0, -1} /\ m \in BOOLEAN
        /\ ~m => ~w.missed /\ d = w.dents \cup E
  <2>1. CASE lister' = [lister EXCEPT !.dents = @ \cup EntriesOn(lister.b), !.ret = 0, !.b = @ + 1]
    <3>1. PICK d, r : d = w.dents \cup E /\ r = 0
      OBVIOUS
    <3>2. PICK u : u = [w EXCEPT !.dents = d]
      OBVIOUS
    <3>3. u = [at |-> w.at, b |-> w.b, dents |-> d, offset |-> w.offset, ret |-> w.ret,
               seen |-> w.seen, due |-> w.due, missed |-> w.missed]
      BY <1>3, <3>2
    <3>4. PICK v : v = [u EXCEPT !.ret = r]
      OBVIOUS
    <3>5. v = [at |-> w.at, b |-> w.b, dents |-> d, offset |-> w.offset, ret |-> r,
               seen |-> w.seen, due |-> w.due, missed |-> w.missed]
      BY <3>3, <3>4
    <3>6. [v EXCEPT !.b = c] = [at |-> w.at, b |-> c, dents |-> d, offset |-> w.offset, ret |-> r,
                                seen |-> w.seen, due |-> w.due, missed |-> w.missed]
      BY <3>5
    <3>7. u.b = w.b /\ v.b = w.b
      BY <3>3, <3>5
    <3>8. lister' = [v EXCEPT !.b = c]
      BY <1>2, <2>1, <3>1, <3>2, <3>4, <3>7
    <3>9. d \in SUBSET Entry /\ r \in {0, -1}
      BY <1>3, <1>5, <3>1
    <3>10. PICK m : m = w.missed
      OBVIOUS
    <3>11. lister' = [at |-> "reading", b |-> c, dents |-> d, offset |-> w.offset, ret |-> r,
                      seen |-> w.seen, due |-> w.due, missed |-> m]
      BY <1>3, <3>6, <3>8, <3>10
    <3>12. m \in BOOLEAN /\ (~m => ~w.missed /\ d = w.dents \cup E)
      BY <1>3, <3>1, <3>10
    <3> QED BY <3>9, <3>11, <3>12
  <2>2. CASE lister' = [lister EXCEPT !.ret = -1, !.b = @ + 1, !.missed = @ \/ EntriesOn(lister.b) # {}]
    <3>1. PICK r, m : r = -1 /\ m = (w.missed \/ E # {})
      OBVIOUS
    <3>2. PICK u : u = [w EXCEPT !.ret = r]
      OBVIOUS
    <3>3. u = [at |-> w.at, b |-> w.b, dents |-> w.dents, offset |-> w.offset, ret |-> r,
               seen |-> w.seen, due |-> w.due, missed |-> w.missed]
      BY <1>3, <3>2
    <3>4. PICK v : v = [u EXCEPT !.b = c]
      OBVIOUS
    <3>5. v = [at |-> w.at, b |-> c, dents |-> w.dents, offset |-> w.offset, ret |-> r,
               seen |-> w.seen, due |-> w.due, missed |-> w.missed]
      BY <3>3, <3>4
    <3>6. [v EXCEPT !.missed = m] = [at |-> w.at, b |-> c, dents |-> w.dents, offset |-> w.offset, ret |-> r,
                                     seen |-> w.seen, due |-> w.due, missed |-> m]
      BY <3>5
    <3>7. u.b = w.b /\ v.missed = w.missed
      BY <3>3, <3>5
    <3>8. lister' = [v EXCEPT !.missed = m]
      BY <1>2, <2>2, <3>1, <3>2, <3>4, <3>7
    <3>9. r \in {0, -1} /\ m \in BOOLEAN /\ (~m => ~w.missed /\ w.dents = w.dents \cup E)
      BY <1>3, <3>1
    <3>10. PICK d : d = w.dents
      OBVIOUS
    <3>11. lister' = [at |-> "reading", b |-> c, dents |-> d, offset |-> w.offset, ret |-> r,
                      seen |-> w.seen, due |-> w.due, missed |-> m]
      BY <1>3, <3>6, <3>8, <3>10
    <3>12. d \in SUBSET Entry /\ (~m => ~w.missed /\ d = w.dents \cup E)
      BY <1>3, <3>9, <3>10
    <3> QED BY <3>9, <3>11, <3>12
  <2> QED BY <2>1, <2>2 DEF plfs_readdir
<1>7. ListerOK'
  <2>1. "reading" \in ListingStep
    BY DEF ListingStep
  <2>2. lister' \in Listing
    <3>1. /\ lister' = [at |-> "reading", b |-> c, dents |-> d, offset |-> w.offset, ret |-> r,
                        seen |-> w.seen, due |-> w.due, missed |-> m]
          /\ d \in SUBSET Entry /\ r \in {0, -1} /\ m \in BOOLEAN
      BY <1>6
    <3>2. c \in ListingBackend /\ r \in ListingRet
      BY <1>5, <3>1 DEF ListingBackend, ListingRet
    <3>3. [at |-> "reading", b |-> c, dents |-> d, offset |-> w.offset, ret |-> r,
           seen |-> w.seen, due |-> w.due, missed |-> m] \in Listing
      BY <1>20, <2>1, <3>1, <3>2, ListingType
    <3> QED BY <3>1, <3>3
  <2>3. lister'.seen = w.seen
    BY <1>6
  <2> QED BY <1>4, <2>2, <2>3 DEF ListerOK
<1>8. /\ Inv' /\ \A p \in Name : cid(p)' = cid(p)
      /\ \A p, x : {e \in Entry : Rank(e) < Rank(<<"name", p>>) /\ \E b \in 1..(x - 1) : e \in EntriesOn(b)'}
                     = Ahead(p, x)
  <2>1. UNCHANGED <<state, op, files, acked, tainted, spoiled>>
    BY DEF plfs_readdir
  <2>2. faults' = faults \/ \E f : Fails(f)
    BY DEF plfs_readdir
  <2> QED BY <1>7, <2>1, <2>2, ListStep
<1>9. /\ lister'.at = "reading" /\ lister'.b = c /\ lister'.dents = d /\ lister'.offset = w.offset
      /\ lister'.seen = w.seen /\ lister'.due = w.due /\ lister'.missed = m
  BY <1>6
<1>10. ASSUME ~m, NEW p \in w.due PROVE Listed(p)'
  <2>1. /\ p \in Name /\ cid(p) # 0 /\ cid(p)' = cid(p)
        /\ InFront(w.dents, <<"name", p>>) = Ahead(p, w.b)
        /\ Canon[p] < w.b => <<"name", p>> \in w.dents
        /\ w.seen[p] = IF Cardinality(Ahead(p, Backends + 1)) < w.offset THEN 1 ELSE 0
    BY <1>1, <1>2, <1>3, <1>6, <1>8, <1>10 DEF ListOK, Listed
  <2>2. d = w.dents \cup E
    BY <1>6, <1>10
  <2>3. Ahead(p, c)' = Ahead(p, c) /\ Ahead(p, Backends + 1)' = Ahead(p, Backends + 1)
    <3>1. \A x : Ahead(p, x)' = {e \in Entry : Rank(e) < Rank(<<"name", p>>) /\ \E b \in 1..(x - 1) : e \in EntriesOn(b)'}
      BY DEF Ahead, Rank
    <3>2. Ahead(p, c)' = Ahead(p, c)
      BY <1>8, <3>1
    <3>3. Ahead(p, Backends + 1)' = Ahead(p, Backends + 1)
      <4>1. PICK x : x = Backends + 1
        OBVIOUS
      <4>2. Ahead(p, x)' = Ahead(p, x)
        BY <1>8, <3>1
      <4> QED BY <4>1, <4>2
    <3> QED BY <3>2, <3>3
  <2>4. InFront(d, <<"name", p>>) = Ahead(p, c)
    <3>1. InFront(d, <<"name", p>>) = InFront(w.dents, <<"name", p>>) \cup InFront(E, <<"name", p>>)
      BY <2>2 DEF InFront
    <3>2. \A b : b \in 1..(c - 1) <=> b \in 1..(w.b - 1) \/ b = w.b
      <4>1. PICK k \in Nat : k = w.b /\ k >= 1
        BY <1>5, Constants DEF Backend
      <4>2. c - 1 = k
        BY <1>5, <4>1
      <4>3. \A b : b \in 1..k <=> b \in 1..(k - 1) \/ b = k
        BY <4>1
      <4> QED BY <4>1, <4>2, <4>3
    <3>3. Ahead(p, c) = Ahead(p, w.b) \cup {e \in Entry : Rank(e) < Rank(<<"name", p>>) /\ e \in E}
      BY <1>2, <3>2 DEF Ahead
    <3>4. InFront(E, <<"name", p>>) = {e \in Entry : Rank(e) < Rank(<<"name", p>>) /\ e \in E}
      BY <1>5 DEF InFront
    <3> QED BY <2>1, <3>1, <3>3, <3>4
  <2>5. Canon[p] < c => <<"name", p>> \in d
    <3>1. CASE Canon[p] < w.b
      BY <2>1, <2>2, <3>1
    <3>2. CASE Canon[p] = w.b
      <4>1. place[<<w.b, p>>].there
        BY <1>1, <2>1, <3>2, NothingThere DEF There, Canonical
      <4>2. <<"name", p>> \in E
        BY <1>2, <2>1, <4>1 DEF EntriesOn
      <4> QED BY <2>2, <4>2
    <3>3. Canon[p] \in Nat
      BY <2>1, Constants DEF Backend
    <3> QED BY <1>5, <3>1, <3>2, <3>3
  <2>6. InFront(lister.dents, <<"name", p>>)' = Ahead(p, lister.b)'
    <3>1. InFront(lister.dents, <<"name", p>>)' = InFront(d, <<"name", p>>)
      BY <1>9 DEF InFront, Rank
    <3>2. Ahead(p, lister.b)' = Ahead(p, c)'
      BY <1>9 DEF Ahead
    <3> QED BY <2>3, <2>4, <3>1, <3>2
  <2>7. Canon[p] < lister'.b => <<"name", p>> \in lister'.dents
    BY <1>9, <2>5
  <2>8. lister'.seen[p] = IF Cardinality(Ahead(p, Backends + 1))' < lister'.offset THEN 1 ELSE 0
    BY <1>9, <2>1, <2>3
  <2> QED BY <2>1, <2>6, <2>7, <2>8 DEF Listed
<1> QED BY <1>8, <1>9, <1>10 DEF ListOK, ListingsAreComplete

(* f_readdir: when the entries are read, a file that is owed is in them at *)
(* the number of those in front of it, and in the buffer if that is.       *)
LEMMA FReaddirStep ==
  ASSUME Inv, ListOK, f_readdir
  PROVE  Inv' /\ ListOK'
<1>1. TypeOK /\ ListerOK /\ lister \in Listing /\ lister.at = "reading"
  BY TypeParts DEF Inv, ListerOK, f_readdir
<1>2. PICK w, es : w = lister /\ es = Bufferful(lister.dents, lister.offset)
  OBVIOUS
<1>3. /\ w = [at |-> w.at, b |-> w.b, dents |-> w.dents, offset |-> w.offset, ret |-> w.ret,
              seen |-> w.seen, due |-> w.due, missed |-> w.missed]
      /\ w.at = "reading" /\ w.b \in 1..(Backends + 1)
      /\ w.dents \in SUBSET Entry /\ w.offset \in Nat /\ w.ret \in {0, -1}
      /\ w.seen \in {<<>>} \cup [Name -> Nat] /\ w.due \in SUBSET Name /\ w.missed \in BOOLEAN
  BY <1>1, <1>2, ListingParts
<1>20. /\ w.at \in ListingStep /\ w.b \in ListingBackend /\ w.dents \in SUBSET Entry
       /\ w.offset \in Nat /\ w.ret \in ListingRet /\ w.seen \in ListingSeen
       /\ w.due \in SUBSET Name /\ w.missed \in BOOLEAN
  BY <1>3 DEF ListingStep, ListingBackend, ListingRet, ListingSeen
<1>4. w.seen \in [Name -> Nat]
  BY <1>1, <1>2 DEF ListerOK
<1>5. w.b = Backends + 1
  BY <1>2, <1>3, Constants DEF f_readdir
<1>6. /\ es \in SUBSET w.dents /\ Cardinality(es) \in Nat /\ Cardinality(es) <= BufferSize
      /\ \A e \in w.dents : e \in es <=> w.offset <= Position(w.dents, e) /\ Position(w.dents, e) < w.offset + BufferSize
      /\ \A e \in es : Position(w.dents, e) < w.offset + Cardinality(es)
      /\ es = {} => \A e \in w.dents : Position(w.dents, e) < w.offset
  <2>1. PICK D \in SUBSET Entry, o \in Nat : D = w.dents /\ o = w.offset
    BY <1>3
  <2>2. es = Bufferful(D, o)
    BY <1>2, <2>1
  <2>3. IsBufferful(es, D, o)
    BY <2>2, Bufferfuls
  <2> QED BY <2>1, <2>3 DEF IsBufferful
<1>7. ASSUME ~w.missed, NEW p \in w.due
      PROVE  /\ p \in Name /\ cid(p) # 0 /\ <<"name", p>> \in w.dents
             /\ Position(w.dents, <<"name", p>>) = Cardinality(Ahead(p, Backends + 1))
             /\ w.seen[p] = IF Cardinality(Ahead(p, Backends + 1)) < w.offset THEN 1 ELSE 0
  <2>1. Listed(p) /\ p \in Name
    BY <1>1, <1>2, <1>3, <1>7 DEF ListOK
  <2>2. InFront(w.dents, <<"name", p>>) = Ahead(p, Backends + 1)
    BY <1>2, <1>5, <2>1 DEF Listed
  <2>3. Canon[p] < Backends + 1
    BY <2>1, Constants DEF Backend
  <2> QED BY <1>2, <1>5, <2>1, <2>2, <2>3 DEF Listed, Position
<1>8. ASSUME ListerOK'
      PROVE  /\ Inv' /\ \A p \in Name : cid(p)' = cid(p)
             /\ \A p, x : {e \in Entry : Rank(e) < Rank(<<"name", p>>) /\ \E b \in 1..(x - 1) : e \in EntriesOn(b)'}
                            = Ahead(p, x)
  <2>1. UNCHANGED <<state, op, files, acked, tainted, spoiled>> /\ faults' = faults
    BY DEF f_readdir, history
  <2> QED BY <1>8, <2>1, ListStep
<1>9. CASE lister' = [lister EXCEPT !.at = "error"]
  <2>1. lister' = [at |-> "error", b |-> w.b, dents |-> w.dents, offset |-> w.offset, ret |-> w.ret,
                   seen |-> w.seen, due |-> w.due, missed |-> w.missed]
    BY <1>2, <1>3, <1>9
  <2>2. "error" \in ListingStep
    BY DEF ListingStep
  <2>3. lister' \in Listing
    <3>1. [at |-> "error", b |-> w.b, dents |-> w.dents, offset |-> w.offset, ret |-> w.ret,
           seen |-> w.seen, due |-> w.due, missed |-> w.missed] \in Listing
      BY <1>20, <2>2, ListingType
    <3> QED BY <2>1, <3>1
  <2>4. lister'.seen = w.seen /\ lister'.at = "error"
    BY <2>1
  <2>5. ListerOK'
    BY <1>4, <2>3, <2>4 DEF ListerOK
  <2> QED BY <1>8, <2>4, <2>5 DEF ListOK, ListingsAreComplete
<1>10. CASE es = {} /\ lister' = [lister EXCEPT !.at = "done", !.dents = {}]
  <2>1. PICK x \in SUBSET Entry : x = {}
    OBVIOUS
  <2>2. PICK u : u = [w EXCEPT !.at = "done"]
    OBVIOUS
  <2>3. u = [at |-> "done", b |-> w.b, dents |-> w.dents, offset |-> w.offset, ret |-> w.ret,
             seen |-> w.seen, due |-> w.due, missed |-> w.missed]
    BY <1>3, <2>2
  <2>4. [u EXCEPT !.dents = x] = [at |-> "done", b |-> w.b, dents |-> x, offset |-> w.offset, ret |-> w.ret,
                                  seen |-> w.seen, due |-> w.due, missed |-> w.missed]
    BY <2>3
  <2>5. lister' = [u EXCEPT !.dents = x]
    BY <1>2, <1>10, <2>1, <2>2
  <2>6. "done" \in ListingStep
    BY DEF ListingStep
  <2>7. lister' \in Listing
    <3>1. [at |-> "done", b |-> w.b, dents |-> x, offset |-> w.offset, ret |-> w.ret,
           seen |-> w.seen, due |-> w.due, missed |-> w.missed] \in Listing
      <4>1. x \in SUBSET Entry
        BY <2>1
      <4> QED BY <1>20, <2>6, <4>1, ListingType
    <3> QED BY <2>4, <2>5, <3>1
  <2>8. lister'.seen = w.seen /\ lister'.at = "done" /\ lister'.due = w.due /\ lister'.missed = w.missed
    BY <2>4, <2>5
  <2>9. ListerOK'
    BY <1>4, <2>7, <2>8 DEF ListerOK
  <2>10. ASSUME ~w.missed, NEW p \in w.due PROVE w.seen[p] = 1
    <3>1. Position(w.dents, <<"name", p>>) < w.offset
      BY <1>6, <1>7, <1>10, <2>10
    <3> QED BY <1>7, <2>10, <3>1
  <2> QED BY <1>8, <2>8, <2>9, <2>10 DEF ListOK, ListingsAreComplete
<1>11. CASE lister' = [lister EXCEPT !.seen = [p \in Name |-> IF p \in lister.due
                                                THEN @[p] + (IF <<"name", p>> \in es THEN 1 ELSE 0) ELSE 0],
                                     !.offset = @ + Cardinality(es), !.b = 1, !.dents = {}]
  <2>1. PICK x, s, o : /\ x = {} /\ o = w.offset + Cardinality(es)
                       /\ s = [p \in Name |-> IF p \in w.due
                                 THEN w.seen[p] + (IF <<"name", p>> \in es THEN 1 ELSE 0) ELSE 0]
    OBVIOUS
  <2>2. s \in [Name -> Nat] /\ o \in Nat
    <3>1. \A p \in Name : w.seen[p] \in Nat
      BY <1>4
    <3>2. \A p \in Name : s[p] \in Nat
      <4> TAKE p \in Name
      <4>1. s[p] = IF p \in w.due THEN w.seen[p] + (IF <<"name", p>> \in es THEN 1 ELSE 0) ELSE 0
        BY <2>1
      <4>2. w.seen[p] + 1 \in Nat /\ w.seen[p] + 0 \in Nat
        BY <3>1
      <4>3. CASE <<"name", p>> \in es
        BY <4>1, <4>2, <4>3
      <4>4. CASE <<"name", p>> \notin es
        BY <4>1, <4>2, <4>4
      <4> QED BY <4>3, <4>4
    <3> QED BY <1>3, <1>6, <2>1, <3>2
  <2>3. PICK u : u = [w EXCEPT !.seen = s]
    OBVIOUS
  <2>4. u = [at |-> w.at, b |-> w.b, dents |-> w.dents, offset |-> w.offset, ret |-> w.ret,
             seen |-> s, due |-> w.due, missed |-> w.missed]
    BY <1>3, <2>3
  <2>5. PICK v : v = [u EXCEPT !.offset = o]
    OBVIOUS
  <2>6. v = [at |-> w.at, b |-> w.b, dents |-> w.dents, offset |-> o, ret |-> w.ret,
             seen |-> s, due |-> w.due, missed |-> w.missed]
    BY <2>4, <2>5
  <2>7. PICK t : t = [v EXCEPT !.b = 1]
    OBVIOUS
  <2>8. t = [at |-> w.at, b |-> 1, dents |-> w.dents, offset |-> o, ret |-> w.ret,
             seen |-> s, due |-> w.due, missed |-> w.missed]
    BY <2>6, <2>7
  <2>9. [t EXCEPT !.dents = x] = [at |-> w.at, b |-> 1, dents |-> x, offset |-> o, ret |-> w.ret,
                                  seen |-> s, due |-> w.due, missed |-> w.missed]
    BY <2>8
  <2>10. lister' = [t EXCEPT !.dents = x]
    <3>1. u.offset = w.offset
      BY <2>4
    <3>2. w.due = lister.due /\ w.seen = lister.seen /\ w.offset = lister.offset
      BY <1>2
    <3>3. lister' = [w EXCEPT !.seen = s, !.offset = o, !.b = 1, !.dents = x]
      BY <1>2, <1>11, <2>1, <3>2
    <3> QED BY <2>3, <2>5, <2>7, <3>3
  <2>11. /\ lister'.at = "reading" /\ lister'.b = 1 /\ lister'.dents = {} /\ lister'.offset = o
         /\ lister'.seen = s /\ lister'.due = w.due /\ lister'.missed = w.missed
    BY <1>3, <2>1, <2>9, <2>10
  <2>12. ListerOK'
    <3>1. 1 \in ListingBackend /\ x \in SUBSET Entry
      BY <2>1, Constants DEF ListingBackend
    <3>2. s \in ListingSeen
      BY <2>2 DEF ListingSeen
    <3>3. [at |-> w.at, b |-> 1, dents |-> x, offset |-> o, ret |-> w.ret,
           seen |-> s, due |-> w.due, missed |-> w.missed] \in Listing
      <4>1. o \in Nat
        BY <2>2
      <4> QED BY <1>20, <3>1, <3>2, <4>1, ListingType
    <3>4. lister' \in Listing
      BY <2>9, <2>10, <3>3
    <3> QED BY <2>2, <2>11, <3>4 DEF ListerOK
  <2>13. ASSUME ~w.missed, NEW p \in w.due PROVE Listed(p)'
    <3>1. PICK P : P = Cardinality(Ahead(p, Backends + 1))
      OBVIOUS
    <3>2. /\ p \in Name /\ cid(p) # 0 /\ <<"name", p>> \in w.dents /\ P \in Nat
          /\ Position(w.dents, <<"name", p>>) = P /\ w.seen[p] = IF P < w.offset THEN 1 ELSE 0
      BY <1>7, <2>13, <3>1, AheadFinite
    <3>3. s[p] = IF P < o THEN 1 ELSE 0
      <4>1. s[p] = w.seen[p] + (IF <<"name", p>> \in es THEN 1 ELSE 0)
        BY <2>1, <2>13, <3>2
      <4>2. BufferSize \in Nat
        BY BufferAssumption
      <4>3. <<"name", p>> \in es <=> w.offset <= P /\ P < w.offset + BufferSize
        BY <1>6, <3>2
      <4>4. <<"name", p>> \in es => P < o
        BY <1>6, <2>1, <3>2
      <4> QED BY <1>3, <1>6, <2>1, <3>2, <4>1, <4>2, <4>3, <4>4
    <3>4. cid(p)' # 0
      BY <1>8, <2>12, <3>2
    <3>5. InFront(lister.dents, <<"name", p>>)' = Ahead(p, lister.b)'
      <4>1. InFront(lister.dents, <<"name", p>>)' = {}
        BY <2>11 DEF InFront
      <4>2. ~(\E b \in 1..(lister'.b - 1) : TRUE)
        BY <2>11
      <4>3. Ahead(p, lister.b)' = {}
        BY <4>2 DEF Ahead
      <4> QED BY <4>1, <4>3
    <3>6. ~(Canon[p] < lister'.b)
      BY <2>11, <3>2, Constants DEF Backend
    <3>7. Ahead(p, Backends + 1)' = Ahead(p, Backends + 1)
      <4>1. PICK c : c = Backends + 1
        OBVIOUS
      <4>2. Ahead(p, c)' = {e \in Entry : Rank(e) < Rank(<<"name", p>>) /\ \E b \in 1..(c - 1) : e \in EntriesOn(b)'}
        BY DEF Ahead, Rank
      <4>3. Ahead(p, c)' = Ahead(p, c)
        BY <1>8, <2>12, <4>2
      <4> QED BY <4>1, <4>3
    <3>8. lister'.seen[p] = IF Cardinality(Ahead(p, Backends + 1))' < lister'.offset THEN 1 ELSE 0
      BY <2>11, <3>1, <3>3, <3>7
    <3> QED BY <3>4, <3>5, <3>6, <3>8 DEF Listed
  <2> QED BY <1>8, <2>11, <2>12, <2>13 DEF ListOK, ListingsAreComplete
<1> QED BY <1>2, <1>9, <1>10, <1>11 DEF f_readdir

-----------------------------------------------------------------------------
IInv == Inv /\ ListOK

LEMMA InitIInv ==
  ASSUME Init
  PROVE  IInv
<1>1. /\ \A k \in Places : place[k] = NoPlace
      /\ place = [k \in Places |-> place[k]]
  BY DEF Init, Places
<1>2. /\ \A p \in Name : cid(p) = 0
      /\ \A k \in Places : ~There(k)
      /\ \A p \in Name, n \in Nodes : Where(p, n) = Canonical(p)
  BY <1>1, EmptyPlaces, CanonicalPlace DEF cid, There, Where, LeadsTo
<1>3. PlacesOK
  BY <1>1, EmptyPlaces DEF PlacesOK
<1>4. OpsOK /\ op \in [Nodes -> Op]
  <2>1. \A n \in Nodes : op[n] = Idle
    BY DEF Init
  <2>2. Idle \in Op
    BY IdleOK DEF OpOK
  <2> QED BY <2>1, <2>2, IdleOK DEF OpsOK, Init
<1>5. HistoryOK
  BY BufferAssumption, FaultsAssumption DEF HistoryOK, Init
<1>6. TypeOK
  <2>1. PlaceTypeOK
    BY <1>1, EmptyPlaces DEF PlaceTypeOK
  <2>2. TrashOK
    BY DEF TrashOK, Init
  <2>3. ListerOK
    BY NoListerOK DEF ListerOK, Init
  <2> QED BY <1>4, <1>5, <2>1, <2>2, <2>3, TypeParts
<1>7. FilesInv
  <2>1. files = 0
    BY DEF Init
  <2>2. IdsOK
    BY <1>2, <2>1 DEF IdsOK
  <2>3. EmptyOK
    BY <1>2 DEF EmptyOK, Places
  <2>4. \A p, q \in Name, n \in Nodes : ~(p # q /\ Where(p, n)[2] = q)
    BY <1>2, CanonicalPlace
  <2>5. \A p \in Name : ~Unspoiled(p)
    BY <1>2 DEF Unspoiled
  <2> QED BY <2>2, <2>3, <2>4, <2>5 DEF FilesInv, LinksOK, RenamedOK, ShadowsOK, DropsOK
<1>8. ListOK
  BY NoListerOK DEF ListOK, ListingsAreComplete, Init
<1> QED BY <1>3, <1>4, <1>6, <1>7, <1>8 DEF IInv, Inv

LEMMA StutterIInv ==
  ASSUME IInv, UNCHANGED vars
  PROVE  IInv'
<1>1. TypeOK /\ OpsOK /\ TrashOK /\ HistoryOK /\ ListerOK
  BY TypeParts DEF IInv, Inv
<1>2. /\ place' = place /\ trash' = trash /\ dir' = dir /\ op' = op /\ lister' = lister
      /\ UNCHANGED <<files, acked, tainted, spoiled>> /\ faults' = faults
  BY DEF vars, state, history
<1>3. TrashOK' /\ ListerOK' /\ faults' \in 0..MaxFaults
  BY <1>1, <1>2 DEF TrashOK, ListerOK, HistoryOK
<1>4. Inv'
  <2>1. /\ op' \in [Nodes -> Op] /\ OpsOK'
        /\ \A m \in Nodes, q \in Name : Removing(m, q)' = Removing(m, q)
        /\ \A m \in Nodes, b \in Backend, q \in Name : WillRemove(m, b, q)' = WillRemove(m, b, q)
    BY <1>1, <1>2, SameOp
  <2> QED BY <1>2, <1>3, <2>1, KeptStep DEF IInv
<1>5. Heeded({})
  BY <1>2 DEF Heeded, cid, Canonical, EntriesOn
<1> QED BY <1>4, <1>5, ListNoted DEF IInv

(* A step of a node. *)
LEMMA NodeStepIInv ==
  ASSUME IInv, NEW n \in Nodes, NodeStep(n)
  PROVE  IInv'
<1>1. Inv /\ ListOK
  BY DEF IInv
<1>2. ASSUME Inv' /\ \E S : Heeded(S) PROVE IInv'
  BY <1>1, <1>2, ListNoted DEF IInv
<1>3. ASSUME NEW p \in Name, Create(n, p) PROVE IInv'
  BY <1>1, <1>2, <1>3, CreateStep
<1>4. ASSUME NEW p \in Name, Open(n, p) PROVE IInv'
  BY <1>1, <1>2, <1>4, OpenStep
<1>5. ASSUME NEW p \in Name, Unlink(n, p) PROVE IInv'
  BY <1>1, <1>2, <1>5, UnlinkStep
<1>6. ASSUME NEW p \in Name, NEW q \in Name, Rename(n, p, q) PROVE IInv'
  BY <1>1, <1>2, <1>6, RenameStep
<1>7. CASE TryOpen(n)
  BY <1>1, <1>2, <1>7, TryOpenStep
<1>8. CASE MakeShadow(n)
  BY <1>1, <1>2, <1>8, MakeShadowStep
<1>9. CASE Link(n)
  BY <1>1, <1>2, <1>9, LinkStep
<1>10. CASE UnlinkCanonical(n)
  BY <1>1, <1>2, <1>10, UnlinkCanonicalStep
<1>11. CASE RemoveTree(n)
  BY <1>1, <1>2, <1>11, RemoveTreeStep
<1>12. CASE RemoveCopies(n)
  BY <1>1, <1>2, <1>12, RemoveCopiesStep
<1>13. CASE RenameCanonical(n)
  BY <1>1, <1>2, <1>13, RenameCanonicalStep
<1>14. ASSUME NEW call \in {"mkdir", "rmdir"}, DirCall(n, call) PROVE IInv'
  BY <1>1, <1>2, <1>14, DirCallStep
<1>15. CASE plfs_mkdir(n)
  BY <1>1, <1>2, <1>15, MkdirStep
<1>16. CASE plfs_rmdir(n)
  BY <1>1, <1>2, <1>16, RmdirStep
<1>17. CASE Crash(n)
  BY <1>1, <1>2, <1>17, CrashStep
<1>18. CASE f_opendir(n)
  BY <1>1, <1>18, OpendirStep DEF IInv
<1>19. CASE f_releasedir(n)
  BY <1>1, <1>19, ReleasedirStep DEF IInv
<1>20. \/ \E p \in Name : Create(n, p) \/ Open(n, p) \/ Unlink(n, p) \/ \E q \in Name : Rename(n, p, q)
       \/ TryOpen(n) \/ MakeShadow(n) \/ Link(n)
       \/ UnlinkCanonical(n) \/ RemoveTree(n) \/ RemoveCopies(n) \/ RenameCanonical(n)
       \/ DirCall(n, "mkdir") \/ DirCall(n, "rmdir") \/ plfs_mkdir(n) \/ plfs_rmdir(n)
       \/ Crash(n) \/ f_opendir(n) \/ f_releasedir(n)
  BY DEF NodeStep
<1>21. DirCall(n, "mkdir") \/ DirCall(n, "rmdir") => IInv'
  BY <1>14
<1> QED BY <1>3, <1>4, <1>5, <1>6, <1>7, <1>8, <1>9, <1>10, <1>11, <1>12, <1>13,
           <1>15, <1>16, <1>17, <1>18, <1>19, <1>20, <1>21

(* What a reader finds of an unspoiled file: a dropping of each node that  *)
(* was told that it is open.                                               *)
LEMMA FilesAreWhole ==
  ASSUME Inv
  PROVE  FilesHaveTheirDroppings
<1>1. TypeOK /\ DropsOK /\ HistoryOK
  BY TypeParts DEF Inv, FilesInv
<1> SUFFICES ASSUME NEW p \in Name, cid(p) # 0, cid(p) \notin spoiled
             PROVE  DroppingsOf(p) = {d \in acked : d[1] = cid(p)}
  BY DEF FilesHaveTheirDroppings, cid
<1>2. PICK c, i : c = place[Canonical(p)] /\ i = cid(p)
  OBVIOUS
<1>3. IsPlace(c) /\ Hosts(c) \subseteq Nodes
  BY <1>1, <1>2, PlaceFacts, CanonicalPlace, PlaceFields DEF Hosts
<1>4. \A n \in Nodes : DirsAt(Where(p, n), n) = {<<i, n>>} \cap acked
  BY <1>1, <1>2 DEF DropsOK, Unspoiled
<1>5. \A n \in Nodes : UNION {place[k].dirs[n] : k \in Resolved(n, p)} = DirsAt(Where(p, n), n)
  <2> TAKE n \in Nodes
  <2>1. PICK k : k = Where(p, n)
    OBVIOUS
  <2>2. Resolved(n, p) = {l \in {k} : n \in DOMAIN place[l].dirs}
    BY <2>1, ResolvedIs
  <2>3. CASE n \in DOMAIN place[k].dirs
    <3>1. Resolved(n, p) = {k}
      BY <2>2, <2>3
    <3>2. {place[l].dirs[n] : l \in Resolved(n, p)} = {place[k].dirs[n]}
      BY <3>1
    <3>3. UNION {place[l].dirs[n] : l \in Resolved(n, p)} = place[k].dirs[n]
      BY <3>2
    <3> QED BY <2>1, <2>3, <3>3 DEF DirsAt, DirsOf
  <2>4. CASE n \notin DOMAIN place[k].dirs
    <3>1. Resolved(n, p) = {}
      BY <2>2, <2>4
    <3>2. UNION {place[l].dirs[n] : l \in Resolved(n, p)} = {}
      BY <3>1
    <3> QED BY <2>1, <2>4, <3>2 DEF DirsAt, DirsOf
  <2> QED BY <2>3, <2>4
<1>6. \A n \in Nodes : n \notin Hosts(c) => DirsAt(Where(p, n), n) = {}
  BY <1>2 DEF Hosts, Where, LeadsTo, DirsAt, DirsOf
<1>7. \A d : d \in DroppingsOf(p) <=> \E n \in Nodes : d \in DirsAt(Where(p, n), n)
  <2>1. DroppingsOf(p) = UNION {UNION {place[k].dirs[n] : k \in Resolved(n, p)} : n \in Hosts(c)}
    BY <1>2 DEF DroppingsOf
  <2>2. \A d : d \in DroppingsOf(p) <=> \E n \in Hosts(c) : d \in UNION {place[k].dirs[n] : k \in Resolved(n, p)}
    BY <2>1
  <2> QED BY <1>3, <1>5, <1>6, <2>2
<1>8. \A d \in acked : d[2] \in Nodes /\ d = <<d[1], d[2]>>
  BY <1>1 DEF HistoryOK
<1>9. \A d : d \in DroppingsOf(p) <=> d \in acked /\ d[1] = i
  <2> TAKE d
  <2>1. ASSUME d \in DroppingsOf(p) PROVE d \in acked /\ d[1] = i
    BY <1>4, <1>7, <2>1
  <2>2. ASSUME d \in acked, d[1] = i PROVE d \in DroppingsOf(p)
    <3>1. d[2] \in Nodes /\ d = <<i, d[2]>>
      BY <1>8, <2>2
    <3>2. d \in DirsAt(Where(p, d[2]), d[2])
      BY <1>4, <2>2, <3>1
    <3> QED BY <1>7, <3>1, <3>2
  <2> QED BY <2>1, <2>2
<1> QED BY <1>2, <1>9

(* The invariant of the proofs holds in every state.                       *)
THEOREM Invariance == Spec => []IInv
<1>1. Init => IInv
  BY InitIInv
<1>2. IInv /\ [Next]_vars => IInv'
  <2> SUFFICES ASSUME IInv, [Next]_vars PROVE IInv'
    OBVIOUS
  <2>1. ASSUME NEW n \in Nodes, NodeStep(n) PROVE IInv'
    BY <2>1, NodeStepIInv
  <2>2. CASE plfs_readdir
    BY <2>2, PlfsReaddirStep DEF IInv
  <2>3. CASE f_readdir
    BY <2>3, FReaddirStep DEF IInv
  <2>4. CASE UNCHANGED vars
    BY <2>4, StutterIInv
  <2> QED BY <2>1, <2>2, <2>3, <2>4 DEF Next
<1> QED BY <1>1, <1>2, PTL DEF Spec

(* Places, calls and listings stay what they are: a place has host         *)
(* directories and links of nodes, a call a step of its own, and the       *)
(* attempts of addWriter and the loops over the backends end where they    *)
(* should (src/plfs.cpp).                                                  *)
THEOREM TypeCorrect == Spec => []TypeOK
<1>1. IInv => TypeOK
  BY DEF IInv, Inv
<1> QED BY <1>1, Invariance, PTL

(* A file that came to a name from which no container was left behind has  *)
(* the droppings of its writers, all of them and no others, however        *)
(* addWriter, plfs_unlink and plfs_rename interleave on whatever nodes and *)
(* backends there are, and whatever fails in them.                         *)
THEOREM FilesKeepTheirDroppings == Spec => []FilesHaveTheirDroppings
<1>1. IInv => FilesHaveTheirDroppings
  BY FilesAreWhole DEF IInv
<1> QED BY <1>1, Invariance, PTL

(* A listing by f_opendir and f_readdir has every file once that is there  *)
(* all the time and has nothing in front of it come or go, for every       *)
(* directory, number of backends and size of the buffer.                   *)
THEOREM ListingsComplete == Spec => []ListingsAreComplete
<1>1. IInv => ListingsAreComplete
  BY DEF IInv, ListOK
<1> QED BY <1>1, Invariance, PTL
=============================================================================
