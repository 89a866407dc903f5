---------------------------- MODULE AtomicCreate ----------------------------
(***************************************************************************)
(* What Container::create promises its callers, who call it on several     *)
(* nodes at once: a name becomes a container in one step, taken by a call  *)
(* that is under way; a call returns 0 in the step in which the directory  *)
(* of its host is in place, and never when there is nothing at the name;   *)
(* anything may be removed at any time, and a call may fail.               *)
(*                                                                         *)
(* The comment at makeTopLevel asks for more: "absolutely sure a container *)
(* is really a container and not just a directory".  The code returns 0 on *)
(* a directory of the same name, and so does Ready.                        *)
(***************************************************************************)
CONSTANT Nodes

VARIABLES
  place,         \* what is at the name: "none" (or a plain file), "dir", "container"
  hosts,         \* the nodes whose directory is in it
  status         \* per node: is its call of create "idle", "busy", "ok", "error"

vars == <<place, hosts, status>>

Init ==
  /\ place \in {"none", "dir", "container"} /\ hosts \subseteq Nodes /\ (place = "none" => hosts = {})
  /\ status = [n \in Nodes |-> "idle"]

Begin(n) == status[n] # "busy" /\ status' = [status EXCEPT ![n] = "busy"] /\ UNCHANGED <<place, hosts>>

(* The container appears, with nothing in it that a host has made.         *)
Make(n) ==
  /\ status[n] = "busy" /\ place # "container"
  /\ place' = "container" /\ hosts' = {} /\ UNCHANGED status

Ready(n) ==
  /\ status[n] = "busy" /\ place # "none"
  /\ hosts' = hosts \cup {n} /\ status' = [status EXCEPT ![n] = "ok"] /\ UNCHANGED place

Fail(n) == status[n] = "busy" /\ status' = [status EXCEPT ![n] = "error"] /\ UNCHANGED <<place, hosts>>

(* The node's process dies, or its caller goes on to something else.       *)
Leave(n) == status' = [status EXCEPT ![n] = "idle"] /\ UNCHANGED <<place, hosts>>

(* Others: an unlink or rmdir, a mkdir, a writer that makes its host's     *)
(* directory.                                                              *)
Remove == place' = "none" /\ hosts' = {} /\ UNCHANGED status
Mkdir == place = "none" /\ place' = "dir" /\ UNCHANGED <<hosts, status>>
MakeHost(n) == place # "none" /\ hosts' = hosts \cup {n} /\ UNCHANGED <<place, status>>

Next ==
  \/ \E n \in Nodes : Begin(n) \/ Make(n) \/ Ready(n) \/ Fail(n) \/ Leave(n) \/ MakeHost(n)
  \/ Remove \/ Mkdir

Spec == Init /\ [][Next]_vars
=============================================================================
