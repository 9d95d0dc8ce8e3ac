------------------------------ MODULE LockTable ------------------------------
(***************************************************************************)
(* What the file locks of the server promise, with no thread, no mutex and  *)
(* no list: each pathname is Absent, Free, locked by one client, or Closed. *)
(* A lock passes from one client to another only through Free, by the       *)
(* release of its holder, or through the disappearance of the file; a       *)
(* closed file is never locked or released again; and a step touches one    *)
(* file.                                                                   *)
(***************************************************************************)
\* Absent, Free and Closed are distinct, and none is a client: the module that
\* instantiates this one assumes so (ServerAssumption in FileServer).
CONSTANTS Files, Clients, Absent, Free, Closed

VARIABLE lock

Init == lock = [f \in Files |-> Absent]

Move(f, from, to) ==
    /\ lock[f] \in from
    /\ \E s \in to : lock' = [lock EXCEPT ![f] = s]

Create(f)  == Move(f, {Absent}, Clients \cup {Free})
Acquire(f) == Move(f, {Free}, Clients)
Release(f) == Move(f, Clients, {Free})
Close(f)   == Move(f, Clients, {Closed})
Remove(f)  == Move(f, Clients \cup {Free, Closed}, {Absent})

Next == \E f \in Files :
            Create(f) \/ Acquire(f) \/ Release(f) \/ Close(f) \/ Remove(f)

Spec == Init /\ [][Next]_lock
=============================================================================
