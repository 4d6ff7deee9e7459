--------------------------- MODULE CausalReplicas ---------------------------
(***************************************************************************)
(* What synchronization promises of a document, without messages, links    *)
(* and beliefs: replicas that write operations and merge what other        *)
(* replicas have, and never see an operation before those its author had   *)
(* seen.                                                                   *)
(***************************************************************************)

CONSTANTS
  Replicas, Ops,
  Forgetful  \* replicas that may lose what they have seen

VARIABLES
  made,     \* the operations that were written
  deps,     \* what the author of an operation had seen
  version   \* what each replica has seen

replicaVars == <<made, deps, version>>

Init ==
  /\ made = {}
  /\ deps = [o \in Ops |-> {}]
  /\ version = [r \in Replicas |-> {}]

Write(r, o) ==
  /\ o \notin made
  /\ made' = made \cup {o}
  /\ deps' = [deps EXCEPT ![o] = version[r]]
  /\ version' = [version EXCEPT ![r] = @ \cup {o}]

(* Replica r merges operations S that were written; what r has seen stays  *)
(* seen, and complete.  The writer, and every other replica, may meanwhile *)
(* have forgotten them: S need not be what some replica has seen now.      *)
Merge(r, S) ==
  LET merged == version[r] \cup S
  IN /\ S \subseteq made
     /\ \A o \in merged : deps[o] \subseteq merged
     /\ version' = [version EXCEPT ![r] = merged]
     /\ UNCHANGED <<made, deps>>

(* A replica starts over.                                                  *)
Forget(r) ==
  /\ r \in Forgetful
  /\ version' = [version EXCEPT ![r] = {}]
  /\ UNCHANGED <<made, deps>>

Next ==
  \E r \in Replicas :
    \/ \E o \in Ops : Write(r, o)
    \/ \E S \in SUBSET Ops : Merge(r, S)
    \/ Forget(r)

Spec == Init /\ [][Next]_replicaVars
=============================================================================
