--------------------------- MODULE MCStorageFirst ---------------------------
(***************************************************************************)
(* Finite instances of StorageFirst.  Storage s1 holds operation a, s2     *)
(* holds a and b (b depends on a); c is brought by a network peer, e made  *)
(* by the local application.  A behaviour is either open, with every       *)
(* permission and nothing from the network but requests, or guarded: peers *)
(* bring c, and may not do everything; one of them makes a request, and    *)
(* only storage s1 is there.                                               *)
(***************************************************************************)
EXTENDS StorageFirst, TLC

CONSTANTS d1, n1, n2, s1, s2, q1, q2, a, b, c, e,
          Guards  \* whether behaviours are guarded: a set

VARIABLE guarded

MCDeps == [o \in Ops |-> IF o = b THEN {a} ELSE {}]

MCPersisted ==
  [s \in StorageChannels |-> [d \in Docs |-> IF s = s1 THEN {a} ELSE {a, b}]]

EveryPermission ==
  [w \in {"visibility", "creation", "mutability", "deletion"} |->
     Channels \X Docs]

(* n2 may neither create documents nor change them, n1 is told of none.    *)
Restricted ==
  [EveryPermission EXCEPT !["creation"]   = {<<x, d>> \in @ : x # n2},
                          !["mutability"] = {<<x, d>> \in @ : x # n2},
                          !["visibility"] = {<<x, d>> \in @ : x # n1},
                          !["deletion"]   = {}]

Guarded == INSTANCE StorageFirst WITH Allowed <- Restricted, RemoteOps <- {c}

(* Bounds of what a guarded behaviour uses.                                *)
OneRequest == \A q, r \in Requests : NoChannel \in {requester[q], requester[r]} \/ q = r
OneStorage == channels[s2] = "absent"

MCInit == Init /\ guarded \in Guards
MCNext ==
  \/ ~ guarded /\ Next /\ UNCHANGED guarded
  \/ guarded /\ Guarded!Next /\ UNCHANGED guarded /\ OneRequest' /\ OneStorage'
MCSpec == MCInit /\ [][MCNext]_<<vars, guarded>>

(* As fair as FairSpec.                                                    *)
MCFairSpec ==
  /\ MCSpec
  /\ \A s \in StorageChannels, d \in Docs : WF_vars(LoadSettles(s, d))

(* The two requests are interchangeable.                                   *)
Symmetry == Permutations({q1, q2})
=============================================================================
