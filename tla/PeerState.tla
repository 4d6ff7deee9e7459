----------------------------- MODULE PeerState -----------------------------
(***************************************************************************)
(* What a Repo believes about a peer's copy of a document                  *)
(* (peerState.docSyncStates, packages/repo/src/types.ts) and what it       *)
(* concludes from it (synchronizer/peer-state-helpers.ts).  A version is   *)
(* the set of operations applied: "ahead" and "behind" are set inclusion,  *)
(* two versions of which neither includes the other are concurrent.        *)
(***************************************************************************)

CONSTANT Ops   \* operations of documents

(* No entry in docSyncStates, and the three kinds of entry the handlers    *)
(* make.                                                                   *)
Unknown   == [status |-> "unknown", version |-> {}]
Absent    == [status |-> "absent",  version |-> {}]
Pending   == [status |-> "pending", version |-> {}]
Synced(v) == [status |-> "synced",  version |-> v]

Awareness == [status : {"unknown", "absent", "pending", "synced"},
              version : SUBSET Ops]

(* shouldSyncWithPeer: our version v is ahead of, or concurrent with, the  *)
(* version the peer is known to have.                                      *)
ShouldSync(v, a) ==
  \/ a.status \in {"unknown", "pending"}
  \/ a.status = "synced" /\ ~ (v \subseteq a.version)

(* A subscriber without the document wants it whatever our version is.     *)
NeedsUpdate(v, a) == a.status = "absent" \/ ShouldSync(v, a)

(* What an update for a peer of awareness a carries of version v: the      *)
(* whole document unless the peer is known to have a part of it.           *)
Delta(v, a) == IF a.status = "synced" THEN v \ a.version ELSE v
=============================================================================
