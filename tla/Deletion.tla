------------------------------ MODULE Deletion ------------------------------
(***************************************************************************)
(* DocSync with documents that are deleted: repo.delete and the request it *)
(* sends to the subscribed peers, which the permissions of a peer grant or *)
(* not, and the application that opens the document again.  A deletion     *)
(* leaves no trace: subscriptions and awareness stay, and what is still on *)
(* its way may create the document anew.  The application holds its handle *)
(* in the Repo's cache, where only its own repo.delete removes it.  A new  *)
(* document numbers its operations from zero again; here they are new.     *)
(***************************************************************************)
EXTENDS DocSync

CONSTANTS
  Grants,      \* pairs <<r, p>>: r deletes when p asks it to
  MaxDeletes,  \* bound: how often applications delete the document
  Calm         \* deletions wait until nothing is on its way

DeletionAssumption ==
  /\ Grants \subseteq Repos \X Repos /\ MaxDeletes \in Nat /\ Calm \in BOOLEAN

VARIABLES
  handle,   \* docCache: "none", the handle of the document, or of one deleted
  deletes
deletionVars == <<handle, deletes>>

DeleteRequest  == [type |-> "delete-request"]
DeleteResponse == [type |-> "delete-response"]

-----------------------------------------------------------------------------
DeletionInit ==
  /\ Init
  /\ handle = [r \in Repos |-> IF r \in Holders THEN "live" ELSE "none"]
  /\ deletes = 0

(* What a Repo drops with the document.                                    *)
Forget(r) ==
  /\ docs' = docs \ {r}
  /\ oplog' = [oplog EXCEPT ![r] = {}]
  /\ UNCHANGED <<channel, known, subs, awareness>>

(* The peers that are asked to delete: those that subscribed.              *)
Told(r) == subs[r] \cap Established(r)

(* repo.delete; what the application holds from then on is another one.    *)
DeleteDoc(r) ==
  /\ r \in docs /\ deletes < MaxDeletes
  /\ Calm => \A x, y \in Repos : net[x][y] = <<>>
  /\ deletes' = deletes + 1
  /\ handle' = [handle EXCEPT ![r] = "none"]
  /\ Forget(r)
  /\ net' = Sent(r, [q \in Repos |-> IF q \in Told(r) THEN <<DeleteRequest>> ELSE <<>>])
  /\ UNCHANGED <<up, opVars, breaks, restarts, overtakes>>

Deletes(r, p) == r \in docs /\ <<r, p>> \in Grants

(* A peer deletes if there is something and it may; it answers either way. *)
(* The handle of its application stays in the cache.                       *)
HandleDeleteRequest(r, p) ==
  /\ ReceivesEstablished(r, p, "delete-request")
  /\ IF Deletes(r, p)
       THEN /\ docs' = docs \ {r}
            /\ oplog' = [oplog EXCEPT ![r] = {}]
            /\ handle' = [handle EXCEPT ![r] = IF @ = "live" THEN "orphan" ELSE @]
       ELSE UNCHANGED <<docs, oplog, handle>>
  /\ Handled(r, p, SendTo(p, <<DeleteResponse>>))
  /\ UNCHANGED <<subs, awareness, deletes>>

(* A delete-response is logged, no more.                                   *)
HandleDeleteResponse(r, p) ==
  /\ ReceivesEstablished(r, p, "delete-response")
  /\ Handled(r, p, Silence)
  /\ UNCHANGED <<docs, oplog, subs, awareness, deletionVars>>

(* repo.get: the cached handle, whatever became of its document; else one  *)
(* of the document that is there, or of a new one.                         *)
OpenDoc(r) ==
  /\ handle[r] = "none"
  /\ handle' = [handle EXCEPT ![r] = "live"]
  /\ UNCHANGED deletes
  /\ DocEnsure(r) \/ (r \in docs /\ UNCHANGED vars)

(* A handle of a deleted document edits that document; nobody hears of it. *)
Edit(r, o) == handle[r] = "live" /\ LocalDocChange(r, o) /\ UNCHANGED deletionVars

Network(r, p) ==
  \/ Receive(r, p) /\ UNCHANGED deletionVars
  \/ HandleDeleteRequest(r, p)
  \/ HandleDeleteResponse(r, p)

DeletionNext ==
  \E r \in Repos :
    \/ \E p \in Repos \ {r} :
         \/ (Connect(r, p) \/ Break(r, p) \/ ChannelRemoved(r, p))
              /\ UNCHANGED deletionVars
         \/ Network(r, p)
    \/ DeleteDoc(r)
    \/ OpenDoc(r)
    \/ \E o \in Ops : Edit(r, o)

DeletionSpec == DeletionInit /\ [][DeletionNext]_<<vars, deletionVars>>

(* Messages arrive, links come back.                                       *)
DeletionFairSpec ==
  /\ DeletionSpec
  /\ \A r \in Repos : \A p \in Repos \ {r} :
       /\ WF_<<vars, deletionVars>>(Network(r, p))
       /\ WF_<<vars, deletionVars>>(Connect(r, p) /\ UNCHANGED deletionVars)
       /\ WF_<<vars, deletionVars>>(ChannelRemoved(r, p) /\ UNCHANGED deletionVars)

-----------------------------------------------------------------------------
DeletionTypeOK ==
  /\ handle \in [Repos -> {"none", "live", "orphan"}]
  /\ deletes \in 0 .. MaxDeletes

(* When nothing is left to deliver, linked Repos that have the document    *)
(* have the same of it, whatever deletions, refused or granted, and        *)
(* reopenings the updates and responses under way met.                     *)
HoldersAgree ==
  Quiet => \A r, p \in docs : Link(r, p) \in Links => Version(r) = Version(p)

(* However deletions, requests and announcements chase each other, they    *)
(* die out: the network falls silent, or links go on breaking.             *)
FallsSilent == <>[](\A x, y \in Repos : net[x][y] = <<>>)

(* handle-doc-delete.ts:31: after a deletion the requests of peers are not *)
(* answered.  Refuted: they create the document anew.                      *)
StaysDeleted ==
  [][\A r \in docs' \ docs : handle'[r] = "live" \/ deletes = 0]_docs

(* What the application edits is what the Repo synchronizes.  Refuted when *)
(* a peer that deleted on request synchronizes the document again.         *)
NoOrphans == \A r \in Repos : handle[r] = "orphan" => r \notin docs
=============================================================================
