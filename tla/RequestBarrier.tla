--------------------------- MODULE RequestBarrier ---------------------------
(***************************************************************************)
(* What storage-first synchronization promises of a request, without       *)
(* channels, versions, peers or reads: requests for a document queue       *)
(* behind a set of sources, the queue is let through as a whole when the   *)
(* last source has reported or gone, and at no other time.                 *)
(***************************************************************************)
CONSTANTS Docs, Sources, Requests

VARIABLES
  waiting,   \* the sources each document still waits for
  queue,     \* the requests queued for each document
  answered   \* the requests that were let through

barrierVars == <<waiting, queue, answered>>

Init ==
  /\ waiting = [d \in Docs |-> {}]
  /\ queue = [d \in Docs |-> {}]
  /\ answered = {}

IsNew(r) == r \notin answered /\ \A d \in Docs : r \notin queue[d]

(* The first request for a document makes it wait for the sources S.       *)
Open(d, r, S) ==
  /\ IsNew(r)
  /\ waiting[d] = {} /\ S # {}
  /\ waiting' = [waiting EXCEPT ![d] = S]
  /\ queue' = [queue EXCEPT ![d] = {r}]
  /\ UNCHANGED answered

(* Later requests queue behind it.                                         *)
Join(d, r) ==
  /\ IsNew(r)
  /\ waiting[d] # {}
  /\ queue' = [queue EXCEPT ![d] = @ \cup {r}]
  /\ UNCHANGED <<waiting, answered>>

(* A request for a document that waits for nothing passes.                 *)
Pass(d, r) ==
  /\ IsNew(r)
  /\ waiting[d] = {}
  /\ answered' = answered \cup {r}
  /\ UNCHANGED <<waiting, queue>>

(* Source s reports on, or is gone for, the documents D.  Documents that   *)
(* waited for s alone let their queue through.                             *)
Report(s, D) ==
  LET released == {d \in D : waiting[d] = {s}}
  IN /\ waiting' = [d \in Docs |-> IF d \in D THEN waiting[d] \ {s}
                                   ELSE waiting[d]]
     /\ queue' = [d \in Docs |-> IF d \in released THEN {} ELSE queue[d]]
     /\ answered' = answered \cup UNION {queue[d] : d \in released}

(* Requests give up: their channel is gone.                                *)
GiveUp(Q) ==
  /\ queue' = [d \in Docs |-> queue[d] \ Q]
  /\ UNCHANGED <<waiting, answered>>

(* The document is deleted; its queue goes with it.                        *)
Close(d) ==
  /\ waiting' = [waiting EXCEPT ![d] = {}]
  /\ queue' = [queue EXCEPT ![d] = {}]
  /\ UNCHANGED answered

Next ==
  \/ \E d \in Docs, r \in Requests :
       \/ \E S \in SUBSET Sources : Open(d, r, S)
       \/ Join(d, r)
       \/ Pass(d, r)
  \/ \E s \in Sources, D \in SUBSET Docs : Report(s, D)
  \/ \E Q \in SUBSET Requests : GiveUp(Q)
  \/ \E d \in Docs : Close(d)

Spec == Init /\ [][Next]_barrierVars

=============================================================================
