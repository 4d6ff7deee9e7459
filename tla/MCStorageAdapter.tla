-------------------------- MODULE MCStorageAdapter --------------------------
(***************************************************************************)
(* Finite instances of StorageAdapter: document d1 has operation a and     *)
(* operation b that depends on it, document d2 has operation c.  In a      *)
(* behaviour of kind "failing" a save fails and the process restarts; in   *)
(* one of kind "removing" the document is deleted; in one of kind "both"   *)
(* the Repo has both documents, whose requests come in one batch.          *)
(***************************************************************************)
EXTENDS StorageAdapter

CONSTANTS d1, d2, a, b, c, t1, t2, t3

VARIABLE kind

MCDocOf == [o \in Ops |-> IF o = c THEN d2 ELSE d1]
MCDeps  == [o \in Ops |-> IF o = b THEN {a} ELSE {}]

(* A back end that compares keys element by element (in memory, Postgres). *)
ByElement == {<<d, d>> : d \in Docs}

(* What a behaviour of each kind uses: documents, operations and tasks.    *)
Uses(docs, ops, ts) ==
  /\ documents \subseteq docs /\ UNION {oplog[d] : d \in Docs} \subseteq ops
  /\ \A t \in Tasks \ ts : tasks[t].todo = <<>>

Within ==
  CASE kind = "failing"  -> /\ Uses({d1}, {a, b}, Tasks)
                            /\ count.deletes = 0
    [] kind = "removing" -> /\ Uses({d1}, {a}, {t1, t2})
                            /\ count.restarts = 0 /\ count.failures = 0 /\ clock = 1
    [] kind = "both"     -> /\ Uses({d1, d2}, {a, c}, {t1})
                            /\ count.restarts = 0 /\ count.failures = 0 /\ clock = 1

MCInit == Init /\ kind \in {"failing", "removing", "both"} /\ Within
MCNext == Next /\ UNCHANGED kind /\ Within'

(* As fair as FairSpec.                                                    *)
MCSpec ==
  /\ MCInit /\ [][MCNext]_<<vars, kind>>
  /\ \A t \in Tasks : WF_vars(TaskStep(t))
  /\ WF_vars(FlushAgain \/ FlushReturns)
=============================================================================
