----------------------------- MODULE DurableLog -----------------------------
(***************************************************************************)
(* What storage promises, whatever its back end: the log of a document     *)
(* only grows, and a read of it returns at least what was durable when the *)
(* read was asked for and nothing that is not durable.  A crash ends the   *)
(* reads and keeps the logs.                                               *)
(***************************************************************************)
CONSTANTS Docs, Ops, Readers, NoRead

VARIABLES
  saved,   \* the durable operations of each document
  reads    \* the read of each reader: NoRead, or
           \*   [doc, floor, got] with got a set of operations or NoRead

vars == <<saved, reads>>

Asked(d) == [doc |-> d, floor |-> saved[d], got |-> NoRead]

Init == saved = [d \in Docs |-> {}] /\ reads = [r \in Readers |-> NoRead]

(* Operations become durable.                                              *)
Append(d) ==
  /\ \E S \in SUBSET Ops : saved' = [saved EXCEPT ![d] = @ \cup S]
  /\ UNCHANGED reads

(* Readers start reading, or give up.                                      *)
AskOrLeave ==
  /\ reads' \in [Readers -> {NoRead} \cup {Asked(d) : d \in Docs}
                              \cup {reads[r] : r \in Readers}]
  /\ \A r \in Readers :
       reads'[r] \in {reads[r], NoRead} \cup {Asked(d) : d \in Docs}
  /\ UNCHANGED saved

(* A reader sees the log.                                                  *)
See(r) ==
  /\ reads[r] # NoRead /\ reads[r].got = NoRead
  /\ \E S \in SUBSET saved[reads[r].doc] :
       /\ reads[r].floor \subseteq S
       /\ reads' = [reads EXCEPT ![r].got = S]
  /\ UNCHANGED saved

Next ==
  \/ \E d \in Docs : Append(d)
  \/ AskOrLeave
  \/ \E r \in Readers : See(r)

Spec == Init /\ [][Next]_vars
=============================================================================
