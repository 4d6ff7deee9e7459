----------------------------- MODULE TypedRecord -----------------------------
(***************************************************************************)
(* A record of structs in a typed document (packages/change): the entries  *)
(* of the record, the containers they stand for and the refs that are kept *)
(* for them.  A peer edits through the refs of its document, which are     *)
(* cached for good, or inside change(), whose refs are new.  In a          *)
(* mergeable document the container of a key is a root container named     *)
(* after the key, and the entry only marks that it is there; otherwise     *)
(* every creation makes a container of its own.  Documents merge: of two   *)
(* values of a register the later one wins.                                *)
(***************************************************************************)
EXTENDS Integers, FiniteSetsExt

CONSTANTS
  Peers,     \* numbers: they break ties between stamps
  Keys, Fields,
  Schema,    \* [Peers -> BOOLEAN]: mergeable, by the peer's schema
  None,
  MaxClock,  \* bound: the highest stamp
  Risks      \* "schemas": both modes are chosen before the peers meet;
             \* "kept": a key goes elsewhere while its ref is cached

TypedRecordAssumption ==
  /\ Peers \subseteq Nat \ {0} /\ Schema \in [Peers -> BOOLEAN]
  /\ None \notin Keys /\ Risks \subseteq {"schemas", "kept"}

VARIABLES
  mode,    \* [Peers -> "none", "mergeable" or "nested"]: of the typed document
  meta,    \* the metadata: stamp and mode
  entry,   \* [Peers -> [Keys -> stamp and the container it stands for]]
  writes,  \* [Peers -> the field values written]: container, field, stamp
  cached   \* [Peers -> [Keys -> container of the ref in the refCache, or NoRef]]

vars == <<mode, meta, entry, writes, cached>>

-----------------------------------------------------------------------------
Never == <<0, 0>>
Later(s, t) == s[1] > t[1] \/ (s[1] = t[1] /\ s[2] > t[2])
Newer(a, b) == IF Later(b.at, a.at) THEN b ELSE a
Newest(S) == CHOOSE s \in S : \A t \in S : ~Later(t, s)

(* Containers: the root container of a key, or one made at a stamp.        *)
Root(k) == <<k, Never>>
NoRef == <<None, Never>>
IsNested(c) == c # NoRef /\ c[2] # Never

Clock(p) == Max({w.at[1] : w \in writes[p]} \cup {entry[p][k].at[1] : k \in Keys}
                \cup {meta[p].at[1]})
Now(p) == <<Clock(p) + 1, p>>

(* has, keys: the entry is there.                                          *)
Has(p, k) == entry[p][k].to # NoRef

(* toJSON: what a field of a key shows, as the stamp of its value.         *)
Shown(p, k, f) ==
  LET here == {w.at : w \in {w \in writes[p] : w.in = entry[p][k].to /\ w.field = f}}
  IN  IF ~Has(p, k) \/ here = {} THEN Never ELSE Newest(here)

-----------------------------------------------------------------------------
Init ==
  /\ mode = [p \in Peers |-> "none"]
  /\ meta = [p \in Peers |-> [at |-> Never, to |-> "none"]]
  /\ entry = [p \in Peers |-> [k \in Keys |-> [at |-> Never, to |-> NoRef]]]
  /\ writes = [p \in Peers |-> {}]
  /\ cached = [p \in Peers |-> [k \in Keys |-> NoRef]]

(* createTypedDoc: the metadata, when it is there, before the schema;      *)
(* otherwise the schema's mode is written.                                 *)
ModeOf(p) ==
  IF meta[p].to # "none" THEN meta[p].to
  ELSE IF Schema[p] THEN "mergeable" ELSE "nested"

Open(p) ==
  /\ mode[p] = "none"
  /\ \A q \in Peers : (mode[q] # "none" /\ ModeOf(p) # mode[q]) => "schemas" \in Risks
  /\ mode' = [mode EXCEPT ![p] = ModeOf(p)]
  /\ meta' = IF meta[p].to # "none" THEN meta
             ELSE [meta EXCEPT ![p] = [at |-> Now(p), to |-> ModeOf(p)]]
  /\ UNCHANGED <<entry, writes, cached>>

(* buildChildTypedRefParams: the container of a ref that is made now.      *)
Home(p, k) ==
  IF mode[p] = "mergeable" THEN Root(k)
  ELSE IF IsNested(entry[p][k].to) THEN entry[p][k].to ELSE <<k, Now(p)>>

(* getOrCreateRef: a cached ref stays as it is.  A ref that is made writes *)
(* the entry if that does not yet stand for its container.                 *)
UsesCache(p, k, inside) == ~inside /\ cached[p][k] # NoRef
RefTo(p, k, inside) == IF UsesCache(p, k, inside) THEN cached[p][k] ELSE Home(p, k)
Entered(p, k, inside) ==
  IF UsesCache(p, k, inside) \/ entry[p][k].to = Home(p, k) THEN entry[p][k]
  ELSE [at |-> Now(p), to |-> Home(p, k)]

(* assignPlainValueToTypedRef: the fields of the keys of K are written.    *)
Assigned(p, K, F, inside) ==
  {[in |-> RefTo(p, k, inside), field |-> f, at |-> Now(p)] : k \in K, f \in F}

(* The caches of the document's own refs: change() has others.             *)
Kept(p, K, gone, inside) ==
  IF inside THEN cached[p]
  ELSE [k \in Keys |-> IF k \in gone THEN NoRef
                       ELSE IF k \in K THEN RefTo(p, k, inside) ELSE cached[p][k]]

(* One call outside of change(), or inside: the keys of gone are deleted,  *)
(* the fields of the keys of K are written.                                *)
Edit(p, K, F, gone, inside) ==
  /\ mode[p] # "none"
  /\ inside => \A k \in gone : cached[p][k] = NoRef \/ "kept" \in Risks
  /\ entry' = [entry EXCEPT ![p] = [k \in Keys |->
       IF k \in gone THEN [at |-> Now(p), to |-> NoRef]
       ELSE IF k \in K THEN Entered(p, k, inside) ELSE @[k]]]
  /\ writes' = [writes EXCEPT ![p] = @ \cup Assigned(p, K, F, inside)]
  /\ cached' = [cached EXCEPT ![p] = Kept(p, K, gone, inside)]
  /\ UNCHANGED <<mode, meta>>

(* get(key), then a field: inside change() the key is made when missing.   *)
Write(p, k, f, inside) == (inside \/ Has(p, k)) /\ Edit(p, {k}, {f}, {}, inside)
Read(p, k) == Has(p, k) /\ Edit(p, {k}, {}, {}, FALSE)
Delete(p, k, inside) == Edit(p, {}, {}, {k}, inside)
MergeIn(p, K, inside) == Edit(p, K, Fields, {}, inside)
Replace(p, K, inside) == Edit(p, K, Fields, {k \in Keys \ K : Has(p, k)}, inside)

(* Changes arrive from another peer.                                       *)
Import(p, q) ==
  /\ p # q
  /\ entry' = [entry EXCEPT ![p] = [k \in Keys |-> Newer(@[k], entry[q][k])]]
  /\ writes' = [writes EXCEPT ![p] = @ \cup writes[q]]
  /\ meta' = [meta EXCEPT ![p] = Newer(@, meta[q])]
  /\ \A k \in Keys : cached[p][k] \notin {NoRef, entry'[p][k].to} => "kept" \in Risks
  /\ UNCHANGED <<mode, cached>>

Next ==
  \E p \in Peers :
    \/ Open(p)
    \/ \E q \in Peers : Import(p, q)
    \/ /\ Clock(p) < MaxClock
       /\ \/ \E k \in Keys : Read(p, k)
          \/ \E inside \in BOOLEAN :
               \/ \E k \in Keys, f \in Fields : Write(p, k, f, inside)
               \/ \E k \in Keys : Delete(p, k, inside)
               \/ \E K \in SUBSET Keys \ {{}} : MergeIn(p, K, inside)
               \/ \E K \in SUBSET Keys : Replace(p, K, inside)

Spec == Init /\ [][Next]_vars

-----------------------------------------------------------------------------
(* All typed documents of a document work in the same mode, whichever      *)
(* schemas they were opened with.                                          *)
ModesAgree == \A p, q \in Peers : "none" \in {mode[p], mode[q]} \/ mode[p] = mode[q]

(* In a mergeable document no write is hidden by a concurrent creation of  *)
(* the same entry: an entry shows the newest write a peer knows to each of *)
(* its fields.                                                             *)
NoneHidden ==
  \A p \in Peers, k \in Keys, f \in Fields :
    LET known == {w.at : w \in {w \in writes[p] : w.in[1] = k /\ w.field = f}}
    IN  (mode[p] = "mergeable" /\ Has(p, k) /\ known # {}) => Shown(p, k, f) = Newest(known)

(* What a peer writes through a ref it sees in the record.                 *)
WritesShow ==
  [][\A p \in Peers : \A w \in writes'[p] \ writes[p] :
       w.at[2] = p => Has(p, w.in[1])' /\ Shown(p, w.in[1], w.field)' = w.at]_vars
=============================================================================
