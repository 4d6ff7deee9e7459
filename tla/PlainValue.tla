----------------------------- MODULE PlainValue -----------------------------
(***************************************************************************)
(* Plain values of a typed document (packages/change, plain-value-ref): a  *)
(* struct of fields under one key of a Loro map, written as a whole.  A    *)
(* ref reads the diff overlay, then the container, then the placeholder;   *)
(* a write to a field reads the struct, changes the field and writes the   *)
(* struct back.  getTransition gives a view of the document before an      *)
(* event: the document as it is, with the event's reverse diff laid over.  *)
(* A field's value is the stamp of its write.                              *)
(***************************************************************************)
EXTENDS Integers, TLC

CONSTANTS
  Peers,     \* numbers: they break ties between stamps
  Fields,
  Defaults,  \* the fields that have a placeholder
  MaxClock,  \* bound: the highest stamp
  Risks      \* "added": an event that adds a field is viewed;
             \* "partial": the struct as a whole is read with fields missing

PlainValueAssumption ==
  /\ Peers \subseteq Nat \ {0} /\ Defaults \subseteq Fields
  /\ Risks \subseteq {"added", "partial"}

VARIABLES
  value,  \* [Peers -> stamp and struct (its fields), or no struct]
  before  \* [Peers -> the diff overlay of the last event, if it is viewed]

vars == <<value, before>>

-----------------------------------------------------------------------------
Never == <<0, 0>>
Default == <<0, 1>>
Undefined == <<0, 2>>
Later(s, t) == s[1] > t[1] \/ (s[1] = t[1] /\ s[2] > t[2])
Now(p) == <<value[p].at[1] + 1, p>>

Struct(S, f) == [present |-> TRUE, fields |-> [g \in S |-> f]]
NoStruct == [present |-> FALSE, fields |-> <<>>]
NoView == [on |-> FALSE, was |-> NoStruct]
Transition(old) == [on |-> TRUE, was |-> old]  \* what getTransition shows

(* getAtPath: a field of a struct that may be missing.                     *)
GetAtPath(v, f) == IF v.present /\ f \in DOMAIN v.fields THEN v.fields[f] ELSE Undefined
GetPlaceholderValue(f) == IF f \in Defaults THEN Default ELSE Undefined

(* resolveValue, for a field and for the struct.                           *)
FirstDefined(a, b) == IF a # Undefined THEN a ELSE b
Get(p, f) == FirstDefined(GetAtPath(value[p].to, f), GetPlaceholderValue(f))
GetBefore(p, f) == FirstDefined(GetAtPath(before[p].was, f), Get(p, f))
GetStruct(p) == IF value[p].to.present THEN value[p].to.fields ELSE [f \in Defaults |-> Default]

(* toJSON: mergeValue fills in the placeholder of each missing field.      *)
MergeValue(v, f) == FirstDefined(GetAtPath(v, f), GetPlaceholderValue(f))

Init ==
  /\ \E S \in SUBSET Fields :
       value = [p \in Peers |->
                  [at |-> Never, to |-> IF S = {} THEN NoStruct ELSE Struct(S, Never)]]
  /\ before = [p \in Peers |-> NoView]

(* The key is given a new value; the event may be viewed.                  *)
Adds(old, new) == \E f \in DOMAIN new.fields : GetAtPath(old, f) = Undefined
Becomes(p, new) ==
  /\ value' = [value EXCEPT ![p] = new]
  /\ \E viewed \in BOOLEAN :
       /\ viewed => ~Adds(value[p].to, new.to) \/ "added" \in Risks
       /\ before' = [before EXCEPT ![p] =
                       IF viewed THEN Transition(value[p].to) ELSE NoView]

Ready(p) == value[p].at[1] < MaxClock

(* setAtPath: the other fields stay.                                       *)
SetAtPath(v, f, x) == [present |-> TRUE, fields |-> [g \in {f} |-> x] @@ v.fields]

SetStruct(p, S) == Ready(p) /\ Becomes(p, [at |-> Now(p), to |-> Struct(S, Now(p))])
SetField(p, f) ==
  Ready(p) /\ Becomes(p, [at |-> Now(p), to |-> SetAtPath(value[p].to, f, Now(p))])
DeleteKey(p) == Ready(p) /\ value[p].to.present /\ Becomes(p, [at |-> Now(p), to |-> NoStruct])

(* Changes of another peer arrive: of two structs the later one wins.      *)
Import(p, q) == Later(value[q].at, value[p].at) /\ Becomes(p, value[q])

Next ==
  \E p \in Peers :
    \/ \E S \in SUBSET Fields \ {{}} : SetStruct(p, S)
    \/ \E f \in Fields : SetField(p, f)
    \/ DeleteKey(p)
    \/ \E q \in Peers : Import(p, q)

Spec == Init /\ [][Next]_vars

-----------------------------------------------------------------------------
(* The view before an event shows each field as it was before the event.   *)
BeforeIsBefore ==
  \A p \in Peers, f \in Fields :
    before[p].on => GetBefore(p, f) = MergeValue(before[p].was, f)

(* Reading a struct as a whole gives what reading its fields gives, and    *)
(* what toJSON() gives.                                                    *)
ReadsAgree ==
  \A p \in Peers :
    "partial" \in Risks \/ (value[p].to.present => Defaults \subseteq DOMAIN value[p].to.fields) =>
      \A f \in Fields :
        /\ Get(p, f) = MergeValue(value[p].to, f)
        /\ Get(p, f) = (IF f \in DOMAIN GetStruct(p) THEN GetStruct(p)[f] ELSE Undefined)

(* A write to a field leaves the other fields as they are, those that      *)
(* another peer has written included.                                      *)
SiblingsStay ==
  [][\A p \in Peers, f, g \in Fields :
       f # g /\ SetField(p, f) => Get(p, f)' = Now(p) /\ Get(p, g)' = Get(p, g)]_vars
=============================================================================
