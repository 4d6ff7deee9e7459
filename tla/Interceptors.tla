---------------------------- MODULE Interceptors ----------------------------
(***************************************************************************)
(* The send interceptors of an adapter (adapter/adapter.ts): a message     *)
(* runs through the chain, each interceptor continues it with next(), at   *)
(* once, later or never, and at the end of the chain it goes to its        *)
(* channel, if the adapter still has it.  A continuation is an index into  *)
(* the chain as it is when next() is called.                               *)
(***************************************************************************)
EXTENDS Integers, SequencesExt

CONSTANTS
  Names,       \* interceptors
  Delaying,    \* those that call next() later, or never
  MaxMessages, \* bound: messages sent
  MaxAdds,     \* bound: interceptors added
  Risks        \* "held": the chain changes while messages are held

InterceptorsAssumption == Delaying \subseteq Names /\ Risks \subseteq {"held"}

VARIABLES
  chain,   \* #sendInterceptors
  channel, \* the adapter has the channel
  held,    \* messages whose next() is yet to be called, with its index, the
           \* interceptors that saw it, and those that are to see it
  sent,    \* what the channel was given: message and who saw it, in order
  count,   \* messages made
  adds     \* interceptors added

vars == <<chain, channel, held, sent, count, adds>>

-----------------------------------------------------------------------------
Init ==
  /\ chain = <<>> /\ channel = TRUE
  /\ held = {} /\ sent = <<>> /\ count = 0 /\ adds = 0

MayChange == held = {} \/ "held" \in Risks

(* Only those that stay in the chain are to see a message.                 *)
Due(names) == {[m EXCEPT !.due = @ \cap names] : m \in held}

AddSendInterceptor(i) ==
  /\ MayChange /\ adds < MaxAdds /\ i \notin Range(chain)
  /\ adds' = adds + 1
  /\ chain' = Append(chain, i)
  /\ UNCHANGED <<channel, held, sent, count>>

RemoveSendInterceptor(i) ==
  /\ MayChange
  /\ \E j \in DOMAIN chain : chain[j] = i /\ chain' = RemoveAt(chain, j)
  /\ held' = Due(Range(chain'))
  /\ UNCHANGED <<channel, sent, count, adds>>

ClearSendInterceptors ==
  /\ MayChange /\ chain # <<>>
  /\ chain' = <<>>
  /\ held' = Due({})
  /\ UNCHANGED <<channel, sent, count, adds>>

(* The end of the chain: doSend.                                           *)
DoSend(m) == IF channel THEN Append(sent, [nr |-> m.nr, seen |-> m.seen, due |-> m.due]) ELSE sent

(* runChain(index): those that continue at once, up to one that does not.  *)
Stops(index) == {j \in index .. Len(chain) : chain[j] \in Delaying}
Ran(m, here) == [m EXCEPT !.at = here + 1, !.seen = @ \o SubSeq(chain, m.at, here)]
RunChain(m, rest) ==
  \/ /\ Stops(m.at) = {}
     /\ sent' = DoSend(Ran(m, Len(chain))) /\ held' = rest
  \/ \E here \in Stops(m.at) :
       /\ \A j \in Stops(m.at) : here <= j
       /\ held' = rest \cup {Ran(m, here)}
       /\ UNCHANGED sent

Send ==
  /\ count < MaxMessages
  /\ count' = count + 1
  /\ RunChain([nr |-> count', at |-> 1, seen |-> <<>>, due |-> Range(chain)], held)
  /\ UNCHANGED <<chain, channel, adds>>

(* A delaying interceptor calls next(), or drops the message.              *)
CallNext(m) ==
  /\ RunChain(m, held \ {m})
  /\ UNCHANGED <<chain, channel, count, adds>>

Drop(m) ==
  /\ held' = held \ {m}
  /\ UNCHANGED <<chain, channel, sent, count, adds>>

RemoveChannel ==
  /\ channel /\ channel' = FALSE
  /\ UNCHANGED <<chain, held, sent, count, adds>>

Next ==
  \/ \E i \in Names : AddSendInterceptor(i) \/ RemoveSendInterceptor(i)
  \/ ClearSendInterceptors \/ Send \/ RemoveChannel
  \/ \E m \in held : CallNext(m) \/ Drop(m)

Spec == Init /\ [][Next]_vars

-----------------------------------------------------------------------------
(* What a channel is given went through every interceptor that was in the  *)
(* chain all the while, once and in their order, and is given once; among  *)
(* messages that none delays, in the order they were sent.                 *)
PassesAll ==
  /\ \A k \in DOMAIN sent :
       sent[k].due \subseteq Range(sent[k].seen) /\ IsInjective(sent[k].seen)
  /\ \A k, l \in DOMAIN sent :
       k < l => /\ sent[k].nr # sent[l].nr
                /\ (Range(sent[k].seen) \cup Range(sent[l].seen)) \cap Delaying = {} => sent[k].nr < sent[l].nr
=============================================================================
