----------------------------- MODULE MCDocSync -----------------------------
(***************************************************************************)
(* Finite instances of DocSync: a client A and a server S, or two clients  *)
(* A and B that meet at the server S.                                      *)
(***************************************************************************)
EXTENDS DocSync

CONSTANTS A, B, S, a1, a2, b1, s1

MCLinks == {{r, S} : r \in Repos \ {S}}

(* Clients open the handshake.                                             *)
ClientsInitiate == {<<r, S>> : r \in Repos \ {S}}

(* Both ends do (WebRTC).                                                  *)
BothInitiate == ClientsInitiate \cup {<<S, r>> : r \in Repos \ {S}}

MCAuthor ==
  [o \in Ops |-> IF o \in {a1, a2} THEN A ELSE IF o = b1 THEN B ELSE S]
=============================================================================
