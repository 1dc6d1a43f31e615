---------------------------- MODULE MCMessageBus ----------------------------
(***************************************************************************)
(* TLC instance of MessageBus: two requests r1, r2 of one sender, and r3   *)
(* of another whose handling awaits a request r4 to the same service.      *)
(***************************************************************************)
EXTENDS MessageBus

CONSTANTS a1, a2, svc, r1, r2, r3, r4

MCRequests == {r1, r2, r3, r4}
MCSender   == [r \in MCRequests |-> IF r \in {r1, r2} THEN a1 ELSE IF r = r3 THEN a2 ELSE svc]
MCService  == [r \in MCRequests |-> svc]
MCInner    == [r \in MCRequests |-> IF r = r3 THEN r4 ELSE None]
=============================================================================
