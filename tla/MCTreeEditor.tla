---------------------------- MODULE MCTreeEditor ----------------------------
(* Three events and two gates: a workflow without a tree or with a chain of *)
(* two gates; others store one gate with two inputs, or two gates under     *)
(* which an event is shared between levels.  Two edits fill the history.    *)
EXTENDS TreeEditor

CONSTANTS e0, e1, e2, g1, g2

Ev(id, top) == [id |-> id, top |-> top]
Gate(id, output, inputs) == [id |-> id, output |-> output, inputs |-> inputs]

Three == <<Ev(e1, FALSE), Ev(e0, TRUE), Ev(e2, FALSE)>>

Chain  == [top |-> e0, events |-> Three, gates |-> <<Gate(g1, e0, <<e1>>), Gate(g2, e1, <<e2>>)>>]
Fork   == [top |-> e0, events |-> Three, gates |-> <<Gate(g1, e0, <<e2, e1>>)>>]
Shared == [top |-> e0, events |-> Three, gates |-> <<Gate(g1, e0, <<e1, e2>>), Gate(g2, e1, <<e2>>)>>]

MCTrees == {Chain}
MCOthersTrees == {Fork, Shared}
=============================================================================
