--------------------------- MODULE MCSocketAgents ---------------------------
(* Setups of two and three parties for SocketAgents. *)
EXTENDS SocketAgents, TLC

AllPorts == 1 .. 12
None == [h \in 0 .. 2 |-> {}]
Far == ({0, 1} :> 1) @@ ({0, 2} :> 40) @@ ({1, 2} :> 80)
Close == ({0, 1} :> 1) @@ ({0, 2} :> 3) @@ ({1, 2} :> 5)

Base == [numberOfParty |-> 2, generators |-> {"boolean", "integer"}, rightToLeft |-> FALSE,
         ports |-> Far, allPorts |-> AllPorts, taken |-> None, oneHost |-> TRUE,
         useTls |-> FALSE, patient |-> FALSE]

MCSetups ==
  {[Base EXCEPT !.rightToLeft = r, !.useTls = t] : r, t \in BOOLEAN}
  \cup
  {[Base EXCEPT !.taken[0] = {3}, !.oneHost = h, !.allPorts = 1 .. 8] : h \in BOOLEAN}
  \cup
  {[Base EXCEPT !.numberOfParty = 3, !.ports = Close, !.allPorts = {1, 3, 5, 7},
                !.generators = {}, !.taken[0] = t] : t \in {{1}, {3}, {1, 3}}}
  \cup
  {[Base EXCEPT !.numberOfParty = 3, !.ports = Close, !.allPorts = 1 .. 8, !.generators = {},
                !.taken[0] = {6}, !.oneHost = h] : h \in BOOLEAN}
  \cup
  {[Base EXCEPT !.numberOfParty = 3, !.generators = {"boolean"}, !.ports = Close,
                !.useTls = t, !.patient = TRUE] : t \in BOOLEAN}
  \cup
  {[Base EXCEPT !.numberOfParty = 3, !.rightToLeft = t, !.useTls = t] : t \in BOOLEAN}
=============================================================================
