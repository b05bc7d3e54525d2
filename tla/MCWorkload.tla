---------------------------- MODULE MCWorkload ------------------------------
(* Instances of Workload for TLC.                                          *)
EXTENDS Workload

CONSTANTS a, b, c, x, y, z

MCCommand(on, detach, ignore) == [on |-> on, detach |-> detach, ignore |-> ignore]

(* x and y have the same name once they are cleaned.                       *)
MCTag == [n \in {x, y, z} |-> IF n = z THEN "z" ELSE "xy"]
(* No branch and no commit, or both.                                       *)
MCAsked == {[branch |-> None, commit |-> FALSE], [branch |-> Default, commit |-> TRUE]}
MCStrangers == {{}, {b}}
OneImage == [s \in Services |-> x]
Unlimited == [s \in Services |-> -1]

NoSetup == [s \in Services |-> <<>>]

(* All the ways in which two services and an unknown one depend.           *)
Graphs ==
  {[services |-> {a, b}, image |-> OneImage, memory |-> Unlimited,
    needs |-> [needs EXCEPT ![c] = {}], healthy |-> {}, checked |-> {},
    refused |-> {}, setup |-> NoSetup, flows |-> <<>>] :
     needs \in [Services -> SUBSET {a, b, Unknown}]}

(* b and c depend on a, c on b as well, on the health of one of them.      *)
Layered ==
  [services |-> {a, b, c},
   image |-> [s \in Services |-> IF s = a THEN x ELSE IF s = b THEN y ELSE z],
   memory |-> [Unlimited EXCEPT ![a] = 1],
   needs |-> [s \in Services |-> IF s = a THEN {} ELSE IF s = b THEN {a} ELSE {a, b}],
   healthy |-> {<<b, a>>}, checked |-> {a}, refused |-> {},
   setup |-> [NoSetup EXCEPT ![b] = <<MCCommand(b, TRUE, FALSE)>>],
   flows |-> << <<MCCommand(c, FALSE, FALSE)>> >>]

(* Two flows in one container and one of somebody else.                    *)
Flowing ==
  [services |-> {a}, image |-> OneImage, memory |-> Unlimited,
   needs |-> [s \in Services |-> {}], healthy |-> {}, checked |-> {}, refused |-> {},
   setup |-> [NoSetup EXCEPT ![a] = <<MCCommand(a, FALSE, FALSE)>>],
   flows |-> << <<MCCommand(a, TRUE, FALSE), MCCommand(a, FALSE, TRUE)>>,
                <<MCCommand(Host, TRUE, FALSE), MCCommand(a, FALSE, FALSE)>> >>]

(* Nothing but commands in the container of somebody else.                 *)
Guest ==
  [services |-> {}, image |-> OneImage, memory |-> Unlimited,
   needs |-> [s \in Services |-> {}], healthy |-> {}, checked |-> {}, refused |-> {},
   setup |-> NoSetup, flows |-> << <<MCCommand(Host, FALSE, FALSE)>> >>]

Forbidden == [Flowing EXCEPT !.refused = {a}]

(* More memory than there is, and all there is.                            *)
Greedy == [Flowing EXCEPT !.services = {a, c}, !.memory = [Unlimited EXCEPT ![a] = 3, ![c] = 2]]
Hungry == [Greedy EXCEPT !.memory = [Unlimited EXCEPT ![a] = 4]]

MCScenarios == Graphs \cup {Layered, Flowing, Guest, Forbidden, Greedy, Hungry}
MCLookalikes == [s \in Services |-> IF s = a THEN {b} ELSE {}]
=============================================================================
