------------------------------ MODULE MCKernel ------------------------------
(* Small instances of Kernel.  Object "m" is a root that creates, addresses *)
(* and removes object "v", as the mobility manager does with a vehicle.     *)
EXTENDS KernelRefinement

MCObjects == {"m", "v"}
MCInits == {"im", "iv"}

\* Two actions for the manager and three for the vehicle, one of them longer.
MCActions == MCInits \cup {"m1", "m2", "v1", "v2", "v3"}


MCObjectOf(as) == [a \in as |-> IF a \in {"im", "m1", "m2"} THEN "m" ELSE "v"]
MCDurationOf(as) == [a \in as |-> IF a \in {"m2", "v2"} THEN 2 ELSE IF a \in MCInits THEN 0 ELSE 1]

MCAffected == MCObjectOf(MCActions)
MCDuration == MCDurationOf(MCActions)
MCRoots == <<"im">>
=============================================================================
