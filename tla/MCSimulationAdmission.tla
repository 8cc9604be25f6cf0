------------------------ MODULE MCSimulationAdmission ------------------------
(* Two requests go to one server and a third to another; they choose among *)
(* two identities while a reader looks on.                                 *)
EXTENDS SimulationAdmission

CONSTANTS r1, r2, r3, s1, s2

MCServerOf == [r \in {r1, r2, r3} |-> IF r = r3 THEN s2 ELSE s1]

=============================================================================
