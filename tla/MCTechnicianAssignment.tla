----------------------- MODULE MCTechnicianAssignment -----------------------
(* Two concurrent requests on the technicians of one client.               *)
EXTENDS TechnicianAssignment

CONSTANTS r1, r2, u1, u2, u3
=============================================================================
