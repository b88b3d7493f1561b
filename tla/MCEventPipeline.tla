--------------------------- MODULE MCEventPipeline ---------------------------
(***************************************************************************)
(* Small instances of EventPipeline: an event of the system stream, the    *)
(* administrative creation of a user and an event whose row is refused,    *)
(* both on the auth stream, and a registration event for a known and for   *)
(* an unknown user.                                                        *)
(***************************************************************************)
EXTENDS EventPipeline

CONSTANTS eSystem, eCreated, eRefused, eKnown, eUnknown, u1, u2, w1, w2

MCStreamOf == [e \in Events |-> IF e = eSystem THEN "system" ELSE "auth"]

MCTypeOf == [e \in Events |->
  CASE e = eCreated -> "user.created_by_admin"
    [] e \in {eKnown, eUnknown} -> "auth.user_registered"
    [] OTHER -> "activity_only"]

MCUserOf == [e \in Events |-> IF e = eUnknown THEN u2 ELSE u1]
MCUsers == {u1, u2}
MCKnownUsers == {u1}
MCRejected == Events \cap {eRefused}

OneWorker == {w1}
TwoWorkers == {w1, w2}
=============================================================================
