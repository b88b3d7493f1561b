------------------------------ MODULE EventLog ------------------------------
(***************************************************************************)
(* What the event pipeline promises to a reader of activity_logs, with no  *)
(* Redis, no consumer group and no worker in sight: an entry that reached  *)
(* the bus waits, is taken once, and then is either written to the log or  *)
(* lost for good.  No entry is written twice, and a lost entry never comes *)
(* back: the promise is at-most-once, not at-least-once.                   *)
(*                                                                         *)
(* fate is a function whose domain is the set of entries that reached the  *)
(* bus so far; log is the sequence of entries in the order of their rows.  *)
(***************************************************************************)
EXTENDS Naturals, Sequences

VARIABLES fate, log

vars == <<fate, log>>

Fates == {"waiting", "taken", "logged", "lost"}

With(f) == {id \in DOMAIN fate : fate[id] = f}

\* fate after the entries of S went to f.
Send(S, f) == [id \in DOMAIN fate |-> IF id \in S THEN f ELSE fate[id]]

Init ==
  /\ fate = [id \in {} |-> "waiting"]
  /\ log = <<>>

\* One new entry reaches the bus; the bus is bounded, so waiting entries may
\* be pushed out by it.
Arrive ==
  /\ \E id \in DOMAIN fate' \ DOMAIN fate, S \in SUBSET With("waiting") :
       fate' = [x \in DOMAIN fate \cup {id} |->
                  IF x = id THEN "waiting" ELSE Send(S, "lost")[x]]
  /\ UNCHANGED log

\* A reader takes some waiting entries, or loses them on the way.
Take ==
  /\ \E S \in SUBSET With("waiting"), f \in {"taken", "lost"} : fate' = Send(S, f)
  /\ UNCHANGED log

\* One taken entry is written to the log.
Record ==
  \E id \in With("taken") :
    /\ fate' = Send({id}, "logged")
    /\ log' = Append(log, id)

\* Entries that were taken are given up.
Abandon ==
  /\ \E S \in SUBSET With("taken") : fate' = Send(S, "lost")
  /\ UNCHANGED log

Next == Arrive \/ Take \/ Record \/ Abandon

Spec == Init /\ [][Next]_vars
=============================================================================
