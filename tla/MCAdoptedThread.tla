-------------------------- MODULE MCAdoptedThread --------------------------
(* Small instances of AdoptedThread for TLC. *)
EXTENDS AdoptedThread

CONSTANTS a1, a2

MCPickups == {a1, a2}

\* One pick-up that is written to at length.
Written(commands) == [pickups |-> {a1}, commands |-> commands]

\* Two that race.
Racing(commands) == [pickups |-> {a1, a2}, commands |-> commands]

MCPlans ==
  {Written(<<"text", "answer", "text">>), Written(<<"text", "interrupt", "text">>),
   Written(<<"settings", "text">>), Racing(<<"text">>)}
=============================================================================
