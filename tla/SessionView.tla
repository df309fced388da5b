---------------------------- MODULE SessionView ----------------------------
(* What the session stream promises its subscribers, without frames, revisions or fences: a
   subscriber shows nothing, or something it knows to be followed by more, or exactly what the
   session is.  It never shows anything else as the present state of the session.            *)
CONSTANT Clients

VARIABLES
  value, \* what the session is
  shown  \* what each subscriber shows: Nothing, Behind, or Present(v)

vars == <<value, shown>>

Nothing == <<"nothing">>
Behind == <<"behind">>
Present(v) == <<"present", v>>

Init == shown = [c \in Clients |-> Nothing]

\* The session changes: who showed the old state is behind from then on.
Change ==
  shown' = [c \in Clients |-> IF shown[c] = Nothing THEN Nothing ELSE Behind]

\* A subscriber arrives at the present state, by a snapshot or by the last delta.
Arrive(c) ==
  /\ shown' = [shown EXCEPT ![c] = Present(value)]
  /\ UNCHANGED value

Next == Change \/ \E c \in Clients : Arrive(c)

Spec == Init /\ [][Next]_vars
=============================================================================
