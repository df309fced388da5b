------------------------- MODULE MCHostConnections -------------------------
(***************************************************************************)
(* HostConnections on small instances, one per way the devices may dial.   *)
(***************************************************************************)
EXTENDS HostConnections, TLC

CONSTANTS d1, d2, d3, c1, c2, c3, s1, s2, s3, x1, x2

Shell == [target |-> "shell", session |-> None]
Tmux(x) == [target |-> "tmux", session |-> x]
Herdr(x) == [target |-> "herdr", session |-> x]

Layout(device, connection, kinds, opens, cuts) ==
  [device |-> device @@ [c \in Connections |-> None],
   connection |-> connection @@ [s \in Streams |-> c1],
   kinds |-> kinds @@ [s \in Streams |-> {}],
   opens |-> opens @@ [s \in Streams |-> {}],
   cuts |-> cuts]

\* One device dials twice and supersedes itself, with a terminal first and a
\* preview then.
Superseding ==
  Layout(c1 :> d1 @@ c2 :> d1, s1 :> c1 @@ s2 :> c2,
         s1 :> {"terminal"} @@ s2 :> {"download"}, s1 :> {Herdr(x1)}, {"unpair", "peer"})

\* A terminal, and a second one or a preview, on one connection.
Terminals ==
  Layout(c1 :> d1, s1 :> c1 @@ s2 :> c1, s1 :> {"terminal"} @@ s2 :> {"terminal", "download"},
         s1 :> {Shell, Tmux(x1)} @@ s2 :> {Herdr(x2)}, {"peer", "unpair", "shutdown"})

\* Two devices subscribe, one of them twice.
Subscribers ==
  Layout(c1 :> d1 @@ c2 :> d2, s1 :> c1 @@ s2 :> c1 @@ s3 :> c2,
         [s \in {s1, s2, s3} |-> {"agent"}], s1 :> {}, {"peer"})

\* The kinds with a gate.
Gates ==
  Layout(c1 :> d1, s1 :> c1 @@ s2 :> c1,
         [s \in {s1, s2} |-> {"upload", "forward", "snapshot"}], s1 :> {},
         {"peer", "unpair"})

\* More devices than the host admits.
Crowd ==
  Layout(c1 :> d1 @@ c2 :> d2 @@ c3 :> d3, s1 :> c1, s1 :> {}, s1 :> {}, {"peer"})

MCLayouts == {Superseding, Terminals, Subscribers, Gates, Crowd}
=============================================================================
