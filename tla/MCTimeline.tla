----------------------------- MODULE MCTimeline -----------------------------
(***************************************************************************)
(* Conversations for TLC.                                                  *)
(***************************************************************************)
EXTENDS Timeline

Event(what, msg, rev, words) == [what |-> what, msg |-> msg, rev |-> rev, words |-> words]

Prompt(m) == <<Event("prompt", m, 1, "ask")>>

ToolStart(m) == <<Event("start", m, 1, "run")>>

ToolDone(m) == <<Event("done", m, 2, "run")>>

Part(m, k, words) == <<Event("part", m, k, words)>>

Final(m, k, words) == <<Event("last", m, k, words)>>

Stop(m) == <<Event("stop", m, 1, "end")>>

\* One turn with two tools at the same time.
Parallel == Prompt(1) \o ToolStart(2) \o ToolStart(3) \o ToolDone(2) \o ToolDone(3)
            \o Part(4, 1, "x") \o Final(4, 2, "x") \o Stop(1)

\* A turn and a second one that is under way; the second with its end.
Turns == Prompt(1) \o Final(2, 1, "x") \o Stop(1)
         \o Prompt(3) \o ToolStart(4) \o ToolDone(4) \o Final(5, 1, "x")

\* One reply in three parts.
Spoken == Prompt(1) \o Part(2, 1, "x") \o Part(2, 2, "x") \o Final(2, 3, "x") \o Stop(1)

Of(events, before, processes) == [events |-> events, before |-> before, processes |-> processes]

MCConversations ==
  {Of(Spoken, 0, 1), Of(Parallel, 0, 1), Of(Turns, 0, 1), Of(Turns \o Stop(3), 3, 2)}
=============================================================================
