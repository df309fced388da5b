--------------------------- MODULE AdoptedThread ---------------------------
(***************************************************************************)
(* A Codex conversation picked up by the daemon (codex_adopted.rs): the    *)
(* pick-ups that race for it (adopt), the registry that admits one of them *)
(* (AdoptionRegistry), the loop that serves it through an app-server of    *)
(* its own (run_adopted), and the ways it is given back: the phone closes  *)
(* it, a terminal or another writer appears, the app-server goes away.     *)
(*                                                                         *)
(* The conversation is one; the registry and the supervisor key everything *)
(* by it.  Its process nonce is a digest of the thread's name              *)
(* (adopted_registration), so every registration of it has one and the     *)
(* same process generation.  The app-server, the terminal and lsof are     *)
(* modelled from what the code expects of them.  The receipts of commands  *)
(* are the subject of AgentCommands; rows and cards reach the supervisor   *)
(* as SessionReplica has it.                                               *)
(***************************************************************************)
EXTENDS Integers, Sequences, FiniteSets

CONSTANTS
  Pickups,       \* calls of adopt; one that is accepted becomes a runtime
  Plans,         \* which pick-ups are called, and the commands phones submit
  MaxTurns,      \* bound on the turns the app-servers start
  ReleaseSlots,  \* capacity of the release channel
  None

Kinds == {"text", "interrupt", "answer", "settings"}

ASSUME AdoptedThreadAssumption ==
  /\ \A plan \in Plans : plan.pickups \subseteq Pickups /\ plan.commands \in Seq(Kinds)
  /\ MaxTurns \in Nat /\ ReleaseSlots \in Nat \ {0}
  /\ None \notin Pickups \cup Nat

VARIABLES
  registry,  \* the pick-up the registry holds the thread for
  session,   \* the supervisor's row: topology, and whose channel bridge_sender is
  pickup,    \* each pick-up: stage, the TurnTracking and locals of its loop
  server,    \* its app-server: state, running turn, the approval that turn
             \* asked for, events not yet read
  release,   \* its release channel
  queue,     \* its command channel
  left,      \* commands not yet submitted
  terminal,  \* whether a terminal holds the rollout open
  turns      \* turns started so far

vars == <<registry, session, pickup, server, release, queue, left, terminal, turns>>

Turns == 1..MaxTurns

\* ReleaseReason, by what the loop does with it: ForeignTerminal and ForeignWriter,
\* ConversationClosed and ResumeInTerminal.
Reasons == {"foreign", "closed"}

Fresh == [stage |-> "idle", turn |-> None, approvals |-> {}, deferred |-> "no",
          suspect |-> FALSE, command |-> None]
Uncalled == [Fresh EXCEPT !.stage = "refused"]
NoServer == [state |-> "none", turn |-> None, ask |-> "none", events |-> <<>>]
Dead == [NoServer EXCEPT !.state = "dead"]

Starting == {"checked", "probed", "connected", "registered"}
Running == {"select", "asking", "sending", "watching"}
Ending == {"cutting", "letgo", "removed"}
Stages == {"idle", "refused", "failed", "gone"} \cup Starting \cup Running \cup Ending

TypeOK ==
  /\ registry \in Pickups \cup {None}
  /\ session \in [topology : {"none", "adopted", "attached"}, sender : Pickups \cup {None}]
  /\ pickup \in [Pickups -> [stage : Stages, turn : Turns \cup {None},
                             approvals : SUBSET Turns, deferred : {"no", "grace", "late"},
                             suspect : BOOLEAN, command : Kinds \cup {None}]]
  /\ \A a \in Pickups :
       /\ server[a].state \in {"none", "alive", "dead"}
       /\ server[a].turn \in Turns \cup {None}
       /\ server[a].ask \in {"none", "waiting", "answered"}
       /\ Len(release[a]) <= ReleaseSlots
       /\ \A i \in DOMAIN release[a] : release[a][i] \in Reasons
       /\ \A i \in DOMAIN queue[a] : queue[a][i] \in Kinds
  /\ left \in Seq(Kinds)
  /\ terminal \in BOOLEAN
  /\ turns \in 0..MaxTurns

Init ==
  /\ registry = None
  /\ session = [topology |-> "none", sender |-> None]
  /\ \E plan \in Plans :
       /\ pickup = [a \in Pickups |-> IF a \in plan.pickups THEN Fresh ELSE Uncalled]
       /\ left = plan.commands
  /\ server = [a \in Pickups |-> NoServer]
  /\ release = [a \in Pickups |-> <<>>]
  /\ queue = [a \in Pickups |-> <<>>]
  /\ terminal = FALSE
  /\ turns = 0

-----------------------------------------------------------------------------
(* The registry *)

\* Mutant: any pick-up may claim.
ClaimableAlways == TRUE

\* claim refuses while another pick-up holds the thread.
Claimable == registry = None

\* request_release: into the holder's channel, by try_send; a full one drops it.
Requested(reason) ==
  IF registry # None /\ Len(release[registry]) < ReleaseSlots
  THEN [release EXCEPT ![registry] = Append(@, reason)]
  ELSE release

-----------------------------------------------------------------------------
(* The supervisor's side of a registration *)

\* Mutant: a registration has a generation of its own, so that the end of another
\* pick-up does not match it.
EndedIfOwn(a) ==
  IF session.topology = "adopted" /\ session.sender = a
  THEN [topology |-> "attached", sender |-> None]
  ELSE session

\* end_adopted_session: an adopted row becomes an attached one, whoever registered
\* it, the generation being the same.
Ended(a) ==
  IF session.topology = "adopted"
  THEN [topology |-> "attached", sender |-> None]
  ELSE session

-----------------------------------------------------------------------------
(* The app-server, as far as the code depends on it *)

Event(kind, turn) == [kind |-> kind, turn |-> turn]

Emit(s, kind) == [s EXCEPT !.events = Append(@, Event(kind, s.turn))]

TurnOver(s) == [Emit(s, "ended") EXCEPT !.turn = None, !.ask = "none"]

\* A turn asks for at most one approval.
ServerAsks(a) ==
  /\ server[a].turn # None /\ server[a].ask = "none"
  /\ server' = [server EXCEPT ![a] = [Emit(@, "approval") EXCEPT !.ask = "waiting"]]
  /\ UNCHANGED <<registry, session, pickup, release, queue, left, terminal, turns>>

ServerEnds(a) ==
  /\ server[a].turn # None
  /\ server' = [server EXCEPT ![a] = TurnOver(@)]
  /\ UNCHANGED <<registry, session, pickup, release, queue, left, terminal, turns>>

ServerDies(a) ==
  /\ server[a].state = "alive"
  /\ server' = [server EXCEPT
       ![a] = [Dead EXCEPT !.events = Append(server[a].events, Event("closed", None))]]
  /\ UNCHANGED <<registry, session, pickup, release, queue, left, terminal, turns>>

\* turn/interrupt, which reaches the turn it names if that still runs.
Interrupted(a) ==
  IF pickup[a].turn # None /\ server[a].turn = pickup[a].turn
  THEN [server EXCEPT ![a] = TurnOver(@)]
  ELSE server

\* An answer to the approval a turn asked for, or a refusal of it.
Answered(s, turn) == IF s.turn = turn THEN [s EXCEPT !.ask = "answered"] ELSE s

-----------------------------------------------------------------------------
(* adopt *)

\* Turns a pick-up away: its app-server is shut down, its channel dropped.
Drop(a, stage) ==
  /\ pickup' = [pickup EXCEPT ![a].stage = stage]
  /\ server' = [server EXCEPT ![a] = IF @.state = "alive" THEN Dead ELSE @]
  /\ queue' = [queue EXCEPT ![a] = <<>>]

\* adopted_pickup and the first check of adopt.  A row that is unknown, a machine
\* without a binary or a terminal bound to the thread is refused as well.
PickUp(a) ==
  /\ pickup[a].stage = "idle"
  /\ \E stage \in {"refused"} \cup (IF registry = None THEN {"checked"} ELSE {}) :
       pickup' = [pickup EXCEPT ![a].stage = stage]
  /\ UNCHANGED <<registry, session, server, release, queue, left, terminal, turns>>

\* rollout_holders: a terminal refuses the pick-up, and so does a failure to ask.
Probe(a) ==
  /\ pickup[a].stage = "checked"
  /\ \E stage \in {"refused"} \cup (IF terminal THEN {} ELSE {"probed"}) :
       pickup' = [pickup EXCEPT ![a].stage = stage]
  /\ UNCHANGED <<registry, session, server, release, queue, left, terminal, turns>>

\* The app-server is spawned, resumes the thread and answers for its models.
Connect(a) ==
  /\ pickup[a].stage = "probed"
  /\ \/ /\ pickup' = [pickup EXCEPT ![a].stage = "connected"]
        /\ server' = [server EXCEPT ![a].state = "alive"]
        /\ UNCHANGED queue
     \/ Drop(a, "refused")
  /\ UNCHANGED <<registry, session, release, left, terminal, turns>>

\* supervisor.register: the row is this pick-up's from here on, whoever had it.
Register(a) ==
  /\ pickup[a].stage = "connected"
  /\ \/ /\ pickup' = [pickup EXCEPT ![a].stage = "registered"]
        /\ session' = [topology |-> "adopted", sender |-> a]
        /\ UNCHANGED <<server, queue>>
     \/ Drop(a, "refused") /\ UNCHANGED session
  /\ UNCHANGED <<registry, release, left, terminal, turns>>

\* The history is laid down, and the thread claimed for the loop that now runs.
\* Both refusals leave the row as it is.
Claim(a) ==
  /\ pickup[a].stage = "registered"
  /\ \/ /\ Claimable
        /\ registry' = a
        /\ pickup' = [pickup EXCEPT ![a].stage = "select"]
        /\ UNCHANGED <<server, queue>>
     \/ ~Claimable /\ Drop(a, "refused") /\ UNCHANGED registry
     \/ Drop(a, "failed") /\ UNCHANGED registry
  /\ UNCHANGED <<session, release, left, terminal, turns>>

-----------------------------------------------------------------------------
(* run_adopted: one iteration of the loop *)

\* Mutant: the grace of a running turn has no cap.
DueUncapped(p) == p.turn = None \/ p.approvals # {}

\* A deferred release waits for the running turn, unless an approval blocks it or
\* GRACE_COMPLETION_CAP has passed.
Due(p) == p.turn = None \/ p.approvals # {} \/ p.deferred = "late"

\* The loop is left; a turn that is cut short is interrupted first.
Leave(p, cut) ==
  [p EXCEPT !.stage = IF cut /\ p.turn # None THEN "cutting" ELSE "letgo",
            !.suspect = FALSE, !.command = None]

\* The top of the loop, after a branch of the select has run.
Iterate(p) ==
  IF p.deferred # "no" /\ Due(p)
  THEN Leave(p, p.approvals # {})
  ELSE [p EXCEPT !.stage = "select", !.suspect = FALSE, !.command = None]

Selecting(a) == pickup[a].stage = "select"

Step(a, p) == pickup' = [pickup EXCEPT ![a] = p]

Oldest(a) == Head(server[a].events)

\* Whether the event the select hands out is of this kind.
Ready(a, kind) == Selecting(a) /\ server[a].events # <<>> /\ Oldest(a).kind = kind

Read(s) == [s EXCEPT !.events = Tail(@)]

\* turn/started; turn/completed and turn/failed leave the approvals as they are.
OnNotification(a) ==
  /\ \/ Ready(a, "started") /\ Step(a, Iterate([pickup[a] EXCEPT !.turn = Oldest(a).turn]))
     \/ Ready(a, "ended") /\ Step(a, Iterate([pickup[a] EXCEPT !.turn = None]))
  /\ server' = [server EXCEPT ![a] = Read(@)]
  /\ UNCHANGED <<registry, session, release, queue, left, terminal, turns>>

\* A card that cannot be shown is refused.
OnServerRequest(a) ==
  LET turn == Oldest(a).turn
  IN
  /\ Ready(a, "approval")
  /\ \/ /\ Step(a, Iterate([pickup[a] EXCEPT !.approvals = @ \cup {turn}]))
        /\ server' = [server EXCEPT ![a] = Read(@)]
     \/ /\ Step(a, Iterate(pickup[a]))
        /\ server' = [server EXCEPT ![a] = Answered(Read(@), turn)]
  /\ UNCHANGED <<registry, session, release, queue, left, terminal, turns>>

OnServerClosed(a) ==
  /\ Ready(a, "closed")
  /\ Step(a, Leave(pickup[a], FALSE))
  /\ server' = [server EXCEPT ![a] = Read(@)]
  /\ UNCHANGED <<registry, session, release, queue, left, terminal, turns>>

\* The sender was replaced or dropped with the row, and nothing is queued.
OnChannelClosed(a) ==
  /\ Selecting(a) /\ queue[a] = <<>> /\ session.sender # a
  /\ Step(a, Leave(pickup[a], FALSE))
  /\ UNCHANGED <<registry, session, server, release, queue, left, terminal, turns>>

\* A yield is immediate; another release waits for the running turn, and the first
\* one that waits is kept.
OnRelease(a) ==
  LET p == pickup[a]
      reason == Head(release[a])
  IN
  /\ Selecting(a) /\ release[a] # <<>>
  /\ release' = [release EXCEPT ![a] = Tail(@)]
  /\ Step(a, IF reason = "foreign" \/ p.turn = None
             THEN Leave(p, reason = "foreign")
             ELSE Iterate([p EXCEPT !.deferred = IF @ = "no" THEN "grace" ELSE @]))
  /\ UNCHANGED <<registry, session, server, queue, left, terminal, turns>>

\* The first sample of foreign_rollout_holder; one that fails finds nobody.
Watch(a) ==
  /\ Selecting(a)
  /\ \/ terminal /\ Step(a, [pickup[a] EXCEPT !.stage = "watching", !.suspect = TRUE])
     \/ Step(a, Iterate(pickup[a]))
  /\ UNCHANGED <<registry, session, server, release, queue, left, terminal, turns>>

\* Mutant: a running turn is not taken for the terminal's to cut.
SustainedWhenIdle(a) == pickup[a].suspect /\ pickup[a].turn = None

\* The second sample finds the process of the first.
Sustained(a) == pickup[a].suspect

WatchAgain(a) ==
  /\ pickup[a].stage = "watching"
  /\ Step(a, IF Sustained(a) THEN Leave(pickup[a], TRUE)
             ELSE Iterate(pickup[a]))
  /\ UNCHANGED <<registry, session, server, release, queue, left, terminal, turns>>

WatchFails(a) ==
  /\ pickup[a].stage = "watching"
  /\ Step(a, Iterate(pickup[a]))
  /\ UNCHANGED <<registry, session, server, release, queue, left, terminal, turns>>

\* The cap of a release that waits.
CapPasses(a) ==
  /\ pickup[a].stage \in Running /\ pickup[a].deferred = "grace"
  /\ pickup' = [pickup EXCEPT ![a].deferred = "late"]
  /\ UNCHANGED <<registry, session, server, release, queue, left, terminal, turns>>

-----------------------------------------------------------------------------
(* on_command *)

\* A command is taken.  A text asks first whether a terminal holds the rollout.
OnCommand(a) ==
  LET taken == [pickup[a] EXCEPT !.command = Head(queue[a])]
  IN
  /\ Selecting(a) /\ queue[a] # <<>>
  /\ queue' = [queue EXCEPT ![a] = Tail(@)]
  /\ \/ terminal /\ Head(queue[a]) = "text"
        /\ Step(a, [taken EXCEPT !.stage = "asking", !.suspect = TRUE])
     \/ Step(a, [taken EXCEPT !.stage = "sending"])
  /\ UNCHANGED <<registry, session, server, release, left, terminal, turns>>

\* The second sample: a terminal that stays has the text rejected and the thread
\* released.
AskAgain(a) ==
  /\ pickup[a].stage = "asking"
  /\ \/ /\ Sustained(a)
        /\ release' = Requested("foreign")
        /\ Step(a, Iterate(pickup[a]))
     \/ /\ Step(a, [pickup[a] EXCEPT !.stage = "sending", !.suspect = FALSE])
        /\ UNCHANGED release
  /\ UNCHANGED <<registry, session, server, queue, left, terminal, turns>>

\* The end of on_command.
Finish(a, p) ==
  /\ Step(a, Iterate(p))
  /\ UNCHANGED <<registry, session, release, queue, left, terminal>>

Sending(a, kind) ==
  pickup[a].stage = "sending" /\ pickup[a].command = kind

\* send_text: the running turn is steered; if it is no longer the one the loop
\* knows, or there is none, a turn is started.
SendText(a) ==
  /\ Sending(a, "text") /\ server[a].state = "alive"
  /\ \/ /\ server[a].turn # None /\ server[a].turn = pickup[a].turn
        /\ UNCHANGED <<server, turns>>
     \/ /\ server[a].turn = None /\ turns < MaxTurns
        /\ turns' = turns + 1
        /\ server' = [server EXCEPT
             ![a] = Emit([@ EXCEPT !.turn = turns + 1, !.ask = "none"], "started")]
  /\ Finish(a, pickup[a])

SendInterrupt(a) ==
  /\ Sending(a, "interrupt") /\ pickup[a].turn # None /\ server[a].turn = pickup[a].turn
  /\ server' = Interrupted(a)
  /\ Finish(a, pickup[a])
  /\ UNCHANGED turns

\* answer_approval: the approval is taken off before the answer is written, so one
\* that could not be written is gone as well.
SendAnswer(a) ==
  /\ Sending(a, "answer")
  /\ \E i \in pickup[a].approvals :
       /\ server' = [server EXCEPT ![a] = Answered(@, i)]
       /\ Finish(a, [pickup[a] EXCEPT !.approvals = @ \ {i}])
  /\ UNCHANGED turns

\* set_model and set_effort.
SendSettings(a) ==
  /\ Sending(a, "settings") /\ server[a].state = "alive"
  /\ Finish(a, pickup[a])
  /\ UNCHANGED <<server, turns>>

\* Whatever is not allowed, not offered, refused by the app-server or not answered
\* in time.
SendRefused(a) ==
  /\ pickup[a].stage = "sending"
  /\ Finish(a, pickup[a])
  /\ UNCHANGED <<server, turns>>

-----------------------------------------------------------------------------
(* release *)

CutTurn(a) ==
  /\ pickup[a].stage = "cutting"
  /\ Step(a, [pickup[a] EXCEPT !.stage = "letgo"])
  /\ server' \in {server, Interrupted(a)}
  /\ UNCHANGED <<registry, session, release, queue, left, terminal, turns>>

LetGo(a) ==
  /\ pickup[a].stage = "letgo"
  /\ registry' = None
  /\ Step(a, [pickup[a] EXCEPT !.stage = "removed"])
  /\ UNCHANGED <<session, server, release, queue, left, terminal, turns>>

\* The app-server is shut down, the row ended, and the runtime dropped with its
\* channels and what is still in them.
End(a) ==
  /\ pickup[a].stage = "removed"
  /\ session' = Ended(a)
  /\ server' = [server EXCEPT ![a] = Dead]
  /\ Step(a, [Fresh EXCEPT !.stage = "gone"])
  /\ release' = [release EXCEPT ![a] = <<>>]
  /\ queue' = [queue EXCEPT ![a] = <<>>]
  /\ UNCHANGED <<registry, left, terminal, turns>>

-----------------------------------------------------------------------------
(* Phones, terminals and other writers *)

\* submit_command: to whoever the sender belongs to, if it still has its receiver.
Submit ==
  LET a == session.sender
      received == pickup[a].stage \in {"registered"} \cup Running \cup Ending
  IN
  /\ left # <<>> /\ session.topology = "adopted"
  /\ left' = Tail(left)
  /\ queue' = IF received THEN [queue EXCEPT ![a] = Append(@, Head(left))] ELSE queue
  /\ UNCHANGED <<registry, session, pickup, server, release, terminal, turns>>

\* The end of a subscription, whoever else is subscribed, or agent.managed.release.
AskRelease ==
  /\ registry # None
  /\ release' = Requested("closed")
  /\ UNCHANGED <<registry, session, pickup, server, queue, left, terminal, turns>>

\* note_hook_event, of a process that is not the holder's child.
ForeignHook ==
  /\ registry # None
  /\ release' = Requested("foreign")
  /\ UNCHANGED <<registry, session, pickup, server, queue, left, terminal, turns>>

TerminalOpens ==
  /\ ~terminal /\ terminal' = TRUE
  /\ UNCHANGED <<registry, session, pickup, server, release, queue, left, turns>>

\* A terminal that opens later is another process.
TerminalCloses ==
  /\ terminal /\ terminal' = FALSE
  /\ pickup' = [a \in Pickups |-> [pickup[a] EXCEPT !.suspect = FALSE]]
  /\ UNCHANGED <<registry, session, server, release, queue, left, turns>>

-----------------------------------------------------------------------------
Adopt(a) == PickUp(a) \/ Probe(a) \/ Connect(a) \/ Register(a) \/ Claim(a)

Send(a) ==
  SendText(a) \/ SendInterrupt(a) \/ SendAnswer(a) \/ SendSettings(a) \/ SendRefused(a)

Loop(a) ==
  \/ OnNotification(a) \/ OnServerRequest(a) \/ OnServerClosed(a)
  \/ OnChannelClosed(a) \/ OnRelease(a) \/ OnCommand(a)
  \/ Watch(a) \/ WatchAgain(a) \/ WatchFails(a) \/ AskAgain(a) \/ Send(a) \/ CapPasses(a)

Release(a) == CutTurn(a) \/ LetGo(a) \/ End(a)

\* Once the loop is left nobody reads what the app-server says.
Server(a) ==
  pickup[a].stage \notin Ending /\ (ServerAsks(a) \/ ServerEnds(a) \/ ServerDies(a))

Next ==
  \/ \E a \in Pickups : Adopt(a) \/ Loop(a) \/ Release(a) \/ Server(a)
  \/ Submit \/ AskRelease \/ ForeignHook \/ TerminalOpens \/ TerminalCloses

Spec == Init /\ [][Next]_vars

\* The awaits of a pick-up are bounded by timeouts, the select of its loop polls
\* its branches in a random order, its timers run, and lsof does not fail for ever.
\* Nothing is assumed of app-servers, phones and terminals.
Fairness ==
  \A a \in Pickups :
    /\ WF_vars(AskAgain(a) \/ Send(a) \/ Release(a))
    /\ WF_vars(CapPasses(a))
    /\ SF_vars(OnRelease(a)) /\ SF_vars(Watch(a)) /\ SF_vars(WatchAgain(a))

FairSpec == Spec /\ Fairness
-----------------------------------------------------------------------------
(* Properties *)

\* One adopter ("the one-adopter invariant is Ciao's own"): of the pick-ups that
\* raced through adopt, the one the registry names is the only one that serves the
\* conversation, and the registry names none that no longer does.
OneAdopter ==
  \A a \in Pickups : pickup[a].stage \in Running \cup {"cutting", "letgo"} <=> registry = a

\* A row that offers the conversation as adopted has a pick-up behind it that serves
\* it, or that will still end it: whichever of two pick-ups registered last, and
\* whichever of them was refused.  The one exception is a pick-up whose history
\* could not be written after it had registered.
AdoptedRowsEnd ==
  session.topology = "adopted" =>
    \/ \E a \in Pickups : pickup[a].stage \in {"registered"} \cup Running \cup Ending
    \/ pickup[session.sender].stage = "failed"

\* A terminal that keeps the rollout open gets the conversation, mid-turn included.
YieldsToTheTerminal == registry # None /\ terminal ~> registry = None \/ ~terminal

\* A release that was asked for goes through, even if the turn it waits for never
\* ends.
ReleaseGoesThrough == registry # None /\ release[registry] # <<>> ~> registry = None
=============================================================================
