--------------------------- MODULE ManagedSessions ---------------------------
(***************************************************************************)
(* Managed sessions: the directory of sessions Ciao runs itself            *)
(* (managed_session.rs), the table of their worker processes               *)
(* (managed_worker.rs), the takeover and handback of conversations, and    *)
(* the monitor and the startup resume that act on the same records         *)
(* (daemon.rs).                                                            *)
(*                                                                         *)
(* The store and the worker table are short locks.  A lifecycle request    *)
(* reads the store, waits for a process, a terminal or a probe, and writes *)
(* the store; one action is what it does between two waits.  A worker      *)
(* taken out of the table to be stopped runs on until the stop ends.       *)
(***************************************************************************)
EXTENDS Naturals, FiniteSets

CONSTANTS
  Sessions,      \* managed session identifiers that may ever be drawn
  Convs,         \* conversations of the vendor (vendor_session_id)
  Tasks,         \* lifecycle requests that may be in progress at the same time
  Recovery,      \* the startup resume, one more such task
  Commands,      \* command identifiers a phone may send again
  MaxRecords,    \* MAX_MANAGED_RECORDS
  MaxGen,        \* bound: process generations a session goes through
  Overlap,       \* may two requests be in progress on one session, conversation or command?
  SavesFail,     \* may a save fail?
  TakeoverKnown, \* may a conversation that has a record be taken over from a terminal?
  None

ASSUME BoundAssumption ==
  /\ MaxRecords \in Nat /\ MaxGen \in Nat \ {0}
  /\ Overlap \in BOOLEAN /\ SavesFail \in BOOLEAN /\ TakeoverKnown \in BOOLEAN

VARIABLES
  store,    \* ManagedMetadataStore: records and the commands answered
  file,     \* its file
  drawn,    \* session identifiers in use
  begun,    \* conversations that exist
  table,    \* WorkerTable.workers
  terms,    \* the terminals holding each conversation
  task,     \* one record per lifecycle request
  monitor,  \* monitor_agent_routes
  owed      \* restart_resumable

vars == <<store, file, drawn, begun, table, terms, task, monitor, owed>>

\* "ended" stands for stopped, worker_crash and daemon_restart, which no code tells apart.
Reasons == {"none", "ended", "released", "externally_owned"}

\* `by' is the command that started the session: not in the code, only for RetryStartsOnce.
Record == [presence : {"none", "live", "stored"}, reason : Reasons, conv : Convs \cup {None},
           gen : 0..MaxGen, external : BOOLEAN, handback : BOOLEAN, by : Commands \cup {None}]
NoRecord == [presence |-> "none", reason |-> "none", conv |-> None, gen |-> 0,
             external |-> FALSE, handback |-> FALSE, by |-> None]
Store == [records : [Sessions -> Record], answered : SUBSET Commands]

Worker == [state : {"none", "running", "exited"}, conv : Convs \cup {None}]
NoWorker == [state |-> "none", conv |-> None]

\* A Claude the user started, one the user started with --resume, or a handback of Ciao's.
Terminals == {<<"plain", None>>, <<"resumed", None>>} \cup ({"handback"} \X Sessions)

Ops == {"start", "promote", "resume", "stop", "release"}
Stages == {"idle", "preflight", "evicting", "adopting", "closing", "probing", "launching",
           "launched", "stopping", "stopped", "handed"}
Task == [stage : Stages, op : Ops \cup {None}, session : Sessions \cup {None},
         conv : Convs \cup {None}, gen : 0..MaxGen, cmd : Commands \cup {None},
         terminal : Terminals \cup {None}, back : BOOLEAN, worker : Worker]
Idle == [stage |-> "idle", op |-> None, session |-> None, conv |-> None, gen |-> 0, cmd |-> None,
         terminal |-> None, back |-> FALSE, worker |-> NoWorker]

Monitor == [stage : {"watch", "yield", "stopping"}, found : SUBSET Sessions,
            session : Sessions \cup {None}, worker : Worker]
Watching == [stage |-> "watch", found |-> {}, session |-> None, worker |-> NoWorker]

AllTasks == Tasks \cup {Recovery}

ASSUME NameAssumption == None \notin Sessions \cup Convs \cup Commands \cup Ops

\* The types of the state.
TypeOK ==
  /\ store \in Store /\ file \in Store
  /\ drawn \subseteq Sessions /\ begun \subseteq Convs /\ owed \subseteq Sessions
  /\ table \in [Sessions -> Worker]
  /\ terms \in [Convs -> SUBSET Terminals]
  /\ task \in [AllTasks -> Task]
  /\ monitor \in Monitor

Init ==
  /\ store = [records |-> [s \in Sessions |-> NoRecord], answered |-> {}]
  /\ file = store
  /\ drawn = {} /\ begun = {} /\ owed = {}
  /\ table = [s \in Sessions |-> NoWorker]
  /\ terms = [v \in Convs |-> {}]
  /\ task = [t \in AllTasks |-> Idle]
  /\ monitor = Watching
-----------------------------------------------------------------------------
(* The store *)

rec == store.records
Known == {s \in Sessions : rec[s].presence # "none"}
Live(s) == rec[s].presence = "live"

\* persist: its error is ignored, so the file may keep what it had.
Saved(next) == store' = next /\ file' \in {next} \cup (IF SavesFail THEN {file} ELSE {})

\* accept and refuse: the command is answered, with the records as given.
Answered(records, c) ==
  Saved([records |-> records, answered |-> store.answered \cup ({c} \ {None})])

\* deduplicated: an answered command is not performed again.
NotAnswered(c) == c \notin store.answered

\* A record that left the live state.
StoredAs(r, reason) == [r EXCEPT !.presence = "stored", !.reason = reason]

\* record_worker_exit: only a live record changes.
ExitRecorded(r) == IF r.presence = "live" THEN StoredAs(r, "ended") ELSE r

\* mark_externally_owned: only a stored record changes.
OwnedElsewhere(r) ==
  IF r.presence = "stored" THEN [r EXCEPT !.external = TRUE, !.reason = "externally_owned"] ELSE r

\* A live record holds this conversation.
LiveOn(v) == \E s \in Sessions : Live(s) /\ rec[s].conv = v

\* has_foreign_owner: a process with the conversation on its command line.  A Claude started
\* without --resume has it not; a handback runs Ciao's own binary, which the probe leaves out.
Foreign(v, ignoring) == v # None /\ <<"resumed", None>> \in terms[v] \ {ignoring}
-----------------------------------------------------------------------------
(* What the requests have in common *)

\* Where Overlap is FALSE, requests wait for one another and for the monitor.
Clear(s, v, c) ==
  \/ Overlap
  \/ /\ \A u \in AllTasks : task[u].session # s \/ s = None
     /\ \A u \in AllTasks : task[u].conv # v \/ v = None
     /\ \A u \in AllTasks : task[u].cmd # c \/ c = None
     /\ s # None => s \notin monitor.found \cup {monitor.session}

Begin(t, next) == task[t].stage = "idle" /\ task' = [task EXCEPT ![t] = next]
Step(t, stage, next) == task[t].stage = stage /\ task' = [task EXCEPT ![t] = next]
To(t, stage) == [task[t] EXCEPT !.stage = stage]
Request(op, s, c) == [Idle EXCEPT !.op = op, !.session = s, !.cmd = c]

\* The request is refused with nothing but its outcome recorded.
Refused(t, c) == task' = [task EXCEPT ![t] = Idle] /\ Answered(rec, c)

world == <<drawn, begun, table, terms, monitor, owed>>

\* Mutant: the worker is asked to end and stays in the table.
TakenKept(t, req) ==
  /\ UNCHANGED table
  /\ task' = [task EXCEPT ![t] = [req EXCEPT !.stage = "stopped"]]

\* WorkerTable::stop begins: the worker leaves the table, and is asked to end.
Taken(t, req) ==
  /\ table' = [table EXCEPT ![req.session] = NoWorker]
  /\ task' = [task EXCEPT ![t] =
       [req EXCEPT !.worker = table[req.session],
                   !.stage = IF table[req.session] = NoWorker THEN "stopped" ELSE "stopping"]]

\* WorkerTable::stop ends: the process is reaped.
Terminated(t) ==
  /\ Step(t, "stopping", [To(t, "stopped") EXCEPT !.worker = NoWorker])
  /\ UNCHANGED <<store, file, world>>
-----------------------------------------------------------------------------
(* Starting: managed_start, managed_start_at_path *)

Start(t, c, s) ==
  /\ NotAnswered(c) /\ s \notin drawn /\ Clear(None, None, c)
  /\ Begin(t, [Request("start", s, c) EXCEPT !.stage = "launching"])
  /\ drawn' = drawn \cup {s}
  /\ UNCHANGED <<store, file, begun, table, terms, monitor, owed>>

\* launch: the worker is spawned; an older one of the session is dropped, which kills it.
Launch(t) ==
  /\ Step(t, "launching", To(t, "launched"))
  /\ table' = [table EXCEPT ![task[t].session] = [state |-> "running", conv |-> task[t].conv]]
  /\ UNCHANGED <<store, file, drawn, begun, terms, monitor, owed>>

\* The runtime is not there, or does not match its pin.
LaunchRefused(t) ==
  /\ task[t].stage = "launching"
  /\ Refused(t, task[t].cmd)
  /\ UNCHANGED world

\* Mutant: the outcome of a start is not remembered.
StartedUnanswered(t) ==
  LET s == task[t].session IN
  /\ task[t].op \in {"start", "promote"}
  /\ Step(t, "launched", Idle)
  /\ Saved([store EXCEPT !.records[s] = [NoRecord EXCEPT !.presence = "live",
                                         !.conv = task[t].conv, !.gen = 1, !.by = task[t].cmd]])
  /\ UNCHANGED world

\* The new session is recorded; a full store refuses it, and leaves the worker running.
Started(t) ==
  LET s == task[t].session IN
  /\ task[t].op \in {"start", "promote"}
  /\ Step(t, "launched", Idle)
  /\ Answered(IF Cardinality(Known) >= MaxRecords THEN rec
              ELSE [rec EXCEPT ![s] = [NoRecord EXCEPT !.presence = "live", !.conv = task[t].conv,
                                                       !.gen = 1, !.by = task[t].cmd]],
              task[t].cmd)
  /\ UNCHANGED world
-----------------------------------------------------------------------------
(* Taking over a terminal: AgentPromote, promotion_preflight, managed_promote *)

\* promotion_target: an attached Claude with a conversation to resume.
Promote(t, c, v, k) ==
  /\ k \in terms[v] /\ Clear(None, v, c)
  /\ TakeoverKnown \/ \A s \in Known : rec[s].conv # v
  /\ Begin(t, [Request("promote", None, c) EXCEPT
                 !.stage = "preflight", !.conv = v, !.terminal = k])
  /\ UNCHANGED <<store, file, world>>

Contested(t) == LiveOn(task[t].conv) \/ Foreign(task[t].conv, task[t].terminal)

\* promotion_preflight: what can be refused is refused before the terminal is ended.
Preflight(t) ==
  /\ Step(t, "preflight", IF Contested(t) THEN Idle ELSE To(t, "evicting"))
  /\ UNCHANGED <<store, file, world>>

\* request_exit: the terminal ends.
Evict(t) ==
  /\ Step(t, "evicting", To(t, "adopting"))
  /\ terms' = [terms EXCEPT ![task[t].conv] = @ \ {task[t].terminal}]
  /\ UNCHANGED <<store, file, drawn, begun, table, monitor, owed>>

\* request_exit: the terminal ignores the signal, and the takeover is refused.
EvictFails(t) ==
  /\ Step(t, "evicting", Idle)
  /\ task[t].terminal \in terms[task[t].conv]
  /\ UNCHANGED <<store, file, world>>

\* managed_promote checks again, and draws the new session.
Adopt(t, s) ==
  /\ Step(t, "adopting", [To(t, "launching") EXCEPT !.session = s])
  /\ s \notin drawn /\ NotAnswered(task[t].cmd) /\ ~Contested(t)
  /\ drawn' = drawn \cup {s}
  /\ UNCHANGED <<store, file, begun, table, terms, monitor, owed>>

AdoptRefused(t) ==
  /\ task[t].stage = "adopting"
  /\ \/ NotAnswered(task[t].cmd) /\ Contested(t) /\ Refused(t, task[t].cmd)
     \/ ~NotAnswered(task[t].cmd) /\ Step(t, "adopting", Idle) /\ UNCHANGED <<store, file>>
  /\ UNCHANGED world
-----------------------------------------------------------------------------
(* Stopping, releasing, forgetting *)

\* managed_stop, up to the wait for the process.
Stop(t, s, g) ==
  /\ Clear(s, rec[s].conv, None) /\ task[t].stage = "idle"
  /\ IF Live(s) /\ rec[s].gen = g
     THEN /\ Taken(t, Request("stop", s, None))
          /\ UNCHANGED <<store, file, drawn, begun, terms, monitor, owed>>
     ELSE Refused(t, None) /\ UNCHANGED world

\* managed_stop, after it: the record is stored whatever it says by now.
Stopped(t) ==
  LET s == task[t].session IN
  /\ task[t].op = "stop"
  /\ Step(t, "stopped", Idle)
  /\ Answered(IF s \in Known THEN [rec EXCEPT ![s] = StoredAs(rec[s], "ended")] ELSE rec,
              task[t].cmd)
  /\ UNCHANGED world

\* managed_release: the session need not be live.
Release(t, s) ==
  /\ Clear(s, rec[s].conv, None) /\ task[t].stage = "idle"
  /\ IF rec[s].conv # None
     THEN /\ Taken(t, [Request("release", s, None) EXCEPT !.conv = rec[s].conv])
          /\ UNCHANGED <<store, file, drawn, begun, terms, monitor, owed>>
     ELSE Refused(t, None) /\ UNCHANGED world

\* handback: a detached terminal is created, unless one of its name is there or tmux is not.
HandBack(t) ==
  LET k == <<"handback", task[t].session>>
      v == task[t].conv
  IN /\ task[t].op = "release"
     /\ \/ /\ \A w \in Convs : k \notin terms[w]
           /\ terms' = [terms EXCEPT ![v] = @ \cup {k}]
           /\ Step(t, "stopped", [To(t, "handed") EXCEPT !.back = TRUE])
        \/ Step(t, "stopped", To(t, "handed")) /\ UNCHANGED terms
     /\ UNCHANGED <<store, file, drawn, begun, table, monitor, owed>>

\* The conversation is given up, with or without a terminal for it.
Released(t) ==
  LET s == task[t].session IN
  /\ Step(t, "handed", Idle)
  /\ Answered(IF s \in Known
              THEN [rec EXCEPT ![s] = [StoredAs(@, "released") EXCEPT !.external = TRUE,
                                                                      !.handback = task[t].back]]
              ELSE rec, task[t].cmd)
  /\ UNCHANGED world

\* managed_forget, in one step.
Forget(s) ==
  /\ Clear(s, rec[s].conv, None)
  /\ Answered(IF Live(s) THEN rec ELSE [rec EXCEPT ![s] = NoRecord], None)
  /\ UNCHANGED <<task, world>>
-----------------------------------------------------------------------------
(* Resuming *)

HandedBack(s) == rec[s].reason = "released"

\* The checks of managed_resume.
Resumable(s) == s \in Known /\ ~Live(s) /\ (rec[s].external => HandedBack(s))

\* managed_resume, up to its first wait.
Resume(t, s) ==
  /\ Clear(s, rec[s].conv, None) /\ rec[s].gen < MaxGen
  /\ task[t].stage = "idle"
  /\ IF Resumable(s)
     THEN /\ task' = [task EXCEPT ![t] =
               [Request("resume", s, None) EXCEPT !.conv = rec[s].conv, !.gen = rec[s].gen,
                  !.stage = IF HandedBack(s) /\ rec[s].handback THEN "closing" ELSE "probing"]]
          /\ UNCHANGED <<store, file>>
     ELSE Refused(t, None)

ResumeRequest(t, s) == Resume(t, s) /\ UNCHANGED world

\* recover_sessions_after_restart: one session after the other.
Recover(s) ==
  /\ s \in owed
  /\ Resume(Recovery, s)
  /\ owed' = owed \ {s}
  /\ UNCHANGED <<drawn, begun, table, terms, monitor>>

\* close_handback: whether the terminal was closed is not looked at.
Close(t) ==
  /\ Step(t, "closing", To(t, "probing"))
  /\ terms' \in {terms, [v \in Convs |-> terms[v] \ {<<"handback", task[t].session>>}]}
  /\ UNCHANGED <<store, file, drawn, begun, table, monitor, owed>>

\* foreign_owner_evidence finds nobody; the launch follows.
Probe(t) ==
  /\ Step(t, "probing", To(t, "launching"))
  /\ ~Foreign(task[t].conv, None)
  /\ UNCHANGED <<store, file, world>>

ProbeRefused(t) ==
  /\ task[t].stage = "probing" /\ Foreign(task[t].conv, None)
  /\ Refused(t, task[t].cmd)
  /\ UNCHANGED world

\* Mutant: what the release left on the record stays there.
ResumedStale(t) ==
  LET s == task[t].session IN
  /\ task[t].op = "resume"
  /\ Step(t, "launched", Idle)
  /\ Answered(IF s \in Known
              THEN [rec EXCEPT ![s] = [@ EXCEPT !.presence = "live", !.reason = "none",
                                                !.gen = task[t].gen + 1]]
              ELSE rec, task[t].cmd)
  /\ UNCHANGED world

\* managed_resume, after the launch: the record, if it is still there, is live again.
Resumed(t) ==
  LET s == task[t].session IN
  /\ task[t].op = "resume"
  /\ Step(t, "launched", Idle)
  /\ Answered(IF s \in Known
              THEN [rec EXCEPT ![s] = [@ EXCEPT !.presence = "live", !.reason = "none",
                                                !.external = FALSE, !.handback = FALSE,
                                                !.gen = task[t].gen + 1]]
              ELSE rec, task[t].cmd)
  /\ UNCHANGED world
-----------------------------------------------------------------------------
(* Workers and terminals *)

\* The first turn of a fresh worker begins a conversation, and record_vendor_session records it.
\* It takes a prompt: the worker has to start, register and be shown for that, which the request
\* that spawned it does not wait for.
FirstTurn(s, v) ==
  /\ \A t \in AllTasks : task[t].session # s
  /\ table[s].state = "running" /\ table[s].conv = None /\ v \notin begun
  /\ table' = [table EXCEPT ![s].conv = v]
  /\ begun' = begun \cup {v}
  /\ IF s \in Known THEN Saved([store EXCEPT !.records[s].conv = v]) ELSE UNCHANGED <<store, file>>
  /\ UNCHANGED <<drawn, terms, task, monitor, owed>>

WorkerExits(s) ==
  /\ table[s].state = "running"
  /\ table' = [table EXCEPT ![s].state = "exited"]
  /\ UNCHANGED <<store, file, drawn, begun, terms, task, monitor, owed>>

\* A user opens a conversation in a terminal of their own, new or with --resume.
OpenTerminal(v) ==
  /\ terms' = [terms EXCEPT ![v] = @ \cup {<<IF v \in begun THEN "resumed" ELSE "plain", None>>}]
  /\ begun' = begun \cup {v}
  /\ UNCHANGED <<store, file, drawn, table, task, monitor, owed>>

CloseTerminal(v, k) ==
  /\ k \in terms[v]
  /\ terms' = [terms EXCEPT ![v] = @ \ {k}]
  /\ UNCHANGED <<store, file, drawn, begun, table, task, monitor, owed>>
-----------------------------------------------------------------------------
(* monitor_agent_routes *)

Exited == {s \in Sessions : table[s].state = "exited"}

\* The records after the exits a reap found.
AfterReap ==
  [s \in Sessions |-> IF s \in Exited THEN ExitRecorded(rec[s]) ELSE rec[s]]

\* Mutant: only sessions already marked are looked at.
SharedMarked(records) ==
  {s \in Sessions : /\ records[s].presence = "live" /\ records[s].external
                    /\ Foreign(records[s].conv, None)}

\* foreign_owned_live_sessions
Shared(records) ==
  {s \in Sessions : /\ records[s].presence = "live" /\ ~records[s].external
                    /\ Foreign(records[s].conv, None)}

\* Workers that ended are reaped and recorded; then the live conversations are looked at.
Watch ==
  /\ monitor.stage = "watch"
  /\ table' = [s \in Sessions |-> IF s \in Exited THEN NoWorker ELSE table[s]]
  /\ IF Exited = {} THEN UNCHANGED <<store, file>> ELSE Saved([store EXCEPT !.records = AfterReap])
  /\ monitor' = IF Shared(AfterReap) = {} THEN Watching
                ELSE [Watching EXCEPT !.stage = "yield", !.found = Shared(AfterReap)]
  /\ UNCHANGED <<drawn, begun, terms, task, owed>>

\* The worker of a conversation a terminal has opened is stopped.
Yield(s) ==
  /\ monitor.stage = "yield" /\ s \in monitor.found
  /\ table' = [table EXCEPT ![s] = NoWorker]
  /\ monitor' = [stage |-> "stopping", found |-> monitor.found \ {s},
                 session |-> s, worker |-> table[s]]
  /\ UNCHANGED <<store, file, drawn, begun, terms, task, owed>>

\* It has ended: the record is stored and the conversation marked as the terminal's.
Yielded ==
  LET s == monitor.session IN
  /\ monitor.stage = "stopping"
  /\ Saved([store EXCEPT !.records[s] = OwnedElsewhere(ExitRecorded(@))])
  /\ monitor' = [Watching EXCEPT !.stage = IF monitor.found = {} THEN "watch" ELSE "yield",
                                 !.found = monitor.found]
  /\ UNCHANGED <<drawn, begun, table, terms, task, owed>>
-----------------------------------------------------------------------------
(* The daemon stops and starts: its workers die with it, terminals do not *)

Restart ==
  LET lost == {s \in Sessions : file.records[s].presence = "live"}
      loaded == [file EXCEPT !.records =
                   [s \in Sessions |-> IF s \in lost THEN StoredAs(@[s], "ended") ELSE @[s]]]
  IN /\ store' = loaded /\ file' = loaded
     /\ owed' = lost
     /\ table' = [s \in Sessions |-> NoWorker]
     /\ task' = [t \in AllTasks |-> Idle]
     /\ monitor' = Watching
     /\ UNCHANGED <<drawn, begun, terms>>
-----------------------------------------------------------------------------
\* What a request does without being asked again.
Proceed(t) ==
  \/ Launch(t) \/ LaunchRefused(t) \/ Started(t) \/ Preflight(t) \/ Evict(t) \/ EvictFails(t)
  \/ (\E s \in Sessions : Adopt(t, s)) \/ AdoptRefused(t)
  \/ Terminated(t) \/ Stopped(t) \/ HandBack(t) \/ Released(t)
  \/ Close(t) \/ Probe(t) \/ ProbeRefused(t) \/ Resumed(t)

\* A request that creates a session may be sent again under its identifier.  The others come
\* with new identifiers: that is more than the code lets through, which answers a repetition.
Ask(t) ==
  \/ \E c \in Commands \cup {None}, s \in Sessions : Start(t, c, s)
  \/ \E c \in Commands \cup {None}, v \in Convs, k \in Terminals : Promote(t, c, v, k)
  \/ \E s \in Sessions : Release(t, s) \/ ResumeRequest(t, s)
  \/ \E s \in Sessions, g \in 1..MaxGen : Stop(t, s, g)

Monitoring == Watch \/ Yielded \/ \E s \in Sessions : Yield(s)

Next ==
  \/ \E t \in Tasks : Ask(t)
  \/ \E t \in AllTasks : Proceed(t)
  \/ \E s \in Sessions : Forget(s) \/ Recover(s) \/ WorkerExits(s)
  \/ \E s \in Sessions, v \in Convs : FirstTurn(s, v)
  \/ \E v \in Convs : OpenTerminal(v) \/ \E k \in Terminals : CloseTerminal(v, k)
  \/ Monitoring \/ Restart

Spec == Init /\ [][Next]_vars

\* The monitor wakes every second, its probes are short and its stops kill after a grace period.
FairSpec == Spec /\ WF_vars(Monitoring)
-----------------------------------------------------------------------------
(* Properties *)

\* A live session is Ciao's alone: it has no reason to be stored, is not marked as another's and
\* advertises no handback terminal, however release, takeback, yielding and exits interleave
\* (managed_resume clears the flags because "leaving them would refuse the next resume").
LiveIsClean ==
  \A s \in Sessions : Live(s) => rec[s].reason = "none" /\ ~rec[s].external /\ ~rec[s].handback

Running(s) == table[s].state = "running"

\* managed_session.rs:422: exactly one owner per vendor session. Two workers in the table never
\* run the same conversation, even where a conversation on record was taken over again.
SingleWorker ==
  \A s, u \in Sessions :
    Running(s) /\ Running(u) /\ table[s].conv # None /\ table[s].conv = table[u].conv => s = u

Working(s) == \E t \in AllTasks : task[t].session = s

\* Every running worker can be found again: its session is live on record or a request is still
\* at work on it (managed_forget: forgetting a live session "would orphan the process").
WorkersAreAccounted == \A s \in Sessions : Running(s) => Live(s) \/ Working(s)

\* However often a start or a takeover is sent again under its command identifier, also across
\* restarts that lost the last save, there is one session for it on record.
RetryStartsOnce ==
  \A s, u \in Known : rec[s].by # None /\ rec[s].by = rec[u].by => s = u

\* A conversation Ciao runs and a user opened with claude --resume.
Forked(s) == Running(s) /\ Live(s) /\ Foreign(rec[s].conv, None)

\* "Ciao is the side that yields": of two owners one is gone in the end, Ciao's worker if the
\* user does not leave.
YieldsToTerminal == \A s \in Sessions : Forked(s) ~> ~Forked(s)
=============================================================================
