----------------------- MODULE ManagedSessionsProofs -----------------------
(* Proofs about the managed sessions, for any number of sessions,          *)
(* conversations, requests and commands, and whether or not saves fail.    *)
EXTENDS ManagedSessions, FiniteSetTheorems, TLAPS

Creating == {"start", "promote"}
Launching == Creating \cup {"resume"}
Taking == {"stop", "release"}

\* What a request has at each of its stages.
TaskOK(k) ==
  /\ k.stage = "idle" => k = Idle
  /\ k.stage # "idle" => k.op # None
  /\ k.stage \in {"preflight", "evicting", "adopting"} =>
       /\ k.op = "promote" /\ k.session = None /\ k.terminal \in Terminals
  /\ k.stage \in {"closing", "probing"} => k.op = "resume"
  /\ k.stage \in {"launching", "launched"} => k.op \in Launching /\ k.session \in Sessions
  /\ k.stage \in {"stopping", "stopped"} => k.op \in Taking
  /\ k.stage = "handed" => k.op = "release"
  /\ k.op \in Taking \cup {"resume"} => k.session \in Sessions /\ k.cmd = None
  /\ k.op = "resume" => k.gen < MaxGen
  /\ k.op \in {"promote", "release"} => k.conv \in Convs
  /\ k.op \in {"start", "stop"} => k.conv = None

MonitorOK(m) ==
  /\ m.stage = "watch" => m = Watching
  /\ m.stage = "yield" => m.session = None
  /\ m.stage = "stopping" => m.session \in Sessions

ShapeInv == TypeOK /\ (\A t \in AllTasks : TaskOK(task[t])) /\ MonitorOK(monitor)
-----------------------------------------------------------------------------
(* What holds while requests on one session, conversation or command do not overlap. *)

KnownIn(st) == {s \in Sessions : st.records[s].presence # "none"}

\* There is room for every session that may be drawn.
Room == IsFiniteSet(Sessions) /\ Cardinality(Sessions) <= MaxRecords

\* Of two requests in progress, each has its own session, conversation and command.
DistinctInv ==
  \A t, u \in AllTasks : t # u =>
    /\ task[t].session # task[u].session \/ task[t].session = None
    /\ task[t].conv # task[u].conv \/ task[t].conv = None
    /\ task[t].cmd # task[u].cmd \/ task[t].cmd = None

Watched == monitor.found \cup {monitor.session}

\* Whatever is anywhere known of a session, its identifier was drawn.
DrawnInv ==
  /\ KnownIn(store) \subseteq drawn /\ KnownIn(file) \subseteq drawn
  /\ Watched \subseteq drawn \cup {None}
  /\ \A t \in AllTasks : task[t].session \in drawn \cup {None}

\* A session that is not on record is nothing at all, and one on record answers its command.
LedgerInv(st) ==
  /\ \A s \in Sessions : st.records[s].presence = "none" => st.records[s] = NoRecord
  /\ \A s \in KnownIn(st) : st.records[s].by # None => st.records[s].by \in st.answered
  /\ \A s, u \in KnownIn(st) : st.records[s].by # None /\ st.records[s].by = st.records[u].by => s = u

\* A request that will make a session live has it for itself, and no worker runs it before.
LaunchInv ==
  \A t \in AllTasks : task[t].op \in Launching /\ task[t].session # None =>
    /\ task[t].session \notin Watched
    /\ ~Live(task[t].session)
    /\ task[t].op \in Creating => task[t].session \notin Known
    /\ task[t].op = "resume" => task[t].session \in Known
    /\ Room /\ task[t].stage # "launched" => ~Running(task[t].session)
    /\ task[t].op \in Creating /\ task[t].cmd # None => task[t].cmd \notin store.answered

\* Whoever ends a worker has taken it out of the table.
TakenInv ==
  /\ \A t \in AllTasks : task[t].op \in Taking => table[task[t].session] = NoWorker
  /\ monitor.stage = "stopping" => table[monitor.session] = NoWorker

OwnInv ==
  /\ DistinctInv /\ DrawnInv /\ LedgerInv(store) /\ LedgerInv(file)
  /\ LaunchInv /\ TakenInv /\ (Room => WorkersAreAccounted)
-----------------------------------------------------------------------------
(* Conversations, where none that has a record is taken over. *)

\* No two records are of one conversation.
ConvsDiffer(st) ==
  \A s, u \in KnownIn(st) : st.records[s].conv # None /\ st.records[s].conv = st.records[u].conv => s = u

\* A conversation that is anywhere named has begun.
BegunInv ==
  /\ \A s \in Sessions : store.records[s].conv \in begun \cup {None}
  /\ \A s \in Sessions : file.records[s].conv \in begun \cup {None}
  /\ \A t \in AllTasks : task[t].conv \in begun \cup {None}
  /\ \A v \in Convs : terms[v] # {} => v \in begun

\* A worker runs the conversation of its record, or that of the takeover that launched it.
WorkerConvInv ==
  \A s \in Sessions : Running(s) /\ table[s].conv # None =>
    \/ s \in Known /\ rec[s].conv = table[s].conv
    \/ \E t \in AllTasks : /\ task[t].op = "promote" /\ task[t].session = s
                           /\ task[t].conv = table[s].conv

ConvInv ==
  /\ ConvsDiffer(store) /\ ConvsDiffer(file) /\ BegunInv /\ WorkerConvInv
  /\ \A t \in AllTasks :
       /\ task[t].op = "promote" => \A s \in Known : rec[s].conv # task[t].conv
       /\ task[t].op = "resume" => task[t].conv = rec[task[t].session].conv
-----------------------------------------------------------------------------
(* Shapes *)

\* The records the actions are made of.
LEMMA Constants ==
  /\ Idle \in Task /\ TaskOK(Idle) /\ Idle.session = None /\ Idle.op = None /\ Idle.stage = "idle"
  /\ Idle.conv = None /\ Idle.cmd = None
  /\ Watching \in Monitor /\ MonitorOK(Watching)
  /\ NoWorker \in Worker /\ NoRecord \in Record
<1>1. NoWorker \in Worker
  BY Zenon DEF NoWorker, Worker
<1>2. NoRecord \in Record
  BY BoundAssumption DEF NoRecord, Record, Reasons
<1>3. Idle \in Task
  BY <1>1, BoundAssumption DEF Idle, Task, Stages
<1>4. TaskOK(Idle)
  BY NameAssumption, Zenon DEF Idle, TaskOK, Taking, Ops
<1>5. Watching \in Monitor /\ MonitorOK(Watching)
  BY <1>1, Zenon DEF Watching, Monitor, MonitorOK
<1> QED
  BY <1>1, <1>2, <1>3, <1>4, <1>5, Zenon DEF Idle

\* The store after a save, and its file.
LEMMA SavedType ==
  ASSUME file \in Store, NEW next \in Store, Saved(next)
  PROVE  store' \in Store /\ file' \in Store
BY Zenon DEF Saved

\* The store after a command was answered.
LEMMA AnsweredType ==
  ASSUME store \in Store, file \in Store, NEW R \in [Sessions -> Record],
         NEW c \in Commands \cup {None}, Answered(R, c)
  PROVE  store' \in Store /\ file' \in Store
<1>1. [records |-> R, answered |-> store.answered \cup ({c} \ {None})] \in Store
  BY Zenon DEF Store
<1> QED
  BY <1>1, SavedType, Zenon DEF Answered

\* One request takes a step.
LEMMA TaskStep ==
  ASSUME ShapeInv, NEW t \in AllTasks, NEW n \in Task, TaskOK(n), task' = [task EXCEPT ![t] = n]
  PROVE  /\ task' \in [AllTasks -> Task] /\ task'[t] = n
         /\ \A u \in AllTasks : TaskOK(task'[u])
         /\ \A u \in AllTasks \ {t} : task'[u] = task[u]
<1>1. /\ task' \in [AllTasks -> Task] /\ task'[t] = n
      /\ \A u \in AllTasks \ {t} : task'[u] = task[u]
  BY Zenon DEF ShapeInv, TypeOK
<1> QED
  BY <1>1, Zenon DEF ShapeInv

\* ... while the monitor rests.
LEMMA ShapeStep ==
  ASSUME ShapeInv, NEW t \in AllTasks, NEW n \in Task, TaskOK(n), task' = [task EXCEPT ![t] = n],
         store' \in Store, file' \in Store, drawn' \subseteq Sessions, UNCHANGED <<begun, monitor>>,
         owed' \subseteq Sessions, table' \in [Sessions -> Worker], terms' \in [Convs -> SUBSET Terminals]
  PROVE  ShapeInv'
<1>1. task' \in [AllTasks -> Task] /\ \A u \in AllTasks : TaskOK(task'[u])
  BY TaskStep, Zenon
<1>2. TypeOK'
  BY <1>1, Zenon DEF ShapeInv, TypeOK
<1> QED
  BY <1>1, <1>2, Zenon DEF ShapeInv

\* A request goes on to another stage, or ends.
LEMMA StageShapes ==
  ASSUME NEW k \in Task, TaskOK(k)
  PROVE  /\ k.stage = "preflight" => /\ [k EXCEPT !.stage = "evicting"] \in Task
                                     /\ TaskOK([k EXCEPT !.stage = "evicting"])
         /\ k.stage = "evicting" => /\ [k EXCEPT !.stage = "adopting"] \in Task
                                    /\ TaskOK([k EXCEPT !.stage = "adopting"])
         /\ k.stage = "adopting" => \A s \in Sessions :
              LET n == [[k EXCEPT !.stage = "launching"] EXCEPT !.session = s]
              IN n \in Task /\ TaskOK(n)
         /\ k.stage = "launching" => /\ [k EXCEPT !.stage = "launched"] \in Task
                                     /\ TaskOK([k EXCEPT !.stage = "launched"])
         /\ k.stage = "closing" => /\ [k EXCEPT !.stage = "probing"] \in Task
                                   /\ TaskOK([k EXCEPT !.stage = "probing"])
         /\ k.stage = "probing" => /\ [k EXCEPT !.stage = "launching"] \in Task
                                   /\ TaskOK([k EXCEPT !.stage = "launching"])
         /\ k.stage = "stopping" =>
              LET n == [[k EXCEPT !.stage = "stopped"] EXCEPT !.worker = NoWorker]
              IN n \in Task /\ TaskOK(n)
         /\ k.stage = "stopped" /\ k.op = "release" =>
              /\ [k EXCEPT !.stage = "handed"] \in Task /\ TaskOK([k EXCEPT !.stage = "handed"])
              /\ LET n == [[k EXCEPT !.stage = "handed"] EXCEPT !.back = TRUE]
                 IN n \in Task /\ TaskOK(n)
<1>1. CASE k.stage = "preflight"
  BY <1>1, Zenon DEF Task, TaskOK, Stages
<1>2. CASE k.stage = "evicting"
  BY <1>2, Zenon DEF Task, TaskOK, Stages
<1>3. CASE k.stage = "adopting"
  BY <1>3, NameAssumption, Zenon DEF Task, TaskOK, Stages, Launching, Creating, Taking, Ops
<1>4. CASE k.stage = "launching"
  BY <1>4, ZenonT(60) DEF Task, TaskOK, Stages
<1>5. CASE k.stage = "closing"
  BY <1>5, Zenon DEF Task, TaskOK, Stages
<1>6. CASE k.stage = "probing"
  BY <1>6, Zenon DEF Task, TaskOK, Stages, Launching
<1>7. CASE k.stage = "stopping"
  BY <1>7, Constants, ZenonT(60) DEF Task, TaskOK, Stages
<1>8. CASE k.stage = "stopped"
  BY <1>8, Zenon DEF Task, TaskOK, Stages
<1> QED
  BY <1>1, <1>2, <1>3, <1>4, <1>5, <1>6, <1>7, <1>8, Zenon

\* A request that has just been made.
LEMMA RequestShapes ==
  /\ \A s \in Sessions, c \in Commands \cup {None} :
       LET n == [Request("start", s, c) EXCEPT !.stage = "launching"] IN n \in Task /\ TaskOK(n)
  /\ \A v \in Convs, k \in Terminals, c \in Commands \cup {None} :
       LET n == [Request("promote", None, c) EXCEPT !.stage = "preflight", !.conv = v, !.terminal = k]
       IN n \in Task /\ TaskOK(n)
  /\ \A s \in Sessions, w \in Worker, g \in {"stopped", "stopping"} :
       LET n == [Request("stop", s, None) EXCEPT !.worker = w, !.stage = g] IN n \in Task /\ TaskOK(n)
  /\ \A s \in Sessions, v \in Convs, w \in Worker, g \in {"stopped", "stopping"} :
       LET n == [[Request("release", s, None) EXCEPT !.conv = v] EXCEPT !.worker = w, !.stage = g]
       IN n \in Task /\ TaskOK(n)
  /\ \A s \in Sessions, v \in Convs \cup {None}, i \in 0..MaxGen, g \in {"closing", "probing"} :
       i < MaxGen => LET n == [Request("resume", s, None) EXCEPT !.conv = v, !.gen = i, !.stage = g]
                     IN n \in Task /\ TaskOK(n)
<1>1. ASSUME NEW s \in Sessions, NEW c \in Commands \cup {None}
      PROVE  LET n == [Request("start", s, c) EXCEPT !.stage = "launching"]
             IN n \in Task /\ TaskOK(n)
  <2> DEFINE n == [Request("start", s, c) EXCEPT !.stage = "launching"]
  <2>1. n \in Task
    BY <1>1, Constants, Zenon DEF Request, Task, Stages, Ops
  <2>2. TaskOK(n)
    BY <1>1, NameAssumption, Zenon DEF Idle, Request, TaskOK, Taking, Launching, Creating, Ops
  <2> QED
    BY <2>1, <2>2, Zenon
<1>2. ASSUME NEW v \in Convs, NEW k \in Terminals, NEW c \in Commands \cup {None}
      PROVE  LET n == [Request("promote", None, c) EXCEPT !.stage = "preflight", !.conv = v, !.terminal = k]
             IN n \in Task /\ TaskOK(n)
  <2> DEFINE n == [Request("promote", None, c) EXCEPT !.stage = "preflight", !.conv = v, !.terminal = k]
  <2>1. n \in Task
    BY <1>2, Constants, Zenon DEF Request, Task, Stages, Ops
  <2>2. TaskOK(n)
    BY <1>2, NameAssumption, Zenon DEF Idle, Request, TaskOK, Taking, Launching, Creating, Ops
  <2> QED
    BY <2>1, <2>2, Zenon
<1>3. ASSUME NEW s \in Sessions, NEW w \in Worker, NEW g \in {"stopped", "stopping"}
      PROVE  LET n == [Request("stop", s, None) EXCEPT !.worker = w, !.stage = g]
             IN n \in Task /\ TaskOK(n)
  <2> DEFINE n == [Request("stop", s, None) EXCEPT !.worker = w, !.stage = g]
  <2>1. n \in Task
    BY <1>3, Constants, Zenon DEF Request, Task, Stages, Ops
  <2>2. TaskOK(n)
    BY <1>3, NameAssumption, Zenon DEF Idle, Request, TaskOK, Taking, Launching, Creating, Ops
  <2> QED
    BY <2>1, <2>2, Zenon
<1>4. ASSUME NEW s \in Sessions, NEW v \in Convs, NEW w \in Worker, NEW g \in {"stopped", "stopping"}
      PROVE  LET n == [[Request("release", s, None) EXCEPT !.conv = v] EXCEPT !.worker = w, !.stage = g]
             IN n \in Task /\ TaskOK(n)
  <2> DEFINE n == [[Request("release", s, None) EXCEPT !.conv = v] EXCEPT !.worker = w, !.stage = g]
  <2>1. n \in Task
    BY <1>4, Constants, Zenon DEF Request, Task, Stages, Ops
  <2>2. TaskOK(n)
    BY <1>4, NameAssumption, Zenon DEF Idle, Request, TaskOK, Taking, Launching, Creating, Ops
  <2> QED
    BY <2>1, <2>2, Zenon
<1>5. ASSUME NEW s \in Sessions, NEW v \in Convs \cup {None}, NEW i \in 0..MaxGen, i < MaxGen,
             NEW g \in {"closing", "probing"}
      PROVE  LET n == [Request("resume", s, None) EXCEPT !.conv = v, !.gen = i, !.stage = g]
             IN n \in Task /\ TaskOK(n)
  <2> DEFINE n == [Request("resume", s, None) EXCEPT !.conv = v, !.gen = i, !.stage = g]
  <2>1. n \in Task
    BY <1>5, Constants, Zenon DEF Request, Task, Stages, Ops
  <2>2. TaskOK(n)
    BY <1>5, NameAssumption, Zenon DEF Idle, Request, TaskOK, Taking, Launching, Creating, Ops
  <2> QED
    BY <2>1, <2>2, Zenon
<1> QED
  BY <1>1, <1>2, <1>3, <1>4, <1>5, Zenon

\* Records that one of its actions wrote.
LEMMA RecordShapes ==
  ASSUME NEW r \in Record
  PROVE  /\ \A x \in Reasons : StoredAs(r, x) \in Record
         /\ ExitRecorded(r) \in Record /\ OwnedElsewhere(r) \in Record
         /\ \A v \in Convs \cup {None} : [r EXCEPT !.conv = v] \in Record
         /\ \A b \in BOOLEAN : [StoredAs(r, "released") EXCEPT !.external = TRUE, !.handback = b] \in Record
         /\ \A v \in Convs \cup {None}, c \in Commands \cup {None} :
              [NoRecord EXCEPT !.presence = "live", !.conv = v, !.gen = 1, !.by = c] \in Record
         /\ \A i \in 0..MaxGen : i < MaxGen =>
              [r EXCEPT !.presence = "live", !.reason = "none", !.external = FALSE,
                        !.handback = FALSE, !.gen = i + 1] \in Record
<1>1. \A x \in Reasons : StoredAs(r, x) \in Record
  BY Zenon DEF StoredAs, Record
<1>2. ExitRecorded(r) \in Record /\ OwnedElsewhere(r) \in Record
  BY <1>1, ZenonT(60) DEF ExitRecorded, OwnedElsewhere, Record, Reasons
<1>3. \A v \in Convs \cup {None} : [r EXCEPT !.conv = v] \in Record
  BY Zenon DEF Record
<1>4. \A b \in BOOLEAN : [StoredAs(r, "released") EXCEPT !.external = TRUE, !.handback = b] \in Record
  BY <1>1, Zenon DEF Record, Reasons
<1>5. \A v \in Convs \cup {None}, c \in Commands \cup {None} :
        [NoRecord EXCEPT !.presence = "live", !.conv = v, !.gen = 1, !.by = c] \in Record
  <2>1. 1 \in 0..MaxGen
    BY BoundAssumption
  <2> QED
    BY <2>1, Constants, Zenon DEF Record
<1>6. \A i \in 0..MaxGen : i < MaxGen =>
        [r EXCEPT !.presence = "live", !.reason = "none", !.external = FALSE,
                  !.handback = FALSE, !.gen = i + 1] \in Record
  <2>1. \A i \in 0..MaxGen : i < MaxGen => i + 1 \in 0..MaxGen
    BY BoundAssumption
  <2> QED
    BY <2>1, Zenon DEF Record, Reasons
<1> QED
  BY <1>1, <1>2, <1>3, <1>4, <1>5, <1>6, Zenon

\* What a written record keeps.
Kept(q, r) == q.by = r.by /\ q.conv = r.conv /\ (q.presence = "none" <=> r.presence = "none")

\* Only its presence, its reason and its flags change.
LEMMA RecordKept ==
  ASSUME NEW r \in Record
  PROVE  /\ Kept(ExitRecorded(r), r) /\ Kept(OwnedElsewhere(r), r)
         /\ r.presence # "none" =>
              /\ \A x \in Reasons : Kept(StoredAs(r, x), r)
              /\ \A b \in BOOLEAN :
                   Kept([StoredAs(r, "released") EXCEPT !.external = TRUE, !.handback = b], r)
              /\ \A i : LET q == [r EXCEPT !.presence = "live", !.reason = "none", !.external = FALSE,
                                           !.handback = FALSE, !.gen = i]
                       IN Kept(q, r) /\ q.presence = "live"
BY Zenon DEF Kept, Record, StoredAs, ExitRecorded, OwnedElsewhere

\* What the types say of a request and of a session.
LEMMA Fields ==
  ASSUME ShapeInv
  PROVE  /\ \A t \in AllTasks :
              /\ task[t] \in Task /\ TaskOK(task[t]) /\ task[t].cmd \in Commands \cup {None}
              /\ task[t].conv \in Convs \cup {None} /\ task[t].session \in Sessions \cup {None}
              /\ task[t].gen \in 0..MaxGen /\ task[t].back \in BOOLEAN
         /\ rec \in [Sessions -> Record] /\ \A s \in Sessions : rec[s] \in Record
         /\ \A s \in Sessions : rec[s].conv \in Convs \cup {None} /\ rec[s].gen \in 0..MaxGen
         /\ \A s \in Sessions : table[s] \in Worker
<1>1. \A t \in AllTasks : task[t] \in Task /\ TaskOK(task[t])
  BY Zenon DEF ShapeInv, TypeOK
<1>2. rec \in [Sessions -> Record]
  BY Zenon DEF ShapeInv, TypeOK, Store, rec
<1>3. \A s \in Sessions : rec[s].conv \in Convs \cup {None} /\ rec[s].gen \in 0..MaxGen
  BY <1>2, Zenon DEF Record
<1>4. \A s \in Sessions : table[s] \in Worker
  BY Zenon DEF ShapeInv, TypeOK
<1> QED
  BY <1>1, <1>2, <1>3, <1>4, Zenon DEF Task

\* A request that ends, with the records it writes.
LEMMA FinishShape ==
  ASSUME ShapeInv, NEW t \in AllTasks, task' = [task EXCEPT ![t] = Idle],
         NEW R \in [Sessions -> Record], NEW c \in Commands \cup {None}, Answered(R, c),
         UNCHANGED <<drawn, begun, table, terms, monitor>>, owed' \subseteq Sessions
  PROVE  ShapeInv'
<1>1. store' \in Store /\ file' \in Store
  BY AnsweredType, Zenon DEF ShapeInv, TypeOK
<1>2. /\ drawn' \subseteq Sessions /\ owed' \subseteq Sessions /\ UNCHANGED <<begun, monitor>>
      /\ table' \in [Sessions -> Worker] /\ terms' \in [Convs -> SUBSET Terminals]
  BY Zenon DEF ShapeInv, TypeOK
<1> QED
  BY <1>1, <1>2, Constants, ShapeStep, Zenon

\* ... and with the world as it was.
LEMMA EndShape ==
  ASSUME ShapeInv, NEW t \in AllTasks, task' = [task EXCEPT ![t] = Idle],
         NEW R \in [Sessions -> Record], NEW c \in Commands \cup {None}, Answered(R, c), UNCHANGED world
  PROVE  ShapeInv'
BY FinishShape, Zenon DEF ShapeInv, TypeOK, world

\* A resume begins, asked for or owed.
LEMMA ResumeShape ==
  ASSUME ShapeInv, NEW t \in AllTasks, NEW s \in Sessions, Resume(t, s),
         UNCHANGED <<drawn, begun, table, terms, monitor>>, owed' \subseteq Sessions
  PROVE  ShapeInv'
<1>1. CASE Resumable(s)
  <2> DEFINE g == IF HandedBack(s) /\ rec[s].handback THEN "closing" ELSE "probing"
             n == [Request("resume", s, None) EXCEPT !.conv = rec[s].conv, !.gen = rec[s].gen, !.stage = g]
  <2>1. n \in Task /\ TaskOK(n)
    BY RequestShapes, Fields, Zenon DEF Resume
  <2>2. task' = [task EXCEPT ![t] = n] /\ UNCHANGED <<store, file>>
    BY <1>1, Zenon DEF Resume
  <2> HIDE DEF n
  <2> QED
    BY <2>1, <2>2, ShapeStep, Zenon DEF ShapeInv, TypeOK
<1>2. CASE ~Resumable(s)
  BY <1>2, FinishShape, Fields, Zenon DEF Resume, Refused
<1> QED
  BY <1>1, <1>2, Zenon

\* The requests begin.
LEMMA AskShape ==
  ASSUME ShapeInv, NEW t \in AllTasks, Ask(t)
  PROVE  ShapeInv'
<1> USE Fields
<1>1. ASSUME NEW c \in Commands \cup {None}, NEW s \in Sessions, Start(t, c, s)
      PROVE  ShapeInv'
  BY <1>1, RequestShapes, ShapeStep, Zenon DEF Start, Begin, ShapeInv, TypeOK
<1>2. ASSUME NEW c \in Commands \cup {None}, NEW v \in Convs, NEW k \in Terminals, Promote(t, c, v, k)
      PROVE  ShapeInv'
  BY <1>2, RequestShapes, ShapeStep, Zenon DEF Promote, Begin, ShapeInv, TypeOK, world
<1>3. ASSUME NEW s \in Sessions, Release(t, s)
      PROVE  ShapeInv'
  <2>1. CASE rec[s].conv # None
    <3> DEFINE g == IF table[s] = NoWorker THEN "stopped" ELSE "stopping"
               n == [[Request("release", s, None) EXCEPT !.conv = rec[s].conv] EXCEPT
                       !.worker = table[s], !.stage = g]
    <3>1. n \in Task /\ TaskOK(n)
      BY <2>1, RequestShapes, Zenon
    <3>2. [Request("release", s, None) EXCEPT !.conv = rec[s].conv].session = s
      BY Zenon DEF Request, Idle
    <3>3. /\ task' = [task EXCEPT ![t] = n] /\ table' = [table EXCEPT ![s] = NoWorker]
          /\ UNCHANGED <<store, file, drawn, begun, terms, monitor, owed>>
      BY <1>3, <2>1, <3>2, Zenon DEF Release, Taken
    <3> HIDE DEF n
    <3> QED
      BY <3>1, <3>3, ShapeStep, Constants, Zenon DEF ShapeInv, TypeOK
  <2>2. CASE rec[s].conv = None
    BY <1>3, <2>2, EndShape, Zenon DEF Release, Refused
  <2> QED
    BY <2>1, <2>2, Zenon
<1>4. ASSUME NEW s \in Sessions, ResumeRequest(t, s)
      PROVE  ShapeInv'
  BY <1>4, ResumeShape, Zenon DEF ResumeRequest, world, ShapeInv, TypeOK
<1>5. ASSUME NEW s \in Sessions, NEW i \in 1..MaxGen, Stop(t, s, i)
      PROVE  ShapeInv'
  <2>1. CASE Live(s) /\ rec[s].gen = i
    <3> DEFINE g == IF table[s] = NoWorker THEN "stopped" ELSE "stopping"
               n == [Request("stop", s, None) EXCEPT !.worker = table[s], !.stage = g]
    <3>1. n \in Task /\ TaskOK(n)
      BY <2>1, RequestShapes, Zenon
    <3>2. Request("stop", s, None).session = s
      BY Zenon DEF Request, Idle
    <3>3. /\ task' = [task EXCEPT ![t] = n] /\ table' = [table EXCEPT ![s] = NoWorker]
          /\ UNCHANGED <<store, file, drawn, begun, terms, monitor, owed>>
      BY <1>5, <2>1, <3>2, Zenon DEF Stop, Taken
    <3> HIDE DEF n
    <3> QED
      BY <3>1, <3>3, ShapeStep, Constants, Zenon DEF ShapeInv, TypeOK
  <2>2. CASE ~(Live(s) /\ rec[s].gen = i)
    BY <1>5, <2>2, EndShape, Zenon DEF Stop, Refused
  <2> QED
    BY <2>1, <2>2, Zenon
<1> QED
  BY <1>1, <1>2, <1>3, <1>4, <1>5, Zenon DEF Ask

\* The requests go on.
LEMMA ProceedShape ==
  ASSUME ShapeInv, NEW t \in AllTasks, Proceed(t)
  PROVE  ShapeInv'
<1> USE Fields
<1>1. CASE Launch(t)
  <2>1. [state |-> "running", conv |-> task[t].conv] \in Worker
    BY Zenon DEF Worker
  <2>2. table' \in [Sessions -> Worker]
    BY <1>1, <2>1, Zenon DEF Launch, ShapeInv, TypeOK
  <2> QED
    BY <1>1, <2>2, StageShapes, ShapeStep, Zenon DEF Launch, Step, To, ShapeInv, TypeOK
<1>2. CASE LaunchRefused(t) \/ ProbeRefused(t)
  BY <1>2, EndShape, Zenon DEF LaunchRefused, ProbeRefused, Refused
<1>3. CASE Started(t)
  <2> DEFINE r == [NoRecord EXCEPT !.presence = "live", !.conv = task[t].conv, !.gen = 1, !.by = task[t].cmd]
             R == IF Cardinality(Known) >= MaxRecords THEN rec ELSE [rec EXCEPT ![task[t].session] = r]
  <2>1. r \in Record
    BY RecordShapes, Constants, Zenon
  <2> HIDE DEF r
  <2>2. R \in [Sessions -> Record]
    BY <2>1, Zenon
  <2>3. task' = [task EXCEPT ![t] = Idle] /\ Answered(R, task[t].cmd) /\ UNCHANGED world
    BY <1>3, Zenon DEF Started, Step, r
  <2> QED
    BY <2>2, <2>3, EndShape, Zenon
<1>4. CASE Preflight(t)
  <2>1. task' = [task EXCEPT ![t] = Idle] \/ task' = [task EXCEPT ![t] = To(t, "evicting")]
    BY <1>4, Zenon DEF Preflight, Step
  <2> QED
    BY <1>4, <2>1, StageShapes, Constants, ShapeStep, Zenon DEF Preflight, Step, To, ShapeInv, TypeOK, world
<1>5. CASE Evict(t)
  <2>1. terms' \in [Convs -> SUBSET Terminals]
    BY <1>5, Zenon DEF Evict, ShapeInv, TypeOK
  <2> QED
    BY <1>5, <2>1, StageShapes, ShapeStep, Zenon DEF Evict, Step, To, ShapeInv, TypeOK
<1>6. CASE EvictFails(t)
  BY <1>6, Constants, ShapeStep, Zenon DEF EvictFails, Step, ShapeInv, TypeOK, world
<1>7. ASSUME NEW s \in Sessions, Adopt(t, s)
      PROVE  ShapeInv'
  BY <1>7, StageShapes, ShapeStep, Zenon DEF Adopt, Step, To, ShapeInv, TypeOK
<1>8. CASE AdoptRefused(t)
  <2>1. CASE Refused(t, task[t].cmd)
    BY <1>8, <2>1, EndShape, Zenon DEF AdoptRefused, Refused
  <2>2. CASE Step(t, "adopting", Idle) /\ UNCHANGED <<store, file>>
    BY <1>8, <2>2, Constants, ShapeStep, Zenon DEF AdoptRefused, Step, ShapeInv, TypeOK, world
  <2> QED
    BY <1>8, <2>1, <2>2, Zenon DEF AdoptRefused
<1>9. CASE Terminated(t)
  BY <1>9, StageShapes, ShapeStep, Zenon DEF Terminated, Step, To, ShapeInv, TypeOK, world
<1>10. CASE Stopped(t)
  <2> DEFINE s == task[t].session
             R == IF s \in Known THEN [rec EXCEPT ![s] = StoredAs(rec[s], "ended")] ELSE rec
  <2>1. R \in [Sessions -> Record]
    BY RecordShapes, Zenon DEF Known, Reasons
  <2> QED
    BY <1>10, <2>1, EndShape, Zenon DEF Stopped, Step
<1>11. CASE HandBack(t)
  <2>1. terms' \in [Convs -> SUBSET Terminals]
    BY <1>11 DEF HandBack, ShapeInv, TypeOK, Terminals, Step, TaskOK, Taking
  <2>2. \/ task' = [task EXCEPT ![t] = [To(t, "handed") EXCEPT !.back = TRUE]]
        \/ task' = [task EXCEPT ![t] = To(t, "handed")]
    BY <1>11, Zenon DEF HandBack, Step
  <2>3. task[t].op = "release" /\ task[t].stage = "stopped"
    BY <1>11, Zenon DEF HandBack, Step
  <2> QED
    BY <1>11, <2>1, <2>2, <2>3, StageShapes, ShapeStep, Zenon DEF HandBack, To, ShapeInv, TypeOK
<1>12. CASE Released(t)
  <2> DEFINE s == task[t].session
             r == [StoredAs(rec[s], "released") EXCEPT !.external = TRUE, !.handback = task[t].back]
             R == IF s \in Known THEN [rec EXCEPT ![s] = r] ELSE rec
  <2>1. s \in Known => r \in Record
    BY RecordShapes, Zenon DEF Known
  <2> HIDE DEF r
  <2>2. R \in [Sessions -> Record]
    BY <2>1, Zenon
  <2>3. task' = [task EXCEPT ![t] = Idle] /\ Answered(R, task[t].cmd) /\ UNCHANGED world
    BY <1>12, Zenon DEF Released, Step, r
  <2> QED
    BY <2>2, <2>3, EndShape, Zenon
<1>13. CASE Close(t)
  <2>1. terms' \in [Convs -> SUBSET Terminals]
    BY <1>13, Zenon DEF Close, ShapeInv, TypeOK
  <2> QED
    BY <1>13, <2>1, StageShapes, ShapeStep, Zenon DEF Close, Step, To, ShapeInv, TypeOK
<1>14. CASE Probe(t)
  BY <1>14, StageShapes, ShapeStep, Zenon DEF Probe, Step, To, ShapeInv, TypeOK, world
<1>15. CASE Resumed(t)
  <2> DEFINE s == task[t].session
             r == [rec[s] EXCEPT !.presence = "live", !.reason = "none", !.external = FALSE,
                                 !.handback = FALSE, !.gen = task[t].gen + 1]
             R == IF s \in Known THEN [rec EXCEPT ![s] = r] ELSE rec
  <2>1. s \in Known => r \in Record
    BY <1>15, RecordShapes, Zenon DEF Known, Resumed, TaskOK
  <2> HIDE DEF r
  <2>2. R \in [Sessions -> Record]
    BY <2>1, Zenon
  <2>3. task' = [task EXCEPT ![t] = Idle] /\ Answered(R, task[t].cmd) /\ UNCHANGED world
    BY <1>15, Zenon DEF Resumed, Step, r
  <2> QED
    BY <2>2, <2>3, EndShape, Zenon
<1> QED
  BY Zenon, <1>1, <1>2, <1>3, <1>4, <1>5, <1>6, <1>7, <1>8, <1>9, <1>10, <1>11, <1>12, <1>13, <1>14, <1>15
  DEF Proceed

\* Steps that leave the requests alone.
LEMMA ShapeRest ==
  ASSUME ShapeInv, UNCHANGED task, store' \in Store, file' \in Store, UNCHANGED drawn,
         begun' \subseteq Convs, UNCHANGED owed, table' \in [Sessions -> Worker],
         terms' \in [Convs -> SUBSET Terminals], monitor' \in Monitor, MonitorOK(monitor')
  PROVE  ShapeInv'
BY Zenon DEF ShapeInv, TypeOK

\* The workers, the terminals, the monitor and the restart.
LEMMA WorldShape ==
  ASSUME ShapeInv,
         \/ \E s \in Sessions : Forget(s) \/ Recover(s) \/ WorkerExits(s)
         \/ \E s \in Sessions, v \in Convs : FirstTurn(s, v)
         \/ \E v \in Convs : OpenTerminal(v) \/ \E k \in Terminals : CloseTerminal(v, k)
         \/ Monitoring \/ Restart
  PROVE  ShapeInv'
<1> USE Fields
<1>0. /\ store \in Store /\ file \in Store /\ begun \subseteq Convs /\ monitor \in Monitor
      /\ table \in [Sessions -> Worker] /\ terms \in [Convs -> SUBSET Terminals] /\ MonitorOK(monitor)
      /\ store.answered \subseteq Commands /\ monitor.found \subseteq Sessions
  BY Zenon DEF ShapeInv, TypeOK, Store, Monitor
<1>1. ASSUME NEW s \in Sessions, Forget(s) PROVE ShapeInv'
  <2> DEFINE R == IF Live(s) THEN rec ELSE [rec EXCEPT ![s] = NoRecord]
  <2>1. R \in [Sessions -> Record]
    BY Constants, Zenon
  <2>2. store' \in Store /\ file' \in Store
    BY <1>0, <1>1, <2>1, AnsweredType, Zenon DEF Forget
  <2> QED
    BY <1>0, <1>1, <2>2, ShapeRest, Zenon DEF Forget, world
<1>2. ASSUME NEW s \in Sessions, Recover(s) PROVE ShapeInv'
  BY <1>2, ResumeShape, Zenon DEF Recover, AllTasks, ShapeInv, TypeOK
<1>3. ASSUME NEW s \in Sessions, WorkerExits(s) PROVE ShapeInv'
  <2>1. table' \in [Sessions -> Worker]
    BY <1>3, Zenon DEF WorkerExits, ShapeInv, TypeOK, Worker
  <2> QED
    BY <1>0, <1>3, <2>1, ShapeRest, Zenon DEF WorkerExits
<1>4. ASSUME NEW s \in Sessions, NEW v \in Convs, FirstTurn(s, v) PROVE ShapeInv'
  <2>1. table' \in [Sessions -> Worker]
    BY <1>4, ZenonT(60) DEF FirstTurn, ShapeInv, TypeOK, Worker
  <2>2. [rec[s] EXCEPT !.conv = v] \in Record
    BY RecordShapes, Zenon
  <2>3. [store EXCEPT !.records[s].conv = v] \in Store
    BY <1>0, <2>2, Zenon DEF Store, rec
  <2>4. store' \in Store /\ file' \in Store
    BY <1>0, <1>4, <2>3, SavedType, Zenon DEF FirstTurn
  <2> QED
    BY <1>0, <1>4, <2>1, <2>4, ShapeRest, Zenon DEF FirstTurn
<1>5. ASSUME NEW v \in Convs, OpenTerminal(v) PROVE ShapeInv'
  <2>1. terms' \in [Convs -> SUBSET Terminals]
    BY <1>0, <1>5, Zenon DEF OpenTerminal, Terminals
  <2> QED
    BY <1>0, <1>5, <2>1, ShapeRest, Zenon DEF OpenTerminal
<1>6. ASSUME NEW v \in Convs, NEW k \in Terminals, CloseTerminal(v, k) PROVE ShapeInv'
  <2>1. terms' \in [Convs -> SUBSET Terminals]
    BY <1>0, <1>6, Zenon DEF CloseTerminal
  <2> QED
    BY <1>0, <1>6, <2>1, ShapeRest, Zenon DEF CloseTerminal
<1>7. CASE Watch
  <2>1. AfterReap \in [Sessions -> Record]
    BY RecordShapes, Zenon DEF AfterReap
  <2>2. [store EXCEPT !.records = AfterReap] \in Store
    BY <1>0, <2>1, Zenon DEF Store
  <2>3. store' \in Store /\ file' \in Store
    BY <1>0, <1>7, <2>2, SavedType, Zenon DEF Watch
  <2>4. table' \in [Sessions -> Worker]
    BY <1>7, Constants, Zenon DEF Watch
  <2>5. Shared(AfterReap) \subseteq Sessions
    BY Zenon DEF Shared
  <2>6. [Watching EXCEPT !.stage = "yield", !.found = Shared(AfterReap)] \in Monitor
    BY <2>5, Constants, Zenon DEF Monitor
  <2>7. MonitorOK([Watching EXCEPT !.stage = "yield", !.found = Shared(AfterReap)])
    BY Zenon DEF MonitorOK, Watching
  <2>8. monitor' \in Monitor /\ MonitorOK(monitor')
    BY <1>7, <2>6, <2>7, Constants, Zenon DEF Watch
  <2> QED
    BY <1>0, <1>7, <2>3, <2>4, <2>8, ShapeRest, Zenon DEF Watch
<1>8. CASE Yielded
  <2> DEFINE s == monitor.session
             r == OwnedElsewhere(ExitRecorded(rec[s]))
             g == IF monitor.found = {} THEN "watch" ELSE "yield"
  <2>1. s \in Sessions
    BY <1>0, <1>8, Zenon DEF Yielded, MonitorOK
  <2>2. r \in Record
    BY <2>1, RecordShapes, Zenon
  <2>3. [store EXCEPT !.records[s] = r] \in Store
    BY <1>0, <2>2, Zenon DEF Store, rec
  <2>4. store' \in Store /\ file' \in Store
    BY <1>0, <1>8, <2>3, SavedType, Zenon DEF Yielded, rec
  <2>5. monitor' = [Watching EXCEPT !.stage = g, !.found = monitor.found]
    BY <1>8, Zenon DEF Yielded
  <2>6. monitor' \in Monitor
    BY <1>0, <2>5, Constants, Zenon DEF Monitor
  <2>7. MonitorOK(monitor')
    BY <2>5, Zenon DEF MonitorOK, Watching
  <2> QED
    BY <1>0, <1>8, <2>4, <2>6, <2>7, ShapeRest, Zenon DEF Yielded
<1>9. ASSUME NEW s \in Sessions, Yield(s) PROVE ShapeInv'
  <2>1. monitor' \in Monitor /\ MonitorOK(monitor') /\ table' \in [Sessions -> Worker]
    BY <1>0, <1>9, Constants, Zenon DEF Yield, Monitor, MonitorOK
  <2> QED
    BY <1>0, <1>9, <2>1, ShapeRest, Zenon DEF Yield
<1>10. CASE Restart
  <2> DEFINE lost == {s \in Sessions : file.records[s].presence = "live"}
             R == [s \in Sessions |-> IF s \in lost THEN StoredAs(file.records[s], "ended")
                                      ELSE file.records[s]]
  <2>1. file.records \in [Sessions -> Record]
    BY <1>0, Zenon DEF Store
  <2>2. R \in [Sessions -> Record]
    BY <2>1, RecordShapes, Zenon DEF Reasons
  <2>3. [file EXCEPT !.records = R] \in Store
    BY <1>0, <2>2, Zenon DEF Store
  <2>4. store' = [file EXCEPT !.records = R] /\ file' = store' /\ owed' \subseteq Sessions
    BY <1>10, Zenon DEF Restart
  <2>5. /\ table' \in [Sessions -> Worker] /\ monitor' = Watching /\ UNCHANGED <<drawn, begun, terms>>
        /\ task' \in [AllTasks -> Task] /\ \A t \in AllTasks : TaskOK(task'[t])
    BY <1>10, Constants, Zenon DEF Restart
  <2> QED
    BY <2>3, <2>4, <2>5, Constants, Zenon DEF ShapeInv, TypeOK
<1> QED
  BY <1>1, <1>2, <1>3, <1>4, <1>5, <1>6, <1>7, <1>8, <1>9, <1>10, Zenon DEF Monitoring

\* Types and shapes are kept.
LEMMA ShapeNext == ShapeInv /\ [Next]_vars => ShapeInv'
<1> SUFFICES ASSUME ShapeInv, [Next]_vars PROVE ShapeInv'
  BY Zenon
<1>1. CASE \E t \in Tasks : Ask(t)
  BY <1>1, AskShape, Zenon DEF AllTasks
<1>2. CASE \E t \in AllTasks : Proceed(t)
  BY <1>2, ProceedShape, Zenon
<1>3. CASE UNCHANGED vars
  BY <1>3, Zenon DEF vars, ShapeInv, TypeOK
<1> QED
  BY <1>1, <1>2, <1>3, WorldShape, Zenon DEF Next

\* The initial state has its types and shapes.
LEMMA ShapeInit == Init => ShapeInv
<1> SUFFICES ASSUME Init PROVE ShapeInv
  BY Zenon
<1>1. store \in Store
  BY Constants, Zenon DEF Init, Store
<1> QED
  BY <1>1, Constants, Zenon DEF Init, ShapeInv, TypeOK
-----------------------------------------------------------------------------
(* Live sessions *)

\* The records an answer leaves.
LEMMA AnsweredStore ==
  ASSUME NEW R, NEW c, Answered(R, c)
  PROVE  /\ rec' = R /\ store'.records = R
         /\ store'.answered = store.answered \cup ({c} \ {None})
         /\ file' = store' \/ file' = file
BY Zenon DEF Answered, Saved, rec

Clean(r) == r.presence = "live" => r.reason = "none" /\ ~r.external /\ ~r.handback

\* Each record an action writes is clean.
LEMMA CleanRecords ==
  /\ Clean(NoRecord)
  /\ \A r \in Record, x \in Reasons : Clean(StoredAs(r, x))
  /\ \A r \in Record : Clean(r) => Clean(ExitRecorded(r)) /\ Clean(OwnedElsewhere(r))
  /\ \A r \in Record : \A v : Clean(r) => Clean([r EXCEPT !.conv = v])
  /\ \A r \in Record, b \in BOOLEAN :
       Clean([StoredAs(r, "released") EXCEPT !.external = TRUE, !.handback = b])
  /\ \A v, c : Clean([NoRecord EXCEPT !.presence = "live", !.conv = v, !.gen = 1, !.by = c])
  /\ \A r \in Record : \A i :
       Clean([r EXCEPT !.presence = "live", !.reason = "none", !.external = FALSE,
                       !.handback = FALSE, !.gen = i])
<1>1. Clean(NoRecord) /\ \A v, c : Clean([NoRecord EXCEPT !.presence = "live", !.conv = v, !.gen = 1, !.by = c])
  BY Zenon DEF Clean, NoRecord
<1>2. \A r \in Record, x \in Reasons : Clean(StoredAs(r, x)) /\ StoredAs(r, x).presence = "stored"
  BY Zenon DEF Clean, Record, StoredAs
<1>3. \A r \in Record : Clean(r) => Clean(ExitRecorded(r)) /\ Clean(OwnedElsewhere(r))
  BY <1>2, ZenonT(60) DEF Clean, Record, ExitRecorded, OwnedElsewhere, Reasons
<1>4. \A r \in Record : \A v : Clean(r) => Clean([r EXCEPT !.conv = v])
  BY Zenon DEF Clean, Record
<1>5. \A r \in Record, b \in BOOLEAN :
       Clean([StoredAs(r, "released") EXCEPT !.external = TRUE, !.handback = b])
  BY Zenon DEF Clean, Record, StoredAs
<1>6. \A r \in Record : \A i :
       Clean([r EXCEPT !.presence = "live", !.reason = "none", !.external = FALSE,
                       !.handback = FALSE, !.gen = i])
  BY Zenon DEF Clean, Record
<1> QED
  BY <1>1, <1>2, <1>3, <1>4, <1>5, <1>6, Zenon

\* One record is written, or none.
LEMMA CleanStep ==
  ASSUME ShapeInv, LiveIsClean,
         \/ rec' = rec
         \/ \E s \in Sessions, r \in Record : Clean(r) /\ rec' = [rec EXCEPT ![s] = r]
  PROVE  LiveIsClean'
BY Fields, Zenon DEF LiveIsClean, Live, Clean

\* No step makes a live session anything but clean.
LEMMA CleanNext == ShapeInv /\ LiveIsClean /\ [Next]_vars => LiveIsClean'
<1> SUFFICES ASSUME ShapeInv, LiveIsClean, [Next]_vars PROVE LiveIsClean'
  BY Zenon
<1> USE Fields
<1>0. \A s \in Sessions : Clean(rec[s])
  BY Zenon DEF LiveIsClean, Live, Clean
<1>1. CASE UNCHANGED store
  BY <1>1, CleanStep, Zenon DEF rec
<1>2. ASSUME NEW c, Answered(rec, c)
      PROVE  LiveIsClean'
  BY <1>2, AnsweredStore, CleanStep, Zenon
<1>3. ASSUME NEW t \in AllTasks, Started(t) PROVE LiveIsClean'
  <2> DEFINE r == [NoRecord EXCEPT !.presence = "live", !.conv = task[t].conv, !.gen = 1, !.by = task[t].cmd]
             s == task[t].session
  <2>1. r \in Record /\ Clean(r)
    BY RecordShapes, CleanRecords, Constants, Zenon
  <2>2. s \in Sessions
    BY <1>3, Zenon DEF Started, Step, TaskOK
  <2>3. rec' = rec \/ rec' = [rec EXCEPT ![s] = r]
    BY <1>3, AnsweredStore, Zenon DEF Started
  <2> HIDE DEF r
  <2> QED
    BY <2>1, <2>2, <2>3, CleanStep, Zenon
<1>4. ASSUME NEW t \in AllTasks, Stopped(t) PROVE LiveIsClean'
  <2> DEFINE s == task[t].session
             r == StoredAs(rec[s], "ended")
  <2>1. s \in Sessions
    BY <1>4, Zenon DEF Stopped, Step, TaskOK, Taking
  <2>2. r \in Record /\ Clean(r)
    BY <2>1, RecordShapes, CleanRecords, Zenon DEF Reasons
  <2>3. rec' = rec \/ rec' = [rec EXCEPT ![s] = r]
    BY <1>4, AnsweredStore, Zenon DEF Stopped
  <2> HIDE DEF r
  <2> QED
    BY <2>1, <2>2, <2>3, CleanStep, Zenon
<1>5. ASSUME NEW t \in AllTasks, Released(t) PROVE LiveIsClean'
  <2> DEFINE s == task[t].session
             r == [StoredAs(rec[s], "released") EXCEPT !.external = TRUE, !.handback = task[t].back]
  <2>1. s \in Sessions
    BY <1>5, Zenon DEF Released, Step, TaskOK, Taking
  <2>2. r \in Record /\ Clean(r)
    BY <2>1, RecordShapes, CleanRecords, Zenon
  <2>3. rec' = rec \/ rec' = [rec EXCEPT ![s] = r]
    BY <1>5, AnsweredStore, Zenon DEF Released
  <2> HIDE DEF r
  <2> QED
    BY <2>1, <2>2, <2>3, CleanStep, Zenon
<1>6. ASSUME NEW t \in AllTasks, Resumed(t) PROVE LiveIsClean'
  <2> DEFINE s == task[t].session
             r == [rec[s] EXCEPT !.presence = "live", !.reason = "none", !.external = FALSE,
                                 !.handback = FALSE, !.gen = task[t].gen + 1]
  <2>1. s \in Sessions /\ task[t].gen < MaxGen
    BY <1>6, Zenon DEF Resumed, Step, TaskOK
  <2>2. r \in Record /\ Clean(r)
    BY <2>1, RecordShapes, CleanRecords, Zenon
  <2>3. rec' = rec \/ rec' = [rec EXCEPT ![s] = r]
    BY <1>6, AnsweredStore, Zenon DEF Resumed
  <2> HIDE DEF r
  <2> QED
    BY <2>1, <2>2, <2>3, CleanStep, Zenon
<1>7. ASSUME NEW s \in Sessions, Forget(s) PROVE LiveIsClean'
  <2>1. rec' = rec \/ rec' = [rec EXCEPT ![s] = NoRecord]
    BY <1>7, AnsweredStore, Zenon DEF Forget
  <2> QED
    BY <2>1, CleanStep, CleanRecords, Constants, Zenon
<1>8. ASSUME NEW s \in Sessions, NEW v \in Convs, FirstTurn(s, v) PROVE LiveIsClean'
  <2> DEFINE r == [rec[s] EXCEPT !.conv = v]
  <2>1. r \in Record /\ Clean(r)
    BY <1>0, RecordShapes, CleanRecords, Zenon
  <2>2. rec' = rec \/ rec' = [rec EXCEPT ![s] = r]
    BY <1>8, Zenon DEF FirstTurn, Saved, rec, ShapeInv, TypeOK, Store
  <2> HIDE DEF r
  <2> QED
    BY <2>1, <2>2, CleanStep, Zenon
<1>9. CASE Watch
  <2>1. rec' = rec \/ rec' = AfterReap
    BY <1>9, Zenon DEF Watch, Saved, rec, ShapeInv, TypeOK, Store
  <2>2. \A s \in Sessions : Clean(AfterReap[s])
    BY <1>0, CleanRecords, Zenon DEF AfterReap
  <2> QED
    BY <2>1, <2>2, CleanStep, Zenon DEF LiveIsClean, Live, Clean
<1>10. CASE Yielded
  <2> DEFINE s == monitor.session
             r == OwnedElsewhere(ExitRecorded(rec[s]))
  <2>1. s \in Sessions
    BY <1>10, Zenon DEF Yielded, MonitorOK, ShapeInv
  <2>2. ExitRecorded(rec[s]) \in Record /\ Clean(ExitRecorded(rec[s]))
    BY <1>0, <2>1, RecordShapes, CleanRecords, Zenon
  <2>3. r \in Record /\ Clean(r)
    BY <2>2, RecordShapes, CleanRecords, Zenon
  <2>4. rec' = [rec EXCEPT ![s] = r]
    BY <1>10, Zenon DEF Yielded, Saved, rec, ShapeInv, TypeOK, Store
  <2> HIDE DEF r
  <2> QED
    BY <2>1, <2>3, <2>4, CleanStep, Zenon
<1>11. CASE Restart
  <2>1. file.records \in [Sessions -> Record]
    BY Zenon DEF ShapeInv, TypeOK, Store
  <2>2. rec' = [s \in Sessions |-> IF file.records[s].presence = "live"
                                   THEN StoredAs(file.records[s], "ended") ELSE file.records[s]]
    BY <1>11, Zenon DEF Restart, rec, ShapeInv, TypeOK, Store
  <2>3. \A s \in Sessions : StoredAs(file.records[s], "ended").presence = "stored"
    BY <2>1, Zenon DEF StoredAs, Record
  <2> QED
    BY <2>2, <2>3, Zenon DEF LiveIsClean, Live
<1>12. ASSUME NEW t \in AllTasks, NEW s \in Sessions, Resume(t, s) PROVE LiveIsClean'
  BY <1>1, <1>2, <1>12, Zenon DEF Resume, Refused
<1>13. ASSUME NEW t \in AllTasks, Ask(t) PROVE LiveIsClean'
  BY Zenon, <1>1, <1>2, <1>12, <1>13
  DEF Ask, Start, Promote, Release, ResumeRequest, Stop, Refused
<1>14. ASSUME NEW t \in AllTasks, Proceed(t) PROVE LiveIsClean'
  BY Zenon, <1>1, <1>2, <1>3, <1>4, <1>5, <1>6, <1>14
  DEF Proceed, Launch, LaunchRefused, Preflight, Evict, EvictFails, Adopt, AdoptRefused, Terminated,
      HandBack, Close, Probe, ProbeRefused, Refused
<1>15. ASSUME NEW s \in Sessions, Recover(s) PROVE LiveIsClean'
  BY <1>12, <1>15, Zenon DEF Recover, AllTasks
<1> QED
  BY Zenon, <1>1, <1>7, <1>8, <1>9, <1>10, <1>11, <1>13, <1>14, <1>15
  DEF Next, Monitoring, WorkerExits, OpenTerminal, CloseTerminal, Yield, AllTasks, vars

\* LiveIsClean of ManagedSessions, however many requests are in progress, on the same session or
\* not, and whether or not saves fail: what the daemon shows as live is its own.
THEOREM LiveSessionsAreClean == Spec => []LiveIsClean
<1>1. Init => LiveIsClean
  BY DEF Init, LiveIsClean, Live, rec, NoRecord
<1> QED
  BY <1>1, ShapeInit, ShapeNext, CleanNext, PTL DEF Spec
-----------------------------------------------------------------------------
(* Requests that do not overlap *)

\* A request goes on with what it had, before its worker is launched; or it ends with nothing.
LEMMA OwnGoesOn ==
  ASSUME ShapeInv, OwnInv, NEW t \in AllTasks, NEW n \in Task, TaskOK(n), task' = [task EXCEPT ![t] = n],
         task[t].stage # "launched", n.stage # "launched",
         \/ /\ n.op = task[t].op /\ n.session = task[t].session
            /\ n.conv = task[t].conv /\ n.cmd = task[t].cmd
         \/ n = Idle /\ task[t].session = None,
         UNCHANGED <<store, file, drawn, table, monitor>>
  PROVE  OwnInv'
<1>1. /\ task'[t] = n /\ \A u \in AllTasks \ {t} : task'[u] = task[u]
      /\ n.session = task[t].session /\ n.stage # "launched"
      /\ n.op \in {task[t].op, None} /\ n.conv \in {task[t].conv, None} /\ n.cmd \in {task[t].cmd, None}
  BY TaskStep, Constants, Zenon
<1>2. DistinctInv'
  BY <1>1 DEF OwnInv, DistinctInv
<1>3. DrawnInv'
  BY <1>1, Zenon DEF OwnInv, DrawnInv, KnownIn, Watched
<1>4. LedgerInv(store)' /\ LedgerInv(file)'
  BY Zenon DEF OwnInv, LedgerInv, KnownIn
<1>5. LaunchInv'
  BY <1>1, NameAssumption, SMTT(30) DEF OwnInv, LaunchInv, Watched, Live, Known, Running, rec, Launching, Creating, Ops
<1>6. TakenInv'
  BY <1>1, NameAssumption DEF OwnInv, TakenInv, Taking, Ops
<1>7. Room => WorkersAreAccounted'
  BY <1>1, ZenonT(60) DEF OwnInv, WorkersAreAccounted, Running, Live, Working, rec
<1> QED
  BY <1>2, <1>3, <1>4, <1>5, <1>6, <1>7, Zenon DEF OwnInv

\* Records that keep who asked for them, and answers that only grow.
LEMMA LedgerKept ==
  ASSUME LedgerInv(store), LedgerInv(file), NEW R, NEW c, Answered(R, c),
         \A s \in Sessions : \/ R[s] = NoRecord
                             \/ s \in Known /\ R[s].presence # "none" /\ R[s].by = rec[s].by
  PROVE  LedgerInv(store)' /\ LedgerInv(file)' /\ KnownIn(store)' \subseteq KnownIn(store)
<1>1. /\ store'.records = R /\ store.answered \subseteq store'.answered
      /\ file' = store' \/ file' = file
  BY AnsweredStore, Zenon
<1>2. NoRecord.presence = "none"
  BY Zenon DEF NoRecord
<1>3. KnownIn(store)' \subseteq KnownIn(store) /\ \A s \in KnownIn(store)' : R[s].by = rec[s].by
  BY <1>1, <1>2, Zenon DEF KnownIn, Known, rec
<1>4. LedgerInv(store)'
  BY <1>1, <1>3, ZenonT(60) DEF LedgerInv, KnownIn, rec, Known
<1> QED
  BY <1>1, <1>3, <1>4, SMTT(30) DEF LedgerInv, KnownIn

\* A request is refused before its worker is launched, or has no effect at all.
LEMMA OwnRefused ==
  ASSUME ShapeInv, OwnInv, NEW t \in AllTasks, Room => task[t].stage # "launched", Refused(t, task[t].cmd),
         UNCHANGED <<drawn, table, monitor>>
  PROVE  OwnInv'
<1>1. /\ task'[t] = Idle /\ \A u \in AllTasks \ {t} : task'[u] = task[u]
      /\ Idle.session = None /\ Idle.conv = None /\ Idle.cmd = None /\ Idle.op = None
  BY TaskStep, Constants, Zenon DEF Refused
<1>2. /\ rec' = rec /\ store'.records = rec /\ (file' = store' \/ file' = file)
      /\ store'.answered = store.answered \cup ({task[t].cmd} \ {None})
  BY AnsweredStore, Zenon DEF Refused
<1>3. DistinctInv'
  BY <1>1, ZenonT(60) DEF OwnInv, DistinctInv
<1>4. DrawnInv'
  BY <1>1, <1>2, Zenon DEF OwnInv, DrawnInv, KnownIn, Watched, rec
<1>5. LedgerInv(store)' /\ LedgerInv(file)'
  <2>1. \A s \in Sessions : rec[s] = NoRecord \/ s \in Known
    BY Zenon DEF OwnInv, LedgerInv, Known, rec
  <2> QED
    BY <2>1, LedgerKept, Zenon DEF OwnInv, Refused, Known
<1>6. LaunchInv'
  BY SMTT(30), <1>1, <1>2, NameAssumption
  DEF OwnInv, LaunchInv, DistinctInv, Watched, Live, Known, Running, rec, Launching, Creating, Ops
<1>7. TakenInv'
  BY <1>1, NameAssumption, Zenon DEF OwnInv, TakenInv, Taking, Ops
<1>8. Room /\ task[t].session # None => ~Running(task[t].session)
  BY SMTT(30), Fields, Constants
  DEF OwnInv, LaunchInv, TakenInv, TaskOK, NoWorker, Running, Launching, Creating, Taking, Task, Ops
<1>9. Room => WorkersAreAccounted'
  BY <1>1, <1>2, <1>8, NameAssumption, SMTT(30) DEF OwnInv, WorkersAreAccounted, Running, Live, Working
<1> QED
  BY <1>3, <1>4, <1>5, <1>6, <1>7, <1>9, Zenon DEF OwnInv

\* A request ends by writing its session's record.
LEMMA OwnRewritten ==
  ASSUME ShapeInv, OwnInv, NEW t \in AllTasks, task[t].op \in Taking \cup {"resume"},
         task' = [task EXCEPT ![t] = Idle], task[t].session \in Known,
         NEW r \in Record, Answered([rec EXCEPT ![task[t].session] = r], task[t].cmd),
         r.presence # "none", r.by = rec[task[t].session].by,
         task[t].op = "resume" => r.presence = "live",
         UNCHANGED <<drawn, table, monitor>>
  PROVE  OwnInv'
<1> DEFINE s == task[t].session
           R == [rec EXCEPT ![s] = r]
<1>1. /\ task'[t] = Idle /\ \A u \in AllTasks \ {t} : task'[u] = task[u]
      /\ Idle.session = None /\ Idle.conv = None /\ Idle.cmd = None /\ Idle.op = None
  BY TaskStep, Constants, Zenon
<1>2. /\ rec' = R /\ store'.records = R /\ (file' = store' \/ file' = file)
      /\ store'.answered = store.answered \cup ({task[t].cmd} \ {None})
  BY AnsweredStore, Zenon
<1>3. s \in Sessions /\ s # None /\ R[s] = r /\ \A u \in Sessions \ {s} : R[u] = rec[u]
  BY Fields, NameAssumption, Zenon DEF Known
<1> HIDE DEF R
<1>4. DistinctInv'
  BY <1>1 DEF OwnInv, DistinctInv
<1>5. LedgerInv(store)' /\ LedgerInv(file)' /\ KnownIn(store)' \subseteq KnownIn(store)
  <2>1. \A u \in Sessions : \/ R[u] = NoRecord
                            \/ u \in Known /\ R[u].presence # "none" /\ R[u].by = rec[u].by
    BY <1>3, Zenon DEF OwnInv, LedgerInv, Known, rec
  <2> QED
    BY <2>1, LedgerKept, Zenon DEF OwnInv, R
<1>6. DrawnInv'
  BY <1>1, <1>2, <1>5, Zenon DEF OwnInv, DrawnInv, KnownIn, Watched
<1>7. \A u \in AllTasks \ {t} : task[u].session # s
  BY <1>3, Zenon DEF OwnInv, DistinctInv
<1>8. LaunchInv'
  BY SMTT(30), <1>1, <1>2, <1>3, <1>7, NameAssumption, Fields
  DEF OwnInv, LaunchInv, DistinctInv, Watched, Live, Known, Running, Launching, Creating, Ops
<1>9. TakenInv'
  BY <1>1, NameAssumption DEF OwnInv, TakenInv, Taking, Ops
<1>10. task[t].op # "resume" => ~Running(s)
  BY SMTT(30) DEF OwnInv, TakenInv, NoWorker, Running
<1>11. Room => WorkersAreAccounted'
  BY <1>1, <1>2, <1>3, <1>10, NameAssumption, SMTT(30) DEF OwnInv, WorkersAreAccounted, Running, Live, Working
<1> QED
  BY <1>4, <1>5, <1>6, <1>8, <1>9, <1>11, Zenon DEF OwnInv

\* Where there is room, a session that is not on record is recorded.
LEMMA StoreHasRoom ==
  ASSUME Room, NEW s \in Sessions, s \notin Known
  PROVE  ~(Cardinality(Known) >= MaxRecords)
<1>1. Known \subseteq Sessions \ {s}
  BY Zenon DEF Known
<1>2. IsFiniteSet(Sessions \ {s}) /\ Cardinality(Sessions \ {s}) = Cardinality(Sessions) - 1
  BY FS_RemoveElement, Zenon DEF Room
<1>3. Cardinality(Known) <= Cardinality(Sessions \ {s}) /\ IsFiniteSet(Known)
  BY <1>1, <1>2, FS_Subset, Zenon
<1>4. Cardinality(Known) \in Nat /\ Cardinality(Sessions) \in Nat
  BY <1>3, FS_CardinalityType, Zenon DEF Room
<1> QED
  BY <1>2, <1>3, <1>4, BoundAssumption DEF Room

\* A start or a takeover ends: without room nothing but its outcome is recorded, and where
\* there is room its session is.
LEMMA OwnStarted ==
  ASSUME ShapeInv, OwnInv, NEW t \in AllTasks, Started(t)
  PROVE  OwnInv'
<1>0. CASE Cardinality(Known) >= MaxRecords
  <2>1. task[t].session \in Sessions /\ task[t].session \notin Known
    BY Fields, NameAssumption, Zenon DEF Started, Step, TaskOK, OwnInv, LaunchInv, Launching, Creating
  <2>2. ~Room
    BY <1>0, <2>1, StoreHasRoom, Zenon
  <2> QED
    BY <1>0, <2>2, OwnRefused, Zenon DEF Started, Refused, Step, world
<1> SUFFICES ASSUME ~(Cardinality(Known) >= MaxRecords) PROVE OwnInv'
  BY <1>0, Zenon
<1> DEFINE s == task[t].session
           r == [NoRecord EXCEPT !.presence = "live", !.conv = task[t].conv, !.gen = 1, !.by = task[t].cmd]
           R == [rec EXCEPT ![s] = r]
<1>1. s \in Sessions /\ s # None /\ s \notin Known
  BY Fields, NameAssumption, Zenon DEF Started, Step, TaskOK, OwnInv, LaunchInv, Launching, Creating
<1>2. /\ task'[t] = Idle /\ \A u \in AllTasks \ {t} : task'[u] = task[u]
      /\ Idle.session = None /\ Idle.conv = None /\ Idle.cmd = None /\ Idle.op = None
  BY TaskStep, Constants, Zenon DEF Started, Step
<1>3. r.presence = "live" /\ r.by = task[t].cmd
  BY Zenon DEF NoRecord
<1>4. /\ rec' = R /\ store'.records = R /\ (file' = store' \/ file' = file)
      /\ store'.answered = store.answered \cup ({task[t].cmd} \ {None})
  BY AnsweredStore, Zenon DEF Started
<1>5. R[s] = r /\ \A u \in Sessions \ {s} : R[u] = rec[u]
  BY <1>1, Fields, Zenon
<1> HIDE DEF R, r
<1>6. UNCHANGED <<drawn, table, monitor>>
  BY Zenon DEF Started, world
<1>7. DistinctInv'
  BY <1>2 DEF OwnInv, DistinctInv
<1>8. KnownIn(store)' = KnownIn(store) \cup {s} /\ Known = KnownIn(store)
  BY <1>1, <1>3, <1>4, <1>5, SMTT(30) DEF KnownIn, Known, rec
<1>9. task[t].cmd # None => \A u \in Known : rec[u].by # task[t].cmd
  BY <1>1, Zenon DEF OwnInv, LaunchInv, LedgerInv, Known, KnownIn, rec, Started, Launching, Creating
<1>10. LedgerInv(store)'
  <2>1. \A u \in Sessions : R[u].presence = "none" => R[u] = NoRecord
    BY <1>3, <1>5, Zenon DEF OwnInv, LedgerInv, rec
  <2>2. \A u \in KnownIn(store)' : R[u].by # None => R[u].by \in store'.answered
    <3>1. \A u \in KnownIn(store) : u \in Sessions \ {s} /\ R[u] = rec[u]
      BY <1>1, <1>5, <1>8, Zenon DEF Known
    <3>2. \A u \in KnownIn(store) : rec[u].by # None => rec[u].by \in store.answered
      BY Zenon DEF OwnInv, LedgerInv, rec
    <3> QED
      BY <1>3, <1>4, <1>5, <1>8, <3>1, <3>2, Zenon
  <2>3. \A u, w \in KnownIn(store)' : R[u].by # None /\ R[u].by = R[w].by => u = w
    <3>1. \A u, w \in KnownIn(store) : rec[u].by # None /\ rec[u].by = rec[w].by => u = w
      BY Zenon DEF OwnInv, LedgerInv, rec
    <3>2. \A u \in KnownIn(store) : u # s /\ R[u] = rec[u]
      BY <1>1, <1>5, <1>8, Zenon DEF Known
    <3> QED
      BY <1>3, <1>5, <1>8, <1>9, <3>1, <3>2, ZenonT(60)
  <2> QED
    BY <1>4, <2>1, <2>2, <2>3, Zenon DEF LedgerInv
<1>11. LedgerInv(file)'
  BY <1>4, <1>10, SMTT(30) DEF OwnInv, LedgerInv, KnownIn
<1>12. DrawnInv'
  <2>1. s \in drawn
    BY <1>1, Zenon DEF OwnInv, DrawnInv
  <2>2. KnownIn(store)' \subseteq drawn' /\ KnownIn(file)' \subseteq drawn'
    BY <1>4, <1>6, <1>8, <2>1, Zenon DEF OwnInv, DrawnInv, KnownIn
  <2> QED
    BY <1>2, <1>6, <2>2, Zenon DEF OwnInv, DrawnInv, Watched
<1>13. \A u \in AllTasks \ {t} : task[u].session # s
  BY <1>1, Zenon DEF OwnInv, DistinctInv
<1>14. LaunchInv'
  BY SMTT(30), <1>2, <1>4, <1>5, <1>6, <1>13, NameAssumption, Fields
  DEF OwnInv, LaunchInv, DistinctInv, Watched, Live, Known, Running, Launching, Creating, Ops
<1>15. TakenInv'
  BY <1>2, <1>6, NameAssumption, Zenon DEF OwnInv, TakenInv, Taking, Ops
<1>16. Room => WorkersAreAccounted'
  BY <1>2, <1>3, <1>4, <1>5, <1>6, NameAssumption, SMTT(30) DEF OwnInv, WorkersAreAccounted, Running, Live, Working
<1> QED
  BY <1>7, <1>10, <1>11, <1>12, <1>14, <1>15, <1>16, Zenon DEF OwnInv

\* What a request that may begin knows of the others.
LEMMA ClearOthers ==
  ASSUME ~Overlap, NEW s, NEW v, NEW c, Clear(s, v, c)
  PROVE  \A u \in AllTasks : /\ task[u].session # s \/ s = None
                             /\ task[u].conv # v \/ v = None
                             /\ task[u].cmd # c \/ c = None
BY Zenon DEF Clear

\* A request draws a new session: nobody else has it, and no worker runs it.
LEMMA OwnDraws ==
  ASSUME ShapeInv, OwnInv, NEW t \in AllTasks, NEW n \in Task, TaskOK(n), task' = [task EXCEPT ![t] = n],
         NEW s \in Sessions, s \notin drawn, drawn' = drawn \cup {s},
         task[t].session = None, n.session = s, n.op \in Creating, n.stage = "launching",
         n.cmd \notin store.answered,
         \A u \in AllTasks \ {t} : /\ task[u].conv # n.conv \/ n.conv = None
                                   /\ task[u].cmd # n.cmd \/ n.cmd = None,
         UNCHANGED <<store, file, table, monitor>>
  PROVE  OwnInv'
<1>1. task'[t] = n /\ \A u \in AllTasks \ {t} : task'[u] = task[u]
  BY TaskStep, Zenon
<1>2. /\ s # None /\ s \notin Known /\ s \notin Watched
      /\ \A u \in AllTasks : task[u].session # s
  BY NameAssumption, Zenon DEF OwnInv, DrawnInv, KnownIn, Known, rec
<1>3. ~Live(s) /\ (Room => ~Running(s))
  BY <1>2, Zenon DEF OwnInv, WorkersAreAccounted, Working, Live, Known
<1>4. DistinctInv'
  BY <1>1, <1>2, SMTT(30) DEF OwnInv, DistinctInv
<1>5. DrawnInv'
  BY <1>1, SMTT(30) DEF OwnInv, DrawnInv, KnownIn, Watched
<1>6. LedgerInv(store)' /\ LedgerInv(file)'
  BY Zenon DEF OwnInv, LedgerInv, KnownIn
<1>7. LaunchInv'
  <2>1. /\ n.session \notin Watched' /\ ~Live(n.session)' /\ n.session \notin Known'
        /\ Room => ~Running(n.session)'
    BY <1>2, <1>3, Zenon DEF Watched, Live, Known, rec, Running
  <2>2. n.op # "resume"
    BY Zenon DEF Creating
  <2> QED
    BY <1>1, <2>1, <2>2, SMTT(30) DEF OwnInv, LaunchInv, Watched, Live, Known, Running, rec
<1>8. TakenInv'
  BY <1>1, Zenon DEF OwnInv, TakenInv, Taking, Creating
<1>9. Room => WorkersAreAccounted'
  BY <1>1, NameAssumption, ZenonT(60) DEF OwnInv, WorkersAreAccounted, Running, Live, Working, rec
<1> QED
  BY <1>4, <1>5, <1>6, <1>7, <1>8, <1>9, Zenon DEF OwnInv

\* A request begins on a session of its own: a resume of one that is stored, or one that takes
\* the worker out of the table.
LEMMA OwnBegins ==
  ASSUME ShapeInv, OwnInv, NEW t \in AllTasks, NEW n \in Task, TaskOK(n), task' = [task EXCEPT ![t] = n],
         task[t].stage = "idle", n.session \in Known \cup {None}, n.stage # "launched",
         \A u \in AllTasks : /\ task[u].session # n.session \/ n.session = None
                             /\ task[u].conv # n.conv \/ n.conv = None
                             /\ task[u].cmd # n.cmd \/ n.cmd = None,
         n.op \in Creating => n.session = None,
         n.op = "resume" => n.session \notin Watched /\ ~Live(n.session),
         n.op \in Taking => table'[n.session] = NoWorker,
         table' = table \/ table' = [table EXCEPT ![n.session] = NoWorker],
         UNCHANGED <<store, file, drawn, monitor>>
  PROVE  OwnInv'
<1>1. task'[t] = n /\ \A u \in AllTasks \ {t} : task'[u] = task[u]
  BY TaskStep, Zenon
<1>2. task[t].session = None /\ task[t].op = None
  BY Fields, Constants, Zenon DEF TaskOK
<1>3. n.session \in Sessions \cup {None} /\ Known \subseteq drawn
  BY Zenon DEF Known, OwnInv, DrawnInv, KnownIn, rec
<1>4. \A s \in Sessions : table'[s] = table[s] \/ table'[s] = NoWorker
  BY Zenon DEF ShapeInv, TypeOK
<1>5. \A s \in Sessions : Running(s)' => Running(s)
  BY <1>4 DEF Running, NoWorker
<1>6. n.op = "resume" /\ Room => ~Running(n.session)
  BY <1>2, <1>3, NameAssumption, SMTT(30) DEF OwnInv, WorkersAreAccounted, Working, Live, TaskOK
<1>7. DistinctInv'
  BY <1>1 DEF OwnInv, DistinctInv
<1>8. DrawnInv'
  BY <1>1, <1>3, Zenon DEF OwnInv, DrawnInv, KnownIn, Watched
<1>9. LedgerInv(store)' /\ LedgerInv(file)'
  BY Zenon DEF OwnInv, LedgerInv, KnownIn
<1>10. LaunchInv'
  <2>1. ASSUME NEW u \in AllTasks, u # t, task[u].op \in Launching, task[u].session # None
        PROVE  /\ task[u].session \notin Watched' /\ ~Live(task[u].session)'
               /\ task[u].op \in Creating => task[u].session \notin Known'
               /\ task[u].op = "resume" => task[u].session \in Known'
               /\ Room /\ task[u].stage # "launched" => ~Running(task[u].session)'
               /\ task[u].op \in Creating /\ task[u].cmd # None => task[u].cmd \notin store'.answered
    <3>1. task[u].session \in Sessions
      BY <2>1, Fields, Zenon
    <3> QED
      BY <1>5, <2>1, <3>1, SMTT(30) DEF OwnInv, LaunchInv, Watched, Live, Known, rec
  <2>2. ASSUME n.op \in Launching, n.session # None
        PROVE  /\ n.op = "resume" /\ n.session \notin Watched' /\ ~Live(n.session)'
               /\ n.session \in Known' /\ (Room => ~Running(n.session)')
    BY <1>3, <1>5, <1>6, <2>2, Zenon DEF Launching, Watched, Live, Known, rec
  <2>3. "resume" \notin Creating
    BY Zenon DEF Creating
  <2> QED
    BY <1>1, <2>1, <2>2, <2>3, Zenon DEF LaunchInv
<1>11. TakenInv'
  <2>1. \A u \in AllTasks \ {t} : task[u].op \in Taking => table'[task[u].session] = NoWorker
    BY <1>4, Fields, Zenon DEF OwnInv, TakenInv, TaskOK
  <2>2. monitor.stage = "stopping" => table'[monitor.session] = NoWorker
    BY <1>4, Zenon DEF OwnInv, TakenInv, ShapeInv, MonitorOK
  <2> QED
    BY <1>1, <2>1, <2>2 DEF TakenInv
<1>12. Room => WorkersAreAccounted'
  BY <1>1, <1>2, <1>5, NameAssumption DEF OwnInv, WorkersAreAccounted, Live, Working, rec
<1> QED
  BY <1>7, <1>8, <1>9, <1>10, <1>11, <1>12, Zenon DEF OwnInv

\* A resume that begins has its session for itself.
LEMMA OwnResume ==
  ASSUME ~Overlap, ShapeInv, OwnInv, NEW t \in AllTasks, NEW s \in Sessions, Resume(t, s),
         UNCHANGED <<drawn, table, monitor>>
  PROVE  OwnInv'
<1>1. task[t] = Idle /\ task[t].cmd = None
  BY Fields, Constants, Zenon DEF Resume, TaskOK
<1>2. CASE Resumable(s)
  <2> DEFINE g == IF HandedBack(s) /\ rec[s].handback THEN "closing" ELSE "probing"
             n == [Request("resume", s, None) EXCEPT !.conv = rec[s].conv, !.gen = rec[s].gen, !.stage = g]
  <2>1. n \in Task /\ TaskOK(n)
    BY RequestShapes, Fields, Zenon DEF Resume
  <2>2. task' = [task EXCEPT ![t] = n] /\ UNCHANGED <<store, file>>
    BY <1>2, Zenon DEF Resume
  <2>3. /\ n.op = "resume" /\ n.session = s /\ n.conv = rec[s].conv /\ n.cmd = None
        /\ n.stage \in {"closing", "probing"}
    BY Zenon DEF Request, Idle
  <2>4. s \notin Watched /\ s \in Known /\ ~Live(s)
    BY <1>2, NameAssumption, Zenon DEF Resume, Clear, Watched, Resumable
  <2>5. "resume" \notin Creating \cup Taking
    BY Zenon DEF Creating, Taking
  <2> HIDE DEF n
  <2>6. \A u \in AllTasks : /\ task[u].session # n.session \/ n.session = None
                            /\ task[u].conv # n.conv \/ n.conv = None
                            /\ task[u].cmd # n.cmd \/ n.cmd = None
    BY <2>3, ClearOthers DEF Resume
  <2>7. task[t].stage = "idle"
    BY Zenon DEF Resume
  <2> QED
    BY <2>1, <2>2, <2>3, <2>4, <2>5, <2>6, <2>7, OwnBegins, Zenon
<1>3. CASE ~Resumable(s)
  BY <1>1, <1>3, Constants, OwnRefused, Zenon DEF Resume
<1> QED
  BY <1>2, <1>3, Zenon

\* A request that takes a worker out of the table has it for itself.
LEMMA OwnTakes ==
  ASSUME ~Overlap, ShapeInv, OwnInv, NEW t \in AllTasks, NEW s \in Known, NEW v \in {rec[s].conv, None},
         NEW op \in Taking, Clear(s, rec[s].conv, None), task[t].stage = "idle",
         NEW n \in Task, TaskOK(n), task' = [task EXCEPT ![t] = n],
         n.op = op, n.session = s, n.conv = v, n.cmd = None, n.stage \in {"stopping", "stopped"},
         table' = [table EXCEPT ![s] = NoWorker], UNCHANGED <<store, file, drawn, monitor>>
  PROVE  OwnInv'
<1>1. table'[s] = NoWorker
  BY Zenon DEF Known, ShapeInv, TypeOK
<1>2. op \notin Creating /\ op # "resume"
  BY Zenon DEF Taking, Creating
<1>3. \A u \in AllTasks : /\ task[u].session # n.session \/ n.session = None
                          /\ task[u].conv # n.conv \/ n.conv = None
                          /\ task[u].cmd # n.cmd \/ n.cmd = None
  BY ClearOthers
<1> QED
  BY <1>1, <1>2, <1>3, OwnBegins, Zenon

\* The requests begin.
LEMMA AskOwn ==
  ASSUME ~Overlap, ShapeInv, OwnInv, NEW t \in AllTasks, Ask(t)
  PROVE  OwnInv'
<1>0. task[t].stage = "idle" => task[t] = Idle /\ task[t].cmd = None /\ task[t].session = None
  BY Fields, Constants, Zenon DEF TaskOK
<1>1. ASSUME NEW c \in Commands \cup {None}, NEW s \in Sessions, Start(t, c, s)
      PROVE  OwnInv'
  <2> DEFINE n == [Request("start", s, c) EXCEPT !.stage = "launching"]
  <2>1. n \in Task /\ TaskOK(n)
    BY RequestShapes, Zenon
  <2>2. n.op \in Creating /\ n.session = s /\ n.conv = None /\ n.cmd = c /\ n.stage = "launching"
    BY Zenon DEF Request, Idle, Creating
  <2>3. /\ task' = [task EXCEPT ![t] = n] /\ task[t].session = None /\ s \notin drawn
        /\ drawn' = drawn \cup {s} /\ n.cmd \notin store.answered /\ Clear(None, None, c)
        /\ UNCHANGED <<store, file, table, monitor>>
    BY <1>0, <1>1, <2>2, Zenon DEF Start, Begin, NotAnswered
  <2> HIDE DEF n
  <2>4. \A u \in AllTasks : /\ task[u].conv # n.conv \/ n.conv = None
                            /\ task[u].cmd # n.cmd \/ n.cmd = None
    BY <2>2, <2>3, ClearOthers, Zenon
  <2> QED
    BY <2>1, <2>2, <2>3, <2>4, OwnDraws, Zenon
<1>2. ASSUME NEW c \in Commands \cup {None}, NEW v \in Convs, NEW k \in Terminals, Promote(t, c, v, k)
      PROVE  OwnInv'
  <2> DEFINE n == [Request("promote", None, c) EXCEPT !.stage = "preflight", !.conv = v, !.terminal = k]
  <2>1. n \in Task /\ TaskOK(n)
    BY RequestShapes, Zenon
  <2>2. n.op = "promote" /\ n.session = None /\ n.conv = v /\ n.cmd = c /\ n.stage = "preflight"
    BY Zenon DEF Request, Idle
  <2>3. "promote" \notin Taking
    BY Zenon DEF Taking
  <2>4. task' = [task EXCEPT ![t] = n] /\ task[t].stage = "idle" /\ Clear(None, v, c)
    BY <1>2, Zenon DEF Promote, Begin
  <2> HIDE DEF n
  <2>5. \A u \in AllTasks : /\ task[u].session # n.session \/ n.session = None
                            /\ task[u].conv # n.conv \/ n.conv = None
                            /\ task[u].cmd # n.cmd \/ n.cmd = None
    BY <2>2, <2>4, ClearOthers
  <2> QED
    BY <1>2, <2>1, <2>2, <2>3, <2>4, <2>5, OwnBegins, Zenon DEF Promote, world
<1>3. ASSUME NEW s \in Sessions, Release(t, s)
      PROVE  OwnInv'
  <2>1. CASE rec[s].conv # None
    <3> DEFINE g == IF table[s] = NoWorker THEN "stopped" ELSE "stopping"
               n == [[Request("release", s, None) EXCEPT !.conv = rec[s].conv] EXCEPT
                       !.worker = table[s], !.stage = g]
    <3>1. n \in Task /\ TaskOK(n)
      BY <2>1, RequestShapes, Fields, Zenon
    <3>2. [Request("release", s, None) EXCEPT !.conv = rec[s].conv].session = s
      BY Zenon DEF Request, Idle
    <3>3. /\ task' = [task EXCEPT ![t] = n] /\ table' = [table EXCEPT ![s] = NoWorker]
          /\ UNCHANGED <<store, file, drawn, begun, terms, monitor, owed>>
      BY <1>3, <2>1, <3>2, Zenon DEF Release, Taken
    <3>4. /\ n.op = "release" /\ n.session = s /\ n.conv = rec[s].conv /\ n.cmd = None
          /\ n.stage \in {"stopping", "stopped"}
      BY Zenon DEF Request, Idle
    <3>5. s \in Known /\ "release" \in Taking
      BY <2>1, SMTT(30) DEF OwnInv, LedgerInv, Known, rec, NoRecord, Taking
    <3> HIDE DEF n
    <3> QED
      BY <1>3, <3>1, <3>3, <3>4, <3>5, OwnTakes, Zenon DEF Release
  <2>2. CASE rec[s].conv = None
    BY <1>0, <1>3, <2>2, OwnRefused, Constants, Zenon DEF Release, world
  <2> QED
    BY <2>1, <2>2, Zenon
<1>4. ASSUME NEW s \in Sessions, ResumeRequest(t, s)
      PROVE  OwnInv'
  BY <1>4, OwnResume, Zenon DEF ResumeRequest, world
<1>5. ASSUME NEW s \in Sessions, NEW i \in 1..MaxGen, Stop(t, s, i)
      PROVE  OwnInv'
  <2>1. CASE Live(s) /\ rec[s].gen = i
    <3> DEFINE g == IF table[s] = NoWorker THEN "stopped" ELSE "stopping"
               n == [Request("stop", s, None) EXCEPT !.worker = table[s], !.stage = g]
    <3>1. n \in Task /\ TaskOK(n)
      BY RequestShapes, Fields, Zenon
    <3>2. Request("stop", s, None).session = s
      BY Zenon DEF Request, Idle
    <3>3. /\ task' = [task EXCEPT ![t] = n] /\ table' = [table EXCEPT ![s] = NoWorker]
          /\ UNCHANGED <<store, file, drawn, begun, terms, monitor, owed>>
      BY <1>5, <2>1, <3>2, Zenon DEF Stop, Taken
    <3>4. /\ n.op = "stop" /\ n.session = s /\ n.conv = None /\ n.cmd = None
          /\ n.stage \in {"stopping", "stopped"}
      BY Zenon DEF Request, Idle
    <3>5. s \in Known /\ "stop" \in Taking
      BY <2>1, Zenon DEF Live, Known, Taking
    <3> HIDE DEF n
    <3> QED
      BY <1>5, <3>1, <3>3, <3>4, <3>5, OwnTakes, Zenon DEF Stop
  <2>2. CASE ~(Live(s) /\ rec[s].gen = i)
    BY <1>0, <1>5, <2>2, OwnRefused, Constants, Zenon DEF Stop, world
  <2> QED
    BY <2>1, <2>2, Zenon
<1> QED
  BY <1>1, <1>2, <1>3, <1>4, <1>5, Zenon DEF Ask

\* The worker of a request is launched.
LEMMA OwnLaunch ==
  ASSUME ShapeInv, OwnInv, NEW t \in AllTasks, Launch(t)
  PROVE  OwnInv'
<1> DEFINE n == To(t, "launched")
           s == task[t].session
<1>1. n \in Task /\ TaskOK(n) /\ task' = [task EXCEPT ![t] = n] /\ task[t].stage = "launching"
  BY Fields, StageShapes, Zenon DEF Launch, Step, To
<1>2. /\ n.op = task[t].op /\ n.session = s /\ n.conv = task[t].conv /\ n.cmd = task[t].cmd
      /\ n.stage = "launched"
  BY Fields, Zenon DEF To, Task
<1>3. n.op \in Launching /\ n.op \notin Taking /\ s \in Sessions /\ s # None
  BY <1>1, <1>2, NameAssumption, Fields, Zenon DEF TaskOK, Launching, Creating, Taking
<1> HIDE DEF n
<1>4. task'[t] = n /\ \A u \in AllTasks \ {t} : task'[u] = task[u]
  BY <1>1, TaskStep, Zenon
<1>5. /\ \A u \in Sessions \ {s} : table'[u] = table[u]
      /\ UNCHANGED <<store, file, drawn, monitor>>
  BY Zenon DEF Launch, ShapeInv, TypeOK
<1>6. /\ s \notin Watched
      /\ \A u \in AllTasks \ {t} : task[u].session # s
  BY <1>1, <1>2, <1>3, Zenon DEF OwnInv, LaunchInv, DistinctInv
<1>7. DistinctInv'
  BY <1>2, <1>4 DEF OwnInv, DistinctInv
<1>8. DrawnInv'
  BY <1>2, <1>4, <1>5, Zenon DEF OwnInv, DrawnInv, KnownIn, Watched
<1>9. LedgerInv(store)' /\ LedgerInv(file)'
  BY <1>5, Zenon DEF OwnInv, LedgerInv, KnownIn
<1>10. LaunchInv'
  <2>1. \A u \in AllTasks \ {t} : task[u].session # None => table'[task[u].session] = table[task[u].session]
    BY <1>5, <1>6, Fields, Zenon
  <2> QED
    BY <1>2, <1>4, <1>5, <2>1, SMTT(30) DEF OwnInv, LaunchInv, Watched, Live, Known, Running, rec
<1>11. TakenInv'
  <2>1. \A u \in AllTasks \ {t} : task[u].op \in Taking => table'[task[u].session] = NoWorker
    BY <1>5, <1>6, Fields, Zenon DEF OwnInv, TakenInv, TaskOK
  <2>2. monitor.stage = "stopping" => table'[monitor.session] = NoWorker
    BY <1>5, <1>6, Zenon DEF OwnInv, TakenInv, ShapeInv, MonitorOK, Watched
  <2> QED
    BY <1>3, <1>4, <1>5, <2>1, <2>2, Zenon DEF TakenInv
<1>12. Room => WorkersAreAccounted'
  BY <1>2, <1>4, <1>5 DEF OwnInv, WorkersAreAccounted, Live, Running, Working, rec
<1> QED
  BY <1>7, <1>8, <1>9, <1>10, <1>11, <1>12, Zenon DEF OwnInv

\* The requests go on.
LEMMA ProceedOwn ==
  ASSUME ShapeInv, OwnInv, NEW t \in AllTasks, Proceed(t)
  PROVE  OwnInv'
<1> USE Fields
<1>0. ASSUME NEW g \in Stages
      PROVE  LET n == To(t, g) IN
                /\ n.op = task[t].op /\ n.session = task[t].session /\ n.conv = task[t].conv
                /\ n.cmd = task[t].cmd /\ n.stage = g
  BY Zenon DEF To, Task
<1>2. CASE LaunchRefused(t) \/ ProbeRefused(t)
  BY <1>2, OwnRefused, Zenon DEF LaunchRefused, ProbeRefused, world
<1>4. CASE Preflight(t)
  <2>1. CASE task' = [task EXCEPT ![t] = Idle]
    BY <1>4, <2>1, OwnGoesOn, Constants, Zenon DEF Preflight, Step, TaskOK, world
  <2>2. CASE task' = [task EXCEPT ![t] = To(t, "evicting")]
    <3>1. To(t, "evicting") \in Task /\ TaskOK(To(t, "evicting")) /\ task[t].stage = "preflight"
      BY <1>4, StageShapes, Zenon DEF Preflight, Step, To
    <3> QED
      BY <1>0, <1>4, <2>2, <3>1, OwnGoesOn, Zenon DEF Preflight, Stages, world
  <2> QED
    BY <1>4, <2>1, <2>2, Zenon DEF Preflight, Step
<1>5. CASE Evict(t)
  <2>1. To(t, "adopting") \in Task /\ TaskOK(To(t, "adopting")) /\ task[t].stage = "evicting"
    BY <1>5, StageShapes, Zenon DEF Evict, Step, To
  <2> QED
    BY <1>0, <1>5, <2>1, OwnGoesOn, Zenon DEF Evict, Step, Stages
<1>6. CASE EvictFails(t)
  BY <1>6, OwnGoesOn, Constants, Zenon DEF EvictFails, Step, TaskOK, world
<1>7. ASSUME NEW s \in Sessions, Adopt(t, s)
      PROVE  OwnInv'
  <2> DEFINE n == [To(t, "launching") EXCEPT !.session = s]
  <2>1. n \in Task /\ TaskOK(n) /\ task[t].stage = "adopting"
    BY <1>7, StageShapes, Zenon DEF Adopt, Step, To
  <2>2. /\ n.op = task[t].op /\ n.session = s /\ n.conv = task[t].conv /\ n.cmd = task[t].cmd
        /\ n.stage = "launching" /\ task[t].session = None /\ n.op \in Creating
    BY <2>1, Zenon DEF To, Task, TaskOK, Creating
  <2> HIDE DEF n
  <2>3. \A u \in AllTasks \ {t} : /\ task[u].conv # n.conv \/ n.conv = None
                                  /\ task[u].cmd # n.cmd \/ n.cmd = None
    BY <2>2, Zenon DEF OwnInv, DistinctInv
  <2> QED
    BY <1>7, <2>1, <2>2, <2>3, OwnDraws, Zenon DEF Adopt, Step, NotAnswered, n
<1>8. CASE AdoptRefused(t)
  <2>1. CASE Refused(t, task[t].cmd)
    BY <1>8, <2>1, OwnRefused, Zenon DEF AdoptRefused, world
  <2>2. CASE Step(t, "adopting", Idle) /\ UNCHANGED <<store, file>>
    BY <1>8, <2>2, OwnGoesOn, Constants, Zenon DEF AdoptRefused, Step, TaskOK, world
  <2> QED
    BY <1>8, <2>1, <2>2, Zenon DEF AdoptRefused
<1>9. CASE Terminated(t)
  <2> DEFINE n == [To(t, "stopped") EXCEPT !.worker = NoWorker]
  <2>1. n \in Task /\ TaskOK(n) /\ task[t].stage = "stopping" /\ task' = [task EXCEPT ![t] = n]
    BY <1>9, StageShapes, Zenon DEF Terminated, Step, To
  <2>2. /\ n.op = task[t].op /\ n.session = task[t].session /\ n.conv = task[t].conv
        /\ n.cmd = task[t].cmd /\ n.stage = "stopped"
    BY Zenon DEF To, Task
  <2> HIDE DEF n
  <2> QED
    BY <1>9, <2>1, <2>2, OwnGoesOn, Zenon DEF Terminated, world
<1>10. CASE Stopped(t)
  <2> DEFINE s == task[t].session
             r == StoredAs(rec[s], "ended")
  <2>1. CASE s \in Known
    <3>1. s \in Sessions /\ r \in Record /\ r.presence # "none" /\ r.by = rec[s].by
      BY <2>1, RecordShapes, RecordKept, Zenon DEF Known, Reasons, Kept
    <3>2. task[t].op \in Taking /\ task[t].op # "resume"
      BY <1>10, Zenon DEF Stopped, Taking
    <3> HIDE DEF r
    <3> QED
      BY <1>10, <2>1, <3>1, <3>2, OwnRewritten, Zenon DEF Stopped, Step, r, world
  <2>2. CASE s \notin Known
    BY <1>10, <2>2, OwnRefused, Zenon DEF Stopped, Step, Refused, world
  <2> QED
    BY <2>1, <2>2, Zenon
<1>11. CASE HandBack(t)
  <2>1. task[t].op = "release" /\ task[t].stage = "stopped"
    BY <1>11, Zenon DEF HandBack, Step
  <2>2. PICK n \in Task : /\ TaskOK(n) /\ task' = [task EXCEPT ![t] = n]
                          /\ n.op = task[t].op /\ n.session = task[t].session /\ n.conv = task[t].conv
                          /\ n.cmd = task[t].cmd /\ n.stage = "handed"
    <3> DEFINE m == [To(t, "handed") EXCEPT !.back = TRUE]
    <3>1. /\ m.op = task[t].op /\ m.session = task[t].session
          /\ m.conv = task[t].conv /\ m.cmd = task[t].cmd /\ m.stage = "handed"
      BY Zenon DEF To, Task
    <3>3. m \in Task /\ TaskOK(m)
      BY <2>1, StageShapes, Zenon DEF To
    <3>2. To(t, "handed") \in Task /\ TaskOK(To(t, "handed"))
      BY <2>1, StageShapes, Zenon DEF To
    <3> QED
      BY <1>0, <1>11, <3>1, <3>2, <3>3, Zenon DEF HandBack, Step, Stages
  <2> QED
    BY <1>11, <2>1, <2>2, OwnGoesOn, Zenon DEF HandBack
<1>12. CASE Released(t)
  <2> DEFINE s == task[t].session
             r == [StoredAs(rec[s], "released") EXCEPT !.external = TRUE, !.handback = task[t].back]
  <2>0. task[t].op \in Taking /\ task[t].op # "resume" /\ task[t].stage = "handed"
    BY <1>12, Zenon DEF Released, Step, TaskOK, Taking
  <2>1. CASE s \in Known
    <3>1. s \in Sessions /\ r \in Record /\ r.presence # "none" /\ r.by = rec[s].by
      <4>1. s \in Sessions /\ rec[s] \in Record /\ rec[s].presence # "none"
        BY <2>1, Zenon DEF Known
      <4>2. r \in Record
        BY <4>1, RecordShapes, Zenon
      <4>3. Kept(r, rec[s])
        BY <4>1, RecordKept, Zenon
      <4> QED
        BY <4>1, <4>2, <4>3, Zenon DEF Kept
    <3>2. Answered([rec EXCEPT ![s] = r], task[t].cmd) /\ task' = [task EXCEPT ![t] = Idle]
      BY <1>12, <2>1, <3>1, Zenon DEF Released, Step
    <3> HIDE DEF r
    <3> QED
      BY <1>12, <2>0, <2>1, <3>1, <3>2, OwnRewritten, Zenon DEF Released, world
  <2>2. CASE s \notin Known
    BY <1>12, <2>0, <2>2, OwnRefused, Zenon DEF Released, Step, Refused, world
  <2> QED
    BY <2>1, <2>2, Zenon
<1>13. CASE Close(t)
  <2>1. To(t, "probing") \in Task /\ TaskOK(To(t, "probing")) /\ task[t].stage = "closing"
    BY <1>13, StageShapes, Zenon DEF Close, Step, To
  <2> QED
    BY <1>0, <1>13, <2>1, OwnGoesOn, Zenon DEF Close, Step, Stages
<1>14. CASE Probe(t)
  <2>1. To(t, "launching") \in Task /\ TaskOK(To(t, "launching")) /\ task[t].stage = "probing"
    BY <1>14, StageShapes, Zenon DEF Probe, Step, To
  <2> QED
    BY <1>0, <1>14, <2>1, OwnGoesOn, Zenon DEF Probe, Step, Stages, world
<1>15. CASE Resumed(t)
  <2> DEFINE s == task[t].session
             r == [rec[s] EXCEPT !.presence = "live", !.reason = "none", !.external = FALSE,
                                 !.handback = FALSE, !.gen = task[t].gen + 1]
  <2>1. s \in Sessions /\ s \in Known /\ task[t].op = "resume" /\ task[t].gen < MaxGen
    BY <1>15, NameAssumption, Zenon DEF Resumed, TaskOK, OwnInv, LaunchInv, Launching
  <2>2. r \in Record /\ r.presence = "live" /\ r.by = rec[s].by
    <3>1. rec[s] \in Record /\ rec[s].presence # "none"
      BY <2>1, Zenon DEF Known
    <3>2. r \in Record
      BY <2>1, <3>1, RecordShapes, Zenon
    <3>3. Kept(r, rec[s]) /\ r.presence = "live"
      BY <3>1, RecordKept, Zenon
    <3> QED
      BY <3>2, <3>3, Zenon DEF Kept
  <2>3. Answered([rec EXCEPT ![s] = r], task[t].cmd) /\ task' = [task EXCEPT ![t] = Idle]
    BY <1>15, <2>1, Zenon DEF Resumed, Step
  <2> HIDE DEF r
  <2> QED
    BY <1>15, <2>1, <2>2, <2>3, OwnRewritten, Zenon DEF Resumed, world
<1> QED
  BY Zenon, <1>2, <1>4, <1>5, <1>6, <1>7, <1>8, <1>9, <1>10, <1>11, <1>12, <1>13, <1>14, <1>15,
     OwnLaunch, OwnStarted
  DEF Proceed

\* Steps of the world: sessions may end and be forgotten where no request is at work on them,
\* none becomes live and no worker begins.
LEMMA OwnRest ==
  ASSUME ShapeInv, OwnInv, UNCHANGED <<task, drawn>>,
         store'.answered = store.answered, file' = store' \/ file' = file,
         \A s \in Sessions : \/ rec'[s] = NoRecord
                             \/ s \in Known /\ rec'[s].presence # "none" /\ rec'[s].by = rec[s].by,
         \A s \in Sessions : Live(s)' => Live(s),
         \A s \in Sessions : Running(s)' => Running(s) /\ (Live(s) => Live(s)'),
         \A s \in Sessions : table[s] = NoWorker => table'[s] = NoWorker,
         \A t \in AllTasks : task[t].op = "resume" => rec'[task[t].session].presence # "none",
         Watched' \subseteq Watched \cup {None} \cup {s \in Sessions : Live(s)'},
         monitor'.stage = "stopping" => table'[monitor'.session] = NoWorker
  PROVE  OwnInv'
<1>1. KnownIn(store)' \subseteq KnownIn(store) /\ \A s \in KnownIn(store)' : rec'[s].by = rec[s].by
  BY SMTT(30) DEF KnownIn, Known, rec, NoRecord
<1>2. LedgerInv(store)'
  BY <1>1, Zenon DEF OwnInv, LedgerInv, KnownIn, rec, Known
<1>3. LedgerInv(file)'
  BY <1>2, SMTT(30) DEF OwnInv, LedgerInv, KnownIn
<1>4. DistinctInv'
  BY Zenon DEF OwnInv, DistinctInv
<1>5. DrawnInv'
  <2>1. KnownIn(store)' \subseteq drawn /\ KnownIn(file)' \subseteq drawn
    BY <1>1, Zenon DEF OwnInv, DrawnInv, KnownIn
  <2>2. {s \in Sessions : Live(s)'} \subseteq drawn
    BY Zenon DEF OwnInv, DrawnInv, KnownIn, Live, rec
  <2> QED
    BY <2>1, <2>2, Zenon DEF OwnInv, DrawnInv
<1>6. LaunchInv'
  <2>1. ASSUME NEW t \in AllTasks, task[t].op \in Launching, task[t].session # None
        PROVE  /\ task[t].session \notin Watched' /\ ~Live(task[t].session)'
               /\ task[t].op \in Creating => task[t].session \notin Known'
               /\ task[t].op = "resume" => task[t].session \in Known'
               /\ Room /\ task[t].stage # "launched" => ~Running(task[t].session)'
               /\ task[t].op \in Creating /\ task[t].cmd # None => task[t].cmd \notin store'.answered
    <3>1. task[t].session \in Sessions
      BY <2>1, Fields, Zenon
    <3>2. ~Live(task[t].session) /\ task[t].session \notin Watched
      BY <2>1, Zenon DEF OwnInv, LaunchInv
    <3>3. ~Live(task[t].session)' /\ task[t].session \notin Watched'
      BY <2>1, <3>1, <3>2, Zenon
    <3>4. task[t].op \in Creating => task[t].session \notin Known'
      BY <1>1, <2>1, Zenon DEF OwnInv, LaunchInv, KnownIn, Known, rec
    <3>5. task[t].op = "resume" => task[t].session \in Known'
      BY <3>1, Zenon DEF Known
    <3>6. /\ Room /\ task[t].stage # "launched" => ~Running(task[t].session)'
          /\ task[t].op \in Creating /\ task[t].cmd # None => task[t].cmd \notin store'.answered
      BY <2>1, <3>1, Zenon DEF OwnInv, LaunchInv
    <3> QED
      BY <3>3, <3>4, <3>5, <3>6, Zenon
  <2> QED
    BY <2>1, Zenon DEF LaunchInv
<1>7. TakenInv'
  BY Fields, Zenon DEF OwnInv, TakenInv, TaskOK
<1>8. Room => WorkersAreAccounted'
  BY Zenon DEF OwnInv, WorkersAreAccounted, Working
<1> QED
  BY <1>2, <1>3, <1>4, <1>5, <1>6, <1>7, <1>8, Zenon DEF OwnInv

\* Where nothing is written, the records are as they were.
LEMMA OwnUnwritten ==
  ASSUME ShapeInv, OwnInv, UNCHANGED <<task, drawn, store, file>>,
         \A s \in Sessions : Running(s)' => Running(s),
         \A s \in Sessions : table[s] = NoWorker => table'[s] = NoWorker,
         Watched' \subseteq Watched \cup {None} \cup {s \in Sessions : Live(s)},
         monitor'.stage = "stopping" => table'[monitor'.session] = NoWorker
  PROVE  OwnInv'
<1>1. \A s \in Sessions : \/ rec'[s] = NoRecord
                          \/ s \in Known /\ rec'[s].presence # "none" /\ rec'[s].by = rec[s].by
  BY Zenon DEF OwnInv, LedgerInv, Known, rec
<1>2. \A s \in Sessions : Live(s)' <=> Live(s)
  BY Zenon DEF Live, rec
<1>3. \A t \in AllTasks : task[t].op = "resume" => rec'[task[t].session].presence # "none"
  BY Fields, NameAssumption, ZenonT(60) DEF OwnInv, LaunchInv, Launching, TaskOK, Known, rec
<1> QED
  BY <1>1, <1>2, <1>3, OwnRest, Zenon

\* The resume tasks' sessions are on record.
LEMMA ResumeKnown ==
  ASSUME ShapeInv, OwnInv
  PROVE  /\ \A t \in AllTasks : task[t].op = "resume" =>
              task[t].session \in Sessions /\ rec[task[t].session].presence # "none"
         /\ \A s \in Sessions : rec[s] = NoRecord \/ (s \in Known /\ rec[s].presence # "none")
BY Fields, NameAssumption, Zenon DEF OwnInv, LaunchInv, Launching, TaskOK, Known, LedgerInv, rec

\* The workers and the terminals.
LEMMA WorkerOwn ==
  ASSUME ~Overlap, ShapeInv, OwnInv, NEW s \in Sessions,
         Forget(s) \/ WorkerExits(s) \/ \E v \in Convs : FirstTurn(s, v)
  PROVE  OwnInv'
<1> USE Fields
<1>0. monitor.stage = "stopping" => monitor.session \in Sessions /\ table[monitor.session] = NoWorker
  BY Zenon DEF OwnInv, TakenInv, ShapeInv, MonitorOK
<1>1. CASE Forget(s)
  <2> DEFINE R == IF Live(s) THEN rec ELSE [rec EXCEPT ![s] = NoRecord]
  <2>1. /\ rec' = R /\ store'.answered = store.answered /\ (file' = store' \/ file' = file)
        /\ UNCHANGED <<task, drawn, table, monitor>>
    BY <1>1, AnsweredStore, ZenonT(60) DEF Forget, world
  <2>2. \A t \in AllTasks : task[t].session # s
    BY <1>1, NameAssumption, ClearOthers, Zenon DEF Forget
  <2>3. \A u \in Sessions : \/ rec'[u] = NoRecord
                            \/ u \in Known /\ rec'[u].presence # "none" /\ rec'[u].by = rec[u].by
    BY <2>1, ResumeKnown, Zenon
  <2>4. \A u \in Sessions : Live(u)' <=> Live(u)
    BY <2>1, Zenon DEF Live, NoRecord
  <2>5. \A t \in AllTasks : task[t].op = "resume" => rec'[task[t].session].presence # "none"
    BY <2>1, <2>2, ResumeKnown, Zenon
  <2> QED
    BY <1>0, <2>1, <2>3, <2>4, <2>5, OwnRest, Zenon DEF Watched, Running
<1>2. CASE WorkerExits(s)
  <2>1. \A u \in Sessions : /\ Running(u)' => Running(u)
                            /\ table[u] = NoWorker => table'[u] = NoWorker
    BY <1>2 DEF WorkerExits, Running, NoWorker, ShapeInv, TypeOK, Worker
  <2> QED
    BY <1>0, <1>2, <2>1, OwnUnwritten, Zenon DEF WorkerExits, Watched
<1>3. ASSUME NEW v \in Convs, FirstTurn(s, v) PROVE OwnInv'
  <2>1. \A u \in Sessions : /\ Running(u)' => Running(u)
                            /\ table[u] = NoWorker => table'[u] = NoWorker
    BY <1>3 DEF FirstTurn, Running, NoWorker, ShapeInv, TypeOK, Worker
  <2>2. CASE s \notin Known
    BY <1>0, <1>3, <2>1, <2>2, OwnUnwritten, Zenon DEF FirstTurn, Watched
  <2>3. CASE s \in Known
    <3> DEFINE r == [rec[s] EXCEPT !.conv = v]
    <3>1. /\ rec' = [rec EXCEPT ![s] = r] /\ store'.answered = store.answered
          /\ file' = store' \/ file' = file
      BY <1>3, <2>3, ZenonT(60) DEF FirstTurn, Saved, rec, ShapeInv, TypeOK, Store
    <3>2. r.presence = rec[s].presence /\ r.by = rec[s].by
      BY Zenon DEF Record
    <3>3. rec'[s] = r /\ \A u \in Sessions \ {s} : rec'[u] = rec[u]
      BY <3>1, Zenon
    <3> HIDE DEF r
    <3>4. \A u \in Sessions : \/ rec'[u] = NoRecord
                              \/ u \in Known /\ rec'[u].presence # "none" /\ rec'[u].by = rec[u].by
      BY <2>3, <3>2, <3>3, ResumeKnown, Zenon DEF Known
    <3>5. \A u \in Sessions : Live(u)' <=> Live(u)
      BY <3>2, <3>3, Zenon DEF Live
    <3>6. \A t \in AllTasks : task[t].op = "resume" => rec'[task[t].session].presence # "none"
      BY <3>2, <3>3, ResumeKnown, ZenonT(60)
    <3> QED
      BY <1>0, <1>3, <2>1, <3>1, <3>4, <3>5, <3>6, OwnRest, Zenon DEF FirstTurn, Watched
  <2> QED
    BY <2>2, <2>3, Zenon
<1> QED
  BY <1>1, <1>2, <1>3, Zenon

\* The monitor: what it finds is live, so no request is about to launch it.
LEMMA MonitorOwn ==
  ASSUME ShapeInv, OwnInv, Monitoring
  PROVE  OwnInv'
<1> USE Fields
<1>0. ExitRecorded(NoRecord) = NoRecord /\ OwnedElsewhere(NoRecord) = NoRecord
  BY Zenon DEF ExitRecorded, OwnedElsewhere, NoRecord
<1>1. CASE Watch
  <2>1. /\ rec' = AfterReap /\ store'.answered = store.answered /\ (file' = store' \/ file' = file)
        /\ UNCHANGED <<task, drawn>>
    <3>1. CASE Exited = {}
      <4>1. AfterReap = rec
        BY <3>1, Zenon DEF AfterReap
      <4> QED
        BY <1>1, <3>1, <4>1, Zenon DEF Watch, rec
    <3>2. CASE Exited # {}
      BY <1>1, <3>2, Zenon DEF Watch, Saved, rec, ShapeInv, TypeOK, Store
    <3> QED
      BY <3>1, <3>2, Zenon
  <2>2. \A u \in Sessions : AfterReap[u] = rec[u] \/ (u \in Exited /\ AfterReap[u] = ExitRecorded(rec[u]))
    BY Zenon DEF AfterReap
  <2>3. \A u \in Sessions : Kept(AfterReap[u], rec[u])
    BY <2>2, RecordKept DEF Kept
  <2>4. \A u \in Sessions : /\ Live(u)' => Live(u)
                            /\ u \notin Exited => (Live(u) => Live(u)')
    <3>1. \A u \in Sessions : ExitRecorded(rec[u]).presence # "live"
      BY Zenon DEF ExitRecorded, StoredAs, Record
    <3> QED
      BY <2>1, <2>2, <3>1, Zenon DEF Live
  <2>5. \A u \in Sessions : /\ Running(u)' => Running(u) /\ u \notin Exited
                            /\ table[u] = NoWorker => table'[u] = NoWorker
    BY <1>1, Zenon DEF Watch, Running, NoWorker, Exited
  <2>6. \A u \in Sessions : \/ rec'[u] = NoRecord
                            \/ u \in Known /\ rec'[u].presence # "none" /\ rec'[u].by = rec[u].by
    <3> SUFFICES ASSUME NEW u \in Sessions
                 PROVE  \/ AfterReap[u] = NoRecord
                        \/ u \in Known /\ AfterReap[u].presence # "none" /\ AfterReap[u].by = rec[u].by
      BY <2>1, Zenon
    <3>1. CASE u \in Known
      BY <2>3, <3>1, Zenon DEF Kept, Known
    <3>2. CASE u \notin Known
      BY <1>0, <2>2, <3>2, ResumeKnown, Zenon
    <3> QED
      BY <3>1, <3>2, Zenon
  <2>7. \A t \in AllTasks : task[t].op = "resume" => rec'[task[t].session].presence # "none"
    BY <2>1, <2>3, ResumeKnown, Zenon DEF Kept
  <2>8. /\ monitor'.stage # "stopping" /\ monitor'.session = None
        /\ monitor'.found \subseteq {u \in Sessions : Live(u)'}
    BY <1>1, <2>1, Zenon DEF Watch, Watching, Shared, Live
  <2> QED
    BY <2>1, <2>4, <2>5, <2>6, <2>7, <2>8, OwnRest, Zenon DEF Watched
<1>2. CASE Yielded
  <2>0. PICK s \in Sessions : s = monitor.session
    BY <1>2, Zenon DEF Yielded, MonitorOK, ShapeInv
  <2> DEFINE r == OwnedElsewhere(ExitRecorded(rec[s]))
  <2>1. s \in Sessions /\ table[s] = NoWorker
    BY <1>2, <2>0, Zenon DEF Yielded, MonitorOK, ShapeInv, OwnInv, TakenInv
  <2>2. /\ rec' = [rec EXCEPT ![s] = r] /\ store'.answered = store.answered
        /\ file' = store' \/ file' = file
        /\ UNCHANGED <<task, drawn, table>>
    BY <1>2, <2>0, Zenon DEF Yielded, Saved, rec, ShapeInv, TypeOK, Store
  <2>3. Kept(r, rec[s]) /\ r.presence # "live"
    <3>1. ExitRecorded(rec[s]) \in Record /\ Kept(ExitRecorded(rec[s]), rec[s])
      BY <2>1, RecordShapes, RecordKept, Zenon
    <3>2. Kept(r, ExitRecorded(rec[s]))
      BY <3>1, RecordKept, Zenon
    <3>3. \A q \in Record : ExitRecorded(q).presence # "live"
      BY Zenon DEF ExitRecorded, StoredAs, Record
    <3>4. \A q \in Record : q.presence # "live" => OwnedElsewhere(q).presence # "live"
      BY Zenon DEF OwnedElsewhere, Record
    <3> QED
      BY <2>1, <3>1, <3>2, <3>3, <3>4, Zenon DEF Kept
  <2>4. rec'[s] = r /\ \A u \in Sessions \ {s} : rec'[u] = rec[u]
    BY <2>1, <2>2, Zenon
  <2> HIDE DEF r
  <2>5. \A u \in Sessions : \/ rec'[u] = NoRecord
                            \/ u \in Known /\ rec'[u].presence # "none" /\ rec'[u].by = rec[u].by
    <3>1. CASE s \in Known
      BY <2>3, <2>4, <3>1, ResumeKnown, Zenon DEF Known, Kept
    <3>2. CASE s \notin Known
      BY <1>0, <2>1, <2>4, <3>2, ResumeKnown, Zenon DEF r
    <3> QED
      BY <3>1, <3>2, Zenon
  <2>6. \A u \in Sessions : /\ Live(u)' => Live(u)
                            /\ Running(u)' => Running(u) /\ (Live(u) => Live(u)')
    <3>1. ~Live(s)' /\ \A u \in Sessions \ {s} : Live(u)' <=> Live(u)
      BY <2>3, <2>4, Zenon DEF Live
    <3>2. ~Running(s)' /\ \A u \in Sessions : Running(u)' => Running(u)
      BY <2>1, <2>2, SMTT(30) DEF Running, NoWorker
    <3> QED
      BY <3>1, <3>2, Zenon
  <2>7. \A t \in AllTasks : task[t].op = "resume" => rec'[task[t].session].presence # "none"
    BY <2>3, <2>4, ResumeKnown, Zenon DEF Kept
  <2>8. monitor'.stage # "stopping" /\ monitor'.session = None /\ monitor'.found = monitor.found
    BY <1>2, Zenon DEF Yielded, Watching
  <2> QED
    BY <2>2, <2>5, <2>6, <2>7, <2>8, OwnRest, Zenon DEF Watched
<1>3. ASSUME NEW s \in Sessions, Yield(s) PROVE OwnInv'
  <2>1. \A u \in Sessions : /\ Running(u)' => Running(u)
                            /\ table[u] = NoWorker => table'[u] = NoWorker
    <3>1. table' = [table EXCEPT ![s] = NoWorker] /\ table \in [Sessions -> Worker]
      BY <1>3, Zenon DEF Yield, ShapeInv, TypeOK
    <3>2. table'[s] = NoWorker /\ \A u \in Sessions \ {s} : table'[u] = table[u]
      BY <3>1, Zenon
    <3>3. NoWorker.state # "running"
      BY Zenon DEF NoWorker
    <3> QED
      BY <3>2, <3>3, Zenon DEF Running
  <2>2. Watched' \subseteq Watched /\ table'[monitor'.session] = NoWorker
    BY <1>3, Zenon DEF Yield, Watched, ShapeInv, TypeOK
  <2> QED
    BY <1>3, <2>1, <2>2, OwnUnwritten, Zenon DEF Yield
<1> QED
  BY <1>1, <1>2, <1>3, Zenon DEF Monitoring

\* The records a restart loads, from the file.
LEMMA Loaded ==
  ASSUME ShapeInv, Restart
  PROVE  /\ file.records \in [Sessions -> Record] /\ file' = store' /\ store'.answered = file.answered
         /\ rec' = store'.records
         /\ \A s \in Sessions :
              rec'[s] = IF file.records[s].presence = "live" THEN StoredAs(file.records[s], "ended")
                        ELSE file.records[s]
         /\ \A s \in Sessions : Kept(rec'[s], file.records[s]) /\ ~Live(s)'
<1>1. file.records \in [Sessions -> Record] /\ file' = store' /\ rec' = store'.records
  BY Zenon DEF Restart, rec, ShapeInv, TypeOK, Store
<1>2. /\ store'.answered = file.answered
      /\ \A s \in Sessions :
           rec'[s] = IF file.records[s].presence = "live" THEN StoredAs(file.records[s], "ended")
                     ELSE file.records[s]
  BY Zenon DEF Restart, rec, ShapeInv, TypeOK, Store
<1>3. \A s \in Sessions : Kept(rec'[s], file.records[s]) /\ rec'[s].presence # "live"
  <2>1. \A r \in Record : Kept(r, r) /\ StoredAs(r, "ended").presence = "stored"
    BY Zenon DEF Kept, StoredAs, Record
  <2>2. \A r \in Record : r.presence = "live" => Kept(StoredAs(r, "ended"), r)
    BY RecordKept, Zenon DEF Reasons
  <2> QED
    BY <1>1, <1>2, <2>1, <2>2, Zenon
<1> QED
  BY <1>1, <1>2, <1>3, Zenon DEF Live

\* The daemon restarts: nothing runs, and the file says no more than was drawn and answered.
LEMMA RestartOwn ==
  ASSUME ShapeInv, OwnInv, Restart
  PROVE  OwnInv'
<1>1. KnownIn(store)' = KnownIn(file) /\ KnownIn(file)' = KnownIn(file)
  BY Loaded, ZenonT(60) DEF KnownIn, Kept
<1>2. /\ \A t \in AllTasks : task'[t] = Idle /\ task'[t].op = None /\ task'[t].session = None
      /\ \A t \in AllTasks : task'[t].conv = None /\ task'[t].cmd = None
      /\ \A s \in Sessions : ~Running(s)'
      /\ Watched' = {None} /\ monitor'.stage = "watch" /\ UNCHANGED drawn
  BY Constants, Zenon DEF Restart, Running, NoWorker, Watched, Watching
<1>3. LedgerInv(store)'
  <2>1. \A s \in Sessions : rec'[s].presence = "none" => rec'[s] = NoRecord
    BY Loaded, Zenon DEF OwnInv, LedgerInv, Kept
  <2>2. \A s \in KnownIn(file) : rec'[s].by = file.records[s].by
    BY Loaded, Zenon DEF KnownIn, Kept
  <2> QED
    BY <1>1, <2>1, <2>2, Loaded, SMTT(30) DEF OwnInv, LedgerInv
<1>4. LedgerInv(file)'
  BY <1>3, Loaded, ZenonT(60) DEF LedgerInv, KnownIn
<1>5. DistinctInv' /\ DrawnInv'
  BY <1>1, <1>2, Zenon DEF OwnInv, DistinctInv, DrawnInv
<1>6. LaunchInv' /\ TakenInv' /\ WorkersAreAccounted'
  BY <1>2, NameAssumption, Zenon DEF LaunchInv, TakenInv, WorkersAreAccounted, Launching, Creating, Taking, Ops
<1> QED
  BY <1>3, <1>4, <1>5, <1>6, Zenon DEF OwnInv

\* Requests that do not overlap stay apart.
LEMMA OwnNext == ~Overlap /\ ShapeInv /\ OwnInv /\ [Next]_vars => OwnInv'
<1> SUFFICES ASSUME ~Overlap, ShapeInv, OwnInv, [Next]_vars PROVE OwnInv'
  BY Zenon
<1>0. ASSUME UNCHANGED <<store, file, drawn, table, task, monitor>>
      PROVE  OwnInv'
  <2>1. store' = store /\ file' = file /\ drawn' = drawn /\ table' = table /\ task' = task
        /\ monitor' = monitor
    BY <1>0, Zenon
  <2>2. Known' = Known /\ Watched' = Watched /\ KnownIn(store)' = KnownIn(store)
        /\ KnownIn(file)' = KnownIn(file) /\ rec' = rec
    BY <2>1, Zenon DEF Known, KnownIn, rec, Watched
  <2>3. DistinctInv' /\ DrawnInv'
    BY <2>1, <2>2, Zenon DEF OwnInv, DistinctInv, DrawnInv
  <2>4. LedgerInv(store)' /\ LedgerInv(file)'
    BY <2>1, <2>2, Zenon DEF OwnInv, LedgerInv
  <2>5. LaunchInv'
    BY <2>1, <2>2, ZenonT(60) DEF OwnInv, LaunchInv, Running, Live
  <2>6. TakenInv'
    BY <2>1, Zenon DEF OwnInv, TakenInv
  <2>7. Room => WorkersAreAccounted'
    BY <2>1, <2>2, Zenon DEF OwnInv, WorkersAreAccounted, Running, Live, Working
  <2> QED
    BY <2>3, <2>4, <2>5, <2>6, <2>7, Zenon DEF OwnInv
<1>1. CASE \E t \in Tasks : Ask(t)
  BY <1>1, AskOwn, Zenon DEF AllTasks
<1>2. CASE \E t \in AllTasks : Proceed(t)
  BY <1>2, ProceedOwn, Zenon
<1>3. ASSUME NEW s \in Sessions, Recover(s) PROVE OwnInv'
  BY <1>3, OwnResume, Zenon DEF Recover, AllTasks
<1>4. CASE \E v \in Convs : OpenTerminal(v) \/ \E k \in Terminals : CloseTerminal(v, k)
  BY <1>0, <1>4, Zenon DEF OpenTerminal, CloseTerminal
<1>5. CASE UNCHANGED vars
  BY <1>0, <1>5, Zenon DEF vars
<1> QED
  BY <1>1, <1>2, <1>3, <1>4, <1>5, WorkerOwn, MonitorOwn, RestartOwn, Zenon DEF Next

\* Nothing is known of any session at first.
LEMMA OwnInit == Init => OwnInv
<1> SUFFICES ASSUME Init PROVE OwnInv
  BY Zenon
<1>1. /\ \A t \in AllTasks : task[t].op = None /\ task[t].session = None
      /\ \A t \in AllTasks : task[t].conv = None /\ task[t].cmd = None
      /\ \A s \in Sessions : ~Running(s) /\ Watched = {None} /\ monitor.stage = "watch"
      /\ \A s \in Sessions : store.records[s] = NoRecord
  BY Constants, Zenon DEF Init, Running, NoWorker, Watched, Watching
<1>2. Watched = {None} /\ monitor.stage = "watch" /\ file = store
  BY Zenon DEF Init, Watched, Watching
<1>3. KnownIn(store) = {}
  BY <1>1, SMTT(30) DEF KnownIn, NoRecord
<1>4. LedgerInv(store) /\ LedgerInv(file)
  BY <1>1, <1>2, <1>3, Zenon DEF LedgerInv
<1>5. DistinctInv /\ DrawnInv
  BY <1>1, <1>2, <1>3, Zenon DEF DistinctInv, DrawnInv
<1>6. LaunchInv /\ TakenInv /\ WorkersAreAccounted
  BY <1>1, <1>2, NameAssumption, Zenon DEF LaunchInv, TakenInv, WorkersAreAccounted, Launching, Creating, Taking, Ops
<1> QED
  BY <1>4, <1>5, <1>6, Zenon DEF OwnInv

\* RetryStartsOnce of ManagedSessions, where two requests in progress are never about the same
\* session, conversation or command: a command sent again has one session, also where saves fail
\* and a restart loads an older file.
THEOREM CommandsStartOnce == ASSUME ~Overlap PROVE Spec => []RetryStartsOnce
<1>1. OwnInv => RetryStartsOnce
  BY Zenon DEF OwnInv, LedgerInv, RetryStartsOnce, Known, KnownIn, rec
<1> QED
  BY <1>1, ShapeInit, ShapeNext, OwnInit, OwnNext, PTL DEF Spec

\* WorkersAreAccounted of ManagedSessions, under the same restriction and where the directory has
\* room for every session: a full one refuses the record of a worker that runs already.
THEOREM WorkersAreFoundAgain == ASSUME ~Overlap, Room PROVE Spec => []WorkersAreAccounted
<1>1. OwnInv => WorkersAreAccounted
  BY Zenon DEF OwnInv
<1> QED
  BY <1>1, ShapeInit, ShapeNext, OwnInit, OwnNext, PTL DEF Spec
-----------------------------------------------------------------------------
(* One worker for a conversation *)

ConvTask(k) ==
  /\ k.conv \in begun \cup {None}
  /\ k.op = "promote" => \A s \in Known : rec[s].conv # k.conv
  /\ k.op = "resume" => k.session \in Known /\ k.conv = rec[k.session].conv

\* Steps that begin no conversation and no worker, and record no new session.
LEMMA ConvStep ==
  ASSUME ShapeInv, ConvInv, begun \subseteq begun', \A v \in Convs : terms'[v] # {} => v \in begun',
         file' = store' \/ file' = file,
         \A s \in Sessions : rec'[s] = NoRecord \/ Kept(rec'[s], rec[s]),
         \A s \in Sessions : Running(s)' => /\ Running(s) /\ table'[s].conv = table[s].conv
                                            /\ s \in Known => s \in Known',
         \A t \in AllTasks : \/ task'[t] = task[t]
                             \/ ConvTask(task'[t]),
         \A t \in AllTasks : task'[t].op = "resume" => task'[t].session \in Known',
         \A t \in AllTasks : task[t].op = "promote" /\ task[t].session # None =>
           \/ task'[t].op = "promote" /\ task'[t].session = task[t].session /\ task'[t].conv = task[t].conv
           \/ table'[task[t].session].state # "running"
  PROVE  ConvInv'
<1>1. \A s \in Known' : s \in Known /\ rec'[s].conv = rec[s].conv
  <2>1. NoRecord.presence = "none"
    BY Zenon DEF NoRecord
  <2> QED
    BY <2>1, Zenon DEF Known, Kept
<1>2. Known = KnownIn(store) /\ Known' = KnownIn(store)'
  BY Zenon DEF Known, KnownIn, rec
<1>3. ConvsDiffer(store)'
  BY <1>1, <1>2, ZenonT(60) DEF ConvInv, ConvsDiffer, rec
<1>4. ConvsDiffer(file)'
  <2>1. CASE file' = store'
    BY <1>3, <2>1, Zenon DEF ConvsDiffer, KnownIn
  <2>2. CASE file' = file
    BY <2>2, Zenon DEF ConvInv, ConvsDiffer, KnownIn
  <2> QED
    BY <2>1, <2>2, Zenon
<1>5. \A s \in Sessions : rec'[s].conv \in begun \cup {None}
  <2>1. NoRecord.conv = None
    BY Zenon DEF NoRecord
  <2>2. \A s \in Sessions : rec[s].conv \in begun \cup {None}
    BY Zenon DEF ConvInv, BegunInv, rec
  <2> QED
    BY <2>1, <2>2, Zenon DEF Kept
<1>6. \A t \in AllTasks : ConvTask(task'[t]) \/ task'[t] = task[t]
  BY Zenon
<1>7. BegunInv'
  <2>1. \A s \in Sessions : store'.records[s].conv \in begun' \cup {None}
    BY <1>5, Zenon DEF rec
  <2>2. \A s \in Sessions : file'.records[s].conv \in begun' \cup {None}
    BY <2>1, Zenon DEF ConvInv, BegunInv
  <2>3. \A t \in AllTasks : task'[t].conv \in begun' \cup {None}
    BY <1>6, Zenon DEF ConvInv, BegunInv, ConvTask
  <2> QED
    BY <2>1, <2>2, <2>3, Zenon DEF BegunInv
<1>8. WorkerConvInv'
  <2> SUFFICES ASSUME NEW s \in Sessions, Running(s)', table'[s].conv # None
               PROVE  \/ s \in Known' /\ rec'[s].conv = table'[s].conv
                      \/ \E t \in AllTasks : /\ task'[t].op = "promote" /\ task'[t].session = s
                                             /\ task'[t].conv = table'[s].conv
    BY Zenon DEF WorkerConvInv
  <2>1. Running(s) /\ table'[s].conv = table[s].conv /\ (s \in Known => s \in Known')
    BY Zenon
  <2>2. \/ s \in Known /\ rec[s].conv = table[s].conv
        \/ \E t \in AllTasks : /\ task[t].op = "promote" /\ task[t].session = s
                               /\ task[t].conv = table[s].conv
    BY <2>1, Zenon DEF ConvInv, WorkerConvInv
  <2> QED
    BY <1>1, <2>1, <2>2, NameAssumption, Zenon DEF Running
<1>9. \A t \in AllTasks :
        /\ task'[t].op = "promote" => \A s \in Known' : rec'[s].conv # task'[t].conv
        /\ task'[t].op = "resume" => task'[t].conv = rec'[task'[t].session].conv
  <2>1. \A t \in AllTasks : task'[t].op = "promote" => \A s \in Known : rec[s].conv # task'[t].conv
    BY <1>6, SMTT(30) DEF ConvInv, ConvTask
  <2>2. \A t \in AllTasks : task'[t].op = "resume" => task'[t].conv = rec[task'[t].session].conv
    BY <1>6, ZenonT(60) DEF ConvInv, ConvTask
  <2> QED
    BY <1>1, <2>1, <2>2, ZenonT(60)
<1> QED
  BY <1>3, <1>4, <1>7, <1>8, <1>9, Zenon DEF ConvInv

\* One request takes a step that writes nothing.
LEMMA ConvTaskStep ==
  ASSUME ShapeInv, OwnInv, ConvInv, NEW t \in AllTasks, NEW n \in Task, TaskOK(n), ConvTask(n),
         task' = [task EXCEPT ![t] = n], UNCHANGED <<store, file, begun>>,
         \A v \in Convs : terms'[v] # {} => v \in begun,
         \A s \in Sessions : Running(s)' => Running(s) /\ table'[s].conv = table[s].conv,
         task[t].op = "promote" /\ task[t].session # None =>
           n.op = "promote" /\ n.session = task[t].session /\ n.conv = task[t].conv
  PROVE  ConvInv'
<1>1. task'[t] = n /\ \A u \in AllTasks \ {t} : task'[u] = task[u]
  BY TaskStep, Zenon
<1>2. Known' = Known /\ rec' = rec /\ \A s \in Sessions : Kept(rec'[s], rec[s])
  BY Zenon DEF Known, rec, Kept
<1>3. \A u \in AllTasks : task'[u].op = "resume" => task'[u].session \in Known'
  BY <1>1, <1>2, ResumeKnown, ZenonT(60) DEF ConvTask, Known
<1> QED
  BY <1>1, <1>2, <1>3, ConvStep, Zenon

\* A request ends, and records keep their conversations.
LEMMA ConvEnds ==
  ASSUME ShapeInv, OwnInv, ConvInv, NEW t \in AllTasks, task' = [task EXCEPT ![t] = Idle],
         NEW R, NEW c, Answered(R, c), \A s \in Sessions : Kept(R[s], rec[s]), UNCHANGED <<begun, table, terms>>,
         task[t].op = "promote" /\ task[t].session # None => ~Running(task[t].session)
  PROVE  ConvInv'
<1>1. task'[t] = Idle /\ \A u \in AllTasks \ {t} : task'[u] = task[u]
  BY TaskStep, Constants, Zenon
<1>2. rec' = R /\ (file' = store' \/ file' = file)
  BY AnsweredStore, Zenon
<1>3. Known' = Known /\ \A s \in Sessions : Kept(rec'[s], rec[s])
  BY <1>2, Zenon DEF Known, Kept
<1>4. ConvTask(Idle) /\ Idle.op # "resume"
  BY Constants, NameAssumption, Zenon DEF ConvTask, Ops
<1>5. \A u \in AllTasks : task'[u].op = "resume" => task'[u].session \in Known'
  BY <1>1, <1>3, <1>4, ResumeKnown, Zenon DEF Known
<1>6. \A v \in Convs : terms'[v] # {} => v \in begun'
  BY Zenon DEF ConvInv, BegunInv
<1>7. \A s \in Sessions : Running(s)' <=> Running(s)
  BY Zenon DEF Running
<1>8. task[t].op = "promote" /\ task[t].session # None => table'[task[t].session].state # "running"
  BY Zenon DEF Running
<1> QED
  BY <1>1, <1>2, <1>3, <1>4, <1>5, <1>6, <1>7, <1>8, ConvStep, Zenon

\* Before its worker is launched, none runs the session of a takeover.
LEMMA NotYetRunning ==
  ASSUME Room, ShapeInv, OwnInv, NEW t \in AllTasks, task[t].stage # "launched"
  PROVE  task[t].op = "promote" /\ task[t].session # None => ~Running(task[t].session)
BY Zenon DEF OwnInv, LaunchInv, Launching, Creating

\* A request is refused.
LEMMA ConvRefused ==
  ASSUME Room, ShapeInv, OwnInv, ConvInv, NEW t \in AllTasks, NEW c, Refused(t, c),
         task[t].stage # "launched", UNCHANGED <<begun, table, terms>>
  PROVE  ConvInv'
<1>1. \A s \in Sessions : Kept(rec[s], rec[s])
  BY Zenon DEF Kept
<1> QED
  BY <1>1, ConvEnds, NotYetRunning, Zenon DEF Refused

\* A resume begins.
LEMMA ConvResume ==
  ASSUME Room, ShapeInv, OwnInv, ConvInv, NEW t \in AllTasks, NEW s \in Sessions, Resume(t, s),
         UNCHANGED <<begun, table, terms>>
  PROVE  ConvInv'
<1>1. task[t].stage = "idle" /\ task[t].op = None
  BY Fields, Constants, Zenon DEF Resume, TaskOK
<1>2. CASE Resumable(s)
  <2> DEFINE g == IF HandedBack(s) /\ rec[s].handback THEN "closing" ELSE "probing"
             n == [Request("resume", s, None) EXCEPT !.conv = rec[s].conv, !.gen = rec[s].gen, !.stage = g]
  <2>1. n \in Task /\ TaskOK(n)
    BY RequestShapes, Fields, Zenon DEF Resume
  <2>2. task' = [task EXCEPT ![t] = n] /\ UNCHANGED <<store, file>>
    BY <1>2, Zenon DEF Resume
  <2>3. n.op = "resume" /\ n.session = s /\ n.conv = rec[s].conv
    BY Zenon DEF Request, Idle
  <2>4. s \in Known /\ rec[s].conv \in begun \cup {None}
    BY <1>2, Zenon DEF Resumable, ConvInv, BegunInv, rec
  <2> HIDE DEF n
  <2>5. ConvTask(n)
    BY <2>3, <2>4, Zenon DEF ConvTask
  <2>6. \A v \in Convs : terms'[v] # {} => v \in begun
    BY Zenon DEF ConvInv, BegunInv
  <2>7. task[t].op # "promote"
    BY <1>1, NameAssumption, Zenon DEF Ops
  <2> QED
    BY <2>1, <2>2, <2>5, <2>6, <2>7, ConvTaskStep, Zenon DEF Running
<1>3. CASE ~Resumable(s)
  BY <1>1, <1>3, ConvRefused, Zenon DEF Resume
<1> QED
  BY <1>2, <1>3, Zenon

\* The requests begin; a conversation that is taken over has no record.
LEMMA AskConv ==
  ASSUME ~TakeoverKnown, Room, ShapeInv, OwnInv, ConvInv, NEW t \in AllTasks, Ask(t)
  PROVE  ConvInv'
<1>0. task[t].stage = "idle" => task[t].op # "promote"
  BY Fields, Constants, NameAssumption, Zenon DEF TaskOK, Ops
<1>1. \A v \in Convs : terms[v] # {} => v \in begun
  BY Zenon DEF ConvInv, BegunInv
<1>2. ASSUME NEW c \in Commands \cup {None}, NEW s \in Sessions, Start(t, c, s)
      PROVE  ConvInv'
  <2> DEFINE n == [Request("start", s, c) EXCEPT !.stage = "launching"]
  <2>1. n \in Task /\ TaskOK(n)
    BY RequestShapes, Zenon
  <2>2. n.op = "start" /\ n.conv = None
    BY Zenon DEF Request, Idle
  <2>3. task' = [task EXCEPT ![t] = n] /\ task[t].stage = "idle"
    BY <1>2, Zenon DEF Start, Begin
  <2> HIDE DEF n
  <2>4. ConvTask(n)
    BY <2>2, Zenon DEF ConvTask
  <2> QED
    BY <1>0, <1>1, <1>2, <2>1, <2>3, <2>4, ConvTaskStep, Zenon DEF Start, Running
<1>3. ASSUME NEW c \in Commands \cup {None}, NEW v \in Convs, NEW k \in Terminals, Promote(t, c, v, k)
      PROVE  ConvInv'
  <2> DEFINE n == [Request("promote", None, c) EXCEPT !.stage = "preflight", !.conv = v, !.terminal = k]
  <2>1. n \in Task /\ TaskOK(n)
    BY RequestShapes, Zenon
  <2>2. n.op = "promote" /\ n.conv = v
    BY Zenon DEF Request, Idle
  <2>3. task' = [task EXCEPT ![t] = n] /\ task[t].stage = "idle"
    BY <1>3, Zenon DEF Promote, Begin
  <2>4. v \in begun /\ \A s \in Known : rec[s].conv # v
    BY <1>1, <1>3, Zenon DEF Promote
  <2> HIDE DEF n
  <2>5. ConvTask(n)
    BY <2>2, <2>4, Zenon DEF ConvTask
  <2> QED
    BY <1>0, <1>1, <1>3, <2>1, <2>3, <2>5, ConvTaskStep, Zenon DEF Promote, Running, world
<1>4. ASSUME NEW s \in Sessions, NEW n \in Task, TaskOK(n), n.op \in Taking, n.conv \in {rec[s].conv, None},
             task' = [task EXCEPT ![t] = n], task[t].stage = "idle",
             table' = [table EXCEPT ![s] = NoWorker], UNCHANGED <<store, file, begun, terms>>
      PROVE  ConvInv'
  <2>1. ConvTask(n)
    BY <1>4, Zenon DEF ConvTask, ConvInv, BegunInv, rec, Taking
  <2>2. \A u \in Sessions : Running(u)' => Running(u) /\ table'[u] = table[u]
    BY <1>4, Zenon DEF ShapeInv, TypeOK, Running, NoWorker
  <2> QED
    BY <1>0, <1>1, <1>4, <2>1, <2>2, ConvTaskStep, Zenon
<1>5. ASSUME NEW s \in Sessions, Release(t, s)
      PROVE  ConvInv'
  <2>1. CASE rec[s].conv # None
    <3> DEFINE g == IF table[s] = NoWorker THEN "stopped" ELSE "stopping"
               n == [[Request("release", s, None) EXCEPT !.conv = rec[s].conv] EXCEPT
                       !.worker = table[s], !.stage = g]
    <3>1. n \in Task /\ TaskOK(n)
      BY <2>1, RequestShapes, Fields, Zenon
    <3>2. [Request("release", s, None) EXCEPT !.conv = rec[s].conv].session = s
      BY Zenon DEF Request, Idle
    <3>3. /\ task' = [task EXCEPT ![t] = n] /\ table' = [table EXCEPT ![s] = NoWorker]
          /\ UNCHANGED <<store, file, drawn, begun, terms, monitor, owed>> /\ task[t].stage = "idle"
      BY <1>5, <2>1, <3>2, Zenon DEF Release, Taken
    <3>4. n.op \in Taking /\ n.conv = rec[s].conv
      BY Zenon DEF Request, Idle, Taking
    <3> HIDE DEF n
    <3> QED
      BY <1>4, <3>1, <3>3, <3>4, Zenon
  <2>2. CASE rec[s].conv = None
    BY <1>5, <2>2, ConvRefused, Zenon DEF Release, world
  <2> QED
    BY <2>1, <2>2, Zenon
<1>6. ASSUME NEW s \in Sessions, NEW i \in 1..MaxGen, Stop(t, s, i)
      PROVE  ConvInv'
  <2>1. CASE Live(s) /\ rec[s].gen = i
    <3> DEFINE g == IF table[s] = NoWorker THEN "stopped" ELSE "stopping"
               n == [Request("stop", s, None) EXCEPT !.worker = table[s], !.stage = g]
    <3>1. n \in Task /\ TaskOK(n)
      BY RequestShapes, Fields, Zenon
    <3>2. Request("stop", s, None).session = s
      BY Zenon DEF Request, Idle
    <3>3. /\ task' = [task EXCEPT ![t] = n] /\ table' = [table EXCEPT ![s] = NoWorker]
          /\ UNCHANGED <<store, file, drawn, begun, terms, monitor, owed>> /\ task[t].stage = "idle"
      BY <1>6, <2>1, <3>2, Zenon DEF Stop, Taken
    <3>4. n.op \in Taking /\ n.conv = None
      BY Zenon DEF Request, Idle, Taking
    <3> HIDE DEF n
    <3> QED
      BY <1>4, <3>1, <3>3, <3>4, Zenon
  <2>2. CASE ~(Live(s) /\ rec[s].gen = i)
    BY <1>6, <2>2, ConvRefused, Zenon DEF Stop, world
  <2> QED
    BY <2>1, <2>2, Zenon
<1>7. ASSUME NEW s \in Sessions, ResumeRequest(t, s)
      PROVE  ConvInv'
  BY <1>7, ConvResume, Zenon DEF ResumeRequest, world
<1> QED
  BY <1>2, <1>3, <1>5, <1>6, <1>7, Zenon DEF Ask

\* A request goes on with its conversation.
LEMMA ConvGoesOn ==
  ASSUME ShapeInv, OwnInv, ConvInv, NEW t \in AllTasks, NEW n \in Task, TaskOK(n),
         task' = [task EXCEPT ![t] = n],
         \/ /\ n.op = task[t].op /\ n.conv = task[t].conv
            /\ n.session = task[t].session \/ (n.op = "promote" /\ task[t].session = None)
         \/ n = Idle /\ task[t].session = None,
         \A v \in Convs : terms'[v] # {} => v \in begun, UNCHANGED <<store, file, begun, table>>
  PROVE  ConvInv'
<1>1. ConvTask(task[t]) /\ ConvTask(Idle)
  BY ResumeKnown, Constants, NameAssumption, Zenon DEF ConvInv, BegunInv, ConvTask, Known, Ops
<1>2. ConvTask(n)
  BY <1>1, Zenon DEF ConvTask
<1> QED
  BY <1>2, ConvTaskStep, Zenon DEF Running

\* The worker of a request is launched with its conversation.
LEMMA ConvLaunch ==
  ASSUME ShapeInv, OwnInv, ConvInv, NEW t \in AllTasks, Launch(t)
  PROVE  ConvInv'
<1>0. PICK s \in Sessions : s = task[t].session
  BY Fields, Zenon DEF Launch, Step, TaskOK
<1> DEFINE n == To(t, "launched")
<1>1. n \in Task /\ TaskOK(n) /\ task' = [task EXCEPT ![t] = n] /\ task[t].stage = "launching"
  BY Fields, StageShapes, Zenon DEF Launch, Step, To
<1>2. n.op = task[t].op /\ n.session = s /\ n.conv = task[t].conv
  BY <1>0, Fields, Zenon DEF To, Task
<1> HIDE DEF n
<1>3. task'[t] = n /\ \A u \in AllTasks \ {t} : task'[u] = task[u]
  BY <1>1, TaskStep, Zenon
<1>4. /\ table'[s].conv = task[t].conv /\ \A u \in Sessions \ {s} : table'[u] = table[u]
      /\ UNCHANGED <<store, file, begun, terms>>
  BY <1>0, Zenon DEF Launch, ShapeInv, TypeOK
<1>5. ConvsDiffer(store)' /\ ConvsDiffer(file)'
  BY <1>4, Zenon DEF ConvInv, ConvsDiffer, KnownIn
<1>6. BegunInv'
  BY <1>2, <1>3, <1>4, Zenon DEF ConvInv, BegunInv
<1>7. WorkerConvInv'
  <2>1. ASSUME NEW u \in Sessions \ {s}, Running(u)', table'[u].conv # None
        PROVE  \/ u \in Known' /\ rec'[u].conv = table'[u].conv
               \/ \E k \in AllTasks : /\ task'[k].op = "promote" /\ task'[k].session = u
                                      /\ task'[k].conv = table'[u].conv
    <3>1. \/ u \in Known /\ rec[u].conv = table[u].conv
          \/ \E k \in AllTasks : /\ task[k].op = "promote" /\ task[k].session = u
                                 /\ task[k].conv = table[u].conv
      BY <1>4, <2>1, ZenonT(60) DEF ConvInv, WorkerConvInv, Running
    <3> QED
      BY <1>0, <1>2, <1>3, <1>4, <2>1, <3>1, Zenon DEF Known, rec
  <2>2. ASSUME table'[s].conv # None
        PROVE  \/ s \in Known' /\ rec'[s].conv = table'[s].conv
               \/ \E k \in AllTasks : /\ task'[k].op = "promote" /\ task'[k].session = s
                                      /\ task'[k].conv = table'[s].conv
    <3>1. task[t].op = "promote" \/ task[t].op = "resume"
      BY <1>1, <1>4, <2>2, Fields, Zenon DEF TaskOK, Launching, Creating
    <3>2. task[t].op = "resume" => s \in Known /\ rec[s].conv = task[t].conv
      BY <1>0, ResumeKnown, Zenon DEF ConvInv, Known
    <3> QED
      BY <1>2, <1>3, <1>4, <3>1, <3>2, Zenon DEF Known, rec
  <2> QED
    BY <2>1, <2>2, Zenon DEF WorkerConvInv
<1>8. \A u \in AllTasks :
        /\ task'[u].op = "promote" => \A k \in Known' : rec'[k].conv # task'[u].conv
        /\ task'[u].op = "resume" => task'[u].conv = rec'[task'[u].session].conv
  BY <1>0, <1>2, <1>3, <1>4, SMTT(30) DEF ConvInv, Known, rec
<1> QED
  BY <1>5, <1>6, <1>7, <1>8, Zenon DEF ConvInv

\* A session is recorded with the conversation its worker has.
LEMMA ConvStarted ==
  ASSUME Room, ShapeInv, OwnInv, ConvInv, NEW t \in AllTasks, Started(t)
  PROVE  ConvInv'
<1>0. PICK s \in Sessions : s = task[t].session
  BY Fields, Zenon DEF Started, Step, TaskOK
<1> DEFINE r == [NoRecord EXCEPT !.presence = "live", !.conv = task[t].conv, !.gen = 1, !.by = task[t].cmd]
           R == [rec EXCEPT ![s] = r]
<1>1. s # None /\ s \notin Known /\ task[t].op \in {"start", "promote"}
  BY <1>0, NameAssumption, Zenon DEF Started, OwnInv, LaunchInv, Launching, Creating
<1>2. /\ task'[t] = Idle /\ \A u \in AllTasks \ {t} : task'[u] = task[u]
      /\ Idle.session = None /\ Idle.conv = None /\ Idle.op \notin Ops
  BY TaskStep, Constants, NameAssumption, Zenon DEF Started, Step
<1>3. r.presence = "live" /\ r.conv = task[t].conv
  BY Zenon DEF NoRecord
<1>4. rec' = R /\ store'.records = R /\ (file' = store' \/ file' = file)
  BY <1>0, <1>1, AnsweredStore, StoreHasRoom, Zenon DEF Started
<1>5. R[s] = r /\ \A u \in Sessions \ {s} : R[u] = rec[u]
  BY Fields, Zenon
<1> HIDE DEF R, r
<1>6. UNCHANGED <<begun, table, terms>>
  BY Zenon DEF Started, world
<1>7. /\ Known' = Known \cup {s} /\ Known = KnownIn(store) /\ Known' = KnownIn(store)'
      /\ \A u \in Known : u \in Sessions \ {s} /\ R[u] = rec[u]
  BY <1>1, <1>3, <1>4, <1>5, SMTT(30) DEF KnownIn, Known, rec
<1>8. task[t].conv # None => task[t].op = "promote" /\ \A u \in Known : rec[u].conv # task[t].conv
  BY <1>1, Fields, Zenon DEF ConvInv, TaskOK
<1>9. ConvsDiffer(store)'
  <2>1. \A u, w \in Known : rec[u].conv # None /\ rec[u].conv = rec[w].conv => u = w
    BY <1>7, Zenon DEF ConvInv, ConvsDiffer, rec
  <2>2. \A u, w \in Known \cup {s} : R[u].conv # None /\ R[u].conv = R[w].conv => u = w
    BY <1>3, <1>5, <1>7, <1>8, <2>1, SMTT(30)
  <2> QED
    BY <1>4, <1>7, <2>2, Zenon DEF ConvsDiffer
<1>10. ConvsDiffer(file)'
  BY <1>4, <1>9, SMTT(30) DEF ConvInv, ConvsDiffer, KnownIn
<1>11. BegunInv'
  <2>1. \A u \in Sessions : R[u].conv \in begun \cup {None}
    BY <1>3, <1>5, Zenon DEF ConvInv, BegunInv, rec
  <2> QED
    BY <1>2, <1>4, <1>6, <2>1, Zenon DEF ConvInv, BegunInv
<1>12. WorkerConvInv'
  <2> SUFFICES ASSUME NEW u \in Sessions, Running(u)', table'[u].conv # None
               PROVE  \/ u \in Known' /\ rec'[u].conv = table'[u].conv
                      \/ \E k \in AllTasks : /\ task'[k].op = "promote" /\ task'[k].session = u
                                             /\ task'[k].conv = table'[u].conv
    BY Zenon DEF WorkerConvInv
  <2>1. \/ u \in Known /\ rec[u].conv = table[u].conv
        \/ \E k \in AllTasks : /\ task[k].op = "promote" /\ task[k].session = u
                               /\ task[k].conv = table[u].conv
    BY <1>6, Zenon DEF ConvInv, WorkerConvInv, Running
  <2> QED
    BY <1>0, <1>2, <1>3, <1>4, <1>5, <1>6, <1>7, <2>1, ZenonT(60)
<1>13. \A u \in AllTasks \ {t} : task[u].op = "promote" => task[u].conv # task[t].conv
  BY Fields, NameAssumption, Zenon DEF OwnInv, DistinctInv, TaskOK
<1>14. \A u \in AllTasks \ {t} : task[u].op = "resume" => task[u].session \in Known
  BY ResumeKnown, Zenon DEF Known
<1>15. \A u \in AllTasks :
        /\ task'[u].op = "promote" => \A k \in Known' : rec'[k].conv # task'[u].conv
        /\ task'[u].op = "resume" => task'[u].conv = rec'[task'[u].session].conv
  <2>1. ASSUME NEW u \in AllTasks \ {t}, task[u].op = "promote", NEW k \in Known'
        PROVE  rec'[k].conv # task[u].conv
    BY <1>3, <1>4, <1>5, <1>7, <1>13, <2>1, SMTT(30) DEF ConvInv
  <2>2. ASSUME NEW u \in AllTasks \ {t}, task[u].op = "resume"
        PROVE  task[u].conv = rec'[task[u].session].conv
    BY <1>4, <1>7, <1>14, <2>2, Zenon DEF ConvInv
  <2> QED
    BY <1>2, <2>1, <2>2, Zenon DEF Ops
<1> QED
  BY <1>9, <1>10, <1>11, <1>12, <1>15, Zenon DEF ConvInv

\* The requests go on.
LEMMA ProceedConv ==
  ASSUME Room, ShapeInv, OwnInv, ConvInv, NEW t \in AllTasks, Proceed(t)
  PROVE  ConvInv'
<1> USE Fields
<1>0. ASSUME NEW g \in Stages
      PROVE  To(t, g).op = task[t].op /\ To(t, g).session = task[t].session /\ To(t, g).conv = task[t].conv
  BY Zenon DEF To, Task
<1>1. \A v \in Convs : terms[v] # {} => v \in begun
  BY Zenon DEF ConvInv, BegunInv
<1>2. CASE LaunchRefused(t) \/ ProbeRefused(t)
  BY <1>2, ConvRefused, Zenon DEF LaunchRefused, ProbeRefused, world
<1>3. ASSUME NEW g \in Stages, To(t, g) \in Task, TaskOK(To(t, g)), task' = [task EXCEPT ![t] = To(t, g)],
             \A v \in Convs : terms'[v] # {} => v \in begun, UNCHANGED <<store, file, begun, table>>
      PROVE  ConvInv'
  BY <1>0, <1>3, ConvGoesOn, Zenon
<1>4. CASE Preflight(t)
  <2>1. CASE task' = [task EXCEPT ![t] = Idle]
    BY <1>1, <1>4, <2>1, ConvGoesOn, Constants, Zenon DEF Preflight, Step, TaskOK, world
  <2>2. CASE task' = [task EXCEPT ![t] = To(t, "evicting")]
    BY <1>1, <1>3, <1>4, <2>2, StageShapes, Zenon DEF Preflight, Step, To, Stages, world
  <2> QED
    BY <1>4, <2>1, <2>2, Zenon DEF Preflight, Step
<1>5. CASE Evict(t)
  <2>1. \A v \in Convs : terms'[v] # {} => v \in begun
    BY <1>1, <1>5, Zenon DEF Evict, ShapeInv, TypeOK
  <2> QED
    BY <1>3, <1>5, <2>1, StageShapes, Zenon DEF Evict, Step, To, Stages
<1>6. CASE EvictFails(t)
  BY <1>1, <1>6, ConvGoesOn, Constants, Zenon DEF EvictFails, Step, TaskOK, world
<1>7. ASSUME NEW s \in Sessions, Adopt(t, s)
      PROVE  ConvInv'
  <2> DEFINE n == [To(t, "launching") EXCEPT !.session = s]
  <2>1. n \in Task /\ TaskOK(n) /\ task[t].stage = "adopting" /\ task' = [task EXCEPT ![t] = n]
    BY <1>7, StageShapes, Zenon DEF Adopt, Step, To
  <2>2. n.op = task[t].op /\ n.conv = task[t].conv /\ n.op = "promote" /\ task[t].session = None
    BY <2>1, Zenon DEF To, Task, TaskOK
  <2> HIDE DEF n
  <2> QED
    BY <1>1, <1>7, <2>1, <2>2, ConvGoesOn, Zenon DEF Adopt
<1>8. CASE AdoptRefused(t)
  <2>1. CASE Refused(t, task[t].cmd)
    BY <1>8, <2>1, ConvRefused, Zenon DEF AdoptRefused, world
  <2>2. CASE Step(t, "adopting", Idle) /\ UNCHANGED <<store, file>>
    BY <1>1, <1>8, <2>2, ConvGoesOn, Constants, Zenon DEF AdoptRefused, Step, TaskOK, world
  <2> QED
    BY <1>8, <2>1, <2>2, Zenon DEF AdoptRefused
<1>9. CASE Terminated(t)
  <2> DEFINE n == [To(t, "stopped") EXCEPT !.worker = NoWorker]
  <2>1. n \in Task /\ TaskOK(n) /\ task' = [task EXCEPT ![t] = n]
    BY <1>9, StageShapes, Zenon DEF Terminated, Step, To
  <2>2. n.op = task[t].op /\ n.session = task[t].session /\ n.conv = task[t].conv
    BY Zenon DEF To, Task
  <2> HIDE DEF n
  <2> QED
    BY <1>1, <1>9, <2>1, <2>2, ConvGoesOn, Zenon DEF Terminated, world
<1>10. ASSUME NEW r, task[t].session \in Known, Kept(r, rec[task[t].session]),
              task' = [task EXCEPT ![t] = Idle], task[t].op # "promote",
              Answered([rec EXCEPT ![task[t].session] = r], task[t].cmd), UNCHANGED world
       PROVE  ConvInv'
  <2> DEFINE R == [rec EXCEPT ![task[t].session] = r]
  <2>1. \A s \in Sessions : Kept(R[s], rec[s])
    BY <1>10, Zenon DEF Known, Kept
  <2>2. Answered(R, task[t].cmd) /\ UNCHANGED <<begun, table, terms>>
    BY <1>10, Zenon DEF world
  <2> HIDE DEF R
  <2> QED
    BY <1>10, <2>1, <2>2, ConvEnds, Zenon
<1>11. ASSUME task' = [task EXCEPT ![t] = Idle], task[t].op # "promote", Answered(rec, task[t].cmd),
              UNCHANGED world
       PROVE  ConvInv'
  BY <1>11, ConvEnds, Zenon DEF Kept, world
<1>12. task[t].session \in Known => rec[task[t].session] \in Record /\ rec[task[t].session].presence # "none"
  BY Zenon DEF Known
<1>13. CASE Stopped(t)
  <2>1. task[t].session \in Known => Kept(StoredAs(rec[task[t].session], "ended"), rec[task[t].session])
    BY <1>12, RecordKept, Zenon DEF Reasons
  <2> QED
    BY <1>10, <1>11, <1>13, <2>1, Zenon DEF Stopped, Step
<1>14. CASE Released(t)
  <2> DEFINE r == [StoredAs(rec[task[t].session], "released") EXCEPT !.external = TRUE, !.handback = task[t].back]
  <2>1. task[t].op # "promote"
    BY <1>14, Zenon DEF Released, Step, TaskOK
  <2>2. task[t].session \in Known => Kept(r, rec[task[t].session])
    BY <1>12, RecordKept, Zenon
  <2>3. /\ task' = [task EXCEPT ![t] = Idle] /\ UNCHANGED world
        /\ task[t].session \in Known => Answered([rec EXCEPT ![task[t].session] = r], task[t].cmd)
        /\ task[t].session \notin Known => Answered(rec, task[t].cmd)
    BY <1>14, <1>12, Zenon DEF Released, Step, Known
  <2> HIDE DEF r
  <2> QED
    BY <1>10, <1>11, <2>1, <2>2, <2>3, Zenon
<1>15. CASE HandBack(t)
  <2>1. task[t].op = "release" /\ task[t].stage = "stopped" /\ task[t].conv \in begun
    BY <1>15, NameAssumption, Zenon DEF HandBack, Step, ConvInv, BegunInv, TaskOK
  <2>2. \A v \in Convs : terms'[v] # {} => v \in begun
    BY <1>1, <1>15, <2>1, Zenon DEF HandBack, ShapeInv, TypeOK
  <2>3. PICK n \in Task : /\ TaskOK(n) /\ task' = [task EXCEPT ![t] = n]
                          /\ n.op = task[t].op /\ n.session = task[t].session /\ n.conv = task[t].conv
    <3> DEFINE m == [To(t, "handed") EXCEPT !.back = TRUE]
    <3>1. m.op = task[t].op /\ m.session = task[t].session /\ m.conv = task[t].conv
      BY Zenon DEF To, Task
    <3>2. To(t, "handed") \in Task /\ TaskOK(To(t, "handed"))
      BY <2>1, StageShapes, Zenon DEF To
    <3>3. m \in Task /\ TaskOK(m)
      BY <2>1, StageShapes, Zenon DEF To
    <3> QED
      BY <1>0, <1>15, <3>1, <3>2, <3>3, Zenon DEF HandBack, Step, Stages
  <2> QED
    BY <1>15, <2>2, <2>3, ConvGoesOn, Zenon DEF HandBack
<1>16. CASE Close(t)
  <2>1. \A v \in Convs : terms'[v] # {} => v \in begun
    BY <1>1, <1>16, Zenon DEF Close, ShapeInv, TypeOK
  <2> QED
    BY <1>3, <1>16, <2>1, StageShapes, Zenon DEF Close, Step, To, Stages
<1>17. CASE Probe(t)
  BY <1>1, <1>3, <1>17, StageShapes, Zenon DEF Probe, Step, To, Stages, world
<1>18. CASE Resumed(t)
  <2> DEFINE r == [rec[task[t].session] EXCEPT !.presence = "live", !.reason = "none", !.external = FALSE,
                                               !.handback = FALSE, !.gen = task[t].gen + 1]
  <2>1. task[t].op # "promote"
    BY <1>18, Zenon DEF Resumed
  <2>2. task[t].session \in Known => Kept(r, rec[task[t].session])
    BY <1>12, RecordKept, Zenon
  <2>3. /\ task' = [task EXCEPT ![t] = Idle] /\ UNCHANGED world
        /\ task[t].session \in Known => Answered([rec EXCEPT ![task[t].session] = r], task[t].cmd)
        /\ task[t].session \notin Known => Answered(rec, task[t].cmd)
    BY <1>18, Zenon DEF Resumed, Step
  <2> HIDE DEF r
  <2> QED
    BY <1>10, <1>11, <2>1, <2>2, <2>3, Zenon
<1> QED
  BY Zenon, <1>2, <1>4, <1>5, <1>6, <1>7, <1>8, <1>9, <1>13, <1>14, <1>15, <1>16, <1>17, <1>18,
     ConvLaunch, ConvStarted
  DEF Proceed

\* The world moves, with the requests where they are.
LEMMA ConvRest ==
  ASSUME ShapeInv, OwnInv, ConvInv, UNCHANGED task, begun \subseteq begun',
         \A v \in Convs : terms'[v] # {} => v \in begun', file' = store' \/ file' = file,
         \A s \in Sessions : rec'[s] = NoRecord \/ Kept(rec'[s], rec[s]),
         \A s \in Sessions : Running(s)' => /\ Running(s) /\ table'[s].conv = table[s].conv
                                            /\ s \in Known => s \in Known',
         \A t \in AllTasks : task[t].session \in Known => task[t].session \in Known'
  PROVE  ConvInv'
<1>1. \A t \in AllTasks : task'[t].op = "resume" => task'[t].session \in Known'
  BY ResumeKnown, Zenon DEF Known
<1> QED
  BY <1>1, ConvStep, Zenon

\* The first turn begins a conversation nobody has.
LEMMA ConvFirstTurn ==
  ASSUME Room, ShapeInv, OwnInv, ConvInv, NEW s \in Sessions, NEW v \in Convs, FirstTurn(s, v)
  PROVE  ConvInv'
<1> USE Fields
<1> DEFINE r == [rec[s] EXCEPT !.conv = v]
<1>1. s \in Known /\ \A t \in AllTasks : task[t].session # s
  BY Zenon DEF FirstTurn, OwnInv, WorkersAreAccounted, Running, Working, Live, Known
<1>2. rec' = [rec EXCEPT ![s] = r] /\ store'.records = rec' /\ (file' = store' \/ file' = file)
  BY <1>1, Zenon DEF FirstTurn, Saved, rec, ShapeInv, TypeOK, Store
<1>3. r.conv = v /\ r.presence = rec[s].presence
  BY Zenon DEF Record
<1>4. rec'[s] = r /\ \A u \in Sessions \ {s} : rec'[u] = rec[u]
  BY <1>2, Zenon
<1> HIDE DEF r
<1>5. /\ v \notin begun /\ begun' = begun \cup {v} /\ UNCHANGED <<task, terms>> /\ v # None
      /\ table'[s].conv = v /\ \A u \in Sessions \ {s} : table'[u] = table[u]
  BY NameAssumption, Zenon DEF FirstTurn, ShapeInv, TypeOK, Worker
<1>6. Known' = Known /\ Known = KnownIn(store) /\ Known' = KnownIn(store)' /\ Known \subseteq Sessions
  BY <1>2, <1>3, <1>4, Zenon DEF Known, KnownIn, rec
<1>7. \A u \in Sessions : rec[u].conv # v
  BY <1>5, Zenon DEF ConvInv, BegunInv, rec
<1>8. ConvsDiffer(store)'
  <2>1. \A u, w \in Known : rec[u].conv # None /\ rec[u].conv = rec[w].conv => u = w
    BY <1>6, Zenon DEF ConvInv, ConvsDiffer, rec
  <2>2. \A u, w \in Known : rec'[u].conv # None /\ rec'[u].conv = rec'[w].conv => u = w
    BY <1>3, <1>4, <1>6, <1>7, <2>1, SMTT(30)
  <2> QED
    BY <1>2, <1>6, <2>2, Zenon DEF ConvsDiffer
<1>9. ConvsDiffer(file)'
  <2>1. file' = store' \/ file' = file
    BY <1>2, Zenon
  <2> HIDE Fields
  <2> QED
    BY <1>8, <2>1, SMTT(30) DEF ConvInv, ConvsDiffer, KnownIn
<1>10. BegunInv'
  <2>1. \A u \in Sessions : rec'[u].conv \in begun' \cup {None}
    BY <1>3, <1>4, <1>5, Zenon DEF ConvInv, BegunInv, rec
  <2> QED
    BY <1>2, <1>5, <2>1, Zenon DEF ConvInv, BegunInv
<1>11. WorkerConvInv'
  <2> SUFFICES ASSUME NEW u \in Sessions, Running(u)', table'[u].conv # None
               PROVE  \/ u \in Known' /\ rec'[u].conv = table'[u].conv
                      \/ \E k \in AllTasks : /\ task'[k].op = "promote" /\ task'[k].session = u
                                             /\ task'[k].conv = table'[u].conv
    BY Zenon DEF WorkerConvInv
  <2>1. CASE u = s
    BY <1>1, <1>3, <1>4, <1>5, <1>6, <2>1, Zenon
  <2>2. CASE u # s
    <3>1. \/ u \in Known /\ rec[u].conv = table[u].conv
          \/ \E k \in AllTasks : /\ task[k].op = "promote" /\ task[k].session = u
                                 /\ task[k].conv = table[u].conv
      <4>1. Running(u) /\ table[u].conv = table'[u].conv
        BY <1>5, <2>2, Zenon DEF Running
      <4> QED
        BY <4>1, Zenon DEF ConvInv, WorkerConvInv
    <3> QED
      BY <1>4, <1>5, <1>6, <2>2, <3>1, Zenon
  <2> QED
    BY <2>1, <2>2, Zenon
<1>12. \A t \in AllTasks :
        /\ task'[t].op = "promote" => \A u \in Known' : rec'[u].conv # task'[t].conv
        /\ task'[t].op = "resume" => task'[t].conv = rec'[task'[t].session].conv
  <2>1. \A t \in AllTasks : task[t].conv # v
    BY <1>5, Zenon DEF ConvInv, BegunInv
  <2>2. \A t \in AllTasks : task[t].op = "resume" => task[t].session \in Sessions \ {s}
    BY <1>1, ResumeKnown, Zenon
  <2>3. ASSUME NEW t \in AllTasks, task[t].op = "promote", NEW u \in Known
        PROVE  rec'[u].conv # task[t].conv
    BY <1>3, <1>4, <1>6, <2>1, <2>3, ZenonT(60) DEF ConvInv
  <2> QED
    BY <1>4, <1>5, <1>6, <2>2, <2>3, Zenon DEF ConvInv
<1> QED
  BY <1>8, <1>9, <1>10, <1>11, <1>12, Zenon DEF ConvInv

\* The daemon restarts with what its file says.
LEMMA ConvRestart ==
  ASSUME ShapeInv, ConvInv, Restart
  PROVE  ConvInv'
<1>1. /\ KnownIn(store)' = KnownIn(file) /\ KnownIn(file)' = KnownIn(file)
      /\ \A s \in Sessions : rec'[s].conv = file.records[s].conv
  BY Loaded, ZenonT(60) DEF KnownIn, Kept
<1>2. /\ \A t \in AllTasks : task'[t].conv = None /\ task'[t].op \notin Ops
      /\ \A s \in Sessions : ~Running(s)'
      /\ UNCHANGED <<begun, terms>>
  BY Constants, NameAssumption, Zenon DEF Restart, Running, NoWorker
<1>3. ConvsDiffer(store)' /\ ConvsDiffer(file)'
  <2>1. \A s \in KnownIn(file) : rec'[s].conv = file.records[s].conv
    BY <1>1, Zenon DEF KnownIn
  <2>2. file' = store' /\ rec' = store'.records
    BY Loaded, Zenon
  <2>3. ConvsDiffer(store)'
    BY <1>1, <2>1, <2>2, Zenon DEF ConvInv, ConvsDiffer
  <2> QED
    BY <2>2, <2>3, Zenon DEF ConvsDiffer, KnownIn
<1>4. BegunInv'
  <2>1. file' = store' /\ rec' = store'.records
    BY Loaded, Zenon
  <2>2. \A s \in Sessions : store'.records[s].conv \in begun' \cup {None}
    BY <1>1, <1>2, <2>1, Zenon DEF ConvInv, BegunInv
  <2> QED
    BY <1>2, <2>1, <2>2, Zenon DEF ConvInv, BegunInv
<1> QED
  BY <1>2, <1>3, <1>4, Zenon DEF ConvInv, WorkerConvInv, Ops

\* The workers, the terminals and the monitor.
LEMMA WorldConv ==
  ASSUME ~Overlap, Room, ShapeInv, OwnInv, ConvInv,
         \/ \E s \in Sessions : Forget(s) \/ WorkerExits(s)
         \/ \E v \in Convs : OpenTerminal(v) \/ \E k \in Terminals : CloseTerminal(v, k)
         \/ Monitoring
  PROVE  ConvInv'
<1> USE Fields
<1>0. /\ \A v \in Convs : terms[v] # {} => v \in begun
      /\ \A s \in Sessions : Kept(rec[s], rec[s])
  BY Zenon DEF ConvInv, BegunInv, Kept
<1>1. ASSUME UNCHANGED <<task, store, file>>, begun \subseteq begun',
             \A v \in Convs : terms'[v] # {} => v \in begun',
             \A s \in Sessions : Running(s)' => Running(s) /\ table'[s].conv = table[s].conv
      PROVE  ConvInv'
  BY <1>0, <1>1, ConvRest, Zenon DEF rec, Known
<1>2. ASSUME NEW s \in Sessions, Forget(s) PROVE ConvInv'
  <2> DEFINE R == IF Live(s) THEN rec ELSE [rec EXCEPT ![s] = NoRecord]
  <2>1. /\ rec' = R
        /\ file' = store' \/ file' = file
        /\ UNCHANGED <<task, begun, table, terms>>
    <3>1. Answered(R, None) /\ UNCHANGED <<task, begun, table, terms>>
      BY <1>2, Zenon DEF Forget, world
    <3> HIDE DEF R
    <3> QED
      BY <3>1, AnsweredStore, Zenon
  <2>2. \A t \in AllTasks : task[t].session # s
    BY <1>2, NameAssumption, ClearOthers, Zenon DEF Forget
  <2>3. Running(s) => Live(s)
    BY <2>2, Zenon DEF OwnInv, WorkersAreAccounted, Working
  <2>4. \A u \in Sessions : rec'[u] = NoRecord \/ Kept(rec'[u], rec[u])
    BY <1>0, <2>1, Zenon
  <2>5. \A u \in Sessions \ {s} : u \in Known => u \in Known'
    BY <2>1, Zenon DEF Known
  <2>6. Live(s) => Known' = Known
    BY <2>1, Zenon DEF Known
  <2>7. \A t \in AllTasks : task[t].session \in Known => task[t].session \in Known'
    BY <2>2, <2>5, Zenon DEF Known
  <2>8. \A u \in Sessions : Running(u)' => /\ Running(u) /\ table'[u].conv = table[u].conv
                                           /\ u \in Known => u \in Known'
    BY <2>1, <2>3, <2>5, <2>6, Zenon DEF Running
  <2> QED
    BY <1>0, <2>1, <2>4, <2>7, <2>8, ConvRest, Zenon
<1>3. ASSUME NEW s \in Sessions, WorkerExits(s) PROVE ConvInv'
  <2>1. \A u \in Sessions : Running(u)' => Running(u) /\ table'[u].conv = table[u].conv
    BY <1>3, Zenon DEF WorkerExits, Running, ShapeInv, TypeOK, Worker
  <2> QED
    BY <1>0, <1>1, <1>3, <2>1, Zenon DEF WorkerExits
<1>4. ASSUME NEW v \in Convs, OpenTerminal(v) PROVE ConvInv'
  <2>1. \A u \in Convs : terms'[u] # {} => u \in begun'
    BY <1>0, <1>4, Zenon DEF OpenTerminal, ShapeInv, TypeOK
  <2> QED
    BY <1>1, <1>4, <2>1, Zenon DEF OpenTerminal, Running
<1>5. ASSUME NEW v \in Convs, NEW k \in Terminals, CloseTerminal(v, k) PROVE ConvInv'
  <2>1. \A u \in Convs : terms'[u] # {} => u \in begun'
    BY <1>0, <1>5, Zenon DEF CloseTerminal, ShapeInv, TypeOK
  <2> QED
    BY <1>1, <1>5, <2>1, Zenon DEF CloseTerminal, Running
<1>6. ASSUME NEW s \in Sessions, Yield(s) PROVE ConvInv'
  <2>1. \A u \in Sessions : Running(u)' => Running(u) /\ table'[u].conv = table[u].conv
    <3>1. table' = [table EXCEPT ![s] = NoWorker] /\ table \in [Sessions -> Worker]
      BY <1>6, Zenon DEF Yield, ShapeInv, TypeOK
    <3>2. table'[s] = NoWorker /\ \A u \in Sessions \ {s} : table'[u] = table[u]
      BY <3>1, Zenon
    <3>3. NoWorker.state # "running"
      BY Zenon DEF NoWorker
    <3> QED
      BY <3>2, <3>3, Zenon DEF Running
  <2> QED
    BY <1>0, <1>1, <1>6, <2>1, Zenon DEF Yield
<1>7. ASSUME UNCHANGED <<task, begun, terms>>, file' = store' \/ file' = file,
             \A s \in Sessions : Kept(rec'[s], rec[s]),
             \A s \in Sessions : Running(s)' => Running(s) /\ table'[s].conv = table[s].conv
      PROVE  ConvInv'
  <2>1. Known' = Known
    BY <1>7, Zenon DEF Known, Kept
  <2> QED
    BY <1>0, <1>7, <2>1, ConvRest, Zenon
<1>8. CASE Watch
  <2>1. /\ UNCHANGED <<task, begun, terms>> /\ (file' = store' \/ file' = file)
        /\ rec' = rec \/ rec' = AfterReap
    BY <1>8, Zenon DEF Watch, Saved, rec, ShapeInv, TypeOK, Store
  <2>2. \A s \in Sessions : Kept(AfterReap[s], rec[s])
    BY <1>0, RecordKept, Zenon DEF AfterReap
  <2>3. \A s \in Sessions : Running(s)' => Running(s) /\ table'[s].conv = table[s].conv
    BY <1>8, Zenon DEF Watch, Running, NoWorker
  <2> QED
    BY <1>0, <1>7, <2>1, <2>2, <2>3, Zenon
<1>9. CASE Yielded
  <2>0. PICK s \in Sessions : s = monitor.session
    BY <1>9, Zenon DEF Yielded, MonitorOK, ShapeInv
  <2> DEFINE r == OwnedElsewhere(ExitRecorded(rec[s]))
  <2>1. /\ rec' = [rec EXCEPT ![s] = r] /\ (file' = store' \/ file' = file)
        /\ UNCHANGED <<task, begun, terms, table>>
    BY <1>9, <2>0, Zenon DEF Yielded, Saved, rec, ShapeInv, TypeOK, Store
  <2>2. Kept(r, rec[s])
    <3>1. ExitRecorded(rec[s]) \in Record /\ Kept(ExitRecorded(rec[s]), rec[s])
      BY RecordShapes, RecordKept, Zenon
    <3>2. Kept(r, ExitRecorded(rec[s]))
      BY <3>1, RecordKept, Zenon
    <3> QED
      BY <3>1, <3>2, Zenon DEF Kept
  <2> HIDE DEF r
  <2>3. \A u \in Sessions : Kept(rec'[u], rec[u])
    BY <1>0, <2>1, <2>2, Zenon
  <2> QED
    BY <1>7, <2>1, <2>3, Zenon DEF Running
<1> QED
  BY <1>2, <1>3, <1>4, <1>5, <1>6, <1>8, <1>9, Zenon DEF Monitoring

\* Conversations stay apart.
LEMMA ConvNext ==
  ~Overlap /\ ~TakeoverKnown /\ Room /\ ShapeInv /\ OwnInv /\ ConvInv /\ [Next]_vars => ConvInv'
<1> SUFFICES ASSUME ~Overlap, ~TakeoverKnown, Room, ShapeInv, OwnInv, ConvInv, [Next]_vars PROVE ConvInv'
  BY Zenon
<1>1. CASE \E t \in Tasks : Ask(t)
  BY <1>1, AskConv, Zenon DEF AllTasks
<1>2. CASE \E t \in AllTasks : Proceed(t)
  BY <1>2, ProceedConv, Zenon
<1>3. ASSUME NEW s \in Sessions, Recover(s) PROVE ConvInv'
  BY <1>3, ConvResume, Zenon DEF Recover, AllTasks
<1>4. CASE UNCHANGED vars
  BY <1>4, ZenonT(60) DEF vars, ConvInv, ConvsDiffer, KnownIn, BegunInv, WorkerConvInv, Known, rec, Running
<1> QED
  BY <1>1, <1>2, <1>3, <1>4, WorldConv, ConvFirstTurn, ConvRestart, Zenon DEF Next

\* No conversation exists at first.
LEMMA ConvInit == Init => ConvInv
<1> SUFFICES ASSUME Init PROVE ConvInv
  BY Zenon
<1>1. /\ \A t \in AllTasks : task[t].conv = None /\ task[t].op \notin Ops
      /\ \A s \in Sessions : ~Running(s) /\ store.records[s].conv = None
      /\ file = store /\ \A v \in Convs : terms[v] = {}
  BY Constants, NameAssumption, Zenon DEF Init, Running, NoWorker, NoRecord
<1>2. ConvsDiffer(store) /\ ConvsDiffer(file) /\ BegunInv /\ WorkerConvInv
  BY <1>1, Zenon DEF ConvsDiffer, KnownIn, BegunInv, WorkerConvInv
<1> QED
  BY <1>1, <1>2, Zenon DEF ConvInv, Ops

\* SingleWorker of ManagedSessions, which a run refutes, holds where no conversation that has a
\* record is taken over from a terminal, requests do not overlap and the directory has room: two
\* workers in the table then never run the same conversation, whatever is stopped, released,
\* resumed, yielded or restarted, and whether or not saves fail.  Taking over what is on record is
\* what breaks it.
THEOREM OneWorkerEach == ASSUME ~Overlap, ~TakeoverKnown, Room PROVE Spec => []SingleWorker
<1>1. ShapeInv /\ OwnInv /\ ConvInv => SingleWorker
  <2> SUFFICES ASSUME ShapeInv, OwnInv, ConvInv, NEW s \in Sessions, NEW u \in Sessions,
                      Running(s), Running(u), table[s].conv # None, table[s].conv = table[u].conv
               PROVE  s = u
    BY Zenon DEF SingleWorker
  <2>1. ASSUME NEW w \in Sessions, Running(w), table[w].conv # None
        PROVE  \/ w \in Known /\ rec[w].conv = table[w].conv
               \/ \E t \in AllTasks : /\ task[t].op = "promote" /\ task[t].session = w
                                      /\ task[t].conv = table[w].conv
    BY <2>1, Zenon DEF ConvInv, WorkerConvInv
  <2>2. Known = KnownIn(store)
    BY Zenon DEF Known, KnownIn, rec
  <2>3. CASE s \in Known /\ rec[s].conv = table[s].conv
    BY <2>1, <2>2, <2>3, SMTT(30) DEF ConvInv, ConvsDiffer, rec
  <2>4. ASSUME NEW t \in AllTasks, task[t].op = "promote", task[t].session = s, task[t].conv = table[s].conv
        PROVE  s = u
    <3>1. CASE u \in Known /\ rec[u].conv = table[u].conv
      BY <2>4, <3>1, Zenon DEF ConvInv
    <3>2. ASSUME NEW w \in AllTasks, task[w].op = "promote", task[w].session = u, task[w].conv = table[u].conv
          PROVE  s = u
      BY <2>4, <3>2, Zenon DEF OwnInv, DistinctInv
    <3> QED
      BY <2>1, <3>1, <3>2, Zenon
  <2> QED
    BY <2>1, <2>3, <2>4, Zenon
<1> QED
  BY <1>1, ShapeInit, ShapeNext, OwnInit, OwnNext, ConvInit, ConvNext, PTL DEF Spec
=============================================================================
