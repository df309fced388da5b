------------------------------ MODULE Timeline ------------------------------
(***************************************************************************)
(* The timeline of an attached Claude session.  Hooks deliver its rows,     *)
(* each at best once, some late and some never; the transcript Claude      *)
(* writes holds all of it.  A backfill when a process registers and a      *)
(* repair when a turn ends read the transcript in the background, line     *)
(* what they read up with the rows held by then, and put back what is      *)
(* missing.                                                                *)
(***************************************************************************)
EXTENDS Integers, Sequences, SequencesExt, FiniteSetsExt

CONSTANTS
  Conversations,  \* the events of each, how many precede the session, and a bound on the
                  \* processes that resume it
  TurnWindow,     \* TURN_READ_BYTES, in events
  BackfillWindow, \* BACKFILL_READ_BYTES, in events
  MaxHistory,     \* MAX_HOST_TIMELINE_ENTRIES
  MaxLate,        \* bound on hooks on their way at one time
  MaxLost,        \* bound on hooks that never arrive
  MaxLag          \* bound on events that are not written yet

ASSUME TimelineAssumption ==
  /\ \A c \in Conversations :
       /\ c.before \in 0 .. Len(c.events) /\ c.processes \in Nat
       /\ \A n \in DOMAIN c.events :
            /\ c.events[n].what \in {"prompt", "start", "done", "part", "last", "stop"}
            /\ c.events[n].msg \in Nat
  /\ {TurnWindow, BackfillWindow, MaxHistory, MaxLate, MaxLost, MaxLag} \subseteq Nat

VARIABLES
  script,  \* the events of the conversation
  spare,   \* how many more processes may resume it
  fired,   \* how many of its events have happened
  written, \* how many of them the transcript holds
  late,    \* the hooks that are on their way
  lost,    \* how many hooks never arrived
  born,    \* the events that preceded the session
  host,    \* LiveSession: history, source_entries, next_sequence, ...
  reads    \* the background tasks that read the transcript

vars == <<script, spare, fired, written, late, lost, born, host, reads>>

\* A row comes from the record or from a display, which only the live tail names.
Source == {"record", "live"} \X Nat

NoSource == <<"none", 0>>

\* The text of a message is its words and the parts that arrived; a tool's is its status.
Body(words, parts) == [words |-> words, parts |-> parts]

KindOf(what) ==
  IF what \in {"part", "last"} THEN "reply" ELSE IF what = "prompt" THEN "prompt" ELSE "tool"

EmptySession(gen) ==
  [history |-> <<>>, sources |-> << >>, next |-> 1, epoch |-> gen, gen |-> gen, full |-> FALSE]

\* spawn_backfill, once per process.
Backfill(gen) == [mode |-> "backfill", run |-> 0, mark |-> 0, epoch |-> 0, gen |-> gen,
                  done |-> FALSE, entries |-> <<>>, whole |-> FALSE]

Init ==
  /\ \E c \in Conversations :
       script = c.events /\ spare = c.processes - 1 /\ born = c.before
  /\ fired = born /\ written = born
  /\ late = {} /\ lost = 0
  /\ host = EmptySession(1)
  /\ reads = {Backfill(1)}

Row == [id : Nat \ {0}, seq : Nat \ {0}, rev : Nat \ {0}, kind : {"prompt", "tool", "reply"},
        state : {"streaming", "complete"}, body : [words : STRING, parts : Seq(Nat)], cut : BOOLEAN]

TypeOK ==
  /\ fired \in 0 .. Len(script) /\ written \in 0 .. fired
  /\ late \subseteq 1 .. fired /\ lost \in 0 .. MaxLost
  /\ Len(host.history) <= MaxHistory
  /\ \A i \in DOMAIN host.history : host.history[i] \in Row
  /\ \A s \in DOMAIN host.sources :
       /\ s \in Source
       /\ \E i \in DOMAIN host.history : host.history[i].id = host.sources[s].id
  /\ \A r \in reads : r.gen <= host.gen
-----------------------------------------------------------------------------
(* The live tail *)

\* enforce_history_bound: the oldest row that is not streaming goes first.
RECURSIVE Bounded(_)
Bounded(h) ==
  IF Len(h.history) <= MaxHistory THEN h
  ELSE LET settled == {i \in DOMAIN h.history : h.history[i].state # "streaming"}
           i == IF settled = {} THEN 1 ELSE Min(settled)
           id == h.history[i].id
       IN Bounded([h EXCEPT !.history = RemoveAt(h.history, i),
                            !.sources = [s \in {t \in DOMAIN h.sources : h.sources[t].id # id}
                                           |-> h.sources[s]]])

\* set_history_coverage after a bound that may have cut.
Claiming(full, h, bounded) ==
  [bounded EXCEPT !.full = full /\ Len(bounded.history) = Len(h.history)]

\* Mutant: a live row that pushes out the first one leaves the claim to the start.
CoveredStill(h) == Bounded(h)

\* publish_evicted_start
Covered(h) == Claiming(h.full, h, Bounded(h))

\* random_id: an identifier no row has; the nth of those a step draws.
NewId(h, n) == Max({0} \cup {h.history[i].id : i \in DOMAIN h.history}) + n

At(h, id) == SelectInSeq(h.history, LAMBDA row : row.id = id)

\* normalize_entry: an unknown source gets an identifier and the next number.
Mapped(h, source) ==
  IF source \in DOMAIN h.sources THEN h
  ELSE LET new == [id |-> NewId(h, 1), seq |-> h.next, settled |-> FALSE] IN
       [h EXCEPT !.sources = [s \in DOMAIN h.sources \cup {source} |->
                                IF s = source THEN new ELSE h.sources[s]],
                 !.next = h.next + 1]

\* The entry of a mapping, pushed and the rows sorted by number when it is new.
Placed(h, row) ==
  LET i == At(h, row.id) IN
  IF i # 0 THEN [h EXCEPT !.history[i] = row]
  ELSE [h EXCEPT !.history = SortSeq(Append(h.history, row), LAMBDA a, b : a.seq < b.seq)]

\* upsert_bridge_entry: a revision that is not newer is ignored.
Upserted(h, source, kind, rev, state, body) ==
  LET m == Mapped(h, source)
      s == m.sources[source]
      i == At(m, s.id)
      row == [id |-> s.id, seq |-> s.seq, rev |-> rev, kind |-> kind, state |-> state,
              body |-> body, cut |-> FALSE]
  IN IF i # 0 /\ rev <= m.history[i].rev THEN m ELSE Covered(Placed(m, row))

\* Mutant: a chunk that comes after its display was settled is appended.
UnsettledAny(h, source) == TRUE

\* A display the record has named takes no more chunks.
Unsettled(h, source) == source \in DOMAIN h.sources => ~h.sources[source].settled

\* append_bridge_text: chunk rev of a display; a revision left out is a gap and says so.
Appended(h, source, rev, words, final) ==
  LET m == Mapped(h, source)
      s == m.sources[source]
      i == At(m, s.id)
      state == IF final THEN "complete" ELSE "streaming"
      new == [id |-> s.id, seq |-> s.seq, rev |-> rev, kind |-> "reply", state |-> state,
              body |-> Body(words, <<rev>>), cut |-> rev # 1]
      old == m.history[i]
  IN IF \/ ~Unsettled(h, source)
        \/ i # 0 /\ rev <= old.rev
     THEN h
     ELSE Covered(Placed(m, IF i = 0 THEN new
                            ELSE [old EXCEPT !.body.parts = Append(old.body.parts, rev),
                                             !.cut = old.cut \/ rev # old.rev + 1,
                                             !.rev = rev, !.state = state]))
-----------------------------------------------------------------------------
(* Reading the transcript *)

\* HistoryMapper: what n events of the transcript, from the given one on, make of a message.
Entry(events, m) ==
  LET of == SelectSeq(events, LAMBDA e : e.msg = m)
      e == of[Len(of)]
      kind == KindOf(e.what)
  IN [source |-> <<"record", m>>, kind |-> kind, rev |-> Len(of),
      body |-> IF kind = "reply" THEN Body(e.words, [k \in 1 .. e.rev |-> k])
               ELSE IF kind = "prompt" THEN Body(e.words, <<>>)
               ELSE Body(IF e.what = "done" THEN "completed" ELSE "unknown", <<>>)]

\* read_history: the newest events, in the order their messages first appear in them; a
\* reply is written when it is whole.
ReadRecord(window) ==
  LET newest == SubSeq(script, Max({1, written - window + 1}), written)
      events == SelectSeq(newest, LAMBDA e : e.what \notin {"part", "stop"})
      firsts == {n \in DOMAIN events : \A k \in 1 .. n - 1 : events[k].msg # events[n].msg}
      order == SetToSortSeq(firsts, LAMBDA a, b : a < b)
  IN [k \in DOMAIN order |-> Entry(events, events[order[k]].msg)]

\* TranscriptHistory::into_turn: from the prompt of the turn on, where the read has it.
TurnStart(entries, run) == SelectInSeq(entries, LAMBDA e : e.source = <<"record", run>>)

\* The background task reads the file, up to its length at that time.
Read(r) ==
  LET entries == ReadRecord(IF r.mode = "turn" THEN TurnWindow ELSE BackfillWindow)
      start == IF r.mode = "turn" THEN TurnStart(entries, r.run) ELSE 0
      whole == IF r.mode = "turn" THEN start # 0 ELSE written <= BackfillWindow
  IN /\ r \in reads /\ ~r.done
     /\ reads' = (reads \ {r}) \cup
                   {[r EXCEPT !.done = TRUE, !.whole = whole,
                              !.entries = SubSeq(entries, Max({1, start}), Len(entries))]}
     /\ UNCHANGED <<script, spare, fired, written, late, lost, born, host>>
-----------------------------------------------------------------------------
(* plan_reconcile *)

\* The source a row was delivered under; a settled alias does not count.
SourceOf(h, id) ==
  LET named == {s \in DOMAIN h.sources : h.sources[s].id = id /\ ~h.sources[s].settled}
  IN IF named = {} THEN NoSource ELSE CHOOSE s \in named : TRUE

\* The sources of the held rows.
Held(h) == [i \in DOMAIN h.history |-> SourceOf(h, h.history[i].id)]

AuthorityOf(held, entries, i) == SelectInSeq(entries, LAMBDA e : e.source = held[i])

\* Rows of both sides that share a source, in held order.
Matches(held, entries) ==
  LET shared == SetToSortSeq({i \in DOMAIN held : AuthorityOf(held, entries, i) # 0},
                             LAMBDA a, b : a < b)
  IN [k \in DOMAIN shared |-> <<shared[k], AuthorityOf(held, entries, shared[k])>>]

\* Mutant: a shorter chain is not extended at the place where it ends lowest.
ChainGreedy(matches) ==
  LET Extend(chain, m) ==
        IF chain = <<>> \/ Last(chain)[2] < m[2] THEN Append(chain, m) ELSE chain
  IN FoldLeft(Extend, <<>>, matches)

\* longest_increasing_chain: tails[n] ends the best chain of length n, previous links it up.
LongestIncreasingChain(matches) ==
  LET Step(acc, p) ==
        LET n == Cardinality({k \in DOMAIN acc.tails : matches[acc.tails[k]][2] < matches[p][2]})
        IN [tails |-> IF n = Len(acc.tails) THEN Append(acc.tails, p)
                      ELSE [acc.tails EXCEPT ![n + 1] = p],
            previous |-> Append(acc.previous, IF n = 0 THEN 0 ELSE acc.tails[n])]
      sorted == FoldLeft(Step, [tails |-> <<>>, previous |-> <<>>], [p \in DOMAIN matches |-> p])
      back[p \in 0 .. Len(matches)] ==
        IF p = 0 THEN <<>> ELSE Append(back[sorted.previous[p]], matches[p])
  IN IF matches = <<>> THEN <<>> ELSE back[Last(sorted.tails)]

HeldItem(i, refresh, rekey) == [held |-> i, authority |-> refresh, rekey |-> rekey]

NewItem(a) == [held |-> 0, authority |-> a, rekey |-> FALSE]

NewItems(indices) == [k \in DOMAIN indices |-> NewItem(indices[k])]

\* The indices of a range of the read.
Indices(from, to) == [k \in 1 .. Max({0, to - from + 1}) |-> from + k - 1]

\* Whether an anchored row takes the record's copy.
Refreshes(row, entry, mode) ==
  /\ row.body # entry.body \/ row.cut \/ row.state # "complete"
  /\ \/ entry.kind = "reply"
     \/ entry.kind = "tool" /\ mode = "turn" /\ row.state = "streaming"

StartsWith(whole, shown) == whole.words = shown.words /\ IsPrefix(shown.parts, whole.parts)

\* pair_displays_with_replies: by position when there are as many, else by what they begin with.
Pairs(h, entries, displays, replies) ==
  LET Next1(acc, d) ==
        LET fits == {k \in acc.cursor .. Len(replies) :
                       StartsWith(entries[replies[k]].body, h.history[d].body)}
        IN IF fits = {} THEN acc
           ELSE [cursor |-> Min(fits) + 1, pairs |-> acc.pairs \cup {<<d, replies[Min(fits)]>>}]
  IN IF Len(displays) = Len(replies) THEN {<<displays[k], replies[k]>> : k \in DOMAIN displays}
     ELSE FoldLeft(Next1, [cursor |-> 1, pairs |-> {}], displays).pairs

\* The numbers from the mark on were given after the turn ended; a mark of another epoch
\* says nothing.
After(h, r) == IF r.mode = "turn" /\ r.epoch = h.epoch THEN r.mark ELSE 0

\* Mutant: the mark is not looked at.
AfterNothing(h, r, i) == FALSE

AfterTurn(h, r, i) == After(h, r) # 0 /\ h.history[i].seq >= After(h, r)

\* A row only the live tail names, of the turn that ended.
IsDisplay(h, r, i) ==
  r.mode = "turn" /\ ~AfterTurn(h, r, i) /\ SourceOf(h, h.history[i].id)[1] = "live"

\* A held row that keeps its place behind whatever was missing before it.
Flush(acc, i) ==
  [plan |-> acc.plan \o NewItems(acc.pending) \o <<HeldItem(i, 0, FALSE)>>, pending |-> <<>>]

\* A display that becomes the reply the record has for it.
Pair(acc, i, reply) ==
  [plan |-> acc.plan \o NewItems(SelectSeq(acc.pending, LAMBDA a : a < reply))
                     \o <<HeldItem(i, reply, TRUE)>>,
   pending |-> SelectSeq(acc.pending, LAMBDA a : a > reply)]

\* The held row i of a gap; a display that says what the read has elsewhere goes.
Walk(h, r, pairs, said, acc, i) ==
  IF AfterTurn(h, r, i) THEN Flush(acc, i)
  ELSE IF \E p \in pairs : p[1] = i THEN Pair(acc, i, (CHOOSE p \in pairs : p[1] = i)[2])
  ELSE IF IsDisplay(h, r, i)
  THEN IF h.history[i].body \in said THEN acc ELSE Flush(acc, i)
  ELSE [acc EXCEPT !.plan = Append(acc.plan, HeldItem(i, 0, FALSE))]

Walked(acc) == acc.plan \o NewItems(acc.pending)

\* The rows of both sides between two anchors.
Between(h, r, opening, gapHeld, gapNew, pairs, said) ==
  Walked(FoldLeft(LAMBDA acc, i : Walk(h, r, pairs, said, acc, i),
                  [plan |-> <<opening>>, pending |-> gapNew], gapHeld))

DisplaysOf(h, r, gapHeld) == SelectSeq(gapHeld, LAMBDA i : IsDisplay(h, r, i))

RepliesOf(r, gapNew) == SelectSeq(gapNew, LAMBDA a : r.entries[a].kind = "reply")

\* What becomes of an anchor and of the rows of both sides up to the next one.
Gap(h, r, missing, anchor, next) ==
  LET refreshed == Refreshes(h.history[anchor[1]], r.entries[anchor[2]], r.mode)
      gapNew == SelectSeq(Indices(anchor[2] + 1, next[2] - 1), LAMBDA a : a \in missing)
      gapHeld == Indices(anchor[1] + 1, next[1] - 1)
      spoken == {a \in anchor[2] .. next[2] - 1 : r.entries[a].kind = "reply"}
  IN Between(h, r, HeldItem(anchor[1], IF refreshed THEN anchor[2] ELSE 0, FALSE), gapHeld, gapNew,
             Pairs(h, r.entries, DisplaysOf(h, r, gapHeld), RepliesOf(r, gapNew)),
             {r.entries[a].body : a \in spoken})

Anchors(h, r) == LongestIncreasingChain(Matches(Held(h), r.entries))

\* The entries of the read that no row is named after.
Missing(h, r) ==
  LET matches == Matches(Held(h), r.entries)
  IN DOMAIN r.entries \ {matches[k][2] : k \in DOMAIN matches}

\* A turn that shares no row with the read is left alone.
Alignable(h, r) == r.mode = "turn" => Anchors(h, r) # <<>>

Kept(to) == [k \in 1 .. to |-> HeldItem(k, 0, FALSE)]

Added(missing, to) == NewItems(SelectSeq(Indices(1, to), LAMBDA a : a \in missing))

\* Mutant: the lost beginning of a turn is left out, as that of an unscoped read is.
OpeningUnscoped(r, missing, first) ==
  IF r.mode = "turn" THEN Kept(first[1] - 1) ELSE Added(missing, first[2] - 1) \o Kept(first[1] - 1)

\* What comes before the first anchor: a backfill goes beneath; a turn's lost beginning goes
\* in front of the row that was not lost.
Opening(r, missing, first) ==
  IF r.mode = "turn"
  THEN Kept(first[1] - 1) \o IF r.whole THEN Added(missing, first[2] - 1) ELSE <<>>
  ELSE Added(missing, first[2] - 1) \o Kept(first[1] - 1)

PlanAround(h, r, anchors, missing) ==
  LET end == <<Len(h.history) + 1, Len(r.entries) + 1>>
      NextOf(k) == IF k = Len(anchors) THEN end ELSE anchors[k + 1]
  IN IF anchors = <<>> THEN Added(missing, Len(r.entries)) \o Kept(Len(h.history))
     ELSE Opening(r, missing, anchors[1])
          \o FlattenSeq([k \in DOMAIN anchors |-> Gap(h, r, missing, anchors[k], NextOf(k))])

Plan(h, r) == PlanAround(h, r, Anchors(h, r), Missing(h, r))
-----------------------------------------------------------------------------
(* apply_reconcile_plan *)

\* The row a planned item makes, numbered 0 when it is restored.
PlannedRow(h, r, plan, k) ==
  LET item == plan[k]
      entry == r.entries[item.authority]
      row == h.history[item.held]
  IN IF item.held = 0
     THEN [id |-> NewId(h, Cardinality({j \in 1 .. k : plan[j].held = 0})), seq |-> 0,
           rev |-> entry.rev, kind |-> entry.kind, state |-> "complete", body |-> entry.body,
           cut |-> FALSE]
     ELSE IF item.authority # 0 /\ (row.body # entry.body \/ row.cut \/ row.state # "complete")
     THEN [row EXCEPT !.body = entry.body, !.cut = FALSE, !.state = "complete",
                      !.rev = Max({row.rev + 1, entry.rev})]
     ELSE row

\* The source the row goes on under: a paired display becomes the reply the record names.
PlannedSource(h, r, item) ==
  IF item.held = 0 \/ item.rekey THEN r.entries[item.authority].source
  ELSE SourceOf(h, h.history[item.held].id)

\* Mutant: a run of restored rows is squeezed in where one number is missing.
HasRoomForFewer(below, above, count) == above - below >= count

\* Whether the numbers between two held rows are enough for the rows restored there.
HasRoom(below, above, count) == above - below > count

\* number_restored_rows: held rows keep their numbers; restored ones take the next after the
\* row below, or the next of all after the last held row.
Numbered(rows, next) ==
  LET held == {k \in DOMAIN rows : rows[k].seq # 0}
      below(k) == Max({0} \cup {j \in held : j < k})
      number(j) == IF j = 0 THEN 0 ELSE rows[j].seq
      above(k) == {j \in held : j > k}
      first(k) == IF above(k) = {} THEN Max({next, number(below(k)) + 1}) ELSE number(below(k)) + 1
  IN [ok |-> /\ \A j, k \in held : j < k => rows[j].seq < rows[k].seq
             /\ \A k \in DOMAIN rows \ held : above(k) # {} =>
                  LET up == Min(above(k))
                  IN HasRoom(number(below(k)), number(up), up - below(k) - 1),
      rows |-> [k \in DOMAIN rows |->
                  IF k \in held THEN rows[k]
                  ELSE [rows[k] EXCEPT !.seq = first(k) + (k - below(k) - 1)]]]

\* The dense renumbering when there is no room.
Renumbered(rows) ==
  LET held == {k \in DOMAIN rows : rows[k].seq # 0}
      start == IF held = {} THEN 1 ELSE Max({1, rows[Min(held)].seq - (Min(held) - 1)})
  IN [k \in DOMAIN rows |-> [rows[k] EXCEPT !.seq = start + k - 1]]

\* The displays that were settled, or are by this plan, and whose row is still there.
Aliases(h, plan, rows) ==
  LET settled == {s \in DOMAIN h.sources : h.sources[s].settled}
      rekeyed == {k \in DOMAIN plan : plan[k].rekey}
      displays == {<<s, h.sources[s].id>> : s \in settled}
                  \cup {<<SourceOf(h, rows[k].id), rows[k].id>> : k \in rekeyed}
  IN {a \in displays : \E k \in DOMAIN rows : rows[k].id = a[2]}

\* source_entries, with the settled displays carried to wherever their row went.
Sources(rows, history, named, aliases) ==
  LET owner(s) == Max({k \in DOMAIN named : named[k] = s})
      alias(s) == CHOOSE k \in DOMAIN rows : <<s, rows[k].id>> \in aliases
  IN [s \in {a[1] : a \in aliases} \cup {named[k] : k \in DOMAIN named} |->
        LET aliased == \E a \in aliases : a[1] = s
            k == IF aliased THEN alias(s) ELSE owner(s)
        IN [id |-> rows[k].id, seq |-> history[k].seq, settled |-> aliased]]

Laid(h, r, plan, rows, numbered) ==
  LET history == IF numbered.ok THEN numbered.rows ELSE Renumbered(rows)
      newest == IF history = <<>> THEN 0 ELSE Last(history).seq
      named == [k \in DOMAIN plan |-> PlannedSource(h, r, plan[k])]
  IN [h EXCEPT !.history = history, !.sources = Sources(rows, history, named, Aliases(h, plan, rows)),
               !.next = IF numbered.ok THEN Max({h.next, newest + 1}) ELSE newest + 1]

\* apply_reconcile_plan: the rows in their new order, numbered, and the sources they go on
\* under.
Relaid(h, r, plan, rows) == Laid(h, r, plan, rows, Numbered(rows, h.next))

Applied(h, r, plan) ==
  Relaid(h, r, plan, [k \in DOMAIN plan |-> PlannedRow(h, r, plan, k)])

NumberOf(h, id) == h.history[At(h, id)].seq

Ids(h) == {h.history[i].id : i \in DOMAIN h.history}

\* Mutant: a renumbered timeline keeps its epoch.
FencedIfDropped(old, new) ==
  LET kept == Ids(old) \cap Ids(new)
      dropped == \E id \in Ids(old) \ kept : \E k \in kept : NumberOf(old, k) < NumberOf(old, id)
  IN IF dropped THEN [new EXCEPT !.epoch = old.epoch + 1] ELSE new

\* fence_rewritten_history: a row that moved, or went from the middle, ends the epoch.
Fenced(old, new) ==
  LET kept == Ids(old) \cap Ids(new)
      moved == \E id \in kept : NumberOf(old, id) # NumberOf(new, id)
      dropped == \E id \in Ids(old) \ kept : \E k \in kept : NumberOf(old, k) < NumberOf(old, id)
  IN IF moved \/ dropped THEN [new EXCEPT !.epoch = old.epoch + 1] ELSE new

Trimmed(full, h) == Claiming(full, h, Bounded(h))

\* reconcile_bridge_history, once the read is known to be of this process.
Reconciled(h, r) ==
  IF Alignable(h, r)
  THEN Trimmed(IF r.mode = "backfill" THEN r.whole ELSE h.full, Fenced(h, Applied(h, r, Plan(h, r))))
  ELSE h

\* The task has its read and takes the lock; a read of a replaced process is dropped.
Apply(r) ==
  /\ r \in reads /\ r.done
  /\ reads' = reads \ {r}
  /\ host' = IF r.gen = host.gen THEN Reconciled(host, r) ELSE host
  /\ UNCHANGED <<script, spare, fired, written, late, lost, born>>

\* The transcript cannot be found or read.
ReadFails(r) ==
  /\ r \in reads /\ ~r.done
  /\ reads' = reads \ {r}
  /\ UNCHANGED <<script, spare, fired, written, late, lost, born, host>>
-----------------------------------------------------------------------------
(* The conversation and its hooks *)

\* Something happens in the conversation and its hook is started.  Claude waits for the hook
\* of a prompt and of a Stop; those of tools and displays may overlap.  A turn that ends is
\* on disk in full.
Fire ==
  /\ fired < Len(script)
  /\ Cardinality(late) < MaxLate /\ fired - written < MaxLag
  /\ \A n \in late : script[n].what \notin {"prompt", "stop"}
  /\ script[fired + 1].what = "stop" => written = fired
  /\ fired' = fired + 1
  /\ late' = late \cup {fired + 1}
  /\ UNCHANGED <<script, spare, written, lost, born, host, reads>>

\* Claude appends to the transcript.
Write ==
  /\ written < fired
  /\ written' = written + 1
  /\ UNCHANGED <<script, spare, fired, late, lost, born, host, reads>>

\* A hook that misses its deadline never comes back.
Lose(n) ==
  /\ n \in late /\ lost < MaxLost
  /\ late' = late \ {n} /\ lost' = lost + 1
  /\ UNCHANGED <<script, spare, fired, written, born, host, reads>>

Record(e) == <<"record", e.msg>>

\* map_hook_input and apply_adapter_event: the row, or the chunk of one, the hook carries.
Delivered(h, e) ==
  CASE e.what = "prompt" -> Upserted(h, Record(e), "prompt", 1, "complete", Body(e.words, <<>>))
    [] e.what = "start"  -> Upserted(h, Record(e), "tool", 1, "streaming", Body("running", <<>>))
    [] e.what = "done"   -> Upserted(h, Record(e), "tool", 2, "complete", Body("completed", <<>>))
    [] OTHER             -> Appended(h, <<"live", e.msg>>, e.rev, e.words, e.what = "last")

\* A hook arrives.  Stop marks where the timeline stands and starts the repair of its turn.
Deliver(n) ==
  LET e == script[n] IN
  /\ n \in late
  /\ late' = late \ {n}
  /\ IF e.what = "stop"
     THEN /\ reads' = reads \cup {[mode |-> "turn", run |-> e.msg, mark |-> host.next,
                                   epoch |-> host.epoch, gen |-> host.gen, done |-> FALSE,
                                   entries |-> <<>>, whole |-> FALSE]}
          /\ UNCHANGED host
     ELSE host' = Delivered(host, e) /\ UNCHANGED reads
  /\ UNCHANGED <<script, spare, fired, written, lost, born>>

\* register_new: another process resumes the conversation, with an empty timeline.
Register ==
  /\ spare > 0 /\ late = {}
  /\ spare' = spare - 1
  /\ host' = [EmptySession(host.gen + 1) EXCEPT !.epoch = host.epoch + 1]
  /\ reads' = reads \cup {Backfill(host.gen + 1)}
  /\ born' = written
  /\ UNCHANGED <<script, fired, written, late, lost>>

Next ==
  \/ Fire
  \/ Write
  \/ \E n \in late : Deliver(n) \/ Lose(n)
  \/ \E r \in reads : Read(r) \/ ReadFails(r) \/ Apply(r)
  \/ Register

Spec == Init /\ [][Next]_vars
-----------------------------------------------------------------------------
(* Properties *)

\* The rows are in one strict order, every number given is below the next, and a source knows
\* the number of its row: what normalize_entry, apply_reconcile_plan and enforce_history_bound
\* keep between them.
NumbersAgree ==
  LET h == host.history IN
  /\ \A i, j \in DOMAIN h : i < j => h[i].seq < h[j].seq /\ h[i].id # h[j].id
  /\ \A i \in DOMAIN h : h[i].seq < host.next
  /\ \A s \in DOMAIN host.sources : host.sources[s].seq = NumberOf(host, host.sources[s].id)

\* No repair, restored row or late hook reorders two rows a client may hold, and within an
\* epoch no row changes its number (the rule fence_rewritten_history owns).
HeldRowsStay ==
  [][host'.gen = host.gen =>
       LET kept == Ids(host) \cap Ids(host') IN
       /\ \A a, b \in kept : NumberOf(host, a) < NumberOf(host, b) =>
                               NumberOf(host', a) < NumberOf(host', b)
       /\ host'.epoch = host.epoch => \A a \in kept : NumberOf(host', a) = NumberOf(host, a)]_vars

\* The step that applies a read which reaches the start of what it repairs, and that evicts
\* nothing.
Repairs(r) ==
  /\ r \in reads \ reads' /\ r.done /\ r.whole /\ r.gen = host.gen
  /\ Alignable(host, r)
  /\ Len(host'.history) < MaxHistory

\* plan_reconcile adds whatever of the read was missing, once: afterwards every message read
\* has a row, and those that were added are in the record's order, among themselves and with
\* the rows both sides ordered alike.
RepairRestores ==
  [][\A r \in reads : Repairs(r) =>
       LET row(a) == NumberOf(host', host'.sources[r.entries[a].source].id)
           missing == Missing(host, r)
           agreed == missing \cup {Anchors(host, r)[k][2] : k \in DOMAIN Anchors(host, r)}
       IN /\ \A a \in DOMAIN r.entries : r.entries[a].source \in DOMAIN host'.sources
          /\ \A a \in missing, b \in agreed :
               (a < b => row(a) < row(b)) /\ (b < a => row(b) < row(a))]_vars

\* The messages of the turn whose repair r is, as far as it was read.
OfTurn(r) == {a \in DOMAIN r.entries : ~\E k \in 2 .. a : r.entries[k].kind = "prompt"}

\* A message of the turn that ended is put back before whatever of the next turn arrived since
\* its Stop (turn_mark), such as a prompt typed before the repair had read the transcript.
LaterRowsStayLater ==
  [][\A r \in reads : Repairs(r) /\ r.mode = "turn" /\ After(host, r) # 0 =>
       \A a \in Missing(host, r) \cap OfTurn(r), i \in DOMAIN host.history :
         /\ host.history[i].seq >= After(host, r)
         /\ \A b \in OfTurn(r) : SourceOf(host, host.history[i].id)[2] # r.entries[b].source[2]
         => NumberOf(host', host'.sources[r.entries[a].source].id)
              < NumberOf(host', host.history[i].id)]_vars

\* A row that shows a finished tool or a whole reply.
Finished(row) ==
  /\ row.state = "complete" /\ ~row.cut
  /\ row.kind = "reply" \/ (row.kind = "tool" /\ row.body.words = "completed")

\* What is shown finished stays as it is: no late chunk, no late start of a tool and no older
\* copy in a read takes it back (the revision checks of upsert_bridge_entry and
\* append_bridge_text, and the settled displays).
FinishedStaysFinished ==
  [][\A i \in DOMAIN host.history :
       Finished(host.history[i]) /\ host'.gen = host.gen /\ host.history[i].id \in Ids(host') =>
         host'.history[At(host', host.history[i].id)].body = host.history[i].body]_vars

\* A session that claims its conversation from the start (set_history_coverage) holds every
\* message that was written before the session was registered.
FullMeansWhole ==
  host.full => \A n \in 1 .. born :
    script[n].what \in {"prompt", "start", "last"} => Record(script[n]) \in DOMAIN host.sources

\* longest_increasing_chain finds an increasing chain, and no set of matches that both sides
\* order alike is larger.
ChainIsLongest ==
  [][\A r \in reads \ reads' :
       LET matches == Matches(Held(host), r.entries)
           chain == LongestIncreasingChain(matches)
           Alike(S) == \A j, k \in S : j < k => matches[j][2] < matches[k][2]
       IN /\ \A k \in 1 .. Len(chain) - 1 :
               chain[k][1] < chain[k + 1][1] /\ chain[k][2] < chain[k + 1][2]
          /\ \A S \in SUBSET DOMAIN matches : Alike(S) => Cardinality(S) <= Len(chain)]_vars

\* A tool whose completion is delivered shows it ("the live completion is still coming and must
\* not be pre-empted", refreshes).
CompletionsAreShown ==
  [][\A n \in late \ late' :
       script[n].what = "done" /\ lost' = lost /\ Record(script[n]) \in DOMAIN host'.sources =>
         LET row == At(host', host'.sources[Record(script[n])].id)
         IN host'.history[row].body.words = "completed"]_vars
=============================================================================
