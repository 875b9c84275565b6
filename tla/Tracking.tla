------------------------------- MODULE Tracking -------------------------------
(***************************************************************************)
(* Opportunities from detection to the history: calculate_and_notify in    *)
(* the tasks that bring quotes (websocket_manager/detection.rs), the       *)
(* tracked records (opportunity_tracker.rs), and the writer behind the     *)
(* bounded storage queue (services/storage/mod.rs, tracking_repo.rs).      *)
(*                                                                         *)
(* The prices of a market are the margin they give: 0 for none, and        *)
(* numbers in the order of the margins. They are fresh by a stamp for each *)
(* platform, which is renewed with and without a calculation. Which price  *)
(* a feed stores, and when a REST cycle writes an older one back, is in    *)
(* KalshiFeed and PolymarketFeed. The depth columns of a row and the list  *)
(* of opportunities for display are left out.                              *)
(***************************************************************************)
EXTENDS Naturals, Sequences, FiniteSets, SequencesExt

CONSTANTS
  Markets,
  Platforms,     \* the two whose quotes make a price
  Tasks,         \* the tasks that call calculate_and_notify
  MaxMargin,     \* bound: margins
  Threshold,     \* tracking_threshold
  QueueSize,     \* capacity of the command channel (1000)
  Faults         \* "write": a statement may fail; "crash": the process may die

ASSUME TrackingAssumption ==
  /\ MaxMargin \in Nat /\ Threshold \in 1..MaxMargin /\ QueueSize \in Nat \ {0}
  /\ Faults \subseteq {"write", "crash"}

VARIABLES
  list,      \* matched_markets
  margin,    \* what the prices of a market give, fresh or not; 0 out of the list
  stale,     \* pairs of a market and a platform without a fresh quote of it
  task,      \* calculate_and_notify of each task
  tracking,  \* active_tracking: max_profit_margin, 0 if not tracked
  queue,     \* the storage commands
  rows,      \* arbitrage_tracking: max_profit_margin of a row without end_time, or 0
  cleaning,  \* remove_ended_markets: keys out of the list and still tracked
  torn,      \* history: markets with a lost command since their last start
  shrunk,    \* history: tasks under whose call the list became shorter
  missed     \* history: markets whose prices no call of their own calculated with

vars == <<list, margin, stale, task, tracking, queue, rows, cleaning, torn, shrunk, missed>>

Margins == 0..MaxMargin
Idle == [at |-> "idle", of |-> "none", index |-> 0, key |-> "none", margin |-> 0]
Commands == [op : {"start", "update", "end"}, id : Markets, margin : Margins]

TypeOK ==
  /\ list \in Seq(Markets) /\ IsInjective(list)
  /\ margin \in [Markets -> Margins] /\ stale \subseteq Markets \X Platforms
  /\ task \in [Tasks -> [at : {"idle", "ready", "prices", "key", "track", "look", "end", "dead"},
                         of : Markets \cup {"none"}, index : Nat,
                         key : Markets \cup {"none"}, margin : Margins]]
  /\ tracking \in [Markets -> Margins]
  /\ queue \in Seq(Commands) /\ Len(queue) <= QueueSize
  /\ rows \in [Markets -> Margins] /\ cleaning \subseteq Markets
  /\ torn \subseteq Markets /\ shrunk \subseteq Tasks
  /\ missed \subseteq Markets

Init ==
  /\ list = <<>> /\ margin = [m \in Markets |-> 0] /\ stale = Markets \X Platforms
  /\ task = [t \in Tasks |-> Idle] /\ tracking = [m \in Markets |-> 0]
  /\ queue = <<>> /\ rows = [m \in Markets |-> 0] /\ cleaning = {}
  /\ torn = {} /\ shrunk = {} /\ missed = Markets

-----------------------------------------------------------------------------
(* The storage queue: track_start, track_update and track_end try to send    *)
(* and drop the command when there is no room; one task executes it.         *)

Sent(q, c) == IF Len(q) < QueueSize THEN Append(q, c) ELSE q
TornBy(c) ==
  IF Len(queue) = QueueSize THEN torn \cup {c.id} ELSE IF c.op = "start" THEN torn \ {c.id} ELSE torn

Send(c) == queue' = Sent(queue, c) /\ torn' = TornBy(c)

\* INSERT OR REPLACE for a start, UPDATE ... WHERE id for the others. (What
\* becomes of the margin of a row that has ended is left out.)
execute_command(max, c) ==
  IF c.op = "start" THEN c.margin
  ELSE IF c.op = "end" THEN 0
  ELSE IF max = 0 \/ max >= c.margin THEN max ELSE c.margin

Write ==
  /\ queue # <<>> /\ queue' = Tail(queue)
  /\ rows' = [rows EXCEPT ![Head(queue).id] = execute_command(@, Head(queue))]
  /\ UNCHANGED <<list, margin, stale, task, tracking, cleaning, torn, shrunk, missed>>

WriteFails ==
  /\ "write" \in Faults /\ queue # <<>> /\ queue' = Tail(queue)
  /\ torn' = torn \cup {Head(queue).id}
  /\ UNCHANGED <<list, margin, stale, task, tracking, rows, cleaning, shrunk, missed>>

-----------------------------------------------------------------------------
(* calculate_and_notify. Each look at the market list takes its lock anew    *)
(* and goes by the index found when the quote was stored.                    *)

Position(m) == CHOOSE i \in DOMAIN list : list[i] = m
Busy == {t \in Tasks : task[t].at \notin {"idle", "dead"}}
Step(t, r) == task' = [task EXCEPT ![t] = r]
Leave(t) == Step(t, Idle) /\ shrunk' = shrunk \ {t}
Die(t) == Step(t, [Idle EXCEPT !.at = "dead"]) /\ UNCHANGED shrunk
Fresh(m) == \A x \in Platforms : <<m, x>> \notin stale

\* A platform's quote of a listed market changes: it is stamped and stored,
\* and a call starts for its market (whose name, .of, is kept for the
\* properties: the call goes by the index).
Quote(t, m, x, n) ==
  /\ task[t].at = "idle" /\ m \in ToSet(list)
  /\ margin' = [margin EXCEPT ![m] = n] /\ stale' = stale \ {<<m, x>>}
  /\ Step(t, [Idle EXCEPT !.at = "ready", !.of = m, !.index = Position(m)])
  /\ missed' = IF Busy = {} /\ m \notin cleaning THEN missed \ {m} ELSE missed \cup {m}
  /\ UNCHANGED <<list, tracking, queue, rows, cleaning, torn, shrunk>>

\* The stamp alone is renewed, and no call starts: the stream's book gives the
\* price it gave before, or a REST cycle finds that the stream owns the price.
Restamp(m, x) ==
  /\ m \in ToSet(list) /\ <<m, x>> \in stale /\ stale' = stale \ {<<m, x>>}
  /\ UNCHANGED <<list, margin, task, tracking, queue, rows, cleaning, torn, shrunk, missed>>

\* is_market_ready.
Listed(t) == task[t].index <= Len(list)
At(t) == list[task[t].index]

Unready(t) == Leave(t) /\ missed' = missed \cup {task[t].of}

CheckReady(t) ==
  /\ task[t].at = "ready"
  /\ IF Listed(t) /\ Fresh(At(t))
     THEN Step(t, [task[t] EXCEPT !.at = "prices"]) /\ UNCHANGED <<shrunk, missed>>
     ELSE Unready(t)
  /\ UNCHANGED <<list, margin, stale, tracking, queue, rows, cleaning, torn>>

\* markets[idx] panics past the end of the list.
ReadPrices(t) ==
  /\ task[t].at = "prices"
  /\ \/ ~Listed(t) /\ Die(t) /\ UNCHANGED missed
     \/ Listed(t) /\ ~Fresh(At(t)) /\ Unready(t)
     \/ /\ Listed(t) /\ Fresh(At(t))
        /\ Step(t, [task[t] EXCEPT !.at = "key", !.margin = margin[At(t)]])
        /\ UNCHANGED <<shrunk, missed>>
  /\ UNCHANGED <<list, margin, stale, tracking, queue, rows, cleaning, torn>>

ReadKeyAbove(t) == \* mutant: without an opportunity there is nothing to look at
  /\ task[t].at = "key"
  /\ \/ ~Listed(t) /\ Die(t)
     \/ Listed(t) /\ task[t].margin < Threshold /\ Leave(t)
     \/ /\ Listed(t) /\ task[t].margin >= Threshold
        /\ Step(t, [task[t] EXCEPT !.at = "track", !.key = At(t)]) /\ UNCHANGED shrunk
  /\ UNCHANGED <<list, margin, stale, tracking, queue, rows, cleaning, torn, missed>>

ReadKey(t) ==
  /\ task[t].at = "key"
  /\ \/ ~Listed(t) /\ Die(t)
     \/ Listed(t) /\ task[t].margin \in 1..(Threshold - 1) /\ Leave(t)
     \/ /\ Listed(t) /\ task[t].margin = 0
        /\ Step(t, [task[t] EXCEPT !.at = "look"]) /\ UNCHANGED shrunk
     \/ /\ Listed(t) /\ task[t].margin >= Threshold
        /\ Step(t, [task[t] EXCEPT !.at = "track", !.key = At(t)]) /\ UNCHANGED shrunk
  /\ UNCHANGED <<list, margin, stale, tracking, queue, rows, cleaning, torn, missed>>

\* track_opportunity: the command is sent under the lock on the records.
Track(t) ==
  LET m == task[t].key
      n == task[t].margin
      op == IF tracking[m] = 0 THEN "start" ELSE "update"
  IN  /\ task[t].at = "track" /\ Leave(t)
      /\ tracking' = [tracking EXCEPT ![m] = IF @ < n THEN n ELSE @]
      /\ Send([op |-> op, id |-> m, margin |-> n])
      /\ UNCHANGED <<list, margin, stale, rows, cleaning, missed>>

LookAgain(t) ==
  /\ task[t].at = "look"
  /\ IF Listed(t)
     THEN Step(t, [task[t] EXCEPT !.at = "end", !.key = At(t)]) /\ UNCHANGED shrunk
     ELSE Leave(t)
  /\ UNCHANGED <<list, margin, stale, tracking, queue, rows, cleaning, torn, missed>>

End(m) == [op |-> "end", id |-> m, margin |-> 0]

maybe_end_tracking(t) ==
  LET m == task[t].key
  IN  /\ task[t].at = "end" /\ Leave(t)
      /\ IF tracking[m] # 0
         THEN tracking' = [tracking EXCEPT ![m] = 0] /\ Send(End(m))
         ELSE UNCHANGED <<tracking, queue, torn>>
      /\ UNCHANGED <<list, margin, stale, rows, cleaning, missed>>

-----------------------------------------------------------------------------
(* The rest of the manager.                                                  *)

\* The stamp of a quote comes to the freshness limit. (Nobody ends a record.)
GoStale(m, x) ==
  /\ <<m, x>> \notin stale /\ stale' = stale \cup {<<m, x>>}
  /\ UNCHANGED <<list, margin, task, tracking, queue, rows, cleaning, torn, shrunk, missed>>

AddMarketFirst(m, n) == \* mutant: a new market goes to the front
  /\ m \notin ToSet(list) /\ list' = <<m>> \o list
  /\ margin' = [margin EXCEPT ![m] = n] /\ missed' = missed \cup {m}
  /\ UNCHANGED <<stale, task, tracking, queue, rows, cleaning, torn, shrunk>>

\* add_matched_markets: with the prices of the scan, and no call.
AddMarket(m, n) ==
  /\ m \notin ToSet(list) /\ list' = Append(list, m)
  /\ margin' = [margin EXCEPT ![m] = n] /\ missed' = missed \cup {m}
  /\ UNCHANGED <<stale, task, tracking, queue, rows, cleaning, torn, shrunk>>

\* Vec::retain.
Without(s, keys) ==
  LET kept[i \in 0..Len(s)] ==
        IF i = 0 THEN <<>>
        ELSE IF s[i] \in keys THEN kept[i - 1] ELSE Append(kept[i - 1], s[i])
  IN  kept[Len(s)]

\* remove_ended_markets: the list and the quotes first ...
CleanList(keys) ==
  /\ cleaning = {} /\ cleaning' = keys
  /\ list' = Without(list, keys) /\ stale' = stale \cup (keys \X Platforms)
  /\ margin' = [m \in Markets |-> IF m \in keys THEN 0 ELSE margin[m]]
  /\ shrunk' = shrunk \cup Busy
  /\ missed' = IF Busy = {} THEN missed \cup keys ELSE Markets
  /\ UNCHANGED <<task, tracking, queue, rows, torn>>

CleanTrackingOnly(m) == \* mutant: the record goes without a command
  /\ m \in cleaning /\ cleaning' = cleaning \ {m}
  /\ tracking' = [tracking EXCEPT ![m] = 0]
  /\ UNCHANGED <<list, margin, stale, task, queue, rows, torn, shrunk, missed>>

\* ... and then the records, each with its command.
CleanTracking(m) ==
  /\ m \in cleaning /\ cleaning' = cleaning \ {m}
  /\ IF tracking[m] # 0
     THEN tracking' = [tracking EXCEPT ![m] = 0] /\ Send(End(m))
     ELSE UNCHANGED <<tracking, queue, torn>>
  /\ UNCHANGED <<list, margin, stale, task, rows, shrunk, missed>>

\* The process dies and starts again: only the rows are left.
Crash ==
  /\ "crash" \in Faults
  /\ task' = [t \in Tasks |-> Idle] /\ tracking' = [m \in Markets |-> 0]
  /\ queue' = <<>> /\ cleaning' = {} /\ stale' = Markets \X Platforms /\ shrunk' = {}
  /\ list' = <<>> /\ margin' = [m \in Markets |-> 0] /\ missed' = Markets
  /\ torn' = torn \cup {m \in Markets : rows[m] # 0} \cup {queue[i].id : i \in DOMAIN queue}
  /\ UNCHANGED rows

-----------------------------------------------------------------------------
Detection(t) ==
  \/ CheckReady(t) \/ ReadPrices(t) \/ ReadKey(t) \/ Track(t) \/ LookAgain(t)
  \/ maybe_end_tracking(t)

Next ==
  \/ \E t \in Tasks : Detection(t)
  \/ \E m \in Markets, x \in Platforms :
       Restamp(m, x) \/ GoStale(m, x) \/ \E t \in Tasks, n \in Margins : Quote(t, m, x, n)
  \/ \E m \in Markets : CleanTracking(m) \/ \E n \in Margins : AddMarket(m, n)
  \/ \E keys \in SUBSET ToSet(list) \ {{}} : CleanList(keys)
  \/ Write \/ WriteFails \/ Crash

Spec == Init /\ [][Next]_vars

-----------------------------------------------------------------------------
(* Properties.                                                               *)

\* What the row of a market will be when the queue is empty.
Settled(m) ==
  LET max[i \in 0..Len(queue)] ==
        IF i = 0 THEN rows[m]
        ELSE IF queue[i].id = m THEN execute_command(max[i - 1], queue[i]) ELSE max[i - 1]
  IN  max[Len(queue)]

\* Unless a command of a market was lost since its last start, its row will
\* tell of the record in memory: open with the same best margin while it is
\* tracked, and not open when it is not.
RowsFollowTracking ==
  \A m \in Markets \ torn : Settled(m) = tracking[m]

\* A detection goes wrong only when the list became shorter under it: no other
\* way to a panic, or to the record of another market than the quote was for.
IndexIsRight ==
  \A t \in Tasks \ shrunk :
    /\ task[t].at # "dead"
    /\ task[t].at \in {"track", "end"} => task[t].key = task[t].of

AtRest == cleaning = {} /\ \A t \in Tasks : task[t].at = "idle"

\* When all is calculated, a listed market is tracked while its prices are
\* worth it, and no longer when they give no opportunity, however its quotes
\* went stale and were stamped again, unless its last prices were missed: a
\* quote was stale at their call, they came with the market out of a scan, or
\* two tasks or a removal crossed on it.
TrackedWhileWorth ==
  AtRest =>
    \A m \in ToSet(list) \ missed :
      /\ margin[m] >= Threshold => tracking[m] >= margin[m]
      /\ margin[m] = 0 => tracking[m] = 0

=============================================================================
