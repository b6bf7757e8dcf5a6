# RainBox in TLA+

RainBox is a local, multi-agent chat system: a Flask web app and a supervisor
thread in one "core" process, worker processes for the agents, a launcher above
the core and its satellite services, and one Postgres database in which
everything durable lives. This directory models the parts of it where the order
of steps decides whether the system is correct, checks them with TLC on small
instances, and proves the most important facts with TLAPS for all instances.

    tlc -workers 2 -config supervisor_safety.cfg MCSupervisor.tla
    tlc -workers 2 -config direct_room.cfg MCDirectRoom.tla
    tlc -workers 2 -config cron.cfg MCCron.tla
    tlapm SupervisorProofs.tla

Paths below are relative to `src/source/`.

## 1. Inventory

| component | code | state | operations | talks to |
|---|---|---|---|---|
| Work queue | `db/queue.py`, `db/models.py` (Inbox, Journal) | `inbox` rows; `journal` rows with a state, a result, `routed_at`, `stop_requested_at` | enqueue, take_item, journal_update, fail_journal_if_processing, fetch_unrouted_terminal, mark_routed, cancel_room_turns, stop_requested | every producer and worker, by committed transactions |
| Supervisor loop | `core.py` | the `agents` dict (socket, pid, `current_journal_id`, `term_deadline`, last message), in memory only | sweep at start, route, spawn, receive, watchdog, reap and recover, shut down | workers by socketpair, SIGTERM, SIGKILL, waitpid; the queue; the run store |
| Agent lifecycle | `agents/base.py` (Agent.run), `agents/__main__.py` | one process; the item it holds | take, report, handle, settle, report, exit when idle; unwind on SIGTERM | queue, supervisor |
| Assistant run store | `db/assistant.py` | `assistant_run`, `assistant_step`, control requests, chat notices | start, finish, recover an interrupted run, post a notice | worker, supervisor |
| Stop button | `db/queue.py`, `agents/turn_stop.py`, `agents/direct_chat.py`, `webapp/chat_api.py` | `stop_requested_at`, a watcher thread, its event and signal window, streaming chat rows | stop, cancel queued turns, poll, interrupt, settle | web thread, worker, its watcher thread |
| Launcher | `main.py`, `services/definitions.py` | one Proc per service: pid, desired, nonce, backoff, crash budget, drain and term deadlines | preflight, spawn, drain, reconcile, shut down in two phases | the core by pipe or socket, process groups by signal |
| Control channel | `services/registry.py`, `main.py` | desired states, restart nonces | push a snapshot, report status | web app, launcher |
| Cron | `db/cron.py` | `cron_job` (next_run_at, retry), `cron_run` | tick, fire, retry, sweep pending, record an outcome | supervisor loop, queue, workers |
| Kanban claims | `db/kanban.py`, `tools/kanban_runner.py`, `agents/kanban_worker.py` | `claimed_by`, `lease_expires_at`, status of a task | claim, claim next, renew, release, complete, enqueue | agents, web app, queue |
| Memory beliefs | `db/memory.py` | claims with status and supersession, tombstones | record, supersede, reject, forget | agents, web app |
| Chat bridges | `discord_service/connector_bridge.py`, `telegram_service/bridge.py` | configuration epoch, cursors, inbound queue | load and publish a configuration, forward, acknowledge | chat services, web API |
| Activity recorder | `llm/activity.py`, `db/activity.py` | pending starts, event rows | start, end, abandon | model calls |
| Chat rooms and API | `db/chat.py`, `webapp/chat_api.py` | messages, members, trees | send, retry, stop, edit | browser |
| Assistant turn loop | `agents/assistant.py`, `agents/assistant_writes.py` | steps, write intents | plan, act, verify, finish | models, tools, run store |
| Model groups | `agents/base.py`, `agents/model_groups.py` | member order, per-turn failures | resolve, fall back | models |
| Settings, pages, voice, evals, research, backup | the rest | rows and files | reading and writing | browser, providers |

Hard behaviours, and what makes each component correct:

* **Queue.** Two processes act on one table between each other's reads and
  writes, and any of them can be killed between two commits. Correct: a row is
  never lost, never taken twice, and a terminal outcome never changes.
* **Supervisor.** It acts on a belief (`current_journal_id`) that is as old as
  the last message; workers die, hang, and exit by themselves while being
  terminated; the supervisor itself dies with its memory. Correct: one worker per
  role, recovery never touches a row somebody works on or has finished, every
  due return is routed, the inbox drains, no run stays open.
* **Stop button.** Four actors (web thread, worker, watcher thread, supervisor)
  race for one turn. Correct: a turn is dropped or told to stop or already done,
  and never a turn other than the one meant.
* **Launcher.** Preflights block, exits arrive as SIGCHLD, backoff and drain
  deadlines interact with desired state and nonces, and a signal may strike
  between any two statements. Correct: never two groups of one service, no
  restart without a new nonce and no nonce without its effect, the core stopped
  last, a shutdown that ends.
* **Cron.** Firing and advancing are two commits; outcomes can be late; clicks
  bypass the schedule. Correct: a slot fires once, short of crashes; runs do not
  pile up; retries are bounded; no run is in flight for ever.
* **Kanban.** Leases expire under a holder that still works, checks are made
  without the row's lock, and a page puts back a board it read a while ago.
  Correct: two agents at one card only after a lease was lost, no live lease
  handed on, no lease left behind.
* **Memory.** At most one active belief per key, a forgotten one stays forgotten.
* **Bridges.** Configurations fetched before an invalidation must not win;
  inbound messages are forwarded at least once.

PROJECT.json lists every hazard at its line, with the properties that cover it
or the reason none does yet.

## 2. Plan

The order is by importance: the core first, then what the core relies on or is
asked by.

| # | module | of | composes | main properties | runs |
|---|---|---|---|---|---|
| 1 | `Queue`, `TurnLedger`, `Supervisor` (**done**) | core | Supervisor over Queue, implementing TurnLedger | one worker per role, rows accounted for, outcomes final, recovery never misled; drains, routes, closes | 2 passing, 3 violations |
| 2 | `StopWatch`, `DirectRoom` (**done**) | Stop button | DirectRoom over Queue | a stop reaches the turn it was meant for or finds it over; no signal outside the window; no cursor without a worker | 2 passing, 2 violations |
| 3 | `Launcher` (**done**) | launcher, control channel | – | one group per service, restarts caused and effective, the core last; shutdown ends | 1 passing |
| 4 | `Cron` (**done**) | scheduler | – | slots once, no piling up, retries bounded, verdicts stand, runs settle | 1 passing |
| 5 | `Kanban` (**done**) | claims, worker, page | – | exclusive work, live leases stand, leases returned | 1 passing |
| 6 | `Bridge` | connectors | – | stale configurations never published, no message skipped | open |
| 7 | `Beliefs` | memory | – | one active belief per key, tombstones hold | open |

The abstract specification of the queue, TurnLedger, is implemented by it in the
hands of supervisor and workers, and by a direct room with its presses of Stop.
Launcher discharges what Supervisor assumes of
its surroundings (`Managed`, see below); the other modules meet in the database
only, through rows the Queue module and the supervisor's tick already describe.

Theorems: every safety property that a passing run checks is proved, both
refinements are, and three of the violations have a theorem beside them that
says how far they reach (section 5). All modules avoid RECURSIVE, so that they
can be proved about.

## 3. Modules

### Queue

One operator per transaction of `db/queue.py`. A row carries only what a
property distinguishes: whom it is for, the return address in its payload, why
it was enqueued (a producer's turn, a routed envelope, a summary order), and
from which journal row. Ids are the serial of the inbox table; the journal is
indexed in `started_at` order, which is the order the code sorts by (its uuid is
not monotonic). The journal's `back` is the return address inside the *result*:
the routing pass reads nothing else, and `_recover_assistant_journal` writes a
result without it.

`TakeItem` is the INSERT and DELETE only; the SELECT is a separate step of the
worker. Deleting a row that is no longer there is not an error in the ORM, and
the model inserts the journal row all the same: that nobody takes a row between
the two is a theorem, not a guard.

`QueueInv` is part of the inductive invariant: each inserted row is either in
the inbox or in exactly one journal entry.

### TurnLedger

What the queue promises: rows arrive, wait, are begun once, and end once in one
outcome for ever. No processes, sockets or ids of journal rows. Two modules
implement it. In Supervisor the inbox is what waits. In DirectRoom a press may
delete an inbox row that a worker has read and then runs all the same, so a row
waits there from its insertion to its take, deleted or not.

### Supervisor

`spc` is the part of the pass the supervisor thread is in; every action is one
commit, one message, or one in-memory decision.

| code | actions |
|---|---|
| `_recover_runs_from_previous_supervisor` | Start, SweepOne, SweepDone |
| routing at the top of the loop | Fetch, SendEnvelope, Stamp (envelope and stamp are two commits) |
| spawn for every role with work | Spawn, SpawnDone |
| select, recv | Recv |
| heartbeat and SIGTERM deadlines | Terminate, Kill, WatchDone |
| reap, recover, drop from `agents` | Recover, Forget, ReapDone |
| `_recover_assistant_journal`, `recover_interrupted_assistant_run`, `fail_journal_if_processing` | LookUpRun, KillRun, CheckJournal, FailJournal, PostKilledNotice, OrderSummary, RecoveryError (read and write are two steps) |
| stop event, process death | Stop, StopDone, Crash |
| `Agent.run` | Poll (the SELECT), Take (the commit), EmitProcessing, Settle, EmitOutcome, Exit |
| the assistant's handle() | StartRun, FinishRun, PostFailure, RequestSummary |
| what befalls a process | Die, Hang, Unwind (SIGTERM), DrainGroup (the launcher) |

`mail[p]` is what the supervisor will believe when it has drained p's socket:
the last unread message. Messages before it change `current_journal_id` only
for an instant within one `Recv`, and every message refreshes the heartbeat.

A signal is not instantaneous: after SIGTERM, a worker starts no new statement
but a transaction already under way can commit (Take and Settle stay enabled
until Unwind), which is what the races with the watchdog need.

`Managed` says that the core runs under the launcher, which starts a new core
only when the process group of the old one is gone (`_handle_exit`,
`_group_alive`). With `Managed = FALSE` the core is started by hand next to
orphans of a previous one; the safety invariants are about the managed case.

Abstracted: heartbeats are folded into the unread status (a heartbeat that
follows its outcome, possible because the thread is joined for two seconds
only, is listed as a hazard and not modelled); steps, checkpoints, control
requests and the text of notices; a run that ends `stopped` counts as finished;
errors of the worker's own transactions (they end in a failed item, or in the
process's death, which is modelled); a COMMIT that reaches Postgres after its
client was SIGKILLed in `Stop`; the command-line modes of `core.py`.

`Crash` covers both a killed core and an exception that leaves the supervisor
thread. In the code the second leaves the web server up and nobody restarts the
loop; in the model every crash is followed by a restart. The hazard list has it.

### StopWatch

How a worker abandons a model call: `agents/turn_stop.py`, driven as
`_stream_reply` drives it. The main thread's statements are Enter, OpenWindow,
Answer, CloseWindow, Work, Check, ExitClose, ExitHalt, ExitJoin, ExitRestore and
Settle; the watcher thread's are Poll, Probe, ProbeFails, Observe and Signal.
Each turn has a watch of its own, so event, halt, window flag, lock and watcher
are functions of the turn, and a watcher whose join timed out goes on into later
turns.

A Python signal handler runs between any two statements of the main thread some
time after the signal was sent: `sig` is set by Signal and consumed by OnSignal
whenever that happens. `Thrown` says where the exception then leads, which is
what the order of `__exit__` is about: out of a read it goes through the window's
finally; a finally that has not yet got the lock is abandoned and leaves the
window flag up; an `__exit__` that has not yet got it leaves thread and handler
behind. SIGTERM raises wherever it strikes and may be replaced by a stop that
arrives while it unwinds.

Abstracted: what a chunk contains; the inert watch (no journal); what a SIGUSR1
does to a process that is already exiting.

### DirectRoom

One direct room and its responder, over Queue.

| code | actions |
|---|---|
| `_maybe_trigger_direct_chat` | Send, PostBubble (two commits) |
| `stop_chat_room_turn` | ReadInbox and Cancel (one transaction, `cancel_room_turns`), SettleRows, StopNotice |
| supervisor | Spawn, Recover |
| `Agent.run` | Poll (the SELECT of take_item), Take (its commit), Report, Journal |
| `DirectChatAgent.handle`, `_stream_reply`, `StreamingReplyWriter` | Refuse, Flush, Finish, Cut, PostNotice |
| faults | Die (the worker), Outage (the core with it), a Cut whose settling fails |

`cancel_room_turns` is one transaction, but under READ COMMITTED each of its
statements sees what others have committed meanwhile; it has two actions for
that reason. Its deletes are flushed before the journal is read, and a delete of
a row that a take has locked waits for the take, so Cancel is one step.

`known` is what Supervisor's `known` is for this role, updated with the message
itself; the delay between the two is Supervisor's matter. A turn's thinking row
and answer row are one `answer`: both are created, flushed and settled together
as far as a cursor is concerned. Only the answer row and notices reap the
bubble, so Flush may or may not.

Abstracted: one send and one press at a time; other rooms of the same responder
(`_payload_names_room` is true of every row); texts and models.

### Launcher

`lpc` is where the launcher's one thread is: asleep in select(), reaping,
reading the core's lines, at one record of `_reconcile`, about to spawn, or in
`_shutdown_tick`.

| code | actions |
|---|---|
| `run`, select() | Wake, Sleep |
| `_reap`, `_handle_exit` | Reap, ReapDone |
| `_read_core`, `_handle_core_line`, `_apply_snapshot` | ReadLine, ReadDone |
| `_reconcile_one`, a dead leader's group | EndDrain, StillDrains |
| ... a running process | Escalate, RequestStop, RestartBlocked, RunsOn |
| ... a process that does not run | StaysOff, Blocked, Decide |
| `_spawn` | Spawn, SpawnFails |
| `_reconcile`, deleted connectors | Forget |
| `request_shutdown` | FirstSignal, NextSignal |
| `tick`, `_shutdown_tick` | EndDrains, StopServices, CorePhase, StopCore, KillAll, Finish |
| `services/registry.py`, `db/bridges.py` | Restart, Enable, Disable, Delete, Push |
| processes and time | LeaderExits, Fork, MembersExit, KilledGo, Elapse, ElapsePhase |

A deadline is a timer that is not set, running, or due; it becomes due between
passes, since a pass reads the clock once. What other processes do, the
launcher notices in a few places: it happens while it sleeps and before each of
these (`Outside`), which loses no behaviour the launcher could tell apart. A
signal is different: its handler changes the launcher's own records, so it may
run between any two actions, after the decision to spawn too.

`leader` and `members` are the processes themselves, beside what the launcher
believes of them in `p`. `tried` is the nonce a record was last started with, or
refused a restart with; no code reads it.

Abstracted: the arithmetic of back-off and crash budget (an unexpected exit
leads to back-off or, by its code or the budget, to failure); why a service is
blocked (not installed, or no credential); the output pipe, which may delay
Forget; the status lines to the core; --core-only; edits after a shutdown has
begun, which are read and ignored. A second signal that strikes within
`_shutdown_tick` just before it enters phase 2 has its phase 3 overwritten; that
is not modelled, everything has been SIGKILLed by then.

`Managed` in Supervisor says that no worker of an old core is alive when a new
one starts. NeverTwoGroups is that promise with its one exception: at the drain
deadline the members are SIGKILLed and forgotten, and the new core may start
while they are on their way out (`main.py:880`). A process that has been
SIGKILLed makes no further statement, but a COMMIT it had sent may still arrive.

### Kanban

Workers, requests over HTTP and the page are processes; an operation is one
transaction with the steps at which others can come between: the clock and an
unlocked read at its beginning, the row's lock, the write.

| code | actions |
|---|---|
| `run_kanban_task` | TakeRun, Claim or ClaimRefused, Report or ReportToNobody, Complete |
| `kanban_claim_task`, `kanban_release_task`, `kanban_renew_claim` | Claim, Release, Renew and their refusals |
| `kanban_claim_next` | ClaimNext, ClaimNothing |
| `kanban_enqueue_task` | Run (the check), Enqueue |
| `kanban_move_task` | Move |
| `kanban_load_board`, `kanban_save_board` | Load, Edit, Check, Read, Write |
| time and the supervisor | Expire, Kill |

`old` is the clock of an operation: the leases that had expired when it read the
time. A lease that expires later is live to it, and one that is granted
meanwhile ends after any clock that has been read, so Leased takes the card out
of everybody's `old`. The ORM writes the fields that differ from what it read:
Completed and Saved compare with `seen` and `page.old`, not with the row.

`spoilt` and `loose` are history: cards whose lease did not last until its
worker was done, and agents that were killed or claimed over HTTP.

Abstracted: one board; titles, positions, events and context; who may name which
agent over HTTP (a request names whom it likes); database errors; creation of
cards and reassignment other than by the page. A killed worker's item is not
repeated, as in Supervisor.

### Cron

| code | actions |
|---|---|
| `cron_tick` | Begin (sweep, pause, jobs), Advance, DecideSlot, DecideRetry, Leave, End |
| `fire_cron_job` | Insert or Click (the run is committed), Launch or Conclude |
| `cron_record_run_outcome`, `_spawn_script_thread`, the shell's worker | Take, Record, Lose |
| `cron_save_tree`, `/cron/api/pause` | Switch, Reschedule, Pause |
| time | Due, GrowsOld, FailureAges |
| failures | TickFails, Restart |

The tick is one session: what it changes is committed with the next run it
inserts, or at its end, and a commit expires the jobs it has read. `tick.seen`
is what it holds of each, `tick.dirty` and `tick.done` what it has not committed.
The sweep is treated as committed at once: a firing commits it, and a tick that
fails before only repeats it.

`fired` counts the runs of the slot a job has come to, for SlotOnce. To switch a
one-shot on again is to ask for it again, so it starts a new count.

Abstracted: drafts, folders (an enabled folder is an enabled job), creation and
deletion; a `debug` run is a manual run, which for a command is an item as any
other and for a script ends where it was fired; of the retry window only the
latest run's recency is kept; the workspace shell takes its items one at a time
and in order, other items of its inbox are left out; scripts end with the core.

## 4. Runs

`MCSupervisor` has the assistant role with two process identities and the
summarizer with one; every turn is for the assistant and is to be returned to
the summarizer, so that envelopes, summary orders and turns meet in one system.
A delegated turn for the assistant is the richest case: it has a durable run, a
return address and a summary order.

| run | shows | bounds | states |
|---|---|---|---|
| supervisor_safety | FullInv, SoleWorker, EveryRowAccounted, StampMeansSent, KilledRunIsClosed, SummarizedOnce, OrphansAreCounted, OutcomesStand, ImplementsLedger | 2 turns, 2 faults, 1 failing recovery, 8 rows, 2 journal rows | 1.78 M, under 2 min |
| supervisor_liveness | BacklogDrains, ReturnsAreRouted, RunsAreClosed, KnownIsSettled | 1 turn, 1 fault, 4 rows, 4 journal rows | 231 k, about 2 min |
| routing_dup | RoutedAtMostOnce is violated | 1 turn, 1 fault | – |
| lost_return | FailedTurnWakesManager is violated | 1 turn, 1 fault | – |
| dead_item | DeadWorkersItemIsRecovered is violated | 1 turn, 1 fault | – |
| stop_watch | IndInv, NeverDefaultAction, StopIsOwn, NoLostRequest, RaisesAtCallsOnly, TermIsHonoured, StopTakesEffect | 2 turns | 5.7 k, 1 s |
| direct_room | IndInv, CursorHasWorker, StopCoversSeen, AskedEnds, ImplementsLedger | 3 sends, 2 of them taken, 2 presses, 1 fault | 449 k, 30 s |
| dropped_turn | DroppedNeverRuns is violated | 2 sends, 1 press | – |
| stray_bubble | BubbleIsReaped is violated | 1 send | – |
| launcher | IndInv, CoreOutlivesServices, NeverTwoGroups, RestartsHaveCause, SettingsTakeEffect, ShutdownEnds | 1 service, 2 edits, 1 exit, 1 unread snapshot | 833 k, 1 min 40 s |
| kanban | IndInv, Exclusive, LeaseReturned, LiveLeaseStands | 2 agents, 2 cards, 2 Runs, 1 request, 1 save, 1 kill | 3.6 M, 1 min 30 s |
| cron | IndInv (with RetriesBounded), SlotOnce, NoPileUp, VerdictStands, RunsSettle | 2 jobs, 1 retry, 2 slots or clicks, 1 upset | 1.1 M, 2 min 30 s |

Why the bounds are enough. A turn creates at most three rows (itself, its
envelope, its summary order) and each outage at most one more envelope, so
MaxRows = 3 * MaxTurns + MaxFaults never blocks an enqueue in either passing run.
MaxJournal = 2 in the safety run stops after two rows have been taken: two turns
one after the other by two different workers, or a turn and its envelope. In the
liveness run it equals MaxRows, so that nothing is blocked by it. Two
faults let a worker die (or hang, or be terminated by mistake) and the supervisor
crash in the middle of the recovery of it, or crash twice.
Identities a1 and a2 are interchangeable: the safety run uses
symmetry; the liveness run has one identity per role and no symmetry.

A turn of StopWatch has any number of chunks; two turns are enough for a watcher
to survive into a turn that is not its own, which is all a later turn can see of
an earlier one. In DirectRoom, three rows let one turn run, one wait and one
arrive during a press (only two are taken: a third turn meets nothing the second
did not); two presses overlap with two different turns.

Launcher's services share nothing but the pass and the phase of the shutdown,
so one beside the core meets whatever two would, and the theorems are for any
number. Two edits let a restart be asked for while an earlier one is under way,
one exit (of the core or of the service) comes on top of stops and kills, which
are not counted, and a second snapshot waits until the first is read. A shutdown
begins before the last edit (LastEdit), so that it never waits for edits to
come, and any edit precedes it otherwise.

In Kanban two agents race for a card, the second card is what claim_next may
choose and what the page may change meanwhile; two Runs put two items of one
card in one inbox or in two; one request and one save are enough to interleave
with each step of the others. The cards are interchangeable (symmetry).

In Cron one job is a command that is retried and one a one-shot message; two
orders and one upset leave room for a slot with its retry, a click beside it and
a restart between any two commits. Scripts have no run of their own: Launch,
Record and Restart are the same actions for them, and the theorems include them.

CHECK_DEADLOCK is on in the supervisor's runs: its loop never stops. It is off in
the others, where the worker has exited or the sends and presses are used up.

**Fairness.** Weak fairness of the supervisor's pass as a whole: select() has a
timeout and every database call returns. Weak fairness of each worker: model
calls have timeouts, and a worker that has none left is `hung`, for which no
fairness is assumed to help it (no Worker action is enabled). Weak fairness of
DrainGroup and Start, the launcher's part; its crash budget (five in two
minutes) is above the run's one outage. Strong fairness of the watchdog's two
timers, which expire in real time although the loop passes them again and again;
for the SIGTERM only where the silence is real (a frozen worker), never for one
that is merely slow. Nothing is assumed of producers, faults or errors.

In StopWatch: weak fairness of both threads and of the delivery of a signal, and
strong fairness of the probe, which may fail now and then but not for ever. None
of Answer: a cold model may send nothing at all, and StopTakesEffect has to hold
all the same. In DirectRoom: weak fairness of a press once begun and of the
worker's own statements, none of the model's answers; that a flagged turn is
finished or cut is assumed there because it is what StopTakesEffect shows.

In Launcher: weak fairness of the pass, whose select() has a timeout, and strong
fairness of the disjunction of timers, of the end of what was SIGKILLed and of
the push of a core that is up. Each of them can happen finitely often only
before it has to wait for the pass, so that one of them happens again and again
means that each does. None of an exit: a process may ignore SIGTERM. In Cron:
weak fairness of the pass and of the firing it is in, of time, and of a script's
end, which has a timeout; none of the shell's worker, which may never come to a
run. Kanban has no liveness property: a lease is given up by whoever works, and
a model may work as long as it likes.

### What the runs found

* **routing_dup.** `notes/supervisor-design.md` says a row is routed at most
  once. The envelope and the stamp are two commits, so a supervisor that ends
  between them routes the row again. `StampMeansSent` is what does hold: never
  a stamp without an envelope, and never more duplicates than outages; without an
  outage none (RoutedOnceUnlessCutShort).
* **lost_return.** A delegated turn whose worker dies is failed by the recovery
  with a result that has no `_routing`; the routing pass stamps it and wakes
  nobody, against the comment that says failed turns wake the manager too.
* **dead_item.** A worker that dies between the commit of take_item and its
  first message leaves its item in `processing`: the reaping knows of no
  journal id, and no later sweep looks at journal rows that have no run. Such
  orphans are few: OrphansAreCounted bounds them by what was lost, and a system
  that lost nothing has none (NoOrphanWithoutLoss).
* **dropped_turn.** The design note of the Stop button says that of a press and a
  take that race for one row the first to commit wins. If the press commits
  first, the take's DELETE matches no row, which is no error, and its journal row
  is committed: a turn reported as dropped runs, unflagged. `StopCoversSeen` is
  the half that does hold: a turn taken first is always flagged. And a press
  costs one such turn at most (DroppedInv, OneDroppedRunPerPress).
* **stray_bubble.** The working bubble is reaped by an answer row or a notice. A
  turn that answers nothing completes with neither, and the bubble stays until
  the next reply or press. The same state is reached by a turn that is over
  before `upsert_progress` of its own send has run.

The runs of Launcher, Kanban and Cron find no violation of what is stated there.
What the code does, and the models with it, beside what its comments say:

* `cron.py:1242` retires a one-shot "so it doesn't linger enabled-but-dead". One
  that is passed over because a click on Run now is in flight gets no next slot
  and lingers so (Committed).
* `cron.py:1116` takes a completion that has not arrived in a quarter of an hour
  for lost. A command queued behind others, or across a downtime, is swept, may
  be retried, and then completes: two executions, both recorded. NoPileUp and
  VerdictStands are what does hold.
* A dry-run that fails is retried for real: cron_should_retry does not look at
  `debug`.
* Completing a card clears whatever lease is on it, that of an agent who claimed
  it after the completer's own had expired included (`kanban.py:1401`).
* A save of the page overwrites a move that was committed between its version
  check and its read, and inserts again a card that was deleted there.
* `main.py:880` forgets and replaces a group in the pass that SIGKILLs it.
* `main.py:1001` says a deadline past is obeyed; a service in back-off that is
  then blocked keeps its retry deadline in the past, and select() no longer
  sleeps.

TermIsHonoured has an exception that is real: a stop of the very turn a SIGTERM
strikes can replace the SIGTERM's exception on its way out (StopWatch's handler
is still installed while it unwinds), and the worker then takes its next item;
the supervisor's SIGKILL ends it. AskedEnds has one too, `lost`: a worker that
died before its first message, or an outage, leaves the row in `processing`, and
every later press counts it as signalled and settles nothing.

## 5. Proofs

`QueueProofs` has the lemmas about the queue: the oldest of a non-empty set of
ids exists and is least (by the least-element property of the naturals), each
transaction keeps types and `QueueInv`, and a journal row, once there, stays.

`SupervisorProofs` proves, for all roles, processes, turns and bounds,

| theorem | statement |
|---|---|
| TypeCorrect | Spec => []TypeOK |
| OneWorkerPerRole | Managed: Spec => []SoleWorker |
| RowsAreAccounted | Managed: Spec => []EveryRowAccounted |
| KnownNeverMisleads | Managed: Spec => []KnownIsOwn |
| LedgerImplemented | Managed: Spec => ImplementsLedger |

and `DeliveryProofs`, from the same assumptions,

| theorem | statement |
|---|---|
| InvariantHolds | Managed: Spec => []FullInv |
| KilledRunsAreClosed | Managed: Spec => []KilledRunIsClosed |
| StampsAreSent | Managed: Spec => []StampMeansSent |
| RoutedOnceUnlessCutShort | Managed: Spec => [](outages = 0 => RoutedAtMostOnce) |
| SummariesOnce | Managed: Spec => []SummarizedOnce |
| OrphansCounted | Managed: Spec => []OrphansAreCounted |
| NoOrphanWithoutLoss | Managed: Spec => [](deaths = 0 /\ errors = 0 /\ outages = 0 => Orphans = {}) |
| OutcomesAreFinal | Managed: Spec => OutcomesStand |

They rest on QueueAssumption and SupervisorAssumption alone (distinct null
values, the types of the constants, finitely many roles). The hypotheses of
RoutedOnceUnlessCutShort and NoOrphanWithoutLoss hold in runs of any length in
which nothing is lost.

**The argument.** None of these is inductive by itself. That an outcome is final
rests on FailJournal writing only on an open row, which it checked one step
earlier; between the two nobody else may settle it, so no live worker may hold
it (RecoveryInv). That rests on what the supervisor believed being a row of that
very worker, now dead (HoldInv), which rests on the worker's messages naming the
row it holds and on nobody else being able to take the same row; and that on a
row picked by one worker still being in the inbox when it commits (PickInv),
because there is one worker per role (ProcInv). One worker per role across
restarts needs the `agents` dict to name every live worker while a supervisor
runs, and the launcher's drain while none does. `IndInv` is the conjunction of
the six, proved by one step per action and conjunct. The ledger follows because every step is, on the queue, one
of four things (`QueueStep`): nothing, an enqueue, a take of a row that is in
the inbox, or an end of a row that is processing.

What the operations of several transactions leave behind needs more conjuncts,
and `FullInv`, which TLC checks in supervisor_safety, is all of them.
ClosingInv follows a recovery: it comes to its notice with the row ended, and one
that begins with the run already killed finds row and notice done, because
whoever killed it went through, or was cut short, which is counted; and no
worker can be at work on such a row. SentInv follows the routing pass: the row
about to be stamped has its envelope, and is the only unstamped row that may have
one envelope more than there were outages, since only an outage forgets it.
RunInv follows a run: a worker that has taken an item finds no run of it, one
that has yet to order the summary has closed its run and nobody has ordered one,
and a recovery kills only a run that is running. So the worker and the recovery
that each can close a run and summarise it never both do, and OutcomesStand
covers runs as well as rows.

The orphans take three. An open item is awaited if the supervisor believes a
worker is on it, has an unread message that says so, or is recovering it.
ReportInv says that an unread message never makes the supervisor forget an item
that is still open, and AwaitInv that it awaits one item per role at most, the
item of the role's worker if it has one. The bound itself is not inductive: when
a worker without a supervisor dies, an orphan appears whose cause was counted
long before. CountInv therefore adds to the orphans those that are paid for and
may yet come (`Owing`): one for each role whose worker is without a supervisor,
or was told to terminate before it could report what it takes. Each action that
makes an orphan either has its own fault or uses up one of these.

`StopWatchProofs`, for any number of turns, and `DirectRoomProofs`, for any
numbers of sends, presses and faults:

| theorem | statement |
|---|---|
| WatchInvariant | Spec => []IndInv (StopWatch) |
| StopsAreOwn | Spec => []StopIsOwn |
| DefaultActionUnreached | Spec => []NeverDefaultAction |
| RequestsAreNotLost | Spec => []NoLostRequest |
| RaisesAroundCalls | Spec => RaisesAtCallsOnly |
| RoomInvariant | Spec => []IndInv (DirectRoom) |
| StopCovers | Spec => []StopCoversSeen |
| CursorsHaveWorkers | Spec => []CursorHasWorker |
| OneDroppedRunPerPress | Spec => [](Cardinality(dropped \cap Begun) <= presses) |
| RoomImplementsLedger | Spec => ImplementsLedger |
| RoomOutcomesStand | Spec => outcomes of turns stand, and no turn has two |

In StopWatch the point is where a window flag can be up outside its window: an
interrupted finally leaves it so. `OpenInv` says that such a flag belongs to a
watcher that has done its signalling, and `SignalInv` that a signal on its way
was the last act of the watcher of the current turn, whose handler is still
installed. Both are needed for either. In DirectRoom, that a press misses
nothing follows from no turn being lost (`TurnInv`): a row it read that is in
neither the inbox nor the dropped ones has a journal row, and one in
`processing` is flagged by the same statement that looks. `TurnInv` is weaker
than QueueInv, since a deleted row may run, so DirectRoom has its own lemmas
about the queue's operations. How many may is DroppedInv: a press that has
deleted its rows has met at most one that the worker had read and not taken, and
that one is counted from the deletion on (`pc = "picked" /\ row \in dropped`)
until it is taken or its reader dies. The refinement goes action by action: a
send arrives, a take begins (of a deleted row too), a journalled outcome or a
recovery ends, and the rest, presses included, the ledger does not see;
RoomOutcomesStand is then read off the ledger's own steps.

`LauncherProofs`, `KanbanProofs` and `CronProofs`, for any services, agents,
cards, jobs, retries and bounds:

| theorem | statement |
|---|---|
| LauncherInvariant | Spec => []IndInv (Launcher) |
| CoreIsLast | Spec => []CoreOutlivesServices |
| NothingOutlivesLauncher | Spec => []NothingLeft |
| NoTwoGroups | Spec => NeverTwoGroups |
| RestartsCaused | Spec => RestartsHaveCause |
| KanbanInvariant | Spec => []IndInv (Kanban) |
| OneAtWork | Spec => []Exclusive |
| NoLeaseLeft | Spec => []LeaseReturned |
| LiveLeasesStand | Spec => LiveLeaseStands |
| CronInvariant | Spec => []IndInv (Cron) |
| SlotsOnce | Spec => []SlotOnce |
| NoPilingUp | Spec => []NoPileUp |
| RetriesAreBounded | Spec => []RetriesBounded |
| VerdictsStand | Spec => VerdictStands |

In Launcher, that nothing starts beside an old group needs RecInv, which is
about all the places where a group could be forgotten: a process that dies with
members left, a stop requested meanwhile, a drain that ends, a signal after the
decision to spawn (SpawnInv). That a restart has a cause needs NonceInv, the
order of a nonce on its way: tried, applied, in the socket, in the settings.
That nothing outlives the launcher needs both phases of a shutdown: the second
ends it by looking at the core alone, which is enough because the services were
gone before it began (CoreOutlivesServices), and a member of a group is never
out of `Live`'s sight, because the group is still owned (RecInv).

In Kanban, Exclusive follows from HolderInv, by which a worker whose lease has
lasted still holds it; it is inductive because a claim refuses a lease that was
granted after the claimer's clock was read (OpInv). LeaseReturned needs that a
completion under way has seen the lease it is to clear (ReturnInv).

In Cron the supervisor decides, and inserts later, with clicks and outcomes in
between. DecidedInv says that the verdict is still good then: only the
supervisor adds runs that are no clicks, and an unswept run can only end. SlotInv
says that a job that can yet be fired for its slot has been fired at most once
for each failure so far; NoPileUp and RetriesBounded are inductive with these.

**Only model-checked.** The ten liveness properties, since liveness under
fairness (WF, SF, ENABLED) is beyond this prover: BacklogDrains,
ReturnsAreRouted, RunsAreClosed and KnownIsSettled of the supervisor,
TermIsHonoured and StopTakesEffect of a stop, AskedEnds of a room,
SettingsTakeEffect and ShutdownEnds of the launcher, and RunsSettle of the cron.
Their safety halves are theorems where there is one: a flagged item has a worker
or a recovery (WorkInv in RoomInvariant), an open item is nobody's only after a
loss (OrphansCounted), and a launcher that has gone has left nothing behind.
What the violations' runs show of the code is a trace, and needs no proof.

## 6. Not modelled

* **Bridges.** Epochs, cursors and forwarding are protocol, and the next module
  to write; most of what can go wrong there depends on two external services.
* **Beliefs.** Writes are serialised by an advisory lock per key. What is left,
  whether two texts are the same belief, is a matter of normalisation and
  embeddings, which a model could only assume.
* **The assistant's turn loop.** Its steps are chosen by a model's output; the
  ends of a turn, which others wait for, are in Supervisor.
* **Chat trees, retry and rewind, model groups, settings.** Single transactions
  on rows nobody else changes, or pure choices among configured models.
* **Activity recorder.** Events for a page; a lost one is shown as unfinished.
* **Pages, voice, evals, research, backup.** I/O, rendering, SQL, model output.

In the modelled components: the lists of abstractions of section 3, and the
hazards without a property in PROJECT.json, each with its reason.
