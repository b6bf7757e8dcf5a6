--------------------------------- MODULE Cron ---------------------------------
(***************************************************************************)
(* db/cron.py: jobs that the supervisor's tick fires when they are due,    *)
(* skips while their last run is in flight and fires again after a         *)
(* failure, and that the page fires on a click.                            *)
(*                                                                         *)
(* A firing inserts its run in one transaction, acts in the next, and      *)
(* leaves the schedule to a later one.  Commands end in the workspace      *)
(* shell's worker, scripts in a thread of the core, the other actions      *)
(* where they are fired.                                                   *)
(***************************************************************************)
EXTENDS Naturals, Sequences

CONSTANTS Job,
          Command, Script,  \* the jobs of these types; the others are inline
          OneShot,          \* the jobs without a cron expression
          MaxRetries,       \* max_retries of each job
          Web,              \* requests the web server serves at once
          Sup,              \* the supervisor's thread
          MaxOrders,        \* bound: slots that come due, and clicks on Run now
          MaxUpsets         \* bound: restarts, failed ticks, jobs and schedules
                            \* that the page changes

ASSUME CronAssumption ==
    /\ Command \cup Script \cup OneShot \subseteq Job /\ Command \cap Script = {}
    /\ Job # {} /\ MaxRetries \in [Job -> Nat]
    /\ Sup \notin Web
    /\ MaxOrders \in Nat /\ MaxUpsets \in Nat

VARIABLES
    job,      \* the cron_job rows: enabled, and next_run_at
    log,      \* the cron_run rows of each job, by id
    recent,   \* the latest run has failed within CRON_RETRY_WINDOW
    paused,   \* the setting cron.paused
    tick,     \* the pass of the scheduler: what it read, what is not committed
    fire,     \* the firing a thread is in
    fired,    \* how often the job was fired for the slot it has come to
    count     \* the counters of the bounds

vars == <<job, log, recent, paused, tick, fire, fired, count>>

Firer == {Sup} \cup Web

JobRow == [on: BOOLEAN, next: {"none", "future", "due"}]

(* A run is old after CRON_RUN_PENDING_TIMEOUT; exec is what goes on on    *)
(* its behalf elsewhere.                                                   *)
Run == [trigger: {"scheduled", "manual", "retry"},
        status: {"pending", "ok", "error"}, old: BOOLEAN,
        exec: {"none", "queued", "running"}]

Unread == [on |-> FALSE, next |-> "unread"]

Tick == [step: {"idle", "jobs"}, todo: SUBSET Job,
         seen: [Job -> JobRow \cup {Unread}],
         dirty: SUBSET Job,        \* advanced, which is not committed yet
         done: SUBSET Job]         \* those of them that were fired

Fire == [step: {"none", "decided", "inserted"}, job: Job,
         trigger: {"scheduled", "manual", "retry"}, run: Nat]

Kinds == {"orders", "edits", "fails"}

TypeOK ==
    /\ job \in [Job -> JobRow]
    /\ log \in [Job -> Seq(Run)]
    /\ recent \in [Job -> BOOLEAN]
    /\ paused \in BOOLEAN
    /\ tick \in Tick
    /\ fire \in [Firer -> Fire]
    /\ fired \in [Job -> Nat]
    /\ count \in [Kinds -> Nat]

NoFire == [step |-> "none", job |-> CHOOSE j \in Job : TRUE,
           trigger |-> "manual", run |-> 0]

Idle == [step |-> "idle", todo |-> {}, dirty |-> {}, done |-> {},
         seen |-> [j \in Job |-> Unread]]

Init ==
    /\ job \in [Job -> {r \in JobRow : r.on /\ r.next # "due"}]
    /\ \A j \in OneShot : job[j].next = "future"
    /\ log = [j \in Job |-> <<>>]
    /\ recent = [j \in Job |-> FALSE]
    /\ paused = FALSE
    /\ tick = Idle
    /\ fire = [f \in Firer |-> NoFire]
    /\ fired = [j \in Job |-> 0]
    /\ count = [k \in Kinds |-> 0]

Counted(k) ==
    /\ IF k = "orders" THEN count[k] < MaxOrders
                       ELSE count["edits"] + count["fails"] < MaxUpsets
    /\ count' = [count EXCEPT ![k] = @ + 1]

-----------------------------------------------------------------------------
(***************************************************************************)
(* Time, the operator, and failures.                                       *)
(***************************************************************************)
(* next_run_at is past: a slot to fire for.                                *)
Due(j) ==
    /\ job[j].next = "future" /\ Counted("orders")
    /\ job' = [job EXCEPT ![j].next = "due"]
    /\ fired' = [fired EXCEPT ![j] = 0]
    /\ UNCHANGED <<log, recent, paused, tick, fire>>

(* Earlier runs are old first.  A script is stopped long before its run is *)
(* (CRON_SCRIPT_TIMEOUT).                                                  *)
GrowsOld(j, i) ==
    /\ log[j][i].status = "pending" /\ ~log[j][i].old
    /\ \A h \in 1..(i - 1) : log[j][h].status = "pending" => log[j][h].old
    /\ ~(j \in Script /\ log[j][i].exec = "running")
    /\ log' = [log EXCEPT ![j][i] = [@ EXCEPT !.old = TRUE]]
    /\ UNCHANGED <<job, recent, paused, tick, fire, fired, count>>

FailureAges(j) ==
    /\ recent[j] /\ recent' = [recent EXCEPT ![j] = FALSE]
    /\ UNCHANGED <<job, log, paused, tick, fire, fired, count>>

(* cron_save_tree: a job is switched.  To switch a one-shot on again is to *)
(* ask for it again.                                                       *)
Switch(j) ==
    /\ Counted("edits")
    /\ job' = [job EXCEPT ![j].on = ~@]
    /\ fired' = IF j \in OneShot THEN [fired EXCEPT ![j] = 0] ELSE fired
    /\ UNCHANGED <<log, recent, paused, tick, fire>>

(* cron_save_tree: a new schedule, or the first.                           *)
Reschedule(j) ==
    /\ j \notin OneShot /\ Counted("edits")
    /\ job' = [job EXCEPT ![j].next = "future"]
    /\ UNCHANGED <<log, recent, paused, tick, fire, fired>>

Pause ==
    /\ Counted("edits") /\ paused' = ~paused
    /\ UNCHANGED <<job, log, recent, tick, fire, fired>>

(* The tick raises; the supervisor rolls back and goes on.                 *)
TickFails ==
    /\ tick.step = "jobs" /\ Counted("fails")
    /\ tick' = Idle /\ fire' = [fire EXCEPT ![Sup] = NoFire]
    /\ UNCHANGED <<job, log, recent, paused, fired>>

(* The core ends, with its scripts, and is started again.                  *)
Orphaned(j, r) == IF j \in Script THEN [r EXCEPT !.exec = "none"] ELSE r

Restart ==
    /\ Counted("fails")
    /\ tick' = Idle /\ fire' = [f \in Firer |-> NoFire]
    /\ log' = [j \in Job |-> [i \in 1..Len(log[j]) |-> Orphaned(j, log[j][i])]]
    /\ UNCHANGED <<job, recent, paused, fired>>

-----------------------------------------------------------------------------
(***************************************************************************)
(* cron_tick.                                                              *)
(***************************************************************************)
(* Mutant: whatever is that old has failed.                                *)
SweptAll(r) ==
    IF r.old /\ r.status # "error"
    THEN [r EXCEPT !.status = "error", !.old = FALSE] ELSE r

Swept(r) ==
    IF r.old /\ r.status = "pending"
    THEN [r EXCEPT !.status = "error", !.old = FALSE] ELSE r

Latest(j) == log[j][Len(log[j])]

SweepsLog ==
    /\ log' = [j \in Job |-> [i \in 1..Len(log[j]) |-> Swept(log[j][i])]]
    /\ recent' = [j \in Job |-> \/ recent[j]
                                \/ Len(log[j]) > 0 /\ Latest(j) # Swept(Latest(j))]

(* Mutant: a pause stops the housekeeping too.                             *)
BeginUnpaused ==
    /\ tick.step = "idle" /\ ~paused
    /\ SweepsLog
    /\ tick' = [step |-> "jobs", todo |-> {j \in Job : job[j].on},
                seen |-> job, dirty |-> {}, done |-> {}]
    /\ UNCHANGED <<job, paused, fire, fired, count>>

(* The sweep, the setting, and the enabled jobs.                           *)
Begin ==
    /\ tick.step = "idle"
    /\ SweepsLog
    /\ tick' = IF paused THEN tick
               ELSE [step |-> "jobs", todo |-> {j \in Job : job[j].on},
                     seen |-> [j \in Job |-> IF job[j].on THEN job[j] ELSE Unread],
                     dirty |-> {}, done |-> {}]
    /\ UNCHANGED <<job, paused, fire, fired, count>>

(* A commit expires what was read: from then on rows are read afresh.      *)
Seen(j) == IF tick.seen[j] = Unread THEN job[j] ELSE tick.seen[j]

(* Mutant: the last run is taken for the one that is being started.        *)
InFlightEarlier(j) ==
    \E i \in 1..Len(log[j]) : i < Len(log[j]) /\ log[j][i].status = "pending"

(* cron_job_run_in_flight.                                                 *)
InFlight(j) == Len(log[j]) > 0 /\ Latest(j).status = "pending"

(* The last n runs are retries.                                            *)
Retries(j, n) ==
    /\ n <= Len(log[j])
    /\ \A i \in 1..Len(log[j]) : i > Len(log[j]) - n => log[j][i].trigger = "retry"

(* Mutant: one retry more.                                                 *)
RetryOnceMore(j) ==
    /\ MaxRetries[j] > 0 /\ Len(log[j]) > 0
    /\ Latest(j).status = "error" /\ recent[j]
    /\ ~Retries(j, MaxRetries[j] + 1)

(* cron_should_retry.                                                      *)
ShouldRetry(j) ==
    /\ MaxRetries[j] > 0 /\ Len(log[j]) > 0
    /\ Latest(j).status = "error" /\ recent[j]
    /\ ~Retries(j, MaxRetries[j])

Visits(j) == tick.step = "jobs" /\ fire[Sup].step = "none" /\ j \in tick.todo

Decides(j, trigger) ==
    /\ fire' = [fire EXCEPT ![Sup] =
                  [NoFire EXCEPT !.step = "decided", !.job = j, !.trigger = trigger]]
    /\ UNCHANGED <<job, log, recent, paused, tick, fired, count>>

(* A slot is passed over, or the first one is computed; the schedule moves *)
(* on with the next commit.                                                *)
Advance(j) ==
    /\ Visits(j) /\ Seen(j).on
    /\ Seen(j).next = "none" \/ (Seen(j).next = "due" /\ InFlight(j))
    /\ tick' = [tick EXCEPT !.todo = @ \ {j}, !.dirty = @ \cup {j},
                            !.seen[j] = Unread]
    /\ UNCHANGED <<job, log, recent, paused, fire, fired, count>>

DecideSlot(j) ==
    /\ Visits(j) /\ Seen(j).on /\ Seen(j).next = "due" /\ ~InFlight(j)
    /\ Decides(j, "scheduled")

DecideRetry(j) ==
    /\ Visits(j) /\ Seen(j).on /\ Seen(j).next = "future" /\ ShouldRetry(j)
    /\ Decides(j, "retry")

Leave(j) ==
    /\ Visits(j)
    /\ Seen(j).on => Seen(j).next = "future" /\ ~ShouldRetry(j)
    /\ tick' = [tick EXCEPT !.todo = @ \ {j}, !.seen[j] = Unread]
    /\ UNCHANGED <<job, log, recent, paused, fire, fired, count>>

(* A commit of the tick: jobs wait for their next slot.  A one-shot has    *)
(* none: it retires if it was fired, and stays on, dead, if it was passed  *)
(* over.                                                                   *)
Committed(D, F) ==
    job' = [j \in Job |->
              IF j \notin D THEN job[j]
              ELSE IF j \notin OneShot THEN [job[j] EXCEPT !.next = "future"]
              ELSE IF j \in F THEN [job[j] EXCEPT !.on = FALSE]
              ELSE [job[j] EXCEPT !.next = "none"]]

End ==
    /\ tick.step = "jobs" /\ fire[Sup].step = "none" /\ tick.todo = {}
    /\ Committed(tick.dirty, tick.done) /\ tick' = Idle
    /\ UNCHANGED <<log, recent, paused, fire, fired, count>>

-----------------------------------------------------------------------------
(***************************************************************************)
(* fire_cron_job.                                                          *)
(***************************************************************************)
(* The run is committed.                                                   *)
NewRun(trigger) == [trigger |-> trigger, status |-> "pending",
                    old |-> FALSE, exec |-> "none"]

(* Its outcome is, whatever it was before.                                 *)
Settled(j, i, v) ==
    /\ log' = [log EXCEPT ![j][i] = [@ EXCEPT !.status = v, !.exec = "none"]]
    /\ recent' = [recent EXCEPT ![j] = IF i = Len(log[j]) THEN v = "error" ELSE @]

Inserts(f, j, trigger) ==
    /\ log' = [log EXCEPT ![j] = Append(@, NewRun(trigger))]
    /\ recent' = [recent EXCEPT ![j] = FALSE]
    /\ fire' = [fire EXCEPT ![f] = [step |-> "inserted", job |-> j,
                                    trigger |-> trigger, run |-> Len(log[j]) + 1]]

(* Run now and Run debug: whatever the job is doing.                       *)
Click(w, j) ==
    /\ fire[w].step = "none" /\ Counted("orders")
    /\ Inserts(w, j, "manual")
    /\ UNCHANGED <<job, paused, tick, fired>>

(* What the tick had not committed yet is committed with its run.          *)
Insert ==
    LET o == fire[Sup] IN
    /\ o.step = "decided" /\ Inserts(Sup, o.job, o.trigger)
    /\ fired' = IF o.trigger = "scheduled" THEN [fired EXCEPT ![o.job] = @ + 1]
                                           ELSE fired
    /\ Committed(tick.dirty, tick.done)
    /\ tick' = [tick EXCEPT !.dirty = {}, !.done = {}, !.seen = [j \in Job |-> Unread]]
    /\ UNCHANGED <<paused, count>>

(* Mutant: the schedule moves on for slots that were passed over only.     *)
FiredOnly(f) ==
    /\ fire' = [fire EXCEPT ![f] = NoFire]
    /\ tick' = IF f # Sup THEN tick
               ELSE [tick EXCEPT !.todo = @ \ {fire[f].job}]

(* The firing is over; the tick moves the schedule of a slot on.           *)
Done(f) ==
    /\ fire' = [fire EXCEPT ![f] = NoFire]
    /\ tick' = IF f # Sup THEN tick
               ELSE [tick EXCEPT
                       !.todo = @ \ {fire[f].job},
                       !.dirty = IF fire[f].trigger = "scheduled"
                                 THEN @ \cup {fire[f].job} ELSE @,
                       !.done = IF fire[f].trigger = "scheduled"
                                THEN @ \cup {fire[f].job} ELSE @]

(* The action goes on elsewhere: enqueued, or on a thread.                 *)
Launch(f) ==
    LET o == fire[f] IN
    /\ o.step = "inserted" /\ o.job \in Command \cup Script
    /\ log' = [log EXCEPT ![o.job][o.run] =
                 [@ EXCEPT !.exec = IF o.job \in Command THEN "queued" ELSE "running"]]
    /\ Done(f)
    /\ UNCHANGED <<job, recent, paused, fired, count>>

(* It was done here, or failed here.  A script succeeds here as a dry-run. *)
Verdicts(o) ==
    {"error"} \cup IF o.job \in Command \/ (o.job \in Script /\ o.trigger # "manual")
                  THEN {} ELSE {"ok"}

Conclude(f) ==
    LET o == fire[f] IN
    /\ o.step = "inserted"
    /\ \E v \in Verdicts(o) : Settled(o.job, o.run, v)
    /\ Done(f)
    /\ UNCHANGED <<job, paused, fired, count>>

-----------------------------------------------------------------------------
(***************************************************************************)
(* Where commands and scripts end: cron_record_run_outcome.                *)
(***************************************************************************)
(* The one worker takes the next item; a dry-run is an item like others.   *)
Take(j, i) ==
    /\ j \in Command /\ log[j][i].exec = "queued"
    /\ \A h \in 1..(i - 1) : log[j][h].exec # "queued"
    /\ \A k \in Command : \A h \in 1..Len(log[k]) : log[k][h].exec # "running"
    /\ log' = [log EXCEPT ![j][i] = [@ EXCEPT !.exec = "running"]]
    /\ UNCHANGED <<job, recent, paused, tick, fire, fired, count>>

(* The worker is killed; its item is not repeated.                         *)
Lose(j, i) ==
    /\ j \in Command /\ log[j][i].exec = "running"
    /\ log' = [log EXCEPT ![j][i] = [@ EXCEPT !.exec = "none"]]
    /\ UNCHANGED <<job, recent, paused, tick, fire, fired, count>>

Record(j, i) ==
    /\ log[j][i].exec = "running"
    /\ \E v \in {"ok", "error"} : Settled(j, i, v)
    /\ UNCHANGED <<job, paused, tick, fire, fired, count>>

-----------------------------------------------------------------------------
Pass ==
    \/ Begin \/ Insert \/ End
    \/ \E j \in Job : Advance(j) \/ DecideSlot(j) \/ DecideRetry(j) \/ Leave(j)

Acts(f) == Launch(f) \/ Conclude(f)

Elsewhere(j, i) == Take(j, i) \/ Lose(j, i) \/ Record(j, i)

Next ==
    \/ Pass
    \/ \E f \in Firer : Acts(f)
    \/ \E j \in Job : \E i \in 1..Len(log[j]) :
         Elsewhere(j, i) \/ GrowsOld(j, i)
    \/ \E j \in Job : Due(j) \/ FailureAges(j) \/ Switch(j) \/ Reschedule(j)
    \/ \E w \in Web, j \in Job : Click(w, j)
    \/ Pause \/ TickFails \/ Restart

Spec == Init /\ [][Next]_vars

(* The loop passes, time passes, and scripts are stopped if need be.       *)
FairSpec ==
    /\ Spec
    /\ WF_vars(Pass \/ Acts(Sup))
    /\ WF_vars(\E j \in Job : \E i \in 1..Len(log[j]) : GrowsOld(j, i))
    /\ WF_vars(\E j \in Script : \E i \in 1..Len(log[j]) : Record(j, i))

-----------------------------------------------------------------------------
(***************************************************************************)
(* Properties.                                                             *)
(***************************************************************************)
(* The pass and the firings agree.                                         *)
TickInv ==
    /\ tick.step = "idle" => tick = Idle
    /\ tick.dirty \cap tick.todo = {}
    /\ fire[Sup].step # "none" => tick.step = "jobs" /\ fire[Sup].job \in tick.todo
    /\ fire[Sup].step = "decided" =>
         fire[Sup].trigger \in {"scheduled", "retry"}
    /\ \A w \in Web : fire[w].step # "decided" /\ fire[w].trigger = "manual"

RunInv ==
    \A f \in Firer : fire[f].step = "inserted" =>
        /\ fire[f].run \in 1..Len(log[fire[f].job])
        /\ log[fire[f].job][fire[f].run].trigger = fire[f].trigger

(* The job can be fired for its slot with what is read and committed now.  *)
Firing(j) == fire[Sup].job = j /\ fire[Sup].trigger = "scheduled"

Armed(j) ==
    \/ fire[Sup].step = "decided" /\ Firing(j)
    \/ /\ ~(fire[Sup].step = "inserted" /\ Firing(j))
       /\ \/ j \in tick.todo /\ Seen(j).on /\ Seen(j).next = "due"
          \/ /\ j \notin tick.dirty /\ job[j].next = "due"
             /\ j \in OneShot => job[j].on

SlotInv ==
    \A j \in Job : /\ fired[j] <= 1 + count["fails"]
                   /\ Armed(j) => fired[j] <= count["fails"]

Executing(j, i) == log[j][i].exec # "none" /\ log[j][i].status = "pending"

Clicked(j, i, k) == \E m \in i..k : log[j][m].trigger = "manual"

(* The verdict the supervisor acts on is still good when it inserts.       *)
DecidedInv ==
    LET o == fire[Sup]
        j == o.job
    IN
    /\ o.step = "decided" =>
         /\ \A i \in 1..Len(log[j]) : Executing(j, i) => Clicked(j, i, Len(log[j]))
         /\ o.trigger = "retry" => MaxRetries[j] > 0 /\ ~Retries(j, MaxRetries[j])
    /\ o.step = "inserted" =>
         \A k \in 1..Len(log[j]) : k > o.run => log[j][k].trigger = "manual"

(* A slot of a schedule is fired for once, and once more for every restart *)
(* or failed tick that undid the advance of the schedule (cron.py:1181,    *)
(* "missed slots are NOT replayed (catch-up = fire at most once)").        *)
SlotOnce == \A j \in Job : fired[j] <= 1 + count["fails"]

(* Commands and scripts the scheduler starts do not pile up: an earlier    *)
(* run that was not swept is still executing only if somebody clicked Run  *)
(* now meanwhile (cron.py:1185, "skips the slot ... instead of *)
(* piling up").                                                            *)
NoPileUp ==
    \A j \in Job : \A i, k \in 1..Len(log[j]) :
        i < k /\ Executing(j, i) /\ log[j][k].trigger # "manual" => Clicked(j, i, k)

(* The runs of a job hold no longer chain of retries than max_retries,     *)
(* however runs, clicks and late outcomes interleave (cron.py:1128).       *)
RetriesBounded ==
    \A j \in Job : \A i \in 1..Len(log[j]) :
        i + MaxRetries[j] <= Len(log[j])
          => \E k \in i..(i + MaxRetries[j]) : log[j][k].trigger # "retry"

IndInv ==
    /\ TypeOK /\ TickInv /\ RunInv /\ SlotInv /\ DecidedInv
    /\ NoPileUp /\ RetriesBounded

(* A verdict stands.  Only the end of what the run executes may correct    *)
(* the sweep's (cron.py:1062, 1199).                                       *)
Ends(j, i) ==
    \/ log[j][i].exec = "running" /\ log'[j][i].exec = "none"
    \/ \E f \in Firer : /\ fire[f].step = "inserted" /\ fire'[f].step = "none"
                        /\ fire[f].job = j /\ fire[f].run = i

VerdictStands ==
    [][\A j \in Job : \A i \in 1..Len(log[j]) :
         /\ log[j][i].status # "pending"
         /\ log'[j][i].status # log[j][i].status
         => Ends(j, i)]_vars

(* No run reads as in flight for ever, whatever died, and though the       *)
(* schedule is paused (cron.py:1155, "can never report in-flight forever").*)
RunsSettle ==
    \A j \in Job : InFlight(j) ~> ~InFlight(j)

===============================================================================
