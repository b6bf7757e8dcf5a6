------------------------------ MODULE Supervisor ------------------------------
(***************************************************************************)
(* The supervisor loop of core.py, the agent child processes it spawns     *)
(* (agents/base.py, Agent.run; agents/assistant.py for the assistant's     *)
(* durable run), and the recovery of what a dead worker left open          *)
(* (db/assistant.py), over the queue of db/queue.py.                       *)
(*                                                                         *)
(* The supervisor is one thread; spc says which part of its pass it is in. *)
(* A worker is one OS process; wpc says which statement of Agent.run it    *)
(* has reached.  A step is at most one committed transaction or one        *)
(* message, so a crash, a signal or another process can come between any   *)
(* two.                                                                    *)
(*                                                                         *)
(* The status socket is reduced to the unread message that counts: reading *)
(* "processing j" then "completed j" leaves current_journal_id as the last *)
(* of them says, so mail[p] holds only what the supervisor would believe   *)
(* after draining the socket.                                              *)
(***************************************************************************)
EXTENDS Queue, FiniteSets

CONSTANTS Pid, NoPid,
          RoleOf,      \* the role each process that can exist is spawned for
          Assistant, Summarizer,  \* two roles with a part of their own
          Turns,       \* the inbox rows producers enqueue (web, cron, kanban)
          MaxTurns,    \* bound: rows producers enqueue
          MaxFaults,   \* bound: workers that die or hang by themselves and
                       \* supervisors that stop or crash, together
          MaxErrors,   \* bound: recoveries that end in an exception
          Managed      \* TRUE: under the launcher, which restarts the core
                       \* only after the old process group is gone

ASSUME SupervisorAssumption ==
    /\ NoPid \notin Pid
    /\ RoleOf \in [Pid -> Role]
    /\ Assistant \in Role
    /\ Summarizer \in Role
    /\ IsFiniteSet(Role)
    /\ Turns \subseteq {Turn(to, ret) : to \in Role, ret \in Role \cup {NoRole}}
    /\ MaxTurns \in Nat /\ MaxFaults \in Nat /\ MaxErrors \in Nat
    /\ Managed \in BOOLEAN

VARIABLES
    wpc, wrow, wjid,          \* each worker: statement, inbox row, journal id
    mail,                     \* its unread status
    slot,                     \* the supervisor's agents dict: role -> worker
    known, term, dying,       \* current_journal_id, term_deadline, not alive
    spc, batch,               \* the part of the pass, and the rows in hand
    rstep, rjid,              \* _recover_assistant_journal in progress
    run, notice,              \* the assistant_run of a journal row, its notice
    turns, deaths, outages, errors   \* the counters of the bounds

workerVars == <<wpc, wrow, wjid>>
slotVars   == <<slot, known, term, dying>>
passVars   == <<spc, batch>>
recVars    == <<rstep, rjid>>
runVars    == <<run, notice>>
boundVars  == <<turns, deaths, outages, errors>>
vars == <<queueVars, workerVars, mail, slotVars, passVars, recVars, runVars,
          boundVars>>

NoMail == MaxJournal + 1     \* nothing unread
NoJob  == 0                  \* current_journal_id is None

Gone    == {"free", "zombie"}
Holding == {"taken", "handling", "running", "replied", "posting", "failing",
            "returning", "raising", "settled", "hung"}
Silent  == {"hung", "poll", "picked", "returning", "raising"}

Live(p)    == wpc[p] \notin Gone
HasPeer(p) == \E r \in Role : slot[r] = p
Termed(p)  == \E r \in Role : slot[r] = p /\ term[r]
Alive(r)   == slot[r] # NoPid /\ ~dying[r]

MayFail == deaths + outages < MaxFaults

WorkerTypeOK ==
    /\ wpc \in [Pid -> Gone \cup Holding \cup {"poll", "picked", "exiting"}]
    /\ wrow \in [Pid -> 0..MaxRows]
    /\ wjid \in [Pid -> 0..MaxJournal]
    /\ mail \in [Pid -> 0..NoMail]
    /\ \A p \in Pid : wpc[p] \in Holding \cup {"picked"} => wrow[p] \in RowId

SlotTypeOK ==
    /\ slot \in [Role -> Pid \cup {NoPid}]
    /\ known \in [Role -> 0..MaxJournal]
    /\ term \in [Role -> BOOLEAN]
    /\ dying \in [Role -> BOOLEAN]

PassTypeOK ==
    /\ spc \in {"down", "sweep", "fetch", "route", "mark", "spawn", "recv",
                "watch", "reap", "stopping"}
    /\ batch \in SUBSET JournalId
    /\ rstep \in {"idle", "look", "kill", "checkRun", "failRun", "notice",
                  "summary", "check", "fail"}
    /\ rjid \in 0..MaxJournal
    /\ rstep # "idle" => rjid \in JournalId

RunTypeOK ==
    /\ run \in [JournalId -> {"none", "running", "finished", "failed", "killed"}]
    /\ notice \in [JournalId -> BOOLEAN]

BoundTypeOK ==
    /\ turns \in 0..MaxTurns
    /\ deaths \in Nat /\ outages \in Nat
    /\ deaths + outages <= MaxFaults
    /\ errors \in 0..MaxErrors

TypeOK == QueueTypeOK /\ WorkerTypeOK /\ SlotTypeOK /\ PassTypeOK /\ RunTypeOK
          /\ BoundTypeOK

Init ==
    /\ QueueInit
    /\ wpc = [p \in Pid |-> "free"]
    /\ wrow = [p \in Pid |-> 0]
    /\ wjid = [p \in Pid |-> NoJob]
    /\ mail = [p \in Pid |-> NoMail]
    /\ slot = [r \in Role |-> NoPid]
    /\ known = [r \in Role |-> NoJob]
    /\ term = [r \in Role |-> FALSE]
    /\ dying = [r \in Role |-> FALSE]
    /\ spc = "down" /\ batch = {}
    /\ rstep = "idle" /\ rjid = NoJob
    /\ run = [j \in JournalId |-> "none"]
    /\ notice = [j \in JournalId |-> FALSE]
    /\ turns = 0 /\ deaths = 0 /\ outages = 0 /\ errors = 0

(***************************************************************************)
(* Producers: a web request, a cron fire, the kanban Run button.           *)
(***************************************************************************)
Submit(t) ==
    /\ turns < MaxTurns
    /\ turns' = turns + 1
    /\ Enqueue(t)
    /\ UNCHANGED <<workerVars, mail, slotVars, passVars, recVars, runVars,
                   deaths, outages, errors>>

(***************************************************************************)
(* The worker: Agent.run.                                                  *)
(***************************************************************************)
Goto(p, pc) == wpc' = [wpc EXCEPT ![p] = pc]

(* The worker is about to run the statement pc.  After a SIGTERM it runs   *)
(* no further one: only a transaction already under way (Take, Settle) may *)
(* still commit.                                                           *)
At(p, pc) == wpc[p] = pc /\ ~Termed(p)

(* The process ends.  While the supervisor holds its socket it stays a     *)
(* zombie until reaped; with the parent gone, init reaps it.               *)
Vanish(p) ==
    /\ Goto(p, IF HasPeer(p) THEN "zombie" ELSE "free")
    /\ wrow' = [wrow EXCEPT ![p] = 0]
    /\ wjid' = [wjid EXCEPT ![p] = NoJob]

(* The SELECT of take_item: the oldest row, or an idle message and exit.   *)
Poll(p) ==
    /\ At(p, "poll")
    /\ \/ /\ Pending(RoleOf[p]) # {}
          /\ Goto(p, "picked")
          /\ wrow' = [wrow EXCEPT ![p] = Oldest(Pending(RoleOf[p]))]
       \/ /\ Pending(RoleOf[p]) = {}
          /\ Goto(p, "exiting")
          /\ UNCHANGED wrow
    /\ UNCHANGED <<queueVars, wjid, mail, slotVars, passVars, recVars,
                   runVars, boundVars>>

Exit(p) ==
    /\ At(p, "exiting")
    /\ Vanish(p)
    /\ UNCHANGED <<queueVars, mail, slotVars, passVars, recVars, runVars,
                   boundVars>>

(* The commit of take_item.                                                *)
Take(p) ==
    /\ wpc[p] = "picked"
    /\ TakeItem(wrow[p])
    /\ Goto(p, "taken")
    /\ wjid' = [wjid EXCEPT ![p] = nextJournal]
    /\ UNCHANGED <<wrow, mail, slotVars, passVars, recVars, runVars,
                   boundVars>>

(* A status message.  Without a peer the send raises outside any handler   *)
(* and ends the process.                                                   *)
Emit(p, pc, row, job) ==
    IF HasPeer(p)
    THEN /\ mail' = [mail EXCEPT ![p] = job]
         /\ Goto(p, pc)
         /\ wrow' = [wrow EXCEPT ![p] = row]
         /\ wjid' = [wjid EXCEPT ![p] = job]
    ELSE /\ Vanish(p)
         /\ UNCHANGED mail

EmitProcessing(p) ==
    /\ At(p, "taken")
    /\ Emit(p, "handling", wrow[p], wjid[p])
    /\ UNCHANGED <<queueVars, slotVars, passVars, recVars, runVars, boundVars>>

EmitOutcome(p) ==
    /\ At(p, "settled")
    /\ Emit(p, "poll", 0, NoJob)
    /\ UNCHANGED <<queueVars, slotVars, passVars, recVars, runVars, boundVars>>

(* handle() of the assistant opens the durable run, and closes it:         *)
(* finished or stopped with an answer, or failed with a notice; either way *)
(* it then orders a summary and returns or re-raises.                      *)
StartRun(p) ==
    /\ At(p, "handling") /\ RoleOf[p] = Assistant
    /\ run' = [run EXCEPT ![wjid[p]] = "running"]
    /\ Goto(p, "running")
    /\ UNCHANGED <<queueVars, wrow, wjid, mail, slotVars, passVars,
                   recVars, notice, boundVars>>

FinishRun(p, status) ==
    /\ At(p, "running")
    /\ run' = [run EXCEPT ![wjid[p]] = status]
    /\ Goto(p, IF status = "failed" THEN "posting" ELSE "replied")
    /\ UNCHANGED <<queueVars, wrow, wjid, mail, slotVars, passVars,
                   recVars, notice, boundVars>>

PostFailure(p) ==
    /\ At(p, "posting")
    /\ notice' = [notice EXCEPT ![wjid[p]] = TRUE]
    /\ Goto(p, "failing")
    /\ UNCHANGED <<queueVars, wrow, wjid, mail, slotVars, passVars,
                   recVars, run, boundVars>>

RequestSummary(p) ==
    /\ At(p, "replied") \/ At(p, "failing")
    /\ Enqueue(SummaryOrder(Summarizer, wjid[p]))
    /\ Goto(p, IF wpc[p] = "failing" THEN "raising" ELSE "returning")
    /\ UNCHANGED <<wrow, wjid, mail, slotVars, passVars, recVars,
                   runVars, boundVars>>

(* What handle() can end in, at each place it can end.                     *)
Outcomes(p) ==
    CASE wpc[p] = "returning" -> {"completed"}
      [] wpc[p] = "raising"   -> {"failed"}
      [] wpc[p] = "handling"  ->
           IF RoleOf[p] = Assistant THEN {"failed"} ELSE Terminal
      [] OTHER -> {}

(* journal_update: the result carries the payload's return address.        *)
Settle(p, outcome) ==
    /\ outcome \in Outcomes(p)
    /\ JournalUpdate(wjid[p], outcome, rows[wrow[p]].ret)
    /\ Goto(p, "settled")
    /\ UNCHANGED <<wrow, wjid, mail, slotVars, passVars, recVars,
                   runVars, boundVars>>

(* The process freezes inside handle(), heartbeat thread and all.          *)
Hang(p) ==
    /\ wpc[p] \in {"handling", "running"}
    /\ MayFail /\ deaths' = deaths + 1
    /\ Goto(p, "hung")
    /\ UNCHANGED <<queueVars, wrow, wjid, mail, slotVars, passVars,
                   recVars, runVars, turns, outages, errors>>

(* The process dies by itself: OOM, an import error, an operator's kill.   *)
Die(p) ==
    /\ Live(p)
    /\ MayFail /\ deaths' = deaths + 1
    /\ Vanish(p)
    /\ UNCHANGED <<queueVars, mail, slotVars, passVars, recVars, runVars,
                   turns, outages, errors>>

(* SIGTERM: SupervisorTerminate is a SystemExit, which Agent.run's         *)
(* "except Exception" does not catch; the journal row stays as it is.      *)
Unwind(p) ==
    /\ Live(p)
    /\ Termed(p)
    /\ Vanish(p)
    /\ UNCHANGED <<queueVars, mail, slotVars, passVars, recVars, runVars,
                   boundVars>>

(* The launcher drains the process group of a core that exited.            *)
DrainGroup(p) ==
    /\ Managed /\ spc = "down"
    /\ Live(p)
    /\ Vanish(p)
    /\ UNCHANGED <<queueVars, mail, slotVars, passVars, recVars, runVars,
                   boundVars>>

(***************************************************************************)
(* The supervisor: start, and the sweep of runs a previous one left.       *)
(***************************************************************************)
(* Mutant: the core is started while workers of the old one still run.     *)
StartTooEarly ==
    /\ spc = "down"
    /\ spc' = "sweep"
    /\ batch' = {j \in JournalId : run[j] = "running"}
    /\ UNCHANGED <<queueVars, workerVars, mail, slotVars, recVars, runVars,
                   boundVars>>

(* Mutant: a new supervisor does not look for the runs the old one left.   *)
StartUnswept ==
    /\ spc = "down"
    /\ Managed => \A p \in Pid : wpc[p] = "free"
    /\ spc' = "sweep"
    /\ UNCHANGED <<queueVars, workerVars, mail, slotVars, batch, recVars,
                   runVars, boundVars>>

Start ==
    /\ spc = "down"
    /\ Managed => \A p \in Pid : wpc[p] = "free"
    /\ spc' = "sweep"
    /\ batch' = {j \in JournalId : run[j] = "running"}
    /\ UNCHANGED <<queueVars, workerVars, mail, slotVars, recVars, runVars,
                   boundVars>>

SweepOne ==
    /\ spc = "sweep" /\ rstep = "idle" /\ batch # {}
    /\ rstep' = "look"
    /\ rjid' = Oldest(batch)
    /\ batch' = batch \ {Oldest(batch)}
    /\ UNCHANGED <<queueVars, workerVars, mail, slotVars, spc, runVars,
                   boundVars>>

SweepDone ==
    /\ spc = "sweep" /\ rstep = "idle" /\ batch = {}
    /\ spc' = "fetch"
    /\ UNCHANGED <<queueVars, workerVars, mail, slotVars, batch, recVars,
                   runVars, boundVars>>

(***************************************************************************)
(* Routing: the envelope and the stamp are two transactions.               *)
(***************************************************************************)
AfterRouting(left) == IF left = {} THEN "spawn" ELSE "route"

Fetch ==
    /\ spc = "fetch"
    /\ batch' = UnroutedTerminal
    /\ spc' = AfterRouting(batch')
    /\ UNCHANGED <<queueVars, workerVars, mail, slotVars, recVars, runVars,
                   boundVars>>

SendEnvelope ==
    /\ spc = "route" /\ batch # {}
    /\ journal[Oldest(batch)].back # NoRole
    /\ Enqueue(Envelope(journal[Oldest(batch)].back, Oldest(batch)))
    /\ spc' = "mark"
    /\ UNCHANGED <<workerVars, mail, slotVars, batch, recVars, runVars,
                   boundVars>>

(* Mutant: a row is stamped before its envelope is enqueued.               *)
StampUnsent ==
    /\ batch # {} /\ spc \in {"route", "mark"}
    /\ MarkRouted(Oldest(batch))
    /\ batch' = batch \ {Oldest(batch)}
    /\ spc' = AfterRouting(batch')
    /\ UNCHANGED <<workerVars, mail, slotVars, recVars, runVars, boundVars>>

Stamp ==
    /\ batch # {}
    /\ \/ spc = "mark"
       \/ spc = "route" /\ journal[Oldest(batch)].back = NoRole
    /\ MarkRouted(Oldest(batch))
    /\ batch' = batch \ {Oldest(batch)}
    /\ spc' = AfterRouting(batch')
    /\ UNCHANGED <<workerVars, mail, slotVars, recVars, runVars, boundVars>>

(***************************************************************************)
(* Spawning: one child for every role with work and no entry in agents.    *)
(***************************************************************************)
(* Mutant: "and name not in agents" is dropped.                            *)
SpawnAnother(r, p) ==
    /\ spc = "spawn"
    /\ Pending(r) # {}
    /\ wpc[p] = "free" /\ RoleOf[p] = r
    /\ Goto(p, "poll")
    /\ mail' = [mail EXCEPT ![p] = NoMail]
    /\ slot' = [slot EXCEPT ![r] = p]
    /\ UNCHANGED <<queueVars, wrow, wjid, known, term, dying, passVars,
                   recVars, runVars, boundVars>>

Spawn(r, p) ==
    /\ spc = "spawn"
    /\ Pending(r) # {} /\ slot[r] = NoPid
    /\ wpc[p] = "free" /\ RoleOf[p] = r
    /\ Goto(p, "poll")
    /\ mail' = [mail EXCEPT ![p] = NoMail]
    /\ slot' = [slot EXCEPT ![r] = p]
    /\ UNCHANGED <<queueVars, wrow, wjid, known, term, dying, passVars,
                   recVars, runVars, boundVars>>

SpawnDone ==
    /\ spc = "spawn"
    /\ \A r \in Role : Pending(r) = {} \/ slot[r] # NoPid
    /\ spc' = "recv"
    /\ UNCHANGED <<queueVars, workerVars, mail, slotVars, batch, recVars,
                   runVars, boundVars>>

(***************************************************************************)
(* select/recv: what each live agent wrote, or, once that is read, the end *)
(* of file of a worker that is gone.                                       *)
(***************************************************************************)
Unread(r) == Alive(r) /\ mail[slot[r]] # NoMail

(* Mutant: an end of file is not taken for a death.                        *)
RecvDeaf ==
    /\ spc = "recv"
    /\ known' = [r \in Role |-> IF Unread(r) THEN mail[slot[r]] ELSE known[r]]
    /\ mail' = [p \in Pid |-> IF \E r \in Role : slot[r] = p /\ Unread(r)
                             THEN NoMail ELSE mail[p]]
    /\ spc' = "watch"
    /\ UNCHANGED <<queueVars, workerVars, slot, term, dying, batch, recVars,
                   runVars, boundVars>>

Recv ==
    /\ spc = "recv"
    /\ known' = [r \in Role |-> IF Unread(r) THEN mail[slot[r]] ELSE known[r]]
    /\ dying' = [r \in Role |-> \/ dying[r]
                               \/ /\ Alive(r) /\ ~Unread(r)
                                  /\ wpc[slot[r]] = "zombie"]
    /\ mail' = [p \in Pid |-> IF \E r \in Role : slot[r] = p /\ Unread(r)
                             THEN NoMail ELSE mail[p]]
    /\ spc' = "watch"
    /\ UNCHANGED <<queueVars, workerVars, slot, term, batch, recVars, runVars,
                   boundVars>>

(***************************************************************************)
(* The watchdog: SIGTERM after HEARTBEAT_TIMEOUT of silence, SIGKILL       *)
(* TERM_GRACE later.  A worker inside handle() has a heartbeat thread, so  *)
(* only a frozen one, or one blocked outside handle(), is ever silent that *)
(* long; the latter counts against MaxFaults.                              *)
(***************************************************************************)
Terminate(r) ==
    /\ spc = "watch"
    /\ Alive(r) /\ ~term[r]
    /\ mail[slot[r]] = NoMail
    /\ \/ wpc[slot[r]] = "hung" /\ UNCHANGED deaths
       \/ /\ wpc[slot[r]] \in Silent \ {"hung"}
          /\ MayFail /\ deaths' = deaths + 1
    /\ term' = [term EXCEPT ![r] = TRUE]
    /\ UNCHANGED <<queueVars, workerVars, mail, slot, known, dying, passVars,
                   recVars, runVars, turns, outages, errors>>

Kill(r) ==
    /\ spc = "watch"
    /\ Alive(r) /\ term[r]
    /\ dying' = [dying EXCEPT ![r] = TRUE]
    /\ Vanish(slot[r])
    /\ UNCHANGED <<queueVars, mail, slot, known, term, passVars, recVars,
                   runVars, boundVars>>

WatchDone ==
    /\ spc = "watch"
    /\ spc' = IF \E r \in Role : dying[r] THEN "reap" ELSE "fetch"
    /\ UNCHANGED <<queueVars, workerVars, mail, slotVars, batch, recVars,
                   runVars, boundVars>>

(***************************************************************************)
(* Reaping: waitpid, recover what it was known to work on, forget it.      *)
(***************************************************************************)
Reapable(r) ==
    /\ spc \in {"reap", "stopping"} /\ rstep = "idle"
    /\ slot[r] # NoPid /\ dying[r]
    /\ wpc[slot[r]] = "zombie"

Recover(r) ==
    /\ Reapable(r) /\ known[r] # NoJob
    /\ rstep' = "look"
    /\ rjid' = known[r]
    /\ known' = [known EXCEPT ![r] = NoJob]
    /\ UNCHANGED <<queueVars, workerVars, mail, slot, term, dying, passVars,
                   runVars, boundVars>>

(* Mutant: the dead worker stays in agents.                                *)
ForgetNot(r) ==
    /\ Reapable(r) /\ known[r] = NoJob
    /\ dying' = [dying EXCEPT ![r] = FALSE]
    /\ UNCHANGED <<queueVars, workerVars, mail, slot, known, term, passVars,
                   recVars, runVars, boundVars>>

Forget(r) ==
    /\ Reapable(r) /\ known[r] = NoJob
    /\ Goto(slot[r], "free")
    /\ mail' = [mail EXCEPT ![slot[r]] = NoMail]
    /\ slot' = [slot EXCEPT ![r] = NoPid]
    /\ term' = [term EXCEPT ![r] = FALSE]
    /\ dying' = [dying EXCEPT ![r] = FALSE]
    /\ UNCHANGED <<queueVars, wrow, wjid, known, passVars, recVars,
                   runVars, boundVars>>

ReapDone ==
    /\ spc = "reap" /\ rstep = "idle"
    /\ \A r \in Role : ~dying[r]
    /\ spc' = "fetch"
    /\ UNCHANGED <<queueVars, workerVars, mail, slotVars, batch, recVars,
                   runVars, boundVars>>

(***************************************************************************)
(* _recover_assistant_journal(rjid), one transaction per step.             *)
(*   look     is this an assistant run still open?                         *)
(*   kill     finish_run(run, "killed") and its fallback summary           *)
(*   checkRun, failRun / check, fail                                       *)
(*            fail_journal_if_processing: the read, then the write; the    *)
(*            result it writes carries no return address                   *)
(*   notice   the operational notice in the room                           *)
(*   summary  the summarizer's order                                       *)
(***************************************************************************)
RecoveryStep(from, to) == rstep = from /\ rstep' = to /\ UNCHANGED rjid

(* The recovery returns; its caller is told by spc.                        *)
RecoveryEnds == rstep' = "idle" /\ rjid' = NoJob

(* Mutant: 'run.status not in ("running", "stopping")' is dropped.         *)
LookUpAnyRun ==
    /\ rstep = "look"
    /\ RecoveryStep("look", IF run[rjid] # "none" THEN "kill" ELSE "check")
    /\ UNCHANGED <<queueVars, workerVars, mail, slotVars, passVars, runVars,
                   boundVars>>

LookUpRun ==
    /\ rstep = "look"
    /\ RecoveryStep("look", IF run[rjid] = "running" THEN "kill" ELSE "check")
    /\ UNCHANGED <<queueVars, workerVars, mail, slotVars, passVars, runVars,
                   boundVars>>

(* Mutant: the run is closed, its journal row left as it is.               *)
KillRunOnly ==
    /\ RecoveryStep("kill", "notice")
    /\ run' = [run EXCEPT ![rjid] = "killed"]
    /\ UNCHANGED <<queueVars, workerVars, mail, slotVars, passVars, notice,
                   boundVars>>

KillRun ==
    /\ RecoveryStep("kill", "checkRun")
    /\ run' = [run EXCEPT ![rjid] = "killed"]
    /\ UNCHANGED <<queueVars, workerVars, mail, slotVars, passVars, notice,
                   boundVars>>

(* Mutant: 'if row.state != "processing": return' is dropped.              *)
CheckNothing ==
    /\ rstep \in {"checkRun", "check"}
    /\ RecoveryStep("checkRun", "failRun") \/ RecoveryStep("check", "fail")
    /\ UNCHANGED <<queueVars, workerVars, mail, slotVars, passVars, runVars,
                   boundVars>>

CheckJournal ==
    /\ rstep \in {"checkRun", "check"}
    /\ IF journal[rjid].state = "processing"
       THEN RecoveryStep("checkRun", "failRun") \/ RecoveryStep("check", "fail")
       ELSE RecoveryStep("checkRun", "notice") \/ (rstep = "check" /\ RecoveryEnds)
    /\ UNCHANGED <<queueVars, workerVars, mail, slotVars, passVars, runVars,
                   boundVars>>

FailJournal ==
    /\ \/ RecoveryStep("failRun", "notice")
       \/ rstep = "fail" /\ RecoveryEnds
    /\ JournalUpdate(rjid, "failed", NoRole)
    /\ UNCHANGED <<workerVars, mail, slotVars, passVars, runVars, boundVars>>

PostKilledNotice ==
    /\ RecoveryStep("notice", "summary")
    /\ notice' = [notice EXCEPT ![rjid] = TRUE]
    /\ UNCHANGED <<queueVars, workerVars, mail, slotVars, passVars, run,
                   boundVars>>

OrderSummary ==
    /\ rstep = "summary" /\ RecoveryEnds
    /\ Enqueue(SummaryOrder(Summarizer, rjid))
    /\ UNCHANGED <<workerVars, mail, slotVars, passVars, runVars, boundVars>>

(* Any exception in a recovery is logged and rolled back, and the caller   *)
(* goes on as if it had been done.                                         *)
RecoveryError ==
    /\ rstep # "idle" /\ RecoveryEnds
    /\ errors < MaxErrors /\ errors' = errors + 1
    /\ UNCHANGED <<queueVars, workerVars, mail, slotVars, passVars, runVars,
                   turns, deaths, outages>>

(***************************************************************************)
(* The end of a supervisor.  Stop is the orderly one: the loop sees the    *)
(* stop event at the top of a pass, SIGKILLs every child, recovers what    *)
(* each was known to work on, and reaps it.  Crash is any other: the       *)
(* process is killed, or an exception leaves the thread.                   *)
(***************************************************************************)
Stop ==
    /\ spc = "fetch"
    /\ MayFail /\ outages' = outages + 1
    /\ spc' = "stopping"
    /\ wpc' = [p \in Pid |-> IF HasPeer(p) THEN "zombie" ELSE wpc[p]]
    /\ wrow' = [p \in Pid |-> IF HasPeer(p) THEN 0 ELSE wrow[p]]
    /\ wjid' = [p \in Pid |-> IF HasPeer(p) THEN NoJob ELSE wjid[p]]
    /\ dying' = [r \in Role |-> slot[r] # NoPid]
    /\ UNCHANGED <<queueVars, mail, slot, known, term, batch, recVars,
                   runVars, turns, deaths, errors>>

StopDone ==
    /\ spc = "stopping" /\ rstep = "idle"
    /\ \A r \in Role : slot[r] = NoPid
    /\ spc' = "down"
    /\ UNCHANGED <<queueVars, workerVars, mail, slotVars, batch, recVars,
                   runVars, boundVars>>

Crash ==
    /\ spc # "down"
    /\ MayFail /\ outages' = outages + 1
    /\ spc' = "down" /\ batch' = {}
    /\ RecoveryEnds
    /\ slot' = [r \in Role |-> NoPid]
    /\ known' = [r \in Role |-> NoJob]
    /\ term' = [r \in Role |-> FALSE]
    /\ dying' = [r \in Role |-> FALSE]
    /\ mail' = [p \in Pid |-> NoMail]
    /\ wpc' = [p \in Pid |-> IF wpc[p] = "zombie" THEN "free" ELSE wpc[p]]
    /\ UNCHANGED <<queueVars, wrow, wjid, runVars, turns, deaths, errors>>

-----------------------------------------------------------------------------
Worker(p) ==
    \/ Poll(p) \/ Exit(p) \/ Take(p) \/ EmitProcessing(p) \/ EmitOutcome(p)
    \/ StartRun(p) \/ (\E s \in {"finished", "failed"} : FinishRun(p, s))
    \/ PostFailure(p) \/ RequestSummary(p)
    \/ (\E o \in Terminal : Settle(p, o))

Recovery ==
    \/ LookUpRun \/ KillRun \/ CheckJournal \/ FailJournal
    \/ PostKilledNotice \/ OrderSummary

Pass ==
    \/ Start \/ SweepOne \/ SweepDone
    \/ Fetch \/ SendEnvelope \/ Stamp
    \/ (\E r \in Role, p \in Pid : Spawn(r, p)) \/ SpawnDone
    \/ Recv \/ WatchDone
    \/ (\E r \in Role : Recover(r) \/ Forget(r)) \/ ReapDone
    \/ StopDone
    \/ Recovery

Environment ==
    \/ \E t \in Turns : Submit(t)
    \/ \E p \in Pid : Hang(p) \/ Die(p) \/ Unwind(p) \/ DrainGroup(p)
    \/ RecoveryError \/ Stop \/ Crash

Next ==
    \/ Environment
    \/ \E p \in Pid : Worker(p)
    \/ Pass
    \/ \E r \in Role : Terminate(r) \/ Kill(r)

Spec == Init /\ [][Next]_vars

(***************************************************************************)
(* Fairness.  The loop and the workers never stop by themselves: select()  *)
(* has a timeout, every model call has one, the launcher kills what is     *)
(* left of a dead core's process group, and Start is the launcher (or the  *)
(* operator) starting the core again.  The watchdog's two timers           *)
(* expire in real time however often the loop passes them by, hence the    *)
(* strong fairness; for the SIGTERM only where the silence is real.        *)
(***************************************************************************)
TerminateHung(r) == Alive(r) /\ wpc[slot[r]] = "hung" /\ Terminate(r)

Fairness ==
    /\ WF_vars(Pass)
    /\ \A p \in Pid : WF_vars(Worker(p)) /\ WF_vars(DrainGroup(p))
    /\ \A r \in Role : SF_vars(TerminateHung(r)) /\ SF_vars(Kill(r))

FairSpec == Spec /\ Fairness

-----------------------------------------------------------------------------
(***************************************************************************)
(* Safety.                                                                 *)
(***************************************************************************)
(* At most one live process per role ("at most one process per role",      *)
(* notes/supervisor-design.md), across restarts of the supervisor too.     *)
SoleWorker ==
    \A p, q \in Pid : Live(p) /\ Live(q) /\ RoleOf[p] = RoleOf[q] => p = q

(* No row is lost and none is handed out twice: every row ever enqueued is *)
(* either still in the inbox or in exactly one journal entry, whoever died *)
(* in between (take_item and the supervisor's restarts).                   *)
EveryRowAccounted ==
    \A i \in Rows :
        LET entries == {j \in Jobs : journal[j].row = i}
        IN  IF i \in inbox THEN entries = {}
            ELSE \E j \in entries : entries = {j}

(* An outcome stands.  A terminal journal row keeps its state: neither a   *)
(* recovery nor a late worker overwrites it (journal_update writes without *)
(* looking; fail_journal_if_processing looks first).  Nor is a closed run  *)
(* closed a second time, though finish_run never looks and what a recovery *)
(* read of the run is a transaction old when it kills it.                  *)
Closed == {"finished", "failed", "killed"}

OutcomesStand ==
    [][\A j \in JournalId :
         /\ journal[j].state \in Terminal => journal'[j].state = journal[j].state
         /\ run[j] \in Closed => run'[j] = run[j]]_vars

(* current_journal_id never misleads the recovery: what the supervisor     *)
(* believes a worker is on is a job of that worker's role, and if it is    *)
(* still open nobody else is working on it.                                *)
KnownIsOwn ==
    \A r \in Role : known[r] # NoJob =>
        /\ Agent(known[r]) = r
        /\ \A p \in Pid : wpc[p] \in Holding /\ wjid[p] = known[r] => slot[r] = p

(***************************************************************************)
(* Why these hold: the facts about processes, rows, journal and recovery   *)
(* that every step keeps.                                                  *)
(***************************************************************************)

(* The agents dict names workers of its own roles; every zombie is in it,  *)
(* every live worker too while a supervisor runs, none before a sweep ends.*)
ProcInv ==
    /\ SoleWorker
    /\ \A r \in Role : slot[r] # NoPid =>
          RoleOf[slot[r]] = r /\ wpc[slot[r]] # "free"
    /\ \A p \in Pid : wpc[p] = "zombie" => slot[RoleOf[p]] = p
    /\ \A p \in Pid : spc # "down" /\ Live(p) => slot[RoleOf[p]] = p
    /\ spc = "sweep" => \A p \in Pid : wpc[p] = "free"
    /\ spc = "down" => rstep = "idle" /\ \A r \in Role : slot[r] = NoPid

(* A worker that has read a row but not committed the take finds it there. *)
PickInv ==
    \A p \in Pid : wpc[p] = "picked" =>
        wrow[p] \in inbox /\ rows[wrow[p]].to = RoleOf[p]

(* A worker holds a journal row of its own role, open until it settles it; *)
(* what it last reported, and what the supervisor believes, is such a row, *)
(* held by nobody else.                                                    *)
HoldInv ==
    /\ \A p \in Pid : wpc[p] \in Holding =>
          /\ JobOf(wjid[p], RoleOf[p])
          /\ wpc[p] # "settled" => journal[wjid[p]].state = "processing"
    /\ \A p, q \in Pid : wpc[p] \in Holding /\ wpc[q] \in Holding
                            /\ wjid[p] = wjid[q] => p = q
    /\ \A p \in Pid : mail[p] \notin {NoJob, NoMail} =>
          /\ JobOf(mail[p], RoleOf[p])
          /\ \A q \in Pid : wpc[q] \in Holding /\ wjid[q] = mail[p] => q = p
    /\ \A r \in Role : known[r] # NoJob =>
          /\ JobOf(known[r], r)
          /\ \A q \in Pid : wpc[q] \in Holding /\ wjid[q] = known[r] => slot[r] = q

(* A recovery works on a journal row no live worker holds, and when it is  *)
(* about to fail the row, the row is still open.                           *)
RecoveryInv ==
    /\ batch \subseteq Jobs
    /\ \A j \in JournalId : run[j] # "none" => j \in Jobs
    /\ rstep # "idle" =>
          /\ rjid \in Jobs
          /\ \A p \in Pid : wpc[p] \in Holding => wjid[p] # rjid
    /\ rstep \in {"failRun", "fail"} => journal[rjid].state = "processing"

(* The inductive invariant of a supervisor under the launcher: core.py is  *)
(* only sound because no worker of an old core meets a new one.            *)
IndInv == TypeOK /\ ProcInv /\ QueueInv /\ PickInv /\ HoldInv /\ RecoveryInv

EnvelopesOf(j) == {i \in Rows : rows[i].why = "envelope" /\ rows[i].src = j}

(* A row is stamped routed_at only after its envelope is in the target's   *)
(* inbox, so no crash loses a wake-up; and each envelope beyond the first  *)
(* is paid for by a supervisor that ended between the two commits.         *)
StampMeansSent ==
    \A j \in Jobs :
        /\ journal[j].routed /\ journal[j].back # NoRole => EnvelopesOf(j) # {}
        /\ Cardinality(EnvelopesOf(j)) <= 1 + outages

(* A killed run's journal row is not left open by the recovery that killed *)
(* it, unless that recovery was itself cut short by a crash or an error    *)
(* (recover_interrupted_assistant_run commits the two separately).         *)
KilledRunIsClosed ==
    \A j \in Jobs : run[j] = "killed" =>
        \/ journal[j].state \in Terminal /\ notice[j]
        \/ rjid = j
        \/ outages + errors > 0

(* Why it holds: nobody works on a row whose run was killed, a recovery    *)
(* gets to the notice with its row closed, and one that begins with the    *)
(* run already killed finds both done.                                     *)
ClosingInv ==
    /\ KilledRunIsClosed
    /\ rstep = "idle" => rjid = NoJob
    /\ \A p \in Pid : wpc[p] \in Holding => run[wjid[p]] # "killed"
    /\ rstep \in {"notice", "summary"} => journal[rjid].state \in Terminal
    /\ rstep = "summary" => notice[rjid]
    /\ rstep \in {"look", "check", "fail"} /\ run[rjid] = "killed" =>
          \/ journal[rjid].state \in Terminal /\ notice[rjid]
          \/ outages + errors > 0

(* And why no return is lost: the rows in hand are finished and unstamped, *)
(* the one to be stamped next has its envelope, and that is the only       *)
(* unstamped row with an envelope no outage accounts for.                  *)
InHand(j) == spc = "mark" /\ j = Oldest(batch)

SentInv ==
    /\ \A j \in JournalId : journal[j].routed => journal[j].state \in Terminal
    /\ spc \in {"route", "mark"} =>
          \A j \in batch : journal[j].state \in Terminal /\ ~journal[j].routed
    /\ spc = "mark" => batch # {}
    /\ \A j \in JournalId :
          /\ journal[j].routed /\ journal[j].back # NoRole => EnvelopesOf(j) # {}
          /\ InHand(j) => EnvelopesOf(j) # {}
          /\ Cardinality(EnvelopesOf(j))
                <= outages + (IF journal[j].routed \/ InHand(j) THEN 1 ELSE 0)

(* A run is summarised once, and only when it is closed: its worker orders *)
(* the summary, or the recovery that killed it does, and never both; no    *)
(* crash, retry or sweep orders a second one.                              *)
SummariesOf(j) == {i \in Rows : rows[i].why = "summary" /\ rows[i].src = j}

SummarizedOnce ==
    \A j \in JournalId :
        /\ \A i, k \in SummariesOf(j) : i = k
        /\ SummariesOf(j) # {} => run[j] \in Closed

(* Why: what stands between a run and its one summary.  A worker begins a  *)
(* run once; a recovery kills one only while it runs; and until either has *)
(* come to its order there is none.                                        *)
RunInv ==
    /\ SummarizedOnce
    /\ \A p \in Pid :
          /\ wpc[p] \in {"taken", "handling"} => run[wjid[p]] = "none"
          /\ wpc[p] = "running" => run[wjid[p]] = "running"
          /\ wpc[p] \in {"replied", "posting", "failing"} =>
                run[wjid[p]] \in Closed /\ SummariesOf(wjid[p]) = {}
    /\ rstep = "kill" => run[rjid] = "running"
    /\ rstep \in {"checkRun", "failRun", "notice", "summary"} =>
          run[rjid] \in Closed /\ SummariesOf(rjid) = {}

(* The item of a role that the supervisor is to recover, or would be were  *)
(* its worker to die: what it knows, what it is about to read, or what it  *)
(* recovers.  An open item that is neither awaited nor a worker's is an    *)
(* orphan: nothing will end it.                                            *)
Open(j) == journal[j].state = "processing"
Held(j) == \E p \in Pid : wpc[p] \in Holding /\ wjid[p] = j

Awaited(r, j) ==
    /\ j \in Jobs /\ Open(j)
    /\ \/ known[r] = j
       \/ Alive(r) /\ mail[slot[r]] = j
       \/ rjid = j /\ Agent(j) = r

Orphans ==
    {j \in Jobs : Open(j) /\ ~Held(j) /\ \A r \in Role : ~Awaited(r, j)}

(* Orphans are few: a death, a worker terminated for its silence or a      *)
(* failed recovery leaves at most one, the end of a supervisor at most one *)
(* per role, and nothing else ever does (core.py recovers what it knows    *)
(* from current_journal_id alone).                                         *)
OrphansAreCounted ==
    Cardinality(Orphans) <= deaths + errors + Cardinality(Role) * outages

(* Why: besides the orphans there are, count those that are paid for and   *)
(* may yet come, at most one per role: from a worker without a supervisor, *)
(* and from one terminated before it could report what it takes.           *)
Owes(p) ==
    /\ Live(p)
    /\ spc = "down" \/ (Termed(p) /\ wpc[p] \in {"poll", "picked", "taken"})

Owing == {r \in Role : \E p \in Pid : RoleOf[p] = r /\ Owes(p)}

CountInv ==
    Cardinality(Orphans) + Cardinality(Owing)
        <= deaths + errors + Cardinality(Role) * outages

(* The supervisor awaits one item per role, that of its worker if it has   *)
(* one.                                                                    *)
AwaitInv ==
    \A r \in Role : \A j \in Jobs : Awaited(r, j) =>
        /\ \A k \in Jobs : Awaited(r, k) => k = j
        /\ slot[r] # NoPid /\ Live(slot[r]) =>
              wpc[slot[r]] \in Holding /\ wjid[slot[r]] = j

(* A worker with a supervisor has reported the item it works on, and what  *)
(* it reported last is what the supervisor reads or has read: an unread    *)
(* message never makes it forget an item that is still open.               *)
ReportInv ==
    /\ rstep # "idle" => spc \in {"sweep", "reap", "stopping"}
    /\ \A r \in Role :
          /\ slot[r] = NoPid => known[r] = NoJob /\ ~term[r]
          /\ dying[r] => slot[r] # NoPid /\ wpc[slot[r]] = "zombie"
          /\ term[r] /\ Alive(r) => mail[slot[r]] = NoMail
          /\ Unread(r) /\ Awaited(r, known[r]) => mail[slot[r]] = known[r]
    /\ \A p \in Pid : HasPeer(p) /\ wpc[p] \in Holding \ {"taken"} =>
          \/ mail[p] = wjid[p]
          \/ mail[p] = NoMail /\ known[RoleOf[p]] = wjid[p]
    /\ \A p \in Pid : wpc[p] = "settled" => ~Open(wjid[p])
    /\ \A j \in Jobs : Agent(j) \in Role

(* All of it: the inductive invariant of what the supervisor promises.     *)
FullInv ==
    /\ IndInv /\ ClosingInv /\ SentInv
    /\ RunInv
    /\ ReportInv /\ AwaitInv /\ CountInv

(* The four below speak of all rows at once: producers pause after         *)
(* MaxTurns rows, and what they left behind is then worked off.            *)

(* The inbox is eventually drained, through deaths, hangs and restarts of  *)
(* the supervisor: no queued row waits for ever.                           *)
BacklogDrains == inbox # {} ~> inbox = {}

(* Every terminal row carrying a return address is eventually routed, even *)
(* if the supervisor dies between finding it and stamping it.              *)
ReturnsAreRouted ==
    LET due == {j \in JournalId : /\ journal[j].state \in {"completed", "failed"}
                                  /\ journal[j].back # NoRole
                                  /\ ~journal[j].routed}
    IN  due # {} ~> due = {}

(* No assistant run stays open for ever: its worker closes it, the reaping *)
(* of that worker does, or the next supervisor's sweep; only a recovery    *)
(* that raised leaves one open.                                            *)
RunsAreClosed ==
    LET open == {j \in JournalId : run[j] = "running"}
    IN  open # {} ~> open = {} \/ errors > 0

(* What the supervisor knows a worker is on is eventually settled, whether *)
(* the worker finishes, dies or hangs, unless the supervisor ends first.   *)
KnownIsSettled ==
    LET open == {r \in Role : known[r] # NoJob
                              /\ journal[known[r]].state = "processing"}
    IN  open # {} ~> open = {} \/ outages + errors > 0

(***************************************************************************)
(* What the repository's notes and comments say, and the code does not do. *)
(***************************************************************************)

(* "every terminal row is routed at most once, and the stamp survives      *)
(* restarts" (notes/supervisor-design.md).                                 *)
RoutedAtMostOnce == \A j \in Jobs : Cardinality(EnvelopesOf(j)) <= 1

(* "It routes FAILED turns as well as completed ones, so a manager that    *)
(* dispatched the work can recover from a failure rather than waiting on a *)
(* row that will never come back" (core.py): a delegated turn that failed  *)
(* and was passed by the router has sent its envelope.                     *)
FailedTurnWakesManager ==
    \A j \in Jobs :
        journal[j].state = "failed" /\ journal[j].routed
            /\ rows[journal[j].row].ret # NoRole
        => EnvelopesOf(j) # {}

(* "worker died mid-item -> recovery fails the journal / run"              *)
(* (notes/supervisor-design.md): an item that is still 'processing' has a  *)
(* live worker on it, or a supervisor that will recover it, if only a      *)
(* worker ever died.                                                       *)
DeadWorkersItemIsRecovered == outages + errors = 0 => Orphans = {}

-----------------------------------------------------------------------------
(***************************************************************************)
(* The queue under this supervisor implements the ledger.                  *)
(***************************************************************************)
InState(s) == {journal[j].row : j \in {k \in JournalId : journal[k].state = s}}

Ledger == INSTANCE TurnLedger WITH
    Id <- RowId, Outcome <- Terminal,
    waiting <- inbox,
    working <- InState("processing"),
    ended <- [o \in Terminal |-> InState(o)]

(* Every step of supervisor and workers is a step of the ledger or none:   *)
(* in particular a row is begun once and ended once.                       *)
ImplementsLedger == Ledger!Spec

===============================================================================
