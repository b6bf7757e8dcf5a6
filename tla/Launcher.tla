------------------------------- MODULE Launcher -------------------------------
(***************************************************************************)
(* main.py: the launcher starts the core and the services, restarts them,  *)
(* stops them, and shuts everything down; services/registry.py: the core   *)
(* pushes what it wants over the control channel.                          *)
(*                                                                         *)
(* The launcher is one thread, but what it looks at is not: processes      *)
(* exit, their groups linger, the core pushes and dies, and the handler of *)
(* a termination signal runs between any two of its statements.  What      *)
(* others do, the launcher sees in a few places only: it may happen        *)
(* between two passes and before each of those places (Outside).           *)
(***************************************************************************)
EXTENDS Naturals, Sequences, FiniteSets

CONSTANTS Core,         \* the core's record
          Service,      \* the services' keys
          MaxEdits,     \* bound: edits of the settings
          LastEdit,     \* bound: edits before a shutdown
          MaxExits,     \* bound: processes that exit by themselves
          MaxLines      \* bound: snapshots in the control socket

ASSUME LauncherAssumption ==
    /\ Core \notin Service
    /\ MaxEdits \in Nat /\ LastEdit \in Nat
    /\ MaxExits \in Nat /\ MaxLines \in Nat

Rec == Service \cup {Core}

VARIABLES
    want,      \* the settings: a service is to be on, off, or is deleted
    nonce,     \* the restart nonces in the settings, a fresh number each
    edits,     \* counters of the bounds
    exits,
    unpushed,  \* the core has settings to push
    lines,     \* snapshots in the control socket
    chan,      \* the launcher's end of the socket is open
    snap,      \* the launcher has had a snapshot
    p,         \* the launcher's Proc records
    leader,    \* the process of a record: alive, SIGKILLed, exited, or none
    members,   \* the other members of its group
    tried,     \* the nonce a record was last started, or refused, with
    lpc, todo, \* the statement of the pass; the records it has yet to do
    target,    \* the record it is about to spawn
    phase,     \* shutdown_phase; 0 is not shutting down
    phaseT     \* phase_deadline

coreVars  == <<want, nonce, edits, unpushed>>
chanVars  == <<lines, chan>>
groupVars == <<leader, members>>
passVars  == <<lpc, todo, target>>
stopVars  == <<phase, phaseT>>
vars == <<coreVars, exits, chanVars, snap, p, groupVars, tried, passVars, stopVars>>

Nonce    == 0..MaxEdits
Snapshot == [want: [Service -> {"on", "off", "gone"}], nonce: [Rec -> Nonce]]
Desired  == [want |-> want, nonce |-> nonce]   \* desired_snapshot

(* A deadline is not set, in the future, or past.                          *)
Timer == {"none", "set", "due"}

Proc == [state: {"stopped", "running", "stopping", "backoff", "failed",
                 "blocked"},                   \* blocked: not installed or
         desired: BOOLEAN, removed: BOOLEAN,   \* no credential
         nonce: Nonce, known: BOOLEAN, pending: BOOLEAN, stopping: BOOLEAN,
         stop: Timer, retry: Timer, drain: Timer]

NewProc(desired) ==
    [state |-> "stopped", desired |-> desired, removed |-> FALSE,
     nonce |-> 0, known |-> FALSE, pending |-> FALSE, stopping |-> FALSE,
     stop |-> "none", retry |-> "none", drain |-> "none"]

TypeOK ==
    /\ Desired \in Snapshot
    /\ edits \in Nonce /\ exits \in 0..MaxExits
    /\ unpushed \in BOOLEAN /\ chan \in BOOLEAN /\ snap \in BOOLEAN
    /\ lines \in Seq(Snapshot)
    /\ p \in [Rec -> Proc]
    /\ leader \in [Rec -> {"none", "alive", "killed", "exited"}]
    /\ members \in [Rec -> {"none", "live", "killed"}]
    /\ tried \in [Rec -> Nonce]
    /\ lpc \in {"sleep", "reap", "read", "act", "spawn", "stop", "gone"}
    /\ todo \in SUBSET Rec /\ target \in Rec
    /\ phase \in 0..3 /\ phaseT \in Timer

Init ==
    /\ want \in [Service -> {"on", "off"}]
    /\ nonce = [r \in Rec |-> 0] /\ edits = 0 /\ exits = 0
    /\ unpushed = FALSE /\ lines = <<>> /\ chan = FALSE /\ snap = FALSE
    /\ p = [r \in Rec |-> NewProc(r = Core)]
    /\ leader = [r \in Rec |-> "none"]
    /\ members = [r \in Rec |-> "none"]
    /\ tried = [r \in Rec |-> 0]
    /\ lpc = "reap" /\ todo = {} /\ target = Core
    /\ phase = 0 /\ phaseT = "none"

-----------------------------------------------------------------------------
(***************************************************************************)
(* The core: settings are edited in its web server, in one transaction,    *)
(* and pushed afterwards.  It also pushes once when it has started.        *)
(***************************************************************************)
Outside == lpc \in {"sleep", "read", "stop"}
Up == Outside /\ leader[Core] = "alive"

Commit(w, n) ==
    /\ Up /\ edits < MaxEdits
    /\ phase = 0        \* a launcher that shuts down reads them and does nothing
    /\ edits' = edits + 1
    /\ want' = w /\ nonce' = n
    /\ unpushed' = TRUE
    /\ UNCHANGED <<exits, chanVars, snap, p, groupVars, tried, passVars,
                   stopVars>>

Bumped(r) == [nonce EXCEPT ![r] = edits + 1]

(* A restart, or another environment: a new nonce.                         *)
Restart(r) ==
    /\ r \in Service => want[r] # "gone"
    /\ Commit(want, Bumped(r))

Enable(s) ==
    /\ want[s] = "off"
    /\ Commit([want EXCEPT ![s] = "on"], Bumped(s))

(* A static service gets a nonce here too, a connector does not.           *)
Disable(s) ==
    /\ want[s] = "on"
    /\ \E n \in {nonce, Bumped(s)} : Commit([want EXCEPT ![s] = "off"], n)

(* A deleted connector never comes back under its key.                     *)
Delete(s) ==
    /\ want[s] # "gone"
    /\ Commit([want EXCEPT ![s] = "gone"], nonce)

(* push_desired builds and sends under one lock.                           *)
Push ==
    /\ Up /\ unpushed /\ Len(lines) < MaxLines
    /\ lines' = IF chan THEN Append(lines, Desired) ELSE lines
    /\ unpushed' = FALSE
    /\ UNCHANGED <<want, nonce, edits, exits, chan, snap, p, groupVars, tried,
                   passVars, stopVars>>

-----------------------------------------------------------------------------
(***************************************************************************)
(* What processes do by themselves.  A process that has been SIGKILLed     *)
(* goes, some time later; any other may exit, or linger, as it likes.      *)
(***************************************************************************)
worldVars == <<coreVars, chanVars, snap, p, tried, passVars, stopVars>>

LeaderExits(r) ==
    /\ Outside /\ leader[r] = "alive" /\ exits < MaxExits
    /\ exits' = exits + 1
    /\ leader' = [leader EXCEPT ![r] = "exited"]
    /\ UNCHANGED <<worldVars, members>>

Fork(r) ==
    /\ Outside /\ leader[r] = "alive" /\ members[r] = "none"
    /\ members' = [members EXCEPT ![r] = "live"]
    /\ UNCHANGED <<worldVars, exits, leader>>

MembersExit(r) ==
    /\ Outside /\ members[r] = "live"
    /\ members' = [members EXCEPT ![r] = "none"]
    /\ UNCHANGED <<worldVars, exits, leader>>

KilledGo(r) ==
    \/ /\ Outside /\ leader[r] = "killed"
       /\ leader' = [leader EXCEPT ![r] = "exited"]
       /\ UNCHANGED <<worldVars, exits, members>>
    \/ /\ Outside /\ members[r] = "killed"
       /\ members' = [members EXCEPT ![r] = "none"]
       /\ UNCHANGED <<worldVars, exits, leader>>

(* Deadlines pass.  A pass reads the clock once, so between passes.        *)
Elapse(r, timer) ==
    /\ lpc = "sleep" /\ p[r][timer] = "set"
    /\ p' = [p EXCEPT ![r][timer] = "due"]
    /\ UNCHANGED <<coreVars, exits, chanVars, snap, groupVars, tried, passVars,
                   stopVars>>

ElapsePhase ==
    /\ lpc = "sleep" /\ phaseT = "set" /\ phaseT' = "due"
    /\ UNCHANGED <<coreVars, exits, chanVars, snap, p, groupVars, tried, passVars,
                   phase>>

-----------------------------------------------------------------------------
(***************************************************************************)
(* Signals.  A record owns a group from its spawn until it is reaped and   *)
(* the rest of the group has drained: rec.pgid.                            *)
(***************************************************************************)
Owned(r) == leader[r] # "none" \/ p[r].drain # "none"

Kill(R) ==      \* SIGKILL
    /\ leader' = [r \in Rec |-> IF r \in R /\ leader[r] = "alive"
                                THEN "killed" ELSE leader[r]]
    /\ members' = [r \in Rec |-> IF r \in R /\ members[r] = "live"
                                 THEN "killed" ELSE members[r]]

(* A service has left the catalogue of what runs: SIGTERM, and a deadline. *)
Stopping(rec) == [rec EXCEPT !.stopping = TRUE, !.stop = "set",
                             !.state = "stopping"]

(* request_shutdown, the handler of SIGTERM and SIGINT.                    *)
FirstSignal ==
    /\ lpc # "gone" /\ phase = 0 /\ edits <= LastEdit
    /\ phase' = 1 /\ phaseT' = "none"
    /\ p' = [r \in Rec |-> IF r \in Service
                           THEN [p[r] EXCEPT !.desired = FALSE] ELSE p[r]]
    /\ UNCHANGED <<coreVars, exits, chanVars, snap, groupVars, tried, passVars>>

(* If it strikes while _shutdown_tick is about to enter phase 2, that      *)
(* overwrites phase 3; everything has been SIGKILLed by then.              *)
NextSignal ==
    /\ lpc # "gone" /\ phase # 0
    /\ phase' = 3
    /\ Kill({r \in Rec : Owned(r)})
    /\ UNCHANGED <<coreVars, exits, chanVars, snap, p, tried, passVars, phaseT>>

-----------------------------------------------------------------------------
(***************************************************************************)
(* A pass begins: whatever has exited is reaped.                           *)
(***************************************************************************)
(* Output, a line, SIGCHLD, a signal, a deadline, the inactivity log.      *)
Wake ==
    /\ lpc = "sleep" /\ lpc' = "reap"
    /\ UNCHANGED <<coreVars, exits, chanVars, snap, p, groupVars, tried, todo,
                   target, stopVars>>

(* The record after an exit.  An unexpected one is retried later, unless   *)
(* its code says not to (2 or 3) or it is the fifth within two minutes.    *)
Exited(rec) ==
    IF rec.stopping THEN {[rec EXCEPT !.state = "stopped"]}
    ELSE {[rec EXCEPT !.state = "failed", !.pending = FALSE],
          [rec EXCEPT !.state = "backoff", !.retry = "set"]}

(* Mutant: what is left of the group is not waited for.                    *)
ReapNoDrain(r) ==
    /\ lpc = "reap" /\ leader[r] = "exited"
    /\ \E rec \in Exited(p[r]) :
         p' = [p EXCEPT ![r] = [rec EXCEPT !.stopping = FALSE, !.stop = "none"]]
    /\ leader' = [leader EXCEPT ![r] = "none"]
    /\ chan' = (chan /\ r # Core) /\ lines' = IF r = Core THEN <<>> ELSE lines
    /\ unpushed' = (unpushed /\ r # Core)
    /\ UNCHANGED <<want, nonce, edits, exits, snap, members, tried, passVars,
                   stopVars>>

(* _handle_exit.  The core's socket is closed with what is unread in it.   *)
Reap(r) ==
    /\ lpc = "reap" /\ leader[r] = "exited"
    /\ \E rec \in Exited(p[r]) :
         p' = [p EXCEPT ![r] =
                [rec EXCEPT !.stopping = FALSE, !.stop = "none",
                            !.drain = IF members[r] = "none" THEN "none"
                                                             ELSE "set"]]
    /\ leader' = [leader EXCEPT ![r] = "none"]
    /\ chan' = (chan /\ r # Core) /\ lines' = IF r = Core THEN <<>> ELSE lines
    /\ unpushed' = (unpushed /\ r # Core)
    /\ UNCHANGED <<want, nonce, edits, exits, snap, members, tried, passVars,
                   stopVars>>

ReapDone ==
    /\ lpc = "reap" /\ \A r \in Rec : leader[r] # "exited"
    /\ lpc' = "read"
    /\ UNCHANGED <<coreVars, exits, chanVars, snap, p, groupVars, tried, todo,
                   target, stopVars>>

-----------------------------------------------------------------------------
(***************************************************************************)
(* The core's lines are read, and its snapshots applied.                   *)
(***************************************************************************)
AppliedToCore(rec, n) ==
    CASE ~snap \/ ~rec.known -> [rec EXCEPT !.nonce = n, !.known = TRUE]
      [] snap /\ rec.known /\ n # rec.nonce ->
            [rec EXCEPT !.nonce = n, !.pending = TRUE,
                        !.state = IF @ = "failed" THEN "stopped" ELSE @]
      [] OTHER -> rec

(* Mutant: every snapshot asks for a restart.                              *)
AppliedAlways(rec, w, n) ==
    [rec EXCEPT !.removed = (w = "gone"), !.desired = (w = "on"),
                !.nonce = n, !.known = TRUE, !.pending = rec.known /\ w = "on"]

AppliedToService(rec, w, n) ==
    LET now == [rec EXCEPT !.removed = FALSE, !.desired = (w = "on")] IN
    CASE w = "gone" -> [rec EXCEPT !.removed = TRUE, !.desired = FALSE]
      [] w # "gone" /\ ~rec.known -> [now EXCEPT !.nonce = n, !.known = TRUE]
      [] w # "gone" /\ rec.known /\ n # rec.nonce ->
            [now EXCEPT !.nonce = n, !.pending = now.desired,
                        !.retry = "none",
                        !.state = IF @ \in {"failed", "backoff", "blocked"}
                                  THEN "stopped" ELSE @]
      [] OTHER -> now

(* _apply_snapshot; nothing once a shutdown has decided.                   *)
ReadLine ==
    /\ lpc = "read" /\ chan /\ lines # <<>>
    /\ lines' = Tail(lines)
    /\ IF phase # 0 THEN UNCHANGED <<p, snap>> ELSE
        /\ snap' = TRUE
        /\ p' = [r \in Rec |->
                  IF r = Core
                  THEN AppliedToCore(p[Core], Head(lines).nonce[Core])
                  ELSE AppliedToService(p[r], Head(lines).want[r],
                                        Head(lines).nonce[r])]
    /\ UNCHANGED <<coreVars, exits, chan, groupVars, tried, passVars, stopVars>>

(* Nothing more to read: the end of the stream, if the core has exited.    *)
ReadAll ==
    /\ lpc = "read" /\ (chan => lines = <<>>)
    /\ chan' = (chan /\ leader[Core] # "exited")

ReadDone ==
    /\ ReadAll /\ phase = 0
    /\ lpc' = "act" /\ todo' = {Core} \cup (IF snap THEN Service ELSE {})
    /\ UNCHANGED <<coreVars, exits, lines, snap, p, groupVars, tried, target,
                   stopVars>>

-----------------------------------------------------------------------------
(***************************************************************************)
(* _reconcile_one.  First, what is left of the group of a dead leader.     *)
(***************************************************************************)
DrainOver(r) == p[r].drain # "none" /\ (members[r] = "none" \/ p[r].drain = "due")

Turn(r)    == lpc = "act" /\ r \in todo /\ (Core \in todo => r = Core)
Handled(r) == Turn(r) /\ todo' = todo \ {r}

(* SIGKILL to whoever is left, and the group is forgotten.                 *)
ForgetGroups(R) ==
    /\ p' = [r \in Rec |-> IF r \in R THEN [p[r] EXCEPT !.drain = "none"]
                                      ELSE p[r]]
    /\ members' = [r \in Rec |-> IF r \in R THEN "none" ELSE members[r]]
    /\ UNCHANGED leader

EndDrain(r) ==
    /\ Turn(r) /\ DrainOver(r)
    /\ ForgetGroups({r})
    /\ UNCHANGED <<coreVars, exits, chanVars, snap, tried, passVars, stopVars>>

StillDrains(r) ==
    /\ Handled(r) /\ p[r].drain # "none" /\ ~DrainOver(r)
    /\ UNCHANGED <<coreVars, exits, chanVars, snap, p, groupVars, tried, lpc,
                   target, stopVars>>

(* The process runs.                                                       *)
Escalate(r) ==
    /\ Handled(r) /\ p[r].drain = "none" /\ leader[r] # "none"
    /\ p[r].stopping
    /\ IF p[r].stop = "due"
       THEN Kill({r}) /\ p' = [p EXCEPT ![r].stop = "none"]
       ELSE UNCHANGED <<p, groupVars>>
    /\ UNCHANGED <<coreVars, exits, chanVars, snap, tried, lpc, target, stopVars>>

RequestStop(r) ==
    /\ Handled(r) /\ p[r].drain = "none" /\ leader[r] # "none"
    /\ ~p[r].stopping
    /\ ~p[r].desired \/ p[r].pending
    /\ p' = [p EXCEPT ![r] = Stopping(@)]
    /\ UNCHANGED <<coreVars, exits, chanVars, snap, groupVars, tried, lpc, target,
                   stopVars>>

(* _preflight finds no interpreter or no credential: the nonce is consumed. *)
RestartBlocked(r) ==
    /\ Handled(r) /\ p[r].drain = "none" /\ leader[r] # "none"
    /\ r # Core /\ ~p[r].stopping /\ p[r].desired /\ p[r].pending
    /\ p' = [p EXCEPT ![r].pending = FALSE]
    /\ tried' = [tried EXCEPT ![r] = p[r].nonce]
    /\ UNCHANGED <<coreVars, exits, chanVars, snap, groupVars, lpc, target, stopVars>>

RunsOn(r) ==
    /\ Handled(r) /\ p[r].drain = "none" /\ leader[r] # "none"
    /\ ~p[r].stopping /\ p[r].desired /\ ~p[r].pending
    /\ UNCHANGED <<coreVars, exits, chanVars, snap, p, groupVars, tried, lpc,
                   target, stopVars>>

(* Mutant: a dead leader is enough.                                        *)
IdleLeader(r) == leader[r] = "none"

(* It does not run.                                                        *)
Idle(r) == p[r].drain = "none" /\ leader[r] = "none"

StaysOff(r) ==
    /\ Handled(r) /\ Idle(r)
    /\ IF ~p[r].desired /\ p[r].state \in {"backoff", "blocked"}
       THEN p' = [p EXCEPT ![r].state = "stopped", ![r].retry = "none"]
       ELSE /\ \/ ~p[r].desired
               \/ p[r].state = "failed"
               \/ p[r].state = "backoff" /\ p[r].retry = "set"
            /\ UNCHANGED p
    /\ UNCHANGED <<coreVars, exits, chanVars, snap, groupVars, tried, lpc, target,
                   stopVars>>

Startable(r) ==
    /\ Idle(r) /\ p[r].desired /\ p[r].state # "failed"
    /\ ~(p[r].state = "backoff" /\ p[r].retry = "set")

Blocked(r) ==
    /\ Handled(r) /\ Startable(r) /\ r # Core
    /\ p' = [p EXCEPT ![r].state = "blocked"]
    /\ UNCHANGED <<coreVars, exits, chanVars, snap, groupVars, tried, lpc, target,
                   stopVars>>

(* The launcher makes up its mind, and a signal may yet come.              *)
Decide(r) ==
    /\ Handled(r) /\ Startable(r)
    /\ target' = r /\ lpc' = "spawn"
    /\ UNCHANGED <<coreVars, exits, chanVars, snap, p, groupVars, tried, stopVars>>

(* Mutant: a new core pushes nothing until the next edit.                  *)
SpawnSilent ==
    /\ lpc = "spawn" /\ lpc' = "act"
    /\ p' = [p EXCEPT ![target] =
              [@ EXCEPT !.state = "running", !.stopping = FALSE,
                        !.pending = FALSE, !.stop = "none", !.retry = "none"]]
    /\ leader' = [leader EXCEPT ![target] = "alive"]
    /\ tried' = [tried EXCEPT ![target] = p[target].nonce]
    /\ IF target = Core THEN chan' = TRUE /\ lines' = <<>> ELSE UNCHANGED chanVars
    /\ UNCHANGED <<coreVars, exits, snap, members, todo, target, stopVars>>

(* _spawn; the core gets a new socket and pushes once it is up.            *)
Spawn ==
    /\ lpc = "spawn" /\ lpc' = "act"
    /\ p' = [p EXCEPT ![target] =
              [@ EXCEPT !.state = "running", !.stopping = FALSE,
                        !.pending = FALSE, !.stop = "none", !.retry = "none"]]
    /\ leader' = [leader EXCEPT ![target] = "alive"]
    /\ tried' = [tried EXCEPT ![target] = p[target].nonce]
    /\ IF target = Core
       THEN chan' = TRUE /\ lines' = <<>> /\ unpushed' = TRUE
       ELSE UNCHANGED <<chanVars, unpushed>>
    /\ UNCHANGED <<want, nonce, edits, exits, snap, members, todo, target,
                   stopVars>>

(* No such file, or another error of the operating system.                 *)
SpawnFails ==
    /\ lpc = "spawn" /\ lpc' = "act"
    /\ \E state \in {"blocked", "failed"} : p' = [p EXCEPT ![target].state = state]
    /\ chan' = (chan /\ target # Core)
    /\ UNCHANGED <<coreVars, exits, lines, snap, groupVars, tried, todo, target,
                   stopVars>>

(* A deleted connector's record is dropped.  It waits for the end of the   *)
(* process's output too, which is noticed at the start of a pass.          *)
Forget(s) ==
    /\ lpc = "act" /\ s \notin todo /\ snap
    /\ p[s].removed /\ Idle(s) /\ members[s] = "none"
    /\ p' = [p EXCEPT ![s] = NewProc(FALSE)]
    /\ tried' = [tried EXCEPT ![s] = 0]
    /\ UNCHANGED <<coreVars, exits, chanVars, snap, groupVars, passVars,
                   stopVars>>

Sleep ==
    /\ lpc = "act" /\ todo = {}
    /\ lpc' = "sleep"
    /\ UNCHANGED <<coreVars, exits, chanVars, snap, p, groupVars, tried, todo,
                   target, stopVars>>

-----------------------------------------------------------------------------
(***************************************************************************)
(* The pass of a shutdown: drains, then the phase (_shutdown_tick).        *)
(***************************************************************************)
EndDrains ==
    /\ ReadAll /\ phase # 0
    /\ lpc' = "stop"
    /\ ForgetGroups({r \in Rec : DrainOver(r)})
    /\ UNCHANGED <<coreVars, exits, lines, snap, tried, todo, target, stopVars>>

Live(r) == leader[r] # "none" \/ (Owned(r) /\ members[r] # "none")
(* Mutant: only the direct children are looked at.                         *)
LiveLeaders == {s \in Service : leader[s] # "none"}

LiveServices == {s \in Service : Live(s)}

StopAll(R) ==
    p' = [r \in Rec |-> IF r \in R /\ leader[r] # "none" /\ ~p[r].stopping
                        THEN Stopping(p[r]) ELSE p[r]]

(* phase_deadline is set in one pass and obeyed in a later one.            *)
Press(R) ==
    /\ phaseT' = IF phaseT = "none" THEN "set" ELSE phaseT
    /\ IF phaseT = "due" THEN Kill(R) ELSE UNCHANGED groupVars

(* Mutant: nobody is SIGKILLed in the first phase.                         *)
StopPolitely ==
    /\ lpc = "stop" /\ phase = 1 /\ LiveServices # {}
    /\ StopAll(Service) /\ phaseT' = IF phaseT = "none" THEN "set" ELSE phaseT
    /\ lpc' = "sleep"
    /\ UNCHANGED <<coreVars, exits, chanVars, snap, groupVars, tried, todo,
                   target, phase>>

StopServices ==
    /\ lpc = "stop" /\ phase = 1 /\ LiveServices # {}
    /\ StopAll(Service) /\ Press(LiveServices)
    /\ lpc' = "sleep"
    /\ UNCHANGED <<coreVars, exits, chanVars, snap, tried, todo, target, phase>>

CorePhase ==
    /\ lpc = "stop" /\ phase = 1 /\ LiveServices = {}
    /\ phase' = 2 /\ phaseT' = "none"
    /\ UNCHANGED <<coreVars, exits, chanVars, snap, p, groupVars, tried, passVars>>

StopCore ==
    /\ lpc = "stop" /\ phase = 2 /\ Live(Core)
    /\ StopAll({Core}) /\ Press({Core})
    /\ lpc' = "sleep"
    /\ UNCHANGED <<coreVars, exits, chanVars, snap, tried, todo, target, phase>>

KillAll ==
    /\ lpc = "stop" /\ phase = 3 /\ \E r \in Rec : Live(r)
    /\ Kill(Rec)
    /\ lpc' = "sleep"
    /\ UNCHANGED <<coreVars, exits, chanVars, snap, p, tried, todo, target, stopVars>>

Finish ==
    /\ lpc = "stop"
    /\ \/ phase = 2 /\ ~Live(Core)
       \/ phase = 3 /\ \A r \in Rec : ~Live(r)
    /\ lpc' = "gone" /\ chan' = FALSE
    /\ UNCHANGED <<coreVars, exits, lines, snap, p, groupVars, tried, todo, target,
                   stopVars>>

-----------------------------------------------------------------------------
Edits ==
    \/ \E r \in Rec : Restart(r)
    \/ \E s \in Service : Enable(s) \/ Disable(s) \/ Delete(s)

World ==
    \/ \E r \in Rec : LeaderExits(r) \/ Fork(r) \/ MembersExit(r) \/ KilledGo(r)
    \/ \E r \in Rec, timer \in {"stop", "retry", "drain"} : Elapse(r, timer)
    \/ ElapsePhase

Signals == FirstSignal \/ NextSignal

Reconcile(r) ==
    \/ EndDrain(r) \/ StillDrains(r)
    \/ Escalate(r) \/ RequestStop(r) \/ RestartBlocked(r) \/ RunsOn(r)
    \/ StaysOff(r) \/ Blocked(r) \/ Decide(r)

Shutdown == EndDrains \/ StopServices \/ CorePhase \/ StopCore \/ KillAll \/ Finish

Pass ==
    \/ Wake \/ ReapDone \/ ReadLine \/ ReadDone \/ Spawn \/ SpawnFails \/ Sleep
    \/ \E r \in Rec : Reap(r) \/ Reconcile(r)
    \/ \E s \in Service : Forget(s)
    \/ Shutdown

Next == Edits \/ Push \/ World \/ Signals \/ Pass

Spec == Init /\ [][Next]_vars

-----------------------------------------------------------------------------
(***************************************************************************)
(* Properties.                                                             *)
(***************************************************************************)
(* The shape of a record between statements.  The second conjunct is the   *)
(* point: whatever dies and whatever is asked for meanwhile, a member of a *)
(* group that has not been SIGKILLed belongs to a group the launcher still *)
(* knows, and will stop, drain, or kill (main.py:796, 880).                *)
RecInv(r) ==
    /\ p[r].drain # "none" => leader[r] = "none"
    /\ members[r] # "none" => Owned(r)
    /\ p[r].stopping => leader[r] # "none"
    /\ p[r].stop # "none" => p[r].stopping

SpawnInv == lpc = "spawn" => Idle(target)

(* The second phase of a shutdown begins when nothing of any service is    *)
(* left but what has been SIGKILLed, and no service starts in it: the core *)
(* serves its clients to their end (main.py:963, design note: two phases). *)
CoreOutlivesServices ==
    phase = 2 => \A s \in Service : leader[s] = "none" /\ members[s] = "none"

(* Nonces only grow on their way from the settings to the processes, and a *)
(* restart is pending for one the process has not been started with.       *)
NonceInv(r) ==
    /\ tried[r] <= p[r].nonce /\ p[r].nonce <= nonce[r] /\ nonce[r] <= edits
    /\ \A i \in 1..Len(lines) :
         /\ p[r].nonce <= lines[i].nonce[r] /\ lines[i].nonce[r] <= nonce[r]
         /\ \A j \in i..Len(lines) : lines[i].nonce[r] <= lines[j].nonce[r]
    /\ ~p[r].known => ~p[r].pending
    /\ p[r].pending /\ leader[r] # "none" /\ ~p[r].stopping
         => tried[r] # p[r].nonce

(* In the second phase of a shutdown nothing is started any more.          *)
PhaseInv == phase = 2 => lpc \notin {"act", "spawn"}

(* When the launcher has gone, so has all it started: every leader, and    *)
(* whatever the leaders left in their groups and has not been SIGKILLed    *)
(* (main.py:982, 994).                                                     *)
NothingLeft ==
    lpc = "gone" => \A r \in Rec : leader[r] = "none" /\ members[r] = "none"

IndInv ==
    /\ TypeOK
    /\ \A r \in Rec : RecInv(r)
    /\ \A r \in Rec : NonceInv(r)
    /\ p[Core].known => snap
    /\ SpawnInv /\ PhaseInv /\ CoreOutlivesServices /\ NothingLeft

(* A replacement never starts beside a group that may still do something:  *)
(* the old one is gone or has been SIGKILLed (main.py:884).                *)
NeverTwoGroups ==
    [][\A r \in Rec : leader[r] # "alive" /\ leader'[r] = "alive"
         => leader[r] = "none" /\ members[r] = "none"]_vars

(* A running process is stopped for a restart only for a nonce it has not  *)
(* been started with: repeated snapshots restart nothing (main.py:856).    *)
RestartsHaveCause ==
    [][\A r \in Rec :
         p'[r].stopping /\ ~p[r].stopping /\ p[r].desired /\ phase = 0
            => tried[r] # p[r].nonce]_vars

(* When the edits end, the settings are what runs: a running process is    *)
(* wanted, and was started, or refused a restart, with the latest nonce;   *)
(* unless the core has failed for good, or all is shut down.               *)
SettingsTakeEffect ==
    \A s \in Service :
        <>[](\/ p[Core].state \in {"failed", "blocked"} \/ phase # 0
             \/ leader[s] = "none"
             \/ want[s] = "on" /\ tried[s] = nonce[s])

(* A shutdown ends, whatever ignores its SIGTERM, and with NothingLeft.    *)
ShutdownEnds == phase # 0 ~> lpc = "gone"

-----------------------------------------------------------------------------
(* The loop never stops: WF of the pass.  Deadlines pass, what is SIGKILLed *)
(* goes and a core that is up pushes; none of these can go on for ever, so *)
(* that they all happen is SF of any of them, strong as the model lets     *)
(* them happen between the statements of a pass only.                      *)
Progress ==
    \/ Push \/ ElapsePhase
    \/ \E r \in Rec : \/ KilledGo(r)
                       \/ \E timer \in {"stop", "retry", "drain"} : Elapse(r, timer)

Fairness == WF_vars(Pass) /\ SF_vars(Progress)

FairSpec == Spec /\ Fairness

===============================================================================
