------------------------------ MODULE StopWatch ------------------------------
(***************************************************************************)
(* How a worker abandons a model call the operator wants stopped:          *)
(* agents/turn_stop.py, driven as _stream_reply of agents/direct_chat.py   *)
(* drives it.                                                              *)
(*                                                                         *)
(* A worker runs turn after turn.  Each has a watch of its own: a lock, an *)
(* event, an "interruptible" flag, and a watcher thread that polls the     *)
(* turn's journal row and sends SIGUSR1 to the main thread.  A Python      *)
(* signal handler runs in the main thread some time after the signal was   *)
(* sent, between any two of its statements.                                *)
(***************************************************************************)
EXTENDS Naturals

CONSTANT MaxTurn   \* bound: the turns a worker takes before its inbox is empty

ASSUME StopWatchAssumption == MaxTurn \in Nat \ {0}

VARIABLES
    turn,      \* the turn the main thread is on
    flag,      \* journal.stop_requested_at is set, per turn
    event,     \* the turn's watch has observed it
    halt,      \* the turn's watcher is told to exit
    open,      \* _interruptible
    lock,      \* who holds the watch's lock: "free" or "watcher"
    watcher,   \* the statement of _watch
    main,      \* the statement of _stream_reply / interruptible / __exit__
    raised,    \* the exception in flight in the main thread
    sig,       \* a SIGUSR1 sent and not yet handled
    handler,   \* whose _on_signal is installed; 0 for the default action
    previous,  \* the handler each turn's watch found, to be put back
    outcome    \* how each turn ended

vars == <<turn, flag, event, halt, open, lock, watcher, main, raised, sig,
          handler, previous, outcome>>

Turn == 1..MaxTurn

TypeOK ==
    /\ turn \in Turn
    /\ flag \in [Turn -> BOOLEAN]
    /\ event \in [Turn -> BOOLEAN]
    /\ halt \in [Turn -> BOOLEAN]
    /\ open \in [Turn -> BOOLEAN]
    /\ lock \in [Turn -> {"free", "watcher"}]
    /\ watcher \in [Turn -> {"none", "wait", "probe", "hit", "signal", "done"}]
    /\ main \in {"start", "enter", "read", "leave", "work", "check", "exit",
                 "halt", "join", "restore", "settle", "gone"}
    /\ raised \in {"none", "end", "stop", "error", "term"}
    /\ sig \in BOOLEAN
    /\ handler \in 0..MaxTurn
    /\ previous \in [Turn -> 0..MaxTurn]
    /\ outcome \in [Turn -> {"none", "completed", "failed", "stopped", "term"}]

Init ==
    /\ turn = 1
    /\ flag = [t \in Turn |-> FALSE]
    /\ event = [t \in Turn |-> FALSE]
    /\ halt = [t \in Turn |-> FALSE]
    /\ open = [t \in Turn |-> FALSE]
    /\ lock = [t \in Turn |-> "free"]
    /\ watcher = [t \in Turn |-> "none"]
    /\ main = "start"
    /\ raised = "none"
    /\ sig = FALSE
    /\ handler = 0
    /\ previous = [t \in Turn |-> 0]
    /\ outcome = [t \in Turn |-> "none"]

Put(f, v) == [f EXCEPT ![turn] = v]

-----------------------------------------------------------------------------
(* The operator: cancel_room_turns flags a journal row still 'processing'. *)
RequestStop ==
    /\ outcome[turn] = "none" /\ ~flag[turn]
    /\ flag' = Put(flag, TRUE)
    /\ UNCHANGED <<turn, event, halt, open, lock, watcher, main, raised, sig,
                   handler, previous, outcome>>

-----------------------------------------------------------------------------
(***************************************************************************)
(* The main thread.                                                        *)
(***************************************************************************)
(* StopWatch.__enter__: our handler, then the thread.                      *)
Enter ==
    /\ main = "start"
    /\ previous' = Put(previous, handler)
    /\ handler' = turn
    /\ watcher' = Put(watcher, "wait")
    /\ main' = "enter"
    /\ UNCHANGED <<turn, flag, event, halt, open, lock, raised, sig, outcome>>

Raise(e, next) == raised' = e /\ main' = next

(* Mutant: the event is not looked at under the lock.                      *)
OpenWindowBlindly ==
    /\ main = "enter" /\ lock[turn] = "free"
    /\ open' = Put(open, TRUE) /\ main' = "read" /\ UNCHANGED raised
    /\ UNCHANGED <<turn, flag, event, halt, lock, watcher, sig, handler, previous, outcome>>

(* interruptible() is entered: check and set under the watch's lock.       *)
OpenWindow ==
    /\ main = "enter" /\ lock[turn] = "free"
    /\ \/ event[turn] /\ Raise("stop", "exit") /\ UNCHANGED open
       \/ /\ ~event[turn]
          /\ open' = Put(open, TRUE) /\ main' = "read" /\ UNCHANGED raised
    /\ UNCHANGED <<turn, flag, event, halt, lock, watcher, sig, handler, previous, outcome>>

(* The network answers: a chunk, the end of the stream, or an error.  It   *)
(* need not: a cold model may send nothing for as long as it likes.        *)
Answer ==
    /\ main = "read"
    /\ \E e \in {"none", "end", "error"} : Raise(e, "leave")
    /\ UNCHANGED <<turn, flag, event, halt, open, lock, watcher, sig, handler,
                   previous, outcome>>

(* The window's finally.                                                   *)
CloseWindow ==
    /\ main = "leave" /\ lock[turn] = "free"
    /\ open' = Put(open, FALSE)
    /\ main' = IF raised = "none" THEN "work" ELSE "exit"
    /\ UNCHANGED <<turn, flag, event, halt, lock, watcher, raised, sig,
                   handler, previous, outcome>>

(* The chunk goes to the room's rows, with a commit now and then; the      *)
(* deadline or the database may raise here.                                *)
Work ==
    /\ main = "work"
    /\ \/ main' = "check" /\ UNCHANGED raised
       \/ Raise("error", "exit")
    /\ UNCHANGED <<turn, flag, event, halt, open, lock, watcher, sig, handler,
                   previous, outcome>>

(* raise_if_requested, the safe point; it takes no lock.                   *)
Check ==
    /\ main = "check"
    /\ \/ event[turn] /\ Raise("stop", "exit")
       \/ ~event[turn] /\ main' = "enter" /\ UNCHANGED raised
    /\ UNCHANGED <<turn, flag, event, halt, open, lock, watcher, sig, handler,
                   previous, outcome>>

(* Mutant: __exit__ does not clear the flag.                               *)
ExitOpen ==
    /\ main = "exit" /\ lock[turn] = "free"
    /\ main' = "halt"
    /\ UNCHANGED <<turn, flag, event, halt, open, lock, watcher, raised, sig,
                   handler, previous, outcome>>

(* StopWatch.__exit__: no more raising, ...                                *)
ExitClose ==
    /\ main = "exit" /\ lock[turn] = "free"
    /\ open' = Put(open, FALSE)
    /\ main' = "halt"
    /\ UNCHANGED <<turn, flag, event, halt, lock, watcher, raised, sig,
                   handler, previous, outcome>>

(* ... the thread told to stop, ...                                        *)
ExitHalt ==
    /\ main = "halt"
    /\ halt' = Put(halt, TRUE)
    /\ main' = "join"
    /\ UNCHANGED <<turn, flag, event, open, lock, watcher, raised, sig,
                   handler, previous, outcome>>

(* ... and joined, for five seconds at most: the join may time out with    *)
(* the watcher anywhere, ...                                               *)
ExitJoin ==
    /\ main = "join"
    /\ main' = "restore"
    /\ UNCHANGED <<turn, flag, event, halt, open, lock, watcher, raised, sig,
                   handler, previous, outcome>>

(* ... then the old handler; signal.signal first runs the handlers of      *)
(* signals that have arrived.                                              *)
ExitRestore ==
    /\ main = "restore" /\ ~sig
    /\ handler' = previous[turn]
    /\ main' = "settle"
    /\ UNCHANGED <<turn, flag, event, halt, open, lock, watcher, raised, sig,
                   previous, outcome>>

(* Mutant: the SIGTERM's exception is caught like any other.               *)
SettleSwallows ==
    /\ main = "settle"
    /\ outcome' = Put(outcome, CASE raised = "end"  -> "completed"
                                 [] raised = "stop" -> "stopped"
                                 [] OTHER           -> "failed")
    /\ raised' = "none"
    /\ IF turn = MaxTurn
       THEN main' = "gone" /\ UNCHANGED turn
       ELSE main' = "start" /\ turn' = turn + 1
    /\ UNCHANGED <<flag, event, halt, open, lock, watcher, sig, handler,
                   previous>>

(* The except clauses of _stream_reply and of Agent.run: what is in flight *)
(* decides the journal state, and the worker takes its next item.          *)
Settle ==
    /\ main = "settle"
    /\ outcome' = Put(outcome, CASE raised = "end"   -> "completed"
                                 [] raised = "error" -> "failed"
                                 [] raised = "stop"  -> "stopped"
                                 [] OTHER            -> "term")
    /\ raised' = "none"
    /\ IF raised = "term" \/ turn = MaxTurn
       THEN main' = "gone" /\ UNCHANGED turn
       ELSE main' = "start" /\ turn' = turn + 1
    /\ UNCHANGED <<flag, event, halt, open, lock, watcher, sig, handler,
                   previous>>

-----------------------------------------------------------------------------
(***************************************************************************)
(* The watcher threads; one a join gave up on lives on into later turns.   *)
(***************************************************************************)
Goto(t, s) == watcher' = [watcher EXCEPT ![t] = s]

(* halt.wait(0.5): told to exit, or time to look again.                    *)
Poll(t) ==
    /\ watcher[t] = "wait" /\ main # "gone"
    /\ IF halt[t] THEN Goto(t, "done") ELSE Goto(t, "probe")
    /\ UNCHANGED <<turn, flag, event, halt, open, lock, main, raised, sig,
                   handler, previous, outcome>>

(* The probe reads stop_requested_at on a session of its own.              *)
Probe(t) ==
    /\ watcher[t] = "probe" /\ main # "gone"
    /\ IF flag[t] THEN Goto(t, "hit") ELSE Goto(t, "wait")
    /\ UNCHANGED <<turn, flag, event, halt, open, lock, main, raised, sig,
                   handler, previous, outcome>>

(* A failed probe is logged and tried again.                               *)
ProbeFails(t) ==
    /\ watcher[t] = "probe" /\ main # "gone"
    /\ Goto(t, "wait")
    /\ UNCHANGED <<turn, flag, event, halt, open, lock, main, raised, sig,
                   handler, previous, outcome>>

Observe(t) ==
    /\ watcher[t] = "hit" /\ lock[t] = "free" /\ main # "gone"
    /\ lock' = [lock EXCEPT ![t] = "watcher"]
    /\ event' = [event EXCEPT ![t] = TRUE]
    /\ Goto(t, "signal")
    /\ UNCHANGED <<turn, flag, halt, open, main, raised, sig, handler, previous, outcome>>

(* Mutant: the signal is sent whether or not the window is open.           *)
SignalAnyway(t) ==
    /\ watcher[t] = "signal" /\ main # "gone"
    /\ sig' = TRUE
    /\ lock' = [lock EXCEPT ![t] = "free"]
    /\ Goto(t, "done")
    /\ UNCHANGED <<turn, flag, event, halt, open, main, raised, handler, previous, outcome>>

(* pthread_kill if the window is open, and the lock is given back.         *)
Signal(t) ==
    /\ watcher[t] = "signal" /\ main # "gone"
    /\ sig' = (sig \/ open[t])
    /\ lock' = [lock EXCEPT ![t] = "free"]
    /\ Goto(t, "done")
    /\ UNCHANGED <<turn, flag, event, halt, open, main, raised, handler, previous, outcome>>

-----------------------------------------------------------------------------
(***************************************************************************)
(* Signals in the main thread.                                             *)
(***************************************************************************)
(* Where an exception out of a handler leads: a read goes to its window's  *)
(* finally; a finally without the lock yet is abandoned, flag and all; and *)
(* so is an __exit__, its thread and handler left as they are.             *)
Thrown == CASE main = "read" -> "leave"
            [] main = "exit" -> "settle"
            [] OTHER         -> "exit"

(* Mutant: the handler raises wherever the main thread is.                 *)
OnSignalAnywhere ==
    /\ sig /\ handler # 0 /\ main # "gone"
    /\ sig' = FALSE
    /\ Raise("stop", Thrown)
    /\ UNCHANGED <<turn, flag, event, halt, open, lock, watcher, handler, previous, outcome>>

(* _on_signal: raise inside a window, do nothing outside.                  *)
OnSignal ==
    /\ sig /\ handler # 0 /\ main # "gone"
    /\ sig' = FALSE
    /\ IF open[handler] THEN Raise("stop", Thrown) ELSE UNCHANGED <<main, raised>>
    /\ UNCHANGED <<turn, flag, event, halt, open, lock, watcher, handler, previous, outcome>>

(* The supervisor's SIGTERM raises at once, wherever that is: in a window  *)
(* not yet open (the flag just set or not), in one, or between two.  One   *)
(* that strikes the teardown or the settling ends the process.             *)
Sigterm ==
    /\ main \notin {"start", "gone"} /\ raised # "term"
    /\ IF main \in {"enter", "read", "leave", "work", "check"}
       THEN /\ Raise("term", Thrown)
            /\ \/ UNCHANGED open
               \/ /\ main = "enter" /\ lock[turn] = "free" /\ ~event[turn]
                  /\ open' = Put(open, TRUE)
       ELSE Raise("term", "gone") /\ UNCHANGED open
    /\ UNCHANGED <<turn, flag, event, halt, lock, watcher, sig, handler, previous, outcome>>

-----------------------------------------------------------------------------
Main ==
    \/ Enter \/ OpenWindow \/ CloseWindow \/ Work \/ Check
    \/ ExitClose \/ ExitHalt \/ ExitJoin \/ ExitRestore \/ Settle
    \/ OnSignal

Watcher(t) == Poll(t) \/ Probe(t) \/ Observe(t) \/ Signal(t)

Next ==
    \/ RequestStop \/ Sigterm \/ Answer \/ Main
    \/ \E t \in Turn : Watcher(t) \/ ProbeFails(t)

Spec == Init /\ [][Next]_vars

(* Both threads run; nothing makes the network answer, and a probe may     *)
(* fail now and then but not for ever.                                     *)
Fairness ==
    /\ WF_vars(Main)
    /\ WF_vars(OnSignal)
    /\ \A t \in Turn : WF_vars(Watcher(t)) /\ SF_vars(Probe(t))

FairSpec == Spec /\ Fairness

-----------------------------------------------------------------------------
(***************************************************************************)
(* Why the properties hold.                                                *)
(***************************************************************************)
InCall   == {"read", "leave", "exit"}
InWatch  == InCall \cup {"enter", "work", "check", "halt", "join", "restore"}

(* A turn not begun has no watcher and no request; a request is observed   *)
(* only where there is one; the lock is the watcher's while it signals.    *)
WatchInv ==
    \A t \in Turn :
        /\ t > turn \/ (t = turn /\ main = "start") => watcher[t] = "none"
        /\ t > turn => ~flag[t] /\ outcome[t] = "none"
        /\ event[t] => flag[t] /\ watcher[t] \in {"signal", "done"}
        /\ watcher[t] \in {"hit", "signal"} => flag[t]
        /\ watcher[t] = "signal" => event[t]
        /\ lock[t] = "watcher" <=> watcher[t] = "signal"

(* Our handler is installed from __enter__ to the end of __exit__; a flag  *)
(* still up outside a call belongs to a watcher that is done signalling.   *)
OpenInv ==
    /\ main \in InWatch => handler = turn
    /\ main = "read" => open[turn]
    /\ \A t \in Turn : open[t] =>
          \/ t = turn /\ main \in InCall
          \/ watcher[t] = "done" /\ (t = turn => ~sig)
          \/ main = "gone"

(* A signal on its way was sent by this turn's watcher, its last act.      *)
SignalInv ==
    sig => /\ main \in (InWatch \ {"enter"}) \cup {"gone"}
           /\ handler = turn
           /\ event[turn] /\ watcher[turn] = "done"

StopInv == raised = "stop" => flag[turn]

(***************************************************************************)
(* Properties.                                                             *)
(***************************************************************************)
(* A stop is raised by the handler only around a network call or, with the *)
(* window's finally cut short, before __exit__ has cleared the flag: never *)
(* in the work between two reads (a database commit), never in the         *)
(* teardown, never in another turn.                                        *)
RaisesAtCallsOnly ==
    [][sig /\ ~sig' /\ raised' = "stop" /\ raised # "stop"
         => main \in {"read", "leave", "exit"} /\ flag[turn]]_vars

(* A SIGUSR1 never meets the default action, which would terminate the     *)
(* process: while one is on its way the turn's handler is installed,       *)
(* although the join that precedes its removal may have timed out.         *)
NeverDefaultAction == sig => handler = turn

(* A turn ends stopped only if the operator asked for that very turn: no   *)
(* stop leaks into the next one, not even from a watcher that outlived its *)
(* turn.                                                                   *)
StopIsOwn == \A t \in Turn : outcome[t] = "stopped" => flag[t]

(* A request cannot fall between the check and the read: while the main    *)
(* thread waits for the network with the request observed, the signal that *)
(* ends the wait is on its way or about to be sent.                        *)
NoLostRequest ==
    main = "read" /\ event[turn] => sig \/ watcher[turn] = "signal"

(* The inductive invariant.                                                *)
IndInv == TypeOK /\ WatchInv /\ OpenInv /\ SignalInv /\ StopInv
          /\ StopIsOwn /\ NoLostRequest

(* SIGTERM ends the worker; only a stop of the very turn it strikes may    *)
(* take its place, after which the supervisor's SIGKILL has to.            *)
TermIsHonoured ==
    \A t \in Turn : raised = "term" /\ turn = t ~> main = "gone" \/ flag[t]

(* A stop requested while the worker is still streaming ends the turn,     *)
(* even if the server never sends another byte.                            *)
StopTakesEffect ==
    \A t \in Turn : flag[t] /\ turn = t ~> outcome[t] # "none" \/ main = "gone"

===============================================================================
