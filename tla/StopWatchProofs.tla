--------------------------- MODULE StopWatchProofs ---------------------------
(***************************************************************************)
(* Proofs about StopWatch, for every number of turns.                      *)
(***************************************************************************)
EXTENDS StopWatch, TLAPS

(* Facts about the types that SMT would otherwise look for in every leaf.  *)
LEMMA TurnIsNat == \A t \in Turn : t \in Nat /\ t \in 1..MaxTurn /\ t \in 0..MaxTurn
BY StopWatchAssumption DEF Turn

LEMMA InvInit == Init => IndInv
<1> SUFFICES ASSUME Init PROVE IndInv
  OBVIOUS
<1>1. TypeOK
  <2>1. 1 \in Turn /\ 0 \in 0..MaxTurn
    BY StopWatchAssumption DEF Turn
  <2>2. handler \in 0..MaxTurn /\ previous \in [Turn -> 0..MaxTurn]
    BY <2>1 DEF Init
  <2> QED BY <2>1, <2>2 DEF Init, TypeOK
<1>2. WatchInv /\ OpenInv /\ SignalInv /\ StopInv /\ StopIsOwn /\ NoLostRequest
  BY StopWatchAssumption
     DEF Init, WatchInv, OpenInv, SignalInv, StopInv, StopIsOwn, NoLostRequest,
         InWatch, InCall, Turn
<1> QED BY <1>1, <1>2 DEF IndInv

LEMMA TypeStep == TypeOK /\ [Next]_vars => TypeOK'
<1> SUFFICES ASSUME TypeOK, [Next]_vars PROVE TypeOK'
  OBVIOUS
<1> USE StopWatchAssumption, TurnIsNat DEF TypeOK, Put
<1>1. CASE RequestStop
  BY <1>1 DEF RequestStop
<1>2. CASE Sigterm
  BY <1>2 DEF Sigterm, Raise, Thrown
<1>3. CASE Answer
  BY <1>3 DEF Answer, Raise
<1>4. CASE Enter
  BY <1>4 DEF Enter
<1>5. CASE OpenWindow
  BY <1>5 DEF OpenWindow, Raise
<1>6. CASE CloseWindow
  BY <1>6 DEF CloseWindow
<1>7. CASE Work
  BY <1>7 DEF Work, Raise
<1>8. CASE Check
  BY <1>8 DEF Check, Raise
<1>9. CASE ExitClose
  BY <1>9 DEF ExitClose
<1>10. CASE ExitHalt
  BY <1>10 DEF ExitHalt
<1>11. CASE ExitJoin
  BY <1>11 DEF ExitJoin
<1>12. CASE ExitRestore
  BY <1>12 DEF ExitRestore
<1>13. CASE Settle
  BY <1>13 DEF Settle, Turn
<1>14. CASE OnSignal
  BY <1>14 DEF OnSignal, Raise, Thrown
<1>15. ASSUME NEW t \in Turn, Poll(t) PROVE TypeOK'
  BY <1>15 DEF Poll, Goto
<1>16. ASSUME NEW t \in Turn, Probe(t) PROVE TypeOK'
  BY <1>16 DEF Probe, Goto
<1>17. ASSUME NEW t \in Turn, ProbeFails(t) PROVE TypeOK'
  BY <1>17 DEF ProbeFails, Goto
<1>18. ASSUME NEW t \in Turn, Observe(t) PROVE TypeOK'
  BY <1>18 DEF Observe, Goto
<1>19. ASSUME NEW t \in Turn, Signal(t) PROVE TypeOK'
  BY <1>19 DEF Signal, Goto
<1>20. CASE UNCHANGED vars
  BY <1>20 DEF vars
<1> QED
  BY <1>1, <1>2, <1>3, <1>4, <1>5, <1>6, <1>7, <1>8, <1>9, <1>10, <1>11, <1>12,
     <1>13, <1>14, <1>15, <1>16, <1>17, <1>18, <1>19, <1>20
  DEF Next, Main, Watcher

LEMMA InvStep == IndInv /\ [Next]_vars => IndInv'
<1> SUFFICES ASSUME IndInv, [Next]_vars PROVE IndInv'
  OBVIOUS
<1> USE StopWatchAssumption, TurnIsNat
<1> USE DEF IndInv, TypeOK, Put, Goto
<1>0. TypeOK'
  BY TypeStep
<1>1. CASE RequestStop
  <2>1. WatchInv'
    BY <1>0, <1>1 DEF RequestStop, WatchInv
  <2>2. OpenInv'
    BY <1>0, <1>1 DEF RequestStop, OpenInv, InCall, InWatch
  <2>3. SignalInv'
    BY <1>0, <1>1 DEF RequestStop, SignalInv, InCall, InWatch
  <2>4. StopInv'
    BY <1>0, <1>1 DEF RequestStop, StopInv
  <2>5. StopIsOwn'
    BY <1>0, <1>1 DEF RequestStop, StopIsOwn
  <2>6. NoLostRequest'
    BY <1>0, <1>1 DEF RequestStop, NoLostRequest
  <2> QED BY <1>0, <2>1, <2>2, <2>3, <2>4, <2>5, <2>6
<1>2. CASE Sigterm
  <2>1. WatchInv'
    BY <1>0, <1>2 DEF Sigterm, Raise, Thrown, WatchInv
  <2>2. OpenInv'
    BY <1>0, <1>2 DEF Sigterm, Raise, Thrown, OpenInv, InCall, InWatch
  <2>3. SignalInv'
    BY <1>0, <1>2 DEF Sigterm, Raise, Thrown, SignalInv, InCall, InWatch
  <2>4. StopInv'
    BY <1>0, <1>2 DEF Sigterm, Raise, Thrown, StopInv
  <2>5. StopIsOwn'
    BY <1>0, <1>2 DEF Sigterm, Raise, Thrown, StopIsOwn
  <2>6. NoLostRequest'
    BY <1>0, <1>2 DEF Sigterm, Raise, Thrown, NoLostRequest
  <2> QED BY <1>0, <2>1, <2>2, <2>3, <2>4, <2>5, <2>6
<1>3. CASE Answer
  <2>1. WatchInv'
    BY <1>0, <1>3 DEF Answer, Raise, WatchInv
  <2>2. OpenInv'
    BY <1>0, <1>3 DEF Answer, Raise, OpenInv, InCall, InWatch
  <2>3. SignalInv'
    BY <1>0, <1>3 DEF Answer, Raise, SignalInv, InCall, InWatch
  <2>4. StopInv'
    BY <1>0, <1>3 DEF Answer, Raise, StopInv
  <2>5. StopIsOwn'
    BY <1>0, <1>3 DEF Answer, Raise, StopIsOwn
  <2>6. NoLostRequest'
    BY <1>0, <1>3 DEF Answer, Raise, NoLostRequest, WatchInv, OpenInv, InCall,
      InWatch
  <2> QED BY <1>0, <2>1, <2>2, <2>3, <2>4, <2>5, <2>6
<1>4. CASE Enter
  <2>1. WatchInv'
    BY <1>0, <1>4 DEF Enter, WatchInv
  <2>2. OpenInv'
    BY <1>0, <1>4 DEF Enter, OpenInv, WatchInv, InCall, InWatch
  <2>3. SignalInv'
    BY <1>0, <1>4 DEF Enter, SignalInv, InCall, InWatch
  <2>4. StopInv'
    BY <1>0, <1>4 DEF Enter, StopInv
  <2>5. StopIsOwn'
    BY <1>0, <1>4 DEF Enter, StopIsOwn
  <2>6. NoLostRequest'
    BY <1>0, <1>4 DEF Enter, NoLostRequest
  <2> QED BY <1>0, <2>1, <2>2, <2>3, <2>4, <2>5, <2>6
<1>5. CASE OpenWindow
  <2>1. WatchInv'
    BY <1>0, <1>5 DEF OpenWindow, Raise, WatchInv
  <2>2. OpenInv'
    BY <1>0, <1>5 DEF OpenWindow, Raise, OpenInv, InCall, InWatch
  <2>3. SignalInv'
    BY <1>0, <1>5 DEF OpenWindow, Raise, SignalInv, InCall, InWatch
  <2>4. StopInv'
    BY <1>0, <1>5 DEF OpenWindow, Raise, StopInv, WatchInv
  <2>5. StopIsOwn'
    BY <1>0, <1>5 DEF OpenWindow, Raise, StopIsOwn
  <2>6. NoLostRequest'
    BY <1>0, <1>5 DEF OpenWindow, Raise, NoLostRequest
  <2> QED BY <1>0, <2>1, <2>2, <2>3, <2>4, <2>5, <2>6
<1>6. CASE CloseWindow
  <2>1. WatchInv'
    BY <1>0, <1>6 DEF CloseWindow, WatchInv
  <2>2. OpenInv'
    BY <1>0, <1>6 DEF CloseWindow, OpenInv, InCall, InWatch
  <2>3. SignalInv'
    BY <1>0, <1>6 DEF CloseWindow, SignalInv, InCall, InWatch
  <2>4. StopInv'
    BY <1>0, <1>6 DEF CloseWindow, StopInv
  <2>5. StopIsOwn'
    BY <1>0, <1>6 DEF CloseWindow, StopIsOwn
  <2>6. NoLostRequest'
    BY <1>0, <1>6 DEF CloseWindow, NoLostRequest
  <2> QED BY <1>0, <2>1, <2>2, <2>3, <2>4, <2>5, <2>6
<1>7. CASE Work
  <2>1. WatchInv'
    BY <1>0, <1>7 DEF Work, Raise, WatchInv
  <2>2. OpenInv'
    BY <1>0, <1>7 DEF Work, Raise, OpenInv, InCall, InWatch
  <2>3. SignalInv'
    BY <1>0, <1>7 DEF Work, Raise, SignalInv, InCall, InWatch
  <2>4. StopInv'
    BY <1>0, <1>7 DEF Work, Raise, StopInv
  <2>5. StopIsOwn'
    BY <1>0, <1>7 DEF Work, Raise, StopIsOwn
  <2>6. NoLostRequest'
    BY <1>0, <1>7 DEF Work, Raise, NoLostRequest
  <2> QED BY <1>0, <2>1, <2>2, <2>3, <2>4, <2>5, <2>6
<1>8. CASE Check
  <2>1. WatchInv'
    BY <1>0, <1>8 DEF Check, Raise, WatchInv
  <2>2. OpenInv'
    BY <1>0, <1>8 DEF Check, Raise, OpenInv, InCall, InWatch
  <2>3. SignalInv'
    BY <1>0, <1>8 DEF Check, Raise, SignalInv, InCall, InWatch
  <2>4. StopInv'
    BY <1>0, <1>8 DEF Check, Raise, StopInv, WatchInv
  <2>5. StopIsOwn'
    BY <1>0, <1>8 DEF Check, Raise, StopIsOwn
  <2>6. NoLostRequest'
    BY <1>0, <1>8 DEF Check, Raise, NoLostRequest
  <2> QED BY <1>0, <2>1, <2>2, <2>3, <2>4, <2>5, <2>6
<1>9. CASE ExitClose
  <2>1. WatchInv'
    BY <1>0, <1>9 DEF ExitClose, WatchInv
  <2>2. OpenInv'
    BY <1>0, <1>9 DEF ExitClose, OpenInv, InCall, InWatch
  <2>3. SignalInv'
    BY <1>0, <1>9 DEF ExitClose, SignalInv, InCall, InWatch
  <2>4. StopInv'
    BY <1>0, <1>9 DEF ExitClose, StopInv
  <2>5. StopIsOwn'
    BY <1>0, <1>9 DEF ExitClose, StopIsOwn
  <2>6. NoLostRequest'
    BY <1>0, <1>9 DEF ExitClose, NoLostRequest
  <2> QED BY <1>0, <2>1, <2>2, <2>3, <2>4, <2>5, <2>6
<1>10. CASE ExitHalt
  <2>1. WatchInv'
    BY <1>0, <1>10 DEF ExitHalt, WatchInv
  <2>2. OpenInv'
    BY <1>0, <1>10 DEF ExitHalt, OpenInv, InCall, InWatch
  <2>3. SignalInv'
    BY <1>0, <1>10 DEF ExitHalt, SignalInv, InCall, InWatch
  <2>4. StopInv'
    BY <1>0, <1>10 DEF ExitHalt, StopInv
  <2>5. StopIsOwn'
    BY <1>0, <1>10 DEF ExitHalt, StopIsOwn
  <2>6. NoLostRequest'
    BY <1>0, <1>10 DEF ExitHalt, NoLostRequest
  <2> QED BY <1>0, <2>1, <2>2, <2>3, <2>4, <2>5, <2>6
<1>11. CASE ExitJoin
  <2>1. WatchInv'
    BY <1>0, <1>11 DEF ExitJoin, WatchInv
  <2>2. OpenInv'
    BY <1>0, <1>11 DEF ExitJoin, OpenInv, InCall, InWatch
  <2>3. SignalInv'
    BY <1>0, <1>11 DEF ExitJoin, SignalInv, InCall, InWatch
  <2>4. StopInv'
    BY <1>0, <1>11 DEF ExitJoin, StopInv
  <2>5. StopIsOwn'
    BY <1>0, <1>11 DEF ExitJoin, StopIsOwn
  <2>6. NoLostRequest'
    BY <1>0, <1>11 DEF ExitJoin, NoLostRequest
  <2> QED BY <1>0, <2>1, <2>2, <2>3, <2>4, <2>5, <2>6
<1>12. CASE ExitRestore
  <2>1. WatchInv'
    BY <1>0, <1>12 DEF ExitRestore, WatchInv
  <2>2. OpenInv'
    BY <1>0, <1>12 DEF ExitRestore, OpenInv, InCall, InWatch
  <2>3. SignalInv'
    BY <1>0, <1>12 DEF ExitRestore, SignalInv, InCall, InWatch
  <2>4. StopInv'
    BY <1>0, <1>12 DEF ExitRestore, StopInv
  <2>5. StopIsOwn'
    BY <1>0, <1>12 DEF ExitRestore, StopIsOwn
  <2>6. NoLostRequest'
    BY <1>0, <1>12 DEF ExitRestore, NoLostRequest
  <2> QED BY <1>0, <2>1, <2>2, <2>3, <2>4, <2>5, <2>6
<1>13. CASE Settle
  <2>1. WatchInv'
    BY <1>0, <1>13 DEF Settle, WatchInv
  <2>2. OpenInv'
    BY <1>0, <1>13 DEF Settle, OpenInv, WatchInv, InCall, InWatch
  <2>3. SignalInv'
    BY <1>0, <1>13 DEF Settle, SignalInv, WatchInv, InCall, InWatch
  <2>4. StopInv'
    BY <1>0, <1>13 DEF Settle, StopInv, WatchInv, OpenInv, InCall, InWatch
  <2>5. StopIsOwn'
    BY <1>0, <1>13 DEF Settle, StopIsOwn, StopInv
  <2>6. NoLostRequest'
    BY <1>0, <1>13 DEF Settle, NoLostRequest
  <2> QED BY <1>0, <2>1, <2>2, <2>3, <2>4, <2>5, <2>6
<1>14. CASE OnSignal
  <2>1. WatchInv'
    BY <1>0, <1>14 DEF OnSignal, Raise, Thrown, WatchInv
  <2>2. OpenInv'
    BY <1>0, <1>14 DEF OnSignal, Raise, Thrown, OpenInv, SignalInv, InCall,
      InWatch
  <2>3. SignalInv'
    BY <1>0, <1>14 DEF OnSignal, Raise, Thrown, SignalInv, InCall, InWatch
  <2>4. StopInv'
    BY <1>0, <1>14 DEF OnSignal, Raise, Thrown, StopInv, WatchInv, SignalInv,
      InCall, InWatch
  <2>5. StopIsOwn'
    BY <1>0, <1>14 DEF OnSignal, Raise, Thrown, StopIsOwn
  <2>6. NoLostRequest'
    BY <1>0, <1>14 DEF OnSignal, Raise, Thrown, NoLostRequest, OpenInv, InCall,
      InWatch
  <2> QED BY <1>0, <2>1, <2>2, <2>3, <2>4, <2>5, <2>6
<1>15. ASSUME NEW t \in Turn, Poll(t) PROVE IndInv'
  <2>1. WatchInv'
    BY <1>0, <1>15 DEF Poll, WatchInv
  <2>2. OpenInv'
    BY <1>0, <1>15 DEF Poll, OpenInv, InCall, InWatch
  <2>3. SignalInv'
    BY <1>0, <1>15 DEF Poll, SignalInv, InCall, InWatch
  <2>4. StopInv'
    BY <1>0, <1>15 DEF Poll, StopInv
  <2>5. StopIsOwn'
    BY <1>0, <1>15 DEF Poll, StopIsOwn
  <2>6. NoLostRequest'
    BY <1>0, <1>15 DEF Poll, NoLostRequest
  <2> QED BY <1>0, <2>1, <2>2, <2>3, <2>4, <2>5, <2>6
<1>16. ASSUME NEW t \in Turn, Probe(t) PROVE IndInv'
  <2>1. WatchInv'
    BY <1>0, <1>16 DEF Probe, WatchInv
  <2>2. OpenInv'
    BY <1>0, <1>16 DEF Probe, OpenInv, InCall, InWatch
  <2>3. SignalInv'
    BY <1>0, <1>16 DEF Probe, SignalInv, InCall, InWatch
  <2>4. StopInv'
    BY <1>0, <1>16 DEF Probe, StopInv
  <2>5. StopIsOwn'
    BY <1>0, <1>16 DEF Probe, StopIsOwn
  <2>6. NoLostRequest'
    BY <1>0, <1>16 DEF Probe, NoLostRequest
  <2> QED BY <1>0, <2>1, <2>2, <2>3, <2>4, <2>5, <2>6
<1>17. ASSUME NEW t \in Turn, ProbeFails(t) PROVE IndInv'
  <2>1. WatchInv'
    BY <1>0, <1>17 DEF ProbeFails, WatchInv
  <2>2. OpenInv'
    BY <1>0, <1>17 DEF ProbeFails, OpenInv, InCall, InWatch
  <2>3. SignalInv'
    BY <1>0, <1>17 DEF ProbeFails, SignalInv, InCall, InWatch
  <2>4. StopInv'
    BY <1>0, <1>17 DEF ProbeFails, StopInv
  <2>5. StopIsOwn'
    BY <1>0, <1>17 DEF ProbeFails, StopIsOwn
  <2>6. NoLostRequest'
    BY <1>0, <1>17 DEF ProbeFails, NoLostRequest
  <2> QED BY <1>0, <2>1, <2>2, <2>3, <2>4, <2>5, <2>6
<1>18. ASSUME NEW t \in Turn, Observe(t) PROVE IndInv'
  <2>1. WatchInv'
    BY <1>0, <1>18 DEF Observe, WatchInv
  <2>2. OpenInv'
    BY <1>0, <1>18 DEF Observe, OpenInv, InCall, InWatch
  <2>3. SignalInv'
    BY <1>0, <1>18 DEF Observe, SignalInv, InCall, InWatch
  <2>4. StopInv'
    BY <1>0, <1>18 DEF Observe, StopInv
  <2>5. StopIsOwn'
    BY <1>0, <1>18 DEF Observe, StopIsOwn, SignalInv, InCall, InWatch
  <2>6. NoLostRequest'
    BY <1>0, <1>18 DEF Observe, NoLostRequest, StopInv
  <2> QED BY <1>0, <2>1, <2>2, <2>3, <2>4, <2>5, <2>6
<1>19. ASSUME NEW t \in Turn, Signal(t) PROVE IndInv'
  <2>1. WatchInv'
    BY <1>0, <1>19 DEF Signal, WatchInv, SignalInv, InCall, InWatch
  <2>2. OpenInv'
    BY <1>0, <1>19 DEF Signal, OpenInv, InCall, InWatch
  <2>3. SignalInv'
    BY <1>0, <1>19 DEF Signal, SignalInv, WatchInv, OpenInv, InCall, InWatch
  <2>4. StopInv'
    BY <1>0, <1>19 DEF Signal, StopInv
  <2>5. StopIsOwn'
    BY <1>0, <1>19 DEF Signal, StopIsOwn, WatchInv
  <2>6. NoLostRequest'
    BY <1>0, <1>19 DEF Signal, NoLostRequest, WatchInv, OpenInv, InCall,
      InWatch
  <2> QED BY <1>0, <2>1, <2>2, <2>3, <2>4, <2>5, <2>6
<1>20. CASE UNCHANGED vars
  BY <1>0, <1>20 DEF vars, WatchInv, OpenInv, SignalInv, StopInv,
     StopIsOwn, NoLostRequest, InCall, InWatch
<1> QED BY <1>1, <1>2, <1>3, <1>4, <1>5, <1>6, <1>7, <1>8, <1>9, <1>10, <1>11,
          <1>12, <1>13, <1>14, <1>15, <1>16, <1>17, <1>18, <1>19, <1>20
  DEF Next, Main, Watcher

(* The inductive invariant of the watch, for every number of turns.        *)
THEOREM WatchInvariant == Spec => []IndInv
BY InvInit, InvStep, PTL DEF Spec

(* A stop never leaks into a turn nobody asked to stop (agents/turn_stop.py *)
(* and the per-row flag of db/queue.py).                                   *)
THEOREM StopsAreOwn == Spec => []StopIsOwn
<1>1. IndInv => StopIsOwn
  BY DEF IndInv
<1> QED BY <1>1, WatchInvariant, PTL

(* No SIGUSR1 is under way while the default action is installed.          *)
THEOREM DefaultActionUnreached == Spec => []NeverDefaultAction
<1>1. IndInv => NeverDefaultAction
  BY DEF IndInv, SignalInv, NeverDefaultAction
<1> QED BY <1>1, WatchInvariant, PTL

(* A read is never left waiting with the request observed and no signal    *)
(* coming: the lock of interruptible() closes the gap.                     *)
THEOREM RequestsAreNotLost == Spec => []NoLostRequest
<1>1. IndInv => NoLostRequest
  BY DEF IndInv
<1> QED BY <1>1, WatchInvariant, PTL

(* The handler raises around the network calls of the flagged turn only,   *)
(* never inside a commit or the teardown.                                  *)
THEOREM RaisesAroundCalls == Spec => RaisesAtCallsOnly
<1> DEFINE Raises == sig /\ ~sig' /\ raised' = "stop" /\ raised # "stop"
           AtCall == main \in {"read", "leave", "exit"} /\ flag[turn]
<1>1. IndInv /\ [Next]_vars => [Raises => AtCall]_vars
  <2> SUFFICES ASSUME IndInv, Next, Raises PROVE AtCall
    BY DEF vars
  <2>1. OnSignal /\ open[handler]
    BY DEF Next, Main, Watcher, RequestStop, Sigterm, Answer, Enter, OpenWindow,
           CloseWindow, Work, Check, ExitClose, ExitHalt, ExitJoin, ExitRestore,
           Settle, OnSignal, Poll, Probe, ProbeFails, Observe, Signal, Raise
  <2>2. handler = turn /\ turn \in Turn /\ flag[turn]
    BY <2>1 DEF IndInv, TypeOK, SignalInv, WatchInv
  <2> QED BY <2>1, <2>2 DEF IndInv, OpenInv, OnSignal, InCall
<1> QED BY <1>1, WatchInvariant, PTL DEF Spec, RaisesAtCallsOnly

===============================================================================
