--------------------------- MODULE SupervisorProofs ---------------------------
(***************************************************************************)
(* What the supervisor guarantees for any number of roles, processes,      *)
(* rows, faults and restarts.                                              *)
(***************************************************************************)
EXTENDS Supervisor, QueueProofs

(***************************************************************************)
(* Type correctness, one part of the state at a time.                      *)
(***************************************************************************)
LEMMA TypeInit == Init => TypeOK
<1> SUFFICES ASSUME Init PROVE TypeOK
  OBVIOUS
<1>1. QueueTypeOK
  BY QueueInitType DEF Init
<1>2. WorkerTypeOK
  BY QueueAssumption DEF Init, WorkerTypeOK, Gone, Holding, NoJob, NoMail
<1>3. SlotTypeOK
  BY QueueAssumption DEF Init, SlotTypeOK, NoJob
<1>4. PassTypeOK
  BY QueueAssumption DEF Init, PassTypeOK, NoJob
<1>5. RunTypeOK
  BY DEF Init, RunTypeOK
<1>6. BoundTypeOK
  BY SupervisorAssumption DEF Init, BoundTypeOK
<1> QED BY <1>1, <1>2, <1>3, <1>4, <1>5, <1>6 DEF TypeOK

(* What a step leaves alone stays well typed.                              *)
LEMMA Frame ==
    /\ QueueTypeOK /\ UNCHANGED queueVars => QueueTypeOK'
    /\ WorkerTypeOK /\ UNCHANGED workerVars /\ UNCHANGED mail => WorkerTypeOK'
    /\ SlotTypeOK /\ UNCHANGED slotVars => SlotTypeOK'
    /\ PassTypeOK /\ UNCHANGED passVars /\ UNCHANGED recVars => PassTypeOK'
    /\ RunTypeOK /\ UNCHANGED runVars => RunTypeOK'
    /\ BoundTypeOK /\ UNCHANGED boundVars => BoundTypeOK'
<1>1. WorkerTypeOK /\ UNCHANGED workerVars /\ UNCHANGED mail => WorkerTypeOK'
  BY DEF WorkerTypeOK, workerVars
<1>2. SlotTypeOK /\ UNCHANGED slotVars => SlotTypeOK'
  BY DEF SlotTypeOK, slotVars
<1>3. PassTypeOK /\ UNCHANGED passVars /\ UNCHANGED recVars => PassTypeOK'
  BY DEF PassTypeOK, passVars, recVars
<1>4. RunTypeOK /\ UNCHANGED runVars => RunTypeOK'
  BY DEF RunTypeOK, runVars
<1>5. BoundTypeOK /\ UNCHANGED boundVars => BoundTypeOK'
  BY DEF BoundTypeOK, boundVars
<1> QED BY <1>1, <1>2, <1>3, <1>4, <1>5, QueueFrame

(* A worker moves on to a statement that needs nothing new in hand.        *)
LEMMA GotoType ==
    ASSUME WorkerTypeOK, NEW p \in Pid, NEW pc, Goto(p, pc),
           UNCHANGED <<wrow, wjid, mail>>,
           pc \in Gone \cup Holding \cup {"poll", "exiting"},
           pc \in Holding => wpc[p] \in Holding \cup {"picked"}
    PROVE  WorkerTypeOK'
<1>1. wpc' \in [Pid -> Gone \cup Holding \cup {"poll", "picked", "exiting"}]
  BY DEF WorkerTypeOK, Goto
<1>2. ASSUME NEW q \in Pid, wpc'[q] \in Holding \cup {"picked"}
      PROVE  wrow'[q] \in RowId
  BY <1>2 DEF WorkerTypeOK, Goto, Gone, Holding
<1> QED BY <1>1, <1>2 DEF WorkerTypeOK

LEMMA VanishType ==
    ASSUME WorkerTypeOK, NEW p \in Pid, Vanish(p), UNCHANGED mail
    PROVE  WorkerTypeOK'
<1>1. wpc' \in [Pid -> Gone \cup Holding \cup {"poll", "picked", "exiting"}]
  BY DEF WorkerTypeOK, Vanish, Goto, Gone
<1>2. wrow' \in [Pid -> 0..MaxRows] /\ wjid' \in [Pid -> 0..MaxJournal]
  BY QueueAssumption DEF WorkerTypeOK, Vanish, NoJob
<1>3. ASSUME NEW q \in Pid, wpc'[q] \in Holding \cup {"picked"}
      PROVE  wrow'[q] \in RowId
  BY <1>3 DEF WorkerTypeOK, Vanish, Goto, Gone, Holding
<1> QED BY <1>1, <1>2, <1>3 DEF WorkerTypeOK

LEMMA EmitType ==
    ASSUME WorkerTypeOK, NEW p \in Pid, NEW pc \in Holding \cup {"poll"},
           NEW row \in 0..MaxRows, NEW job \in 0..MaxJournal,
           pc \in Holding => row \in RowId,
           Emit(p, pc, row, job)
    PROVE  WorkerTypeOK'
<1>1. CASE ~HasPeer(p)
  BY <1>1, VanishType DEF Emit
<1>2. CASE HasPeer(p)
  <2>1. wpc' \in [Pid -> Gone \cup Holding \cup {"poll", "picked", "exiting"}]
    BY <1>2 DEF WorkerTypeOK, Emit, Goto
  <2>2. /\ wrow' \in [Pid -> 0..MaxRows]
        /\ wjid' \in [Pid -> 0..MaxJournal]
        /\ mail' \in [Pid -> 0..NoMail]
    BY <1>2, QueueAssumption DEF WorkerTypeOK, Emit, NoMail
  <2>3. ASSUME NEW q \in Pid, wpc'[q] \in Holding \cup {"picked"}
        PROVE  wrow'[q] \in RowId
    BY <1>2, <2>3 DEF WorkerTypeOK, Emit, Goto, Holding
  <2> QED BY <2>1, <2>2, <2>3 DEF WorkerTypeOK
<1> QED BY <1>1, <1>2

LEMMA WorkerStepType ==
    ASSUME TypeOK, NEW p \in Pid, Worker(p)
    PROVE  TypeOK'
<1> USE DEF TypeOK
<1>1. CASE Poll(p)
  <2>1. WorkerTypeOK'
    <3>1. CASE Pending(RoleOf[p]) # {}
      <4>1. Oldest(Pending(RoleOf[p])) \in RowId
        BY <3>1, OldestPending DEF QueueTypeOK
      <4>2. /\ wpc' = [wpc EXCEPT ![p] = "picked"]
            /\ wrow' = [wrow EXCEPT ![p] = Oldest(Pending(RoleOf[p]))]
            /\ UNCHANGED <<wjid, mail>>
        BY <1>1, <3>1 DEF Poll, Goto
      <4>3. RowId \subseteq 0..MaxRows
        BY QueueAssumption DEF RowId
      <4> HIDE DEF TypeOK
      <4>4. WorkerTypeOK
        BY DEF TypeOK
      <4> DEFINE i == Oldest(Pending(RoleOf[p]))
      <4>5. i \in RowId /\ i \in 0..MaxRows
        BY <4>1, <4>3
      <4>6. wrow' = [wrow EXCEPT ![p] = i]
        BY <4>2
      <4> HIDE DEF i
      <4> QED BY <4>2, <4>4, <4>5, <4>6 DEF WorkerTypeOK, Holding
    <3>2. CASE Pending(RoleOf[p]) = {}
      BY <1>1, <3>2, GotoType DEF Poll, Holding
    <3> QED BY <3>1, <3>2
  <2> QED BY <1>1, <2>1, Frame DEF Poll
<1>2. CASE Exit(p)
  BY <1>2, VanishType, Frame DEF Exit
<1>3. CASE Take(p)
  <2>1. QueueTypeOK'
    BY <1>3, TakeItemType DEF Take, WorkerTypeOK
  <2>2. WorkerTypeOK'
    <3>1. nextJournal \in 0..MaxJournal
      BY <1>3, QueueAssumption DEF Take, TakeItem, JournalId
    <3> QED BY <1>3, <3>1 DEF Take, Goto, WorkerTypeOK, Holding
  <2> QED BY <1>3, <2>1, <2>2, Frame DEF Take
<1>4. CASE EmitProcessing(p)
  <2>1. wrow[p] \in 0..MaxRows /\ wjid[p] \in 0..MaxJournal /\ wrow[p] \in RowId
    BY <1>4 DEF EmitProcessing, At, WorkerTypeOK, Holding
  <2>2. WorkerTypeOK'
    BY <1>4, <2>1, EmitType DEF EmitProcessing, Holding
  <2> QED BY <1>4, <2>2, Frame DEF EmitProcessing
<1>5. CASE EmitOutcome(p)
  <2>1. 0 \in 0..MaxRows /\ NoJob \in 0..MaxJournal /\ "poll" \notin Holding
    BY QueueAssumption DEF NoJob, Holding
  <2>2. WorkerTypeOK'
    BY <1>5, <2>1, EmitType DEF EmitOutcome
  <2> QED BY <1>5, <2>2, Frame DEF EmitOutcome
<1>6. CASE StartRun(p)
  <2>1. WorkerTypeOK'
    BY <1>6, GotoType DEF StartRun, At, Holding
  <2>2. RunTypeOK'
    BY <1>6 DEF StartRun, RunTypeOK
  <2> QED BY <1>6, <2>1, <2>2, Frame DEF StartRun
<1>7. ASSUME NEW s \in {"finished", "failed"}, FinishRun(p, s)
      PROVE  TypeOK'
  <2>1. WorkerTypeOK'
    BY <1>7, GotoType DEF FinishRun, At, Holding
  <2>2. RunTypeOK'
    BY <1>7 DEF FinishRun, RunTypeOK
  <2> QED BY <1>7, <2>1, <2>2, Frame DEF FinishRun
<1>8. CASE PostFailure(p)
  <2>1. WorkerTypeOK'
    BY <1>8, GotoType DEF PostFailure, At, Holding
  <2>2. RunTypeOK'
    BY <1>8 DEF PostFailure, RunTypeOK
  <2> QED BY <1>8, <2>1, <2>2, Frame DEF PostFailure
<1>9. CASE RequestSummary(p)
  <2>1. WorkerTypeOK'
    BY <1>9, GotoType DEF RequestSummary, At, Holding
  <2>2. SummaryOrder(Summarizer, wjid[p]) \in Row
    BY RowTypes, SupervisorAssumption DEF WorkerTypeOK
  <2>3. QueueTypeOK'
    BY <1>9, <2>2, EnqueueType DEF RequestSummary
  <2> QED BY <1>9, <2>1, <2>3, Frame DEF RequestSummary
<1>10. ASSUME NEW o \in Terminal, Settle(p, o)
       PROVE  TypeOK'
  <2>1. wpc[p] \in Holding
    BY <1>10 DEF Settle, Outcomes, Holding
  <2>2. WorkerTypeOK'
    BY <1>10, <2>1, GotoType DEF Settle, Holding
  <2>3. rows[wrow[p]].ret \in Role \cup {NoRole}
    BY <2>1 DEF WorkerTypeOK, QueueTypeOK, Row
  <2>4. QueueTypeOK'
    BY <1>10, <2>3, JournalUpdateType DEF Settle
  <2> QED BY <1>10, <2>2, <2>4, Frame DEF Settle
<1> QED BY <1>1, <1>2, <1>3, <1>4, <1>5, <1>6, <1>7, <1>8, <1>9, <1>10 DEF Worker

LEMMA EnvironmentStepType ==
    ASSUME TypeOK, Environment
    PROVE  TypeOK'
<1> USE DEF TypeOK
<1>0. ASSUME MayFail
      PROVE  /\ UNCHANGED <<turns, outages, errors>> /\ deaths' = deaths + 1
                => BoundTypeOK'
             /\ UNCHANGED <<turns, deaths, errors>> /\ outages' = outages + 1
                => BoundTypeOK'
  BY <1>0, SupervisorAssumption DEF MayFail, BoundTypeOK
<1>1. ASSUME NEW t \in Turns, Submit(t) PROVE TypeOK'
  <2>1. t \in Row
    BY RowTypes, QueueAssumption, SupervisorAssumption
  <2>2. QueueTypeOK'
    BY <1>1, <2>1, EnqueueType DEF Submit
  <2>3. BoundTypeOK'
    BY <1>1, SupervisorAssumption DEF Submit, BoundTypeOK
  <2> QED BY <1>1, <2>2, <2>3, Frame DEF Submit
<1>2. ASSUME NEW p \in Pid, Hang(p) PROVE TypeOK'
  <2>1. WorkerTypeOK'
    BY <1>2, GotoType DEF Hang, Holding
  <2> QED BY <1>0, <1>2, <2>1, Frame DEF Hang
<1>3. ASSUME NEW p \in Pid, Die(p) PROVE TypeOK'
  BY <1>0, <1>3, VanishType, Frame DEF Die
<1>4. ASSUME NEW p \in Pid, Unwind(p) PROVE TypeOK'
  BY <1>4, VanishType, Frame DEF Unwind
<1>5. ASSUME NEW p \in Pid, DrainGroup(p) PROVE TypeOK'
  BY <1>5, VanishType, Frame DEF DrainGroup
<1>6. CASE RecoveryError
  <2>1. PassTypeOK'
    BY <1>6, QueueAssumption
       DEF RecoveryError, RecoveryEnds, PassTypeOK, passVars, NoJob
  <2>2. BoundTypeOK'
    BY <1>6, SupervisorAssumption DEF RecoveryError, BoundTypeOK
  <2> QED BY <1>6, <2>1, <2>2, Frame DEF RecoveryError
<1>7. CASE Stop
  <2>1. WorkerTypeOK'
    <3>1. wpc' \in [Pid -> Gone \cup Holding \cup {"poll", "picked", "exiting"}]
      BY <1>7 DEF Stop, WorkerTypeOK, Gone
    <3>2. wrow' \in [Pid -> 0..MaxRows] /\ wjid' \in [Pid -> 0..MaxJournal]
      BY <1>7, QueueAssumption DEF Stop, WorkerTypeOK, NoJob
    <3>3. ASSUME NEW q \in Pid, wpc'[q] \in Holding \cup {"picked"}
          PROVE  wrow'[q] \in RowId
      <4>1. ~HasPeer(q)
        BY <1>7, <3>3 DEF Stop, Holding
      <4> QED BY <1>7, <3>3, <4>1 DEF Stop, WorkerTypeOK
    <3> QED BY <1>7, <3>1, <3>2, <3>3 DEF Stop, WorkerTypeOK
  <2>2. SlotTypeOK'
    BY <1>7 DEF Stop, SlotTypeOK
  <2>3. PassTypeOK'
    BY <1>7 DEF Stop, PassTypeOK, recVars
  <2> QED BY <1>0, <1>7, <2>1, <2>2, <2>3, Frame DEF Stop
<1>8. CASE Crash
  <2>1. WorkerTypeOK'
    BY <1>8, QueueAssumption DEF Crash, WorkerTypeOK, Gone, Holding, NoMail
  <2>2. SlotTypeOK'
    BY <1>8, QueueAssumption DEF Crash, SlotTypeOK, NoJob
  <2>3. PassTypeOK'
    BY <1>8, QueueAssumption DEF Crash, RecoveryEnds, PassTypeOK, NoJob
  <2> QED BY <1>0, <1>8, <2>1, <2>2, <2>3, Frame DEF Crash
<1> QED BY <1>1, <1>2, <1>3, <1>4, <1>5, <1>6, <1>7, <1>8 DEF Environment

LEMMA RecoveryStepType ==
    ASSUME TypeOK, Recovery
    PROVE  TypeOK'
<1> USE DEF TypeOK
<1>0. 0 \in 0..MaxJournal
  BY QueueAssumption
<1>1. CASE LookUpRun
  <2>1. PassTypeOK'
    BY <1>1 DEF LookUpRun, RecoveryStep, PassTypeOK, passVars
  <2> QED BY <1>1, <2>1, Frame DEF LookUpRun
<1>2. CASE KillRun
  <2>1. PassTypeOK'
    BY <1>2 DEF KillRun, RecoveryStep, PassTypeOK, passVars
  <2>2. RunTypeOK'
    BY <1>2 DEF KillRun, RunTypeOK
  <2> QED BY <1>2, <2>1, <2>2, Frame DEF KillRun
<1>3. CASE CheckJournal
  <2>1. PassTypeOK'
    BY <1>0, <1>3
       DEF CheckJournal, RecoveryStep, RecoveryEnds, PassTypeOK, passVars, NoJob
  <2> QED BY <1>3, <2>1, Frame DEF CheckJournal
<1>4. CASE FailJournal
  <2>1. PassTypeOK'
    BY <1>0, <1>4
       DEF FailJournal, RecoveryStep, RecoveryEnds, PassTypeOK, passVars, NoJob
  <2>2. QueueTypeOK'
    BY <1>4, JournalUpdateType DEF FailJournal, Terminal
  <2> QED BY <1>4, <2>1, <2>2, Frame DEF FailJournal
<1>5. CASE PostKilledNotice
  <2>1. PassTypeOK'
    BY <1>5 DEF PostKilledNotice, RecoveryStep, PassTypeOK, passVars
  <2>2. RunTypeOK'
    BY <1>5 DEF PostKilledNotice, RunTypeOK
  <2> QED BY <1>5, <2>1, <2>2, Frame DEF PostKilledNotice
<1>6. CASE OrderSummary
  <2>1. PassTypeOK'
    BY <1>0, <1>6 DEF OrderSummary, RecoveryEnds, PassTypeOK, passVars, NoJob
  <2>2. SummaryOrder(Summarizer, rjid) \in Row
    BY RowTypes, SupervisorAssumption DEF PassTypeOK
  <2>3. QueueTypeOK'
    BY <1>6, <2>2, EnqueueType DEF OrderSummary
  <2> QED BY <1>6, <2>1, <2>3, Frame DEF OrderSummary
<1> QED BY <1>1, <1>2, <1>3, <1>4, <1>5, <1>6 DEF Recovery

LEMMA PassStepType ==
    ASSUME TypeOK, Pass
    PROVE  TypeOK'
<1> USE DEF TypeOK
<1>1. CASE Start
  <2>1. PassTypeOK'
    BY <1>1 DEF Start, PassTypeOK, recVars
  <2> QED BY <1>1, <2>1, Frame DEF Start
<1>2. CASE SweepOne
  <2>1. Oldest(batch) \in JournalId
    BY <1>2, OldestJob DEF SweepOne, PassTypeOK
  <2>2. Oldest(batch) \in 0..MaxJournal
    BY <2>1, QueueAssumption DEF JournalId
  <2> DEFINE j == Oldest(batch)
  <2>3. rjid' = j /\ rstep' = "look" /\ spc' = spc /\ batch' = batch \ {j}
    BY <1>2 DEF SweepOne
  <2>4. PassTypeOK'
    <3> HIDE DEF j
    <3>1. j \in JournalId /\ j \in 0..MaxJournal
      BY <2>1, <2>2 DEF j
    <3> QED BY <2>3, <3>1 DEF PassTypeOK
  <2> QED BY <1>2, <2>4, Frame DEF SweepOne
<1>3. CASE SweepDone
  <2>1. PassTypeOK'
    BY <1>3 DEF SweepDone, PassTypeOK, recVars
  <2> QED BY <1>3, <2>1, Frame DEF SweepDone
<1>4. CASE Fetch
  <2>1. UnroutedTerminal \in SUBSET JournalId
    BY DEF UnroutedTerminal
  <2>2. PassTypeOK'
    BY <1>4, <2>1 DEF Fetch, AfterRouting, PassTypeOK, recVars
  <2> QED BY <1>4, <2>2, Frame DEF Fetch
<1>5. CASE SendEnvelope
  <2> DEFINE j == Oldest(batch)
  <2>1. j \in JournalId
    BY <1>5, OldestJob DEF SendEnvelope, PassTypeOK
  <2>2. j \in 0..MaxJournal
    BY <2>1, QueueAssumption DEF JournalId
  <2>3. journal[j].back \in Role \cup {NoRole}
    BY <2>1 DEF QueueTypeOK, Entry
  <2>4. Envelope(journal[j].back, j) \in Row
    BY <2>2, <2>3, RowTypes
  <2>5. QueueTypeOK'
    BY <1>5, <2>4, EnqueueType DEF SendEnvelope
  <2>6. PassTypeOK'
    BY <1>5 DEF SendEnvelope, PassTypeOK, recVars
  <2> QED BY <1>5, <2>5, <2>6, Frame DEF SendEnvelope
<1>6. CASE Stamp
  <2>1. QueueTypeOK'
    BY <1>6, MarkRoutedType DEF Stamp
  <2>2. PassTypeOK'
    BY <1>6 DEF Stamp, AfterRouting, PassTypeOK, recVars
  <2> QED BY <1>6, <2>1, <2>2, Frame DEF Stamp
<1>7. ASSUME NEW r \in Role, NEW p \in Pid, Spawn(r, p) PROVE TypeOK'
  <2>1. WorkerTypeOK'
    BY <1>7, QueueAssumption DEF Spawn, Goto, WorkerTypeOK, Holding, NoMail
  <2>2. SlotTypeOK'
    BY <1>7 DEF Spawn, SlotTypeOK
  <2> QED BY <1>7, <2>1, <2>2, Frame DEF Spawn
<1>8. CASE SpawnDone
  <2>1. PassTypeOK'
    BY <1>8 DEF SpawnDone, PassTypeOK, recVars
  <2> QED BY <1>8, <2>1, Frame DEF SpawnDone
<1>9. CASE Recv
  <2>1. WorkerTypeOK'
    BY <1>9, QueueAssumption DEF Recv, WorkerTypeOK, workerVars, NoMail
  <2>2. known' \in [Role -> 0..MaxJournal]
    <3>1. ASSUME NEW r \in Role, Unread(r) PROVE mail[slot[r]] \in 0..MaxJournal
      BY <3>1, QueueAssumption DEF Unread, Alive, SlotTypeOK, WorkerTypeOK, NoMail
    <3> QED BY <1>9, <3>1 DEF Recv, SlotTypeOK
  <2>3. dying' \in [Role -> BOOLEAN]
    BY <1>9 DEF Recv, SlotTypeOK, Alive, Unread
  <2>4. SlotTypeOK'
    BY <1>9, <2>2, <2>3 DEF Recv, SlotTypeOK
  <2>5. PassTypeOK'
    BY <1>9 DEF Recv, PassTypeOK, recVars
  <2> QED BY <1>9, <2>1, <2>4, <2>5, Frame DEF Recv
<1>10. CASE WatchDone
  <2>1. PassTypeOK'
    BY <1>10 DEF WatchDone, PassTypeOK, recVars
  <2> QED BY <1>10, <2>1, Frame DEF WatchDone
<1>11. ASSUME NEW r \in Role, Recover(r) PROVE TypeOK'
  <2>1. SlotTypeOK'
    BY <1>11, QueueAssumption DEF Recover, SlotTypeOK, NoJob
  <2>2. known[r] \in JournalId /\ known[r] \in 0..MaxJournal
    BY <1>11, QueueAssumption DEF Recover, SlotTypeOK, NoJob, JournalId
  <2>3. PassTypeOK'
    BY <1>11, <2>2 DEF Recover, PassTypeOK, passVars
  <2> QED BY <1>11, <2>1, <2>3, Frame DEF Recover
<1>12. ASSUME NEW r \in Role, Forget(r) PROVE TypeOK'
  <2>1. slot[r] \in Pid
    BY <1>12 DEF Forget, Reapable, SlotTypeOK
  <2>2. WorkerTypeOK'
    BY <1>12, <2>1, QueueAssumption
       DEF Forget, Goto, WorkerTypeOK, Gone, Holding, NoMail
  <2>3. SlotTypeOK'
    BY <1>12 DEF Forget, SlotTypeOK
  <2> QED BY <1>12, <2>2, <2>3, Frame DEF Forget
<1>13. CASE ReapDone
  <2>1. PassTypeOK'
    BY <1>13 DEF ReapDone, PassTypeOK, recVars
  <2> QED BY <1>13, <2>1, Frame DEF ReapDone
<1>14. CASE StopDone
  <2>1. PassTypeOK'
    BY <1>14 DEF StopDone, PassTypeOK, recVars
  <2> QED BY <1>14, <2>1, Frame DEF StopDone
<1> QED BY <1>1, <1>2, <1>3, <1>4, <1>5, <1>6, <1>7, <1>8, <1>9, <1>10, <1>11,
           <1>12, <1>13, <1>14, RecoveryStepType DEF Pass

LEMMA TypeStep == TypeOK /\ [Next]_vars => TypeOK'
<1> SUFFICES ASSUME TypeOK, [Next]_vars PROVE TypeOK'
  OBVIOUS
<1>1. ASSUME NEW r \in Role, Terminate(r) PROVE TypeOK'
  <2>1. SlotTypeOK'
    BY <1>1 DEF TypeOK, Terminate, SlotTypeOK
  <2>2. BoundTypeOK'
    BY <1>1, SupervisorAssumption DEF TypeOK, Terminate, MayFail, BoundTypeOK
  <2> QED BY <1>1, <2>1, <2>2, Frame DEF TypeOK, Terminate
<1>2. ASSUME NEW r \in Role, Kill(r) PROVE TypeOK'
  <2>1. slot[r] \in Pid
    BY <1>2 DEF TypeOK, Kill, Alive, SlotTypeOK
  <2>2. WorkerTypeOK'
    BY <1>2, <2>1, VanishType DEF TypeOK, Kill
  <2>3. SlotTypeOK'
    BY <1>2 DEF TypeOK, Kill, SlotTypeOK
  <2> QED BY <1>2, <2>2, <2>3, Frame DEF TypeOK, Kill
<1>3. CASE UNCHANGED vars
  BY <1>3, Frame DEF TypeOK, vars
<1> QED BY <1>1, <1>2, <1>3, WorkerStepType, EnvironmentStepType, PassStepType DEF Next

(* Every variable keeps its type, however many roles, rows and faults.     *)
THEOREM TypeCorrect == Spec => []TypeOK
<1> QED BY TypeInit, TypeStep, PTL DEF Spec

(***************************************************************************)
(* Processes: at most one live worker per role.  Everything from here on   *)
(* is about a core that runs under the launcher (Managed).                 *)
(***************************************************************************)
LEMMA ProcInit == Init => ProcInv
BY DEF Init, ProcInv, SoleWorker, Live, Gone

(* A live worker moves on.                                                 *)
LEMMA ProcMoves ==
    ASSUME TypeOK, ProcInv, NEW p \in Pid, Live(p), NEW pc, pc \notin Gone,
           Goto(p, pc), UNCHANGED <<slot, spc, rstep>>
    PROVE  ProcInv'
<1>1. \A q \in Pid : wpc'[q] = (IF q = p THEN pc ELSE wpc[q])
  BY DEF TypeOK, WorkerTypeOK, Goto
<1>2. \A q \in Pid : Live(q)' <=> Live(q)
  BY <1>1 DEF Live
<1>3. SoleWorker'
  BY <1>2 DEF ProcInv, SoleWorker
<1>4. \A r \in Role : slot'[r] # NoPid =>
        RoleOf[slot'[r]] = r /\ wpc'[slot'[r]] # "free"
  BY <1>1 DEF ProcInv, Gone, TypeOK, SlotTypeOK
<1>5. \A q \in Pid : wpc'[q] = "zombie" => slot'[RoleOf[q]] = q
  BY <1>1 DEF ProcInv, Gone
<1>6. \A q \in Pid : spc' # "down" /\ Live(q)' => slot'[RoleOf[q]] = q
  BY <1>2 DEF ProcInv
<1>7. spc' = "sweep" => \A q \in Pid : wpc'[q] = "free"
  BY DEF ProcInv, Live, Gone
<1>8. spc' = "down" => rstep' = "idle" /\ \A r \in Role : slot'[r] = NoPid
  BY DEF ProcInv
<1> QED BY <1>3, <1>4, <1>5, <1>6, <1>7, <1>8 DEF ProcInv

(* A live worker ends: a zombie if the supervisor still has its socket.    *)
LEMMA ProcVanishes ==
    ASSUME TypeOK, ProcInv, NEW p \in Pid, Live(p), Vanish(p),
           UNCHANGED <<slot, spc, rstep>>
    PROVE  ProcInv'
<1>1. \A q \in Pid : wpc'[q] = (IF q = p THEN IF HasPeer(p) THEN "zombie" ELSE "free"
                                ELSE wpc[q])
  BY DEF TypeOK, WorkerTypeOK, Vanish, Goto
<1>2. \A q \in Pid : Live(q)' => Live(q)
  BY <1>1 DEF Live, Gone
<1>3. SoleWorker'
  BY <1>2 DEF ProcInv, SoleWorker
<1>4. ASSUME NEW r \in Role, slot'[r] # NoPid
      PROVE  RoleOf[slot'[r]] = r /\ wpc'[slot'[r]] # "free"
  BY <1>1, <1>4 DEF ProcInv, TypeOK, SlotTypeOK, HasPeer
<1>5. ASSUME NEW q \in Pid, wpc'[q] = "zombie" PROVE slot'[RoleOf[q]] = q
  <2>1. CASE q = p
    <3>1. PICK r \in Role : slot[r] = p
      BY <1>1, <1>5, <2>1 DEF HasPeer
    <3>2. RoleOf[p] = r
      BY <3>1, SupervisorAssumption DEF ProcInv
    <3> QED BY <2>1, <3>1, <3>2
  <2>2. CASE q # p
    BY <1>1, <1>5, <2>2 DEF ProcInv
  <2> QED BY <2>1, <2>2
<1>6. \A q \in Pid : spc' # "down" /\ Live(q)' => slot'[RoleOf[q]] = q
  BY <1>2 DEF ProcInv
<1>7. spc' = "sweep" => \A q \in Pid : wpc'[q] = "free"
  BY DEF ProcInv, Live, Gone
<1>8. spc' = "down" => rstep' = "idle" /\ \A r \in Role : slot'[r] = NoPid
  BY DEF ProcInv
<1> QED BY <1>3, <1>4, <1>5, <1>6, <1>7, <1>8 DEF ProcInv

(* The supervisor goes on with its pass and touches no process.            *)
LEMMA ProcPasses ==
    ASSUME ProcInv, UNCHANGED <<wpc, slot>>, spc # "down", spc' # "down",
           spc' = "sweep" => spc = "sweep"
    PROVE  ProcInv'
BY DEF ProcInv, SoleWorker, Live

LEMMA ProcRests ==
    ASSUME ProcInv, UNCHANGED <<wpc, slot, spc, rstep>>
    PROVE  ProcInv'
BY DEF ProcInv, SoleWorker, Live

LEMMA ProcWorker ==
    ASSUME TypeOK, ProcInv, NEW p \in Pid, Worker(p)
    PROVE  ProcInv'
<1> USE DEF Live, Gone
<1>1. CASE Poll(p)
  BY <1>1, ProcMoves DEF Poll, At, slotVars, passVars, recVars
<1>2. CASE Exit(p)
  BY <1>2, ProcVanishes DEF Exit, At, slotVars, passVars, recVars
<1>3. CASE Take(p)
  BY <1>3, ProcMoves DEF Take, slotVars, passVars, recVars
<1>4. CASE EmitProcessing(p)
  BY <1>4, ProcMoves, ProcVanishes
     DEF EmitProcessing, Emit, At, slotVars, passVars, recVars
<1>5. CASE EmitOutcome(p)
  BY <1>5, ProcMoves, ProcVanishes
     DEF EmitOutcome, Emit, At, slotVars, passVars, recVars
<1>6. CASE StartRun(p)
  BY <1>6, ProcMoves DEF StartRun, At, slotVars, passVars, recVars
<1>7. ASSUME NEW s \in {"finished", "failed"}, FinishRun(p, s) PROVE ProcInv'
  BY <1>7, ProcMoves DEF FinishRun, At, slotVars, passVars, recVars
<1>8. CASE PostFailure(p)
  BY <1>8, ProcMoves DEF PostFailure, At, slotVars, passVars, recVars
<1>9. CASE RequestSummary(p)
  BY <1>9, ProcMoves DEF RequestSummary, At, slotVars, passVars, recVars
<1>10. ASSUME NEW o \in Terminal, Settle(p, o) PROVE ProcInv'
  BY <1>10, ProcMoves DEF Settle, Outcomes, slotVars, passVars, recVars
<1> QED BY <1>1, <1>2, <1>3, <1>4, <1>5, <1>6, <1>7, <1>8, <1>9, <1>10 DEF Worker

LEMMA ProcEnvironment ==
    ASSUME TypeOK, ProcInv, Environment
    PROVE  ProcInv'
<1>1. ASSUME NEW t \in Turns, Submit(t) PROVE ProcInv'
  BY <1>1, ProcRests DEF Submit, workerVars, slotVars, passVars, recVars
<1>2. ASSUME NEW p \in Pid, Hang(p) PROVE ProcInv'
  BY <1>2, ProcMoves DEF Hang, Live, Gone, slotVars, passVars, recVars
<1>3. ASSUME NEW p \in Pid, Die(p) PROVE ProcInv'
  BY <1>3, ProcVanishes DEF Die, slotVars, passVars, recVars
<1>4. ASSUME NEW p \in Pid, Unwind(p) PROVE ProcInv'
  BY <1>4, ProcVanishes DEF Unwind, slotVars, passVars, recVars
<1>5. ASSUME NEW p \in Pid, DrainGroup(p) PROVE ProcInv'
  BY <1>5, ProcVanishes DEF DrainGroup, slotVars, passVars, recVars
<1>6. CASE RecoveryError
  BY <1>6, ProcPasses
     DEF RecoveryError, ProcInv, workerVars, slotVars, passVars
<1>7. CASE Stop
  <2>1. \A q \in Pid : wpc'[q] = (IF HasPeer(q) THEN "zombie" ELSE wpc[q])
    BY <1>7 DEF Stop
  <2>2. \A q \in Pid : Live(q)' => Live(q)
    BY <2>1 DEF Live, Gone
  <2>3. SoleWorker'
    BY <2>2 DEF ProcInv, SoleWorker
  <2>4. UNCHANGED slot /\ spc = "fetch" /\ spc' = "stopping"
    BY <1>7 DEF Stop
  <2>5. ASSUME NEW r \in Role, slot'[r] # NoPid
        PROVE  RoleOf[slot'[r]] = r /\ wpc'[slot'[r]] # "free"
    BY <2>1, <2>4, <2>5 DEF ProcInv, TypeOK, SlotTypeOK, HasPeer
  <2>6. ASSUME NEW q \in Pid, wpc'[q] = "zombie" PROVE slot'[RoleOf[q]] = q
    <3>1. CASE HasPeer(q)
      BY <2>4, <3>1, SupervisorAssumption DEF ProcInv, HasPeer
    <3>2. CASE ~HasPeer(q)
      BY <2>1, <2>4, <2>6, <3>2 DEF ProcInv
    <3> QED BY <3>1, <3>2
  <2>7. \A q \in Pid : spc' # "down" /\ Live(q)' => slot'[RoleOf[q]] = q
    BY <2>2, <2>4 DEF ProcInv
  <2> QED BY <2>3, <2>4, <2>5, <2>6, <2>7 DEF ProcInv
<1>8. CASE Crash
  <2>1. \A q \in Pid : wpc'[q] = (IF wpc[q] = "zombie" THEN "free" ELSE wpc[q])
    BY <1>8 DEF Crash
  <2>2. \A q \in Pid : wpc'[q] # "zombie" /\ (Live(q)' <=> Live(q))
    BY <2>1 DEF Live, Gone
  <2>3. SoleWorker'
    BY <2>2 DEF ProcInv, SoleWorker
  <2>4. spc' = "down" /\ rstep' = "idle" /\ \A r \in Role : slot'[r] = NoPid
    BY <1>8 DEF Crash, RecoveryEnds
  <2> QED BY <2>2, <2>3, <2>4 DEF ProcInv
<1> QED BY <1>1, <1>2, <1>3, <1>4, <1>5, <1>6, <1>7, <1>8 DEF Environment

LEMMA ProcPass ==
    ASSUME TypeOK, ProcInv, Pass, Managed
    PROVE  ProcInv'
<1>1. CASE Start
  BY <1>1 DEF Start, ProcInv, SoleWorker, Live, Gone, workerVars, slotVars, recVars
<1>2. CASE SweepOne
  BY <1>2, ProcPasses DEF SweepOne, workerVars, slotVars
<1>3. CASE SweepDone
  BY <1>3, ProcPasses DEF SweepDone, workerVars, slotVars
<1>4. CASE Fetch
  BY <1>4, ProcPasses DEF Fetch, AfterRouting, workerVars, slotVars
<1>5. CASE SendEnvelope
  BY <1>5, ProcPasses DEF SendEnvelope, workerVars, slotVars
<1>6. CASE Stamp
  BY <1>6, ProcPasses DEF Stamp, AfterRouting, workerVars, slotVars
<1>7. ASSUME NEW r \in Role, NEW p \in Pid, Spawn(r, p) PROVE ProcInv'
  <2>1. \A q \in Pid : wpc'[q] = (IF q = p THEN "poll" ELSE wpc[q])
    BY <1>7 DEF Spawn, Goto, TypeOK, WorkerTypeOK
  <2>2. \A k \in Role : slot'[k] = (IF k = r THEN p ELSE slot[k])
    BY <1>7 DEF Spawn, TypeOK, SlotTypeOK
  <2>3. spc = "spawn" /\ spc' = "spawn" /\ RoleOf[p] = r /\ wpc[p] = "free"
        /\ slot[r] = NoPid
    BY <1>7 DEF Spawn, passVars
  <2>4. ASSUME NEW q \in Pid, q # p, Live(q)' \/ wpc'[q] = "zombie"
        PROVE  RoleOf[q] # r /\ slot[RoleOf[q]] = q
    <3>1. slot[RoleOf[q]] = q
      BY <2>1, <2>3, <2>4 DEF ProcInv, Live
    <3> QED BY <2>3, <3>1, SupervisorAssumption
  <2>5. SoleWorker'
    BY <2>1, <2>3, <2>4 DEF ProcInv, SoleWorker, Live
  <2>6. ASSUME NEW k \in Role, slot'[k] # NoPid
        PROVE  RoleOf[slot'[k]] = k /\ wpc'[slot'[k]] # "free"
    BY <2>1, <2>2, <2>3, <2>6 DEF ProcInv, TypeOK, SlotTypeOK
  <2>7. \A q \in Pid : Live(q)' \/ wpc'[q] = "zombie" => slot'[RoleOf[q]] = q
    BY <2>1, <2>2, <2>3, <2>4, SupervisorAssumption
  <2> QED BY <2>3, <2>5, <2>6, <2>7 DEF ProcInv
<1>8. CASE SpawnDone
  BY <1>8, ProcPasses DEF SpawnDone, workerVars, slotVars
<1>9. CASE Recv
  BY <1>9, ProcPasses DEF Recv, workerVars
<1>10. CASE WatchDone
  BY <1>10, ProcPasses DEF WatchDone, workerVars, slotVars
<1>11. ASSUME NEW r \in Role, Recover(r) PROVE ProcInv'
  BY <1>11, ProcPasses DEF Recover, Reapable, workerVars, passVars
<1>12. ASSUME NEW r \in Role, Forget(r) PROVE ProcInv'
  <2> DEFINE p == slot[r]
  <2>1. p \in Pid /\ wpc[p] = "zombie" /\ RoleOf[p] = r
    BY <1>12 DEF Forget, Reapable, TypeOK, SlotTypeOK, ProcInv
  <2>2. \A q \in Pid : wpc'[q] = (IF q = p THEN "free" ELSE wpc[q])
    BY <1>12 DEF Forget, Goto, TypeOK, WorkerTypeOK
  <2>3. \A k \in Role : slot'[k] = (IF k = r THEN NoPid ELSE slot[k])
    BY <1>12 DEF Forget, TypeOK, SlotTypeOK
  <2>4. spc \in {"reap", "stopping"} /\ spc' = spc
    BY <1>12 DEF Forget, Reapable, passVars
  <2> HIDE DEF p
  <2>5. \A q \in Pid : Live(q)' <=> Live(q)
    BY <2>1, <2>2 DEF Live, Gone
  <2>6. SoleWorker'
    BY <2>5 DEF ProcInv, SoleWorker
  <2>7. ASSUME NEW k \in Role, slot'[k] # NoPid
        PROVE  RoleOf[slot'[k]] = k /\ wpc'[slot'[k]] # "free"
    BY <2>1, <2>2, <2>3, <2>7 DEF ProcInv, TypeOK, SlotTypeOK
  <2>8. ASSUME NEW q \in Pid, Live(q)' \/ wpc'[q] = "zombie"
        PROVE  slot'[RoleOf[q]] = q
    <3>1. q # p /\ slot[RoleOf[q]] = q
      BY <2>1, <2>2, <2>4, <2>8 DEF ProcInv, Live, Gone
    <3>2. RoleOf[q] # r
      BY <3>1, <2>1 DEF p
    <3> QED BY <2>3, <3>1, <3>2, SupervisorAssumption
  <2> QED BY <2>4, <2>6, <2>7, <2>8 DEF ProcInv
<1>13. CASE ReapDone
  BY <1>13, ProcPasses DEF ReapDone, workerVars, slotVars
<1>14. CASE StopDone
  BY <1>14 DEF StopDone, ProcInv, SoleWorker, Live, workerVars, slotVars, recVars
<1>15. CASE Recovery
  <2>1. rstep # "idle" /\ UNCHANGED <<wpc, slot, spc>>
    BY <1>15 DEF Recovery, LookUpRun, KillRun, CheckJournal, FailJournal,
       PostKilledNotice, OrderSummary, RecoveryStep, workerVars, slotVars, passVars
  <2>2. spc # "down"
    BY <2>1 DEF ProcInv
  <2> QED BY <2>1, <2>2, ProcPasses
<1> QED BY <1>1, <1>2, <1>3, <1>4, <1>5, <1>6, <1>7, <1>8, <1>9, <1>10, <1>11,
           <1>12, <1>13, <1>14, <1>15 DEF Pass

LEMMA ProcStep == Managed /\ TypeOK /\ ProcInv /\ [Next]_vars => ProcInv'
<1> SUFFICES ASSUME Managed, TypeOK, ProcInv, [Next]_vars PROVE ProcInv'
  OBVIOUS
<1>1. ASSUME NEW r \in Role, Terminate(r) PROVE ProcInv'
  BY <1>1, ProcRests DEF Terminate, workerVars, passVars, recVars
<1>2. ASSUME NEW r \in Role, Kill(r) PROVE ProcInv'
  <2>1. slot[r] \in Pid
    BY <1>2 DEF TypeOK, Kill, Alive, SlotTypeOK
  <2>2. CASE Live(slot[r])
    BY <1>2, <2>1, <2>2, ProcVanishes DEF Kill, passVars, recVars
  <2>3. CASE ~Live(slot[r])
    <3>1. wpc[slot[r]] = "zombie" /\ HasPeer(slot[r])
      BY <1>2, <2>1, <2>3 DEF Kill, Alive, ProcInv, Live, Gone, HasPeer
    <3>2. wpc' = wpc
      BY <1>2, <2>1, <3>1 DEF Kill, Vanish, Goto, TypeOK, WorkerTypeOK
    <3> QED BY <1>2, <3>2, ProcRests DEF Kill, passVars, recVars
  <2> QED BY <2>2, <2>3
<1>3. CASE UNCHANGED vars
  BY <1>3, ProcRests DEF vars, workerVars, slotVars, passVars, recVars
<1> QED BY <1>1, <1>2, <1>3, ProcWorker, ProcEnvironment, ProcPass DEF Next

(* Under the launcher, no role ever has two live workers, across deaths,   *)
(* kills, crashes and restarts of the supervisor.                          *)
THEOREM OneWorkerPerRole ==
    ASSUME Managed
    PROVE  Spec => []SoleWorker
<1>1. Init => TypeOK /\ ProcInv
  BY TypeInit, ProcInit
<1>2. TypeOK /\ ProcInv /\ [Next]_vars => (TypeOK /\ ProcInv)'
  BY TypeStep, ProcStep
<1>3. TypeOK /\ ProcInv => SoleWorker
  BY DEF ProcInv
<1> QED BY <1>1, <1>2, <1>3, PTL DEF Spec

(***************************************************************************)
(* Rows, jobs and recoveries: the rest of the inductive invariant.  Most   *)
(* steps are calm: nobody takes hold of a journal row, and no row in hand  *)
(* changes state.                                                          *)
(***************************************************************************)
NoNewHolder ==
    \A q \in Pid : wpc'[q] \in Holding =>
        /\ wpc[q] \in Holding /\ wjid'[q] = wjid[q]
        /\ wpc[q] = "settled" => wpc'[q] = "settled"

NoNewPick ==
    \A q \in Pid : wpc'[q] = "picked" => wpc[q] = "picked" /\ wrow'[q] = wrow[q]

(* What the supervisor has been told, or forgets.                          *)
NoNews ==
    /\ \A q \in Pid : mail'[q] \in {mail[q], NoJob, NoMail}
    /\ \A r \in Role : known'[r] \in {known[r], NoJob}
    /\ \A r \in Role : known'[r] # NoJob /\ slot[r] \in Pid => slot'[r] = slot[r]

(* The recovery, if one is under way, is still about the same row.         *)
SameRecovery ==
    /\ rstep' # "idle" => rstep # "idle" /\ rjid' = rjid
    /\ rstep' \in {"failRun", "fail"} => journal'[rjid].state = "processing"

LEMMA PickStays ==
    ASSUME QueueInv, PickInv, Grows, NoNewPick, inbox \subseteq inbox'
    PROVE  PickInv'
BY DEF QueueInv, PickInv, Grows, NoNewPick

LEMMA CalmHolders ==
    ASSUME QueueInv, HoldInv, Grows, NoNewHolder,
           \A q \in Pid : wpc'[q] \in Holding /\ wpc'[q] # "settled" =>
               journal'[wjid[q]].state = journal[wjid[q]].state
    PROVE  /\ \A p \in Pid : wpc'[p] \in Holding =>
                 /\ JobOf(wjid[p], RoleOf[p])'
                 /\ wpc'[p] # "settled" => journal'[wjid'[p]].state = "processing"
           /\ \A p, q \in Pid : wpc'[p] \in Holding /\ wpc'[q] \in Holding
                                /\ wjid'[p] = wjid'[q] => p = q
<1>1. ASSUME NEW p \in Pid, wpc'[p] \in Holding
      PROVE  JobOf(wjid[p], RoleOf[p])'
  <2> DEFINE j == wjid[p]
  <2>1. JobOf(j, RoleOf[p])
    BY <1>1 DEF HoldInv, NoNewHolder
  <2>2. j \in Jobs' /\ rows'[journal'[j].row].to = RoleOf[p]
    BY <2>1 DEF QueueInv, Grows, JobOf, Agent
  <2>3. wjid'[p] = j
    BY <1>1 DEF NoNewHolder
  <2> QED BY <2>2, <2>3 DEF JobOf, Agent
<1>2. ASSUME NEW p \in Pid, wpc'[p] \in Holding, wpc'[p] # "settled"
      PROVE  journal'[wjid'[p]].state = "processing"
  BY <1>2 DEF HoldInv, NoNewHolder
<1>3. \A p, q \in Pid : wpc'[p] \in Holding /\ wpc'[q] \in Holding
                        /\ wjid'[p] = wjid'[q] => p = q
  BY DEF HoldInv, NoNewHolder
<1> QED BY <1>1, <1>2, <1>3

LEMMA CalmStep ==
    ASSUME IndInv, Grows, NoNewHolder, NoNews, SameRecovery,
           \A q \in Pid : wpc'[q] \in Holding /\ wpc'[q] # "settled" =>
               journal'[wjid[q]].state = journal[wjid[q]].state,
           batch' \subseteq Jobs,
           \A j \in JournalId : run'[j] # "none" => j \in Jobs
    PROVE  HoldInv' /\ RecoveryInv'
<1> USE DEF IndInv
<1>1. /\ \A p \in Pid : wpc'[p] \in Holding =>
           /\ JobOf(wjid[p], RoleOf[p])'
           /\ wpc'[p] # "settled" => journal'[wjid'[p]].state = "processing"
      /\ \A p, q \in Pid : wpc'[p] \in Holding /\ wpc'[q] \in Holding
                           /\ wjid'[p] = wjid'[q] => p = q
  BY CalmHolders
<1>2. \A j, r : JobOf(j, r) => j \in Jobs' /\ rows'[journal'[j].row].to = r
  BY DEF QueueInv, Grows, JobOf, Agent
<1>3. ASSUME NEW p \in Pid, mail'[p] \notin {NoJob, NoMail}
      PROVE  /\ JobOf(mail[p], RoleOf[p])'
             /\ \A q \in Pid : wpc'[q] \in Holding /\ wjid'[q] = mail'[p] => q = p
  <2>1. mail'[p] = mail[p]
    BY <1>3 DEF NoNews
  <2>2. JobOf(mail[p], RoleOf[p])
    BY <1>3, <2>1 DEF HoldInv
  <2>3. JobOf(mail[p], RoleOf[p])'
    BY <1>2, <2>1, <2>2 DEF JobOf, Agent
  <2>4. \A q \in Pid : wpc'[q] \in Holding /\ wjid'[q] = mail'[p] => q = p
    BY <1>3, <2>1 DEF HoldInv, NoNewHolder
  <2> QED BY <2>3, <2>4
<1>4. ASSUME NEW r \in Role, known'[r] # NoJob
      PROVE  /\ JobOf(known[r], r)'
             /\ \A q \in Pid : wpc'[q] \in Holding /\ wjid'[q] = known'[r]
                               => slot'[r] = q
  <2>1. known'[r] = known[r]
    BY <1>4 DEF NoNews
  <2>2. JobOf(known[r], r)
    BY <1>4, <2>1 DEF HoldInv
  <2>3. JobOf(known[r], r)'
    BY <1>2, <2>1, <2>2 DEF JobOf, Agent
  <2>4. ASSUME NEW q \in Pid, wpc'[q] \in Holding, wjid'[q] = known'[r]
        PROVE  slot'[r] = q
    <3>1. slot[r] = q
      BY <1>4, <2>1, <2>4 DEF HoldInv, NoNewHolder
    <3> QED BY <1>4, <3>1 DEF NoNews
  <2> QED BY <2>3, <2>4
<1>5. HoldInv'
  BY <1>1, <1>3, <1>4 DEF HoldInv
<1>6. rstep' # "idle" => /\ rjid' \in Jobs'
                         /\ \A p \in Pid : wpc'[p] \in Holding => wjid'[p] # rjid'
  BY DEF RecoveryInv, SameRecovery, NoNewHolder, Grows
<1>7. rstep' \in {"failRun", "fail"} => journal'[rjid'].state = "processing"
  BY DEF RecoveryInv, SameRecovery, NoNewHolder, Grows
<1>8. batch' \subseteq Jobs' /\ \A j \in JournalId : run'[j] # "none" => j \in Jobs'
  BY DEF Grows
<1>9. RecoveryInv'
  BY <1>6, <1>7, <1>8 DEF RecoveryInv
<1> QED BY <1>5, <1>9

(* A calm step that changes no journal state, and leaves the recovery be.  *)
LEMMA QuietStep ==
    ASSUME IndInv, Grows, SameStates, NoNewHolder, NoNews, UNCHANGED recVars,
           batch' \subseteq Jobs,
           \A j \in JournalId : run'[j] # "none" => j \in Jobs
    PROVE  HoldInv' /\ RecoveryInv'
<1>1. \A q \in Pid : wpc'[q] \in Holding /\ wpc'[q] # "settled" =>
        journal'[wjid[q]].state = journal[wjid[q]].state
  BY DEF IndInv, HoldInv, NoNewHolder, SameStates, JobOf
<1>2. SameRecovery
  BY DEF IndInv, SameRecovery, RecoveryInv, SameStates, recVars
<1> QED BY <1>1, <1>2, CalmStep

Rest == QueueInv /\ PickInv /\ HoldInv /\ RecoveryInv

(* The step does not touch the queue at all.                               *)
LEMMA QuietQueue ==
    ASSUME IndInv, UNCHANGED queueVars, NoNewHolder, NoNewPick, NoNews,
           UNCHANGED recVars, batch' \subseteq Jobs,
           \A j \in JournalId : run'[j] # "none" => j \in Jobs
    PROVE  Rest'
<1>1. QueueInv' /\ Grows /\ SameStates
  BY QueueFrameInv DEF IndInv, TypeOK
<1>2. PickInv'
  BY <1>1, PickStays DEF IndInv, queueVars
<1> QED BY <1>1, <1>2, QuietStep DEF Rest

LEMMA PassFrame ==
    ASSUME IndInv
    PROVE  /\ UNCHANGED passVars => batch' \subseteq Jobs
           /\ UNCHANGED runVars => \A j \in JournalId : run'[j] # "none" => j \in Jobs
           /\ UNCHANGED mail /\ UNCHANGED slotVars => NoNews
           /\ UNCHANGED workerVars => NoNewHolder /\ NoNewPick
BY DEF IndInv, RecoveryInv, passVars, runVars, slotVars, NoNews, workerVars,
       NoNewHolder, NoNewPick

LEMMA MoveIsQuiet ==
    ASSUME TypeOK, NEW p \in Pid, NEW pc, Goto(p, pc), UNCHANGED <<wrow, wjid>>,
           pc # "picked",
           pc \in Holding => /\ wpc[p] \in Holding
                             /\ wpc[p] = "settled" => pc = "settled"
    PROVE  NoNewHolder /\ NoNewPick
<1>1. \A q \in Pid : wpc'[q] = (IF q = p THEN pc ELSE wpc[q])
  BY DEF Goto, TypeOK, WorkerTypeOK
<1> QED BY <1>1 DEF NoNewHolder, NoNewPick

LEMMA VanishIsQuiet ==
    ASSUME TypeOK, NEW p \in Pid, Vanish(p)
    PROVE  NoNewHolder /\ NoNewPick
<1>1. \A q \in Pid : q # p => /\ wpc'[q] = wpc[q]
                              /\ wrow'[q] = wrow[q] /\ wjid'[q] = wjid[q]
  BY DEF Vanish, Goto, TypeOK, WorkerTypeOK
<1>2. wpc'[p] \in Gone
  BY DEF Vanish, Goto, Gone, TypeOK, WorkerTypeOK
<1> QED BY <1>1, <1>2 DEF NoNewHolder, NoNewPick, Holding, Gone

(* What a worker's statements do to rows and jobs.                         *)
LEMMA RestTake ==
    ASSUME IndInv, NEW p \in Pid, Take(p)
    PROVE  Rest'
<1> USE DEF IndInv
<1>1. /\ wpc[p] = "picked" /\ wrow[p] \in inbox /\ rows[wrow[p]].to = RoleOf[p]
      /\ TakeItem(wrow[p])
  BY DEF Take, PickInv
<1>0. PICK n : n = nextJournal
  OBVIOUS
<1>2. /\ QueueInv' /\ Grows /\ SameStates
      /\ n \in Jobs' /\ inbox' = inbox \ {wrow[p]}
      /\ journal'[n].row = wrow[p] /\ journal'[n].state = "processing"
  BY <1>0, <1>1, TakeItemInv DEF TypeOK
<1>3. n \notin Jobs
  BY <1>0, QueueBasics DEF TypeOK
<1>4. /\ \A q \in Pid : wpc'[q] = (IF q = p THEN "taken" ELSE wpc[q])
      /\ \A q \in Pid : wjid'[q] = (IF q = p THEN n ELSE wjid[q])
      /\ UNCHANGED <<wrow, rows, mail>>
      /\ UNCHANGED slotVars /\ UNCHANGED passVars /\ UNCHANGED recVars
      /\ UNCHANGED runVars
  BY <1>0 DEF Take, TakeItem, Goto, TypeOK, WorkerTypeOK
<1>5. PickInv'
  <2> SUFFICES ASSUME NEW q \in Pid, wpc'[q] = "picked"
               PROVE  wrow'[q] \in inbox' /\ rows'[wrow'[q]].to = RoleOf[q]
    BY DEF PickInv
  <2>1. q # p /\ wpc[q] = "picked"
    BY <1>4
  <2>2. wrow[q] \in inbox /\ rows[wrow[q]].to = RoleOf[q]
    BY <2>1 DEF PickInv
  <2>3. wrow[q] # wrow[p]
    BY <1>1, <2>1, <2>2 DEF ProcInv, SoleWorker, Live, Gone
  <2> QED BY <1>2, <1>4, <2>2, <2>3
<1>6. JobOf(n, RoleOf[p])'
  BY <1>1, <1>2, <1>4 DEF JobOf, Agent
<1>7. \A j, r : JobOf(j, r) => j \in Jobs' /\ rows'[journal'[j].row].to = r
  BY <1>2 DEF QueueInv, Grows, JobOf, Agent
<1>8. ASSUME NEW q \in Pid, q # p, wpc'[q] \in Holding
      PROVE  /\ wpc[q] \in Holding /\ wjid'[q] = wjid[q]
             /\ wjid[q] \in Jobs /\ wjid'[q] # n
             /\ JobOf(wjid[q], RoleOf[q])'
             /\ wpc'[q] # "settled" => journal'[wjid'[q]].state = "processing"
  <2>1. wpc[q] \in Holding /\ wjid'[q] = wjid[q] /\ wpc'[q] = wpc[q]
    BY <1>4, <1>8
  <2>2. JobOf(wjid[q], RoleOf[q])
    BY <2>1 DEF HoldInv
  <2>3. wjid[q] \in Jobs
    BY <2>2 DEF JobOf
  <2>4. JobOf(wjid[q], RoleOf[q])'
    BY <1>7, <2>1, <2>2 DEF JobOf, Agent
  <2>5. wpc'[q] # "settled" => journal'[wjid'[q]].state = "processing"
    BY <1>2, <2>1, <2>3 DEF HoldInv, SameStates
  <2> QED BY <1>3, <2>1, <2>3, <2>4, <2>5
<1>9. wpc'[p] = "taken" /\ wjid'[p] = n
  BY <1>4
<1>10. HoldInv'
  <2>1. ASSUME NEW q \in Pid, wpc'[q] \in Holding
        PROVE  /\ JobOf(wjid[q], RoleOf[q])'
               /\ wpc'[q] # "settled" => journal'[wjid'[q]].state = "processing"
    <3>1. CASE q = p
      <4>1. JobOf(wjid[p], RoleOf[p])'
        BY <1>6, <1>9 DEF JobOf, Agent
      <4> QED BY <1>2, <1>9, <3>1, <4>1
    <3>2. CASE q # p
      BY <1>8, <2>1, <3>2
    <3> QED BY <3>1, <3>2
  <2>2. ASSUME NEW q \in Pid, NEW k \in Pid, wpc'[q] \in Holding, wpc'[k] \in Holding,
               wjid'[q] = wjid'[k]
        PROVE  q = k
    BY <1>8, <1>9, <2>2 DEF HoldInv
  <2>3. ASSUME NEW q \in Pid, mail'[q] \notin {NoJob, NoMail}
        PROVE  /\ JobOf(mail[q], RoleOf[q])'
               /\ \A k \in Pid : wpc'[k] \in Holding /\ wjid'[k] = mail'[q] => k = q
    <3>1. mail'[q] = mail[q] /\ JobOf(mail[q], RoleOf[q])
      BY <1>4, <2>3 DEF HoldInv
    <3>2. JobOf(mail[q], RoleOf[q])'
      BY <1>7, <3>1 DEF JobOf, Agent
    <3>3. mail[q] # n
      BY <1>3, <3>1 DEF JobOf
    <3>4. ASSUME NEW k \in Pid, wpc'[k] \in Holding, wjid'[k] = mail'[q]
          PROVE  k = q
      <4>1. k # p
        BY <1>9, <3>1, <3>3, <3>4
      <4> QED BY <1>8, <2>3, <3>1, <3>4, <4>1 DEF HoldInv
    <3> QED BY <3>2, <3>4
  <2>4. ASSUME NEW r \in Role, known'[r] # NoJob
        PROVE  /\ JobOf(known[r], r)'
               /\ \A k \in Pid : wpc'[k] \in Holding /\ wjid'[k] = known'[r]
                                 => slot'[r] = k
    <3>1. known'[r] = known[r] /\ slot'[r] = slot[r] /\ JobOf(known[r], r)
      BY <1>4, <2>4 DEF HoldInv, slotVars
    <3>2. JobOf(known[r], r)'
      BY <1>7, <3>1 DEF JobOf, Agent
    <3>3. known[r] # n
      BY <1>3, <3>1 DEF JobOf
    <3>4. ASSUME NEW k \in Pid, wpc'[k] \in Holding, wjid'[k] = known'[r]
          PROVE  slot'[r] = k
      <4>1. k # p
        BY <1>9, <3>1, <3>3, <3>4
      <4> QED BY <1>8, <2>4, <3>1, <3>4, <4>1 DEF HoldInv
    <3> QED BY <3>2, <3>4
  <2> QED BY <2>1, <2>2, <2>3, <2>4 DEF HoldInv
<1>11. RecoveryInv'
  <2>1. batch' \subseteq Jobs' /\ \A j \in JournalId : run'[j] # "none" => j \in Jobs'
    BY <1>2, <1>4 DEF RecoveryInv, Grows, passVars, runVars
  <2>2. rstep' = rstep /\ rjid' = rjid
    BY <1>4 DEF recVars
  <2>3. rstep # "idle" => rjid \in Jobs' /\ rjid # n
    BY <1>2, <1>3 DEF RecoveryInv, Grows
  <2>4. rstep # "idle" => \A q \in Pid : wpc'[q] \in Holding => wjid'[q] # rjid
    BY <1>8, <1>9, <2>3 DEF RecoveryInv
  <2>5. rstep \in {"failRun", "fail"} => journal'[rjid].state = "processing"
    BY <1>2 DEF RecoveryInv, SameStates
  <2> QED BY <2>1, <2>2, <2>3, <2>4, <2>5 DEF RecoveryInv
<1> QED BY <1>2, <1>5, <1>10, <1>11 DEF Rest

(* Reporting: what the supervisor is told is the worker's own row.         *)
LEMMA RestEmitProcessing ==
    ASSUME IndInv, NEW p \in Pid, EmitProcessing(p)
    PROVE  Rest'
<1> USE DEF IndInv
<1>1. CASE ~HasPeer(p)
  BY <1>1, VanishIsQuiet, PassFrame, QuietQueue DEF EmitProcessing, Emit
<1>2. CASE HasPeer(p)
  <2>1. /\ wpc[p] = "taken" /\ UNCHANGED queueVars
        /\ \A q \in Pid : wpc'[q] = (IF q = p THEN "handling" ELSE wpc[q])
        /\ \A q \in Pid : wjid'[q] = wjid[q] /\ wrow'[q] = wrow[q]
        /\ \A q \in Pid : mail'[q] = (IF q = p THEN wjid[p] ELSE mail[q])
        /\ UNCHANGED slotVars /\ UNCHANGED passVars /\ UNCHANGED recVars
        /\ UNCHANGED runVars
    BY <1>2 DEF EmitProcessing, Emit, At, Goto, TypeOK, WorkerTypeOK
  <2>2. QueueInv' /\ Grows /\ SameStates
    BY <2>1, QueueFrameInv DEF TypeOK
  <2>3. NoNewHolder /\ NoNewPick
    BY <2>1 DEF NoNewHolder, NoNewPick, Holding
  <2>4. PickInv'
    BY <2>1, <2>2, <2>3, PickStays DEF queueVars
  <2>5. /\ \A q \in Pid : wpc'[q] \in Holding =>
             /\ JobOf(wjid[q], RoleOf[q])'
             /\ wpc'[q] # "settled" => journal'[wjid'[q]].state = "processing"
        /\ \A q, k \in Pid : wpc'[q] \in Holding /\ wpc'[k] \in Holding
                             /\ wjid'[q] = wjid'[k] => q = k
    BY <2>1, <2>2, <2>3, CalmHolders DEF queueVars
  <2>6. ASSUME NEW q \in Pid, mail'[q] \notin {NoJob, NoMail}
        PROVE  /\ JobOf(mail[q], RoleOf[q])'
               /\ \A k \in Pid : wpc'[k] \in Holding /\ wjid'[k] = mail'[q] => k = q
    <3>1. CASE q = p
      <4>1. wpc'[p] \in Holding /\ mail'[p] = wjid'[p]
        BY <2>1 DEF Holding
      <4> QED BY <2>5, <3>1, <4>1 DEF JobOf, Agent
    <3>2. CASE q # p
      <4>1. mail'[q] = mail[q] /\ JobOf(mail[q], RoleOf[q])
        BY <2>1, <2>6, <3>2 DEF HoldInv
      <4>2. JobOf(mail[q], RoleOf[q])'
        BY <2>1, <4>1 DEF queueVars, JobOf, Agent, Jobs
      <4>3. \A k \in Pid : wpc'[k] \in Holding /\ wjid'[k] = mail'[q] => k = q
        BY <2>3, <2>6, <4>1 DEF HoldInv, NoNewHolder
      <4> QED BY <4>2, <4>3
    <3> QED BY <3>1, <3>2
  <2>7. ASSUME NEW r \in Role, known'[r] # NoJob
        PROVE  /\ JobOf(known[r], r)'
               /\ \A k \in Pid : wpc'[k] \in Holding /\ wjid'[k] = known'[r]
                                 => slot'[r] = k
    <3>1. known'[r] = known[r] /\ slot'[r] = slot[r] /\ JobOf(known[r], r)
      BY <2>1, <2>7 DEF HoldInv, slotVars
    <3>2. JobOf(known[r], r)'
      BY <2>1, <3>1 DEF queueVars, JobOf, Agent, Jobs
    <3>3. \A k \in Pid : wpc'[k] \in Holding /\ wjid'[k] = known'[r] => slot'[r] = k
      BY <2>3, <2>7, <3>1 DEF HoldInv, NoNewHolder
    <3> QED BY <3>2, <3>3
  <2>8. HoldInv'
    BY <2>5, <2>6, <2>7 DEF HoldInv
  <2>9. RecoveryInv'
    BY <2>1, <2>2, <2>3
       DEF RecoveryInv, queueVars, passVars, recVars, runVars, Jobs, NoNewHolder
  <2> QED BY <2>2, <2>4, <2>8, <2>9 DEF Rest
<1> QED BY <1>1, <1>2

(* Settling: the worker's own row, which nobody else has in hand.          *)
LEMMA RestSettle ==
    ASSUME IndInv, NEW p \in Pid, NEW o \in Terminal, Settle(p, o)
    PROVE  Rest'
<1> USE DEF IndInv
<1>1. /\ wpc[p] \in Holding /\ wpc[p] # "settled"
      /\ JournalUpdate(wjid[p], o, rows[wrow[p]].ret)
      /\ Goto(p, "settled") /\ UNCHANGED <<wrow, wjid, mail>>
      /\ UNCHANGED slotVars /\ UNCHANGED passVars /\ UNCHANGED recVars
      /\ UNCHANGED runVars
  BY DEF Settle, Outcomes, Holding
<1>2. wjid[p] \in Jobs /\ journal[wjid[p]].state = "processing"
  BY <1>1 DEF HoldInv, JobOf
<1>3. /\ QueueInv' /\ Grows /\ inbox' = inbox
      /\ \A k \in JournalId : k # wjid[p] => journal'[k] = journal[k]
  BY <1>1, <1>2, JournalUpdateInv DEF TypeOK
<1>4. NoNewHolder /\ NoNewPick
  BY <1>1, MoveIsQuiet
<1>5. NoNews /\ batch' \subseteq Jobs
      /\ \A j \in JournalId : run'[j] # "none" => j \in Jobs
  BY <1>1, PassFrame
<1>6. ASSUME NEW q \in Pid, wpc'[q] \in Holding, wpc'[q] # "settled"
      PROVE  journal'[wjid[q]].state = journal[wjid[q]].state
  <2>1. q # p
    BY <1>1, <1>6 DEF Goto, TypeOK, WorkerTypeOK
  <2>2. wpc[q] \in Holding
    BY <1>4, <1>6 DEF NoNewHolder
  <2>3. wjid[q] # wjid[p] /\ wjid[q] \in Jobs
    BY <1>1, <2>1, <2>2 DEF HoldInv, JobOf
  <2>4. Jobs \subseteq JournalId
    BY QueueBasics DEF TypeOK
  <2> QED BY <1>3, <2>3, <2>4
<1>7. SameRecovery
  <2>1. rstep # "idle" => rjid # wjid[p] /\ rjid \in JournalId
    BY <1>1, QueueBasics DEF RecoveryInv, TypeOK
  <2> QED BY <1>1, <1>3, <2>1 DEF SameRecovery, RecoveryInv, recVars
<1>8. HoldInv' /\ RecoveryInv'
  BY <1>3, <1>4, <1>5, <1>6, <1>7, CalmStep
<1>9. PickInv'
  BY <1>3, <1>4, PickStays
<1> QED BY <1>3, <1>8, <1>9 DEF Rest

LEMMA RestWorker ==
    ASSUME IndInv, NEW p \in Pid, Worker(p)
    PROVE  Rest'
<1> USE DEF IndInv
<1>0. wpc[p] \in Holding => wjid[p] \in Jobs
  BY DEF HoldInv, JobOf
<1>1. CASE Poll(p)
  <2>1. CASE Pending(RoleOf[p]) # {}
    <3>1. /\ Oldest(Pending(RoleOf[p])) \in inbox
          /\ rows[Oldest(Pending(RoleOf[p]))].to = RoleOf[p]
      BY <2>1, OldestPending DEF TypeOK
    <3>2. /\ \A q \in Pid : wpc'[q] = (IF q = p THEN "picked" ELSE wpc[q])
          /\ \A q \in Pid : wrow'[q] = (IF q = p THEN Oldest(Pending(RoleOf[p]))
                                        ELSE wrow[q])
          /\ UNCHANGED queueVars /\ UNCHANGED <<wjid, mail>>
          /\ UNCHANGED slotVars /\ UNCHANGED passVars /\ UNCHANGED recVars
          /\ UNCHANGED runVars
      BY <1>1, <2>1 DEF Poll, Goto, TypeOK, WorkerTypeOK
    <3>3. NoNewHolder
      BY <3>2 DEF NoNewHolder, Holding
    <3>4. QueueInv' /\ Grows /\ SameStates
      BY <3>2, QueueFrameInv DEF TypeOK
    <3>5. HoldInv' /\ RecoveryInv'
      BY <3>2, <3>3, <3>4, PassFrame, QuietStep
    <3>6. PickInv'
      BY <3>1, <3>2 DEF PickInv, queueVars
    <3> QED BY <3>4, <3>5, <3>6 DEF Rest
  <2>2. CASE Pending(RoleOf[p]) = {}
    <3>1. NoNewHolder /\ NoNewPick
      BY <1>1, <2>2, MoveIsQuiet DEF Poll, Holding
    <3> QED BY <1>1, <3>1, PassFrame, QuietQueue DEF Poll
  <2> QED BY <2>1, <2>2
<1>2. CASE Exit(p)
  BY <1>2, VanishIsQuiet, PassFrame, QuietQueue DEF Exit
<1>3. CASE Take(p)
  BY <1>3, RestTake
<1>4. CASE EmitProcessing(p)
  BY <1>4, RestEmitProcessing
<1>5. CASE EmitOutcome(p)
  <2>1. CASE ~HasPeer(p)
    BY <1>5, <2>1, VanishIsQuiet, PassFrame, QuietQueue DEF EmitOutcome, Emit
  <2>2. CASE HasPeer(p)
    <3>1. NoNewHolder /\ NoNewPick
      BY <1>5, <2>2
         DEF EmitOutcome, Emit, Goto, TypeOK, WorkerTypeOK, NoNewHolder, NoNewPick,
             Holding
    <3>2. NoNews
      BY <1>5, <2>2 DEF EmitOutcome, Emit, NoNews, slotVars, TypeOK, WorkerTypeOK
    <3> QED BY <1>5, <3>1, <3>2, PassFrame, QuietQueue DEF EmitOutcome
  <2> QED BY <2>1, <2>2
<1>6. CASE StartRun(p)
  <2>1. wpc[p] \in Holding /\ wpc[p] # "settled"
    BY <1>6 DEF StartRun, At, Holding
  <2>2. NoNewHolder /\ NoNewPick
    BY <1>6, <2>1, MoveIsQuiet DEF StartRun
  <2>3. \A j \in JournalId : run'[j] # "none" => j \in Jobs
    BY <1>0, <1>6, <2>1 DEF StartRun, RecoveryInv, TypeOK, RunTypeOK
  <2> QED BY <1>6, <2>2, <2>3, PassFrame, QuietQueue DEF StartRun
<1>7. ASSUME NEW s \in {"finished", "failed"}, FinishRun(p, s) PROVE Rest'
  <2>1. wpc[p] \in Holding /\ wpc[p] # "settled"
    BY <1>7 DEF FinishRun, At, Holding
  <2>2. NoNewHolder /\ NoNewPick
    BY <1>7, <2>1, MoveIsQuiet DEF FinishRun
  <2>3. \A j \in JournalId : run'[j] # "none" => j \in Jobs
    BY <1>0, <1>7, <2>1 DEF FinishRun, RecoveryInv, TypeOK, RunTypeOK
  <2> QED BY <1>7, <2>2, <2>3, PassFrame, QuietQueue DEF FinishRun
<1>8. CASE PostFailure(p)
  <2>1. wpc[p] \in Holding /\ wpc[p] # "settled"
    BY <1>8 DEF PostFailure, At, Holding
  <2>2. NoNewHolder /\ NoNewPick
    BY <1>8, <2>1, MoveIsQuiet DEF PostFailure
  <2>3. \A j \in JournalId : run'[j] # "none" => j \in Jobs
    BY <1>8 DEF PostFailure, RecoveryInv
  <2> QED BY <1>8, <2>2, <2>3, PassFrame, QuietQueue DEF PostFailure
<1>9. CASE RequestSummary(p)
  <2>1. wpc[p] \in Holding /\ wpc[p] # "settled"
    BY <1>9 DEF RequestSummary, At, Holding
  <2>2. NoNewHolder /\ NoNewPick
    BY <1>9, <2>1, MoveIsQuiet DEF RequestSummary
  <2>3. SummaryOrder(Summarizer, wjid[p]) \in Row
    BY RowTypes, SupervisorAssumption DEF TypeOK, WorkerTypeOK
  <2>4. QueueInv' /\ Grows /\ SameStates /\ inbox \subseteq inbox'
    BY <1>9, <2>3, EnqueueInv DEF RequestSummary, TypeOK
  <2>5. HoldInv' /\ RecoveryInv'
    BY <1>9, <2>2, <2>4, PassFrame, QuietStep DEF RequestSummary
  <2> QED BY <2>2, <2>4, <2>5, PickStays DEF Rest
<1>10. ASSUME NEW o \in Terminal, Settle(p, o) PROVE Rest'
  BY <1>10, RestSettle
<1> QED BY <1>1, <1>2, <1>3, <1>4, <1>5, <1>6, <1>7, <1>8, <1>9, <1>10 DEF Worker

LEMMA RestEnvironment ==
    ASSUME IndInv, Environment
    PROVE  Rest'
<1> USE DEF IndInv
<1>1. ASSUME NEW t \in Turns, Submit(t) PROVE Rest'
  <2>1. t \in Row
    BY RowTypes, QueueAssumption, SupervisorAssumption
  <2>2. QueueInv' /\ Grows /\ SameStates /\ inbox \subseteq inbox'
    BY <1>1, <2>1, EnqueueInv DEF Submit, TypeOK
  <2>3. NoNewHolder /\ NoNewPick
    BY <1>1, PassFrame DEF Submit
  <2>4. HoldInv' /\ RecoveryInv'
    BY <1>1, <2>2, <2>3, PassFrame, QuietStep DEF Submit
  <2> QED BY <2>2, <2>3, <2>4, PickStays DEF Rest
<1>2. ASSUME NEW p \in Pid, Hang(p) PROVE Rest'
  <2>1. NoNewHolder /\ NoNewPick
    BY <1>2, MoveIsQuiet DEF Hang, Holding
  <2> QED BY <1>2, <2>1, PassFrame, QuietQueue DEF Hang
<1>3. ASSUME NEW p \in Pid, Die(p) PROVE Rest'
  BY <1>3, VanishIsQuiet, PassFrame, QuietQueue DEF Die
<1>4. ASSUME NEW p \in Pid, Unwind(p) PROVE Rest'
  BY <1>4, VanishIsQuiet, PassFrame, QuietQueue DEF Unwind
<1>5. ASSUME NEW p \in Pid, DrainGroup(p) PROVE Rest'
  BY <1>5, VanishIsQuiet, PassFrame, QuietQueue DEF DrainGroup
<1>6. CASE RecoveryError
  <2>1. QueueInv' /\ Grows /\ SameStates
    BY <1>6, QueueFrameInv DEF RecoveryError, TypeOK
  <2>2. NoNewHolder /\ NoNewPick
    BY <1>6, PassFrame DEF RecoveryError
  <2>3. SameRecovery
    BY <1>6 DEF RecoveryError, RecoveryEnds, SameRecovery
  <2>4. HoldInv' /\ RecoveryInv'
    <3>1. \A q \in Pid : wpc'[q] \in Holding /\ wpc'[q] # "settled" =>
            journal'[wjid[q]].state = journal[wjid[q]].state
      BY <1>6 DEF RecoveryError, queueVars
    <3> QED BY <1>6, <2>1, <2>2, <2>3, <3>1, PassFrame, CalmStep DEF RecoveryError
  <2>5. PickInv'
    BY <1>6, <2>1, <2>2, PickStays DEF RecoveryError, queueVars
  <2> QED BY <2>1, <2>4, <2>5 DEF Rest
<1>7. CASE Stop
  <2>1. NoNewHolder /\ NoNewPick
    BY <1>7 DEF Stop, NoNewHolder, NoNewPick, Holding
  <2>2. NoNews
    BY <1>7 DEF Stop, NoNews
  <2>3. batch' \subseteq Jobs
    BY <1>7 DEF Stop, RecoveryInv
  <2> QED BY <1>7, <2>1, <2>2, <2>3, PassFrame, QuietQueue DEF Stop
<1>8. CASE Crash
  <2>1. QueueInv' /\ Grows /\ SameStates
    BY <1>8, QueueFrameInv DEF Crash, TypeOK
  <2>2. NoNewHolder /\ NoNewPick
    BY <1>8 DEF Crash, NoNewHolder, NoNewPick, Holding
  <2>3. NoNews /\ SameRecovery /\ batch' \subseteq Jobs
    BY <1>8 DEF Crash, NoNews, SameRecovery, RecoveryEnds
  <2>4. HoldInv' /\ RecoveryInv'
    <3>1. \A q \in Pid : wpc'[q] \in Holding /\ wpc'[q] # "settled" =>
            journal'[wjid[q]].state = journal[wjid[q]].state
      BY <1>8 DEF Crash, queueVars
    <3> QED BY <1>8, <2>1, <2>2, <2>3, <3>1, PassFrame, CalmStep DEF Crash
  <2>5. PickInv'
    BY <1>8, <2>1, <2>2, PickStays DEF Crash, queueVars
  <2> QED BY <2>1, <2>4, <2>5 DEF Rest
<1> QED BY <1>1, <1>2, <1>3, <1>4, <1>5, <1>6, <1>7, <1>8 DEF Environment

(* A step of the supervisor that changes no process and no row.            *)
LEMMA RestIdlePass ==
    ASSUME IndInv, UNCHANGED queueVars, UNCHANGED workerVars, UNCHANGED mail,
           UNCHANGED slotVars, UNCHANGED recVars, UNCHANGED runVars,
           batch' \subseteq Jobs
    PROVE  Rest'
BY PassFrame, QuietQueue

LEMMA RestRecovery ==
    ASSUME IndInv, Recovery
    PROVE  Rest'
<1> USE DEF IndInv
<1>0. rstep # "idle" => rjid \in Jobs /\ rjid \in JournalId
  BY QueueBasics DEF RecoveryInv, TypeOK
<1>1. ASSUME UNCHANGED queueVars, UNCHANGED workerVars, UNCHANGED mail,
             UNCHANGED slotVars, UNCHANGED passVars, SameRecovery,
             \A j \in JournalId : run'[j] # "none" => j \in Jobs
      PROVE  Rest'
  <2>1. QueueInv' /\ Grows /\ SameStates
    BY <1>1, QueueFrameInv DEF TypeOK
  <2>2. NoNewHolder /\ NoNewPick /\ NoNews /\ batch' \subseteq Jobs
    BY <1>1, PassFrame
  <2>3. \A q \in Pid : wpc'[q] \in Holding /\ wpc'[q] # "settled" =>
          journal'[wjid[q]].state = journal[wjid[q]].state
    BY <1>1 DEF queueVars
  <2>4. HoldInv' /\ RecoveryInv'
    BY <1>1, <2>1, <2>2, <2>3, CalmStep
  <2>5. PickInv'
    BY <1>1, <2>1, <2>2, PickStays DEF queueVars
  <2> QED BY <2>1, <2>4, <2>5 DEF Rest
<1>2. UNCHANGED runVars => \A j \in JournalId : run'[j] # "none" => j \in Jobs
  BY PassFrame
<1>3. CASE LookUpRun
  <2>1. SameRecovery
    BY <1>3 DEF LookUpRun, RecoveryStep, SameRecovery
  <2> QED BY <1>1, <1>2, <1>3, <2>1 DEF LookUpRun
<1>4. CASE KillRun
  <2>1. SameRecovery
    BY <1>4 DEF KillRun, RecoveryStep, SameRecovery
  <2>2. \A j \in JournalId : run'[j] # "none" => j \in Jobs
    BY <1>0, <1>4 DEF KillRun, RecoveryStep, RecoveryInv, TypeOK, RunTypeOK
  <2> QED BY <1>1, <1>4, <2>1, <2>2 DEF KillRun
<1>5. CASE CheckJournal
  <2>1. SameRecovery
    BY <1>5 DEF CheckJournal, RecoveryStep, RecoveryEnds, SameRecovery, queueVars
  <2> QED BY <1>1, <1>2, <1>5, <2>1 DEF CheckJournal
<1>6. CASE FailJournal
  <2>1. /\ rstep \in {"failRun", "fail"} /\ rstep' \in {"notice", "idle"}
        /\ rstep' # "idle" => rjid' = rjid
        /\ JournalUpdate(rjid, "failed", NoRole)
        /\ UNCHANGED workerVars /\ UNCHANGED mail /\ UNCHANGED slotVars
        /\ UNCHANGED passVars /\ UNCHANGED runVars
    BY <1>6 DEF FailJournal, RecoveryStep, RecoveryEnds
  <2>2. /\ QueueInv' /\ Grows /\ inbox' = inbox
        /\ \A k \in JournalId : k # rjid => journal'[k] = journal[k]
    BY <1>0, <2>1, JournalUpdateInv DEF TypeOK, Terminal
  <2>3. NoNewHolder /\ NoNewPick /\ NoNews /\ batch' \subseteq Jobs
        /\ \A j \in JournalId : run'[j] # "none" => j \in Jobs
    BY <2>1, PassFrame
  <2>4. ASSUME NEW q \in Pid, wpc'[q] \in Holding
        PROVE  journal'[wjid[q]].state = journal[wjid[q]].state
    <3>1. wpc[q] \in Holding
      BY <2>3, <2>4 DEF NoNewHolder
    <3>2. wjid[q] \in JournalId /\ wjid[q] # rjid
      BY <2>1, <3>1, QueueBasics DEF HoldInv, RecoveryInv, JobOf, TypeOK
    <3> QED BY <2>2, <3>2
  <2>5. SameRecovery
    BY <2>1 DEF SameRecovery
  <2>6. HoldInv' /\ RecoveryInv'
    BY <2>2, <2>3, <2>4, <2>5, CalmStep
  <2>7. PickInv'
    BY <2>2, <2>3, PickStays
  <2> QED BY <2>2, <2>6, <2>7 DEF Rest
<1>7. CASE PostKilledNotice
  <2>1. SameRecovery
    BY <1>7 DEF PostKilledNotice, RecoveryStep, SameRecovery
  <2>2. \A j \in JournalId : run'[j] # "none" => j \in Jobs
    BY <1>7 DEF PostKilledNotice, RecoveryInv
  <2> QED BY <1>1, <1>7, <2>1, <2>2 DEF PostKilledNotice
<1>8. CASE OrderSummary
  <2>1. SummaryOrder(Summarizer, rjid) \in Row
    BY RowTypes, SupervisorAssumption DEF TypeOK, PassTypeOK
  <2>2. QueueInv' /\ Grows /\ SameStates /\ inbox \subseteq inbox'
    BY <1>8, <2>1, EnqueueInv DEF OrderSummary, TypeOK
  <2>3. NoNewHolder /\ NoNewPick /\ NoNews /\ batch' \subseteq Jobs
        /\ \A j \in JournalId : run'[j] # "none" => j \in Jobs
    BY <1>8, PassFrame DEF OrderSummary
  <2>4. SameRecovery
    BY <1>8 DEF OrderSummary, RecoveryEnds, SameRecovery
  <2>5. \A q \in Pid : wpc'[q] \in Holding /\ wpc'[q] # "settled" =>
          journal'[wjid[q]].state = journal[wjid[q]].state
    BY <2>2, <2>3 DEF SameStates, NoNewHolder, HoldInv, JobOf
  <2>6. HoldInv' /\ RecoveryInv'
    BY <2>2, <2>3, <2>4, <2>5, CalmStep
  <2> QED BY <2>2, <2>3, <2>6, PickStays DEF Rest
<1> QED BY <1>3, <1>4, <1>5, <1>6, <1>7, <1>8 DEF Recovery

(* A recovery begins, about a row that no live worker holds.               *)
LEMMA RestRecoveryBegins ==
    ASSUME IndInv, UNCHANGED queueVars, UNCHANGED workerVars, UNCHANGED mail,
           NoNews, batch' \subseteq Jobs, UNCHANGED runVars,
           rstep' = "look", NEW j \in Jobs, rjid' = j,
           \A q \in Pid : wpc[q] \in Holding => wjid[q] # j
    PROVE  Rest'
<1> USE DEF IndInv
<1>1. QueueInv' /\ Grows /\ SameStates
  BY QueueFrameInv DEF TypeOK
<1>2. NoNewHolder /\ NoNewPick /\ \A k \in JournalId : run'[k] # "none" => k \in Jobs
  BY PassFrame
<1>3. PickInv'
  BY <1>1, <1>2, PickStays DEF queueVars
<1>4. HoldInv'
  <2>1. \A q \in Pid : wpc'[q] = wpc[q] /\ wjid'[q] = wjid[q] /\ mail'[q] = mail[q]
    BY DEF workerVars
  <2>2. \A k, r : JobOf(k, r) => k \in Jobs' /\ rows'[journal'[k].row].to = r
    BY DEF queueVars, JobOf, Agent, Jobs
  <2>3. \A r \in Role : known'[r] # NoJob =>
          /\ known'[r] = known[r]
          /\ \A q \in Pid : slot[r] = q => slot'[r] = q
    BY DEF NoNews
  <2>4. ASSUME NEW q \in Pid, wpc'[q] \in Holding
        PROVE  JobOf(wjid[q], RoleOf[q])'
    BY <2>1, <2>2, <2>4 DEF HoldInv, JobOf, Agent
  <2>5. ASSUME NEW q \in Pid, mail'[q] \notin {NoJob, NoMail}
        PROVE  JobOf(mail[q], RoleOf[q])'
    BY <2>1, <2>2, <2>5 DEF HoldInv, JobOf, Agent
  <2>6. ASSUME NEW r \in Role, known'[r] # NoJob
        PROVE  JobOf(known[r], r)'
    BY <2>2, <2>3, <2>6 DEF HoldInv, JobOf, Agent
  <2>7. \A q \in Pid : wpc'[q] \in Holding /\ wpc'[q] # "settled" =>
          journal'[wjid'[q]].state = "processing"
    BY <2>1 DEF HoldInv, queueVars
  <2>8. \A p, q \in Pid : wpc'[p] \in Holding /\ wpc'[q] \in Holding
                          /\ wjid'[p] = wjid'[q] => p = q
    BY <2>1 DEF HoldInv
  <2>9. \A p, q \in Pid : mail'[p] \notin {NoJob, NoMail} /\ wpc'[q] \in Holding
                          /\ wjid'[q] = mail'[p] => q = p
    BY <2>1 DEF HoldInv
  <2>10. \A r \in Role, q \in Pid : known'[r] # NoJob /\ wpc'[q] \in Holding
                          /\ wjid'[q] = known'[r] => slot'[r] = q
    BY <2>1, <2>3 DEF HoldInv
  <2> QED BY <2>4, <2>5, <2>6, <2>7, <2>8, <2>9, <2>10 DEF HoldInv
<1>5. RecoveryInv'
  BY <1>1, <1>2 DEF RecoveryInv, Grows, workerVars
<1> QED BY <1>1, <1>3, <1>4, <1>5 DEF Rest

LEMMA RestPass ==
    ASSUME IndInv, Pass
    PROVE  Rest'
<1> USE DEF IndInv
<1>0. batch \subseteq Jobs /\ Jobs \subseteq JournalId
  BY QueueBasics DEF RecoveryInv, TypeOK
<1>1. CASE Start
  <2>1. batch' \subseteq Jobs
    BY <1>1 DEF Start, RecoveryInv
  <2> QED BY <1>1, <2>1, RestIdlePass DEF Start
<1>2. CASE SweepOne
  <2>1. PICK j : j = Oldest(batch)
    OBVIOUS
  <2>2. j \in batch
    BY <1>2, <2>1, OldestJob DEF SweepOne, TypeOK, PassTypeOK
  <2>3. \A q \in Pid : wpc[q] \in Holding => wjid[q] # j
    BY <1>2 DEF SweepOne, ProcInv, Holding
  <2>4. NoNews
    BY <1>2, PassFrame DEF SweepOne
  <2>5. j \in Jobs /\ batch' \subseteq Jobs
    BY <1>0, <1>2, <2>2 DEF SweepOne
  <2> QED BY <1>2, <2>1, <2>3, <2>4, <2>5, RestRecoveryBegins DEF SweepOne
<1>3. CASE SweepDone
  BY <1>0, <1>3, RestIdlePass DEF SweepDone
<1>4. CASE Fetch
  <2>1. UnroutedTerminal \subseteq Jobs
    BY DEF UnroutedTerminal, QueueInv
  <2> QED BY <1>4, <2>1, RestIdlePass DEF Fetch
<1>5. CASE SendEnvelope
  <2>1. PICK j : j = Oldest(batch)
    OBVIOUS
  <2>2. j \in JournalId
    BY <1>5, <2>1, OldestJob DEF SendEnvelope, TypeOK, PassTypeOK
  <2>3. j \in 0..MaxJournal
    BY <2>2, QueueAssumption DEF JournalId
  <2>4. journal[j].back \in Role \cup {NoRole}
    BY <2>2 DEF TypeOK, QueueTypeOK, Entry
  <2>5. Envelope(journal[j].back, j) \in Row
    BY <2>3, <2>4, RowTypes
  <2>6. QueueInv' /\ Grows /\ SameStates /\ inbox \subseteq inbox'
    BY <1>5, <2>1, <2>5, EnqueueInv DEF SendEnvelope, TypeOK
  <2>7. NoNewHolder /\ NoNewPick /\ NoNews
        /\ \A k \in JournalId : run'[k] # "none" => k \in Jobs
    BY <1>5, PassFrame DEF SendEnvelope
  <2>8. HoldInv' /\ RecoveryInv'
    BY <1>0, <1>5, <2>6, <2>7, QuietStep DEF SendEnvelope
  <2> QED BY <2>6, <2>7, <2>8, PickStays DEF Rest
<1>6. CASE Stamp
  <2>1. QueueInv' /\ Grows /\ SameStates /\ inbox' = inbox
    BY <1>6, MarkRoutedInv DEF Stamp, TypeOK
  <2>2. NoNewHolder /\ NoNewPick /\ NoNews
        /\ \A k \in JournalId : run'[k] # "none" => k \in Jobs
    BY <1>6, PassFrame DEF Stamp
  <2>3. batch' \subseteq Jobs
    BY <1>0, <1>6 DEF Stamp
  <2>4. HoldInv' /\ RecoveryInv'
    BY <1>6, <2>1, <2>2, <2>3, QuietStep DEF Stamp
  <2> QED BY <2>1, <2>2, <2>4, PickStays DEF Rest
<1>7. ASSUME NEW r \in Role, NEW p \in Pid, Spawn(r, p) PROVE Rest'
  <2>1. NoNewHolder /\ NoNewPick
    BY <1>7, MoveIsQuiet DEF Spawn, Holding
  <2>2. NoNews
    BY <1>7, SupervisorAssumption
       DEF Spawn, NoNews, TypeOK, SlotTypeOK, WorkerTypeOK
  <2> QED BY <1>7, <2>1, <2>2, PassFrame, QuietQueue DEF Spawn
<1>8. CASE SpawnDone
  BY <1>0, <1>8, RestIdlePass DEF SpawnDone
<1>9. CASE Recv
  <2>1. QueueInv' /\ Grows /\ SameStates
    BY <1>9, QueueFrameInv DEF Recv, TypeOK
  <2>2. /\ UNCHANGED queueVars /\ UNCHANGED <<wpc, wrow, wjid, slot>>
        /\ UNCHANGED recVars /\ UNCHANGED runVars /\ batch' = batch
        /\ \A q \in Pid : mail'[q] = mail[q] \/ mail'[q] = NoMail
        /\ \A r \in Role : known'[r] = known[r]
                           \/ (Unread(r) /\ known'[r] = mail[slot[r]])
    <3>1. /\ UNCHANGED queueVars /\ UNCHANGED <<wpc, wrow, wjid, slot>>
          /\ UNCHANGED recVars /\ UNCHANGED runVars /\ batch' = batch
      BY <1>9 DEF Recv, workerVars
    <3>2. ASSUME NEW q \in Pid PROVE mail'[q] = mail[q] \/ mail'[q] = NoMail
      BY <1>9 DEF Recv
    <3>3. ASSUME NEW r \in Role
          PROVE  known'[r] = known[r] \/ (Unread(r) /\ known'[r] = mail[slot[r]])
      <4>1. known'[r] = IF Unread(r) THEN mail[slot[r]] ELSE known[r]
        BY <1>9, <3>3 DEF Recv
      <4>2. CASE Unread(r)
        BY <4>1, <4>2
      <4>3. CASE ~Unread(r)
        BY <4>1, <4>3
      <4> QED BY <4>2, <4>3
    <3> QED BY <3>1, <3>2, <3>3
  <2>3. NoNewHolder /\ NoNewPick /\ \A k \in JournalId : run'[k] # "none" => k \in Jobs
    BY <1>9, PassFrame DEF Recv
  <2>4. PickInv'
    BY <2>1, <2>2, <2>3, PickStays DEF queueVars
  <2>5. RecoveryInv'
    BY <1>0, <2>1, <2>2, <2>3 DEF RecoveryInv, Grows, recVars, queueVars
  <2>6. ASSUME NEW r \in Role, known'[r] # NoJob
        PROVE  /\ JobOf(known'[r], r)
               /\ \A q \in Pid : wpc[q] \in Holding /\ wjid[q] = known'[r]
                                 => slot[r] = q
    <3>1. CASE known'[r] = known[r]
      BY <2>6, <3>1 DEF HoldInv
    <3>2. CASE Unread(r) /\ known'[r] = mail[slot[r]]
      <4>1. /\ slot[r] \in Pid /\ RoleOf[slot[r]] = r
            /\ mail[slot[r]] \notin {NoJob, NoMail}
        BY <2>6, <3>2 DEF Unread, Alive, ProcInv, TypeOK, SlotTypeOK
      <4> QED BY <3>2, <4>1 DEF HoldInv
    <3> QED BY <2>2, <3>1, <3>2
  <2>7. HoldInv'
    <3>1. \A k, r : JobOf(k, r) => k \in Jobs' /\ rows'[journal'[k].row].to = r
      BY <2>2 DEF queueVars, JobOf, Agent, Jobs
    <3>2. \A q \in Pid : wpc'[q] \in Holding => JobOf(wjid[q], RoleOf[q])'
      BY <2>2, <3>1 DEF HoldInv, JobOf, Agent
    <3>3. \A q \in Pid : mail'[q] \notin {NoJob, NoMail} => JobOf(mail[q], RoleOf[q])'
      BY <2>2, <3>1 DEF HoldInv, JobOf, Agent
    <3>4. \A r \in Role : known'[r] # NoJob => JobOf(known[r], r)'
      BY <2>6, <3>1 DEF JobOf, Agent
    <3>5. \A q \in Pid : wpc'[q] \in Holding /\ wpc'[q] # "settled" =>
            journal'[wjid'[q]].state = "processing"
      BY <2>2 DEF HoldInv, queueVars
    <3>6. \A p, q \in Pid : wpc'[p] \in Holding /\ wpc'[q] \in Holding
                            /\ wjid'[p] = wjid'[q] => p = q
      BY <2>2 DEF HoldInv
    <3>7. \A p, q \in Pid : mail'[p] \notin {NoJob, NoMail} /\ wpc'[q] \in Holding
                            /\ wjid'[q] = mail'[p] => q = p
      BY <2>2 DEF HoldInv
    <3>8. \A r \in Role, q \in Pid : known'[r] # NoJob /\ wpc'[q] \in Holding
                            /\ wjid'[q] = known'[r] => slot'[r] = q
      BY <2>2, <2>6
    <3> QED BY <3>2, <3>3, <3>4, <3>5, <3>6, <3>7, <3>8 DEF HoldInv
  <2> QED BY <2>1, <2>4, <2>5, <2>7 DEF Rest
<1>10. CASE WatchDone
  BY <1>0, <1>10, RestIdlePass DEF WatchDone
<1>11. ASSUME NEW r \in Role, Recover(r) PROVE Rest'
  <2>1. PICK j : j = known[r]
    OBVIOUS
  <2>2. j \in Jobs
    BY <1>11, <2>1 DEF Recover, HoldInv, JobOf
  <2>3. \A q \in Pid : wpc[q] \in Holding => wjid[q] # j
    BY <1>11, <2>1 DEF Recover, Reapable, HoldInv, Holding
  <2>4. NoNews
    BY <1>11 DEF Recover, NoNews, TypeOK, SlotTypeOK
  <2>5. batch' \subseteq Jobs
    BY <1>0, <1>11 DEF Recover, passVars
  <2> QED BY <1>11, <2>1, <2>2, <2>3, <2>4, <2>5, RestRecoveryBegins DEF Recover
<1>12. ASSUME NEW r \in Role, Forget(r) PROVE Rest'
  <2>1. slot[r] \in Pid
    BY <1>12 DEF Forget, Reapable, TypeOK, SlotTypeOK
  <2>2. NoNewHolder /\ NoNewPick
    BY <1>12, <2>1, MoveIsQuiet DEF Forget, Holding
  <2>3. NoNews
    BY <1>12, <2>1 DEF Forget, NoNews, TypeOK, SlotTypeOK, WorkerTypeOK
  <2> QED BY <1>12, <2>2, <2>3, PassFrame, QuietQueue DEF Forget
<1>13. CASE ReapDone
  BY <1>0, <1>13, RestIdlePass DEF ReapDone
<1>14. CASE StopDone
  BY <1>0, <1>14, RestIdlePass DEF StopDone
<1> QED BY <1>1, <1>2, <1>3, <1>4, <1>5, <1>6, <1>7, <1>8, <1>9, <1>10, <1>11,
           <1>12, <1>13, <1>14, RestRecovery DEF Pass

LEMMA InvInit == Init => IndInv
<1> SUFFICES ASSUME Init PROVE IndInv
  OBVIOUS
<1>1. QueueInv
  BY QueueInitInv DEF Init
<1>2. PickInv
  BY DEF Init, PickInv
<1>3. HoldInv
  BY DEF Init, HoldInv, Holding
<1>4. RecoveryInv
  BY DEF Init, RecoveryInv
<1> QED BY <1>1, <1>2, <1>3, <1>4, TypeInit, ProcInit DEF IndInv

LEMMA InvStep == Managed /\ IndInv /\ [Next]_vars => IndInv'
<1> SUFFICES ASSUME Managed, IndInv, [Next]_vars PROVE IndInv'
  OBVIOUS
<1>1. TypeOK' /\ ProcInv'
  BY TypeStep, ProcStep DEF IndInv
<1>2. ASSUME NEW r \in Role, Terminate(r) PROVE Rest'
  <2>1. NoNews
    BY <1>2 DEF Terminate, NoNews
  <2>2. NoNewHolder /\ NoNewPick
    BY <1>2, PassFrame DEF Terminate
  <2> QED BY <1>2, <2>1, <2>2, PassFrame, QuietQueue DEF Terminate
<1>3. ASSUME NEW r \in Role, Kill(r) PROVE Rest'
  <2>1. slot[r] \in Pid
    BY <1>3 DEF IndInv, TypeOK, Kill, Alive, SlotTypeOK
  <2>2. NoNewHolder /\ NoNewPick
    BY <1>3, <2>1, VanishIsQuiet DEF IndInv, Kill
  <2>3. NoNews
    BY <1>3 DEF Kill, NoNews
  <2> QED BY <1>3, <2>2, <2>3, PassFrame, QuietQueue DEF Kill
<1>4. ASSUME UNCHANGED vars PROVE Rest'
  <2>1. batch' \subseteq Jobs
    BY <1>4 DEF IndInv, RecoveryInv, vars, passVars
  <2>2. /\ UNCHANGED queueVars /\ UNCHANGED workerVars /\ UNCHANGED mail
        /\ UNCHANGED slotVars /\ UNCHANGED recVars /\ UNCHANGED runVars
    BY <1>4 DEF vars
  <2> QED BY <2>1, <2>2, RestIdlePass
<1>5. Rest'
  <2>1. ASSUME NEW p \in Pid, Worker(p) PROVE Rest'
    BY <2>1, RestWorker
  <2>2. CASE Environment
    BY <2>2, RestEnvironment
  <2>3. CASE Pass
    BY <2>3, RestPass
  <2> QED BY <1>2, <1>3, <1>4, <2>1, <2>2, <2>3 DEF Next
<1> QED BY <1>1, <1>5 DEF IndInv, Rest

(***************************************************************************)
(* What follows from the invariant.                                        *)
(***************************************************************************)

(* No row is lost and none is handed out twice.                            *)
THEOREM RowsAreAccounted ==
    ASSUME Managed
    PROVE  Spec => []EveryRowAccounted
<1>1. IndInv => EveryRowAccounted
  <2> SUFFICES ASSUME IndInv, NEW i \in Rows
               PROVE  LET entries == {j \in Jobs : journal[j].row = i}
                      IN  IF i \in inbox THEN entries = {}
                          ELSE \E j \in entries : entries = {j}
    BY DEF EveryRowAccounted
  <2> DEFINE entries == {j \in Jobs : journal[j].row = i}
  <2>1. CASE i \in inbox
    BY <2>1 DEF IndInv, QueueInv
  <2>2. CASE i \notin inbox
    <3>1. PICK j \in Jobs : journal[j].row = i
      BY <2>2 DEF IndInv, QueueInv
    <3>2. entries = {j}
      BY <3>1 DEF IndInv, QueueInv
    <3> QED BY <2>2, <3>1, <3>2
  <2> QED BY <2>1, <2>2
<1> QED BY <1>1, InvInit, InvStep, PTL DEF Spec

(* The supervisor never recovers a row that somebody is working on.        *)
THEOREM KnownNeverMisleads ==
    ASSUME Managed
    PROVE  Spec => []KnownIsOwn
<1>1. IndInv => KnownIsOwn
  BY DEF IndInv, HoldInv, JobOf, KnownIsOwn
<1> QED BY <1>1, InvInit, InvStep, PTL DEF Spec

(***************************************************************************)
(* What a step can do to the queue: nothing that the ledger or an outcome  *)
(* would show, or one of the four operations, on a row fit for it.         *)
(***************************************************************************)
Unshown ==
    /\ UNCHANGED <<rows, nextRow, inbox, nextJournal>>
    /\ \A j \in JournalId : /\ journal'[j].row = journal[j].row
                            /\ journal'[j].state = journal[j].state

QueueStep ==
    \/ Unshown
    \/ \E r \in Row : Enqueue(r)
    \/ \E i \in inbox : TakeItem(i)
    \/ \E j \in Jobs, o \in Terminal, back \in Role \cup {NoRole} :
          journal[j].state = "processing" /\ JournalUpdate(j, o, back)

LEMMA QueueRests == UNCHANGED queueVars => QueueStep
BY DEF queueVars, QueueStep, Unshown

LEMMA WorkerQueueStep ==
    ASSUME IndInv, NEW p \in Pid, Worker(p)
    PROVE  QueueStep
<1> USE DEF IndInv
<1>1. CASE Take(p)
  <2>1. wrow[p] \in inbox /\ TakeItem(wrow[p])
    BY <1>1 DEF Take, PickInv
  <2> QED BY <2>1 DEF QueueStep
<1>2. CASE RequestSummary(p)
  <2>1. SummaryOrder(Summarizer, wjid[p]) \in Row
    BY RowTypes, SupervisorAssumption DEF TypeOK, WorkerTypeOK
  <2> QED BY <1>2, <2>1 DEF RequestSummary, QueueStep
<1>3. ASSUME NEW o \in Terminal, Settle(p, o) PROVE QueueStep
  <2>1. /\ wpc[p] \in Holding /\ wpc[p] # "settled"
        /\ JournalUpdate(wjid[p], o, rows[wrow[p]].ret)
    BY <1>3 DEF Settle, Outcomes, Holding
  <2>2. wjid[p] \in Jobs /\ journal[wjid[p]].state = "processing"
    BY <2>1 DEF HoldInv, JobOf
  <2>3. wrow[p] \in RowId
    BY <2>1 DEF TypeOK, WorkerTypeOK
  <2>4. rows[wrow[p]].ret \in Role \cup {NoRole}
    BY <2>3 DEF TypeOK, QueueTypeOK, Row
  <2> QED BY <2>1, <2>2, <2>4 DEF QueueStep
<1>4. Poll(p) \/ Exit(p) \/ EmitProcessing(p) \/ EmitOutcome(p) \/ StartRun(p)
      \/ PostFailure(p) \/ (\E s \in {"finished", "failed"} : FinishRun(p, s))
      => UNCHANGED queueVars
  BY DEF Poll, Exit, EmitProcessing, EmitOutcome, StartRun, PostFailure, FinishRun
<1> QED BY <1>1, <1>2, <1>3, <1>4, QueueRests DEF Worker

LEMMA PassQueueStep ==
    ASSUME IndInv, Pass
    PROVE  QueueStep
<1> USE DEF IndInv
<1>1. CASE SendEnvelope
  <2>1. PICK j : j = Oldest(batch)
    OBVIOUS
  <2>2. j \in JournalId
    BY <1>1, <2>1, OldestJob DEF SendEnvelope, TypeOK, PassTypeOK
  <2>3. j \in 0..MaxJournal
    BY <2>2, QueueAssumption DEF JournalId
  <2>4. journal[j].back \in Role \cup {NoRole}
    BY <2>2 DEF TypeOK, QueueTypeOK, Entry
  <2>5. Envelope(journal[j].back, j) \in Row
    BY <2>3, <2>4, RowTypes
  <2> QED BY <1>1, <2>1, <2>5 DEF SendEnvelope, QueueStep
<1>2. CASE Stamp
  <2>1. MarkRouted(Oldest(batch))
    BY <1>2 DEF Stamp
  <2>2. Unshown
    BY <2>1 DEF MarkRouted, Unshown, TypeOK, QueueTypeOK, Entry
  <2> QED BY <2>2 DEF QueueStep
<1>3. CASE FailJournal
  <2>1. rjid \in Jobs /\ journal[rjid].state = "processing"
        /\ JournalUpdate(rjid, "failed", NoRole)
    BY <1>3 DEF FailJournal, RecoveryStep, RecoveryInv
  <2> QED BY <2>1 DEF QueueStep, Terminal
<1>4. CASE OrderSummary
  <2>1. SummaryOrder(Summarizer, rjid) \in Row
    BY RowTypes, SupervisorAssumption DEF TypeOK, PassTypeOK
  <2> QED BY <1>4, <2>1 DEF OrderSummary, QueueStep
<1>5. Start \/ SweepOne \/ SweepDone \/ Fetch \/ SpawnDone \/ Recv \/ WatchDone
      \/ ReapDone \/ StopDone \/ LookUpRun \/ KillRun \/ CheckJournal
      \/ PostKilledNotice
      => UNCHANGED queueVars
  BY DEF Start, SweepOne, SweepDone, Fetch, SpawnDone, Recv, WatchDone, ReapDone,
         StopDone, LookUpRun, KillRun, CheckJournal, PostKilledNotice
<1>6. \A r \in Role, p \in Pid :
         Spawn(r, p) \/ Recover(r) \/ Forget(r) => UNCHANGED queueVars
  BY DEF Spawn, Recover, Forget
<1>7. \A r \in Role : Recover(r) \/ Forget(r) => UNCHANGED queueVars
  BY DEF Recover, Forget
<1> QED BY <1>1, <1>2, <1>3, <1>4, <1>5, <1>6, <1>7, QueueRests DEF Pass, Recovery

LEMMA StepQueueStep == IndInv /\ [Next]_vars => QueueStep
<1> SUFFICES ASSUME IndInv, [Next]_vars PROVE QueueStep
  OBVIOUS
<1>1. ASSUME NEW t \in Turns, Submit(t) PROVE QueueStep
  <2>1. t \in Row
    BY RowTypes, QueueAssumption, SupervisorAssumption
  <2> QED BY <1>1, <2>1 DEF Submit, QueueStep
<1>2. ASSUME NEW p \in Pid, Hang(p) \/ Die(p) \/ Unwind(p) \/ DrainGroup(p)
      PROVE  QueueStep
  <2>1. UNCHANGED queueVars
    BY <1>2 DEF Hang, Die, Unwind, DrainGroup
  <2> QED BY <2>1, QueueRests
<1>3. ASSUME RecoveryError \/ Stop \/ Crash PROVE QueueStep
  <2>1. UNCHANGED queueVars
    BY <1>3 DEF RecoveryError, Stop, Crash
  <2> QED BY <2>1, QueueRests
<1>4. ASSUME NEW r \in Role, Terminate(r) \/ Kill(r) PROVE QueueStep
  <2>1. UNCHANGED queueVars
    BY <1>4 DEF Terminate, Kill
  <2> QED BY <2>1, QueueRests
<1>5. ASSUME UNCHANGED vars PROVE QueueStep
  BY <1>5, QueueRests DEF vars
<1>6. ASSUME NEW p \in Pid, Worker(p) PROVE QueueStep
  BY <1>6, WorkerQueueStep
<1>7. CASE Pass
  BY <1>7, PassQueueStep
<1> QED BY <1>1, <1>2, <1>3, <1>4, <1>5, <1>6, <1>7 DEF Next, Environment

(* A terminal journal row keeps its state, whoever is late.                *)
LEMMA TerminalsStay ==
    ASSUME IndInv, [Next]_vars, NEW j \in JournalId, journal[j].state \in Terminal
    PROVE  journal'[j].state = journal[j].state
<1> USE DEF IndInv, TypeOK
<1>1. j \in Jobs
  BY DEF QueueInv, Terminal
<1>2. CASE Unshown
  BY <1>2 DEF Unshown
<1>3. ASSUME NEW r \in Row, Enqueue(r) PROVE journal'[j].state = journal[j].state
  BY <1>3 DEF Enqueue
<1>4. ASSUME NEW i \in inbox, TakeItem(i) PROVE journal'[j].state = journal[j].state
  BY <1>1, <1>4, TakeItemInv DEF SameStates
<1>5. ASSUME NEW k \in Jobs, NEW o \in Terminal, NEW back,
             journal[k].state = "processing", JournalUpdate(k, o, back)
      PROVE  journal'[j].state = journal[j].state
  <2>1. j # k
    BY <1>5 DEF Terminal
  <2> QED BY <1>5, <2>1, JournalUpdateInv
<1> QED BY StepQueueStep, <1>2, <1>3, <1>4, <1>5 DEF QueueStep

(***************************************************************************)
(* The queue implements the ledger.                                        *)
(***************************************************************************)
LEMMA InStateIs ==
    ASSUME NEW s
    PROVE  \A i : i \in InState(s) <=>
               \E j \in JournalId : journal[j].state = s /\ journal[j].row = i
BY DEF InState

LEMMA LedgerUnshown ==
    ASSUME Unshown
    PROVE  UNCHANGED Ledger!vars
<1>1. \A s : InState(s)' = InState(s)
  BY DEF Unshown, InState
<1> QED BY <1>1 DEF Unshown, Ledger!vars

LEMMA LedgerArrive ==
    ASSUME IndInv, NEW r \in Row, Enqueue(r)
    PROVE  Ledger!Next
<1> USE DEF IndInv, TypeOK
<1>1. nextRow \in RowId /\ inbox' = inbox \cup {nextRow} /\ journal' = journal
  BY DEF Enqueue
<1>2. \A s : InState(s)' = InState(s)
  BY <1>1 DEF InState
<1>3. \A s : s # "none" => nextRow \notin InState(s)
  BY InStateIs, QueueBasics DEF QueueInv
<1>4. nextRow \in Ledger!Unseen
  <2>1. nextRow \notin inbox
    BY QueueBasics DEF QueueInv
  <2> QED BY <1>1, <1>3, <2>1 DEF Ledger!Unseen, Terminal
<1>5. Ledger!Arrive(nextRow)
  BY <1>1, <1>2, <1>4 DEF Ledger!Arrive
<1> QED BY <1>1, <1>5 DEF Ledger!Next

LEMMA LedgerBegin ==
    ASSUME IndInv, NEW i \in inbox, TakeItem(i)
    PROVE  Ledger!Next
<1> USE DEF IndInv, TypeOK
<1>1. nextJournal \in JournalId /\ inbox' = inbox \ {i}
  BY DEF TakeItem
<1>2. /\ journal'[nextJournal].row = i
      /\ journal'[nextJournal].state = "processing"
      /\ journal[nextJournal].state = "none"
      /\ \A j \in JournalId : j # nextJournal => journal'[j] = journal[j]
  BY <1>1, QueueBasics DEF TakeItem, QueueTypeOK, QueueInv
<1>3. \A s : s \notin {"none", "processing"} => InState(s)' = InState(s)
  BY <1>1, <1>2 DEF InState
<1>4. InState("processing")' = InState("processing") \cup {i}
  <2>1. \A k : k \in InState("processing")' <=>
          \E j \in JournalId : journal'[j].state = "processing" /\ journal'[j].row = k
    BY DEF InState
  <2>2. \A k : k \in InState("processing")' <=> k \in InState("processing") \/ k = i
    BY <1>1, <1>2, <2>1, InStateIs
  <2> QED BY <2>2
<1>5. [o \in Terminal |-> InState(o)]' = [o \in Terminal |-> InState(o)]
  BY <1>3 DEF Terminal
<1>6. Ledger!Begin(i)
  BY <1>1, <1>4, <1>5 DEF Ledger!Begin
<1> QED BY <1>6, QueueBasics DEF Ledger!Next, QueueInv

LEMMA LedgerEnd ==
    ASSUME IndInv, NEW j \in Jobs, NEW o \in Terminal, NEW back,
           journal[j].state = "processing", JournalUpdate(j, o, back)
    PROVE  Ledger!Next
<1> USE DEF IndInv, TypeOK
<1> DEFINE i == journal[j].row
<1>1. /\ j \in JournalId /\ i \in RowId /\ inbox' = inbox
      /\ journal'[j].state = o /\ journal'[j].row = i
      /\ \A k \in JournalId : k # j => journal'[k] = journal[k]
  <2>1. j \in JournalId /\ i \in RowId
    BY QueueBasics DEF QueueInv
  <2> QED BY <2>1 DEF JournalUpdate, QueueTypeOK, Entry
<1>2. \A k \in JournalId : k # j /\ journal[k].state # "none" => journal[k].row # i
  BY DEF QueueInv
<1>3. \A s, n : n \in InState(s)' <=>
        \E k \in JournalId : journal'[k].state = s /\ journal'[k].row = n
  BY DEF InState
<1>4. InState("processing")' = InState("processing") \ {i}
  <2>1. \A n : n \in InState("processing")' <=> n \in InState("processing") /\ n # i
    BY <1>1, <1>2, <1>3, InStateIs DEF Terminal
  <2> QED BY <2>1
<1>5. InState(o)' = InState(o) \cup {i}
  <2>1. \A n : n \in InState(o)' <=> n \in InState(o) \/ n = i
    BY <1>1, <1>3, InStateIs DEF Terminal
  <2> QED BY <2>1
<1>6. \A s : s \notin {"processing", o} => InState(s)' = InState(s)
  <2>1. ASSUME NEW s, s \notin {"processing", o}
        PROVE  \A n : n \in InState(s)' <=> n \in InState(s)
    BY <1>1, <1>3, <2>1, InStateIs
  <2>2. ASSUME NEW s, s \notin {"processing", o} PROVE InState(s)' = InState(s)
    <3>1. \A n : n \in InState(s)' <=> n \in InState(s)
      BY <2>1, <2>2
    <3> QED BY <3>1
  <2> QED BY <2>2
<1>7. i \in InState("processing")
  BY <1>1, InStateIs
<1>8. [s \in Terminal |-> InState(s)]'
        = [[s \in Terminal |-> InState(s)] EXCEPT ![o] = @ \cup {i}]
  BY <1>5, <1>6 DEF Terminal
<1>9. Ledger!End(i, o)
  BY <1>1, <1>4, <1>7, <1>8 DEF Ledger!End
<1> QED BY <1>1, <1>9 DEF Ledger!Next

(* Every row handed in is begun once, ended once, and never again.         *)
THEOREM LedgerImplemented ==
    ASSUME Managed
    PROVE  Spec => ImplementsLedger
<1>1. Init => Ledger!Init
  BY DEF Init, QueueInit, NoEntry, InState, Ledger!Init, Terminal
<1>2. IndInv /\ [Next]_vars => [Ledger!Next]_(Ledger!vars)
  <2> SUFFICES ASSUME IndInv, [Next]_vars PROVE Ledger!Next \/ UNCHANGED Ledger!vars
    OBVIOUS
  <2>1. CASE Unshown
    BY <2>1, LedgerUnshown
  <2>2. ASSUME NEW r \in Row, Enqueue(r) PROVE Ledger!Next
    BY <2>2, LedgerArrive
  <2>3. ASSUME NEW i \in inbox, TakeItem(i) PROVE Ledger!Next
    BY <2>3, LedgerBegin
  <2>4. ASSUME NEW j \in Jobs, NEW o \in Terminal, NEW back,
               journal[j].state = "processing", JournalUpdate(j, o, back)
        PROVE  Ledger!Next
    BY <2>4, LedgerEnd
  <2> QED BY StepQueueStep, <2>1, <2>2, <2>3, <2>4 DEF QueueStep
<1> QED BY <1>1, <1>2, InvInit, InvStep, PTL DEF Spec, ImplementsLedger, Ledger!Spec

===============================================================================
