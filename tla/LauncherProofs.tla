---------------------------- MODULE LauncherProofs -----------------------------
(***************************************************************************)
(* The launcher, for any set of services and any bounds: what it knows of  *)
(* its processes is right, it never runs two groups of one service, it     *)
(* restarts nothing twice for one nonce, and the core outlives the         *)
(* services.                                                               *)
(***************************************************************************)
EXTENDS Launcher, SequenceTheorems, TLAPS

LEMMA InitType == Init => TypeOK
<1> SUFFICES ASSUME Init PROVE TypeOK
  OBVIOUS
<1>1. 0 \in Nonce /\ 0 \in 0..MaxExits
  BY LauncherAssumption DEF Nonce
<1>2. \A d \in BOOLEAN : NewProc(d) \in Proc
  BY <1>1 DEF NewProc, Proc, Timer
<1>3. Desired \in Snapshot
  BY <1>1 DEF Init, Desired, Snapshot
<1>4. p \in [Rec -> Proc]
  BY <1>2 DEF Init
<1>5. lines \in Seq(Snapshot)
  BY EmptySeq DEF Init
<1>6. /\ tried \in [Rec -> Nonce]
      /\ leader \in [Rec -> {"none", "alive", "killed", "exited"}]
      /\ members \in [Rec -> {"none", "live", "killed"}]
  BY <1>1 DEF Init
<1>7. /\ edits \in Nonce /\ exits \in 0..MaxExits
      /\ unpushed \in BOOLEAN /\ chan \in BOOLEAN /\ snap \in BOOLEAN
      /\ todo \in SUBSET Rec /\ target \in Rec
      /\ lpc \in {"sleep", "reap", "read", "act", "spawn", "stop", "gone"}
      /\ phase \in 0..3 /\ phaseT \in Timer
  <2>1. edits \in Nonce /\ exits \in 0..MaxExits
    BY <1>1 DEF Init
  <2>2. todo \in SUBSET Rec /\ target \in Rec
    BY DEF Init, Rec
  <2>3. /\ unpushed \in BOOLEAN /\ chan \in BOOLEAN /\ snap \in BOOLEAN
        /\ lpc \in {"sleep", "reap", "read", "act", "spawn", "stop", "gone"}
    BY DEF Init
  <2>4. phase \in 0..3 /\ phaseT \in Timer
    BY DEF Init, Timer
  <2> QED BY <2>1, <2>2, <2>3, <2>4
<1> QED BY <1>3, <1>4, <1>5, <1>6, <1>7 DEF TypeOK

LEMMA AppliedType ==
    ASSUME NEW rec \in Proc, NEW w \in {"on", "off", "gone"}, NEW n \in Nonce
    PROVE  /\ AppliedToCore(rec, n) \in Proc
           /\ AppliedToService(rec, w, n) \in Proc
<1>1. AppliedToCore(rec, n) \in Proc
  BY DEF AppliedToCore, Proc, Timer
<1>2. AppliedToService(rec, w, n) \in Proc
  BY DEF AppliedToService, Proc, Timer
<1> QED BY <1>1, <1>2

LEMMA ExitedType ==
    ASSUME NEW rec \in Proc, NEW x \in Exited(rec), NEW d \in Timer
    PROVE  [x EXCEPT !.stopping = FALSE, !.stop = "none", !.drain = d] \in Proc
<1>1. x \in Proc
  BY DEF Exited, Proc, Timer
<1> QED BY <1>1 DEF Proc, Timer

LEMMA KillType ==
    ASSUME TypeOK, NEW R, Kill(R)
    PROVE  /\ leader' \in [Rec -> {"none", "alive", "killed", "exited"}]
           /\ members' \in [Rec -> {"none", "live", "killed"}]
BY DEF TypeOK, Kill

LEMMA StopAllType ==
    ASSUME TypeOK, NEW R, StopAll(R) PROVE p' \in [Rec -> Proc]
<1>1. \A rec \in Proc : Stopping(rec) \in Proc
  BY DEF Stopping, Proc, Timer
<1> QED BY <1>1 DEF TypeOK, StopAll

LEMMA TypeStep == TypeOK /\ [Next]_vars => TypeOK'
<1> SUFFICES ASSUME TypeOK, [Next]_vars PROVE TypeOK'
  OBVIOUS
<1> USE LauncherAssumption DEF TypeOK, coreVars, chanVars, groupVars, passVars,
        stopVars, worldVars
<1>a. \A r \in Rec : p[r] \in Proc
  OBVIOUS
<1>b. "none" \in Timer /\ "set" \in Timer /\ "due" \in Timer
  BY DEF Timer
<1>1. CASE Edits
  <2>0. ASSUME NEW w \in [Service -> {"on", "off", "gone"}],
               NEW n \in [Rec -> Nonce], Commit(w, n)
        PROVE  TypeOK'
    BY <2>0 DEF Commit, Desired, Snapshot, Nonce
  <2>1. want \in [Service -> {"on", "off", "gone"}] /\ nonce \in [Rec -> Nonce]
    BY DEF Desired, Snapshot
  <2>2. edits < MaxEdits => \A r \in Rec : Bumped(r) \in [Rec -> Nonce]
    BY <2>1 DEF Bumped, Nonce
  <2>3. \A w \in [Service -> {"on", "off", "gone"}], n \in [Rec -> Nonce] :
           Commit(w, n) => TypeOK'
    BY <2>0
  <2>4. ASSUME NEW r \in Rec, Restart(r) PROVE TypeOK'
    BY <2>1, <2>2, <2>3, <2>4 DEF Restart, Commit
  <2>5. ASSUME NEW s \in Service, Enable(s) \/ Disable(s) \/ Delete(s)
        PROVE  TypeOK'
    <3>1. /\ [want EXCEPT ![s] = "on"] \in [Service -> {"on", "off", "gone"}]
          /\ [want EXCEPT ![s] = "off"] \in [Service -> {"on", "off", "gone"}]
          /\ [want EXCEPT ![s] = "gone"] \in [Service -> {"on", "off", "gone"}]
      BY <2>1
    <3>2. edits < MaxEdits => Bumped(s) \in [Rec -> Nonce]
      BY <2>2 DEF Rec
    <3>3. CASE Enable(s)
      BY <3>3, <3>1, <3>2, <2>3 DEF Enable, Commit
    <3>4. CASE Disable(s)
      BY <3>4, <3>1, <3>2, <2>1, <2>3 DEF Disable, Commit
    <3>5. CASE Delete(s)
      BY <3>5, <3>1, <2>1, <2>3 DEF Delete
    <3> QED BY <2>5, <3>3, <3>4, <3>5
  <2> QED BY <1>1, <2>4, <2>5 DEF Edits
<1>2. CASE Push
  <2>1. Append(lines, Desired) \in Seq(Snapshot)
    BY AppendProperties
  <2> QED BY <1>2, <2>1 DEF Push, Desired
<1>3. CASE World
  <2>1. ASSUME NEW r \in Rec,
               LeaderExits(r) \/ Fork(r) \/ MembersExit(r) \/ KilledGo(r)
        PROVE  TypeOK'
    <3>1. /\ leader' \in [Rec -> {"none", "alive", "killed", "exited"}]
          /\ members' \in [Rec -> {"none", "live", "killed"}]
          /\ exits' \in 0..MaxExits
      <4>1. CASE LeaderExits(r)
        BY <4>1 DEF LeaderExits
      <4>2. CASE Fork(r)
        BY <4>2 DEF Fork
      <4>3. CASE MembersExit(r)
        BY <4>3 DEF MembersExit
      <4>4. CASE KilledGo(r)
        BY <4>4 DEF KilledGo
      <4> QED BY <2>1, <4>1, <4>2, <4>3, <4>4
    <3>2. UNCHANGED worldVars
      BY <2>1 DEF LeaderExits, Fork, MembersExit, KilledGo
    <3> QED BY <3>1, <3>2 DEF Desired
  <2>2. ASSUME NEW r \in Rec, NEW timer \in {"stop", "retry", "drain"},
               Elapse(r, timer)
        PROVE  TypeOK'
    <3>1. p' \in [Rec -> Proc]
      BY <2>2, <1>b DEF Elapse, Proc
    <3> QED BY <2>2, <3>1 DEF Elapse, Desired
  <2>3. CASE ElapsePhase
    BY <2>3, <1>b DEF ElapsePhase, Desired
  <2> QED BY <1>3, <2>1, <2>2, <2>3 DEF World
<1>4. CASE FirstSignal
  <2>1. p' \in [Rec -> Proc]
    BY <1>4, <1>a DEF FirstSignal, Proc
  <2> QED BY <1>4, <1>b, <2>1 DEF FirstSignal, Desired
<1>5. CASE NextSignal
  BY <1>5, KillType DEF NextSignal, Desired
<1>6. CASE Wake \/ ReapDone \/ Sleep
  BY <1>6 DEF Wake, ReapDone, Sleep, Desired
<1>7. CASE ReadLine
  <2>1. /\ lines \in Seq(Snapshot) /\ lines # <<>>
        /\ Head(lines) \in Snapshot /\ Tail(lines) \in Seq(Snapshot)
    BY <1>7, HeadTailProperties DEF ReadLine
  <2>2. p' \in [Rec -> Proc]
    <3> DEFINE h == Head(lines)
    <3>1. \A r \in Rec : h.nonce[r] \in Nonce
      BY <2>1 DEF Snapshot
    <3>2. \A s \in Service : h.want[s] \in {"on", "off", "gone"}
      BY <2>1 DEF Snapshot
    <3>3. AppliedToCore(p[Core], h.nonce[Core]) \in Proc
      BY <1>a, <3>1, AppliedType DEF Rec
    <3>4. \A s \in Service : AppliedToService(p[s], h.want[s], h.nonce[s]) \in Proc
      BY <1>a, <3>1, <3>2, AppliedType DEF Rec
    <3>5. CASE phase # 0
      BY <1>7, <3>5 DEF ReadLine
    <3>6. CASE phase = 0
      BY <1>7, <3>3, <3>4, <3>6 DEF ReadLine, Rec
    <3> QED BY <3>5, <3>6
  <2> QED BY <1>7, <2>1, <2>2 DEF ReadLine, Desired
<1>8. CASE ReadDone
  BY <1>8 DEF ReadDone, ReadAll, Desired, Rec
<1>9. CASE Spawn
  <2>1. p' \in [Rec -> Proc]
    BY <1>9, <1>a, <1>b DEF Spawn, Proc
  <2>2. tried' \in [Rec -> Nonce]
    BY <1>9, <1>a DEF Spawn, Proc
  <2>3. <<>> \in Seq(Snapshot)
    BY EmptySeq
  <2> QED BY <1>9, <2>1, <2>2, <2>3 DEF Spawn, Desired
<1>10. CASE SpawnFails
  <2>1. p' \in [Rec -> Proc]
    <3>1. PICK state \in {"blocked", "failed"} : p' = [p EXCEPT ![target].state = state]
      BY <1>10 DEF SpawnFails
    <3>2. [p[target] EXCEPT !.state = state] \in Proc
      BY <1>a DEF Proc
    <3> QED BY <3>1, <3>2
  <2> QED BY <1>10, <2>1 DEF SpawnFails, Desired
<1>11. ASSUME NEW r \in Rec, Reap(r) PROVE TypeOK'
  <2>1. p' \in [Rec -> Proc]
    <3> DEFINE d == IF members[r] = "none" THEN "none" ELSE "set"
               after(x) == [x EXCEPT !.stopping = FALSE, !.stop = "none",
                                     !.drain = d]
    <3>1. PICK rec \in Exited(p[r]) : p' = [p EXCEPT ![r] = after(rec)]
      BY <1>11 DEF Reap
    <3>2. d \in Timer
      BY <1>b
    <3>3. after(rec) \in Proc
      BY <1>a, <3>2, ExitedType
    <3> HIDE DEF after
    <3> QED BY <3>1, <3>3
  <2>2. <<>> \in Seq(Snapshot)
    BY EmptySeq
  <2> QED BY <1>11, <2>1, <2>2 DEF Reap, Desired
<1>12. ASSUME NEW r \in Rec, Reconcile(r) PROVE TypeOK'
  <2> USE DEF Handled, Turn
  <2>1. CASE EndDrain(r)
    <3>1. p' \in [Rec -> Proc]
      BY <2>1, <1>a, <1>b DEF EndDrain, ForgetGroups, Proc
    <3> QED BY <2>1, <3>1 DEF EndDrain, ForgetGroups, Desired
  <2>2. CASE StillDrains(r) \/ RunsOn(r)
    BY <2>2 DEF StillDrains, RunsOn, Desired
  <2>3. CASE Escalate(r)
    <3>1. p' \in [Rec -> Proc]
      <4>1. [p[r] EXCEPT !.stop = "none"] \in Proc
        BY <1>a, <1>b DEF Proc
      <4> QED BY <2>3, <4>1 DEF Escalate
    <3>2. /\ leader' \in [Rec -> {"none", "alive", "killed", "exited"}]
          /\ members' \in [Rec -> {"none", "live", "killed"}]
      BY <2>3, KillType DEF Escalate
    <3> QED BY <2>3, <3>1, <3>2 DEF Escalate, Desired
  <2>4. CASE RequestStop(r)
    <3>1. p' \in [Rec -> Proc]
      BY <2>4, <1>a, <1>b DEF RequestStop, Stopping, Proc
    <3> QED BY <2>4, <3>1 DEF RequestStop, Desired
  <2>5. CASE RestartBlocked(r)
    <3>1. p' \in [Rec -> Proc] /\ tried' \in [Rec -> Nonce]
      BY <2>5, <1>a DEF RestartBlocked, Proc
    <3> QED BY <2>5, <3>1 DEF RestartBlocked, Desired
  <2>6. CASE StaysOff(r)
    <3>1. p' \in [Rec -> Proc]
      <4>1. [p[r] EXCEPT !.state = "stopped", !.retry = "none"] \in Proc
        BY <1>a, <1>b DEF Proc
      <4> QED BY <2>6, <4>1 DEF StaysOff
    <3> QED BY <2>6, <3>1 DEF StaysOff, Desired
  <2>7. CASE Blocked(r)
    <3>1. p' \in [Rec -> Proc]
      BY <2>7, <1>a DEF Blocked, Proc
    <3> QED BY <2>7, <3>1 DEF Blocked, Desired
  <2>8. CASE Decide(r)
    BY <2>8 DEF Decide, Desired
  <2> QED BY <1>12, <2>1, <2>2, <2>3, <2>4, <2>5, <2>6, <2>7, <2>8 DEF Reconcile
<1>13. ASSUME NEW s \in Service, Forget(s) PROVE TypeOK'
  <2>1. 0 \in Nonce /\ NewProc(FALSE) \in Proc
    BY DEF Nonce, NewProc, Proc, Timer
  <2> QED BY <1>13, <2>1 DEF Forget, Desired, Rec
<1>14. CASE Shutdown
  <2>1. CASE EndDrains
    <3>1. p' \in [Rec -> Proc]
      BY <2>1, <1>a, <1>b DEF EndDrains, ForgetGroups, Proc
    <3> QED BY <2>1, <3>1 DEF EndDrains, ReadAll, ForgetGroups, Desired
  <2>2. CASE StopServices \/ StopCore
    <3>1. p' \in [Rec -> Proc]
      BY <2>2, StopAllType DEF StopServices, StopCore
    <3>2. /\ leader' \in [Rec -> {"none", "alive", "killed", "exited"}]
          /\ members' \in [Rec -> {"none", "live", "killed"}]
          /\ phaseT' \in Timer
      BY <2>2, <1>b, KillType DEF StopServices, StopCore, Press
    <3> QED BY <2>2, <3>1, <3>2 DEF StopServices, StopCore, Desired
  <2>3. CASE CorePhase
    BY <2>3, <1>b DEF CorePhase, Desired
  <2>4. CASE KillAll
    BY <2>4, KillType DEF KillAll, Desired
  <2>5. CASE Finish
    BY <2>5 DEF Finish, Desired
  <2> QED BY <1>14, <2>1, <2>2, <2>3, <2>4, <2>5 DEF Shutdown
<1>15. CASE UNCHANGED vars
  BY <1>15 DEF vars, Desired
<1> QED BY <1>1, <1>2, <1>3, <1>4, <1>5, <1>6, <1>7, <1>8, <1>9, <1>10, <1>11,
           <1>12, <1>13, <1>14, <1>15 DEF Next, Signals, Pass

-----------------------------------------------------------------------------
(* What the launcher knows of the groups of its processes.                 *)
GroupInv ==
    /\ \A r \in Rec : RecInv(r)
    /\ SpawnInv /\ PhaseInv /\ CoreOutlivesServices

LEMMA KillFacts ==
    ASSUME TypeOK, NEW R, Kill(R), NEW r \in Rec
    PROVE  /\ (leader'[r] = "none") = (leader[r] = "none")
           /\ (members'[r] = "none") = (members[r] = "none")
BY DEF TypeOK, Kill

LEMMA AppliedFacts ==
    ASSUME NEW rec \in Proc, NEW w \in {"on", "off", "gone"}, NEW n \in Nonce
    PROVE  LET c == AppliedToCore(rec, n)
               s == AppliedToService(rec, w, n)
           IN  /\ c.stopping = rec.stopping /\ s.stopping = rec.stopping
               /\ c.stop = rec.stop /\ s.stop = rec.stop
               /\ c.drain = rec.drain /\ s.drain = rec.drain
<1>1. LET c == AppliedToCore(rec, n)
      IN  c.stopping = rec.stopping /\ c.stop = rec.stop /\ c.drain = rec.drain
  BY DEF AppliedToCore, Proc
<1>2. LET s == AppliedToService(rec, w, n)
      IN  s.stopping = rec.stopping /\ s.stop = rec.stop /\ s.drain = rec.drain
  BY DEF AppliedToService, Proc
<1> QED BY <1>1, <1>2

(* A step that only works on records, and starts, stops and drains nothing. *)
LEMMA GroupFrame ==
    ASSUME GroupInv,
           \A r \in Rec : /\ (leader'[r] = "none") = (leader[r] = "none")
                          /\ members'[r] # "none" => members[r] # "none"
                          /\ p'[r].stopping = p[r].stopping
                          /\ p'[r].stop # "none" => p[r].stop # "none"
                          /\ (p'[r].drain = "none") = (p[r].drain = "none"),
           target \in Rec,
           lpc' = "spawn" => lpc = "spawn" /\ target' = target,
           phase' = 2 => phase = 2 /\ (lpc' = "act" => lpc = "act")
    PROVE  GroupInv'
<1>1. ASSUME NEW r \in Rec PROVE RecInv(r)'
  BY DEF GroupInv, RecInv, Owned
<1>2. SpawnInv'
  BY DEF GroupInv, SpawnInv, Idle
<1>3. PhaseInv' /\ CoreOutlivesServices'
  BY DEF GroupInv, PhaseInv, CoreOutlivesServices, Rec
<1> QED BY <1>1, <1>2, <1>3 DEF GroupInv

LEMMA GroupInit == Init => GroupInv
BY DEF Init, GroupInv, RecInv, SpawnInv, PhaseInv, CoreOutlivesServices, NewProc,
       Owned, Idle

LEMMA GroupStep == TypeOK /\ TypeOK' /\ GroupInv /\ [Next]_vars => GroupInv'
<1> SUFFICES ASSUME TypeOK, TypeOK', GroupInv, [Next]_vars PROVE GroupInv'
  OBVIOUS
<1> USE DEF coreVars, chanVars, groupVars, passVars, stopVars, worldVars
<1>a. \A r \in Rec : p[r] \in Proc
  BY DEF TypeOK
<1>b. target \in Rec
  BY DEF TypeOK
<1>c. \A r \in Rec : RecInv(r)
  BY DEF GroupInv
<1>1. CASE Edits \/ Push \/ ElapsePhase \/ UNCHANGED vars
  <2>1. UNCHANGED <<p, leader, members, lpc, target, phase>>
    BY <1>1 DEF Edits, Restart, Enable, Disable, Delete, Commit, Push, ElapsePhase,
                vars
  <2> QED BY <2>1, <1>b, GroupFrame
<1>2. ASSUME NEW r \in Rec, LeaderExits(r) \/ MembersExit(r) \/ KilledGo(r)
      PROVE  GroupInv'
  <2>1. CASE LeaderExits(r)
    BY <2>1, <1>b, GroupFrame DEF LeaderExits, TypeOK
  <2>2. CASE MembersExit(r)
    BY <2>2, <1>b, GroupFrame DEF MembersExit, TypeOK
  <2>3. CASE KilledGo(r)
    BY <2>3, <1>b, GroupFrame DEF KilledGo, TypeOK
  <2> QED BY <1>2, <2>1, <2>2, <2>3
<1>3. ASSUME NEW r \in Rec, Fork(r) PROVE GroupInv'
  <2>1. /\ leader[r] = "alive" /\ members' = [members EXCEPT ![r] = "live"]
        /\ UNCHANGED <<p, leader, lpc, target, phase>>
    BY <1>3 DEF Fork
  <2>2. ASSUME NEW q \in Rec PROVE RecInv(q)'
    BY <2>1, <1>c DEF TypeOK, RecInv, Owned
  <2>3. SpawnInv' /\ PhaseInv'
    BY <2>1 DEF GroupInv, SpawnInv, PhaseInv, Idle
  <2>4. CoreOutlivesServices'
    BY <2>1 DEF GroupInv, CoreOutlivesServices, TypeOK, Rec
  <2> QED BY <2>2, <2>3, <2>4 DEF GroupInv
<1>4. ASSUME NEW r \in Rec, NEW timer \in {"stop", "retry", "drain"}, Elapse(r, timer)
      PROVE  GroupInv'
  <2>1. \A q \in Rec : /\ p'[q].stopping = p[q].stopping
                       /\ p'[q].stop # "none" => p[q].stop # "none"
                       /\ (p'[q].drain = "none") = (p[q].drain = "none")
    BY <1>4, <1>a DEF Elapse, Proc, TypeOK
  <2> QED BY <1>4, <2>1, <1>b, GroupFrame DEF Elapse
<1>5. CASE FirstSignal
  <2>1. \A q \in Rec : /\ p'[q].stopping = p[q].stopping
                       /\ p'[q].stop = p[q].stop /\ p'[q].drain = p[q].drain
    BY <1>5, <1>a DEF FirstSignal, Proc
  <2> QED BY <1>5, <2>1, <1>b, GroupFrame DEF FirstSignal
<1>6. CASE NextSignal
  BY <1>6, <1>b, KillFacts, GroupFrame DEF NextSignal
<1>7. CASE Wake \/ ReapDone \/ Sleep
  BY <1>7, <1>b, GroupFrame DEF Wake, ReapDone, Sleep
<1>8. CASE ReadDone
  BY <1>8, <1>b, GroupFrame DEF ReadDone
<1>9. CASE ReadLine
  <2>1. \A q \in Rec : /\ p'[q].stopping = p[q].stopping
                       /\ p'[q].stop = p[q].stop /\ p'[q].drain = p[q].drain
    <3> DEFINE h == Head(lines)
    <3>1. h \in Snapshot
      BY <1>9, HeadTailProperties DEF ReadLine, TypeOK
    <3>2. \A r \in Rec : h.nonce[r] \in Nonce
      BY <3>1 DEF Snapshot
    <3>3. \A s \in Service : h.want[s] \in {"on", "off", "gone"}
      BY <3>1 DEF Snapshot
    <3>4. CASE phase # 0
      BY <1>9, <3>4 DEF ReadLine
    <3>5. CASE phase = 0
      <4>1. /\ p'[Core] = AppliedToCore(p[Core], h.nonce[Core])
            /\ \A s \in Service : p'[s] = AppliedToService(p[s], h.want[s], h.nonce[s])
        BY <1>9, <3>5, LauncherAssumption DEF ReadLine, Rec
      <4>2. Core \in Rec /\ \A s \in Service : s \in Rec
        BY DEF Rec
      <4>3. /\ p'[Core].stopping = p[Core].stopping
            /\ p'[Core].stop = p[Core].stop /\ p'[Core].drain = p[Core].drain
        BY <4>1, <4>2, <1>a, <3>2, AppliedFacts
      <4>4. \A s \in Service : /\ p'[s].stopping = p[s].stopping
                               /\ p'[s].stop = p[s].stop /\ p'[s].drain = p[s].drain
        BY <4>1, <4>2, <1>a, <3>2, <3>3, AppliedFacts
      <4> QED BY <4>3, <4>4 DEF Rec
    <3> QED BY <3>4, <3>5
  <2> QED BY <1>9, <2>1, <1>b, GroupFrame DEF ReadLine
<1>10. CASE Spawn
  <2>1. Idle(target) /\ phase # 2
    BY <1>10 DEF Spawn, GroupInv, SpawnInv, PhaseInv
  <2>2. ASSUME NEW r \in Rec PROVE RecInv(r)'
    <3>1. CASE r = target
      BY <1>10, <1>b, <1>a, <1>c, <2>1, <3>1 DEF Spawn, RecInv, Owned, Idle, TypeOK, Proc
    <3>2. CASE r # target
      BY <1>10, <1>b, <1>c, <3>2 DEF Spawn, RecInv, Owned, TypeOK
    <3> QED BY <3>1, <3>2
  <2> QED BY <1>10, <2>1, <2>2 DEF Spawn, GroupInv, SpawnInv, PhaseInv,
             CoreOutlivesServices
<1>11. CASE SpawnFails
  <2>1. PICK state \in {"blocked", "failed"} : p' = [p EXCEPT ![target].state = state]
    BY <1>11 DEF SpawnFails
  <2>2. \A q \in Rec : /\ p'[q].stopping = p[q].stopping
                       /\ p'[q].stop = p[q].stop /\ p'[q].drain = p[q].drain
    BY <2>1, <1>a, <1>b DEF Proc, TypeOK
  <2>3. phase # 2
    BY <1>11 DEF SpawnFails, GroupInv, PhaseInv
  <2> QED BY <1>11, <2>2, <2>3, <1>b, GroupFrame DEF SpawnFails
<1>12. ASSUME NEW r \in Rec, Reap(r) PROVE GroupInv'
  <2> DEFINE d == IF members[r] = "none" THEN "none" ELSE "set"
  <2>1. PICK rec \in Exited(p[r]) :
          p' = [p EXCEPT ![r] = [rec EXCEPT !.stopping = FALSE, !.stop = "none",
                                            !.drain = d]]
    BY <1>12 DEF Reap
  <2>2. rec \in Proc
    BY <2>1, <1>a DEF Exited, Proc, Timer
  <2>3. p'[r].stopping = FALSE /\ p'[r].stop = "none" /\ p'[r].drain = d
    BY <2>1, <2>2 DEF TypeOK, Proc
  <2>4. ASSUME NEW q \in Rec PROVE RecInv(q)'
    <3>1. CASE q = r
      BY <1>12, <2>3, <3>1 DEF Reap, RecInv, Owned, TypeOK
    <3>2. CASE q # r
      BY <1>12, <2>1, <1>c, <3>2 DEF Reap, RecInv, Owned, TypeOK
    <3> QED BY <3>1, <3>2
  <2>5. SpawnInv' /\ PhaseInv' /\ CoreOutlivesServices'
    BY <1>12 DEF Reap, GroupInv, SpawnInv, PhaseInv, CoreOutlivesServices, TypeOK, Rec
  <2> QED BY <2>4, <2>5 DEF GroupInv

<1>13. ASSUME NEW r \in Rec, Reconcile(r) PROVE GroupInv'
  <2> USE DEF Handled, Turn
  <2>1. lpc = "act" /\ phase # 2
    BY <1>13 DEF Reconcile, EndDrain, StillDrains, Escalate, RequestStop,
                 RestartBlocked, RunsOn, StaysOff, Blocked, Decide,
                 GroupInv, PhaseInv
  <2>2. CASE EndDrain(r)
    <3>1. \A q \in Rec : /\ p'[q].stopping = p[q].stopping
                         /\ p'[q].stop = p[q].stop
                         /\ q # r => p'[q] = p[q] /\ members'[q] = members[q]
      BY <2>2, <1>a DEF EndDrain, ForgetGroups, Proc
    <3>2. p'[r].drain = "none" /\ members'[r] = "none" /\ leader[r] = "none"
      BY <2>2, <1>a, <1>c DEF EndDrain, DrainOver, ForgetGroups, RecInv, Proc
    <3>3. UNCHANGED <<leader, lpc, target, phase>>
      BY <2>2 DEF EndDrain, ForgetGroups
    <3>4. ASSUME NEW q \in Rec PROVE RecInv(q)'
      BY <3>1, <3>2, <3>3, <1>c DEF RecInv, Owned
    <3> QED BY <2>1, <3>1, <3>2, <3>3, <3>4
            DEF GroupInv, SpawnInv, PhaseInv, CoreOutlivesServices, Rec
  <2>3. CASE StillDrains(r) \/ RunsOn(r)
    BY <2>3, <1>b, GroupFrame DEF StillDrains, RunsOn
  <2>4. CASE Escalate(r)
    <3>1. CASE p[r].stop = "due"
      <4>1. \A q \in Rec : /\ p'[q].stopping = p[q].stopping
                           /\ p'[q].stop # "none" => p[q].stop # "none"
                           /\ p'[q].drain = p[q].drain
        BY <2>4, <3>1, <1>a DEF Escalate, Proc, TypeOK
      <4>2. Kill({r})
        BY <2>4, <3>1 DEF Escalate
      <4> QED BY <2>1, <2>4, <4>1, <4>2, <1>b, KillFacts, GroupFrame DEF Escalate
    <3>2. CASE p[r].stop # "due"
      BY <2>1, <2>4, <3>2, <1>b, GroupFrame DEF Escalate
    <3> QED BY <3>1, <3>2
  <2>5. CASE RequestStop(r)
    <3>1. /\ p'[r].stopping = TRUE /\ p'[r].drain = p[r].drain
          /\ leader[r] # "none"
          /\ \A q \in Rec : q # r => p'[q] = p[q]
      BY <2>5, <1>a DEF RequestStop, Stopping, Proc, TypeOK
    <3>2. UNCHANGED <<leader, members, lpc, target, phase>>
      BY <2>5 DEF RequestStop
    <3>3. ASSUME NEW q \in Rec PROVE RecInv(q)'
      BY <3>1, <3>2, <1>c DEF RecInv, Owned
    <3> QED BY <2>1, <3>1, <3>2, <3>3
            DEF GroupInv, SpawnInv, PhaseInv, CoreOutlivesServices, Idle
  <2>6. CASE RestartBlocked(r)
    <3>1. \A q \in Rec : /\ p'[q].stopping = p[q].stopping
                         /\ p'[q].stop = p[q].stop /\ p'[q].drain = p[q].drain
      BY <2>6, <1>a DEF RestartBlocked, Proc, TypeOK
    <3> QED BY <2>1, <2>6, <3>1, <1>b, GroupFrame DEF RestartBlocked
  <2>7. CASE StaysOff(r)
    <3>1. \A q \in Rec : /\ p'[q].stopping = p[q].stopping
                         /\ p'[q].stop = p[q].stop /\ p'[q].drain = p[q].drain
      BY <2>7, <1>a DEF StaysOff, Proc, TypeOK
    <3> QED BY <2>1, <2>7, <3>1, <1>b, GroupFrame DEF StaysOff
  <2>8. CASE Blocked(r)
    <3>1. \A q \in Rec : /\ p'[q].stopping = p[q].stopping
                         /\ p'[q].stop = p[q].stop /\ p'[q].drain = p[q].drain
      BY <2>8, <1>a DEF Blocked, Proc, TypeOK
    <3> QED BY <2>1, <2>8, <3>1, <1>b, GroupFrame DEF Blocked
  <2>9. CASE Decide(r)
    <3>1. UNCHANGED <<p, leader, members, phase>> /\ target' = r /\ Idle(r)
      BY <2>9 DEF Decide, Startable
    <3> QED BY <2>1, <3>1
            DEF GroupInv, RecInv, Owned, SpawnInv, PhaseInv, CoreOutlivesServices, Idle
  <2> QED BY <1>13, <2>2, <2>3, <2>4, <2>5, <2>6, <2>7, <2>8, <2>9 DEF Reconcile
<1>14. ASSUME NEW s \in Service, Forget(s) PROVE GroupInv'
  <2>1. /\ p'[s] = NewProc(FALSE) /\ Idle(s) /\ members[s] = "none"
        /\ \A q \in Rec : q # s => p'[q] = p[q]
    BY <1>14 DEF Forget, TypeOK, Rec
  <2>2. UNCHANGED <<leader, members, lpc, target, phase>>
    BY <1>14 DEF Forget
  <2>3. ASSUME NEW q \in Rec PROVE RecInv(q)'
    BY <2>1, <2>2, <1>c DEF RecInv, Owned, Idle, NewProc
  <2>4. lpc = "act" /\ phase # 2
    BY <1>14 DEF Forget, GroupInv, PhaseInv
  <2> QED BY <2>2, <2>3, <2>4
          DEF GroupInv, SpawnInv, PhaseInv, CoreOutlivesServices, Idle
<1>15. CASE EndDrains
  <2>1. \A q \in Rec : /\ p'[q].stopping = p[q].stopping
                       /\ p'[q].stop = p[q].stop
                       /\ p'[q].drain # p[q].drain => leader[q] = "none" /\ members'[q] = "none"
                       /\ p'[q].drain # "none" => p[q].drain # "none"
                       /\ members'[q] # "none" => members[q] # "none"
    BY <1>15, <1>a, <1>c DEF EndDrains, ForgetGroups, DrainOver, RecInv, Proc
  <2>2. UNCHANGED <<leader, target, phase>> /\ lpc' = "stop"
    BY <1>15 DEF EndDrains, ForgetGroups
  <2>3. ASSUME NEW q \in Rec PROVE RecInv(q)'
    BY <2>1, <2>2, <1>c DEF RecInv, Owned
  <2> QED BY <2>1, <2>2, <2>3
          DEF GroupInv, SpawnInv, PhaseInv, CoreOutlivesServices, Rec
<1>16. CASE StopServices \/ StopCore
  <2>1. \A q \in Rec : \/ p'[q] = p[q]
                       \/ /\ leader[q] # "none" /\ p'[q].stopping = TRUE
                          /\ p'[q].drain = p[q].drain
    BY <1>16, <1>a DEF StopServices, StopCore, StopAll, Stopping, Proc
  <2>2. UNCHANGED <<target, phase>> /\ lpc' = "sleep"
    BY <1>16 DEF StopServices, StopCore
  <2>3. \A q \in Rec : /\ (leader'[q] = "none") = (leader[q] = "none")
                       /\ (members'[q] = "none") = (members[q] = "none")
    BY <1>16, KillFacts DEF StopServices, StopCore, Press
  <2>4. ASSUME NEW q \in Rec PROVE RecInv(q)'
    BY <2>1, <2>3, <1>c DEF RecInv, Owned
  <2> QED BY <2>2, <2>3, <2>4
          DEF GroupInv, SpawnInv, PhaseInv, CoreOutlivesServices, Rec
<1>17. CASE CorePhase
  <2>1. /\ UNCHANGED <<p, leader, members, lpc, target>> /\ lpc = "stop"
        /\ \A s \in Service : ~Live(s)
    BY <1>17 DEF CorePhase, LiveServices
  <2>2. \A s \in Service : leader[s] = "none" /\ members[s] = "none"
    BY <2>1, <1>c DEF Live, RecInv, Rec
  <2> QED BY <2>1, <2>2
          DEF GroupInv, RecInv, Owned, SpawnInv, PhaseInv, CoreOutlivesServices
<1>18. CASE KillAll
  BY <1>18, <1>b, KillFacts, GroupFrame DEF KillAll
<1>19. CASE Finish
  BY <1>19, <1>b, GroupFrame DEF Finish
<1> QED BY <1>1, <1>2, <1>3, <1>4, <1>5, <1>6, <1>7, <1>8, <1>9, <1>10, <1>11,
           <1>12, <1>13, <1>14, <1>15, <1>16, <1>17, <1>18, <1>19
        DEF Next, World, Signals, Pass, Shutdown

-----------------------------------------------------------------------------
(* The nonces, from the settings through the socket to the processes.      *)
NonceOrder ==
    /\ \A r \in Rec : NonceInv(r)
    /\ p[Core].known => snap

(* What a record knows of nonces is the same, or its process is none.      *)
LEMMA NonceFrame ==
    ASSUME NonceOrder,
           UNCHANGED <<nonce, edits, lines, snap, tried>>,
           \A r \in Rec : /\ p'[r].nonce = p[r].nonce /\ p'[r].known = p[r].known
                          /\ p'[r].pending => p[r].pending
                          /\ p'[r].stopping \/ ~p[r].stopping \/ leader'[r] = "none"
                          /\ leader'[r] # "none" => leader[r] # "none"
    PROVE  NonceOrder'
<1>1. ASSUME NEW r \in Rec PROVE NonceInv(r)'
  BY DEF NonceOrder, NonceInv
<1> QED BY <1>1 DEF NonceOrder, Rec

LEMMA NonceInit == Init => NonceOrder
BY LauncherAssumption DEF Init, NonceOrder, NonceInv, NewProc, Rec

LEMMA NonceEdit ==
    ASSUME TypeOK, NonceOrder, NEW w, NEW n, Commit(w, n),
           n = nonce \/ \E r \in Rec : n = Bumped(r)
    PROVE  NonceOrder'
<1>1. /\ edits' = edits + 1 /\ nonce' = n
      /\ UNCHANGED <<lines, snap, p, leader, tried>>
  BY DEF Commit, chanVars, groupVars
<1>2. edits \in Nat /\ \A r \in Rec : nonce[r] \in Nat /\ nonce[r] <= edits
  BY LauncherAssumption DEF TypeOK, Nonce, NonceOrder, NonceInv, Desired, Snapshot
<1>3. \A r \in Rec : /\ nonce'[r] \in Nat
                     /\ nonce[r] <= nonce'[r] /\ nonce'[r] <= edits'
  <2>1. CASE n = nonce
    BY <1>1, <1>2, <2>1
  <2>2. ASSUME NEW q \in Rec, n = Bumped(q)
        PROVE  \A r \in Rec : /\ nonce'[r] \in Nat
                              /\ nonce[r] <= nonce'[r] /\ nonce'[r] <= edits'
    BY <1>1, <1>2, <2>2 DEF Bumped, TypeOK, Desired, Snapshot
  <2> QED BY <2>1, <2>2
<1>4. /\ \A r \in Rec : nonce'[r] \in Nat /\ p[r].nonce \in Nat
      /\ \A i \in 1..Len(lines), r \in Rec : lines[i].nonce[r] \in Nat
  <2>1. \A r \in Rec : nonce'[r] \in Nat
    BY <1>3
  <2>2. \A r \in Rec : p[r].nonce \in Nat
    BY LauncherAssumption DEF TypeOK, Proc, Nonce
  <2>3. \A i \in 1..Len(lines) : lines[i] \in Snapshot
    BY ElementOfSeq DEF TypeOK
  <2> QED BY <2>1, <2>2, <2>3, LauncherAssumption DEF Snapshot, Nonce
<1>5. ASSUME NEW r \in Rec PROVE NonceInv(r)'
  BY <1>1, <1>2, <1>3, <1>4 DEF NonceOrder, NonceInv
<1> QED BY <1>1, <1>5 DEF NonceOrder

LEMMA NonceStep ==
    TypeOK /\ TypeOK' /\ GroupInv /\ NonceOrder /\ [Next]_vars => NonceOrder'
<1> SUFFICES ASSUME TypeOK, TypeOK', GroupInv, NonceOrder, [Next]_vars
             PROVE  NonceOrder'
  OBVIOUS
<1> USE DEF coreVars, chanVars, groupVars, passVars, stopVars, worldVars
<1>a. \A r \in Rec : p[r] \in Proc
  BY DEF TypeOK
<1>b. target \in Rec
  BY DEF TypeOK
<1>c. \A r \in Rec : NonceInv(r)
  BY DEF NonceOrder
<1>d. /\ edits \in Nat
      /\ \A r \in Rec : nonce[r] \in Nat /\ p[r].nonce \in Nat /\ tried[r] \in Nat
      /\ \A i \in 1..Len(lines) : lines[i] \in Snapshot
      /\ \A i \in 1..Len(lines), r \in Rec : lines[i].nonce[r] \in Nat
  <2>1. \A i \in 1..Len(lines) : lines[i] \in Snapshot
    BY ElementOfSeq DEF TypeOK
  <2>2. /\ edits \in Nonce /\ nonce \in [Rec -> Nonce] /\ tried \in [Rec -> Nonce]
        /\ \A r \in Rec : p[r].nonce \in Nonce
    BY <1>a DEF TypeOK, Desired, Snapshot, Proc
  <2>3. \A i \in 1..Len(lines), r \in Rec : lines[i].nonce[r] \in Nonce
    BY <2>1 DEF Snapshot
  <2>4. \A x \in Nonce : x \in Nat
    BY LauncherAssumption DEF Nonce
  <2> QED BY <2>1, <2>2, <2>3, <2>4
<1>1. CASE Edits
  <2>1. nonce = nonce
    OBVIOUS
  <2>2. ASSUME NEW r \in Rec, Restart(r) PROVE NonceOrder'
    BY <2>2, NonceEdit DEF Restart
  <2>3. ASSUME NEW s \in Service, Enable(s) PROVE NonceOrder'
    BY <2>3, NonceEdit DEF Enable, Rec
  <2>4. ASSUME NEW s \in Service, Disable(s) PROVE NonceOrder'
    BY <2>4, NonceEdit DEF Disable, Rec
  <2>5. ASSUME NEW s \in Service, Delete(s) PROVE NonceOrder'
    BY <2>5, NonceEdit DEF Delete
  <2> QED BY <1>1, <2>2, <2>3, <2>4, <2>5 DEF Edits
<1>2. CASE Push
  <2>1. /\ UNCHANGED <<nonce, edits, snap, p, leader, tried>>
        /\ lines' = Append(lines, Desired) \/ lines' = lines
    BY <1>2 DEF Push
  <2>2. CASE lines' = lines
    BY <2>1, <2>2, NonceFrame
  <2>3. CASE lines' = Append(lines, Desired)
    <3>1. /\ Len(lines') = Len(lines) + 1 /\ Len(lines) \in Nat
          /\ \A i \in 1..Len(lines) : lines'[i] = lines[i]
          /\ lines'[Len(lines) + 1].nonce = nonce
      BY <2>3, AppendProperties DEF TypeOK, Desired
    <3>2. ASSUME NEW r \in Rec PROVE NonceInv(r)'
      <4>1. \A i \in 1..Len(lines) : /\ p[r].nonce <= lines[i].nonce[r]
                                    /\ lines[i].nonce[r] <= nonce[r]
                                    /\ lines'[i] = lines[i]
        BY <3>1, <1>c DEF NonceInv
      <4>2. \A i \in 1..Len(lines) : \A j \in i..Len(lines) :
              lines[i].nonce[r] <= lines[j].nonce[r] /\ lines'[j] = lines[j]
        BY <3>1, <1>c DEF NonceInv
      <4>3. lines'[Len(lines) + 1].nonce[r] = nonce[r] /\ p[r].nonce <= nonce[r]
        BY <3>1, <1>c DEF NonceInv
      <4>4. \A i \in 1..Len(lines') : i \in 1..Len(lines) \/ i = Len(lines) + 1
        BY <3>1
      <4>5. \A i \in 1..Len(lines') : /\ p[r].nonce <= lines'[i].nonce[r]
                                     /\ lines'[i].nonce[r] <= nonce[r]
        BY <4>1, <4>3, <4>4, <1>d
      <4>6. ASSUME NEW i \in 1..Len(lines'), NEW j \in i..Len(lines')
            PROVE  lines'[i].nonce[r] <= lines'[j].nonce[r]
        <5>1. CASE j = Len(lines) + 1
          BY <4>3, <4>5, <5>1
        <5>2. CASE j # Len(lines) + 1
          BY <3>1, <4>1, <4>2, <5>2
        <5> QED BY <5>1, <5>2
      <4> QED BY <2>1, <4>5, <4>6, <1>c DEF NonceInv
    <3> QED BY <2>1, <3>2 DEF NonceOrder
  <2> QED BY <2>1, <2>2, <2>3
<1>3. CASE World
  <2>1. ASSUME NEW r \in Rec,
               LeaderExits(r) \/ Fork(r) \/ MembersExit(r) \/ KilledGo(r)
        PROVE  NonceOrder'
    <3>1. /\ UNCHANGED <<nonce, edits, lines, snap, tried, p>>
          /\ \A q \in Rec : leader'[q] # "none" => leader[q] # "none"
      BY <2>1 DEF LeaderExits, Fork, MembersExit, KilledGo, TypeOK
    <3> QED BY <3>1, NonceFrame
  <2>2. ASSUME NEW r \in Rec, NEW timer \in {"stop", "retry", "drain"},
               Elapse(r, timer)
        PROVE  NonceOrder'
    <3>1. \A q \in Rec : /\ p'[q].nonce = p[q].nonce /\ p'[q].known = p[q].known
                         /\ p'[q].pending = p[q].pending
                         /\ p'[q].stopping = p[q].stopping
      BY <2>2, <1>a DEF Elapse, Proc, TypeOK
    <3> QED BY <2>2, <3>1, NonceFrame DEF Elapse
  <2>3. CASE ElapsePhase
    BY <2>3, NonceFrame DEF ElapsePhase
  <2> QED BY <1>3, <2>1, <2>2, <2>3 DEF World
<1>4. CASE FirstSignal
  <2>1. \A q \in Rec : /\ p'[q].nonce = p[q].nonce /\ p'[q].known = p[q].known
                       /\ p'[q].pending = p[q].pending
                       /\ p'[q].stopping = p[q].stopping
    BY <1>4, <1>a DEF FirstSignal, Proc
  <2> QED BY <1>4, <2>1, NonceFrame DEF FirstSignal
<1>5. CASE NextSignal
  BY <1>5, KillFacts, NonceFrame DEF NextSignal
<1>6. CASE Wake \/ ReapDone \/ ReadDone \/ Sleep
  BY <1>6, NonceFrame DEF Wake, ReapDone, ReadDone, ReadAll, Sleep
<1>7. CASE ReadLine
  <2> DEFINE h == Head(lines)
  <2>1. /\ lines # <<>> /\ Len(lines) \in Nat /\ 1 \in 1..Len(lines)
        /\ h = lines[1] /\ lines' = Tail(lines)
        /\ Len(lines') = Len(lines) - 1
        /\ \A i \in 1..Len(lines') : lines'[i] = lines[i + 1] /\ i + 1 \in 1..Len(lines)
    BY <1>7, HeadTailProperties DEF ReadLine, TypeOK
  <2>2. UNCHANGED <<nonce, edits, tried, leader, phase>>
    BY <1>7 DEF ReadLine
  <2>3. \A r \in Rec : /\ h.nonce[r] \in Nat /\ h.nonce[r] \in Nonce
                       /\ p[r].nonce <= h.nonce[r] /\ h.nonce[r] <= nonce[r]
                       /\ \A i \in 1..Len(lines') : h.nonce[r] <= lines'[i].nonce[r]
    BY <2>1, <1>c, <1>d DEF NonceInv, Snapshot
  <2> HIDE DEF h
  <2>4. ASSUME NEW r \in Rec,
               p'[r].nonce = p[r].nonce \/ p'[r].nonce = h.nonce[r],
               p'[r].stopping = p[r].stopping,
               \/ p'[r].pending => p[r].pending /\ p'[r].nonce = p[r].nonce
               \/ p[r].known /\ p'[r].nonce # p[r].nonce,
               p'[r].known \/ (p[r].known = p'[r].known /\ ~p'[r].pending)
        PROVE  NonceInv(r)'
    BY <2>1, <2>2, <2>3, <2>4, <1>c, <1>d DEF NonceInv
  <2>5. CASE phase # 0
    <3>1. UNCHANGED <<p, snap>>
      BY <1>7, <2>5 DEF ReadLine
    <3>2. ASSUME NEW r \in Rec PROVE NonceInv(r)'
      BY <3>1, <2>4, <1>c DEF NonceInv
    <3> QED BY <3>1, <3>2 DEF NonceOrder
  <2>6. CASE phase = 0
    <3>1. /\ p'[Core] = AppliedToCore(p[Core], h.nonce[Core]) /\ snap'
          /\ \A s \in Service : p'[s] = AppliedToService(p[s], h.want[s], h.nonce[s])
      BY <1>7, <2>6, LauncherAssumption DEF ReadLine, Rec, h
    <3>2. NonceInv(Core)'
      <4>1. Core \in Rec /\ p[Core] \in Proc /\ p'[Core] \in Proc
        BY <1>a DEF Rec, TypeOK
      <4>2. ~p[Core].known => ~p[Core].pending
        BY <1>c, <4>1 DEF NonceInv
      <4>3. ~snap => ~p[Core].known
        BY DEF NonceOrder
      <4> QED BY <3>1, <4>1, <4>2, <4>3, <2>3, <2>4 DEF AppliedToCore, Proc
    <3>3. ASSUME NEW s \in Service PROVE NonceInv(s)'
      <4>1. s \in Rec /\ p[s] \in Proc
        BY <1>a DEF Rec
      <4>2. ~p[s].known => ~p[s].pending
        BY <1>c, <4>1 DEF NonceInv
      <4>3. /\ p'[s].nonce = p[s].nonce \/ p'[s].nonce = h.nonce[s]
            /\ p'[s].stopping = p[s].stopping
            /\ \/ p'[s].pending => p[s].pending /\ p'[s].nonce = p[s].nonce
               \/ p[s].known /\ p'[s].nonce # p[s].nonce
            /\ p'[s].known \/ (p[s].known = p'[s].known /\ ~p'[s].pending)
        BY <3>1, <4>1, <4>2, <2>3 DEF AppliedToService, Proc
      <4> QED BY <4>1, <4>3, <2>4
    <3> QED BY <3>1, <3>2, <3>3 DEF NonceOrder, Rec
  <2> QED BY <2>5, <2>6
<1>8. CASE Spawn
  <2>1. /\ UNCHANGED <<nonce, edits, snap>> /\ (lines' = lines \/ lines' = <<>>)
        /\ leader' = [leader EXCEPT ![target] = "alive"]
        /\ tried' = [tried EXCEPT ![target] = p[target].nonce]
    BY <1>8 DEF Spawn
  <2>2. /\ p'[target].nonce = p[target].nonce
        /\ p'[target].known = p[target].known /\ p'[target].pending = FALSE
        /\ \A q \in Rec : q # target => p'[q] = p[q]
    BY <1>8, <1>a, <1>b DEF Spawn, Proc, TypeOK
  <2>3. ASSUME NEW r \in Rec PROVE NonceInv(r)'
    <3>1. /\ p'[r].nonce = p[r].nonce /\ p'[r].known = p[r].known
          /\ p'[r].pending => p[r].pending
          /\ tried'[r] <= p'[r].nonce
          /\ ~(p'[r].pending /\ leader'[r] # "none" /\ ~p'[r].stopping
                 /\ tried'[r] = p'[r].nonce)
      <4>1. CASE r = target
        BY <2>1, <2>2, <1>d, <4>1 DEF TypeOK
      <4>2. CASE r # target
        BY <2>1, <2>2, <1>c, <4>2 DEF NonceInv, TypeOK
      <4> QED BY <4>1, <4>2
    <3>2. CASE lines' = lines
      BY <2>1, <3>1, <3>2, <1>c DEF NonceInv
    <3>3. CASE lines' = <<>>
      BY <2>1, <3>1, <3>3, <1>c DEF NonceInv
    <3> QED BY <2>1, <3>2, <3>3
  <2> QED BY <2>1, <2>2, <2>3 DEF NonceOrder, Rec
<1>9. CASE SpawnFails
  <2>1. PICK state \in {"blocked", "failed"} : p' = [p EXCEPT ![target].state = state]
    BY <1>9 DEF SpawnFails
  <2>2. \A q \in Rec : /\ p'[q].nonce = p[q].nonce /\ p'[q].known = p[q].known
                       /\ p'[q].pending = p[q].pending
                       /\ p'[q].stopping = p[q].stopping
    BY <2>1, <1>a, <1>b DEF Proc, TypeOK
  <2> QED BY <1>9, <2>2, NonceFrame DEF SpawnFails
<1>10. ASSUME NEW r \in Rec, Reap(r) PROVE NonceOrder'
  <2> DEFINE d == IF members[r] = "none" THEN "none" ELSE "set"
  <2>1. PICK rec \in Exited(p[r]) :
          p' = [p EXCEPT ![r] = [rec EXCEPT !.stopping = FALSE, !.stop = "none",
                                            !.drain = d]]
    BY <1>10 DEF Reap
  <2>2. /\ rec \in Proc /\ rec.nonce = p[r].nonce /\ rec.known = p[r].known
        /\ rec.pending => p[r].pending
    BY <2>1, <1>a DEF Exited, Proc, Timer
  <2>3. /\ p'[r].nonce = p[r].nonce /\ p'[r].known = p[r].known
        /\ p'[r].pending => p[r].pending
        /\ \A q \in Rec : q # r => p'[q] = p[q]
    BY <2>1, <2>2 DEF TypeOK, Proc
  <2>4. /\ UNCHANGED <<nonce, edits, snap, tried>>
        /\ lines' = lines \/ lines' = <<>>
        /\ leader' = [leader EXCEPT ![r] = "none"]
    BY <1>10 DEF Reap
  <2>5. ASSUME NEW q \in Rec PROVE NonceInv(q)'
    <3>1. /\ p'[q].nonce = p[q].nonce /\ p'[q].known = p[q].known
          /\ p'[q].pending => p[q].pending
          /\ ~(p'[q].pending /\ leader'[q] # "none" /\ ~p'[q].stopping
                 /\ tried[q] = p[q].nonce)
      BY <2>3, <2>4, <1>c DEF NonceInv, TypeOK
    <3>2. CASE lines' = lines
      BY <2>4, <3>1, <3>2, <1>c DEF NonceInv
    <3>3. CASE lines' = <<>>
      BY <2>4, <3>1, <3>3, <1>c DEF NonceInv
    <3> QED BY <2>4, <3>2, <3>3
  <2> QED BY <2>3, <2>4, <2>5 DEF NonceOrder, Rec
<1>11. ASSUME NEW r \in Rec, Reconcile(r) PROVE NonceOrder'
  <2> USE DEF Handled, Turn
  <2>1. CASE RestartBlocked(r)
    <3>1. /\ p'[r].nonce = p[r].nonce /\ p'[r].known = p[r].known
          /\ p'[r].pending = FALSE
          /\ \A q \in Rec : q # r => p'[q] = p[q]
      BY <2>1, <1>a DEF RestartBlocked, Proc, TypeOK
    <3>2. /\ UNCHANGED <<nonce, edits, lines, snap, leader>>
          /\ tried' = [tried EXCEPT ![r] = p[r].nonce]
      BY <2>1 DEF RestartBlocked
    <3>3. NonceInv(r)'
      BY <3>1, <3>2, <1>c, <1>d DEF NonceInv, TypeOK
    <3>4. ASSUME NEW q \in Rec, q # r PROVE NonceInv(q)'
      BY <3>1, <3>2, <3>4, <1>c DEF NonceInv, TypeOK
    <3> QED BY <3>1, <3>2, <3>3, <3>4 DEF NonceOrder, Rec
  <2>2. CASE ~RestartBlocked(r)
    <3>1. UNCHANGED <<nonce, edits, lines, snap, tried>>
      BY <1>11, <2>2 DEF Reconcile, EndDrain, StillDrains, Escalate, RequestStop,
                         RunsOn, StaysOff, Blocked, Decide
    <3>2. /\ \A q \in Rec : q # r => p'[q] = p[q]
          /\ p'[r].nonce = p[r].nonce /\ p'[r].known = p[r].known
          /\ p'[r].pending = p[r].pending
          /\ p'[r].stopping \/ ~p[r].stopping
      <4>1. CASE EndDrain(r)
        BY <4>1, <1>a DEF EndDrain, ForgetGroups, Proc
      <4>2. CASE StillDrains(r) \/ RunsOn(r) \/ Decide(r)
        BY <4>2 DEF StillDrains, RunsOn, Decide
      <4>3. CASE Escalate(r)
        BY <4>3, <1>a DEF Escalate, Proc, TypeOK
      <4>4. CASE RequestStop(r)
        BY <4>4, <1>a DEF RequestStop, Stopping, Proc, TypeOK
      <4>5. CASE StaysOff(r)
        BY <4>5, <1>a DEF StaysOff, Proc, TypeOK
      <4>6. CASE Blocked(r)
        BY <4>6, <1>a DEF Blocked, Proc, TypeOK
      <4> QED BY <1>11, <2>2, <4>1, <4>2, <4>3, <4>4, <4>5, <4>6 DEF Reconcile
    <3>3. \A q \in Rec : leader'[q] # "none" => leader[q] # "none"
      BY <1>11, <2>2, KillFacts
         DEF Reconcile, EndDrain, ForgetGroups, StillDrains, Escalate, RequestStop,
             RunsOn, StaysOff, Blocked, Decide
    <3> QED BY <3>1, <3>2, <3>3, NonceFrame
  <2> QED BY <2>1, <2>2
<1>12. ASSUME NEW s \in Service, Forget(s) PROVE NonceOrder'
  <2>1. /\ p'[s] = NewProc(FALSE) /\ tried' = [tried EXCEPT ![s] = 0]
        /\ UNCHANGED <<nonce, edits, lines, snap, leader>>
        /\ \A q \in Rec : q # s => p'[q] = p[q]
        /\ s \in Rec /\ s # Core
    BY <1>12, LauncherAssumption DEF Forget, TypeOK, Rec
  <2>2. NonceInv(s)'
    BY <2>1, <1>c, <1>d DEF NonceInv, NewProc, TypeOK
  <2>3. ASSUME NEW q \in Rec, q # s PROVE NonceInv(q)'
    BY <2>1, <2>3, <1>c DEF NonceInv, TypeOK
  <2> QED BY <2>1, <2>2, <2>3 DEF NonceOrder, Rec
<1>13. CASE Shutdown
  <2>1. UNCHANGED <<nonce, edits, lines, snap, tried>>
    BY <1>13 DEF Shutdown, EndDrains, StopServices, CorePhase, StopCore, KillAll,
                 Finish
  <2>2. \A q \in Rec : leader'[q] # "none" => leader[q] # "none"
    BY <1>13, KillFacts
       DEF Shutdown, EndDrains, ForgetGroups, StopServices, CorePhase, StopCore,
           Press, KillAll, Finish
  <2>3. \A q \in Rec : /\ p'[q].nonce = p[q].nonce /\ p'[q].known = p[q].known
                       /\ p'[q].pending = p[q].pending
                       /\ p'[q].stopping \/ ~p[q].stopping
    <3>1. CASE EndDrains
      BY <3>1, <1>a DEF EndDrains, ForgetGroups, Proc
    <3>2. CASE StopServices \/ StopCore
      BY <3>2, <1>a DEF StopServices, StopCore, StopAll, Stopping, Proc
    <3>3. CASE CorePhase \/ KillAll \/ Finish
      BY <3>3 DEF CorePhase, KillAll, Finish
    <3> QED BY <1>13, <3>1, <3>2, <3>3 DEF Shutdown
  <2> QED BY <2>1, <2>2, <2>3, NonceFrame
<1>14. CASE UNCHANGED vars
  BY <1>14, NonceFrame DEF vars
<1> QED BY <1>1, <1>2, <1>3, <1>4, <1>5, <1>6, <1>7, <1>8, <1>9, <1>10, <1>11,
           <1>12, <1>13, <1>14
        DEF Next, Signals, Pass

-----------------------------------------------------------------------------
(* The theorems.                                                           *)
LEMMA GoneStep ==
    TypeOK /\ GroupInv /\ NothingLeft /\ [Next]_vars => NothingLeft'
<1> SUFFICES ASSUME TypeOK, GroupInv, NothingLeft, [Next]_vars
             PROVE  NothingLeft'
  OBVIOUS
<1> USE DEF coreVars, chanVars, groupVars, passVars, stopVars, worldVars
<1>1. CASE Finish
  <2>1. /\ leader' = leader /\ members' = members
        /\ \A r \in Rec : ~Live(r) => leader[r] = "none" /\ members[r] = "none"
    BY <1>1 DEF Finish, GroupInv, RecInv, Live
  <2>2. CASE phase = 2 /\ ~Live(Core)
    BY <2>1, <2>2 DEF GroupInv, CoreOutlivesServices, NothingLeft, Rec
  <2>3. CASE \A r \in Rec : ~Live(r)
    BY <2>1, <2>3 DEF NothingLeft
  <2> QED BY <1>1, <2>2, <2>3 DEF Finish
<1>2. CASE UNCHANGED vars
  BY <1>2 DEF vars, NothingLeft
<1>3. CASE \/ Edits \/ Push \/ World \/ Signals
  <2>1. lpc # "gone" /\ lpc' = lpc
    BY <1>3 DEF Edits, Restart, Enable, Disable, Delete, Commit, Up, Outside, Push,
                World, LeaderExits, Fork, MembersExit, KilledGo, Elapse,
                ElapsePhase, Signals, FirstSignal, NextSignal
  <2> QED BY <2>1 DEF NothingLeft
<1>4. CASE \/ Wake \/ ReapDone \/ ReadLine \/ ReadDone \/ Spawn \/ SpawnFails
           \/ Sleep \/ EndDrains \/ StopServices \/ CorePhase \/ StopCore \/ KillAll
  <2>1. lpc' # "gone"
    BY <1>4 DEF Wake, ReapDone, ReadLine, ReadDone, ReadAll, Spawn, SpawnFails,
                Sleep, EndDrains, StopServices, CorePhase, StopCore, KillAll
  <2> QED BY <2>1 DEF NothingLeft
<1>5. ASSUME NEW r \in Rec, Reap(r) \/ Reconcile(r) PROVE NothingLeft'
  <2>1. lpc' # "gone"
    BY <1>5 DEF Reap, Reconcile, Turn, Handled, EndDrain, StillDrains, Escalate,
                RequestStop, RestartBlocked, RunsOn, StaysOff, Blocked, Decide
  <2> QED BY <2>1 DEF NothingLeft
<1>6. ASSUME NEW s \in Service, Forget(s) PROVE NothingLeft'
  BY <1>6 DEF Forget, NothingLeft
<1> QED BY <1>1, <1>2, <1>3, <1>4, <1>5, <1>6 DEF Next, Pass, Shutdown

LEMMA LauncherInductive == IndInv /\ [Next]_vars => IndInv'
<1>1. IndInv <=> TypeOK /\ GroupInv /\ NonceOrder /\ NothingLeft
  BY DEF IndInv, GroupInv, NonceOrder
<1>2. TypeOK /\ GroupInv /\ NonceOrder /\ NothingLeft /\ [Next]_vars
        => TypeOK' /\ GroupInv' /\ NonceOrder' /\ NothingLeft'
  BY TypeStep, GroupStep, NonceStep, GoneStep
<1> QED BY <1>1, <1>2 DEF IndInv, GroupInv, NonceOrder

(* What the launcher knows of its processes and of the settings is right   *)
(* in every state: no member of a group is out of its reach, and nonces    *)
(* only grow on their way (main.py:785, 831).                              *)
THEOREM LauncherInvariant == Spec => []IndInv
<1>1. Init => IndInv
  <2>1. Init => NothingLeft
    BY DEF Init, NothingLeft
  <2> QED BY <2>1, InitType, GroupInit, NonceInit DEF IndInv, GroupInv, NonceOrder
<1> QED BY <1>1, LauncherInductive, PTL DEF Spec

(* When the launcher has gone it has left nothing behind but what it has   *)
(* SIGKILLed, whichever way the shutdown went: one signal or several, the  *)
(* phase overwritten in between or not (main.py:982, 994).                 *)
THEOREM NothingOutlivesLauncher == Spec => []NothingLeft
<1>1. IndInv => NothingLeft
  BY DEF IndInv
<1> QED BY <1>1, LauncherInvariant, PTL

(* The core is stopped when nothing of any service is left, and no service *)
(* starts after that (main.py:963).                                        *)
THEOREM CoreIsLast == Spec => []CoreOutlivesServices
<1>1. IndInv => CoreOutlivesServices
  BY DEF IndInv
<1> QED BY <1>1, LauncherInvariant, PTL

(* A process is spawned only when nothing of the group before it is left   *)
(* that has not been SIGKILLed (main.py:880, 884).                         *)
THEOREM NoTwoGroups == Spec => NeverTwoGroups
<1> DEFINE A == \A r \in Rec : leader[r] # "alive" /\ leader'[r] = "alive"
                  => leader[r] = "none" /\ members[r] = "none"
<1>1. IndInv /\ [Next]_vars => A
  <2> SUFFICES ASSUME IndInv, [Next]_vars, NEW r \in Rec,
                      leader[r] # "alive", leader'[r] = "alive"
               PROVE  leader[r] = "none" /\ members[r] = "none"
    OBVIOUS
  <2> USE DEF coreVars, chanVars, groupVars, passVars, stopVars, worldVars
  <2>1. leader \in [Rec -> {"none", "alive", "killed", "exited"}]
    BY DEF IndInv, TypeOK
  <2>2. Spawn
    <3>1. \A R : Kill(R) => leader'[r] # "alive"
      BY DEF Kill
    <3>2. ~Edits /\ ~Push /\ ~Signals
      BY <3>1 DEF Edits, Restart, Enable, Disable, Delete, Commit, Push, Signals,
                  FirstSignal, NextSignal
    <3>3. ~World
      BY <2>1 DEF World, LeaderExits, Fork, MembersExit, KilledGo, Elapse, ElapsePhase
    <3>4. ~Shutdown
      BY <3>1 DEF Shutdown, EndDrains, ForgetGroups, StopServices, CorePhase,
                  StopCore, Press, KillAll, Finish
    <3>5. \A q \in Rec : ~Reap(q) /\ ~Reconcile(q)
      BY <2>1, <3>1
         DEF Reap, Reconcile, EndDrain, ForgetGroups, StillDrains, Escalate,
             RequestStop, RestartBlocked, RunsOn, StaysOff, Blocked, Decide
    <3>6. ~Wake /\ ~ReapDone /\ ~ReadLine /\ ~ReadDone /\ ~SpawnFails /\ ~Sleep
      BY DEF Wake, ReapDone, ReadLine, ReadDone, ReadAll, SpawnFails, Sleep
    <3>7. \A s \in Service : ~Forget(s)
      BY DEF Forget
    <3> QED BY <3>2, <3>3, <3>4, <3>5, <3>6, <3>7 DEF Next, Pass, vars
  <2>3. r = target /\ Idle(target) /\ RecInv(target)
    BY <2>1, <2>2 DEF Spawn, IndInv, SpawnInv, TypeOK
  <2> QED BY <2>3 DEF Idle, RecInv, Owned
<1> QED BY <1>1, LauncherInvariant, PTL DEF Spec, NeverTwoGroups

(* A wanted process is stopped only for a restart it has not had yet:      *)
(* snapshots that repeat themselves restart nothing (main.py:856, 906).    *)
THEOREM RestartsCaused == Spec => RestartsHaveCause
<1>1. ASSUME IndInv, [Next]_vars, NEW r \in Rec,
             p'[r].stopping, ~p[r].stopping, p[r].desired, phase = 0
      PROVE  tried[r] # p[r].nonce
  <2> USE DEF coreVars, chanVars, groupVars, passVars, stopVars, worldVars
  <2>a. \A q \in Rec : p[q] \in Proc
    BY <1>1 DEF IndInv, TypeOK
  <2>b. p \in [Rec -> Proc] /\ target \in Rec
    BY <1>1 DEF IndInv, TypeOK
  <2>c. p'[r] \in Proc
    BY <1>1, TypeStep DEF IndInv, TypeOK
  <2>1. RequestStop(r)
    <3> DEFINE Same == p'[r].stopping = p[r].stopping \/ p'[r].stopping = FALSE
    <3>1. ~Same
      BY <1>1, <2>c DEF Proc
    <3>2. p' # p
      BY <1>1, <2>a, <2>c DEF Proc
    <3>3. ~Edits /\ ~Push /\ ~Wake /\ ~ReapDone /\ ~ReadDone /\ ~Sleep /\ ~NextSignal
      BY <3>2 DEF Edits, Restart, Enable, Disable, Delete, Commit, Push, Wake,
                  ReapDone, ReadDone, ReadAll, Sleep, NextSignal
    <3>4. FirstSignal => Same
      BY <2>a DEF FirstSignal, Proc
    <3>5. World => Same
      <4>1. \A q \in Rec : ~LeaderExits(q) /\ ~Fork(q) /\ ~MembersExit(q) /\ ~KilledGo(q)
        BY <3>2 DEF LeaderExits, Fork, MembersExit, KilledGo
      <4>2. ASSUME NEW q \in Rec, NEW timer \in {"stop", "retry", "drain"},
                   Elapse(q, timer)
            PROVE  Same
        BY <4>2, <2>a, <2>b DEF Elapse, Proc
      <4>3. ~ElapsePhase
        BY <3>2 DEF ElapsePhase
      <4> QED BY <4>1, <4>2, <4>3 DEF World
    <3>6. ~Shutdown
      BY <1>1 DEF Shutdown, EndDrains, StopServices, CorePhase, StopCore, KillAll,
                  Finish
    <3>7. ReadLine => Same
      <4> SUFFICES ASSUME ReadLine PROVE Same
        OBVIOUS
      <4> DEFINE h == Head(lines)
      <4>1. h \in Snapshot
        BY <1>1, HeadTailProperties DEF ReadLine, IndInv, TypeOK
      <4>2. /\ \A q \in Rec : h.nonce[q] \in Nonce
            /\ \A s \in Service : h.want[s] \in {"on", "off", "gone"}
        BY <4>1 DEF Snapshot
      <4>3. /\ r = Core => p'[r] = AppliedToCore(p[r], h.nonce[r])
            /\ r # Core => p'[r] = AppliedToService(p[r], h.want[r], h.nonce[r])
        BY <1>1 DEF ReadLine
      <4>4. r = Core \/ r \in Service
        BY DEF Rec
      <4>5. CASE r = Core
        <5>1. AppliedToCore(p[r], h.nonce[Core]).stopping = p[r].stopping
          BY <4>2, <2>a, AppliedFacts DEF Rec
        <5> QED BY <4>3, <4>5, <5>1
      <4>6. CASE r # Core
        BY <4>2, <4>3, <4>4, <4>6, <2>a, AppliedFacts DEF Rec
      <4> QED BY <4>5, <4>6
    <3>8. Spawn => Same
      <4>1. CASE r = target
        <5>1. Spawn => p'[target].stopping = FALSE
          BY <2>a, <2>b DEF Spawn, Proc
        <5> QED BY <4>1, <5>1
      <4>2. CASE r # target
        BY <4>2, <2>b DEF Spawn
      <4> QED BY <4>1, <4>2
    <3>9. SpawnFails => Same
      <4> SUFFICES ASSUME SpawnFails PROVE Same
        OBVIOUS
      <4>1. PICK state \in {"blocked", "failed"} :
              p' = [p EXCEPT ![target].state = state]
        BY DEF SpawnFails
      <4> QED BY <4>1, <2>a, <2>b DEF Proc
    <3>10. ASSUME NEW q \in Rec, Reap(q) PROVE Same
      <4> DEFINE d == IF members[q] = "none" THEN "none" ELSE "set"
      <4>1. PICK rec \in Exited(p[q]) :
              p' = [p EXCEPT ![q] = [rec EXCEPT !.stopping = FALSE, !.stop = "none",
                                                !.drain = d]]
        BY <3>10 DEF Reap
      <4>2. rec \in Proc
        BY <4>1, <2>a DEF Exited, Proc, Timer
      <4> QED BY <4>1, <4>2, <2>b DEF Proc
    <3>11. ASSUME NEW s \in Service, Forget(s) PROVE Same
      BY <3>11, <2>b DEF Forget, NewProc
    <3>12. ASSUME NEW q \in Rec, Reconcile(q) PROVE RequestStop(r)
      <4>1. CASE EndDrain(q)
        BY <4>1, <3>1, <2>a DEF EndDrain, ForgetGroups, Proc
      <4>2. CASE StillDrains(q) \/ RunsOn(q) \/ Decide(q)
        BY <4>2, <3>2 DEF StillDrains, RunsOn, Decide
      <4>3. CASE Escalate(q)
        BY <4>3, <3>1, <2>a, <2>b DEF Escalate, Proc
      <4>4. CASE RequestStop(q)
        <5>1. q = r
          BY <4>4, <3>1, <2>b DEF RequestStop
        <5> QED BY <4>4, <5>1
      <4>5. CASE RestartBlocked(q)
        BY <4>5, <3>1, <2>a, <2>b DEF RestartBlocked, Proc
      <4>6. CASE StaysOff(q)
        BY <4>6, <3>1, <2>a, <2>b DEF StaysOff, Proc
      <4>7. CASE Blocked(q)
        BY <4>7, <3>1, <2>a, <2>b DEF Blocked, Proc
      <4> QED BY <3>12, <4>1, <4>2, <4>3, <4>4, <4>5, <4>6, <4>7 DEF Reconcile
    <3>13. ~UNCHANGED vars
      BY <3>2 DEF vars
    <3> HIDE DEF Same
    <3> QED BY <1>1, <3>1, <3>3, <3>4, <3>5, <3>6, <3>7, <3>8, <3>9, <3>10, <3>11,
               <3>12, <3>13
            DEF Next, Signals, Pass
  <2>2. p[r].pending /\ leader[r] # "none"
    BY <1>1, <2>1 DEF RequestStop
  <2>3. NonceInv(r)
    BY <1>1 DEF IndInv
  <2> QED BY <1>1, <2>2, <2>3 DEF NonceInv
<1>2. IndInv /\ [Next]_vars =>
        \A r \in Rec : p'[r].stopping /\ ~p[r].stopping /\ p[r].desired /\ phase = 0
                         => tried[r] # p[r].nonce
  BY <1>1
<1> QED BY <1>2, LauncherInvariant, PTL DEF Spec, RestartsHaveCause

===============================================================================
