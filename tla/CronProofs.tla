------------------------------- MODULE CronProofs -------------------------------
(***************************************************************************)
(* The scheduler, for any jobs, requests and bounds: slots are fired for   *)
(* once, runs do not pile up, retries are bounded and verdicts stand.      *)
(***************************************************************************)
EXTENDS Cron, SequenceTheorems, TLAPS

-----------------------------------------------------------------------------
(* Types.                                                                  *)
LEMMA BasicTypes == NoFire \in Fire /\ Idle \in Tick /\ Sup \in Firer
<1>1. (CHOOSE j \in Job : TRUE) \in Job
  BY CronAssumption
<1>2. NoFire \in Fire
  BY <1>1 DEF NoFire, Fire
<1>3. Idle \in Tick
  BY DEF Idle, Tick
<1> QED BY <1>2, <1>3 DEF Firer

(* One run changes.                                                        *)
Becomes(j, i, r) ==
    /\ log' \in [Job -> Seq(Run)]
    /\ \A k \in Job : Len(log'[k]) = Len(log[k])
    /\ log'[j][i] = r
    /\ \A k \in Job : \A h \in 1..Len(log[k]) :
         k # j \/ h # i => log'[k][h] = log[k][h]

LEMMA OneRun ==
    ASSUME TypeOK, NEW j \in Job, NEW i \in 1..Len(log[j]), NEW r \in Run,
           log' = [log EXCEPT ![j] = [log[j] EXCEPT ![i] = r]]
    PROVE  Becomes(j, i, r)
<1>1. log[j] \in Seq(Run) /\ log \in [Job -> Seq(Run)]
  BY DEF TypeOK
<1> DEFINE s == [log[j] EXCEPT ![i] = r]
<1>2. s \in Seq(Run) /\ Len(s) = Len(log[j])
  BY <1>1, ExceptSeq
<1>3. s[i] = r /\ \A h \in 1..Len(log[j]) : h # i => s[h] = log[j][h]
  BY <1>1, ExceptSeq
<1>4. log' = [log EXCEPT ![j] = s]
  OBVIOUS
<1> HIDE DEF s
<1> QED BY <1>1, <1>2, <1>3, <1>4 DEF Becomes

LEMMA OneMoreRun ==
    ASSUME TypeOK, NEW j \in Job, NEW r \in Run,
           log' = [log EXCEPT ![j] = Append(@, r)]
    PROVE  /\ log' \in [Job -> Seq(Run)]
           /\ Len(log'[j]) = Len(log[j]) + 1
           /\ log'[j][Len(log[j]) + 1] = r
           /\ \A h \in 1..Len(log[j]) : log'[j][h] = log[j][h]
           /\ \A k \in Job \ {j} : log'[k] = log[k]
<1>1. log[j] \in Seq(Run) /\ log \in [Job -> Seq(Run)]
  BY DEF TypeOK
<1>2. Append(log[j], r) \in Seq(Run)
  BY <1>1
<1> QED BY <1>1, <1>2

(* Every run is what it was, or its successor.                             *)
LEMMA MapRuns ==
    ASSUME TypeOK, NEW s \in Seq(Run), NEW g,
           g = [i \in 1..Len(s) |-> g[i]], \A i \in 1..Len(s) : g[i] \in Run
    PROVE  g \in Seq(Run) /\ Len(g) = Len(s)
<1>1. Len(s) \in Nat
  OBVIOUS
<1>2. g \in [1..Len(s) -> Run]
  OBVIOUS
<1>3. g \in Seq(Run)
  BY <1>1, <1>2, SeqDef
<1>4. DOMAIN g = 1..Len(s)
  BY <1>2
<1> QED BY <1>1, <1>3, <1>4, LenProperties

-----------------------------------------------------------------------------
(* What most steps do to the runs: none is added, none starts executing.   *)
Kept == \A j \in Job : /\ Len(log'[j]) = Len(log[j])
                       /\ \A i \in 1..Len(log[j]) :
                            log'[j][i].trigger = log[j][i].trigger

Quiet == \A j \in Job : \A i \in 1..Len(log[j]) : Executing(j, i)' => Executing(j, i)

LEMMA RunTypes ==
    ASSUME TypeOK, NEW j \in Job
    PROVE  /\ log[j] \in Seq(Run) /\ Len(log[j]) \in Nat
           /\ \A i \in 1..Len(log[j]) : log[j][i] \in Run
<1>1. log[j] \in Seq(Run)
  BY DEF TypeOK
<1> QED BY <1>1, ElementOfSeq, LenProperties

LEMMA StillRuns == ASSUME UNCHANGED log PROVE Kept /\ Quiet
BY DEF Kept, Quiet, Executing

LEMMA OneRunKept ==
    ASSUME TypeOK, NEW j \in Job, NEW i \in 1..Len(log[j]), NEW r \in Run,
           log' = [log EXCEPT ![j][i] = r], r.trigger = log[j][i].trigger
    PROVE  /\ log' \in [Job -> Seq(Run)] /\ Kept
           /\ (r.exec # "none" /\ r.status = "pending" => Executing(j, i)) => Quiet
<1>0. log' = [log EXCEPT ![j] = [log[j] EXCEPT ![i] = r]]
  OBVIOUS
<1>1. Becomes(j, i, r)
  BY <1>0, OneRun
<1>2. Kept
  BY <1>1 DEF Kept, Becomes
<1>3. (r.exec # "none" /\ r.status = "pending" => Executing(j, i)) => Quiet
  BY <1>1 DEF Quiet, Executing, Becomes
<1> QED BY <1>1, <1>2, <1>3 DEF Becomes

LEMMA SettledKept ==
    ASSUME TypeOK, NEW j \in Job, NEW i \in 1..Len(log[j]), NEW v \in {"ok", "error"},
           Settled(j, i, v)
    PROVE  /\ log' \in [Job -> Seq(Run)] /\ Kept /\ Quiet
           /\ recent' \in [Job -> BOOLEAN]
<1> DEFINE r == [log[j][i] EXCEPT !.status = v, !.exec = "none"]
<1>1. log[j][i] \in Run
  BY RunTypes
<1>2. r \in Run /\ r.trigger = log[j][i].trigger /\ r.exec = "none"
  BY <1>1 DEF Run
<1>3. log' = [log EXCEPT ![j][i] = r]
  BY DEF Settled
<1> HIDE DEF r
<1>4. log' \in [Job -> Seq(Run)] /\ Kept /\ Quiet
  BY <1>2, <1>3, OneRunKept
<1>5. recent' \in [Job -> BOOLEAN]
  BY DEF TypeOK, Settled
<1> QED BY <1>4, <1>5

LEMMA GrowsOldKept ==
    ASSUME TypeOK, NEW j \in Job, NEW i \in 1..Len(log[j]), GrowsOld(j, i)
    PROVE  log' \in [Job -> Seq(Run)] /\ Kept /\ Quiet
<1> DEFINE r == [log[j][i] EXCEPT !.old = TRUE]
<1>1. log[j][i] \in Run
  BY RunTypes
<1>2. /\ r \in Run /\ r.trigger = log[j][i].trigger
      /\ r.exec = log[j][i].exec /\ r.status = log[j][i].status
  BY <1>1 DEF Run
<1>3. log' = [log EXCEPT ![j][i] = r]
  BY DEF GrowsOld
<1> HIDE DEF r
<1> QED BY <1>2, <1>3, OneRunKept DEF Executing

LEMMA ElsewhereKept ==
    ASSUME TypeOK, NEW j \in Job, NEW i \in 1..Len(log[j]), Elsewhere(j, i)
    PROVE  /\ log' \in [Job -> Seq(Run)] /\ Kept /\ Quiet
           /\ recent' \in [Job -> BOOLEAN]
<1>1. log[j][i] \in Run
  BY RunTypes
<1>2. CASE Take(j, i) \/ Lose(j, i)
  <2>1. PICK e \in {"running", "none"} :
          /\ log' = [log EXCEPT ![j][i] = [@ EXCEPT !.exec = e]]
          /\ log[j][i].exec # "none" /\ UNCHANGED recent
    BY <1>2 DEF Take, Lose
  <2> DEFINE r == [log[j][i] EXCEPT !.exec = e]
  <2>2. /\ r \in Run /\ r.trigger = log[j][i].trigger
        /\ r.status = log[j][i].status
    BY <1>1 DEF Run
  <2>3. log' = [log EXCEPT ![j][i] = r]
    BY <2>1
  <2> HIDE DEF r
  <2>4. Executing(j, i) <=> log[j][i].status = "pending"
    BY <2>1 DEF Executing
  <2>5. log' \in [Job -> Seq(Run)] /\ Kept /\ Quiet
    BY <2>2, <2>3, <2>4, OneRunKept
  <2> QED BY <2>1, <2>5 DEF TypeOK
<1>3. CASE Record(j, i)
  BY <1>3, SettledKept DEF Record
<1> QED BY <1>2, <1>3 DEF Elsewhere

(* The sweep and a restart go over every run.                              *)
LEMMA SweptKept ==
    ASSUME TypeOK, SweepsLog
    PROVE  /\ log' \in [Job -> Seq(Run)] /\ Kept /\ Quiet
           /\ recent' \in [Job -> BOOLEAN]
<1>1. \A j \in Job : \A i \in 1..Len(log[j]) :
        /\ Swept(log[j][i]) \in Run
        /\ Swept(log[j][i]).trigger = log[j][i].trigger
        /\ Swept(log[j][i]).exec = log[j][i].exec
        /\ Swept(log[j][i]).status = "pending" => log[j][i].status = "pending"
  BY RunTypes DEF Swept, Run
<1>2. ASSUME NEW j \in Job
      PROVE  log'[j] \in Seq(Run) /\ Len(log'[j]) = Len(log[j])
  <2> DEFINE g == [i \in 1..Len(log[j]) |-> Swept(log[j][i])]
  <2>1. log'[j] = g
    BY DEF SweepsLog
  <2>2. g = [i \in 1..Len(log[j]) |-> g[i]] /\ \A i \in 1..Len(log[j]) : g[i] \in Run
    BY <1>1
  <2> HIDE DEF g
  <2> QED BY <2>1, <2>2, MapRuns, RunTypes
<1>3. \A j \in Job : \A i \in 1..Len(log[j]) : log'[j][i] = Swept(log[j][i])
  BY DEF SweepsLog
<1>4. log' \in [Job -> Seq(Run)]
  <2>1. log' = [j \in Job |-> log'[j]]
    BY DEF SweepsLog
  <2> QED BY <1>2, <2>1
<1>5. Kept /\ Quiet
  BY <1>1, <1>2, <1>3 DEF Kept, Quiet, Executing
<1>6. recent' \in [Job -> BOOLEAN]
  <2>1. \A j \in Job : recent[j] \in BOOLEAN
    BY DEF TypeOK
  <2>2. recent' = [j \in Job |-> \/ recent[j]
                                 \/ Len(log[j]) > 0 /\ Latest(j) # Swept(Latest(j))]
    BY DEF SweepsLog
  <2> QED BY <2>1, <2>2, Zenon
<1> QED BY <1>4, <1>5, <1>6

LEMMA RestartKept ==
    ASSUME TypeOK, Restart
    PROVE  log' \in [Job -> Seq(Run)] /\ Kept /\ Quiet
<1>1. \A j \in Job : \A i \in 1..Len(log[j]) :
        /\ Orphaned(j, log[j][i]) \in Run
        /\ Orphaned(j, log[j][i]).trigger = log[j][i].trigger
        /\ Orphaned(j, log[j][i]).status = log[j][i].status
        /\ Orphaned(j, log[j][i]).exec \in {log[j][i].exec, "none"}
  BY RunTypes DEF Orphaned, Run
<1>2. ASSUME NEW j \in Job
      PROVE  log'[j] \in Seq(Run) /\ Len(log'[j]) = Len(log[j])
  <2> DEFINE g == [i \in 1..Len(log[j]) |-> Orphaned(j, log[j][i])]
  <2>1. log'[j] = g
    BY DEF Restart
  <2>2. g = [i \in 1..Len(log[j]) |-> g[i]] /\ \A i \in 1..Len(log[j]) : g[i] \in Run
    BY <1>1
  <2> HIDE DEF g
  <2> QED BY <2>1, <2>2, MapRuns, RunTypes
<1>3. \A j \in Job : \A i \in 1..Len(log[j]) : log'[j][i] = Orphaned(j, log[j][i])
  BY DEF Restart
<1>4. log' \in [Job -> Seq(Run)]
  <2>1. log' = [j \in Job |-> log'[j]]
    BY DEF Restart
  <2> QED BY <1>2, <2>1
<1>5. Kept /\ Quiet
  BY <1>1, <1>2, <1>3 DEF Kept, Quiet, Executing
<1> QED BY <1>4, <1>5

(* A launch makes the run of its firing execute, and no other.             *)
LEMMA LaunchKept ==
    ASSUME TypeOK, RunInv, NEW f \in Firer, Launch(f)
    PROVE  /\ log' \in [Job -> Seq(Run)] /\ Kept
           /\ \A j \in Job : \A i \in 1..Len(log[j]) :
                Executing(j, i)' /\ ~Executing(j, i)
                  => j = fire[f].job /\ i = fire[f].run
<1> DEFINE j == fire[f].job
           i == fire[f].run
           r == [log[j][i] EXCEPT
                   !.exec = IF j \in Command THEN "queued" ELSE "running"]
<1>1. j \in Job /\ i \in 1..Len(log[j])
  BY DEF TypeOK, RunInv, Launch, Fire
<1>2. log[j][i] \in Run
  BY <1>1, RunTypes
<1>3. r \in Run /\ r.trigger = log[j][i].trigger
  BY <1>2 DEF Run
<1>4. log' = [log EXCEPT ![j] = [log[j] EXCEPT ![i] = r]]
  BY DEF Launch
<1> HIDE DEF r, j, i
<1>5. Becomes(j, i, r)
  BY <1>1, <1>3, <1>4, OneRun
<1>6. Kept
  BY <1>3, <1>5 DEF Kept, Becomes
<1> QED BY <1>5, <1>6 DEF Executing, Becomes, j, i

-----------------------------------------------------------------------------
(* Steps that neither add a run nor make one execute preserve whatever is  *)
(* said about runs.                                                        *)
LEMMA FireTypes ==
    ASSUME TypeOK, NEW f \in Firer
    PROVE  fire[f] \in Fire /\ fire[f].job \in Job /\ fire[f].run \in Nat
BY DEF TypeOK, Fire

LEMMA KeptPileUp ==
    ASSUME TypeOK, NoPileUp, Kept, Quiet
    PROVE  NoPileUp'
<1> SUFFICES ASSUME NEW j \in Job, NEW i \in 1..Len(log'[j]), NEW k \in 1..Len(log'[j]),
                    i < k, Executing(j, i)', log'[j][k].trigger # "manual"
             PROVE  Clicked(j, i, k)'
  BY DEF NoPileUp
<1>1. /\ Len(log[j]) \in Nat /\ i \in 1..Len(log[j]) /\ k \in 1..Len(log[j])
      /\ \A m \in 1..Len(log[j]) : log'[j][m].trigger = log[j][m].trigger
  BY RunTypes DEF Kept
<1>2. Executing(j, i)
  BY <1>1 DEF Quiet
<1>3. Clicked(j, i, k)
  BY <1>1, <1>2 DEF NoPileUp
<1> QED BY <1>1, <1>3 DEF Clicked

LEMMA KeptRetries ==
    ASSUME TypeOK, RetriesBounded, Kept
    PROVE  RetriesBounded'
<1> SUFFICES ASSUME NEW j \in Job, NEW i \in 1..Len(log'[j]),
                    i + MaxRetries[j] <= Len(log'[j])
             PROVE  \E k \in i..(i + MaxRetries[j]) : log'[j][k].trigger # "retry"
  BY DEF RetriesBounded
<1>1. /\ Len(log[j]) \in Nat /\ Len(log'[j]) = Len(log[j])
      /\ \A m \in 1..Len(log[j]) : log'[j][m].trigger = log[j][m].trigger
  BY RunTypes DEF Kept
<1>2. MaxRetries[j] \in Nat
  BY CronAssumption
<1>3. PICK k \in i..(i + MaxRetries[j]) : log[j][k].trigger # "retry"
  BY <1>1 DEF RetriesBounded
<1> QED BY <1>1, <1>2, <1>3

LEMMA KeptFirings ==
    ASSUME TypeOK, RunInv, Kept,
           \A f \in Firer : fire'[f].step = "inserted" => fire'[f] = fire[f]
    PROVE  RunInv'
<1> SUFFICES ASSUME NEW f \in Firer, fire'[f].step = "inserted"
             PROVE  /\ fire'[f].run \in 1..Len(log'[fire'[f].job])
                    /\ log'[fire'[f].job][fire'[f].run].trigger = fire'[f].trigger
  BY DEF RunInv
<1>1. fire'[f] = fire[f] /\ fire[f].job \in Job
  BY FireTypes
<1>2. /\ fire[f].run \in 1..Len(log[fire[f].job])
      /\ log[fire[f].job][fire[f].run].trigger = fire[f].trigger
  BY <1>1 DEF RunInv
<1> QED BY <1>1, <1>2 DEF Kept

LEMMA KeptDecided ==
    ASSUME TypeOK, DecidedInv, Kept, NEW j \in Job, j = fire[Sup].job,
           \A i \in 1..Len(log[j]) :
              Executing(j, i)' => Executing(j, i) \/ log[j][i].trigger = "manual",
           fire'[Sup].step # "none" => fire'[Sup] = fire[Sup]
    PROVE  DecidedInv'
<1>1. CASE fire'[Sup].step = "none"
  BY <1>1 DEF DecidedInv
<1>2. CASE fire'[Sup] = fire[Sup]
  <2>1. /\ Len(log[j]) \in Nat /\ Len(log'[j]) = Len(log[j])
        /\ \A m \in 1..Len(log[j]) : log'[j][m].trigger = log[j][m].trigger
    BY RunTypes DEF Kept
  <2>2. MaxRetries[j] \in Nat
    BY <2>1, CronAssumption
  <2>3. ASSUME fire[Sup].step = "decided"
        PROVE  /\ \A i \in 1..Len(log'[j]) : Executing(j, i)' => Clicked(j, i, Len(log[j]))'
               /\ fire[Sup].trigger = "retry" => MaxRetries[j] > 0 /\ ~Retries(j, MaxRetries[j])'
    <3>1. ASSUME NEW i \in 1..Len(log'[j]), Executing(j, i)'
          PROVE  Clicked(j, i, Len(log[j]))'
      <4>1. Clicked(j, i, Len(log[j])) \/ log[j][i].trigger = "manual"
        BY <2>1, <2>3, <3>1 DEF DecidedInv
      <4> QED BY <2>1, <4>1 DEF Clicked
    <3>2. ASSUME fire[Sup].trigger = "retry"
          PROVE  MaxRetries[j] > 0 /\ ~Retries(j, MaxRetries[j])'
      BY <2>1, <2>2, <2>3, <3>2 DEF DecidedInv, Retries
    <3> QED BY <3>1, <3>2
  <2>4. ASSUME fire[Sup].step = "inserted"
        PROVE  \A k \in 1..Len(log'[j]) : k > fire[Sup].run => log'[j][k].trigger = "manual"
    BY <2>1, <2>4 DEF DecidedInv
  <2> QED BY <1>2, <2>1, <2>3, <2>4 DEF DecidedInv
<1> QED BY <1>1, <1>2

RunsInv == RunInv /\ DecidedInv /\ NoPileUp /\ RetriesBounded

LEMMA QuietStep ==
    ASSUME TypeOK, RunsInv, Kept, Quiet,
           \A f \in Firer : fire'[f].step # "none" => fire'[f] = fire[f]
    PROVE  RunsInv'
<1>1. RunInv'
  BY KeptFirings DEF RunsInv
<1>2. PICK j \in Job : j = fire[Sup].job
  BY FireTypes, BasicTypes
<1>3. DecidedInv'
  BY <1>2, KeptDecided, BasicTypes DEF RunsInv, Quiet
<1>4. NoPileUp' /\ RetriesBounded'
  BY KeptPileUp, KeptRetries DEF RunsInv
<1> QED BY <1>1, <1>3, <1>4 DEF RunsInv

-----------------------------------------------------------------------------
(* The steps that make a run execute, add one, or decide on one.           *)
LEMMA FiringEnds ==
    ASSUME TypeOK, NEW f \in Firer, Done(f)
    PROVE  /\ fire' \in [Firer -> Fire] /\ fire'[f] = NoFire
           /\ \A g \in Firer \ {f} : fire'[g] = fire[g]
           /\ \A g \in Firer : fire'[g].step # "none" => fire'[g] = fire[g]
BY BasicTypes DEF TypeOK, Done, NoFire

LEMMA LaunchRuns ==
    ASSUME TypeOK, TickInv, RunsInv, NEW f \in Firer, Launch(f)
    PROVE  RunsInv'
<1>1. RunInv /\ DecidedInv /\ NoPileUp /\ RetriesBounded
  BY DEF RunsInv
<1>2. PICK j \in Job, r \in Nat : j = fire[f].job /\ r = fire[f].run
  BY FireTypes
<1>3. /\ Kept
      /\ \A k \in Job : \A i \in 1..Len(log[k]) :
           Executing(k, i)' /\ ~Executing(k, i) => k = j /\ i = r
  BY <1>1, <1>2, LaunchKept
<1>4. fire[f].step = "inserted" /\ Done(f)
  BY DEF Launch
<1>5. r \in 1..Len(log[j]) /\ log[j][r].trigger = fire[f].trigger
  BY <1>1, <1>2, <1>4 DEF RunInv
<1>6. \/ log[j][r].trigger = "manual"
      \/ \A k \in 1..Len(log[j]) : k > r => log[j][k].trigger = "manual"
  <2>1. CASE f = Sup
    BY <1>1, <1>2, <1>4, <2>1 DEF DecidedInv
  <2>2. CASE f \in Web
    BY <1>5, <2>2 DEF TickInv
  <2> QED BY <2>1, <2>2 DEF Firer
<1>7. \A g \in Firer : fire'[g].step # "none" => fire'[g] = fire[g]
  BY <1>4, FiringEnds
<1>8. RunInv' /\ RetriesBounded'
  BY <1>1, <1>3, <1>7, KeptFirings, KeptRetries
<1>9. DecidedInv'
  <2>1. CASE f = Sup
    <3>1. fire'[Sup] = NoFire
      BY <1>4, <2>1, FiringEnds
    <3>2. fire'[Sup].step = "none"
      BY <3>1 DEF NoFire
    <3> QED BY <3>2 DEF DecidedInv
  <2>2. CASE f \in Web
    <3>1. fire[f].trigger = "manual"
      BY <2>2 DEF TickInv
    <3>2. PICK k \in Job : k = fire[Sup].job
      BY FireTypes, BasicTypes
    <3>3. \A i \in 1..Len(log[k]) :
             Executing(k, i)' => Executing(k, i) \/ log[k][i].trigger = "manual"
      BY <1>3, <1>5, <3>1
    <3> QED BY <1>1, <1>3, <1>7, <3>2, <3>3, KeptDecided, BasicTypes
  <2> QED BY <2>1, <2>2 DEF Firer
<1>10. NoPileUp'
  <2> SUFFICES ASSUME NEW q \in Job, NEW i \in 1..Len(log'[q]), NEW k \in 1..Len(log'[q]),
                      i < k, Executing(q, i)', log'[q][k].trigger # "manual"
               PROVE  Clicked(q, i, k)'
    BY DEF NoPileUp
  <2>1. /\ Len(log[q]) \in Nat /\ i \in 1..Len(log[q]) /\ k \in 1..Len(log[q])
        /\ \A m \in 1..Len(log[q]) : log'[q][m].trigger = log[q][m].trigger
    BY <1>3, RunTypes DEF Kept
  <2>2. CASE Executing(q, i)
    <3>1. Clicked(q, i, k)
      BY <1>1, <2>1, <2>2 DEF NoPileUp
    <3> QED BY <2>1, <3>1 DEF Clicked
  <2>3. CASE ~Executing(q, i)
    <3>1. q = j /\ i = r
      BY <1>3, <2>1, <2>3
    <3>2. log[j][r].trigger = "manual"
      BY <1>6, <2>1, <3>1
    <3> QED BY <2>1, <3>1, <3>2 DEF Clicked
  <2> QED BY <2>2, <2>3
<1> QED BY <1>8, <1>9, <1>10 DEF RunsInv

LEMMA NewRunTyped ==
    ASSUME NEW t \in {"scheduled", "manual", "retry"}
    PROVE  /\ NewRun(t) \in Run /\ NewRun(t).trigger = t /\ NewRun(t).exec = "none"
BY DEF NewRun, Run

(* What an insertion does: the log of the job is longer by a run.          *)
LEMMA Inserted ==
    ASSUME TypeOK, NEW f \in Firer, NEW j \in Job,
           NEW t \in {"scheduled", "manual", "retry"}, Inserts(f, j, t)
    PROVE  /\ log' \in [Job -> Seq(Run)] /\ Len(log[j]) \in Nat
           /\ Len(log'[j]) = Len(log[j]) + 1
           /\ log'[j][Len(log[j]) + 1] = NewRun(t)
           /\ \A h \in 1..Len(log[j]) : log'[j][h] = log[j][h]
           /\ \A k \in Job \ {j} : log'[k] = log[k]
<1>1. NewRun(t) \in Run
  BY NewRunTyped
<1>2. log' = [log EXCEPT ![j] = Append(@, NewRun(t))]
  BY DEF Inserts
<1> QED BY <1>1, <1>2, OneMoreRun, RunTypes

LEMMA InsertedFire ==
    ASSUME TypeOK, NEW f \in Firer, NEW j \in Job,
           NEW t \in {"scheduled", "manual", "retry"}, Inserts(f, j, t)
    PROVE  /\ fire' \in [Firer -> Fire] /\ recent' \in [Job -> BOOLEAN]
           /\ fire'[f] = [step |-> "inserted", job |-> j, trigger |-> t,
                          run |-> Len(log[j]) + 1]
           /\ \A g \in Firer \ {f} : fire'[g] = fire[g]
<1>1. Len(log[j]) + 1 \in Nat
  BY RunTypes
<1> QED BY <1>1 DEF TypeOK, Inserts, Fire

LEMMA InsertedRunInv ==
    ASSUME TypeOK, RunInv, NEW f \in Firer, NEW j \in Job,
           NEW t \in {"scheduled", "manual", "retry"}, Inserts(f, j, t)
    PROVE  RunInv'
<1> SUFFICES ASSUME NEW g \in Firer, fire'[g].step = "inserted"
             PROVE  /\ fire'[g].run \in 1..Len(log'[fire'[g].job])
                    /\ log'[fire'[g].job][fire'[g].run].trigger = fire'[g].trigger
  BY DEF RunInv
<1>1. CASE g = f
  <2>1. fire'[g].job = j /\ fire'[g].run = Len(log[j]) + 1 /\ fire'[g].trigger = t
    <3>1. fire'[g] = [step |-> "inserted", job |-> j, trigger |-> t,
                      run |-> Len(log[j]) + 1]
      BY <1>1, InsertedFire
    <3> QED BY <3>1
  <2>2. /\ Len(log[j]) \in Nat /\ Len(log'[j]) = Len(log[j]) + 1
        /\ log'[j][Len(log[j]) + 1].trigger = t
    BY Inserted, NewRunTyped
  <2> QED BY <2>1, <2>2
<1>2. CASE g # f
  <2>1. fire'[g] = fire[g] /\ fire[g].job \in Job /\ fire[g].run \in Nat
    BY <1>2, InsertedFire, FireTypes
  <2>2. /\ fire[g].run \in 1..Len(log[fire[g].job])
        /\ log[fire[g].job][fire[g].run].trigger = fire[g].trigger
    BY <2>1 DEF RunInv
  <2>3. CASE fire[g].job = j
    BY <2>1, <2>2, <2>3, Inserted
  <2>4. CASE fire[g].job # j
    BY <2>1, <2>2, <2>4, Inserted
  <2> QED BY <2>3, <2>4
<1> QED BY <1>1, <1>2

(* A click adds a run that may stand beside any other.                     *)
LEMMA ClickRuns ==
    ASSUME TypeOK, RunsInv, NEW w \in Web, NEW j \in Job, Click(w, j)
    PROVE  RunsInv'
<1>1. RunInv /\ DecidedInv /\ NoPileUp /\ RetriesBounded
  BY DEF RunsInv
<1>2. w \in Firer /\ w # Sup /\ Inserts(w, j, "manual")
  BY CronAssumption DEF Click, Firer
<1> DEFINE n == Len(log[j]) + 1
<1>3. /\ Len(log[j]) \in Nat /\ Len(log'[j]) = n
      /\ log'[j][n].trigger = "manual" /\ log'[j][n].exec = "none"
      /\ \A h \in 1..Len(log[j]) : log'[j][h] = log[j][h]
      /\ \A k \in Job \ {j} : log'[k] = log[k]
  BY <1>2, Inserted, NewRunTyped
<1>4. RunInv'
  BY <1>1, <1>2, InsertedRunInv
<1>5. NoPileUp'
  <2> SUFFICES ASSUME NEW q \in Job, NEW i \in 1..Len(log'[q]), NEW k \in 1..Len(log'[q]),
                      i < k, Executing(q, i)', log'[q][k].trigger # "manual"
               PROVE  Clicked(q, i, k)'
    BY DEF NoPileUp
  <2>1. CASE q = j
    <3>1. i \in 1..Len(log[j]) /\ k \in 1..Len(log[j])
      BY <1>3, <2>1
    <3>2. Clicked(j, i, k)
      BY <1>1, <1>3, <2>1, <3>1 DEF NoPileUp, Executing
    <3> QED BY <1>3, <2>1, <3>1, <3>2 DEF Clicked
  <2>2. CASE q # j
    <3>1. log'[q] = log[q]
      BY <1>3, <2>2
    <3>2. Clicked(q, i, k)
      BY <1>1, <3>1 DEF NoPileUp, Executing
    <3> QED BY <3>1, <3>2 DEF Clicked
  <2> QED BY <2>1, <2>2
<1>6. RetriesBounded'
  <2> SUFFICES ASSUME NEW q \in Job, NEW i \in 1..Len(log'[q]),
                      i + MaxRetries[q] <= Len(log'[q])
               PROVE  \E k \in i..(i + MaxRetries[q]) : log'[q][k].trigger # "retry"
    BY DEF RetriesBounded
  <2>0. MaxRetries[q] \in Nat
    BY CronAssumption
  <2>1. CASE q = j /\ i + MaxRetries[q] = n
    BY <1>3, <2>0, <2>1
  <2>2. CASE q = j /\ i + MaxRetries[q] # n
    <3>0. /\ i \in 1..n /\ i + MaxRetries[j] <= n /\ i + MaxRetries[j] # n
          /\ MaxRetries[j] \in Nat /\ Len(log[j]) \in Nat
      BY <1>3, <2>0, <2>2
    <3> HIDE <2>2
    <3>1. i + MaxRetries[j] <= Len(log[j]) /\ i \in 1..Len(log[j])
      BY <3>0
    <3>2. PICK k \in i..(i + MaxRetries[j]) : log[j][k].trigger # "retry"
      BY <1>1, <3>1 DEF RetriesBounded
    <3>3. k \in 1..Len(log[j])
      BY <3>0, <3>1
    <3>4. log'[j][k].trigger # "retry"
      BY <1>3, <3>2, <3>3
    <3>5. q = j
      BY <2>2
    <3> QED BY <3>4, <3>5
  <2>3. CASE q # j
    <3>1. log'[q] = log[q]
      BY <1>3, <2>3
    <3> QED BY <1>1, <3>1 DEF RetriesBounded
  <2> QED BY <2>1, <2>2, <2>3
<1>7. DecidedInv'
  <2>1. fire'[Sup] = fire[Sup]
    BY <1>2, InsertedFire, BasicTypes
  <2>2. PICK q \in Job, o \in Fire : q = o.job /\ o = fire[Sup] /\ o.run \in Nat
    BY FireTypes, BasicTypes
  <2>3. MaxRetries[q] \in Nat /\ Len(log[q]) \in Nat
    BY RunTypes, CronAssumption
  <2>4. ASSUME o.step = "decided", NEW i \in 1..Len(log'[q]), Executing(q, i)'
        PROVE  Clicked(q, i, Len(log[q]))'
    <3>1. CASE q = j
      <4>1. i \in 1..Len(log[j]) /\ Executing(j, i)
        BY <1>3, <2>4, <3>1 DEF Executing
      <4>2. Clicked(j, i, Len(log[j]))
        BY <1>1, <2>2, <2>4, <3>1, <4>1 DEF DecidedInv
      <4> QED BY <1>3, <3>1, <4>1, <4>2 DEF Clicked
    <3>2. CASE q # j
      <4>1. log'[q] = log[q]
        BY <1>3, <3>2
      <4>2. Clicked(q, i, Len(log[q]))
        BY <1>1, <2>2, <2>4, <4>1 DEF DecidedInv, Executing
      <4> QED BY <4>1, <4>2 DEF Clicked
    <3> QED BY <3>1, <3>2
  <2>5. ASSUME o.step = "decided", o.trigger = "retry"
        PROVE  MaxRetries[q] > 0 /\ ~Retries(q, MaxRetries[q])'
    <3>1. MaxRetries[q] > 0 /\ ~Retries(q, MaxRetries[q])
      BY <1>1, <2>2, <2>5 DEF DecidedInv
    <3>2. CASE q = j
      BY <1>3, <2>3, <3>1, <3>2 DEF Retries
    <3>3. CASE q # j
      BY <1>3, <3>1, <3>3 DEF Retries
    <3> QED BY <3>1, <3>2, <3>3
  <2>6. ASSUME o.step = "inserted", NEW k \in 1..Len(log'[q]), k > o.run
        PROVE  log'[q][k].trigger = "manual"
    <3>1. CASE q = j /\ k = n
      BY <1>3, <3>1
    <3>2. CASE ~(q = j /\ k = n)
      <4>1. k \in 1..Len(log[q]) /\ log'[q][k] = log[q][k]
        BY <1>3, <2>3, <3>2
      <4> QED BY <1>1, <2>2, <2>6, <4>1 DEF DecidedInv
    <3> QED BY <3>1, <3>2
  <2> QED BY <2>1, <2>2, <2>4, <2>5, <2>6 DEF DecidedInv
<1> QED BY <1>4, <1>5, <1>6, <1>7 DEF RunsInv

(* A decision is good: what still executes was preceded or followed by a   *)
(* click, and a retry is within its bound.                                 *)
LEMMA DecideRuns ==
    ASSUME TypeOK, RunsInv, NEW j \in Job, DecideSlot(j) \/ DecideRetry(j)
    PROVE  RunsInv'
<1>1. RunInv /\ DecidedInv /\ NoPileUp /\ RetriesBounded
  BY DEF RunsInv
<1>2. PICK t \in {"scheduled", "retry"} :
        /\ Decides(j, t)
        /\ Len(log[j]) > 0 => log[j][Len(log[j])].status # "pending"
        /\ t = "retry" => MaxRetries[j] > 0 /\ ~Retries(j, MaxRetries[j])
  BY DEF DecideSlot, DecideRetry, InFlight, ShouldRetry, Latest
<1>3. UNCHANGED log /\ Kept /\ Quiet
  BY <1>2, StillRuns DEF Decides
<1>4. /\ fire'[Sup].step = "decided" /\ fire'[Sup].job = j /\ fire'[Sup].trigger = t
      /\ \A g \in Firer \ {Sup} : fire'[g] = fire[g]
  BY <1>2, BasicTypes DEF Decides, TypeOK, Fire
<1>5. RunInv'
  BY <1>1, <1>3, <1>4, KeptFirings
<1>6. NoPileUp' /\ RetriesBounded'
  BY <1>1, <1>3, KeptPileUp, KeptRetries
<1>7. Len(log[j]) \in Nat
  BY RunTypes
<1>8. ASSUME NEW i \in 1..Len(log[j]), Executing(j, i)
      PROVE  Clicked(j, i, Len(log[j]))
  <2>1. i # Len(log[j]) /\ Len(log[j]) > 0
    BY <1>2, <1>7, <1>8 DEF Executing
  <2>2. CASE log[j][Len(log[j])].trigger = "manual"
    BY <1>7, <2>1, <2>2 DEF Clicked
  <2>3. CASE log[j][Len(log[j])].trigger # "manual"
    BY <1>1, <1>7, <1>8, <2>1, <2>3 DEF NoPileUp
  <2> QED BY <2>2, <2>3
<1>9. DecidedInv'
  BY <1>2, <1>3, <1>4, <1>8 DEF DecidedInv, Executing, Clicked, Retries
<1> QED BY <1>5, <1>6, <1>9 DEF RunsInv

(* The supervisor's insertion makes good on the decision.                  *)
LEMMA InsertRuns ==
    ASSUME TypeOK, TickInv, RunsInv, Insert
    PROVE  RunsInv'
<1>1. RunInv /\ DecidedInv /\ NoPileUp /\ RetriesBounded
  BY DEF RunsInv
<1>2. PICK j \in Job, t \in {"scheduled", "retry"} :
        /\ j = fire[Sup].job /\ t = fire[Sup].trigger /\ fire[Sup].step = "decided"
        /\ Inserts(Sup, j, t)
  BY FireTypes, BasicTypes DEF Insert, TickInv
<1> DEFINE n == Len(log[j]) + 1
<1>3. /\ Len(log[j]) \in Nat /\ Len(log'[j]) = n
      /\ log'[j][n].trigger = t /\ log'[j][n].exec = "none"
      /\ \A h \in 1..Len(log[j]) : log'[j][h] = log[j][h]
      /\ \A k \in Job \ {j} : log'[k] = log[k]
  BY <1>2, Inserted, NewRunTyped, BasicTypes
<1>4. RunInv'
  BY <1>1, <1>2, InsertedRunInv, BasicTypes
<1>5. NoPileUp'
  <2> SUFFICES ASSUME NEW q \in Job, NEW i \in 1..Len(log'[q]), NEW k \in 1..Len(log'[q]),
                      i < k, Executing(q, i)', log'[q][k].trigger # "manual"
               PROVE  Clicked(q, i, k)'
    BY DEF NoPileUp
  <2>1. CASE q = j
    <3>1. i \in 1..Len(log[j]) /\ Executing(j, i) /\ k \in 1..n
      BY <1>3, <2>1 DEF Executing
    <3>2. CASE k = n
      <4>1. Clicked(j, i, Len(log[j]))
        BY <1>1, <1>2, <3>1 DEF DecidedInv
      <4> QED BY <1>3, <2>1, <3>1, <3>2, <4>1 DEF Clicked
    <3>3. CASE k # n
      <4>1. k \in 1..Len(log[j]) /\ log'[j][k] = log[j][k]
        BY <1>3, <3>1, <3>3
      <4>2. Clicked(j, i, k)
        BY <1>1, <2>1, <3>1, <4>1 DEF NoPileUp
      <4> QED BY <1>3, <2>1, <3>1, <4>1, <4>2 DEF Clicked
    <3> QED BY <3>2, <3>3
  <2>2. CASE q # j
    <3>1. log'[q] = log[q]
      BY <1>3, <2>2
    <3>2. Clicked(q, i, k)
      BY <1>1, <3>1 DEF NoPileUp, Executing
    <3> QED BY <3>1, <3>2 DEF Clicked
  <2> QED BY <2>1, <2>2
<1>6. RetriesBounded'
  <2> SUFFICES ASSUME NEW q \in Job, NEW i \in 1..Len(log'[q]),
                      i + MaxRetries[q] <= Len(log'[q])
               PROVE  \E k \in i..(i + MaxRetries[q]) : log'[q][k].trigger # "retry"
    BY DEF RetriesBounded
  <2>0. MaxRetries[q] \in Nat
    BY CronAssumption
  <2>1. CASE q = j /\ i + MaxRetries[q] = n
    <3>1. CASE t = "scheduled"
      BY <1>3, <2>0, <2>1, <3>1
    <3>2. CASE t = "retry"
      <4>1. MaxRetries[j] > 0 /\ ~Retries(j, MaxRetries[j]) /\ i >= 1
        BY <1>1, <1>2, <3>2 DEF DecidedInv
      <4>2. MaxRetries[j] <= Len(log[j])
        BY <1>3, <2>0, <2>1, <4>1
      <4>3. PICK k \in 1..Len(log[j]) :
              k > Len(log[j]) - MaxRetries[j] /\ log[j][k].trigger # "retry"
        BY <4>1, <4>2 DEF Retries
      <4>4. k \in i..(i + MaxRetries[j])
        BY <1>3, <2>0, <2>1, <4>3
      <4> QED BY <1>3, <2>1, <4>3, <4>4
    <3> QED BY <3>1, <3>2
  <2>2. CASE q = j /\ i + MaxRetries[q] # n
    <3>0. /\ i \in 1..n /\ i + MaxRetries[j] <= n /\ i + MaxRetries[j] # n
          /\ MaxRetries[j] \in Nat /\ Len(log[j]) \in Nat
      BY <1>3, <2>0, <2>2
    <3> HIDE <2>2
    <3>1. i + MaxRetries[j] <= Len(log[j]) /\ i \in 1..Len(log[j])
      BY <3>0
    <3>2. PICK k \in i..(i + MaxRetries[j]) : log[j][k].trigger # "retry"
      BY <1>1, <3>1 DEF RetriesBounded
    <3>3. k \in 1..Len(log[j])
      BY <3>0, <3>1
    <3>4. log'[j][k].trigger # "retry"
      BY <1>3, <3>2, <3>3
    <3>5. q = j
      BY <2>2
    <3> QED BY <3>4, <3>5
  <2>3. CASE q # j
    <3>1. log'[q] = log[q]
      BY <1>3, <2>3
    <3> QED BY <1>1, <3>1 DEF RetriesBounded
  <2> QED BY <2>1, <2>2, <2>3
<1>7. DecidedInv'
  <2>1. fire'[Sup] = [step |-> "inserted", job |-> j, trigger |-> t, run |-> n]
    BY <1>2, InsertedFire, BasicTypes
  <2>2. ASSUME NEW k \in 1..Len(log'[j]) PROVE ~(k > n)
    BY <1>3
  <2> QED BY <1>3, <2>1, <2>2 DEF DecidedInv
<1> QED BY <1>4, <1>5, <1>6, <1>7 DEF RunsInv

LEMMA ConcludeKept ==
    ASSUME TypeOK, RunInv, NEW f \in Firer, Conclude(f)
    PROVE  /\ log' \in [Job -> Seq(Run)] /\ recent' \in [Job -> BOOLEAN]
           /\ Kept /\ Quiet
<1>1. PICK j \in Job, i \in Nat : j = fire[f].job /\ i = fire[f].run
  BY FireTypes
<1>2. i \in 1..Len(log[j])
  BY <1>1 DEF Conclude, RunInv
<1>3. PICK v \in {"ok", "error"} : Settled(j, i, v)
  BY <1>1 DEF Conclude, Verdicts
<1> QED BY <1>2, <1>3, SettledKept

LEMMA RunsStep ==
    ASSUME TypeOK, TickInv, RunsInv, [Next]_vars
    PROVE  RunsInv'
<1>0. RunInv
  BY DEF RunsInv
<1>1. ASSUME Kept, Quiet, \A f \in Firer : fire'[f].step # "none" => fire'[f] = fire[f]
      PROVE  RunsInv'
  BY <1>1, QuietStep
<1>2. ASSUME UNCHANGED log,
             \A f \in Firer : fire'[f].step # "none" => fire'[f] = fire[f]
      PROVE  RunsInv'
  BY <1>1, <1>2, StillRuns
<1>3. CASE Begin
  BY <1>1, <1>3, SweptKept DEF Begin
<1>4. CASE Insert
  BY <1>4, InsertRuns
<1>5. CASE End
  BY <1>2, <1>5 DEF End
<1>6. ASSUME NEW j \in Job, Advance(j) \/ Leave(j) PROVE RunsInv'
  BY <1>2, <1>6 DEF Advance, Leave
<1>7. ASSUME NEW j \in Job, DecideSlot(j) \/ DecideRetry(j) PROVE RunsInv'
  BY <1>7, DecideRuns
<1>8. ASSUME NEW f \in Firer, Launch(f) PROVE RunsInv'
  BY <1>8, LaunchRuns
<1>9. ASSUME NEW f \in Firer, Conclude(f) PROVE RunsInv'
  <2>1. Kept /\ Quiet /\ Done(f)
    BY <1>0, <1>9, ConcludeKept DEF Conclude
  <2> QED BY <1>1, <2>1, FiringEnds
<1>10. ASSUME NEW j \in Job, NEW i \in 1..Len(log[j]), Elsewhere(j, i) PROVE RunsInv'
  <2>1. UNCHANGED fire
    BY <1>10 DEF Elsewhere, Take, Lose, Record
  <2> QED BY <1>1, <1>10, <2>1, ElsewhereKept
<1>11. ASSUME NEW j \in Job, NEW i \in 1..Len(log[j]), GrowsOld(j, i) PROVE RunsInv'
  <2>1. UNCHANGED fire
    BY <1>11 DEF GrowsOld
  <2> QED BY <1>1, <1>11, <2>1, GrowsOldKept
<1>12. ASSUME NEW j \in Job, Due(j) \/ FailureAges(j) \/ Switch(j) \/ Reschedule(j)
       PROVE  RunsInv'
  BY <1>2, <1>12 DEF Due, FailureAges, Switch, Reschedule
<1>13. ASSUME NEW w \in Web, NEW j \in Job, Click(w, j) PROVE RunsInv'
  BY <1>13, ClickRuns
<1>14. CASE Pause
  BY <1>2, <1>14 DEF Pause
<1>15. CASE TickFails
  <2>1. \A f \in Firer : fire'[f].step # "none" => fire'[f] = fire[f]
    BY <1>15 DEF TickFails, NoFire, TypeOK
  <2> QED BY <1>2, <1>15, <2>1 DEF TickFails
<1>16. CASE Restart
  <2>1. \A f \in Firer : fire'[f].step # "none" => fire'[f] = fire[f]
    BY <1>16 DEF Restart, NoFire
  <2> QED BY <1>1, <1>16, <2>1, RestartKept
<1>17. CASE UNCHANGED vars
  BY <1>2, <1>17 DEF vars
<1> QED BY <1>3, <1>4, <1>5, <1>6, <1>7, <1>8, <1>9, <1>10, <1>11, <1>12, <1>13,
           <1>14, <1>15, <1>16, <1>17 DEF Next, Pass, Acts

-----------------------------------------------------------------------------
(* Types.                                                                  *)
LEMMA TickTypes ==
    ASSUME TypeOK
    PROVE  /\ tick \in Tick /\ tick.todo \subseteq Job /\ tick.dirty \subseteq Job
           /\ tick.seen \in [Job -> JobRow \cup {Unread}]
           /\ \A j \in Job : job[j] \in JobRow
BY DEF TypeOK, Tick

LEMMA CommitTyped ==
    ASSUME TypeOK, NEW D, NEW F, Committed(D, F)
    PROVE  job' \in [Job -> JobRow]
<1>1. \A j \in Job : job[j] \in JobRow
  BY TickTypes
<1>2. \A j \in Job : [job[j] EXCEPT !.on = FALSE] \in JobRow
                  /\ [job[j] EXCEPT !.next = "future"] \in JobRow
                  /\ [job[j] EXCEPT !.next = "none"] \in JobRow
  BY <1>1 DEF JobRow
<1> QED BY <1>1, <1>2 DEF Committed

LEMMA CountTyped ==
    ASSUME TypeOK, NEW k \in Kinds, Counted(k)
    PROVE  /\ count' \in [Kinds -> Nat]
           /\ \A c \in Kinds : count'[c] = IF c = k THEN count[c] + 1 ELSE count[c]
BY DEF TypeOK, Counted

LEMMA DoneTyped ==
    ASSUME TypeOK, NEW f \in Firer, Done(f)
    PROVE  tick' \in Tick
<1>1. fire[f].job \in Job
  BY FireTypes
<1> QED BY <1>1, TickTypes DEF Done, Tick

LEMMA TypeInit == ASSUME Init PROVE TypeOK
<1>1. \A j \in Job : <<>> \in Seq(Run)
  OBVIOUS
<1> QED BY <1>1, BasicTypes DEF Init, TypeOK

LEMMA TypeStep ==
    ASSUME TypeOK, RunInv, [Next]_vars
    PROVE  TypeOK'
<1>1. CASE Begin
  <2>1. [step |-> "jobs", todo |-> {j \in Job : job[j].on},
         seen |-> [j \in Job |-> IF job[j].on THEN job[j] ELSE Unread],
         dirty |-> {}, done |-> {}] \in Tick
    BY TickTypes DEF Tick
  <2>2. tick' \in Tick
    BY <1>1, <2>1, TickTypes DEF Begin
  <2> QED BY <1>1, <2>2, SweptKept DEF Begin, TypeOK
<1>2. CASE Insert
  <2>1. PICK j \in Job, t \in {"scheduled", "manual", "retry"} :
          j = fire[Sup].job /\ t = fire[Sup].trigger /\ Inserts(Sup, j, t)
    BY <1>2, FireTypes, BasicTypes DEF Insert, Fire
  <2>2. tick' \in Tick
    BY <1>2, TickTypes DEF Insert, Tick
  <2>3. fired' \in [Job -> Nat]
    BY <1>2, <2>1 DEF Insert, TypeOK
  <2> QED BY <1>2, <2>1, <2>2, <2>3, Inserted, InsertedFire, BasicTypes, CommitTyped
          DEF Insert, TypeOK
<1>3. CASE End
  BY <1>3, CommitTyped, BasicTypes DEF End, TypeOK
<1>4. ASSUME NEW j \in Job, Advance(j) \/ Leave(j) PROVE TypeOK'
  <2> DEFINE seen == [tick.seen EXCEPT ![j] = Unread]
  <2>0. seen \in [Job -> JobRow \cup {Unread}]
    BY TickTypes
  <2>1. ASSUME Advance(j) PROVE tick' \in Tick
    <3>1. tick' = [tick EXCEPT !.todo = @ \ {j}, !.dirty = @ \cup {j}, !.seen = seen]
      BY <2>1 DEF Advance
    <3> HIDE DEF seen
    <3> QED BY <2>0, <3>1, TickTypes DEF Tick
  <2>2. ASSUME Leave(j) PROVE tick' \in Tick
    <3>1. tick' = [tick EXCEPT !.todo = @ \ {j}, !.seen = seen]
      BY <2>2 DEF Leave
    <3> HIDE DEF seen
    <3> QED BY <2>0, <3>1, TickTypes DEF Tick
  <2> QED BY <1>4, <2>1, <2>2 DEF Advance, Leave, TypeOK
<1>5. ASSUME NEW j \in Job, DecideSlot(j) \/ DecideRetry(j) PROVE TypeOK'
  <2>1. PICK t \in {"scheduled", "retry"} : Decides(j, t)
    BY <1>5 DEF DecideSlot, DecideRetry
  <2>2. [NoFire EXCEPT !.step = "decided", !.job = j, !.trigger = t] \in Fire
    BY BasicTypes DEF Fire
  <2>3. fire' \in [Firer -> Fire]
    BY <2>1, <2>2 DEF Decides, TypeOK
  <2> QED BY <2>1, <2>3 DEF Decides, TypeOK
<1>6. ASSUME NEW f \in Firer, Launch(f) PROVE TypeOK'
  BY <1>6, LaunchKept, DoneTyped, FiringEnds DEF Launch, TypeOK
<1>7. ASSUME NEW f \in Firer, Conclude(f) PROVE TypeOK'
  BY <1>7, ConcludeKept, DoneTyped, FiringEnds DEF Conclude, TypeOK
<1>8. ASSUME NEW j \in Job, NEW i \in 1..Len(log[j]), Elsewhere(j, i) PROVE TypeOK'
  <2>1. UNCHANGED <<job, paused, tick, fire, fired, count>>
    BY <1>8 DEF Elsewhere, Take, Lose, Record
  <2> QED BY <1>8, <2>1, ElsewhereKept DEF TypeOK
<1>9. ASSUME NEW j \in Job, NEW i \in 1..Len(log[j]), GrowsOld(j, i) PROVE TypeOK'
  BY <1>9, GrowsOldKept DEF GrowsOld, TypeOK
<1>10. ASSUME NEW j \in Job, Due(j) PROVE TypeOK'
  <2>1. [job[j] EXCEPT !.next = "due"] \in JobRow
    BY TickTypes DEF JobRow
  <2> QED BY <1>10, <2>1, CountTyped DEF Due, TypeOK, Kinds
<1>11. ASSUME NEW j \in Job, FailureAges(j) PROVE TypeOK'
  BY <1>11 DEF FailureAges, TypeOK
<1>12. ASSUME NEW j \in Job, Switch(j) PROVE TypeOK'
  <2>1. [job[j] EXCEPT !.on = ~@] \in JobRow
    BY TickTypes DEF JobRow
  <2>2. job' \in [Job -> JobRow]
    BY <1>12, <2>1 DEF Switch, TypeOK
  <2> QED BY <1>12, <2>2, CountTyped DEF Switch, TypeOK, Kinds
<1>13. ASSUME NEW j \in Job, Reschedule(j) PROVE TypeOK'
  <2>1. [job[j] EXCEPT !.next = "future"] \in JobRow
    BY TickTypes DEF JobRow
  <2> QED BY <1>13, <2>1, CountTyped DEF Reschedule, TypeOK, Kinds
<1>14. ASSUME NEW w \in Web, NEW j \in Job, Click(w, j) PROVE TypeOK'
  <2>1. w \in Firer /\ Inserts(w, j, "manual")
    BY <1>14 DEF Click, Firer
  <2> QED BY <1>14, <2>1, Inserted, InsertedFire, CountTyped DEF Click, TypeOK, Kinds
<1>15. CASE Pause
  BY <1>15, CountTyped DEF Pause, TypeOK, Kinds
<1>16. CASE TickFails
  BY <1>16, CountTyped, BasicTypes DEF TickFails, TypeOK, Kinds
<1>17. CASE Restart
  <2>1. log' \in [Job -> Seq(Run)]
    BY <1>17, RestartKept
  <2>2. count' \in [Kinds -> Nat]
    BY <1>17, CountTyped DEF Restart, Kinds
  <2>3. tick' \in Tick /\ fire' \in [Firer -> Fire]
    BY <1>17, BasicTypes DEF Restart
  <2> QED BY <1>17, <2>1, <2>2, <2>3 DEF Restart, TypeOK
<1>18. CASE UNCHANGED vars
  BY <1>18 DEF vars, TypeOK
<1> QED BY <1>1, <1>2, <1>3, <1>4, <1>5, <1>6, <1>7, <1>8, <1>9, <1>10, <1>11, <1>12,
           <1>13, <1>14, <1>15, <1>16, <1>17, <1>18 DEF Next, Pass, Acts

-----------------------------------------------------------------------------
(* The pass and the firings agree.                                         *)
LEMMA TickFrame ==
    ASSUME TickInv, UNCHANGED <<tick, fire>>
    PROVE  TickInv'
BY DEF TickInv

LEMMA DoneTick ==
    ASSUME TypeOK, TickInv, NEW f \in Firer, Done(f), fire[f].step # "none"
    PROVE  TickInv'
<1>0. fire'[f] = NoFire /\ \A g \in Firer \ {f} : fire'[g] = fire[g]
  BY FiringEnds
<1>1. /\ fire'[f].step = "none" /\ fire'[f].trigger = "manual"
      /\ \A g \in Firer \ {f} : fire'[g] = fire[g]
  BY <1>0 DEF NoFire
<1>2. CASE f = Sup
  <2>1. fire[Sup].job \in tick.todo /\ tick.step = "jobs"
    BY <1>2 DEF TickInv
  <2>2. /\ tick'.step = "jobs" /\ tick'.todo = tick.todo \ {fire[Sup].job}
        /\ tick'.dirty \subseteq tick.dirty \cup {fire[Sup].job}
    BY <1>2, <2>1, TickTypes DEF Done, Tick
  <2>3. \A w \in Web : fire'[w] = fire[w]
    BY <1>1, <1>2, CronAssumption DEF Firer
  <2>4. tick.dirty \cap tick.todo = {}
    BY DEF TickInv
  <2>5. tick'.dirty \cap tick'.todo = {}
    BY <2>2, <2>4
  <2>6. \A w \in Web : fire'[w].step # "decided" /\ fire'[w].trigger = "manual"
    BY <2>3 DEF TickInv
  <2>7. fire'[Sup].step = "none"
    BY <1>1, <1>2
  <2> QED BY <2>2, <2>5, <2>6, <2>7 DEF TickInv
<1>3. CASE f \in Web
  <2>1. fire'[Sup] = fire[Sup] /\ tick' = tick
    BY <1>1, <1>3, CronAssumption, BasicTypes DEF Done
  <2>2. \A w \in Web : fire'[w].step # "decided" /\ fire'[w].trigger = "manual"
    <3> TAKE w \in Web
    <3>1. CASE w = f
      BY <1>1, <3>1
    <3>2. CASE w # f
      BY <1>1, <3>2 DEF TickInv, Firer
    <3> QED BY <3>1, <3>2
  <2> QED BY <2>1, <2>2 DEF TickInv
<1> QED BY <1>2, <1>3 DEF Firer

LEMMA TickStep ==
    ASSUME TypeOK, TickInv, [Next]_vars
    PROVE  TickInv'
<1>1. CASE Begin
  <2>1. fire[Sup].step = "none" /\ tick = Idle
    BY <1>1 DEF Begin, TickInv
  <2>2. CASE paused
    BY <1>1, <2>2, TickFrame DEF Begin
  <2>3. CASE ~paused
    <3>1. tick'.step = "jobs" /\ tick'.dirty = {}
      BY <1>1, <2>3 DEF Begin
    <3> QED BY <1>1, <2>1, <3>1 DEF Begin, TickInv
  <2> QED BY <2>2, <2>3
<1>2. CASE Insert
  <2>1. PICK j \in Job, t \in {"scheduled", "retry"} :
          /\ j = fire[Sup].job /\ t = fire[Sup].trigger
          /\ fire[Sup].step = "decided" /\ Inserts(Sup, j, t)
    BY <1>2, FireTypes, BasicTypes DEF Insert, TickInv
  <2>2. fire'[Sup] = [step |-> "inserted", job |-> j, trigger |-> t,
                      run |-> Len(log[j]) + 1]
    BY <2>1, InsertedFire, BasicTypes
  <2>3. \A w \in Web : fire'[w] = fire[w]
    BY <2>1, InsertedFire, BasicTypes, CronAssumption DEF Firer
  <2>4. tick'.step = tick.step /\ tick'.todo = tick.todo /\ tick'.dirty = {}
    BY <1>2, TickTypes DEF Insert, Tick
  <2> QED BY <2>1, <2>2, <2>3, <2>4 DEF TickInv
<1>3. CASE End
  BY <1>3 DEF End, TickInv, Idle
<1>4. ASSUME NEW j \in Job, Advance(j) \/ Leave(j) PROVE TickInv'
  <2>1. /\ tick'.step = "jobs" /\ tick'.todo = tick.todo \ {j}
        /\ tick'.dirty \subseteq tick.dirty \cup {j}
    BY <1>4, TickTypes DEF Advance, Leave, Visits, Tick
  <2>2. UNCHANGED fire /\ fire[Sup].step = "none"
    BY <1>4 DEF Advance, Leave, Visits
  <2> QED BY <2>1, <2>2 DEF TickInv
<1>5. ASSUME NEW j \in Job, DecideSlot(j) \/ DecideRetry(j) PROVE TickInv'
  <2>1. PICK t \in {"scheduled", "retry"} : Decides(j, t) /\ Visits(j)
    BY <1>5 DEF DecideSlot, DecideRetry
  <2>2. /\ fire'[Sup].step = "decided" /\ fire'[Sup].job = j /\ fire'[Sup].trigger = t
        /\ \A w \in Web : fire'[w] = fire[w]
    BY <2>1, BasicTypes, CronAssumption DEF Decides, TypeOK, Fire, Firer
  <2> QED BY <2>1, <2>2 DEF TickInv, Visits, Decides
<1>6. ASSUME NEW f \in Firer, Launch(f) \/ Conclude(f) PROVE TickInv'
  BY <1>6, DoneTick DEF Launch, Conclude
<1>7. ASSUME NEW w \in Web, NEW j \in Job, Click(w, j) PROVE TickInv'
  <2>1. w \in Firer /\ w # Sup /\ Inserts(w, j, "manual") /\ UNCHANGED tick
    BY <1>7, CronAssumption DEF Click, Firer
  <2>2. /\ fire'[w] = [step |-> "inserted", job |-> j, trigger |-> "manual",
                       run |-> Len(log[j]) + 1]
        /\ \A g \in Firer \ {w} : fire'[g] = fire[g]
    BY <2>1, InsertedFire
  <2>3. fire'[Sup] = fire[Sup]
    BY <2>1, <2>2, BasicTypes
  <2>4. \A v \in Web : fire'[v].step # "decided" /\ fire'[v].trigger = "manual"
    <3> TAKE v \in Web
    <3>1. CASE v = w
      BY <2>2, <3>1
    <3>2. CASE v # w
      BY <2>2, <3>2 DEF TickInv, Firer
    <3> QED BY <3>1, <3>2
  <2> QED BY <2>1, <2>3, <2>4 DEF TickInv
<1>8. ASSUME NEW j \in Job, NEW i \in 1..Len(log[j]), Elsewhere(j, i) \/ GrowsOld(j, i)
      PROVE  TickInv'
  BY <1>8, TickFrame DEF Elsewhere, Take, Lose, Record, GrowsOld
<1>9. ASSUME NEW j \in Job, Due(j) \/ FailureAges(j) \/ Switch(j) \/ Reschedule(j)
      PROVE  TickInv'
  BY <1>9, TickFrame DEF Due, FailureAges, Switch, Reschedule
<1>10. CASE TickFails
  <2>1. fire'[Sup].step = "none" /\ \A w \in Web : fire'[w] = fire[w]
    BY <1>10, BasicTypes, CronAssumption DEF TickFails, NoFire, TypeOK, Firer
  <2> QED BY <1>10, <2>1 DEF TickFails, TickInv, Idle
<1>11. CASE Restart
  <2>1. \A f \in Firer : fire'[f].step = "none" /\ fire'[f].trigger = "manual"
    BY <1>11 DEF Restart, NoFire
  <2> QED BY <1>11, <2>1 DEF Restart, TickInv, Idle, Firer
<1>12. CASE Pause \/ UNCHANGED vars
  BY <1>12, TickFrame DEF Pause, vars
<1> QED BY <1>1, <1>2, <1>3, <1>4, <1>5, <1>6, <1>7, <1>8, <1>9, <1>10, <1>11, <1>12
        DEF Next, Pass, Acts

-----------------------------------------------------------------------------
(* The slot a job has come to.                                             *)
LEMMA SlotFrame ==
    ASSUME SlotInv, UNCHANGED fired, count'["fails"] = count["fails"],
           \A j \in Job : Armed(j)' => Armed(j)
    PROVE  SlotInv'
BY DEF SlotInv

LEMMA SameSlots ==
    ASSUME SlotInv, UNCHANGED <<job, tick, fired>>, fire'[Sup] = fire[Sup],
           count'["fails"] = count["fails"]
    PROVE  SlotInv'
<1>1. \A j \in Job : Armed(j)' => Armed(j)
  BY DEF Armed, Firing, Seen
<1> QED BY <1>1, SlotFrame

(* What is written to a job disarms or leaves the others as they were.     *)
LEMMA OneRowArmed ==
    ASSUME UNCHANGED <<tick, fire>>, NEW j \in Job, NEW k \in Job \ {j},
           job'[k] = job[k], Armed(k)'
    PROVE  Armed(k)
BY DEF Armed, Firing, Seen

LEMMA UpsetSlots ==
    ASSUME TypeOK, SlotInv, UNCHANGED fired, Counted("fails")
    PROVE  SlotInv'
<1>1. count'["fails"] = count["fails"] + 1 /\ count["fails"] \in Nat
  BY CountTyped DEF Kinds, TypeOK
<1>2. \A j \in Job : fired[j] \in Nat
  BY DEF TypeOK
<1> QED BY <1>1, <1>2 DEF SlotInv

LEMMA BeginSlots ==
    ASSUME TypeOK, TickInv, SlotInv, Begin
    PROVE  SlotInv'
<1>1. tick = Idle /\ fire[Sup].step = "none" /\ UNCHANGED <<job, fire, fired, count>>
  BY DEF Begin, TickInv
<1>2. CASE paused
  BY <1>1, <1>2, SameSlots DEF Begin
<1>3. CASE ~paused
  <2>1. ASSUME NEW j \in Job, Armed(j)' PROVE Armed(j)
    <3>1. job[j].next = "due" /\ (j \in OneShot => job[j].on)
      BY <1>1, <1>3, <2>1 DEF Armed, Seen, Begin, Unread
    <3> QED BY <1>1, <3>1 DEF Armed, Idle
  <2> QED BY <1>1, <2>1, SlotFrame
<1> QED BY <1>2, <1>3

(* A commit disarms the jobs whose schedule moved on.                      *)
LEMMA CommitDisarms ==
    ASSUME TypeOK, NEW D \in SUBSET Job, NEW F, Committed(D, F), NEW j \in Job,
           job'[j].next = "due", j \in OneShot => job'[j].on
    PROVE  j \notin D /\ job'[j] = job[j]
<1>1. job[j] \in JobRow
  BY TickTypes
<1> QED BY <1>1 DEF Committed, JobRow

LEMMA EndSlots ==
    ASSUME TypeOK, TickInv, SlotInv, End
    PROVE  SlotInv'
<1>1. ASSUME NEW j \in Job, Armed(j)' PROVE Armed(j)
  <2>1. fire'[Sup].step = "none" /\ tick' = Idle
    BY DEF End
  <2>2. job'[j].next = "due" /\ (j \in OneShot => job'[j].on)
    BY <1>1, <2>1 DEF Armed, Idle
  <2>3. j \notin tick.dirty /\ job'[j] = job[j]
    BY <2>2, CommitDisarms, TickTypes DEF End
  <2> QED BY <2>2, <2>3 DEF Armed, End
<1> QED BY <1>1, SlotFrame DEF End

LEMMA InsertSlots ==
    ASSUME TypeOK, TickInv, SlotInv, Insert
    PROVE  SlotInv'
<1>1. PICK o \in Fire : o = fire[Sup] /\ o.job \in Job /\ o.step = "decided"
  BY FireTypes, BasicTypes DEF Insert
<1>2. /\ fire'[Sup].step = "inserted" /\ fire'[Sup].job = o.job
      /\ fire'[Sup].trigger = o.trigger
  BY <1>1, BasicTypes DEF Insert, Inserts, TypeOK
<1>3. /\ tick'.todo = tick.todo /\ tick'.dirty = {}
      /\ \A j \in Job : tick'.seen[j] = Unread
      /\ Committed(tick.dirty, tick.done) /\ UNCHANGED count
  BY TickTypes DEF Insert, Tick
<1>4. ASSUME NEW j \in Job, Armed(j)'
      PROVE  Armed(j) /\ ~(o.trigger = "scheduled" /\ o.job = j)
  <2>1. ~(o.trigger = "scheduled" /\ o.job = j)
    BY <1>2, <1>4 DEF Armed, Firing
  <2>2. job'[j].next = "due" /\ (j \in OneShot => job'[j].on)
    BY <1>2, <1>3, <1>4 DEF Armed, Seen
  <2>3. j \notin tick.dirty /\ job'[j] = job[j]
    BY <1>3, <2>2, CommitDisarms, TickTypes
  <2>4. Armed(j)
    BY <1>1, <2>2, <2>3 DEF Armed
  <2> QED BY <2>1, <2>4
<1>5. ASSUME NEW j \in Job
      PROVE  /\ fired'[j] <= 1 + count'["fails"]
             /\ Armed(j)' => fired'[j] <= count'["fails"]
  <2>1. fired[j] \in Nat /\ count["fails"] \in Nat /\ fired[j] <= 1 + count["fails"]
    BY DEF TypeOK, SlotInv, Kinds
  <2>2. CASE o.trigger = "scheduled" /\ o.job = j
    <3>1. fired[j] <= count["fails"]
      BY <1>1, <2>2 DEF SlotInv, Armed, Firing
    <3>2. fired'[j] = fired[j] + 1
      BY <1>1, <2>2 DEF Insert, TypeOK
    <3> QED BY <1>3, <1>4, <2>1, <2>2, <3>1, <3>2
  <2>3. CASE ~(o.trigger = "scheduled" /\ o.job = j)
    <3>1. fired'[j] = fired[j]
      BY <1>1, <2>3 DEF Insert, TypeOK
    <3> QED BY <1>3, <1>4, <2>1, <3>1 DEF SlotInv
  <2> QED BY <2>2, <2>3
<1> QED BY <1>5 DEF SlotInv

LEMMA DoneSlots ==
    ASSUME TypeOK, TickInv, SlotInv, NEW f \in Firer, Done(f),
           fire[f].step = "inserted", UNCHANGED <<job, fired, count>>
    PROVE  SlotInv'
<1>0. fire'[f] = NoFire /\ \A g \in Firer \ {f} : fire'[g] = fire[g]
  BY FiringEnds
<1>1. CASE f = Sup
  <2>1. fire'[Sup].step = "none"
    BY <1>0, <1>1 DEF NoFire
  <2>2. /\ tick'.todo = tick.todo \ {fire[Sup].job} /\ tick'.seen = tick.seen
        /\ tick'.dirty = IF fire[Sup].trigger = "scheduled"
                         THEN tick.dirty \cup {fire[Sup].job} ELSE tick.dirty
    BY <1>1, TickTypes DEF Done, Tick
  <2>3. ASSUME NEW j \in Job, Armed(j)' PROVE Armed(j)
    <3>1. \/ j \in tick'.todo /\ Seen(j)'.on /\ Seen(j)'.next = "due"
          \/ /\ j \notin tick'.dirty /\ job'[j].next = "due"
             /\ j \in OneShot => job'[j].on
      BY <2>1, <2>3 DEF Armed
    <3>2. Seen(j)' = Seen(j)
      BY <2>2 DEF Seen
    <3>3. ~Firing(j)
      BY <2>2, <3>1 DEF Firing
    <3> QED BY <2>2, <3>1, <3>2, <3>3 DEF Armed
  <2> QED BY <2>3, SlotFrame
<1>2. CASE f \in Web
  <2>1. fire'[Sup] = fire[Sup] /\ tick' = tick
    BY <1>0, <1>2, CronAssumption, BasicTypes DEF Done
  <2> QED BY <2>1, SameSlots
<1> QED BY <1>1, <1>2 DEF Firer

LEMMA SlotStep ==
    ASSUME TypeOK, TickInv, SlotInv, [Next]_vars
    PROVE  SlotInv'
<1>1. CASE Begin
  BY <1>1, BeginSlots
<1>2. CASE Insert
  BY <1>2, InsertSlots
<1>3. CASE End
  BY <1>3, EndSlots
<1>4. ASSUME NEW j \in Job, Advance(j) \/ Leave(j) PROVE SlotInv'
  <2>1. /\ tick'.todo = tick.todo \ {j} /\ tick.dirty \subseteq tick'.dirty
        /\ \A k \in Job \ {j} : tick'.seen[k] = tick.seen[k]
        /\ UNCHANGED <<job, fire, fired, count>> /\ fire[Sup].step = "none"
    BY <1>4, TickTypes DEF Advance, Leave, Visits, Tick
  <2>2. ASSUME NEW k \in Job, Armed(k)' PROVE Armed(k)
    <3>1. CASE k = j
      BY <2>1, <2>2, <3>1 DEF Armed
    <3>2. CASE k # j
      <4>1. Seen(k)' = Seen(k)
        BY <2>1, <3>2 DEF Seen
      <4> QED BY <2>1, <2>2, <4>1 DEF Armed, Firing
    <3> QED BY <3>1, <3>2
  <2> QED BY <2>1, <2>2, SlotFrame
<1>5. ASSUME NEW j \in Job, DecideSlot(j) \/ DecideRetry(j) PROVE SlotInv'
  <2>1. PICK t \in {"scheduled", "retry"} :
          /\ Decides(j, t) /\ Visits(j)
          /\ t = "scheduled" => Seen(j).on /\ Seen(j).next = "due"
    BY <1>5 DEF DecideSlot, DecideRetry
  <2>2. fire'[Sup].step = "decided" /\ fire'[Sup].job = j /\ fire'[Sup].trigger = t
    BY <2>1, BasicTypes DEF Decides, TypeOK, Fire
  <2>3. UNCHANGED <<job, tick, fired, count>> /\ fire[Sup].step = "none" /\ j \in tick.todo
    BY <2>1 DEF Decides, Visits
  <2>4. ASSUME NEW k \in Job, Armed(k)' PROVE Armed(k)
    <3>1. Seen(k)' = Seen(k)
      BY <2>3 DEF Seen
    <3>2. CASE k = j /\ t = "scheduled"
      BY <2>1, <2>3, <3>2 DEF Armed
    <3>3. CASE ~(k = j /\ t = "scheduled")
      BY <2>2, <2>3, <2>4, <3>1, <3>3 DEF Armed, Firing
    <3> QED BY <3>2, <3>3
  <2> QED BY <2>3, <2>4, SlotFrame
<1>6. ASSUME NEW f \in Firer, Launch(f) \/ Conclude(f) PROVE SlotInv'
  BY <1>6, DoneSlots DEF Launch, Conclude
<1>7. ASSUME NEW w \in Web, NEW j \in Job, Click(w, j) PROVE SlotInv'
  <2>1. w \in Firer /\ w # Sup /\ Inserts(w, j, "manual") /\ Counted("orders")
    BY <1>7, CronAssumption DEF Click, Firer
  <2>2. fire'[Sup] = fire[Sup] /\ count'["fails"] = count["fails"]
    BY <2>1, InsertedFire, CountTyped, BasicTypes DEF Kinds
  <2> QED BY <1>7, <2>2, SameSlots DEF Click
<1>8. ASSUME NEW j \in Job, NEW i \in 1..Len(log[j]), Elsewhere(j, i) \/ GrowsOld(j, i)
      PROVE  SlotInv'
  <2>1. UNCHANGED <<job, tick, fire, fired, count>>
    BY <1>8 DEF Elsewhere, Take, Lose, Record, GrowsOld
  <2> QED BY <2>1, SameSlots
<1>9. ASSUME NEW j \in Job, FailureAges(j) PROVE SlotInv'
  BY <1>9, SameSlots DEF FailureAges
<1>10. ASSUME NEW j \in Job, Due(j) PROVE SlotInv'
  <2>1. count'["fails"] = count["fails"] /\ count["fails"] \in Nat
    BY <1>10, CountTyped DEF Due, Kinds, TypeOK
  <2>2. fired'[j] = 0 /\ \A k \in Job \ {j} : fired'[k] = fired[k] /\ job'[k] = job[k]
    BY <1>10 DEF Due, TypeOK
  <2>3. ASSUME NEW k \in Job \ {j}, Armed(k)' PROVE Armed(k)
    BY <1>10, <2>2, <2>3, OneRowArmed DEF Due
  <2> QED BY <2>1, <2>2, <2>3 DEF SlotInv
<1>11. ASSUME NEW j \in Job, Switch(j) PROVE SlotInv'
  <2>1. count'["fails"] = count["fails"] /\ count["fails"] \in Nat
    BY <1>11, CountTyped DEF Switch, Kinds, TypeOK
  <2>2. /\ \A k \in Job \ {j} : fired'[k] = fired[k] /\ job'[k] = job[k]
        /\ fired'[j] = IF j \in OneShot THEN 0 ELSE fired[j]
        /\ job'[j].next = job[j].next /\ UNCHANGED <<tick, fire>>
    BY <1>11, TickTypes DEF Switch, TypeOK, JobRow
  <2>3. ASSUME NEW k \in Job \ {j}, Armed(k)' PROVE Armed(k)
    BY <2>2, <2>3, OneRowArmed
  <2>4. ASSUME j \notin OneShot, Armed(j)' PROVE Armed(j)
    <3>1. CASE fire[Sup].step = "decided" /\ Firing(j)
      BY <3>1 DEF Armed
    <3>2. CASE j \in tick.todo /\ tick.seen[j] # Unread
      BY <2>2, <2>4, <3>2 DEF Armed, Firing, Seen
    <3>3. CASE j \in tick.todo /\ tick.seen[j] = Unread
      <4>1. j \notin tick.dirty
        BY <3>3 DEF TickInv
      <4> QED BY <2>2, <2>4, <3>3, <4>1 DEF Armed, Firing, Seen
    <3>4. CASE j \notin tick.todo
      BY <2>2, <2>4, <3>4 DEF Armed, Firing
    <3> QED BY <3>1, <3>2, <3>3, <3>4
  <2> QED BY <2>1, <2>2, <2>3, <2>4 DEF SlotInv
<1>12. ASSUME NEW j \in Job, Reschedule(j) PROVE SlotInv'
  <2>1. count'["fails"] = count["fails"]
    BY <1>12, CountTyped DEF Reschedule, Kinds
  <2>2. /\ \A k \in Job \ {j} : job'[k] = job[k]
        /\ job'[j].next = "future" /\ UNCHANGED <<tick, fire, fired>>
    BY <1>12, TickTypes DEF Reschedule, TypeOK, JobRow
  <2>3. ASSUME NEW k \in Job, Armed(k)' PROVE Armed(k)
    <3>1. CASE k # j
      BY <2>2, <2>3, <3>1, OneRowArmed
    <3>2. CASE k = j
      BY <2>2, <2>3, <3>2 DEF Armed, Firing, Seen
    <3> QED BY <3>1, <3>2
  <2> QED BY <2>1, <2>2, <2>3, SlotFrame
<1>13. CASE Pause
  <2>1. count'["fails"] = count["fails"]
    BY <1>13, CountTyped DEF Pause, Kinds
  <2> QED BY <1>13, <2>1, SameSlots DEF Pause
<1>14. CASE TickFails \/ Restart
  BY <1>14, UpsetSlots DEF TickFails, Restart
<1>15. CASE UNCHANGED vars
  BY <1>15, SameSlots DEF vars
<1> QED BY <1>1, <1>2, <1>3, <1>4, <1>5, <1>6, <1>7, <1>8, <1>9, <1>10, <1>11, <1>12,
           <1>13, <1>14, <1>15 DEF Next, Pass, Acts

-----------------------------------------------------------------------------
(* Theorems.                                                               *)
LEMMA InvInit == ASSUME Init PROVE IndInv
<1>1. TypeOK
  BY TypeInit
<1>2. TickInv
  BY BasicTypes DEF Init, TickInv, NoFire, Idle, Firer
<1>3. \A f \in Firer : fire[f].step = "none"
  BY DEF Init, NoFire
<1>4. RunInv /\ DecidedInv
  BY <1>3, BasicTypes DEF RunInv, DecidedInv
<1>5. NoPileUp /\ RetriesBounded
  <2>1. \A j \in Job : Len(log[j]) = 0
    BY DEF Init
  <2> QED BY <2>1 DEF NoPileUp, RetriesBounded
<1>6. SlotInv
  <2>1. count["fails"] = 0 /\ \A j \in Job : fired[j] = 0
    BY DEF Init, Kinds
  <2>2. ASSUME NEW j \in Job
        PROVE  fired[j] <= 1 + count["fails"] /\ fired[j] <= count["fails"]
    <3>1. fired[j] = 0 /\ count["fails"] = 0
      BY <2>1
    <3>2. 0 <= 1 + 0 /\ 0 <= 0
      OBVIOUS
    <3> QED BY <3>1, <3>2, Zenon
  <2> QED BY <2>2, Zenon DEF SlotInv
<1> QED BY <1>1, <1>2, <1>4, <1>5, <1>6 DEF IndInv

LEMMA InvStep == ASSUME IndInv, [Next]_vars PROVE IndInv'
<1>1. /\ TypeOK /\ TickInv /\ RunInv /\ SlotInv /\ DecidedInv
      /\ NoPileUp /\ RetriesBounded /\ RunsInv
  BY DEF IndInv, RunsInv
<1>2. TypeOK' /\ TickInv' /\ SlotInv' /\ RunsInv'
  BY <1>1, TypeStep, TickStep, SlotStep, RunsStep
<1> QED BY <1>2 DEF IndInv, RunsInv

(* The inductive invariant of the scheduler holds, whatever the jobs, the  *)
(* requests and the bounds.                                                *)
THEOREM CronInvariant == Spec => []IndInv
<1>1. Init => IndInv
  BY InvInit
<1>2. IndInv /\ [Next]_vars => IndInv'
  BY InvStep
<1> QED BY <1>1, <1>2, PTL DEF Spec

(* A slot is fired for once, and once more for every restart or failed     *)
(* tick that undid the advance of the schedule.                            *)
THEOREM SlotsOnce == Spec => []SlotOnce
<1>1. IndInv => SlotOnce
  BY DEF IndInv, SlotInv, SlotOnce
<1> QED BY <1>1, CronInvariant, PTL

(* What the scheduler starts does not pile up.                             *)
THEOREM NoPilingUp == Spec => []NoPileUp
<1>1. IndInv => NoPileUp
  BY DEF IndInv
<1> QED BY <1>1, CronInvariant, PTL

(* No chain of retries is longer than max_retries.                         *)
THEOREM RetriesAreBounded == Spec => []RetriesBounded
<1>1. IndInv => RetriesBounded
  BY DEF IndInv
<1> QED BY <1>1, CronInvariant, PTL

-----------------------------------------------------------------------------
(* Verdicts.                                                               *)
Upheld ==
    \A j \in Job : \A i \in 1..Len(log[j]) :
       /\ log[j][i].status # "pending"
       /\ log'[j][i].status # log[j][i].status
       => Ends(j, i)

LEMMA SameStatus ==
    ASSUME \A j \in Job : \A i \in 1..Len(log[j]) :
             log'[j][i].status = log[j][i].status
    PROVE  Upheld
BY DEF Upheld

LEMMA OneStatus ==
    ASSUME NEW j \in Job, NEW i \in 1..Len(log[j]), NEW r, Becomes(j, i, r),
           r.status = log[j][i].status \/ Ends(j, i)
    PROVE  Upheld
BY DEF Becomes, Upheld

LEMMA SettledBecomes ==
    ASSUME TypeOK, NEW j \in Job, NEW i \in 1..Len(log[j]), NEW v \in {"ok", "error"},
           Settled(j, i, v)
    PROVE  \E r \in Run : Becomes(j, i, r) /\ r.exec = "none"
<1> DEFINE r == [log[j][i] EXCEPT !.status = v, !.exec = "none"]
<1>1. log[j][i] \in Run
  BY RunTypes
<1>2. r \in Run /\ r.exec = "none"
  BY <1>1 DEF Run
<1>3. log' = [log EXCEPT ![j] = [log[j] EXCEPT ![i] = r]]
  BY DEF Settled
<1> HIDE DEF r
<1>4. Becomes(j, i, r)
  BY <1>2, <1>3, OneRun
<1> QED BY <1>2, <1>4

LEMMA VerdictStep ==
    ASSUME TypeOK, RunInv, Next
    PROVE  Upheld
<1>1. CASE UNCHANGED log
  BY <1>1, SameStatus
<1>2. CASE Begin
  <2>1. \A j \in Job : \A i \in 1..Len(log[j]) : log'[j][i] = Swept(log[j][i])
    BY <1>2 DEF Begin, SweepsLog
  <2>2. \A j \in Job : \A i \in 1..Len(log[j]) :
          log[j][i].status # "pending" => Swept(log[j][i]) = log[j][i]
    BY DEF Swept
  <2> QED BY <2>1, <2>2 DEF Upheld
<1>3. CASE Restart
  <2>1. \A j \in Job : \A i \in 1..Len(log[j]) : log'[j][i] = Orphaned(j, log[j][i])
    BY <1>3 DEF Restart
  <2>2. \A j \in Job : \A i \in 1..Len(log[j]) :
          Orphaned(j, log[j][i]).status = log[j][i].status
    BY RunTypes DEF Orphaned, Run
  <2> QED BY <2>1, <2>2, SameStatus
<1>4. ASSUME NEW f \in Firer, NEW j \in Job, NEW t \in {"scheduled", "manual", "retry"},
             Inserts(f, j, t)
      PROVE  Upheld
  <2>1. ASSUME NEW k \in Job, NEW i \in 1..Len(log[k])
        PROVE  log'[k][i] = log[k][i]
    BY <1>4, Inserted
  <2> QED BY <2>1, SameStatus
<1>5. CASE Insert
  <2>1. fire[Sup].job \in Job /\ fire[Sup].trigger \in {"scheduled", "manual", "retry"}
    BY FireTypes, BasicTypes DEF Fire
  <2> QED BY <1>4, <1>5, <2>1, BasicTypes DEF Insert
<1>6. ASSUME NEW w \in Web, NEW j \in Job, Click(w, j) PROVE Upheld
  BY <1>4, <1>6 DEF Click, Firer
<1>7. ASSUME NEW f \in Firer, Launch(f) PROVE Upheld
  <2>1. PICK j \in Job, i \in Nat : j = fire[f].job /\ i = fire[f].run
    BY FireTypes
  <2>2. i \in 1..Len(log[j])
    BY <1>7, <2>1 DEF Launch, RunInv
  <2> DEFINE e == IF j \in Command THEN "queued" ELSE "running"
             r == [log[j][i] EXCEPT !.exec = e]
  <2>3. log[j][i] \in Run /\ e \in {"queued", "running"}
    BY <2>2, RunTypes
  <2>4. log' = [log EXCEPT ![j] = [log[j] EXCEPT ![i] = r]]
    BY <1>7, <2>1 DEF Launch
  <2> HIDE DEF e
  <2>5. r \in Run /\ r.status = log[j][i].status
    BY <2>3 DEF Run
  <2> HIDE DEF r
  <2>6. Becomes(j, i, r)
    BY <2>2, <2>4, <2>5, OneRun
  <2> QED BY <2>2, <2>5, <2>6, OneStatus
<1>8. ASSUME NEW f \in Firer, Conclude(f) PROVE Upheld
  <2>1. PICK j \in Job, i \in Nat : j = fire[f].job /\ i = fire[f].run
    BY FireTypes
  <2>2. i \in 1..Len(log[j]) /\ fire[f].step = "inserted" /\ Done(f)
    BY <1>8, <2>1 DEF Conclude, RunInv
  <2>3. PICK v \in {"ok", "error"} : Settled(j, i, v)
    BY <1>8, <2>1 DEF Conclude, Verdicts
  <2>4. PICK r \in Run : Becomes(j, i, r)
    BY <2>2, <2>3, SettledBecomes
  <2>5. fire'[f] = NoFire
    BY <2>2, FiringEnds
  <2>6. Ends(j, i)
    BY <2>1, <2>2, <2>5 DEF Ends, NoFire
  <2> QED BY <2>2, <2>4, <2>6, OneStatus
<1>9. ASSUME NEW j \in Job, NEW i \in 1..Len(log[j]), Record(j, i) PROVE Upheld
  <2>1. PICK v \in {"ok", "error"} : Settled(j, i, v)
    BY <1>9 DEF Record
  <2>2. PICK r \in Run : Becomes(j, i, r) /\ r.exec = "none"
    BY <2>1, SettledBecomes
  <2>3. Ends(j, i)
    BY <1>9, <2>2 DEF Ends, Record, Becomes
  <2> QED BY <2>2, <2>3, OneStatus
<1>10. ASSUME NEW j \in Job, NEW i \in 1..Len(log[j]),
              Take(j, i) \/ Lose(j, i) \/ GrowsOld(j, i)
       PROVE  Upheld
  <2>1. log[j][i] \in Run
    BY RunTypes
  <2>2. PICK r \in Run : /\ r.status = log[j][i].status
                         /\ log' = [log EXCEPT ![j] = [log[j] EXCEPT ![i] = r]]
    <3>1. /\ [log[j][i] EXCEPT !.exec = "running"] \in Run
          /\ [log[j][i] EXCEPT !.exec = "running"].status = log[j][i].status
      BY <2>1 DEF Run
    <3>2. /\ [log[j][i] EXCEPT !.exec = "none"] \in Run
          /\ [log[j][i] EXCEPT !.exec = "none"].status = log[j][i].status
      BY <2>1 DEF Run
    <3>3. /\ [log[j][i] EXCEPT !.old = TRUE] \in Run
          /\ [log[j][i] EXCEPT !.old = TRUE].status = log[j][i].status
      BY <2>1 DEF Run
    <3>4. CASE Take(j, i)
      BY <3>1, <3>4 DEF Take
    <3>5. CASE Lose(j, i)
      BY <3>2, <3>5 DEF Lose
    <3>6. CASE GrowsOld(j, i)
      BY <3>3, <3>6 DEF GrowsOld
    <3> QED BY <1>10, <3>4, <3>5, <3>6
  <2>3. Becomes(j, i, r)
    BY <2>2, OneRun
  <2> QED BY <2>2, <2>3, OneStatus
<1>11. CASE End \/ Pause \/ TickFails
  BY <1>1, <1>11 DEF End, Pause, TickFails
<1>12. ASSUME NEW j \in Job,
              \/ Advance(j) \/ DecideSlot(j) \/ DecideRetry(j) \/ Leave(j)
              \/ Due(j) \/ FailureAges(j) \/ Switch(j) \/ Reschedule(j)
       PROVE  Upheld
  BY <1>1, <1>12 DEF Advance, DecideSlot, DecideRetry, Decides, Leave, Due, FailureAges,
                     Switch, Reschedule
<1> QED BY <1>2, <1>3, <1>5, <1>6, <1>7, <1>8, <1>9, <1>10, <1>11, <1>12
        DEF Next, Pass, Acts, Elsewhere

(* A verdict is corrected only by the end of what the run executed: no     *)
(* sweep, restart or later run rewrites it.                                *)
THEOREM VerdictsStand == Spec => VerdictStands
<1>1. IndInv /\ [Next]_vars
        => [\A j \in Job : \A i \in 1..Len(log[j]) :
              /\ log[j][i].status # "pending"
              /\ log'[j][i].status # log[j][i].status
              => Ends(j, i)]_vars
  BY VerdictStep DEF IndInv, Upheld
<1> QED BY <1>1, CronInvariant, PTL DEF Spec, VerdictStands

===============================================================================
