---------------------------- MODULE DeliveryProofs ----------------------------
(***************************************************************************)
(* What the supervisor's multi-transaction operations leave behind, for    *)
(* any number of faults: a recovery closes what it kills, a run is closed  *)
(* and summarised once (db/assistant.py), a stamped return has been sent,  *)
(* and an item that nobody will end has a loss to show for it (core.py).   *)
(***************************************************************************)
EXTENDS SupervisorProofs, FiniteSetTheorems

(***************************************************************************)
(* The envelopes a step adds, and what it changes of finished rows.        *)
(***************************************************************************)
NoEnvelope == \A j \in JournalId : EnvelopesOf(j)' = EnvelopesOf(j)

OutcomesStay ==
    \A j \in JournalId : journal[j].state \in Terminal =>
        journal'[j].state = journal[j].state /\ journal'[j].back = journal[j].back

StampsStay == \A j \in JournalId : journal'[j].routed = journal[j].routed

(* The step leaves the returns alone: those due and those sent.            *)
Undelivered == NoEnvelope /\ OutcomesStay /\ StampsStay

LEMMA RowsRest == rows' = rows /\ nextRow' = nextRow => NoEnvelope
BY DEF NoEnvelope, EnvelopesOf, Rows

LEMMA QueueIdle == UNCHANGED queueVars => Undelivered
BY RowsRest DEF queueVars, Undelivered, OutcomesStay, StampsStay

LEMMA EnvelopesFinite ==
    ASSUME TypeOK, NEW j
    PROVE  IsFiniteSet(EnvelopesOf(j)) /\ Cardinality(EnvelopesOf(j)) \in Nat
<1>1. 1 \in Int /\ nextRow - 1 \in Int
  BY QueueBasics DEF TypeOK
<1>2. IsFiniteSet(Rows)
  BY <1>1, FS_Interval DEF Rows
<1>3. EnvelopesOf(j) \in SUBSET Rows
  BY DEF EnvelopesOf
<1> QED BY <1>2, <1>3, FS_Subset, FS_CardinalityType

(* An enqueued row adds itself to those of its kind that stem from the row *)
(* it names.                                                               *)
Stemming(w, j) == {i \in Rows : rows[i].why = w /\ rows[i].src = j}

LEMMA StemmingAdds ==
    ASSUME TypeOK, NEW r \in Row, Enqueue(r), NEW w, NEW j
    PROVE  Stemming(w, j)' = IF r.why = w /\ r.src = j
                             THEN Stemming(w, j) \cup {nextRow}
                             ELSE Stemming(w, j)
<1>1. nextRow \in RowId /\ nextRow' = nextRow + 1
      /\ rows' = [rows EXCEPT ![nextRow] = r]
  BY DEF Enqueue
<1>2. Rows' = Rows \cup {nextRow}
  BY <1>1, QueueBasics DEF TypeOK, Rows
<1>3. \A i \in Rows : i \in RowId /\ i # nextRow
  BY QueueBasics DEF TypeOK
<1>4. rows'[nextRow] = r /\ \A i \in Rows : rows'[i] = rows[i]
  BY <1>1, <1>3 DEF TypeOK, QueueTypeOK
<1>5. \A i : i \in Stemming(w, j)' <=>
             i \in Rows' /\ rows'[i].why = w /\ rows'[i].src = j
  BY DEF Stemming
<1>6. \A i : i \in Stemming(w, j) <=>
             i \in Rows /\ rows[i].why = w /\ rows[i].src = j
  BY DEF Stemming
<1>7. CASE r.why = w /\ r.src = j
  <2>1. \A i : i \in Stemming(w, j)' <=> i \in Stemming(w, j) \cup {nextRow}
    BY <1>2, <1>4, <1>5, <1>6, <1>7
  <2> QED BY <1>7, <2>1
<1>8. CASE ~(r.why = w /\ r.src = j)
  <2>1. \A i : i \in Stemming(w, j)' <=> i \in Stemming(w, j)
    BY <1>2, <1>4, <1>5, <1>6, <1>8
  <2> QED BY <1>8, <2>1
<1> QED BY <1>7, <1>8

LEMMA EnqueueAdds ==
    ASSUME TypeOK, NEW r \in Row, Enqueue(r), NEW j
    PROVE  EnvelopesOf(j)' = IF r.why = "envelope" /\ r.src = j
                             THEN EnvelopesOf(j) \cup {nextRow}
                             ELSE EnvelopesOf(j)
<1>1. EnvelopesOf(j) = Stemming("envelope", j)
      /\ EnvelopesOf(j)' = Stemming("envelope", j)'
  BY DEF EnvelopesOf, Stemming
<1> QED BY <1>1, StemmingAdds

LEMMA OtherOrders ==
    ASSUME TypeOK, NEW r \in Row, Enqueue(r), r.why # "envelope"
    PROVE  Undelivered
<1>1. NoEnvelope
  BY EnqueueAdds DEF NoEnvelope
<1>2. journal' = journal
  BY DEF Enqueue
<1> QED BY <1>1, <1>2 DEF Undelivered, OutcomesStay, StampsStay

LEMMA TakeDelivers ==
    ASSUME IndInv, SentInv, NEW i, TakeItem(i)
    PROVE  Undelivered
<1>1. NoEnvelope
  BY RowsRest DEF TakeItem
<1>2. nextJournal \in JournalId /\ nextJournal \notin Jobs
  BY QueueBasics DEF TakeItem, IndInv, TypeOK
<1>3. journal[nextJournal].state = "none"
  BY <1>2 DEF IndInv, QueueInv
<1>4. journal[nextJournal].routed = FALSE
  BY <1>2, <1>3 DEF IndInv, TypeOK, QueueTypeOK, Entry, SentInv, Terminal
<1>5. /\ journal'[nextJournal].routed = FALSE
      /\ \A j \in JournalId : j # nextJournal => journal'[j] = journal[j]
  BY <1>2 DEF TakeItem, IndInv, TypeOK, QueueTypeOK
<1> QED BY <1>1, <1>3, <1>4, <1>5 DEF Undelivered, OutcomesStay, StampsStay, Terminal

LEMMA OutcomeDelivers ==
    ASSUME IndInv, NEW j \in Jobs, journal[j].state = "processing",
           NEW state, NEW back, JournalUpdate(j, state, back)
    PROVE  Undelivered
<1>1. NoEnvelope
  BY RowsRest DEF JournalUpdate
<1>2. j \in JournalId
  BY QueueBasics DEF IndInv, TypeOK
<1>3. /\ journal'[j].routed = journal[j].routed
      /\ \A k \in JournalId : k # j => journal'[k] = journal[k]
  BY <1>2 DEF JournalUpdate, IndInv, TypeOK, QueueTypeOK, Entry
<1> QED BY <1>1, <1>3 DEF Undelivered, OutcomesStay, StampsStay, Terminal

LEMMA SummariesDiffer ==
    ASSUME NEW j \in 0..MaxJournal
    PROVE  /\ SummaryOrder(Summarizer, j) \in Row
           /\ SummaryOrder(Summarizer, j).why # "envelope"
BY RowTypes, SupervisorAssumption DEF SummaryOrder

(* Only the routing pass sends an envelope or stamps a row.                *)
LEMMA WorkerUndelivered ==
    ASSUME IndInv, SentInv, NEW p \in Pid, Worker(p)
    PROVE  Undelivered
<1>1. CASE Take(p)
  BY <1>1, TakeDelivers DEF Take
<1>2. CASE RequestSummary(p)
  <2>1. wjid[p] \in 0..MaxJournal
    BY DEF IndInv, TypeOK, WorkerTypeOK
  <2>2. Enqueue(SummaryOrder(Summarizer, wjid[p])) /\ TypeOK
    BY <1>2 DEF RequestSummary, IndInv
  <2> QED BY <2>1, <2>2, SummariesDiffer, OtherOrders
<1>3. ASSUME NEW o \in Terminal, Settle(p, o) PROVE Undelivered
  <2>1. /\ wpc[p] \in Holding /\ wpc[p] # "settled"
        /\ JournalUpdate(wjid[p], o, rows[wrow[p]].ret)
    BY <1>3 DEF Settle, Outcomes, Holding
  <2>2. wjid[p] \in Jobs /\ journal[wjid[p]].state = "processing"
    BY <2>1 DEF IndInv, HoldInv, JobOf
  <2> QED BY <2>1, <2>2, OutcomeDelivers
<1>4. Poll(p) \/ Exit(p) \/ EmitProcessing(p) \/ EmitOutcome(p) \/ StartRun(p)
      \/ PostFailure(p) \/ (\E s \in {"finished", "failed"} : FinishRun(p, s))
      => UNCHANGED queueVars
  BY DEF Poll, Exit, EmitProcessing, EmitOutcome, StartRun, PostFailure, FinishRun
<1> QED BY <1>1, <1>2, <1>3, <1>4, QueueIdle DEF Worker

LEMMA RecoveryUndelivered ==
    ASSUME IndInv, Recovery
    PROVE  Undelivered
<1>1. CASE FailJournal
  <2>1. rjid \in Jobs /\ journal[rjid].state = "processing"
        /\ JournalUpdate(rjid, "failed", NoRole)
    BY <1>1 DEF FailJournal, RecoveryStep, IndInv, RecoveryInv
  <2> QED BY <2>1, OutcomeDelivers
<1>2. CASE OrderSummary
  <2>1. rjid \in 0..MaxJournal
    BY DEF IndInv, TypeOK, PassTypeOK
  <2>2. Enqueue(SummaryOrder(Summarizer, rjid)) /\ TypeOK
    BY <1>2 DEF OrderSummary, IndInv
  <2> QED BY <2>1, <2>2, SummariesDiffer, OtherOrders
<1>3. LookUpRun \/ KillRun \/ CheckJournal \/ PostKilledNotice => UNCHANGED queueVars
  BY DEF LookUpRun, KillRun, CheckJournal, PostKilledNotice
<1> QED BY <1>1, <1>2, <1>3, QueueIdle DEF Recovery

LEMMA EnvironmentUndelivered ==
    ASSUME IndInv, Environment
    PROVE  Undelivered
<1>1. ASSUME NEW t \in Turns, Submit(t) PROVE Undelivered
  <2>1. t \in Row /\ t.why # "envelope"
    BY RowTypes, QueueAssumption, SupervisorAssumption DEF Turn
  <2> QED BY <1>1, <2>1, OtherOrders DEF Submit, IndInv
<1>2. ASSUME NEW p \in Pid, Hang(p) \/ Die(p) \/ Unwind(p) \/ DrainGroup(p)
      PROVE  Undelivered
  BY <1>2, QueueIdle DEF Hang, Die, Unwind, DrainGroup
<1>3. RecoveryError \/ Stop \/ Crash => Undelivered
  BY QueueIdle DEF RecoveryError, Stop, Crash
<1> QED BY <1>1, <1>2, <1>3 DEF Environment

(***************************************************************************)
(* Routing: SentInv.                                                       *)
(***************************************************************************)
(* The pass is not routing, or goes on with the same rows in hand; a row   *)
(* in hand is let go of only by a supervisor that ends.                    *)
SameHand ==
    /\ spc' \in {"route", "mark"} => spc' = spc /\ batch' = batch
    /\ spc = "mark" /\ spc' # "mark" => outages' >= outages + 1
    /\ outages' >= outages

LEMMA SentRests ==
    ASSUME TypeOK, TypeOK', SentInv, Undelivered, SameHand
    PROVE  SentInv'
<1> USE DEF Undelivered
<1>1. ASSUME NEW j \in JournalId, journal'[j].routed
      PROVE  journal'[j].state \in Terminal
  BY <1>1 DEF SentInv, OutcomesStay, StampsStay
<1>2. ASSUME spc' \in {"route", "mark"}, NEW j \in batch'
      PROVE  journal'[j].state \in Terminal /\ ~journal'[j].routed
  <2>1. j \in JournalId
    BY DEF TypeOK, PassTypeOK
  <2>2. journal[j].state \in Terminal /\ ~journal[j].routed
    BY <1>2 DEF SameHand, SentInv
  <2> QED BY <2>1, <2>2 DEF OutcomesStay, StampsStay
<1>3. spc' = "mark" => batch' # {}
  BY DEF SameHand, SentInv
<1>4. ASSUME NEW j \in JournalId
      PROVE  /\ journal'[j].routed /\ journal'[j].back # NoRole
                  => EnvelopesOf(j)' # {}
             /\ InHand(j)' => EnvelopesOf(j)' # {}
             /\ Cardinality(EnvelopesOf(j)')
                  <= outages' + (IF journal'[j].routed \/ InHand(j)' THEN 1 ELSE 0)
  <2>1. EnvelopesOf(j)' = EnvelopesOf(j)
    BY DEF NoEnvelope
  <2>2. InHand(j)' => InHand(j)
    BY DEF InHand, SameHand
  <2>3. journal'[j].routed /\ journal'[j].back # NoRole => EnvelopesOf(j) # {}
    BY DEF SentInv, OutcomesStay, StampsStay
  <2>4. outages \in Nat /\ outages' \in Nat /\ Cardinality(EnvelopesOf(j)) \in Nat
    BY EnvelopesFinite DEF TypeOK, BoundTypeOK
  <2>5. Cardinality(EnvelopesOf(j))
          <= outages + (IF journal[j].routed \/ InHand(j) THEN 1 ELSE 0)
    BY DEF SentInv
  <2>6. CASE InHand(j) /\ ~InHand(j)'
    <3>1. outages' >= outages + 1
      BY <2>6 DEF InHand, SameHand
    <3> QED BY <2>1, <2>2, <2>3, <2>4, <2>5, <2>6, <3>1 DEF SentInv
  <2>7. CASE InHand(j)' <=> InHand(j)
    <3>1. outages' >= outages /\ (journal'[j].routed <=> journal[j].routed)
      BY DEF SameHand, StampsStay
    <3> QED BY <2>1, <2>3, <2>4, <2>5, <2>7, <3>1 DEF SentInv
  <2> QED BY <2>2, <2>6, <2>7
<1> QED BY <1>1, <1>2, <1>3, <1>4 DEF SentInv

LEMMA SentFetch ==
    ASSUME TypeOK, SentInv, Fetch
    PROVE  SentInv'
<1>1. spc = "fetch" /\ batch' = UnroutedTerminal /\ spc' \in {"spawn", "route"}
  BY DEF Fetch, AfterRouting
<1>2. UNCHANGED queueVars /\ outages' = outages
  BY DEF Fetch, boundVars
<1>3. \A j \in batch' : journal'[j].state \in Terminal /\ ~journal'[j].routed
  BY <1>1, <1>2 DEF UnroutedTerminal, Terminal, queueVars
<1>4. \A j : ~InHand(j) /\ ~InHand(j)' /\ EnvelopesOf(j)' = EnvelopesOf(j)
  BY <1>1, <1>2 DEF InHand, queueVars, EnvelopesOf, Rows
<1>5. ASSUME NEW j \in JournalId
      PROVE  /\ journal'[j].routed /\ journal'[j].back # NoRole
                  => EnvelopesOf(j)' # {}
             /\ InHand(j)' => EnvelopesOf(j)' # {}
             /\ Cardinality(EnvelopesOf(j)')
                  <= outages' + (IF journal'[j].routed \/ InHand(j)' THEN 1 ELSE 0)
  BY <1>2, <1>4 DEF SentInv, queueVars
<1> QED BY <1>1, <1>2, <1>3, <1>5 DEF SentInv, queueVars

LEMMA SentEnvelope ==
    ASSUME IndInv, TypeOK', SentInv, SendEnvelope
    PROVE  SentInv'
<1> USE DEF IndInv
<1>1. PICK k : k = Oldest(batch)
  OBVIOUS
<1>2. PICK e : e = Envelope(journal[k].back, k)
  OBVIOUS
<1>3. /\ spc = "route" /\ batch # {} /\ spc' = "mark"
      /\ Enqueue(e) /\ journal' = journal /\ batch' = batch /\ outages' = outages
  BY <1>1, <1>2 DEF SendEnvelope, Enqueue, boundVars
<1>4. k \in batch /\ k \in JournalId
  BY <1>1, <1>3, OldestJob DEF TypeOK, PassTypeOK
<1>5. e \in Row /\ e.why = "envelope" /\ e.src = k
  <2>1. k \in 0..MaxJournal
    BY <1>4, QueueAssumption DEF JournalId
  <2>2. journal[k].back \in Role \cup {NoRole}
    BY <1>4 DEF TypeOK, QueueTypeOK, Entry
  <2> QED BY <1>2, <2>1, <2>2, RowTypes DEF Envelope
<1>6. ~journal[k].routed
  BY <1>3, <1>4 DEF SentInv
<1>7. \A j : (InHand(j)' <=> j = k) /\ ~InHand(j)
  BY <1>1, <1>3 DEF InHand
<1>8. ASSUME NEW j \in JournalId
      PROVE  /\ journal'[j].routed /\ journal'[j].back # NoRole
                  => EnvelopesOf(j)' # {}
             /\ InHand(j)' => EnvelopesOf(j)' # {}
             /\ Cardinality(EnvelopesOf(j)')
                  <= outages' + (IF journal'[j].routed \/ InHand(j)' THEN 1 ELSE 0)
  <2>1. CASE j # k
    <3>1. EnvelopesOf(j)' = EnvelopesOf(j)
      BY <1>3, <1>5, <2>1, EnqueueAdds
    <3> QED BY <1>3, <1>7, <2>1, <3>1 DEF SentInv
  <2>2. CASE j = k
    <3>1. EnvelopesOf(k)' = EnvelopesOf(k) \cup {nextRow}
      BY <1>3, <1>5, EnqueueAdds
    <3>2. IsFiniteSet(EnvelopesOf(k)) /\ Cardinality(EnvelopesOf(k)) \in Nat
      BY EnvelopesFinite
    <3>3. Cardinality(EnvelopesOf(k)') <= Cardinality(EnvelopesOf(k)) + 1
      BY <3>1, <3>2, FS_AddElement
    <3>4. Cardinality(EnvelopesOf(k)) <= outages + 0
      BY <1>4, <1>6, <1>7 DEF SentInv
    <3>5. outages \in Nat /\ Cardinality(EnvelopesOf(k)') \in Nat
      BY EnvelopesFinite, <3>1, <3>2, FS_AddElement, FS_CardinalityType
         DEF TypeOK, BoundTypeOK
    <3>6. Cardinality(EnvelopesOf(k)') <= outages + 1
      BY <3>2, <3>3, <3>4, <3>5
    <3> QED BY <1>3, <1>7, <2>2, <3>1, <3>6
  <2> QED BY <2>1, <2>2
<1>9. /\ \A j \in JournalId : journal'[j].routed => journal'[j].state \in Terminal
      /\ \A j \in batch' : journal'[j].state \in Terminal /\ ~journal'[j].routed
      /\ batch' # {}
  BY <1>3 DEF SentInv
<1> QED BY <1>8, <1>9 DEF SentInv

LEMMA SentStamp ==
    ASSUME IndInv, SentInv, Stamp
    PROVE  SentInv'
<1> USE DEF IndInv
<1>1. PICK k : k = Oldest(batch)
  OBVIOUS
<1>2. /\ batch # {} /\ MarkRouted(k)
      /\ spc = "mark" \/ (spc = "route" /\ journal[k].back = NoRole)
      /\ batch' = batch \ {k} /\ spc' \in {"route", "spawn"} /\ outages' = outages
  BY <1>1 DEF Stamp, AfterRouting, boundVars
<1>3. k \in batch /\ k \in JournalId
  BY <1>1, <1>2, OldestJob DEF TypeOK, PassTypeOK
<1>4. /\ journal'[k].routed /\ journal'[k].back = journal[k].back
      /\ journal'[k].state = journal[k].state
      /\ \A j \in JournalId : j # k => journal'[j] = journal[j]
  BY <1>2, <1>3 DEF MarkRouted, TypeOK, QueueTypeOK, Entry
<1>5. \A j : EnvelopesOf(j)' = EnvelopesOf(j)
  BY <1>2 DEF MarkRouted, EnvelopesOf, Rows
<1>6. \A j : ~InHand(j)' /\ (InHand(j) => j = k)
  BY <1>1, <1>2 DEF InHand
<1>7. journal[k].state \in Terminal
  BY <1>2, <1>3 DEF SentInv
<1>8. ASSUME NEW j \in JournalId
      PROVE  /\ journal'[j].routed /\ journal'[j].back # NoRole
                  => EnvelopesOf(j)' # {}
             /\ InHand(j)' => EnvelopesOf(j)' # {}
             /\ Cardinality(EnvelopesOf(j)')
                  <= outages' + (IF journal'[j].routed \/ InHand(j)' THEN 1 ELSE 0)
  <2>1. CASE j # k
    BY <1>2, <1>4, <1>5, <1>6, <2>1 DEF SentInv
  <2>2. CASE j = k
    <3>1. journal[k].back # NoRole => EnvelopesOf(k) # {}
      BY <1>1, <1>2, <1>3 DEF SentInv, InHand
    <3>2. outages \in Nat /\ Cardinality(EnvelopesOf(k)) \in Nat
      BY EnvelopesFinite DEF TypeOK, BoundTypeOK
    <3>3. Cardinality(EnvelopesOf(k)) <= outages + 1
      BY <1>3, <3>2 DEF SentInv
    <3> QED BY <1>2, <1>4, <1>5, <1>6, <2>2, <3>1, <3>3
  <2> QED BY <2>1, <2>2
<1>9. \A j \in JournalId : journal'[j].routed => journal'[j].state \in Terminal
  BY <1>4, <1>7 DEF SentInv
<1>10. \A j \in batch' : journal'[j].state \in Terminal /\ ~journal'[j].routed
  <2>1. \A j \in batch' : j \in batch /\ j \in JournalId /\ j # k
    BY <1>2 DEF TypeOK, PassTypeOK
  <2> QED BY <1>2, <1>4, <2>1 DEF SentInv
<1> QED BY <1>2, <1>8, <1>9, <1>10 DEF SentInv

LEMMA SentInit == Init => SentInv
<1> SUFFICES ASSUME Init PROVE SentInv
  OBVIOUS
<1>1. spc = "down" /\ outages = 0
      /\ \A j \in JournalId : ~journal[j].routed
  BY DEF Init, QueueInit, NoEntry
<1>2. Rows = {}
  BY DEF Init, QueueInit, Rows
<1>3. \A j : EnvelopesOf(j) = {} /\ ~InHand(j)
  BY <1>1, <1>2 DEF EnvelopesOf, InHand
<1>4. \A j : Cardinality(EnvelopesOf(j)) = 0
  BY <1>3, FS_EmptySet
<1> QED BY <1>1, <1>3, <1>4 DEF SentInv

LEMMA PassRests == TypeOK /\ UNCHANGED passVars /\ outages' = outages => SameHand
BY DEF SameHand, passVars, TypeOK, BoundTypeOK

LEMMA SentPass ==
    ASSUME IndInv, TypeOK', SentInv, Pass
    PROVE  SentInv'
<1> USE DEF IndInv
<1>0. outages \in Nat
  BY DEF TypeOK, BoundTypeOK
<1>1. CASE Fetch
  BY <1>1, SentFetch
<1>2. CASE SendEnvelope
  BY <1>2, SentEnvelope
<1>3. CASE Stamp
  BY <1>3, SentStamp
<1>4. CASE Start \/ SweepOne \/ SweepDone \/ SpawnDone \/ Recv \/ WatchDone
           \/ ReapDone \/ StopDone
  <2>1. UNCHANGED queueVars /\ outages' = outages
    BY <1>4 DEF Start, SweepOne, SweepDone, SpawnDone, Recv, WatchDone, ReapDone,
                StopDone, boundVars
  <2>2. spc # "mark" /\ spc' \notin {"route", "mark"}
    BY <1>4 DEF Start, SweepOne, SweepDone, SpawnDone, Recv, WatchDone, ReapDone,
                StopDone
  <2>3. SameHand
    BY <1>0, <2>1, <2>2 DEF SameHand
  <2> QED BY <2>1, <2>3, QueueIdle, SentRests
<1>5. ASSUME NEW r \in Role, NEW p \in Pid, Spawn(r, p) PROVE SentInv'
  <2>1. UNCHANGED queueVars /\ UNCHANGED passVars /\ outages' = outages
    BY <1>5 DEF Spawn, boundVars
  <2> QED BY <2>1, PassRests, QueueIdle, SentRests
<1>6. ASSUME NEW r \in Role, Recover(r) \/ Forget(r) PROVE SentInv'
  <2>1. UNCHANGED queueVars /\ UNCHANGED passVars /\ outages' = outages
    BY <1>6 DEF Recover, Forget, boundVars
  <2> QED BY <2>1, PassRests, QueueIdle, SentRests
<1>7. CASE Recovery
  <2>1. UNCHANGED passVars /\ outages' = outages
    BY <1>7 DEF Recovery, LookUpRun, KillRun, CheckJournal, FailJournal,
                PostKilledNotice, OrderSummary, boundVars
  <2> QED BY <1>7, <2>1, PassRests, RecoveryUndelivered, SentRests
<1> QED BY <1>1, <1>2, <1>3, <1>4, <1>5, <1>6, <1>7 DEF Pass

LEMMA SentStep ==
    ASSUME IndInv, TypeOK', SentInv, [Next]_vars
    PROVE  SentInv'
<1> USE DEF IndInv
<1>0. outages \in Nat
  BY DEF TypeOK, BoundTypeOK
<1>1. CASE Environment
  <2>1. CASE RecoveryError \/ (\E t \in Turns : Submit(t))
             \/ (\E p \in Pid : Hang(p) \/ Die(p) \/ Unwind(p) \/ DrainGroup(p))
    <3>1. UNCHANGED passVars /\ outages' = outages
      BY <2>1 DEF RecoveryError, Submit, Hang, Die, Unwind, DrainGroup, boundVars
    <3> QED BY <1>1, <3>1, PassRests, EnvironmentUndelivered, SentRests
  <2>2. CASE Stop \/ Crash
    <3>1. /\ outages' = outages + 1 /\ spc' \in {"down", "stopping"}
      BY <2>2 DEF Stop, Crash
    <3>2. SameHand
      BY <1>0, <3>1 DEF SameHand
    <3> QED BY <1>1, <3>2, EnvironmentUndelivered, SentRests
  <2> QED BY <1>1, <2>1, <2>2 DEF Environment
<1>2. ASSUME NEW p \in Pid, Worker(p) PROVE SentInv'
  <2>1. UNCHANGED passVars /\ outages' = outages
    BY <1>2 DEF Worker, Poll, Exit, Take, EmitProcessing, EmitOutcome, StartRun,
                FinishRun, PostFailure, RequestSummary, Settle, boundVars
  <2> QED BY <1>2, <2>1, PassRests, WorkerUndelivered, SentRests
<1>3. CASE Pass
  BY <1>3, SentPass
<1>4. ASSUME NEW r \in Role, Terminate(r) \/ Kill(r) PROVE SentInv'
  <2>1. UNCHANGED queueVars /\ UNCHANGED passVars /\ outages' = outages
    BY <1>4 DEF Terminate, Kill, boundVars
  <2> QED BY <2>1, PassRests, QueueIdle, SentRests
<1>5. CASE UNCHANGED vars
  <2>1. UNCHANGED queueVars /\ UNCHANGED passVars /\ outages' = outages
    BY <1>5 DEF vars, boundVars
  <2> QED BY <2>1, PassRests, QueueIdle, SentRests
<1> QED BY <1>1, <1>2, <1>3, <1>4, <1>5 DEF Next

(***************************************************************************)
(* Recovery: ClosingInv.                                                   *)
(***************************************************************************)
ClosedUp(j) == journal[j].state \in Terminal /\ notice[j]

Excused == outages + errors > 0

(* What is closed stays so, and no more runs are killed.                   *)
NoMoreKilled ==
    /\ \A j \in JournalId : journal[j].state \in Terminal =>
                             journal'[j].state \in Terminal
    /\ \A j \in JournalId : notice[j] => notice'[j]
    /\ \A j \in JournalId : run'[j] = "killed" => run[j] = "killed"
    /\ Excused => Excused'

HoldersRun == \A p \in Pid : wpc'[p] \in Holding => run'[wjid'[p]] # "killed"

(* Every killed run is closed, or its recovery was cut short.              *)
LEMMA KilledAreClosed ==
    ASSUME IndInv, ClosingInv, NEW j \in JournalId, run[j] = "killed"
    PROVE  /\ j \in Jobs /\ j # NoJob
           /\ ClosedUp(j) \/ rjid = j \/ Excused
BY QueueAssumption
   DEF IndInv, RecoveryInv, ClosingInv, KilledRunIsClosed, ClosedUp, Excused,
       JournalId, NoJob

LEMMA LaterJobs == TypeOK' => Jobs' \subseteq JournalId
<1> SUFFICES ASSUME TypeOK' PROVE Jobs' \subseteq JournalId
  OBVIOUS
<1>1. PICK n : n = nextJournal'
  OBVIOUS
<1>2. n \in 1..(MaxJournal + 1)
  BY <1>1 DEF TypeOK, QueueTypeOK
<1>3. Jobs' = 1..(n - 1)
  BY <1>1 DEF Jobs
<1>4. 1..(n - 1) \subseteq JournalId
  BY <1>2, QueueAssumption DEF JournalId
<1> QED BY <1>3, <1>4

LEMMA ClosingRests ==
    ASSUME IndInv, IndInv', ClosingInv, NoMoreKilled, HoldersRun, UNCHANGED recVars
    PROVE  ClosingInv'
<1>1. rstep' = rstep /\ rjid' = rjid
  BY DEF recVars
<1>2. KilledRunIsClosed'
  <2> SUFFICES ASSUME NEW j \in Jobs', run'[j] = "killed"
               PROVE  ClosedUp(j)' \/ rjid' = j \/ Excused'
    BY DEF KilledRunIsClosed, ClosedUp, Excused
  <2>1. j \in JournalId
    BY LaterJobs DEF IndInv
  <2>2. run[j] = "killed"
    BY <2>1 DEF NoMoreKilled
  <2> QED BY <1>1, <2>1, <2>2, KilledAreClosed DEF NoMoreKilled, ClosedUp
<1>3. rstep # "idle" => rjid \in JournalId
  BY DEF IndInv, TypeOK, PassTypeOK
<1>4. rstep' \in {"notice", "summary"} => journal'[rjid'].state \in Terminal
  BY <1>1, <1>3 DEF ClosingInv, NoMoreKilled
<1>5. rstep' = "summary" => notice'[rjid']
  BY <1>1, <1>3 DEF ClosingInv, NoMoreKilled
<1>6. rstep' \in {"look", "check", "fail"} /\ run'[rjid'] = "killed" =>
        ClosedUp(rjid') \/ Excused
  BY <1>1, <1>3 DEF ClosingInv, NoMoreKilled, ClosedUp, Excused
<1>7. rstep' \in {"look", "check", "fail"} /\ run'[rjid'] = "killed" =>
        (journal'[rjid'].state \in Terminal /\ notice'[rjid']) \/ Excused'
  BY <1>1, <1>3, <1>6 DEF NoMoreKilled, ClosedUp
<1> QED BY <1>1, <1>2, <1>4, <1>5, <1>7 DEF ClosingInv, HoldersRun, Excused

LEMMA ClosingInit == Init => ClosingInv
<1> SUFFICES ASSUME Init PROVE ClosingInv
  OBVIOUS
<1>1. Jobs = {} /\ rstep = "idle" /\ rjid = NoJob /\ \A p \in Pid : wpc[p] = "free"
  BY DEF Init, QueueInit, Jobs
<1> QED BY <1>1 DEF ClosingInv, KilledRunIsClosed, Holding

LEMMA RecordsRest ==
    ASSUME IndInv, UNCHANGED runVars, OutcomesStay, UNCHANGED <<outages, errors>>
    PROVE  NoMoreKilled
BY DEF NoMoreKilled, OutcomesStay, runVars, Excused

(* A step of one process that keeps what it holds, or lets go of it.       *)
LEMMA HoldersRest ==
    ASSUME IndInv, ClosingInv, NoNewHolder,
           \A j \in JournalId : run'[j] = "killed" => run[j] = "killed"
    PROVE  HoldersRun
<1> SUFFICES ASSUME NEW p \in Pid, wpc'[p] \in Holding
             PROVE  run'[wjid'[p]] # "killed"
  BY DEF HoldersRun
<1>1. wpc[p] \in Holding /\ wjid'[p] = wjid[p]
  BY DEF NoNewHolder
<1>2. wjid[p] \in JournalId
  BY <1>1, QueueBasics DEF IndInv, TypeOK, HoldInv, JobOf
<1> QED BY <1>1, <1>2 DEF ClosingInv

LEMMA ClosingWorker ==
    ASSUME IndInv, IndInv', ClosingInv, SentInv, NEW p \in Pid, Worker(p)
    PROVE  ClosingInv'
<1> USE DEF IndInv
<1>0. OutcomesStay /\ UNCHANGED recVars /\ UNCHANGED <<outages, errors>>
  <2>1. OutcomesStay
    BY WorkerUndelivered DEF Undelivered
  <2>2. UNCHANGED recVars /\ UNCHANGED <<outages, errors>>
    BY DEF Worker, Poll, Exit, Take, EmitProcessing, EmitOutcome, StartRun,
           FinishRun, PostFailure, RequestSummary, Settle, boundVars
  <2> QED BY <2>1, <2>2
<1>1. CASE Poll(p) \/ Exit(p) \/ EmitProcessing(p) \/ EmitOutcome(p)
           \/ RequestSummary(p) \/ (\E o \in Terminal : Settle(p, o))
  <2>1. UNCHANGED runVars
    BY <1>1 DEF Poll, Exit, EmitProcessing, EmitOutcome, RequestSummary, Settle
  <2>2. \A q \in Pid : q # p => wpc'[q] = wpc[q] /\ wjid'[q] = wjid[q]
    BY <1>1 DEF Poll, Exit, EmitProcessing, EmitOutcome, RequestSummary, Settle,
                Emit, Vanish, Goto, TypeOK, WorkerTypeOK
  <2>3. wpc'[p] \in Holding => wpc[p] \in Holding /\ wjid'[p] = wjid[p]
    BY <1>1 DEF Poll, Exit, EmitProcessing, EmitOutcome, RequestSummary, Settle, At,
                Emit, Vanish, Goto, Outcomes, TypeOK, WorkerTypeOK, Holding, Gone
  <2>4. HoldersRun
    BY <2>1, <2>2, <2>3 DEF HoldersRun, ClosingInv, runVars
  <2> QED BY <1>0, <2>1, <2>4, RecordsRest, ClosingRests
<1>2. CASE Take(p)
  <2>1. PICK n : n = nextJournal
    OBVIOUS
  <2>2. n \in JournalId /\ n \notin Jobs
    BY <1>2, <2>1, QueueBasics DEF Take, TakeItem, TypeOK
  <2>3. run[n] = "none"
    BY <2>2 DEF RecoveryInv, TypeOK, RunTypeOK
  <2>4. /\ UNCHANGED runVars
        /\ \A q \in Pid : wpc'[q] = (IF q = p THEN "taken" ELSE wpc[q])
        /\ \A q \in Pid : wjid'[q] = (IF q = p THEN n ELSE wjid[q])
    BY <1>2, <2>1 DEF Take, Goto, TypeOK, WorkerTypeOK
  <2>5. HoldersRun
    BY <2>3, <2>4 DEF HoldersRun, ClosingInv, runVars
  <2> QED BY <1>0, <2>4, <2>5, RecordsRest, ClosingRests
<1>3. ASSUME NEW s \in {"running", "finished", "failed"}, UNCHANGED notice,
             run' = [run EXCEPT ![wjid[p]] = s], UNCHANGED wjid,
             wpc[p] \in Holding, NEW pc \in Holding, Goto(p, pc)
      PROVE  ClosingInv'
  <2>1. \A j \in JournalId : run'[j] = "killed" => run[j] = "killed"
    BY <1>3 DEF TypeOK, RunTypeOK
  <2>2. NoMoreKilled
    BY <1>0, <1>3, <2>1 DEF NoMoreKilled, OutcomesStay, Excused
  <2>3. \A q \in Pid : wpc'[q] \in Holding => wpc[q] \in Holding /\ wjid'[q] = wjid[q]
    BY <1>3 DEF Goto, TypeOK, WorkerTypeOK
  <2>4. \A q \in Pid : wpc[q] \in Holding => wjid[q] \in JournalId
    BY QueueBasics DEF TypeOK, HoldInv, JobOf
  <2>5. HoldersRun
    BY <2>1, <2>3, <2>4 DEF HoldersRun, ClosingInv
  <2> QED BY <1>0, <2>2, <2>5, ClosingRests
<1>4. CASE StartRun(p)
  BY <1>3, <1>4 DEF StartRun, At, Holding
<1>5. ASSUME NEW s \in {"finished", "failed"}, FinishRun(p, s) PROVE ClosingInv'
  BY <1>3, <1>5 DEF FinishRun, At, Holding
<1>6. CASE PostFailure(p)
  <2>1. /\ run' = run /\ notice' = [notice EXCEPT ![wjid[p]] = TRUE]
        /\ wjid' = wjid /\ wpc[p] \in Holding /\ Goto(p, "failing")
    BY <1>6 DEF PostFailure, At, Holding
  <2>2. \A j \in JournalId : notice[j] => notice'[j]
    BY <2>1 DEF TypeOK, RunTypeOK
  <2>3. NoMoreKilled
    BY <1>0, <2>1, <2>2 DEF NoMoreKilled, OutcomesStay, Excused
  <2>4. \A q \in Pid : wpc'[q] \in Holding => wpc[q] \in Holding /\ wjid'[q] = wjid[q]
    BY <2>1 DEF Goto, TypeOK, WorkerTypeOK
  <2>5. HoldersRun
    BY <2>1, <2>4 DEF HoldersRun, ClosingInv
  <2> QED BY <1>0, <2>3, <2>5, ClosingRests
<1> QED BY <1>1, <1>2, <1>4, <1>5, <1>6 DEF Worker

(* A step that ends the recovery without finishing it, or under an excuse. *)
LEMMA ClosingExcused ==
    ASSUME IndInv, ClosingInv, Excused', rstep' = "idle", rjid' = NoJob,
           UNCHANGED run, NoNewHolder
    PROVE  ClosingInv'
<1>1. HoldersRun
  BY HoldersRest
<1> QED BY <1>1 DEF ClosingInv, KilledRunIsClosed, HoldersRun, Excused

LEMMA CountersGrow ==
    ASSUME TypeOK
    PROVE  /\ outages \in Nat /\ errors \in Nat
           /\ UNCHANGED <<outages, errors>> => (Excused => Excused')
           /\ outages' = outages + 1 /\ errors' = errors => Excused'
           /\ errors' = errors + 1 /\ outages' = outages => Excused'
<1>1. outages \in Nat /\ errors \in Nat
  BY SupervisorAssumption DEF TypeOK, BoundTypeOK
<1> QED BY <1>1 DEF Excused

LEMMA ClosingEnvironment ==
    ASSUME IndInv, IndInv', ClosingInv, Environment
    PROVE  ClosingInv'
<1> USE DEF IndInv
<1>0. OutcomesStay
  BY EnvironmentUndelivered DEF Undelivered
<1>1. ASSUME NEW t \in Turns, Submit(t) PROVE ClosingInv'
  <2>1. /\ UNCHANGED runVars /\ UNCHANGED recVars /\ UNCHANGED <<outages, errors>>
        /\ NoNewHolder
    BY <1>1, PassFrame DEF Submit
  <2>2. NoMoreKilled
    BY <1>0, <2>1, RecordsRest
  <2> QED BY <2>1, <2>2, HoldersRest, ClosingRests DEF NoMoreKilled
<1>2. ASSUME NEW p \in Pid, Hang(p) \/ Die(p) \/ Unwind(p) \/ DrainGroup(p)
      PROVE  ClosingInv'
  <2>1. UNCHANGED runVars /\ UNCHANGED recVars /\ UNCHANGED <<outages, errors>>
    BY <1>2 DEF Hang, Die, Unwind, DrainGroup, boundVars
  <2>2. NoNewHolder
    BY <1>2, MoveIsQuiet, VanishIsQuiet DEF Hang, Die, Unwind, DrainGroup, Holding
  <2>3. NoMoreKilled
    BY <1>0, <2>1, RecordsRest
  <2> QED BY <2>1, <2>2, <2>3, HoldersRest, ClosingRests DEF NoMoreKilled
<1>3. CASE RecoveryError
  <2>1. /\ rstep' = "idle" /\ rjid' = NoJob /\ run' = run /\ NoNewHolder
        /\ errors' = errors + 1 /\ outages' = outages
    BY <1>3, PassFrame DEF RecoveryError, RecoveryEnds, runVars
  <2> QED BY <2>1, CountersGrow, ClosingExcused
<1>4. CASE Stop
  <2>1. /\ UNCHANGED runVars /\ UNCHANGED recVars
        /\ outages' = outages + 1 /\ errors' = errors
    BY <1>4 DEF Stop
  <2>2. NoNewHolder
    BY <1>4 DEF Stop, NoNewHolder, Holding
  <2>3. NoMoreKilled
    BY <1>0, <2>1, CountersGrow DEF NoMoreKilled, OutcomesStay, runVars
  <2> QED BY <2>1, <2>2, <2>3, HoldersRest, ClosingRests DEF NoMoreKilled
<1>5. CASE Crash
  <2>1. /\ rstep' = "idle" /\ rjid' = NoJob /\ run' = run
        /\ outages' = outages + 1 /\ errors' = errors
    BY <1>5 DEF Crash, RecoveryEnds, runVars
  <2>2. NoNewHolder
    BY <1>5 DEF Crash, NoNewHolder, Holding
  <2> QED BY <2>1, <2>2, CountersGrow, ClosingExcused
<1> QED BY <1>1, <1>2, <1>3, <1>4, <1>5 DEF Environment

(* A recovery begins: nothing but its place and its row changes.           *)
LEMMA ClosingBegins ==
    ASSUME IndInv, ClosingInv, rstep = "idle", NEW j \in JournalId,
           rstep' = "look", rjid' = j, UNCHANGED queueVars,
           UNCHANGED workerVars, UNCHANGED runVars, UNCHANGED boundVars
    PROVE  ClosingInv'
<1>1. rjid = NoJob
  BY DEF ClosingInv
<1>2. run[j] = "killed" => ClosedUp(j) \/ Excused
  BY <1>1, KilledAreClosed
<1>3. Jobs' = Jobs /\ journal' = journal /\ run' = run /\ notice' = notice
      /\ wpc' = wpc /\ wjid' = wjid /\ outages' = outages /\ errors' = errors
  BY DEF queueVars, runVars, workerVars, boundVars, Jobs
<1>4. KilledRunIsClosed'
  <2> SUFFICES ASSUME NEW k \in Jobs, run[k] = "killed"
               PROVE  ClosedUp(k) \/ rjid' = k \/ Excused
    BY <1>3 DEF KilledRunIsClosed, ClosedUp, Excused
  <2>1. k \in JournalId
    BY QueueBasics DEF IndInv, TypeOK
  <2> QED BY <1>1, <2>1, KilledAreClosed
<1> QED BY <1>2, <1>3, <1>4 DEF ClosingInv, ClosedUp, Excused

(* The steps of a recovery.                                                *)
LEMMA ClosingRecovery ==
    ASSUME IndInv, IndInv', ClosingInv, Recovery
    PROVE  ClosingInv'
<1> USE DEF IndInv
<1>1. PICK j : j = rjid
  OBVIOUS
<1>2. rstep # "idle" /\ j \in Jobs /\ j \in JournalId
  <2>1. rstep # "idle"
    BY DEF Recovery, LookUpRun, KillRun, CheckJournal, FailJournal,
           PostKilledNotice, OrderSummary, RecoveryStep
  <2> QED BY <1>1, <2>1, QueueBasics DEF RecoveryInv, TypeOK
<1>3. OutcomesStay /\ UNCHANGED workerVars /\ UNCHANGED <<outages, errors>>
  <2>1. OutcomesStay
    BY RecoveryUndelivered DEF Undelivered
  <2> QED BY <2>1 DEF Recovery, LookUpRun, KillRun, CheckJournal, FailJournal,
                      PostKilledNotice, OrderSummary, boundVars
<1>4. /\ \A k \in JournalId : run'[k] = "killed" => run[k] = "killed" \/ k = j
      /\ \A k \in JournalId : notice[k] => notice'[k]
  BY <1>1, <1>2 DEF Recovery, LookUpRun, KillRun, CheckJournal, FailJournal,
     PostKilledNotice, OrderSummary, runVars, TypeOK, RunTypeOK
<1>5. \A k \in JournalId : ClosedUp(k) => ClosedUp(k)'
  BY <1>3, <1>4 DEF ClosedUp, OutcomesStay
<1>6. HoldersRun
  <2> SUFFICES ASSUME NEW p \in Pid, wpc'[p] \in Holding
               PROVE  run'[wjid'[p]] # "killed"
    BY DEF HoldersRun
  <2>1. wpc[p] \in Holding /\ wjid'[p] = wjid[p]
    BY <1>3 DEF workerVars
  <2>2. wjid[p] \in JournalId /\ wjid[p] # j /\ run[wjid[p]] # "killed"
    BY <1>1, <1>2, <2>1, QueueBasics
       DEF TypeOK, HoldInv, JobOf, RecoveryInv, ClosingInv
  <2> QED BY <1>4, <2>1, <2>2
<1>7. Excused' <=> Excused
  BY <1>3 DEF Excused
<1>8. ASSUME rjid' = j \/ (run'[j] = "killed" => ClosedUp(j)' \/ Excused)
      PROVE  KilledRunIsClosed'
  <2> SUFFICES ASSUME NEW k \in Jobs', run'[k] = "killed"
               PROVE  ClosedUp(k)' \/ rjid' = k \/ Excused'
    BY DEF KilledRunIsClosed, ClosedUp, Excused
  <2>1. k \in JournalId
    BY LaterJobs
  <2>2. CASE k = j
    BY <1>7, <1>8, <2>2
  <2>3. CASE k # j
    BY <1>1, <1>4, <1>5, <1>7, <2>1, <2>3, KilledAreClosed
  <2> QED BY <2>2, <2>3
<1>9. CASE LookUpRun
  <2>1. /\ rstep' = (IF run[j] = "running" THEN "kill" ELSE "check") /\ rjid' = j
        /\ UNCHANGED runVars /\ rstep = "look"
    BY <1>1, <1>9 DEF LookUpRun, RecoveryStep
  <2>2. run[j] = "killed" => ClosedUp(j) \/ Excused
    BY <1>1, <2>1 DEF ClosingInv, ClosedUp, Excused
  <2>3. run'[j] = "killed" => ClosedUp(j)' \/ Excused'
    BY <1>2, <1>5, <1>7, <2>1, <2>2 DEF runVars
  <2> QED BY <1>6, <1>8, <2>1, <2>3 DEF ClosingInv, HoldersRun, ClosedUp, Excused
<1>10. CASE KillRun
  <2>1. rstep' = "checkRun" /\ rjid' = j
    BY <1>1, <1>10 DEF KillRun, RecoveryStep
  <2> QED BY <1>6, <1>8, <2>1 DEF ClosingInv, HoldersRun
<1>11. CASE CheckJournal
  <2>1. UNCHANGED runVars /\ UNCHANGED queueVars
    BY <1>11 DEF CheckJournal
  <2>2. CASE rstep = "checkRun"
    <3>1. \/ rstep' = "failRun" /\ rjid' = j
          \/ rstep' = "notice" /\ rjid' = j /\ journal[j].state # "processing"
      BY <1>1, <1>11, <2>2 DEF CheckJournal, RecoveryStep
    <3>2. journal[j].state # "processing" => journal'[j].state \in Terminal
      BY <1>2, <2>1 DEF queueVars, QueueInv, TypeOK, QueueTypeOK, Entry
    <3> QED BY <1>6, <1>8, <3>1, <3>2 DEF ClosingInv, HoldersRun
  <2>3. CASE rstep = "check"
    <3>1. \/ rstep' = "fail" /\ rjid' = j
          \/ rstep' = "idle" /\ rjid' = NoJob
      BY <1>1, <1>11, <2>3 DEF CheckJournal, RecoveryStep, RecoveryEnds
    <3>2. run'[j] = "killed" => ClosedUp(j)' \/ Excused
      BY <1>1, <1>2, <1>5, <2>1, <2>3 DEF ClosingInv, ClosedUp, Excused, runVars
    <3> QED BY <1>6, <1>7, <1>8, <3>1, <3>2 DEF ClosingInv, HoldersRun, ClosedUp, Excused
  <2> QED BY <1>11, <2>2, <2>3 DEF CheckJournal
<1>12. CASE FailJournal
  <2>1. UNCHANGED runVars /\ JournalUpdate(j, "failed", NoRole)
    BY <1>1, <1>12 DEF FailJournal
  <2>2. CASE rstep = "failRun"
    <3>1. rstep' = "notice" /\ rjid' = j
      BY <1>1, <1>12, <2>2 DEF FailJournal, RecoveryStep
    <3>2. journal'[j].state \in Terminal
      BY <1>2, <2>1 DEF JournalUpdate, TypeOK, QueueTypeOK, Entry, Terminal
    <3> QED BY <1>6, <1>8, <3>1, <3>2 DEF ClosingInv, HoldersRun
  <2>3. CASE rstep = "fail"
    <3>1. rstep' = "idle" /\ rjid' = NoJob
      BY <1>12, <2>3 DEF FailJournal, RecoveryStep, RecoveryEnds
    <3>2. run'[j] = "killed" => ClosedUp(j)' \/ Excused
      BY <1>1, <1>2, <1>5, <2>1, <2>3 DEF ClosingInv, ClosedUp, Excused, runVars
    <3> QED BY <1>6, <1>8, <3>1, <3>2 DEF ClosingInv, HoldersRun
  <2> QED BY <1>12, <2>2, <2>3 DEF FailJournal, RecoveryStep
<1>13. CASE PostKilledNotice
  <2>1. /\ rstep = "notice" /\ rstep' = "summary" /\ rjid' = j
        /\ notice' = [notice EXCEPT ![j] = TRUE] /\ journal' = journal
    BY <1>1, <1>13 DEF PostKilledNotice, RecoveryStep, queueVars
  <2>2. notice'[j] /\ journal'[j].state \in Terminal
    BY <1>1, <1>2, <2>1 DEF ClosingInv, TypeOK, RunTypeOK
  <2> QED BY <1>6, <1>8, <2>1, <2>2 DEF ClosingInv, HoldersRun
<1>14. CASE OrderSummary
  <2>1. rstep = "summary" /\ rstep' = "idle" /\ rjid' = NoJob
    BY <1>14 DEF OrderSummary, RecoveryEnds
  <2>2. ClosedUp(j)'
    BY <1>1, <1>2, <1>5, <2>1 DEF ClosingInv, ClosedUp
  <2> QED BY <1>6, <1>8, <2>1, <2>2 DEF ClosingInv, HoldersRun
<1> QED BY <1>9, <1>10, <1>11, <1>12, <1>13, <1>14 DEF Recovery

LEMMA ClosingPass ==
    ASSUME IndInv, IndInv', ClosingInv, SentInv, Pass
    PROVE  ClosingInv'
<1> USE DEF IndInv
<1>1. CASE Recovery
  BY <1>1, ClosingRecovery
<1>2. CASE SweepOne
  <2>1. PICK j : j = Oldest(batch)
    OBVIOUS
  <2>2. j \in JournalId
    BY <1>2, <2>1, OldestJob DEF SweepOne, TypeOK, PassTypeOK
  <2> QED BY <1>2, <2>1, <2>2, ClosingBegins DEF SweepOne
<1>3. ASSUME NEW r \in Role, Recover(r) PROVE ClosingInv'
  <2>1. PICK j : j = known[r]
    OBVIOUS
  <2>2. j \in JournalId
    BY <1>3, <2>1, QueueBasics DEF Recover, TypeOK, HoldInv, JobOf
  <2> QED BY <1>3, <2>1, <2>2, ClosingBegins DEF Recover, Reapable
<1>4. ASSUME UNCHANGED runVars, UNCHANGED recVars, UNCHANGED boundVars,
             OutcomesStay, NoNewHolder
      PROVE  ClosingInv'
  <2>1. NoMoreKilled
    BY <1>4, RecordsRest DEF boundVars
  <2> QED BY <1>4, <2>1, HoldersRest, ClosingRests DEF NoMoreKilled
<1>5. CASE Start \/ SweepDone \/ Fetch \/ SpawnDone \/ Recv \/ WatchDone
           \/ ReapDone \/ StopDone
  <2>1. /\ UNCHANGED queueVars /\ UNCHANGED workerVars
        /\ UNCHANGED runVars /\ UNCHANGED recVars /\ UNCHANGED boundVars
    BY <1>5 DEF Start, SweepDone, Fetch, SpawnDone, Recv, WatchDone, ReapDone,
                StopDone
  <2> QED BY <1>4, <2>1, PassFrame, QueueIdle DEF Undelivered
<1>6. CASE SendEnvelope
  <2>1. /\ UNCHANGED workerVars /\ journal' = journal
        /\ UNCHANGED runVars /\ UNCHANGED recVars /\ UNCHANGED boundVars
    BY <1>6 DEF SendEnvelope, Enqueue
  <2> QED BY <1>4, <2>1, PassFrame DEF OutcomesStay
<1>7. CASE Stamp
  <2>1. /\ UNCHANGED workerVars /\ MarkRouted(Oldest(batch))
        /\ UNCHANGED runVars /\ UNCHANGED recVars /\ UNCHANGED boundVars
    BY <1>7 DEF Stamp
  <2>2. OutcomesStay
    BY <2>1 DEF MarkRouted, OutcomesStay, TypeOK, QueueTypeOK, Entry
  <2> QED BY <1>4, <2>1, <2>2, PassFrame
<1>8. ASSUME NEW r \in Role, NEW p \in Pid, Spawn(r, p) PROVE ClosingInv'
  <2>1. /\ UNCHANGED queueVars /\ UNCHANGED wjid /\ wpc' = [wpc EXCEPT ![p] = "poll"]
        /\ UNCHANGED runVars /\ UNCHANGED recVars /\ UNCHANGED boundVars
    BY <1>8 DEF Spawn, Goto
  <2>2. NoNewHolder
    BY <2>1 DEF NoNewHolder, Holding, TypeOK, WorkerTypeOK
  <2> QED BY <1>4, <2>1, <2>2, QueueIdle DEF Undelivered
<1>9. ASSUME NEW r \in Role, Forget(r) PROVE ClosingInv'
  <2>1. /\ UNCHANGED queueVars /\ UNCHANGED wjid
        /\ wpc' = [wpc EXCEPT ![slot[r]] = "free"]
        /\ UNCHANGED runVars /\ UNCHANGED recVars /\ UNCHANGED boundVars
    BY <1>9 DEF Forget, Goto
  <2>2. NoNewHolder
    BY <2>1 DEF NoNewHolder, Holding, TypeOK, WorkerTypeOK
  <2> QED BY <1>4, <2>1, <2>2, QueueIdle DEF Undelivered
<1> QED BY <1>1, <1>2, <1>3, <1>5, <1>6, <1>7, <1>8, <1>9 DEF Pass

LEMMA ClosingStep ==
    ASSUME IndInv, IndInv', ClosingInv, SentInv, [Next]_vars
    PROVE  ClosingInv'
<1> USE DEF IndInv
<1>1. ASSUME UNCHANGED runVars, UNCHANGED recVars, UNCHANGED <<outages, errors>>,
             UNCHANGED queueVars, NoNewHolder
      PROVE  ClosingInv'
  <2>1. NoMoreKilled
    BY <1>1, QueueIdle, RecordsRest DEF Undelivered
  <2> QED BY <1>1, <2>1, HoldersRest, ClosingRests DEF NoMoreKilled
<1>2. ASSUME NEW r \in Role, Terminate(r) PROVE ClosingInv'
  <2>1. /\ UNCHANGED queueVars /\ UNCHANGED workerVars /\ UNCHANGED runVars
        /\ UNCHANGED recVars /\ UNCHANGED <<outages, errors>>
    BY <1>2 DEF Terminate
  <2> QED BY <1>1, <2>1, PassFrame
<1>3. ASSUME NEW r \in Role, Kill(r) PROVE ClosingInv'
  <2>1. slot[r] \in Pid
    BY <1>3 DEF TypeOK, Kill, Alive, SlotTypeOK
  <2>2. /\ UNCHANGED queueVars /\ UNCHANGED runVars
        /\ UNCHANGED recVars /\ UNCHANGED <<outages, errors>>
    BY <1>3 DEF Kill, boundVars
  <2>3. NoNewHolder
    BY <1>3, <2>1, VanishIsQuiet DEF Kill
  <2> QED BY <1>1, <2>2, <2>3
<1>4. CASE UNCHANGED vars
  <2>1. /\ UNCHANGED queueVars /\ UNCHANGED workerVars /\ UNCHANGED runVars
        /\ UNCHANGED recVars /\ UNCHANGED <<outages, errors>>
    BY <1>4 DEF vars, boundVars
  <2> QED BY <1>1, <2>1, PassFrame
<1>5. ASSUME NEW p \in Pid, Worker(p) PROVE ClosingInv'
  BY <1>5, ClosingWorker
<1>6. CASE Environment
  BY <1>6, ClosingEnvironment
<1>7. CASE Pass
  BY <1>7, ClosingPass
<1> QED BY <1>2, <1>3, <1>4, <1>5, <1>6, <1>7 DEF Next

(***************************************************************************)
(* Runs and their summaries: RunInv.                                       *)
(***************************************************************************)
NoSummary == \A j \in JournalId : SummariesOf(j)' = SummariesOf(j)

LEMMA SummariesRest == rows' = rows /\ nextRow' = nextRow => NoSummary
BY DEF NoSummary, SummariesOf, Rows

LEMMA SummaryAdds ==
    ASSUME TypeOK, NEW r \in Row, Enqueue(r), NEW j
    PROVE  SummariesOf(j)' = IF r.why = "summary" /\ r.src = j
                             THEN SummariesOf(j) \cup {nextRow}
                             ELSE SummariesOf(j)
<1>1. SummariesOf(j) = Stemming("summary", j)
      /\ SummariesOf(j)' = Stemming("summary", j)'
  BY DEF SummariesOf, Stemming
<1> QED BY <1>1, StemmingAdds

(* What RunInv says of one journal row, one worker, and the recovery.      *)
SummaryOK(j) ==
    /\ \A i, k \in SummariesOf(j) : i = k
    /\ SummariesOf(j) # {} => run[j] \in Closed

Unsummed(j) == run[j] \in Closed /\ SummariesOf(j) = {}

WorkOK(p) ==
    /\ wpc[p] \in {"taken", "handling"} => run[wjid[p]] = "none"
    /\ wpc[p] = "running" => run[wjid[p]] = "running"
    /\ wpc[p] \in {"replied", "posting", "failing"} => Unsummed(wjid[p])

PlaceOK ==
    /\ rstep = "kill" => run[rjid] = "running"
    /\ rstep \in {"checkRun", "failRun", "notice", "summary"} => Unsummed(rjid)

LEMMA RunInvIs ==
    RunInv <=> /\ \A j \in JournalId : SummaryOK(j)
               /\ \A p \in Pid : WorkOK(p)
               /\ PlaceOK
BY DEF RunInv, SummarizedOnce, SummaryOK, WorkOK, PlaceOK, Unsummed

(* The worker has not entered another part of its work.                    *)
SameWork(p) ==
    /\ wpc'[p] \in {"taken", "handling"} =>
          wpc[p] \in {"taken", "handling"} /\ wjid'[p] = wjid[p]
    /\ wpc'[p] = "running" => wpc[p] = "running" /\ wjid'[p] = wjid[p]
    /\ wpc'[p] \in {"replied", "posting", "failing"} =>
          wpc[p] \in {"replied", "posting", "failing"} /\ wjid'[p] = wjid[p]

SameRun(j) == run'[j] = run[j] /\ SummariesOf(j)' = SummariesOf(j)

LEMMA WorkRests ==
    ASSUME NEW p \in Pid, WorkOK(p), SameWork(p),
           wpc[p] \in Holding => SameRun(wjid[p])
    PROVE  WorkOK(p)'
<1>1. wpc[p] \in {"taken", "handling", "running", "replied", "posting", "failing"}
        => wpc[p] \in Holding
  BY DEF Holding
<1>2. CASE wpc'[p] \in {"taken", "handling"}
  BY <1>1, <1>2 DEF WorkOK, SameWork, SameRun
<1>3. CASE wpc'[p] = "running"
  BY <1>1, <1>3 DEF WorkOK, SameWork, SameRun
<1>4. CASE wpc'[p] \in {"replied", "posting", "failing"}
  <2>1. Unsummed(wjid[p]) /\ SameRun(wjid[p]) /\ wjid'[p] = wjid[p]
    BY <1>1, <1>4 DEF WorkOK, SameWork
  <2>2. Unsummed(wjid[p])'
    BY <2>1 DEF Unsummed, SameRun
  <2> QED BY <1>4, <2>2 DEF WorkOK
<1> QED BY <1>2, <1>3, <1>4 DEF WorkOK

SamePlace ==
    /\ rstep' = "kill" => rstep = "kill" /\ rjid' = rjid
    /\ rstep' \in {"checkRun", "failRun", "notice", "summary"} =>
          /\ rstep \in {"checkRun", "failRun", "notice", "summary"}
          /\ rjid' = rjid

LEMMA PlaceRests ==
    ASSUME PlaceOK, SamePlace, rstep # "idle" => SameRun(rjid)
    PROVE  PlaceOK'
<1>1. CASE rstep' = "kill"
  BY <1>1 DEF PlaceOK, SamePlace, SameRun
<1>2. CASE rstep' \in {"checkRun", "failRun", "notice", "summary"}
  <2>1. Unsummed(rjid) /\ SameRun(rjid) /\ rjid' = rjid
    BY <1>2 DEF PlaceOK, SamePlace
  <2>2. Unsummed(rjid)'
    BY <2>1 DEF Unsummed, SameRun
  <2> QED BY <1>2, <2>2 DEF PlaceOK
<1> QED BY <1>1, <1>2 DEF PlaceOK

(* The rows a worker or the recovery is on are in the journal.             *)
LEMMA RowsInUse ==
    ASSUME IndInv
    PROVE  /\ \A p \in Pid : wpc[p] \in Holding => wjid[p] \in JournalId
           /\ rstep # "idle" => rjid \in JournalId
BY QueueBasics DEF IndInv, TypeOK, PassTypeOK, HoldInv, JobOf

LEMMA RunRests ==
    ASSUME IndInv, RunInv, NoSummary, UNCHANGED run, \A p \in Pid : SameWork(p),
           SamePlace
    PROVE  RunInv'
<1>1. \A j \in JournalId : SameRun(j)
  BY DEF NoSummary, SameRun
<1>2. \A j \in JournalId : SummaryOK(j)'
  BY <1>1, RunInvIs DEF SummaryOK, SameRun
<1>3. \A p \in Pid : WorkOK(p)'
  BY <1>1, RowsInUse, WorkRests, RunInvIs
<1>4. PlaceOK'
  BY <1>1, RowsInUse, PlaceRests, RunInvIs
<1>5. RunInv' <=> /\ \A j \in JournalId : SummaryOK(j)'
                  /\ \A p \in Pid : WorkOK(p)'
                  /\ PlaceOK'
  BY DEF RunInv, SummarizedOnce, SummaryOK, WorkOK, PlaceOK, Unsummed
<1> QED BY <1>2, <1>3, <1>4, <1>5

(* The step is about one journal row, and nobody else is on that row.      *)
LEMMA RunOne ==
    ASSUME IndInv, RunInv, NEW j \in JournalId,
           \A k \in JournalId : k # j => SameRun(k),
           SummaryOK(j)',
           \A p \in Pid : \/ SameWork(p) /\ (wpc[p] \in Holding => wjid[p] # j)
                         \/ WorkOK(p)',
           \/ SamePlace /\ (rstep # "idle" => rjid # j)
           \/ PlaceOK'
    PROVE  RunInv'
<1>1. ASSUME NEW k \in JournalId PROVE SummaryOK(k)'
  <2>1. CASE k # j
    BY <2>1, RunInvIs DEF SummaryOK, SameRun
  <2> QED BY <2>1
<1>2. \A p \in Pid : WorkOK(p)'
  BY RowsInUse, WorkRests, RunInvIs
<1>3. PlaceOK'
  BY RowsInUse, PlaceRests, RunInvIs
<1>4. RunInv' <=> /\ \A k \in JournalId : SummaryOK(k)'
                  /\ \A p \in Pid : WorkOK(p)'
                  /\ PlaceOK'
  BY DEF RunInv, SummarizedOnce, SummaryOK, WorkOK, PlaceOK, Unsummed
<1> QED BY <1>1, <1>2, <1>3, <1>4

LEMMA RunInit == Init => RunInv
<1> SUFFICES ASSUME Init PROVE RunInv
  OBVIOUS
<1>1. Rows = {} /\ rstep = "idle" /\ \A p \in Pid : wpc[p] = "free"
  BY DEF Init, QueueInit, Rows
<1>2. \A j : SummariesOf(j) = {}
  BY <1>1 DEF SummariesOf
<1> QED BY <1>1, <1>2 DEF RunInv, SummarizedOnce

LEMMA OtherWork ==
    ASSUME NEW p \in Pid, wpc'[p] = wpc[p], wjid'[p] = wjid[p]
    PROVE  SameWork(p)
BY DEF SameWork

LEMMA MoveWork ==
    ASSUME IndInv, NEW p \in Pid, NEW pc, Goto(p, pc), UNCHANGED wjid
    PROVE  /\ wpc'[p] = pc
           /\ \A q \in Pid : q # p => SameWork(q)
<1>1. \A q \in Pid : wpc'[q] = (IF q = p THEN pc ELSE wpc[q])
  BY DEF Goto, IndInv, TypeOK, WorkerTypeOK
<1> QED BY <1>1, OtherWork

LEMMA VanishWork ==
    ASSUME IndInv, NEW p \in Pid, Vanish(p)
    PROVE  \A q \in Pid : SameWork(q)
<1>1. \A q \in Pid : q # p => wpc'[q] = wpc[q] /\ wjid'[q] = wjid[q]
  BY DEF Vanish, Goto, IndInv, TypeOK, WorkerTypeOK
<1>2. wpc'[p] \in Gone
  BY DEF Vanish, Goto, Gone, IndInv, TypeOK, WorkerTypeOK
<1>3. SameWork(p)
  BY <1>2 DEF SameWork, Gone
<1> QED BY <1>1, <1>3, OtherWork

(* Nobody else is on the row a worker or the recovery has in hand.         *)
LEMMA OthersElsewhere ==
    ASSUME IndInv, NEW p \in Pid, wpc[p] \in Holding
    PROVE  /\ wjid[p] \in JournalId /\ wjid[p] \in Jobs
           /\ \A q \in Pid : q # p /\ wpc[q] \in Holding => wjid[q] # wjid[p]
           /\ rstep # "idle" => rjid # wjid[p]
BY QueueBasics DEF IndInv, TypeOK, HoldInv, RecoveryInv, JobOf

LEMMA RunTake ==
    ASSUME IndInv, RunInv, NEW p \in Pid, Take(p)
    PROVE  RunInv'
<1>1. PICK n : n = nextJournal
  OBVIOUS
<1>2. n \in JournalId /\ n \notin Jobs
  BY <1>1, QueueBasics DEF Take, TakeItem, IndInv, TypeOK
<1>3. run[n] = "none"
  BY <1>2 DEF IndInv, RecoveryInv, TypeOK, RunTypeOK
<1>4. /\ NoSummary /\ run' = run /\ rstep' = rstep /\ rjid' = rjid
      /\ \A q \in Pid : q # p => SameWork(q)
      /\ wpc'[p] = "taken" /\ wjid'[p] = n
  <2>1. NoSummary
    BY SummariesRest DEF Take, TakeItem
  <2>2. /\ \A q \in Pid : wpc'[q] = (IF q = p THEN "taken" ELSE wpc[q])
        /\ \A q \in Pid : wjid'[q] = (IF q = p THEN n ELSE wjid[q])
    BY <1>1 DEF Take, Goto, IndInv, TypeOK, WorkerTypeOK
  <2> QED BY <2>1, <2>2, OtherWork DEF Take, runVars, recVars
<1>5. WorkOK(p)'
  BY <1>3, <1>4 DEF WorkOK
<1>6. SummaryOK(n)'
  BY <1>2, <1>4, RunInvIs DEF SummaryOK, NoSummary
<1>7. \A q \in Pid : q # p /\ wpc[q] \in Holding => wjid[q] # n
  BY <1>2 DEF IndInv, HoldInv, JobOf
<1>8. SamePlace /\ (rstep # "idle" => rjid # n)
  BY <1>2, <1>4 DEF SamePlace, IndInv, RecoveryInv
<1>9. \A k \in JournalId : SameRun(k)
  BY <1>4 DEF SameRun, NoSummary
<1> QED BY <1>2, <1>4, <1>5, <1>6, <1>7, <1>8, <1>9, RunOne

(* The worker opens or closes its run.                                     *)
LEMMA RunStatus ==
    ASSUME IndInv, RunInv, NEW p \in Pid, wpc[p] \in Holding, NEW pc, Goto(p, pc),
           UNCHANGED <<wjid, rows, nextRow, rstep, rjid>>, SummariesOf(wjid[p]) = {},
           NEW s, run' = [run EXCEPT ![wjid[p]] = s],
           \/ pc = "running" /\ s = "running"
           \/ pc \in {"posting", "replied"} /\ s \in Closed
    PROVE  RunInv'
<1>1. PICK j : j = wjid[p]
  OBVIOUS
<1>2. /\ j \in JournalId
      /\ \A q \in Pid : q # p /\ wpc[q] \in Holding => wjid[q] # j
      /\ rstep # "idle" => rjid # j
  BY <1>1, OthersElsewhere
<1>3. NoSummary
  BY SummariesRest
<1>4. /\ run'[j] = s
      /\ \A k \in JournalId : k # j => run'[k] = run[k]
  BY <1>1, <1>2 DEF IndInv, TypeOK, RunTypeOK
<1>5. \A k \in JournalId : k # j => SameRun(k)
  BY <1>3, <1>4 DEF SameRun, NoSummary
<1>6. SummariesOf(j)' = {}
  BY <1>1, <1>2, <1>3 DEF NoSummary
<1>7. wpc'[p] = pc /\ wjid'[p] = j /\ \A q \in Pid : q # p => SameWork(q)
  BY <1>1, MoveWork
<1>8. WorkOK(p)'
  <2>1. CASE s = "running"
    BY <1>4, <1>7, <2>1 DEF WorkOK, Closed
  <2>2. CASE s \in Closed
    <3>1. Unsummed(j)'
      BY <1>4, <1>6, <2>2 DEF Unsummed
    <3> QED BY <1>7, <2>2, <3>1 DEF WorkOK, Closed
  <2> QED BY <2>1, <2>2
<1>9. SummaryOK(j)'
  BY <1>6 DEF SummaryOK
<1>10. SamePlace
  BY DEF SamePlace
<1> QED BY <1>2, <1>5, <1>7, <1>8, <1>9, <1>10, RunOne

(* One summary more of a row that had none.                                *)
LEMMA FirstSummary ==
    ASSUME TypeOK, NEW j \in JournalId, Unsummed(j), UNCHANGED run,
           Enqueue(SummaryOrder(Summarizer, j))
    PROVE  /\ SummaryOK(j)'
           /\ \A k \in JournalId : k # j => SameRun(k)
<1>1. PICK r : r = SummaryOrder(Summarizer, j)
  OBVIOUS
<1>2. r \in Row /\ r.why = "summary" /\ r.src = j
  <2>1. j \in 0..MaxJournal
    BY QueueAssumption DEF JournalId
  <2> QED BY <1>1, <2>1, RowTypes, SupervisorAssumption DEF SummaryOrder
<1>3. SummariesOf(j)' = {nextRow}
  BY <1>1, <1>2, SummaryAdds DEF Unsummed
<1>4. SummaryOK(j)'
  BY <1>3 DEF SummaryOK, Unsummed
<1>5. \A k \in JournalId : k # j => SameRun(k)
  BY <1>1, <1>2, SummaryAdds DEF SameRun
<1> QED BY <1>4, <1>5

LEMMA RunRequest ==
    ASSUME IndInv, RunInv, NEW p \in Pid, RequestSummary(p)
    PROVE  RunInv'
<1>1. PICK j : j = wjid[p]
  OBVIOUS
<1>2. wpc[p] \in {"replied", "failing"} /\ wpc[p] \in Holding
  BY DEF RequestSummary, At, Holding
<1>3. Unsummed(j)
  BY <1>1, <1>2, RunInvIs DEF WorkOK
<1>4. /\ j \in JournalId
      /\ \A q \in Pid : q # p /\ wpc[q] \in Holding => wjid[q] # j
      /\ rstep # "idle" => rjid # j
  BY <1>1, <1>2, OthersElsewhere
<1>5. SummaryOK(j)' /\ \A k \in JournalId : k # j => SameRun(k)
  BY <1>1, <1>3, <1>4, FirstSummary DEF RequestSummary, runVars, IndInv
<1>6. wpc'[p] \in {"raising", "returning"} /\ \A q \in Pid : q # p => SameWork(q)
  BY MoveWork DEF RequestSummary
<1>7. WorkOK(p)' /\ SamePlace
  BY <1>6 DEF WorkOK, SamePlace, RequestSummary, recVars
<1> QED BY <1>4, <1>5, <1>6, <1>7, RunOne

LEMMA RunWorker ==
    ASSUME IndInv, RunInv, NEW p \in Pid, Worker(p)
    PROVE  RunInv'
<1>1. CASE Take(p)
  BY <1>1, RunTake
<1>2. CASE RequestSummary(p)
  BY <1>2, RunRequest
<1>3. CASE StartRun(p)
  <2>1. wpc[p] = "handling" /\ wpc[p] \in Holding
    BY <1>3 DEF StartRun, At, Holding
  <2>2. wjid[p] \in JournalId /\ run[wjid[p]] = "none"
    BY <2>1, RowsInUse, RunInvIs DEF WorkOK
  <2>3. SummariesOf(wjid[p]) = {}
    BY <2>2, RunInvIs DEF SummaryOK, Closed
  <2> QED BY <1>3, <2>1, <2>3, RunStatus DEF StartRun, queueVars, recVars
<1>4. ASSUME NEW s \in {"finished", "failed"}, FinishRun(p, s) PROVE RunInv'
  <2>1. wpc[p] = "running" /\ wpc[p] \in Holding
    BY <1>4 DEF FinishRun, At, Holding
  <2>2. wjid[p] \in JournalId /\ run[wjid[p]] = "running"
    BY <2>1, RowsInUse, RunInvIs DEF WorkOK
  <2>3. SummariesOf(wjid[p]) = {}
    BY <2>2, RunInvIs DEF SummaryOK, Closed
  <2>4. s \in Closed
    BY DEF Closed
  <2>5. Goto(p, IF s = "failed" THEN "posting" ELSE "replied")
    BY <1>4 DEF FinishRun
  <2> QED BY <1>4, <2>1, <2>3, <2>4, <2>5, RunStatus DEF FinishRun, queueVars, recVars
<1>5. CASE Poll(p) \/ Exit(p) \/ EmitProcessing(p) \/ EmitOutcome(p)
           \/ PostFailure(p) \/ (\E o \in Terminal : Settle(p, o))
  <2>1. NoSummary
    BY <1>5, SummariesRest DEF Poll, Exit, EmitProcessing, EmitOutcome, PostFailure,
       Settle, JournalUpdate, queueVars
  <2>2. run' = run /\ SamePlace
    BY <1>5 DEF Poll, Exit, EmitProcessing, EmitOutcome, PostFailure, Settle,
       runVars, recVars, SamePlace
  <2>3. \A q \in Pid : q # p => wpc'[q] = wpc[q] /\ wjid'[q] = wjid[q]
    BY <1>5 DEF Poll, Exit, EmitProcessing, EmitOutcome, PostFailure, Settle,
       Emit, Vanish, Goto, IndInv, TypeOK, WorkerTypeOK
  <2>4. SameWork(p)
    BY <1>5 DEF Poll, Exit, EmitProcessing, EmitOutcome, PostFailure, Settle, At,
       Emit, Vanish, Goto, SameWork, IndInv, TypeOK, WorkerTypeOK
  <2> QED BY <2>1, <2>2, <2>3, <2>4, OtherWork, RunRests
<1> QED BY <1>1, <1>2, <1>3, <1>4, <1>5 DEF Worker

LEMMA RunEnvironment ==
    ASSUME IndInv, RunInv, Environment
    PROVE  RunInv'
<1>1. ASSUME NEW t \in Turns, Submit(t) PROVE RunInv'
  <2>1. t \in Row /\ t.why # "summary"
    BY RowTypes, QueueAssumption, SupervisorAssumption DEF Turn
  <2>2. NoSummary
    BY <1>1, <2>1, SummaryAdds DEF NoSummary, Submit, IndInv
  <2>3. run' = run /\ SamePlace /\ \A p \in Pid : SameWork(p)
    BY <1>1 DEF Submit, runVars, recVars, workerVars, SamePlace, SameWork
  <2> QED BY <2>2, <2>3, RunRests
<1>2. ASSUME NEW p \in Pid, Hang(p) \/ Die(p) \/ Unwind(p) \/ DrainGroup(p)
      PROVE  RunInv'
  <2>1. NoSummary /\ run' = run /\ SamePlace
    BY <1>2, SummariesRest DEF Hang, Die, Unwind, DrainGroup, queueVars, runVars,
       recVars, SamePlace
  <2>2. \A q \in Pid : SameWork(q)
    <3>1. CASE Hang(p)
      <4>1. wpc'[p] = "hung" /\ \A q \in Pid : q # p => SameWork(q)
        BY <3>1, MoveWork DEF Hang
      <4>2. SameWork(p)
        BY <4>1 DEF SameWork
      <4> QED BY <4>1, <4>2
    <3>2. CASE Die(p) \/ Unwind(p) \/ DrainGroup(p)
      BY <3>2, VanishWork DEF Die, Unwind, DrainGroup
    <3> QED BY <1>2, <3>1, <3>2
  <2> QED BY <2>1, <2>2, RunRests
<1>3. CASE RecoveryError \/ Stop \/ Crash
  <2>1. NoSummary /\ run' = run
    BY <1>3, SummariesRest DEF RecoveryError, Stop, Crash, queueVars, runVars
  <2>2. SamePlace
    BY <1>3 DEF RecoveryError, RecoveryEnds, Stop, Crash, recVars, SamePlace
  <2>3. \A q \in Pid : SameWork(q)
    BY <1>3 DEF RecoveryError, Stop, Crash, workerVars, SameWork
  <2> QED BY <2>1, <2>2, <2>3, RunRests
<1> QED BY <1>1, <1>2, <1>3 DEF Environment

LEMMA RunRecovery ==
    ASSUME IndInv, RunInv, Recovery
    PROVE  RunInv'
<1>1. PICK j : j = rjid
  OBVIOUS
<1>2. rstep # "idle"
  BY DEF Recovery, LookUpRun, KillRun, CheckJournal, FailJournal,
         PostKilledNotice, OrderSummary, RecoveryStep
<1>3. j \in JournalId /\ \A p \in Pid : wpc[p] \in Holding => wjid[p] # j
  BY <1>1, <1>2, RowsInUse DEF IndInv, RecoveryInv
<1>4. \A p \in Pid : SameWork(p)
  BY DEF Recovery, LookUpRun, KillRun, CheckJournal, FailJournal,
         PostKilledNotice, OrderSummary, workerVars, SameWork
<1>5. CASE LookUpRun
  <2>1. NoSummary /\ run' = run /\ rjid' = j
        /\ rstep' = (IF run[j] = "running" THEN "kill" ELSE "check")
    BY <1>1, <1>5, SummariesRest DEF LookUpRun, RecoveryStep, queueVars, runVars
  <2>2. PlaceOK'
    BY <2>1 DEF PlaceOK
  <2>3. \A k \in JournalId : SameRun(k) /\ SummaryOK(k)'
    BY <2>1, RunInvIs DEF SameRun, NoSummary, SummaryOK
  <2> QED BY <1>3, <1>4, <2>2, <2>3, RunOne
<1>6. CASE KillRun
  <2>1. /\ NoSummary /\ rjid' = j /\ rstep = "kill" /\ rstep' = "checkRun"
        /\ run' = [run EXCEPT ![j] = "killed"]
    BY <1>1, <1>6, SummariesRest DEF KillRun, RecoveryStep, queueVars
  <2>2. run[j] = "running"
    BY <1>1, <2>1, RunInvIs DEF PlaceOK
  <2>3. SummariesOf(j) = {}
    BY <1>3, <2>2, RunInvIs DEF SummaryOK, Closed
  <2>4. SummariesOf(j)' = {}
    BY <1>3, <2>1, <2>3 DEF NoSummary
  <2>5. run'[j] = "killed" /\ \A k \in JournalId : k # j => SameRun(k)
    BY <1>3, <2>1 DEF SameRun, NoSummary, IndInv, TypeOK, RunTypeOK
  <2>6. PlaceOK' /\ SummaryOK(j)'
    BY <2>1, <2>4, <2>5 DEF PlaceOK, Unsummed, Closed, SummaryOK
  <2> QED BY <1>3, <1>4, <2>5, <2>6, RunOne
<1>7. CASE CheckJournal \/ FailJournal \/ PostKilledNotice
  <2>1. NoSummary /\ run' = run
    BY <1>7, SummariesRest DEF CheckJournal, FailJournal, PostKilledNotice,
       JournalUpdate, queueVars, runVars
  <2>2. SamePlace
    BY <1>7 DEF CheckJournal, FailJournal, PostKilledNotice, RecoveryStep,
       RecoveryEnds, SamePlace
  <2> QED BY <1>4, <2>1, <2>2, RunRests
<1>8. CASE OrderSummary
  <2>1. /\ rstep = "summary" /\ rstep' = "idle" /\ run' = run
        /\ Enqueue(SummaryOrder(Summarizer, j))
    BY <1>1, <1>8 DEF OrderSummary, RecoveryEnds, runVars
  <2>2. Unsummed(j)
    BY <1>1, <2>1, RunInvIs DEF PlaceOK
  <2>3. SummaryOK(j)' /\ \A k \in JournalId : k # j => SameRun(k)
    BY <1>3, <2>1, <2>2, FirstSummary DEF IndInv
  <2>4. PlaceOK'
    BY <2>1 DEF PlaceOK
  <2> QED BY <1>3, <1>4, <2>3, <2>4, RunOne
<1> QED BY <1>5, <1>6, <1>7, <1>8 DEF Recovery

LEMMA RunPass ==
    ASSUME IndInv, RunInv, Pass
    PROVE  RunInv'
<1>1. CASE Recovery
  BY <1>1, RunRecovery
<1>2. ASSUME UNCHANGED run, UNCHANGED <<rows, nextRow>>, SamePlace,
             \A p \in Pid : SameWork(p)
      PROVE  RunInv'
  BY <1>2, SummariesRest, RunRests
<1>3. CASE Start \/ SweepOne \/ SweepDone \/ Fetch \/ Stamp \/ SpawnDone \/ Recv
           \/ WatchDone \/ ReapDone \/ StopDone
  <2>1. UNCHANGED run /\ UNCHANGED <<rows, nextRow>>
    BY <1>3 DEF Start, SweepOne, SweepDone, Fetch, Stamp, MarkRouted, SpawnDone, Recv,
       WatchDone, ReapDone, StopDone, runVars, queueVars
  <2>2. SamePlace
    BY <1>3 DEF Start, SweepOne, SweepDone, Fetch, Stamp, SpawnDone, Recv,
       WatchDone, ReapDone, StopDone, recVars, SamePlace
  <2>3. \A p \in Pid : SameWork(p)
    BY <1>3 DEF Start, SweepOne, SweepDone, Fetch, Stamp, SpawnDone, Recv,
       WatchDone, ReapDone, StopDone, workerVars, SameWork
  <2> QED BY <1>2, <2>1, <2>2, <2>3
<1>4. CASE SendEnvelope
  <2>1. PICK j : j = Oldest(batch)
    OBVIOUS
  <2>2. PICK e : e = Envelope(journal[j].back, j)
    OBVIOUS
  <2>3. j \in JournalId
    BY <1>4, <2>1, OldestJob DEF SendEnvelope, IndInv, TypeOK, PassTypeOK
  <2>0. j \in 0..MaxJournal
    BY <2>3, QueueAssumption DEF JournalId
  <2>4. journal[j].back \in Role \cup {NoRole}
    BY <2>3 DEF IndInv, TypeOK, QueueTypeOK, Entry
  <2>5. e \in Row /\ e.why # "summary"
    BY <2>0, <2>2, <2>4, RowTypes DEF Envelope
  <2>6. NoSummary
    BY <1>4, <2>1, <2>2, <2>5, SummaryAdds DEF NoSummary, SendEnvelope, IndInv
  <2>7. UNCHANGED run /\ SamePlace /\ \A p \in Pid : SameWork(p)
    BY <1>4 DEF SendEnvelope, runVars, recVars, workerVars, SamePlace, SameWork
  <2> QED BY <2>6, <2>7, RunRests
<1>5. ASSUME NEW r \in Role, NEW p \in Pid, Spawn(r, p) PROVE RunInv'
  <2>1. UNCHANGED run /\ UNCHANGED <<rows, nextRow>> /\ SamePlace
    BY <1>5 DEF Spawn, runVars, queueVars, recVars, SamePlace
  <2>2. wpc'[p] = "poll" /\ \A q \in Pid : q # p => SameWork(q)
    BY <1>5, MoveWork DEF Spawn
  <2>3. SameWork(p)
    BY <2>2 DEF SameWork
  <2> QED BY <1>2, <2>1, <2>2, <2>3
<1>6. ASSUME NEW r \in Role, Recover(r) \/ Forget(r) PROVE RunInv'
  <2>1. UNCHANGED run /\ UNCHANGED <<rows, nextRow>> /\ SamePlace
    BY <1>6 DEF Recover, Forget, runVars, queueVars, recVars, SamePlace
  <2>2. CASE Recover(r)
    BY <1>2, <2>1, <2>2 DEF Recover, workerVars, SameWork
  <2>3. CASE Forget(r)
    <3>1. slot[r] \in Pid
      BY <2>3 DEF IndInv, TypeOK, SlotTypeOK, Forget, Reapable
    <3>2. /\ wpc'[slot[r]] = "free"
          /\ \A q \in Pid : q # slot[r] => SameWork(q)
      BY <2>3, <3>1, MoveWork DEF Forget
    <3>3. SameWork(slot[r])
      BY <3>2 DEF SameWork
    <3> QED BY <1>2, <2>1, <3>2, <3>3
  <2> QED BY <1>6, <2>2, <2>3
<1> QED BY <1>1, <1>3, <1>4, <1>5, <1>6 DEF Pass

LEMMA RunStep ==
    ASSUME IndInv, RunInv, [Next]_vars
    PROVE  RunInv'
<1>1. ASSUME UNCHANGED run, UNCHANGED <<rows, nextRow>>, UNCHANGED recVars,
             \A p \in Pid : SameWork(p)
      PROVE  RunInv'
  <2>1. SamePlace
    BY <1>1 DEF SamePlace, recVars
  <2> QED BY <1>1, <2>1, SummariesRest, RunRests
<1>2. ASSUME NEW r \in Role, Terminate(r) PROVE RunInv'
  BY <1>1, <1>2 DEF Terminate, runVars, queueVars, workerVars, SameWork
<1>3. ASSUME NEW r \in Role, Kill(r) PROVE RunInv'
  <2>1. slot[r] \in Pid
    BY <1>3 DEF IndInv, TypeOK, Kill, Alive, SlotTypeOK
  <2>2. \A p \in Pid : SameWork(p)
    BY <1>3, <2>1, VanishWork DEF Kill
  <2> QED BY <1>1, <1>3, <2>2 DEF Kill, runVars, queueVars
<1>4. CASE UNCHANGED vars
  BY <1>1, <1>4 DEF vars, runVars, queueVars, workerVars, SameWork
<1>5. ASSUME NEW p \in Pid, Worker(p) PROVE RunInv'
  BY <1>5, RunWorker
<1> QED BY <1>2, <1>3, <1>4, <1>5, RunEnvironment, RunPass DEF Next

(***************************************************************************)
(* Orphans: ReportInv, AwaitInv and CountInv.                              *)
(***************************************************************************)
Cares == ReportInv /\ AwaitInv /\ CountInv

(* The journal only grows, and only a take_item opens a row.               *)
NoNewJob == /\ Jobs' = Jobs
            /\ \A j \in Jobs : Open(j)' => Open(j)

LEMMA AgentStays ==
    ASSUME QueueInv, Grows, NEW j \in Jobs
    PROVE  j \in Jobs' /\ Agent(j)' = Agent(j)
BY DEF QueueInv, Grows, Agent

LEMMA StepGrows ==
    ASSUME IndInv, [Next]_vars
    PROVE  /\ Grows
           /\ nextJournal' = nextJournal => NoNewJob
<1> USE DEF IndInv, TypeOK
<1>1. CASE Unshown
  <2>1. Rows' = Rows /\ Jobs' = Jobs
    BY <1>1 DEF Unshown, Rows, Jobs
  <2>2. \A j \in Jobs : journal'[j].row = journal[j].row
                        /\ journal'[j].state = journal[j].state
    BY <1>1, QueueBasics DEF Unshown
  <2> QED BY <1>1, <2>1, <2>2 DEF Unshown, Grows, NoNewJob, Open
<1>2. ASSUME NEW r \in Row, Enqueue(r) PROVE Grows /\ NoNewJob
  <2>1. Grows /\ SameStates
    BY <1>2, EnqueueInv
  <2>2. Jobs' = Jobs
    BY <1>2 DEF Enqueue, Jobs
  <2> QED BY <2>1, <2>2 DEF SameStates, NoNewJob, Open
<1>3. ASSUME NEW i \in inbox, TakeItem(i) PROVE Grows /\ nextJournal' # nextJournal
  <2>1. Grows
    BY <1>3, TakeItemInv
  <2>2. nextJournal' # nextJournal
    BY <1>3, QueueBasics DEF TakeItem
  <2> QED BY <2>1, <2>2
<1>4. ASSUME NEW j \in Jobs, NEW o \in Terminal, NEW back \in Role \cup {NoRole},
             JournalUpdate(j, o, back)
      PROVE  Grows /\ NoNewJob
  <2>1. Grows /\ journal'[j].state = o
        /\ \A k \in JournalId : k # j => journal'[k] = journal[k]
    BY <1>4, JournalUpdateInv
  <2>2. Jobs' = Jobs /\ Jobs \subseteq JournalId
    BY <1>4, QueueBasics DEF JournalUpdate, Jobs
  <2> QED BY <2>1, <2>2 DEF NoNewJob, Open, Terminal
<1> QED BY StepQueueStep, <1>1, <1>2, <1>3, <1>4 DEF QueueStep

LEMMA OrphansFinite ==
    ASSUME TypeOK
    PROVE  /\ IsFiniteSet(Orphans) /\ Cardinality(Orphans) \in Nat
           /\ IsFiniteSet(Owing) /\ Cardinality(Owing) \in Nat
           /\ Cardinality(Role) \in Nat
<1>1. 1 \in Int /\ nextJournal - 1 \in Int
  BY QueueBasics DEF TypeOK
<1>2. IsFiniteSet(Jobs)
  BY <1>1, FS_Interval DEF Jobs
<1>3. Orphans \in SUBSET Jobs /\ Owing \in SUBSET Role
  BY DEF Orphans, Owing
<1>4. IsFiniteSet(Role)
  BY SupervisorAssumption
<1> QED BY <1>2, <1>3, <1>4, FS_Subset, FS_CardinalityType

Paid == deaths + errors + Cardinality(Role) * outages

LEMMA PaidGrows ==
    ASSUME TypeOK, TypeOK', outages' = outages
    PROVE  /\ Paid \in Nat /\ Paid' \in Nat
           /\ Paid' - Paid = (deaths' - deaths) + (errors' - errors)
<1>1. Cardinality(Role) \in Nat
  BY OrphansFinite
<1>2. /\ deaths \in Nat /\ errors \in Nat /\ outages \in Nat
      /\ deaths' \in Nat /\ errors' \in Nat
  BY SupervisorAssumption DEF TypeOK, BoundTypeOK
<1>3. PICK c \in Nat : c = Cardinality(Role) * outages
  BY <1>1, <1>2
<1>4. Paid = deaths + errors + c /\ Paid' = deaths' + errors' + c
  BY <1>3 DEF Paid
<1> QED BY <1>2, <1>3, <1>4

(* Nobody lets go of an open item, but for the one in S.                   *)
LEMMA OrphansFrom ==
    ASSUME NEW S,
           \A j \in Jobs' : Open(j)' => Held(j)' \/ (j \in Jobs /\ Open(j)),
           \A j \in Jobs : Open(j)' /\ Held(j) =>
               Held(j)' \/ (\E r \in Role : Awaited(r, j)') \/ j \in S,
           \A j \in Jobs : \A r \in Role : Open(j)' /\ Awaited(r, j) =>
               Held(j)' \/ (\E q \in Role : Awaited(q, j)') \/ j \in S
    PROVE  Orphans' \subseteq Orphans \cup S
<1> SUFFICES ASSUME NEW j, j \in Orphans', j \notin S PROVE j \in Orphans
  OBVIOUS
<1>1. j \in Jobs' /\ Open(j)' /\ ~Held(j)' /\ \A r \in Role : ~Awaited(r, j)'
  BY DEF Orphans
<1>2. j \in Jobs /\ Open(j)
  BY <1>1
<1>3. ~Held(j) /\ \A r \in Role : ~Awaited(r, j)
  BY <1>1, <1>2
<1> QED BY <1>2, <1>3 DEF Orphans

LEMMA OneMore ==
    ASSUME NEW S, IsFiniteSet(S), NEW x
    PROVE  /\ IsFiniteSet(S \cup {x})
           /\ Cardinality(S \cup {x}) \in Nat
           /\ Cardinality(S \cup {x}) <= Cardinality(S) + 1
<1>1. IsFiniteSet(S \cup {x}) /\ Cardinality(S) \in Nat
  BY FS_AddElement, FS_CardinalityType
<1>2. Cardinality(S \cup {x}) = IF x \in S THEN Cardinality(S) ELSE Cardinality(S) + 1
  BY FS_AddElement
<1> QED BY <1>1, <1>2, FS_CardinalityType

LEMMA Counted ==
    ASSUME CountInv
    PROVE  Cardinality(Orphans) + Cardinality(Owing) <= Paid
BY DEF CountInv, Paid

LEMMA CountQuiet ==
    ASSUME TypeOK, TypeOK', CountInv, outages' = outages,
           deaths' >= deaths, errors' >= errors,
           Orphans' \subseteq Orphans, Owing' \subseteq Owing
    PROVE  CountInv'
<1>1. Cardinality(Orphans') <= Cardinality(Orphans) /\ Cardinality(Orphans') \in Nat
  BY OrphansFinite, FS_Subset, FS_CardinalityType
<1>2. Cardinality(Owing') <= Cardinality(Owing) /\ Cardinality(Owing') \in Nat
  BY OrphansFinite, FS_Subset, FS_CardinalityType
<1>3. Paid \in Nat /\ Paid' \in Nat /\ Paid' >= Paid
  <2>1. deaths \in Nat /\ errors \in Nat /\ deaths' \in Nat /\ errors' \in Nat
    BY SupervisorAssumption DEF TypeOK, BoundTypeOK
  <2> QED BY <2>1, PaidGrows
<1>4. Cardinality(Orphans') + Cardinality(Owing') <= Paid'
  BY <1>1, <1>2, <1>3, Counted, OrphansFinite
<1> QED BY <1>4 DEF CountInv, Paid

(* One orphan more, by a death or an error.                                *)
LEMMA CountOne ==
    ASSUME TypeOK, TypeOK', CountInv, outages' = outages,
           (deaths' - deaths) + (errors' - errors) = 1,
           NEW j, Orphans' \subseteq Orphans \cup {j}, Owing' \subseteq Owing
    PROVE  CountInv'
<1>1. IsFiniteSet(Orphans \cup {j})
      /\ Cardinality(Orphans \cup {j}) \in Nat
      /\ Cardinality(Orphans \cup {j}) <= Cardinality(Orphans) + 1
  BY OrphansFinite, OneMore
<1>2. Cardinality(Orphans') <= Cardinality(Orphans \cup {j})
      /\ Cardinality(Orphans') \in Nat
  BY <1>1, FS_Subset, FS_CardinalityType
<1>3. Cardinality(Owing') <= Cardinality(Owing) /\ Cardinality(Owing') \in Nat
  BY OrphansFinite, FS_Subset, FS_CardinalityType
<1>4. Paid \in Nat /\ Paid' \in Nat /\ Paid' = Paid + 1
  BY PaidGrows
<1>5. Cardinality(Orphans') + Cardinality(Owing') <= Paid'
  BY <1>1, <1>2, <1>3, <1>4, Counted, OrphansFinite
<1> QED BY <1>5 DEF CountInv, Paid

(* One orphan more, from a role that owed one.                             *)
LEMMA CountDue ==
    ASSUME TypeOK, TypeOK', CountInv, outages' = outages,
           deaths' >= deaths, errors' >= errors,
           NEW j, Orphans' \subseteq Orphans \cup {j},
           NEW r \in Owing, Owing' \subseteq Owing \ {r}
    PROVE  CountInv'
<1>1. IsFiniteSet(Orphans \cup {j})
      /\ Cardinality(Orphans \cup {j}) \in Nat
      /\ Cardinality(Orphans \cup {j}) <= Cardinality(Orphans) + 1
  BY OrphansFinite, OneMore
<1>2. Cardinality(Orphans') <= Cardinality(Orphans \cup {j})
      /\ Cardinality(Orphans') \in Nat
  BY <1>1, FS_Subset, FS_CardinalityType
<1>3. IsFiniteSet(Owing \ {r}) /\ Cardinality(Owing \ {r}) = Cardinality(Owing) - 1
  BY OrphansFinite, FS_RemoveElement
<1>4. Cardinality(Owing') <= Cardinality(Owing \ {r}) /\ Cardinality(Owing') \in Nat
  BY <1>3, FS_Subset, FS_CardinalityType
<1>5. Paid \in Nat /\ Paid' \in Nat /\ Paid' >= Paid
  <2>1. deaths \in Nat /\ errors \in Nat /\ deaths' \in Nat /\ errors' \in Nat
    BY SupervisorAssumption DEF TypeOK, BoundTypeOK
  <2> QED BY <2>1, PaidGrows
<1>6. Cardinality(Orphans') + Cardinality(Owing') <= Paid'
  BY <1>1, <1>2, <1>3, <1>4, <1>5, Counted, OrphansFinite
<1> QED BY <1>6 DEF CountInv, Paid

(* One role more owes an orphan, by a death.                               *)
LEMMA CountOwed ==
    ASSUME TypeOK, TypeOK', CountInv, outages' = outages,
           deaths' = deaths + 1, errors' = errors,
           Orphans' \subseteq Orphans, NEW r, Owing' \subseteq Owing \cup {r}
    PROVE  CountInv'
<1>1. IsFiniteSet(Owing \cup {r})
      /\ Cardinality(Owing \cup {r}) \in Nat
      /\ Cardinality(Owing \cup {r}) <= Cardinality(Owing) + 1
  BY OrphansFinite, OneMore
<1>2. Cardinality(Owing') <= Cardinality(Owing \cup {r})
      /\ Cardinality(Owing') \in Nat
  BY <1>1, FS_Subset, FS_CardinalityType
<1>3. Cardinality(Orphans') <= Cardinality(Orphans) /\ Cardinality(Orphans') \in Nat
  BY OrphansFinite, FS_Subset, FS_CardinalityType
<1>4. Paid \in Nat /\ Paid' \in Nat /\ Paid' = Paid + 1
  <2>1. deaths \in Nat /\ errors \in Nat
    BY SupervisorAssumption DEF TypeOK, BoundTypeOK
  <2> QED BY <2>1, PaidGrows
<1>5. Cardinality(Orphans') + Cardinality(Owing') <= Paid'
  BY <1>1, <1>2, <1>3, <1>4, Counted, OrphansFinite
<1> QED BY <1>5 DEF CountInv, Paid

(* At most one orphan more of each role that owes none: an outage.         *)
LEMMA CountOutage ==
    ASSUME IndInv, IndInv', Grows, CountInv, outages' = outages + 1, deaths' = deaths,
           errors' = errors,
           NEW S, S \subseteq Jobs, Orphans' \subseteq Orphans \cup S,
           \A j \in S : Agent(j) \in Role \ Owing',
           \A j, k \in S : Agent(j) = Agent(k) => j = k
    PROVE  CountInv'
<1> USE DEF IndInv
<1>1. PICK T : T = Role \ Owing'
  OBVIOUS
<1>2. PICK W : W = Owing'
  OBVIOUS
<1>3. IsFiniteSet(Role) /\ W \subseteq Role /\ T = Role \ W
  BY <1>1, <1>2, SupervisorAssumption DEF Owing
<1>4. IsFiniteSet(T) /\ IsFiniteSet(W)
  BY <1>3, FS_Subset, FS_Difference
<1>5. Cardinality(T) = Cardinality(Role) - Cardinality(W)
  <2>1. Cardinality(Role \ W) = Cardinality(Role) - Cardinality(Role \cap W)
    BY <1>3, <1>4, FS_Difference
  <2>2. Role \cap W = W
    BY <1>3
  <2> QED BY <1>3, <2>1, <2>2
<1>6. IsFiniteSet(S) /\ Cardinality(S) <= Cardinality(T)
  <2> DEFINE f == [j \in S |-> Agent(j)]
  <2>1. f \in Injection(S, T)
    BY <1>1 DEF Injection, IsInjective
  <2> QED BY <1>4, <2>1, FS_Injection
<1>7. /\ Cardinality(S) \in Nat /\ Cardinality(T) \in Nat
      /\ Cardinality(W) \in Nat /\ Cardinality(Role) \in Nat
  BY <1>3, <1>4, <1>6, FS_CardinalityType
<1>8. IsFiniteSet(Orphans) /\ Cardinality(Orphans) \in Nat /\ Cardinality(Owing) \in Nat
  BY OrphansFinite
<1>9. /\ IsFiniteSet(Orphans \cup S)
      /\ Cardinality(Orphans \cup S) \in Nat
      /\ Cardinality(Orphans \cup S) <= Cardinality(Orphans) + Cardinality(S)
  <2>1. /\ IsFiniteSet(Orphans \cup S)
        /\ Cardinality(Orphans \cup S) = Cardinality(Orphans) + Cardinality(S)
                                         - Cardinality(Orphans \cap S)
    BY <1>6, <1>8, FS_Union
  <2>2. IsFiniteSet(Orphans \cap S)
    BY <1>6, <1>8, FS_Intersection
  <2>3. Cardinality(Orphans \cap S) \in Nat /\ Cardinality(Orphans \cup S) \in Nat
    BY <2>1, <2>2, FS_CardinalityType
  <2> QED BY <1>7, <1>8, <2>1, <2>3
<1>10. Cardinality(Orphans') <= Cardinality(Orphans \cup S)
       /\ Cardinality(Orphans') \in Nat
  BY <1>9, FS_Subset, FS_CardinalityType
<1>11. Paid \in Nat /\ Paid' = Paid + Cardinality(Role)
  <2>1. deaths \in Nat /\ errors \in Nat /\ outages \in Nat
    BY SupervisorAssumption DEF TypeOK, BoundTypeOK
  <2>2. PICK c \in Nat : c = Cardinality(Role)
    BY <1>7
  <2>3. c * (outages + 1) = c * outages + c /\ c * outages \in Nat
    BY <2>1
  <2> QED BY <2>1, <2>2, <2>3 DEF Paid
<1>12. Cardinality(Orphans') + Cardinality(W) <= Paid'
  BY <1>5, <1>6, <1>7, <1>8, <1>9, <1>10, <1>11, Counted
<1> QED BY <1>2, <1>12 DEF CountInv, Paid

(***************************************************************************)
(* What the supervisor awaits.                                             *)
(***************************************************************************)
(* A worker with a supervisor is the one of its role, and while one runs   *)
(* every live worker has it.                                               *)
LEMMA Peers ==
    ASSUME IndInv, NEW p \in Pid
    PROVE  /\ RoleOf[p] \in Role
           /\ HasPeer(p) <=> slot[RoleOf[p]] = p
           /\ \A r \in Role : slot[r] = p => r = RoleOf[p]
           /\ Termed(p) <=> slot[RoleOf[p]] = p /\ term[RoleOf[p]]
           /\ Live(p) /\ spc # "down" => slot[RoleOf[p]] = p
           /\ \A q \in Pid : Live(p) /\ Live(q) /\ RoleOf[p] = RoleOf[q] => p = q
<1>1. RoleOf[p] \in Role /\ p # NoPid
  BY SupervisorAssumption
<1>2. \A r \in Role : slot[r] = p => r = RoleOf[p]
  BY <1>1 DEF IndInv, ProcInv
<1>3. Live(p) /\ spc # "down" => slot[RoleOf[p]] = p
  BY DEF IndInv, ProcInv
<1>4. \A q \in Pid : Live(p) /\ Live(q) /\ RoleOf[p] = RoleOf[q] => p = q
  BY DEF IndInv, ProcInv, SoleWorker
<1> QED BY <1>1, <1>2, <1>3, <1>4 DEF HasPeer, Termed

(* An awaited item is one of the role that awaits it.                      *)
LEMMA AwaitedIsOwn ==
    ASSUME IndInv, NEW r \in Role, NEW j, Awaited(r, j)
    PROVE  j \in Jobs /\ j \in JournalId /\ Open(j) /\ Agent(j) = r
<1>1. j \in Jobs /\ Open(j) /\ j \in JournalId
  BY QueueBasics DEF Awaited, IndInv, TypeOK
<1>2. j # NoJob /\ j # NoMail
  BY <1>1, QueueAssumption DEF JournalId, NoJob, NoMail
<1>3. CASE known[r] = j
  BY <1>1, <1>2, <1>3 DEF IndInv, HoldInv, JobOf
<1>4. CASE Alive(r) /\ mail[slot[r]] = j
  <2>1. slot[r] \in Pid /\ RoleOf[slot[r]] = r
    BY <1>4 DEF Alive, IndInv, TypeOK, SlotTypeOK, ProcInv
  <2> QED BY <1>1, <1>2, <1>4, <2>1 DEF IndInv, HoldInv, JobOf
<1>5. CASE rjid = j /\ Agent(j) = r
  BY <1>1, <1>5
<1> QED BY <1>1, <1>3, <1>4, <1>5 DEF Awaited

AwaitOK(r) ==
    \A j \in Jobs : Awaited(r, j) =>
        /\ \A k \in Jobs : Awaited(r, k) => k = j
        /\ slot[r] # NoPid /\ Live(slot[r]) =>
              wpc[slot[r]] \in Holding /\ wjid[slot[r]] = j

LEMMA AwaitInvIs == AwaitInv <=> \A r \in Role : AwaitOK(r)
BY DEF AwaitInv, AwaitOK

(* A role that comes to await nothing new, whose worker keeps what it has, *)
(* is as it was.                                                           *)
LEMMA AwaitRests ==
    ASSUME NEW r \in Role, AwaitOK(r),
           \A j \in Jobs' : Awaited(r, j)' => j \in Jobs /\ Awaited(r, j),
           slot'[r] # NoPid /\ wpc'[slot'[r]] \notin Gone =>
               /\ slot'[r] = slot[r] /\ Live(slot[r])
               /\ wpc[slot[r]] \in Holding =>
                     \/ wpc'[slot[r]] \in Holding /\ wjid'[slot[r]] = wjid[slot[r]]
                     \/ journal'[wjid[slot[r]]].state # "processing"
    PROVE  AwaitOK(r)'
<1>1. ASSUME NEW j \in Jobs', Awaited(r, j)', NEW k \in Jobs', Awaited(r, k)'
      PROVE  k = j
  BY <1>1 DEF AwaitOK
<1>2. ASSUME NEW j \in Jobs', Awaited(r, j)', slot'[r] # NoPid,
             wpc'[slot'[r]] \notin Gone
      PROVE  wpc'[slot'[r]] \in Holding /\ wjid'[slot'[r]] = j
  <2>1. wpc[slot[r]] \in Holding /\ wjid[slot[r]] = j
    BY <1>2 DEF AwaitOK
  <2>2. Open(j)'
    BY <1>2 DEF Awaited
  <2> QED BY <1>2, <2>1, <2>2 DEF Open
<1> QED BY <1>1, <1>2 DEF AwaitOK, Live

(* What ReportInv says of one role and one worker.                         *)
SlotOK(r) ==
    /\ slot[r] = NoPid => known[r] = NoJob /\ ~term[r]
    /\ dying[r] => slot[r] # NoPid /\ wpc[slot[r]] = "zombie"
    /\ term[r] /\ Alive(r) => mail[slot[r]] = NoMail
    /\ Unread(r) /\ Awaited(r, known[r]) => mail[slot[r]] = known[r]

ReportOK(p) ==
    HasPeer(p) /\ wpc[p] \in Holding \ {"taken"} =>
        \/ mail[p] = wjid[p]
        \/ mail[p] = NoMail /\ known[RoleOf[p]] = wjid[p]

SettledOK(p) == wpc[p] = "settled" => ~Open(wjid[p])

LoopOK == rstep # "idle" => spc \in {"sweep", "reap", "stopping"}

AgentsOK == \A j \in Jobs : Agent(j) \in Role

LEMMA ReportInvIs ==
    ReportInv <=> /\ LoopOK /\ AgentsOK
                  /\ \A r \in Role : SlotOK(r)
                  /\ \A p \in Pid : ReportOK(p) /\ SettledOK(p)
BY DEF ReportInv, LoopOK, AgentsOK, SlotOK, ReportOK, SettledOK

LEMMA CaresIs ==
    ASSUME LoopOK', AgentsOK', \A r \in Role : SlotOK(r)' /\ AwaitOK(r)',
           \A p \in Pid : ReportOK(p)' /\ SettledOK(p)', CountInv'
    PROVE  Cares'
<1>1. ReportInv'
  BY DEF ReportInv, LoopOK, AgentsOK, SlotOK, ReportOK, SettledOK
<1>2. AwaitInv'
  BY DEF AwaitInv, AwaitOK
<1> QED BY <1>1, <1>2 DEF Cares

(* No row is opened and none changes its agent: what stays so.             *)
LEMMA JobsRest ==
    ASSUME IndInv, ReportInv, Grows, NoNewJob
    PROVE  /\ AgentsOK'
           /\ \A j \in Jobs : Agent(j)' = Agent(j) /\ (Open(j)' => Open(j))
           /\ \A p \in Pid : /\ wpc[p] = "settled" \/ wpc'[p] # "settled"
                             /\ wpc'[p] = "settled" => wjid'[p] = wjid[p]
                             => SettledOK(p)'
<1>1. \A j \in Jobs : Agent(j)' = Agent(j) /\ (Open(j)' => Open(j))
  BY AgentStays DEF IndInv, NoNewJob
<1>2. AgentsOK'
  BY <1>1 DEF ReportInv, AgentsOK, NoNewJob
<1>3. ASSUME NEW p \in Pid, wpc[p] = "settled" \/ wpc'[p] # "settled",
             wpc'[p] = "settled" => wjid'[p] = wjid[p]
      PROVE  SettledOK(p)'
  <2>1. CASE wpc'[p] # "settled"
    BY <2>1 DEF SettledOK
  <2>2. CASE wpc'[p] = "settled"
    <3>1. wpc[p] = "settled" /\ wjid'[p] = wjid[p]
      BY <1>3, <2>2
    <3>2. wjid[p] \in Jobs /\ ~Open(wjid[p])
      BY <3>1 DEF IndInv, HoldInv, JobOf, Holding, ReportInv
    <3>3. ~Open(wjid[p])'
      BY <1>1, <3>1, <3>2 DEF Open
    <3> QED BY <3>3 DEF SettledOK
  <2> QED BY <2>1, <2>2
<1> QED BY <1>1, <1>2, <1>3

(* The workers keep what they hold and their places, as far as it matters  *)
(* here: none ends, takes hold of an item or lets go of one.               *)
SamePlaces ==
    \A q \in Pid :
        /\ wpc'[q] \in Gone <=> wpc[q] \in Gone
        /\ wpc[q] \in Gone => wpc'[q] = wpc[q]
        /\ wpc'[q] \in Holding <=> wpc[q] \in Holding
        /\ wpc'[q] \in Holding => wjid'[q] = wjid[q]
        /\ wpc[q] = "taken" => wpc'[q] = "taken"
        /\ wpc'[q] \in {"poll", "picked", "taken"} =>
              wpc[q] \in {"poll", "picked", "taken"}

(* Most steps: the supervisor learns and forgets nothing.                  *)
LEMMA StandStill ==
    ASSUME IndInv, TypeOK', Cares, [Next]_vars, nextJournal' = nextJournal,
           UNCHANGED slotVars, UNCHANGED mail, SamePlaces, LoopOK',
           \/ rjid' = rjid
           \/ rjid' = NoJob /\ (rjid \in Jobs => journal'[rjid].state # "processing"),
           \A q \in Pid : wpc'[q] = "settled" =>
               wpc[q] = "settled" \/ journal'[wjid[q]].state # "processing",
           spc' = "down" => spc = "down",
           outages' = outages, deaths' >= deaths, errors' >= errors
    PROVE  Cares'
<1> USE DEF IndInv
<1>1. Grows /\ NoNewJob
  BY StepGrows
<1>2. /\ AgentsOK'
      /\ \A j \in Jobs : Agent(j)' = Agent(j) /\ (Open(j)' => Open(j))
      /\ Jobs' = Jobs
  BY <1>1, JobsRest DEF Cares, NoNewJob
<1>3. /\ slot' = slot /\ known' = known /\ term' = term /\ dying' = dying
      /\ mail' = mail
  BY DEF slotVars
<1>4. \A r \in Role : Alive(r)' <=> Alive(r)
  BY <1>3 DEF Alive
<1>5. NoJob \notin Jobs
  BY QueueBasics, QueueAssumption DEF TypeOK, JournalId, NoJob
<1>6. ASSUME NEW r \in Role, NEW j \in Jobs, Awaited(r, j)' PROVE Awaited(r, j)
  <2>1. Open(j)
    BY <1>2, <1>6 DEF Awaited
  <2>2. rjid' = j => rjid = j
    BY <1>5
  <2> QED BY <1>2, <1>3, <1>4, <1>6, <2>1, <2>2 DEF Awaited
<1>7. ASSUME NEW r \in Role, NEW j \in Jobs, Awaited(r, j), Open(j)'
      PROVE  Awaited(r, j)'
  <2>1. rjid = j => rjid' = j
    BY <1>7 DEF Open
  <2> QED BY <1>2, <1>3, <1>4, <1>7, <2>1 DEF Awaited
<1>8. ASSUME NEW r \in Role PROVE AwaitOK(r)'
  <2>1. slot[r] # NoPid => slot[r] \in Pid
    BY DEF TypeOK, SlotTypeOK
  <2>2. slot'[r] # NoPid /\ wpc'[slot'[r]] \notin Gone =>
               /\ slot'[r] = slot[r] /\ Live(slot[r])
               /\ wpc[slot[r]] \in Holding =>
                     wpc'[slot[r]] \in Holding /\ wjid'[slot[r]] = wjid[slot[r]]
    BY <1>3, <2>1 DEF SamePlaces, Live
  <2>3. AwaitOK(r)
    BY AwaitInvIs DEF Cares
  <2>4. \A j \in Jobs' : Awaited(r, j)' => j \in Jobs /\ Awaited(r, j)
    BY <1>2, <1>6
  <2> QED BY <2>2, <2>3, <2>4, AwaitRests
<1>9. ASSUME NEW r \in Role PROVE SlotOK(r)'
  <2>1. SlotOK(r) /\ (slot[r] # NoPid => slot[r] \in Pid)
    BY ReportInvIs DEF Cares, TypeOK, SlotTypeOK
  <2>2. dying'[r] => slot'[r] # NoPid /\ wpc'[slot'[r]] = "zombie"
    BY <1>3, <2>1 DEF SlotOK, SamePlaces, Gone
  <2>3. Awaited(r, known[r])' => Awaited(r, known[r])
    <3>1. Awaited(r, known[r])' => known[r] \in Jobs
      BY <1>2, <1>3 DEF Awaited
    <3>2. PICK k : k = known[r]
      OBVIOUS
    <3>3. Awaited(r, k)' => Awaited(r, k)
      BY <1>3, <1>6, <3>1, <3>2 DEF Awaited
    <3> QED BY <1>3, <3>2, <3>3 DEF Awaited, Open, Agent, Alive
  <2>4. Unread(r)' <=> Unread(r)
    BY <1>3, <1>4 DEF Unread, NoMail
  <2> QED BY <1>3, <1>4, <2>1, <2>2, <2>3, <2>4 DEF SlotOK, NoMail
<1>10. ASSUME NEW p \in Pid PROVE ReportOK(p)' /\ SettledOK(p)'
  <2>1. ReportOK(p)'
    <3>1. ReportOK(p)
      BY ReportInvIs DEF Cares
    <3>2. HasPeer(p)' <=> HasPeer(p)
      BY <1>3 DEF HasPeer
    <3> QED BY <1>3, <3>1, <3>2 DEF ReportOK, SamePlaces, NoMail, Holding
  <2>2. SettledOK(p)'
    <3>1. CASE wpc[p] = "settled" \/ wpc'[p] # "settled"
      <4>1. wpc'[p] = "settled" => wjid'[p] = wjid[p]
        BY DEF SamePlaces, Holding
      <4> QED BY <1>1, <3>1, <4>1, JobsRest DEF Cares
    <3>2. CASE wpc'[p] = "settled" /\ journal'[wjid[p]].state # "processing"
      <4>1. wjid'[p] = wjid[p]
        BY <3>2 DEF SamePlaces, Holding
      <4> QED BY <3>2, <4>1 DEF SettledOK, Open
    <3> QED BY <3>1, <3>2
  <2> QED BY <2>1, <2>2
<1>11. \A j : Held(j) => Held(j)'
  BY DEF Held, SamePlaces
<1>12. Orphans' \subseteq Orphans
  <2>1. \A j \in Jobs' : Open(j)' => Held(j)' \/ (j \in Jobs /\ Open(j))
    BY <1>2
  <2>2. Orphans' \subseteq Orphans \cup {}
    BY <1>7, <1>11, <2>1, OrphansFrom
  <2> QED BY <2>2
<1>13. Owing' \subseteq Owing
  <2> SUFFICES ASSUME NEW q \in Pid, Owes(q)' PROVE Owes(q)
    BY DEF Owing
  <2>1. Termed(q)' <=> Termed(q)
    BY <1>3 DEF Termed
  <2> QED BY <2>1 DEF Owes, Live, SamePlaces
<1>14. CountInv'
  BY <1>12, <1>13, CountQuiet DEF Cares
<1> QED BY <1>2, <1>8, <1>9, <1>10, <1>14, CaresIs

LEMMA MovePlaces ==
    ASSUME TypeOK, NEW p \in Pid, NEW pc, Goto(p, pc), UNCHANGED wjid,
           pc \notin Gone, wpc[p] \notin Gone, pc \in Holding <=> wpc[p] \in Holding,
           wpc[p] # "taken", pc # "poll", pc = "taken" => wpc[p] = "taken",
           pc = "picked" => wpc[p] = "poll"
    PROVE  SamePlaces
<1>1. \A q \in Pid : wpc'[q] = (IF q = p THEN pc ELSE wpc[q])
  BY DEF TypeOK, WorkerTypeOK, Goto
<1> QED BY <1>1 DEF SamePlaces

LEMMA CountersAre ==
    ASSUME TypeOK
    PROVE  deaths \in Nat /\ outages \in Nat /\ errors \in Nat
BY SupervisorAssumption DEF TypeOK, BoundTypeOK

(* A worker that works on: nothing is lost or learnt.                      *)
LEMMA CaresMoves ==
    ASSUME IndInv, TypeOK', Cares, NEW p \in Pid,
           \/ Poll(p) \/ StartRun(p) \/ (\E s \in {"finished", "failed"} : FinishRun(p, s))
           \/ PostFailure(p) \/ RequestSummary(p) \/ (\E o \in Terminal : Settle(p, o))
           \/ Hang(p)
    PROVE  Cares'
<1> USE DEF IndInv
<1>1. /\ nextJournal' = nextJournal /\ UNCHANGED slotVars /\ UNCHANGED mail
      /\ rjid' = rjid /\ spc' = spc /\ rstep' = rstep
  BY DEF Poll, StartRun, FinishRun, PostFailure, RequestSummary, Settle, Hang,
         queueVars, Enqueue, JournalUpdate, passVars, recVars
<1>2. outages' = outages /\ deaths' >= deaths /\ errors' >= errors
  BY CountersAre DEF Poll, StartRun, FinishRun, PostFailure, RequestSummary, Settle,
         Hang, boundVars
<1>3. SamePlaces
  <2> USE MovePlaces DEF At, Gone, Holding
  <2>1. Poll(p) => SamePlaces
    BY DEF Poll
  <2>2. StartRun(p) \/ PostFailure(p) => SamePlaces
    BY DEF StartRun, PostFailure
  <2>3. ASSUME NEW s \in {"finished", "failed"}, FinishRun(p, s) PROVE SamePlaces
    BY <2>3 DEF FinishRun
  <2>4. RequestSummary(p) => SamePlaces
    BY DEF RequestSummary
  <2>5. ASSUME NEW o \in Terminal, Settle(p, o) PROVE SamePlaces
    <3>1. wpc[p] \in {"returning", "raising", "handling"}
      BY <2>5 DEF Settle, Outcomes
    <3> QED BY <2>5, <3>1 DEF Settle
  <2>6. Hang(p) => SamePlaces
    BY DEF Hang
  <2> QED BY <2>1, <2>2, <2>3, <2>4, <2>5, <2>6
<1>4. \A q \in Pid : wpc'[q] = "settled" =>
         wpc[q] = "settled" \/ journal'[wjid[q]].state # "processing"
  <2>1. ASSUME NEW o \in Terminal, Settle(p, o), NEW q \in Pid,
               wpc'[q] = "settled", wpc[q] # "settled"
        PROVE  journal'[wjid[q]].state # "processing"
    <3>1. q = p /\ wpc[p] \in Holding
      BY <2>1 DEF Settle, Outcomes, Goto, TypeOK, WorkerTypeOK, Holding
    <3>2. wjid[p] \in JournalId
      BY <3>1, RowsInUse
    <3>3. journal'[wjid[p]].state = o
      BY <2>1, <3>2 DEF Settle, JournalUpdate, TypeOK, QueueTypeOK, Entry
    <3> QED BY <3>1, <3>3 DEF Terminal
  <2>2. Poll(p) \/ StartRun(p) \/ (\E s \in {"finished", "failed"} : FinishRun(p, s))
           \/ PostFailure(p) \/ RequestSummary(p) \/ Hang(p)
        => \A q \in Pid : wpc'[q] = "settled" => wpc[q] = "settled"
    BY DEF Poll, StartRun, FinishRun, PostFailure, RequestSummary, Hang, Goto,
           TypeOK, WorkerTypeOK
  <2> QED BY <2>1, <2>2
<1>5. [Next]_vars
  BY DEF Next, Environment, Worker
<1>6. LoopOK'
  BY <1>1, ReportInvIs DEF LoopOK, Cares
<1> QED BY <1>1, <1>2, <1>3, <1>4, <1>5, <1>6, StandStill

(* No worker and no message: a step of producers or of the supervisor.     *)
LEMMA CaresRests ==
    ASSUME IndInv, TypeOK', Cares, [Next]_vars, nextJournal' = nextJournal,
           UNCHANGED workerVars, UNCHANGED mail, UNCHANGED slotVars, LoopOK',
           \/ rjid' = rjid
           \/ rjid' = NoJob /\ (rjid \in Jobs => journal'[rjid].state # "processing"),
           spc' = "down" => spc = "down", UNCHANGED <<deaths, outages, errors>>
    PROVE  Cares'
<1>1. SamePlaces
  BY DEF SamePlaces, workerVars
<1>2. \A q \in Pid : wpc'[q] = "settled" => wpc[q] = "settled"
  BY DEF workerVars
<1>3. deaths' >= deaths /\ errors' >= errors
  BY CountersAre DEF IndInv
<1> QED BY <1>1, <1>2, <1>3, StandStill

LEMMA CaresPasses ==
    ASSUME IndInv, TypeOK', ClosingInv, Cares,
           \/ Start \/ SweepDone \/ Fetch \/ SendEnvelope \/ Stamp \/ SpawnDone
           \/ WatchDone \/ ReapDone \/ Recovery \/ (\E t \in Turns : Submit(t))
           \/ UNCHANGED vars
    PROVE  Cares'
<1> USE DEF IndInv
<1>1. [Next]_vars
  BY DEF Next, Pass, Environment
<1>2. CASE Start \/ SweepDone \/ Fetch \/ SendEnvelope \/ Stamp \/ SpawnDone
           \/ WatchDone \/ ReapDone \/ (\E t \in Turns : Submit(t)) \/ UNCHANGED vars
  <2>1. /\ nextJournal' = nextJournal /\ UNCHANGED workerVars /\ UNCHANGED mail
        /\ UNCHANGED slotVars /\ rjid' = rjid /\ rstep' = rstep
        /\ UNCHANGED <<deaths, outages, errors>>
    BY <1>2 DEF Start, SweepDone, Fetch, SendEnvelope, Stamp, SpawnDone, WatchDone,
       ReapDone, Submit, vars, queueVars, Enqueue, MarkRouted, recVars, boundVars
  <2>2. spc' = "down" => spc = "down"
    BY <1>2 DEF Start, SweepDone, Fetch, SendEnvelope, Stamp, SpawnDone, WatchDone,
       ReapDone, Submit, AfterRouting, vars, passVars
  <2>3. LoopOK'
    <3>1. LoopOK
      BY ReportInvIs DEF Cares
    <3> QED BY <1>2, <2>1, <3>1 DEF LoopOK, Start, SweepDone, Fetch, SendEnvelope,
       Stamp, SpawnDone, WatchDone, ReapDone, Submit, vars, passVars, ProcInv
  <2> QED BY <1>1, <2>1, <2>2, <2>3, CaresRests
<1>3. CASE Recovery
  <2>1. /\ UNCHANGED workerVars /\ UNCHANGED mail /\ UNCHANGED slotVars
        /\ nextJournal' = nextJournal /\ spc' = spc
        /\ UNCHANGED <<deaths, outages, errors>>
    BY <1>3 DEF Recovery, LookUpRun, KillRun, CheckJournal, FailJournal,
       PostKilledNotice, OrderSummary, queueVars, JournalUpdate, Enqueue, passVars,
       boundVars
  <2>2. rstep # "idle" /\ rjid \in JournalId
    BY <1>3, RowsInUse DEF Recovery, LookUpRun, KillRun, CheckJournal, FailJournal,
       PostKilledNotice, OrderSummary, RecoveryStep
  <2>3. LoopOK'
    BY <2>1, <2>2, ReportInvIs DEF LoopOK, Cares
  <2>4. \/ rjid' = rjid
        \/ rjid' = NoJob /\ journal'[rjid].state # "processing"
    <3>1. LookUpRun \/ KillRun \/ PostKilledNotice => rjid' = rjid
      BY DEF LookUpRun, KillRun, PostKilledNotice, RecoveryStep
    <3>2. CheckJournal => \/ rjid' = rjid
                          \/ rjid' = NoJob /\ journal'[rjid].state # "processing"
      BY DEF CheckJournal, RecoveryStep, RecoveryEnds, queueVars
    <3>3. FailJournal => \/ rjid' = rjid
                         \/ rjid' = NoJob /\ journal'[rjid].state # "processing"
      BY <2>2 DEF FailJournal, RecoveryStep, RecoveryEnds, JournalUpdate,
                  QueueTypeOK, Entry, TypeOK
    <3>4. OrderSummary => rjid' = NoJob /\ journal'[rjid].state # "processing"
      BY DEF OrderSummary, RecoveryEnds, Enqueue, ClosingInv, Terminal
    <3> QED BY <1>3, <3>1, <3>2, <3>3, <3>4 DEF Recovery
  <2> QED BY <1>1, <2>1, <2>3, <2>4, CaresRests
<1> QED BY <1>2, <1>3

(* The commit of a take: a new item, in its worker's hand.                 *)
LEMMA CaresTake ==
    ASSUME IndInv, IndInv', ClosingInv, Cares, NEW p \in Pid, Take(p)
    PROVE  Cares'
<1> USE DEF IndInv
<1>1. PICK n : n = nextJournal
  OBVIOUS
<1>2. /\ wrow[p] \in inbox /\ TakeItem(wrow[p])
      /\ n \in JournalId /\ n \notin Jobs /\ n # NoJob /\ n # NoMail
  <2>1. wrow[p] \in inbox /\ TakeItem(wrow[p])
    BY DEF Take, PickInv
  <2>2. n \in JournalId /\ n \notin Jobs
    BY <1>1, <2>1, QueueBasics DEF TakeItem, TypeOK
  <2> QED BY <2>1, <2>2, QueueAssumption DEF JournalId, NoJob, NoMail
<1>3. Grows /\ SameStates
  BY <1>2, TakeItemInv DEF TypeOK
<1>4. Jobs' = Jobs \cup {n}
  <2>1. nextJournal' = nextJournal + 1
    BY <1>2 DEF TakeItem
  <2> QED BY <1>1, <2>1, QueueBasics DEF Jobs, TypeOK
<1>5. \A j \in Jobs : Agent(j)' = Agent(j) /\ (Open(j)' <=> Open(j))
  BY <1>3, AgentStays DEF SameStates, Open
<1>6. /\ slot' = slot /\ known' = known /\ term' = term /\ dying' = dying
      /\ mail' = mail /\ rjid' = rjid /\ rstep' = rstep /\ spc' = spc
      /\ UNCHANGED <<deaths, outages, errors>>
  BY DEF Take, slotVars, recVars, passVars, boundVars
<1>7. /\ wpc[p] = "picked" /\ wpc'[p] = "taken" /\ wjid'[p] = n
      /\ \A q \in Pid : q # p => wpc'[q] = wpc[q] /\ wjid'[q] = wjid[q]
  BY <1>1 DEF Take, Goto, TypeOK, WorkerTypeOK
<1>8. AgentsOK'
  <2>1. JobOf(wjid[p], RoleOf[p])'
    BY <1>7 DEF HoldInv, Holding
  <2>2. Agent(n)' = RoleOf[p]
    BY <1>7, <2>1 DEF JobOf, Agent
  <2>3. \A j \in Jobs : Agent(j)' \in Role
    BY <1>5 DEF Cares, ReportInv
  <2>4. RoleOf[p] \in Role
    BY Peers
  <2> QED BY <1>4, <2>2, <2>3, <2>4 DEF AgentsOK
<1>9. \A r \in Role : Alive(r)' <=> Alive(r)
  BY <1>6 DEF Alive
<1>10. ASSUME NEW r \in Role, NEW j \in Jobs'
       PROVE  Awaited(r, j)' <=> j \in Jobs /\ Awaited(r, j)
  <2>1. CASE j \in Jobs
    BY <1>4, <1>5, <1>6, <1>9, <2>1 DEF Awaited
  <2>2. CASE j = n
    <3>1. known[r] # n
      BY <1>2 DEF HoldInv, JobOf
    <3>2. Alive(r) => mail[slot[r]] # n
      <4>1. Alive(r) => slot[r] \in Pid
        BY DEF Alive, TypeOK, SlotTypeOK
      <4> QED BY <1>2, <4>1 DEF HoldInv, JobOf
    <3>3. rjid # n
      BY <1>2 DEF RecoveryInv, ClosingInv
    <3> QED BY <1>2, <1>6, <1>9, <2>2, <3>1, <3>2, <3>3 DEF Awaited
  <2> QED BY <1>4, <2>1, <2>2
<1>11. ASSUME NEW r \in Role PROVE AwaitOK(r)'
  <2>1. AwaitOK(r) /\ (slot[r] # NoPid => slot[r] \in Pid)
    BY AwaitInvIs DEF Cares, TypeOK, SlotTypeOK
  <2>2. slot'[r] # NoPid /\ wpc'[slot'[r]] \notin Gone =>
               /\ slot'[r] = slot[r] /\ Live(slot[r])
               /\ wpc[slot[r]] \in Holding =>
                     wpc'[slot[r]] \in Holding /\ wjid'[slot[r]] = wjid[slot[r]]
    BY <1>6, <1>7, <2>1 DEF Live, Gone, Holding
  <2> QED BY <1>10, <2>1, <2>2, AwaitRests
<1>12. ASSUME NEW r \in Role PROVE SlotOK(r)'
  <2>1. SlotOK(r) /\ (slot[r] # NoPid => slot[r] \in Pid)
    BY ReportInvIs DEF Cares, TypeOK, SlotTypeOK
  <2>2. dying'[r] => slot'[r] # NoPid /\ wpc'[slot'[r]] = "zombie"
    BY <1>6, <1>7, <2>1 DEF SlotOK
  <2>3. Unread(r)' <=> Unread(r)
    BY <1>6, <1>9 DEF Unread, NoMail
  <2>4. Awaited(r, known[r])' => Awaited(r, known[r])
    <3>1. PICK k : k = known[r]
      OBVIOUS
    <3>2. Awaited(r, k)' => Awaited(r, k)
      BY <1>10 DEF Awaited
    <3> QED BY <1>6, <3>1, <3>2 DEF Awaited, Open, Agent, Alive
  <2> QED BY <1>6, <1>9, <2>1, <2>2, <2>3, <2>4 DEF SlotOK, NoMail
<1>13. ASSUME NEW q \in Pid PROVE ReportOK(q)' /\ SettledOK(q)'
  <2>1. CASE q = p
    BY <1>7, <2>1 DEF ReportOK, SettledOK
  <2>2. CASE q # p
    <3>1. ReportOK(q) /\ SettledOK(q)
      BY ReportInvIs DEF Cares
    <3>2. HasPeer(q)' <=> HasPeer(q)
      BY <1>6 DEF HasPeer
    <3>3. ReportOK(q)'
      BY <1>6, <1>7, <2>2, <3>1, <3>2 DEF ReportOK, NoMail
    <3>4. wpc[q] = "settled" => wjid[q] \in Jobs
      BY DEF HoldInv, JobOf, Holding
    <3>5. SettledOK(q)'
      BY <1>5, <1>7, <2>2, <3>1, <3>4 DEF SettledOK, Open
    <3> QED BY <3>3, <3>5
  <2> QED BY <2>1, <2>2
<1>14. \A j : Held(j) => Held(j)'
  BY <1>7 DEF Held, Holding
<1>15. Held(n)'
  BY <1>7 DEF Held, Holding
<1>16. Orphans' \subseteq Orphans
  <2>1. \A j \in Jobs' : Open(j)' => Held(j)' \/ (j \in Jobs /\ Open(j))
    BY <1>4, <1>5, <1>15
  <2>2. Orphans' \subseteq Orphans \cup {}
    BY <1>4, <1>10, <1>14, <2>1, OrphansFrom
  <2> QED BY <2>2
<1>17. Owing' \subseteq Owing
  <2> SUFFICES ASSUME NEW q \in Pid, Owes(q)' PROVE Owes(q)
    BY DEF Owing
  <2>1. Termed(q)' <=> Termed(q)
    BY <1>6 DEF Termed
  <2> QED BY <1>6, <1>7, <2>1 DEF Owes, Live, Gone
<1>18. CountInv'
  <2>1. deaths' >= deaths /\ errors' >= errors
    BY <1>6, CountersAre
  <2> QED BY <1>6, <1>16, <1>17, <2>1, CountQuiet DEF Cares
<1>19. LoopOK'
  BY <1>6, ReportInvIs DEF LoopOK, Cares
<1> QED BY <1>8, <1>11, <1>12, <1>13, <1>18, <1>19, CaresIs

(* A status message: the supervisor is to read of the item the worker is   *)
(* on, or that it is done with an item that is closed.                     *)
LEMMA CaresEmit ==
    ASSUME IndInv, Cares, NEW p \in Pid, HasPeer(p), ~Termed(p), NEW pc, NEW job,
           \/ wpc[p] = "taken" /\ pc = "handling" /\ job = wjid[p]
           \/ wpc[p] = "settled" /\ pc = "poll" /\ job = NoJob,
           mail' = [mail EXCEPT ![p] = job], Goto(p, pc),
           wjid' = [wjid EXCEPT ![p] = job],
           UNCHANGED queueVars, UNCHANGED slotVars, UNCHANGED passVars,
           UNCHANGED recVars, UNCHANGED boundVars, TypeOK'
    PROVE  Cares'
<1> USE DEF IndInv
<1>1. PICK r0 \in Role : r0 = RoleOf[p]
  BY Peers
<1>2. PICK h : h = wjid[p]
  OBVIOUS
<1>3. /\ slot[r0] = p /\ ~term[r0] /\ \A r \in Role : slot[r] = p => r = r0
      /\ p # NoPid
  <2>1. slot[r0] = p /\ ~term[r0] /\ \A r \in Role : slot[r] = p => r = r0
    BY <1>1, Peers
  <2> QED BY <2>1, SupervisorAssumption
<1>4. wpc[p] \in Holding /\ h \in Jobs /\ h # NoJob /\ NoJob \notin Jobs
  <2>1. wpc[p] \in Holding
    BY DEF Holding
  <2>2. NoJob \notin Jobs
    BY QueueBasics, QueueAssumption DEF TypeOK, JournalId, NoJob
  <2> QED BY <1>2, <2>1, <2>2 DEF HoldInv, JobOf
<1>5. /\ wpc'[p] = pc /\ wjid'[p] = job /\ mail'[p] = job
      /\ \A q \in Pid : q # p => /\ wpc'[q] = wpc[q] /\ wjid'[q] = wjid[q]
                                 /\ mail'[q] = mail[q]
  BY DEF Goto, TypeOK, WorkerTypeOK
<1>6. /\ slot' = slot /\ known' = known /\ term' = term /\ dying' = dying
      /\ rjid' = rjid /\ rstep' = rstep /\ spc' = spc /\ Jobs' = Jobs
      /\ UNCHANGED <<deaths, outages, errors>>
  BY DEF slotVars, recVars, passVars, boundVars, queueVars, Jobs
<1>7. \A j : (Open(j)' <=> Open(j)) /\ Agent(j)' = Agent(j)
  BY DEF Open, Agent, queueVars
<1>8. \A r \in Role : Alive(r)' <=> Alive(r)
  BY <1>6 DEF Alive
<1>9. ASSUME NEW j \in Jobs, Awaited(r0, j) PROVE j = h /\ wpc[p] = "taken"
  <2>1. AwaitOK(r0) /\ Live(p)
    BY <1>1, <1>4, AwaitInvIs DEF Cares, Live, Gone, Holding
  <2>2. j = h
    BY <1>2, <1>3, <1>9, <2>1 DEF AwaitOK
  <2>3. wpc[p] = "settled" => ~Open(h)
    BY <1>2, ReportInvIs DEF Cares, SettledOK
  <2> QED BY <1>9, <2>2, <2>3 DEF Awaited
<1>10. ASSUME NEW r \in Role, r # r0, NEW j PROVE Awaited(r, j)' <=> Awaited(r, j)
  <2>1. Alive(r) => slot[r] \in Pid /\ slot[r] # p
    BY <1>3, <1>10 DEF Alive, TypeOK, SlotTypeOK
  <2> QED BY <1>5, <1>6, <1>7, <1>8, <2>1 DEF Awaited
<1>11. ASSUME NEW j \in Jobs, Awaited(r0, j)'
       PROVE  j = h /\ wpc[p] = "taken"
  <2>1. CASE mail'[p] = j
    BY <1>2, <1>4, <1>5, <2>1
  <2>2. CASE mail'[p] # j
    <3>1. Awaited(r0, j)
      BY <1>3, <1>6, <1>7, <1>11, <2>2 DEF Awaited
    <3> QED BY <1>9, <3>1
  <2> QED BY <2>1, <2>2
<1>12. ASSUME NEW r \in Role PROVE AwaitOK(r)'
  <2>1. CASE r = r0
    <3>1. \A j \in Jobs : Awaited(r0, j)' =>
             j = h /\ wpc'[slot'[r0]] \in Holding /\ wjid'[slot'[r0]] = h
      BY <1>2, <1>3, <1>5, <1>6, <1>11 DEF Holding
    <3> QED BY <1>6, <2>1, <3>1 DEF AwaitOK
  <2>2. CASE r # r0
    <3>1. AwaitOK(r) /\ slot[r] # p /\ (slot[r] # NoPid => slot[r] \in Pid)
      BY <1>3, <2>2, AwaitInvIs DEF Cares, TypeOK, SlotTypeOK
    <3>2. slot'[r] # NoPid /\ wpc'[slot'[r]] \notin Gone =>
               /\ slot'[r] = slot[r] /\ Live(slot[r])
               /\ wpc[slot[r]] \in Holding =>
                     wpc'[slot[r]] \in Holding /\ wjid'[slot[r]] = wjid[slot[r]]
      BY <1>5, <1>6, <3>1 DEF Live
    <3>3. \A j \in Jobs' : Awaited(r, j)' => j \in Jobs /\ Awaited(r, j)
      BY <1>6, <1>10, <2>2
    <3> QED BY <3>1, <3>2, <3>3, AwaitRests
  <2> QED BY <2>1, <2>2
<1>13. ASSUME NEW r \in Role PROVE SlotOK(r)'
  <2>1. SlotOK(r) /\ (slot[r] # NoPid => slot[r] \in Pid)
    BY ReportInvIs DEF Cares, TypeOK, SlotTypeOK
  <2>2. CASE r = r0
    <3>1. ~dying'[r0] /\ ~term'[r0] /\ slot'[r0] # NoPid
      BY <1>3, <1>6, <2>1, <2>2 DEF SlotOK
    <3>2. PICK k : k = known[r0]
      OBVIOUS
    <3>3. Awaited(r0, k)' => k = h /\ wpc[p] = "taken"
      BY <1>6, <1>11 DEF Awaited
    <3>4. Awaited(r0, known[r0])' => mail'[slot'[r0]] = known'[r0]
      BY <1>2, <1>3, <1>5, <1>6, <3>2, <3>3 DEF Awaited, Open, Agent, Alive
    <3> QED BY <2>2, <3>1, <3>4 DEF SlotOK
  <2>3. CASE r # r0
    <3>1. slot[r] # p
      BY <1>3, <2>3
    <3>2. dying'[r] => slot'[r] # NoPid /\ wpc'[slot'[r]] = "zombie"
      BY <1>5, <1>6, <2>1, <3>1 DEF SlotOK
    <3>3. Alive(r) => mail'[slot'[r]] = mail[slot[r]]
      BY <1>5, <1>6, <2>1, <3>1 DEF Alive
    <3>4. PICK k : k = known[r]
      OBVIOUS
    <3>5. Awaited(r, k)' <=> Awaited(r, k)
      BY <1>10, <2>3
    <3>6. Awaited(r, known[r])' => Awaited(r, known[r])
      BY <1>6, <3>4, <3>5 DEF Awaited, Open, Agent, Alive
    <3> QED BY <1>6, <1>8, <2>1, <3>2, <3>3, <3>6 DEF SlotOK, Unread, NoMail
  <2> QED BY <2>2, <2>3
<1>14. ASSUME NEW q \in Pid PROVE ReportOK(q)' /\ SettledOK(q)'
  <2>1. CASE q = p
    BY <1>5, <2>1 DEF ReportOK, SettledOK, Holding
  <2>2. CASE q # p
    <3>1. ReportOK(q) /\ SettledOK(q)
      BY ReportInvIs DEF Cares
    <3>2. HasPeer(q)' <=> HasPeer(q)
      BY <1>6 DEF HasPeer
    <3>3. ReportOK(q)'
      BY <1>5, <1>6, <2>2, <3>1, <3>2 DEF ReportOK, NoMail
    <3>4. SettledOK(q)'
      BY <1>5, <2>2, <3>1 DEF SettledOK, Open, queueVars
    <3> QED BY <3>3, <3>4
  <2> QED BY <2>1, <2>2
<1>15. AgentsOK' /\ LoopOK'
  BY <1>6, <1>7, ReportInvIs DEF AgentsOK, LoopOK, Cares
<1>16. ASSUME NEW j \in Jobs, Held(j), Open(j) PROVE Held(j)'
  <2>1. PICK q \in Pid : wpc[q] \in Holding /\ wjid[q] = j
    BY <1>16 DEF Held
  <2>2. q = p => wpc[p] = "taken"
    BY <1>16, <2>1, ReportInvIs DEF Cares, SettledOK
  <2>3. wpc'[q] \in Holding /\ wjid'[q] = j
    BY <1>5, <2>1, <2>2 DEF Holding
  <2> QED BY <2>3 DEF Held
<1>17. ASSUME NEW j \in Jobs, NEW r \in Role, Awaited(r, j)
       PROVE  Held(j)' \/ \E q \in Role : Awaited(q, j)'
  <2>1. CASE r # r0
    BY <1>10, <1>17, <2>1
  <2>2. CASE r = r0
    <3>1. j = h /\ wpc[p] = "taken"
      BY <1>9, <1>17, <2>2
    <3>2. wpc'[p] \in Holding /\ wjid'[p] = j
      BY <1>2, <1>5, <3>1 DEF Holding
    <3> QED BY <3>2 DEF Held
  <2> QED BY <2>1, <2>2
<1>18. Orphans' \subseteq Orphans
  <2>1. \A j \in Jobs' : Open(j)' => Held(j)' \/ (j \in Jobs /\ Open(j))
    BY <1>6, <1>7
  <2>2. Orphans' \subseteq Orphans \cup {}
    BY <1>7, <1>16, <1>17, <2>1, OrphansFrom
  <2> QED BY <2>2
<1>19. Owing' \subseteq Owing
  <2> SUFFICES ASSUME NEW q \in Pid, Owes(q)' PROVE Owes(q)
    BY DEF Owing
  <2>1. Termed(q)' <=> Termed(q)
    BY <1>6 DEF Termed
  <2>2. spc # "down"
    BY <1>3 DEF ProcInv
  <2>3. q # p
    BY <1>6, <2>1, <2>2 DEF Owes
  <2> QED BY <1>5, <1>6, <2>1, <2>3 DEF Owes, Live
<1>20. CountInv'
  <2>1. deaths' >= deaths /\ errors' >= errors
    BY <1>6, CountersAre
  <2> QED BY <1>6, <1>18, <1>19, <2>1, CountQuiet DEF Cares
<1> QED BY <1>12, <1>13, <1>14, <1>15, <1>20, CaresIs

(* The end of a worker.  Its open item is an orphan unless it was reported *)
(* and is awaited; then a death pays for it, or the role's own debt does.  *)
LEMMA CaresVanish ==
    ASSUME IndInv, Cares, TypeOK', NEW p \in Pid, Vanish(p),
           UNCHANGED <<slot, known, term, mail>>,
           UNCHANGED queueVars, UNCHANGED passVars, UNCHANGED recVars,
           \/ dying' = dying /\ Live(p)
           \/ \E r \in Role : /\ slot[r] = p /\ term[r] /\ Alive(r)
                              /\ dying' = [dying EXCEPT ![r] = TRUE],
           outages' = outages, errors' = errors, deaths' \in {deaths, deaths + 1},
           \/ deaths' = deaths + 1
           \/ wpc[p] \notin Holding
           \/ ~Open(wjid[p])
           \/ Owes(p)
           \/ Termed(p) /\ wpc[p] # "taken"
    PROVE  Cares'
<1> USE DEF IndInv
<1>1. PICK r0 \in Role : r0 = RoleOf[p]
  BY Peers
<1>2. PICK h : h = wjid[p]
  OBVIOUS
<1>3. /\ wpc'[p] \in Gone /\ (HasPeer(p) => wpc'[p] = "zombie")
      /\ \A q \in Pid : q # p => wpc'[q] = wpc[q] /\ wjid'[q] = wjid[q]
  BY DEF Vanish, Goto, Gone, TypeOK, WorkerTypeOK
<1>4. /\ slot' = slot /\ known' = known /\ term' = term /\ mail' = mail
      /\ rjid' = rjid /\ rstep' = rstep /\ spc' = spc /\ Jobs' = Jobs
  BY DEF recVars, passVars, queueVars, Jobs
<1>5. \A j : (Open(j)' <=> Open(j)) /\ Agent(j)' = Agent(j)
  BY DEF Open, Agent, queueVars
<1>6. /\ p # NoPid
      /\ \A r \in Role : Alive(r)' => Alive(r)
      /\ \A r \in Role : Alive(r) /\ ~Alive(r)' => slot[r] = p /\ mail[p] = NoMail
      /\ \A r \in Role : dying'[r] => dying[r] \/ slot[r] = p
  <2>1. p # NoPid
    BY SupervisorAssumption
  <2>2. CASE dying' = dying
    BY <1>4, <2>1, <2>2 DEF Alive
  <2>3. CASE dying' # dying
    <3>1. PICK r1 \in Role : /\ slot[r1] = p /\ term[r1] /\ Alive(r1)
                             /\ dying' = [dying EXCEPT ![r1] = TRUE]
      BY <2>3
    <3>2. mail[p] = NoMail
      BY <3>1, ReportInvIs DEF Cares, SlotOK
    <3>3. \A q \in Role : dying'[q] <=> dying[q] \/ q = r1
      BY <3>1 DEF TypeOK, SlotTypeOK
    <3> QED BY <1>4, <2>1, <3>1, <3>2, <3>3 DEF Alive
  <2> QED BY <2>2, <2>3
<1>7. NoMail \notin Jobs /\ (wpc[p] \in Holding => h \in Jobs)
  <2>1. NoMail \notin Jobs
    BY QueueBasics, QueueAssumption DEF TypeOK, JournalId, NoMail
  <2> QED BY <1>2, <2>1 DEF HoldInv, JobOf
<1>8. ASSUME NEW r \in Role, NEW j \in Jobs PROVE Awaited(r, j)' <=> Awaited(r, j)
  BY <1>4, <1>5, <1>6, <1>7 DEF Awaited
<1>9. ASSUME NEW r \in Role PROVE AwaitOK(r)'
  <2>1. AwaitOK(r) /\ (slot[r] # NoPid => slot[r] \in Pid)
    BY AwaitInvIs DEF Cares, TypeOK, SlotTypeOK
  <2>2. slot'[r] # NoPid /\ wpc'[slot'[r]] \notin Gone =>
               /\ slot'[r] = slot[r] /\ Live(slot[r])
               /\ wpc[slot[r]] \in Holding =>
                     wpc'[slot[r]] \in Holding /\ wjid'[slot[r]] = wjid[slot[r]]
    BY <1>3, <1>4, <2>1 DEF Live
  <2>3. \A j \in Jobs' : Awaited(r, j)' => j \in Jobs /\ Awaited(r, j)
    BY <1>4, <1>8
  <2> QED BY <2>1, <2>2, <2>3, AwaitRests
<1>10. ASSUME NEW r \in Role PROVE SlotOK(r)'
  <2>1. SlotOK(r) /\ (slot[r] # NoPid => slot[r] \in Pid)
    BY ReportInvIs DEF Cares, TypeOK, SlotTypeOK
  <2>2. dying'[r] => slot'[r] # NoPid /\ wpc'[slot'[r]] = "zombie"
    <3>1. slot[r] = p => HasPeer(p)
      BY DEF HasPeer
    <3>2. CASE slot[r] = p
      BY <1>3, <1>4, <1>6, <2>1, <3>1, <3>2 DEF SlotOK
    <3>3. CASE slot[r] # p
      BY <1>3, <1>4, <1>6, <2>1, <3>3 DEF SlotOK
    <3> QED BY <3>2, <3>3
  <2>3. Unread(r)' => Unread(r)
    BY <1>4, <1>6 DEF Unread, NoMail
  <2>4. Awaited(r, known[r])' => Awaited(r, known[r])
    <3>1. PICK k : k = known[r]
      OBVIOUS
    <3>2. Awaited(r, k)' => Awaited(r, k)
      BY <1>4, <1>8 DEF Awaited
    <3> QED BY <1>4, <3>1, <3>2 DEF Awaited, Open, Agent, Alive
  <2> QED BY <1>4, <1>6, <2>1, <2>2, <2>3, <2>4 DEF SlotOK, NoMail
<1>11. ASSUME NEW q \in Pid PROVE ReportOK(q)' /\ SettledOK(q)'
  <2>1. CASE q = p
    BY <1>3, <2>1 DEF ReportOK, SettledOK, Gone, Holding
  <2>2. CASE q # p
    <3>1. ReportOK(q) /\ SettledOK(q)
      BY ReportInvIs DEF Cares
    <3>2. HasPeer(q)' <=> HasPeer(q)
      BY <1>4 DEF HasPeer
    <3>3. ReportOK(q)'
      BY <1>3, <1>4, <2>2, <3>1, <3>2 DEF ReportOK, NoMail
    <3>4. SettledOK(q)'
      BY <1>3, <2>2, <3>1 DEF SettledOK, Open, queueVars
    <3> QED BY <3>3, <3>4
  <2> QED BY <2>1, <2>2
<1>12. AgentsOK' /\ LoopOK'
  BY <1>4, <1>5, ReportInvIs DEF AgentsOK, LoopOK, Cares
<1>13. ASSUME NEW j, Held(j)
       PROVE  Held(j)' \/ (j = h /\ wpc[p] \in Holding)
  <2>1. PICK q \in Pid : wpc[q] \in Holding /\ wjid[q] = j
    BY <1>13 DEF Held
  <2> QED BY <1>2, <1>3, <2>1 DEF Held
<1>14. \A j \in Jobs' : Open(j)' => Held(j)' \/ (j \in Jobs /\ Open(j))
  BY <1>4, <1>5
<1>15. Orphans' \subseteq Orphans \cup {h}
  <2>1. \A j \in Jobs : Open(j)' /\ Held(j) =>
           Held(j)' \/ (\E r \in Role : Awaited(r, j)') \/ j \in {h}
    BY <1>13
  <2>2. \A j \in Jobs : \A r \in Role : Open(j)' /\ Awaited(r, j) =>
           Held(j)' \/ (\E q \in Role : Awaited(q, j)') \/ j \in {h}
    BY <1>8
  <2> QED BY <1>14, <2>1, <2>2, OrphansFrom
<1>16. ASSUME wpc[p] \in Holding => ~Open(h) \/ \E r \in Role : Awaited(r, h)
       PROVE  Orphans' \subseteq Orphans
  <2>1. \A j \in Jobs : Open(j)' /\ Held(j) =>
           Held(j)' \/ (\E r \in Role : Awaited(r, j)')
    BY <1>5, <1>8, <1>13, <1>16
  <2>2. Orphans' \subseteq Orphans \cup {}
    BY <1>8, <1>14, <2>1, OrphansFrom
  <2> QED BY <2>2
<1>17. Owing' \subseteq Owing /\ (Live(p) => Owing' \subseteq Owing \ {r0})
  <2>1. ASSUME NEW q \in Pid, Owes(q)' PROVE Owes(q) /\ q # p
    <3>1. Termed(q)' <=> Termed(q)
      BY <1>4 DEF Termed
    <3>2. q # p
      BY <1>3, <2>1 DEF Owes, Live
    <3> QED BY <1>3, <1>4, <2>1, <3>1, <3>2 DEF Owes, Live
  <2>2. Owing' \subseteq Owing
    BY <2>1 DEF Owing
  <2>3. ASSUME Live(p), r0 \in Owing' PROVE FALSE
    <3>1. PICK q \in Pid : RoleOf[q] = r0 /\ Owes(q)'
      BY <2>3 DEF Owing
    <3>2. Live(q) /\ q # p
      BY <2>1, <3>1 DEF Owes
    <3> QED BY <1>1, <2>3, <3>1, <3>2, Peers
  <2> QED BY <2>2, <2>3
<1>18. deaths' >= deaths /\ errors' >= errors
  BY CountersAre
<1>19. CASE deaths' = deaths + 1
  <2>1. (deaths' - deaths) + (errors' - errors) = 1
    BY <1>19, CountersAre
  <2> QED BY <1>9, <1>10, <1>11, <1>12, <1>15, <1>17, <2>1, CountOne, CaresIs DEF Cares
<1>20. ASSUME Orphans' \subseteq Orphans PROVE Cares'
  <2>1. CountInv'
    BY <1>17, <1>18, <1>20, CountQuiet DEF Cares
  <2> QED BY <1>9, <1>10, <1>11, <1>12, <2>1, CaresIs
<1>21. CASE wpc[p] \notin Holding \/ ~Open(wjid[p])
  BY <1>2, <1>16, <1>20, <1>21
<1>22. CASE Owes(p)
  <2>1. Live(p) /\ r0 \in Owing
    BY <1>1, <1>22 DEF Owes, Owing
  <2>2. CountInv'
    BY <1>15, <1>17, <1>18, <2>1, CountDue DEF Cares
  <2> QED BY <1>9, <1>10, <1>11, <1>12, <2>2, CaresIs
<1>23. CASE Termed(p) /\ wpc[p] # "taken"
  <2> SUFFICES ASSUME wpc[p] \in Holding, Open(h) PROVE Awaited(r0, h)
    BY <1>16, <1>20
  <2>1. slot[r0] = p /\ term[r0] /\ HasPeer(p)
    BY <1>1, <1>23, Peers
  <2>2. SlotOK(r0) /\ ReportOK(p)
    BY ReportInvIs DEF Cares
  <2>3. Alive(r0)
    BY <2>1, <2>2, SupervisorAssumption DEF SlotOK, Alive, Holding
  <2>4. mail[p] = NoMail
    BY <2>1, <2>2, <2>3 DEF SlotOK
  <2>5. known[r0] = h
    BY <1>1, <1>2, <1>7, <1>23, <2>1, <2>2, <2>4 DEF ReportOK
  <2> QED BY <1>7, <2>5 DEF Awaited
<1> QED BY <1>19, <1>21, <1>22, <1>23

LEMMA CaresEnds ==
    ASSUME IndInv, IndInv', Cares, NEW p \in Pid,
           \/ Exit(p) \/ Die(p) \/ Unwind(p) \/ DrainGroup(p)
           \/ EmitProcessing(p) \/ EmitOutcome(p)
    PROVE  Cares'
<1> USE DEF IndInv
<1>1. TypeOK'
  OBVIOUS
<1>2. UNCHANGED queueVars /\ UNCHANGED slotVars /\ UNCHANGED passVars
      /\ UNCHANGED recVars /\ outages' = outages /\ errors' = errors
      /\ deaths' \in {deaths, deaths + 1}
  BY DEF Exit, Die, Unwind, DrainGroup, EmitProcessing, EmitOutcome, boundVars
<1>3. ASSUME Vanish(p), Live(p), mail' = mail,
             \/ deaths' = deaths + 1
             \/ wpc[p] \notin Holding
             \/ ~Open(wjid[p])
             \/ Owes(p)
             \/ Termed(p) /\ wpc[p] # "taken"
      PROVE  Cares'
  <2>1. UNCHANGED <<slot, known, term, mail>> /\ dying' = dying
    BY <1>2, <1>3 DEF slotVars
  <2> QED BY <1>1, <1>2, <1>3, <2>1, CaresVanish
<1>4. CASE Exit(p)
  BY <1>3, <1>4 DEF Exit, At, Live, Gone, Holding
<1>5. CASE Die(p)
  BY <1>3, <1>5 DEF Die
<1>6. CASE Unwind(p)
  <2>1. wpc[p] = "taken" => Owes(p)
    BY <1>6 DEF Unwind, Owes
  <2> QED BY <1>3, <1>6, <2>1 DEF Unwind
<1>7. CASE DrainGroup(p)
  <2>1. Owes(p)
    BY <1>7 DEF DrainGroup, Owes
  <2> QED BY <1>3, <1>7, <2>1 DEF DrainGroup
<1>8. CASE EmitProcessing(p)
  <2>1. wpc[p] = "taken" /\ ~Termed(p) /\ Live(p)
    BY <1>8 DEF EmitProcessing, At, Live, Gone
  <2>2. CASE HasPeer(p)
    <3>1. /\ mail' = [mail EXCEPT ![p] = wjid[p]] /\ Goto(p, "handling")
          /\ wjid' = [wjid EXCEPT ![p] = wjid[p]] /\ UNCHANGED boundVars
      BY <1>8, <2>2 DEF EmitProcessing, Emit
    <3> QED BY <1>1, <1>2, <2>1, <2>2, <3>1, CaresEmit
  <2>3. CASE ~HasPeer(p)
    <3>1. Vanish(p) /\ mail' = mail
      BY <1>8, <2>3 DEF EmitProcessing, Emit
    <3>2. Owes(p)
      BY <2>1, <2>3, Peers DEF Owes
    <3> QED BY <1>3, <2>1, <3>1, <3>2
  <2> QED BY <2>2, <2>3
<1>9. CASE EmitOutcome(p)
  <2>1. wpc[p] = "settled" /\ ~Termed(p) /\ Live(p)
    BY <1>9 DEF EmitOutcome, At, Live, Gone
  <2>2. CASE HasPeer(p)
    <3>1. /\ mail' = [mail EXCEPT ![p] = NoJob] /\ Goto(p, "poll")
          /\ wjid' = [wjid EXCEPT ![p] = NoJob] /\ UNCHANGED boundVars
      BY <1>9, <2>2 DEF EmitOutcome, Emit
    <3> QED BY <1>1, <1>2, <2>1, <2>2, <3>1, CaresEmit
  <2>3. CASE ~HasPeer(p)
    <3>1. Vanish(p) /\ mail' = mail
      BY <1>9, <2>3 DEF EmitOutcome, Emit
    <3>2. ~Open(wjid[p])
      BY <2>1, ReportInvIs DEF Cares, SettledOK
    <3> QED BY <1>3, <2>1, <3>1, <3>2
  <2> QED BY <2>2, <2>3
<1> QED BY <1>4, <1>5, <1>6, <1>7, <1>8, <1>9

(* The watchdog's SIGKILL: what a worker that was told to end had reported *)
(* is what the supervisor knows.                                           *)
LEMMA CaresKill ==
    ASSUME IndInv, IndInv', Cares, NEW r \in Role, Kill(r)
    PROVE  Cares'
<1> USE DEF IndInv
<1>1. PICK p \in Pid : p = slot[r]
  BY DEF Kill, Alive, TypeOK, SlotTypeOK
<1>2. /\ Vanish(p) /\ UNCHANGED <<slot, known, term, mail>> /\ UNCHANGED queueVars
      /\ UNCHANGED passVars /\ UNCHANGED recVars /\ UNCHANGED boundVars
      /\ term[r] /\ Alive(r) /\ dying' = [dying EXCEPT ![r] = TRUE]
  BY <1>1 DEF Kill
<1>3. Termed(p)
  BY <1>1, <1>2 DEF Termed
<1>4. wpc[p] = "taken" => Owes(p)
  BY <1>3 DEF Owes, Live, Gone
<1>5. deaths' = deaths /\ outages' = outages /\ errors' = errors
  BY <1>2 DEF boundVars
<1> QED BY <1>1, <1>2, <1>3, <1>4, <1>5, CaresVanish

(***************************************************************************)
(* Steps of the supervisor that leave every item as it is.                 *)
(***************************************************************************)
(* Who works keeps its item.                                               *)
SameHands ==
    \A q \in Pid : wpc[q] \in Holding \/ wpc'[q] \in Holding
                       => wpc'[q] = wpc[q] /\ wjid'[q] = wjid[q]

LEMMA HandsRest ==
    ASSUME IndInv, Cares, UNCHANGED queueVars, SameHands
    PROVE  /\ Jobs' = Jobs /\ AgentsOK'
           /\ \A j : (Open(j)' <=> Open(j)) /\ Agent(j)' = Agent(j)
           /\ \A q \in Pid : SettledOK(q)'
           /\ \A j : Held(j)' <=> Held(j)
           /\ NoJob \notin Jobs /\ NoMail \notin Jobs
<1>1. Jobs' = Jobs /\ \A j : (Open(j)' <=> Open(j)) /\ Agent(j)' = Agent(j)
  BY DEF queueVars, Jobs, Open, Agent
<1>2. AgentsOK'
  BY <1>1, ReportInvIs DEF Cares, AgentsOK
<1>3. ASSUME NEW q \in Pid PROVE SettledOK(q)'
  <2>1. SettledOK(q)
    BY ReportInvIs DEF Cares
  <2> QED BY <2>1 DEF SettledOK, SameHands, Holding, Open, queueVars
<1>4. \A j : Held(j)' <=> Held(j)
  BY DEF Held, SameHands
<1>5. NoJob \notin Jobs /\ NoMail \notin Jobs
  BY QueueBasics, QueueAssumption DEF IndInv, TypeOK, JournalId, NoJob, NoMail
<1> QED BY <1>1, <1>2, <1>3, <1>4, <1>5

(* An item that is no longer awaited, if any, is the only new orphan.      *)
LEMMA LetGo ==
    ASSUME IndInv, Cares, UNCHANGED queueVars, SameHands, NEW S,
           \A r \in Role : \A j \in Jobs : Awaited(r, j) =>
               (\E q \in Role : Awaited(q, j)') \/ j \in S
    PROVE  Orphans' \subseteq Orphans \cup S
<1>1. \A j \in Jobs' : Open(j)' => Held(j)' \/ (j \in Jobs /\ Open(j))
  BY HandsRest
<1>2. \A j \in Jobs : Open(j)' /\ Held(j) =>
         Held(j)' \/ (\E r \in Role : Awaited(r, j)') \/ j \in S
  BY HandsRest
<1> QED BY <1>1, <1>2, OrphansFrom

(* An exception ends a recovery, and its item may be one that is lost.     *)
LEMMA CaresError ==
    ASSUME IndInv, TypeOK', Cares, RecoveryError
    PROVE  Cares'
<1> USE DEF IndInv
<1>1. /\ UNCHANGED queueVars /\ UNCHANGED workerVars /\ UNCHANGED mail
      /\ UNCHANGED slotVars /\ spc' = spc /\ rstep' = "idle" /\ rjid' = NoJob
      /\ outages' = outages /\ deaths' = deaths /\ errors' = errors + 1
  BY DEF RecoveryError, RecoveryEnds, passVars
<1>2. SameHands
  BY <1>1 DEF SameHands, workerVars
<1>3. /\ slot' = slot /\ known' = known /\ term' = term /\ dying' = dying
      /\ mail' = mail /\ wpc' = wpc /\ wjid' = wjid
  BY <1>1 DEF slotVars, workerVars
<1>4. \A r \in Role : Alive(r)' <=> Alive(r)
  BY <1>3 DEF Alive
<1>5. \A r \in Role : \A j \in Jobs : Awaited(r, j)' => Awaited(r, j)
  BY <1>1, <1>2, <1>3, <1>4, HandsRest DEF Awaited
<1>6. \A r \in Role : \A j \in Jobs : Awaited(r, j) => Awaited(r, j)' \/ j = rjid
  BY <1>1, <1>2, <1>3, <1>4, HandsRest DEF Awaited
<1>7. ASSUME NEW r \in Role PROVE AwaitOK(r)'
  <2>1. AwaitOK(r)
    BY AwaitInvIs DEF Cares
  <2>2. \A j \in Jobs' : Awaited(r, j)' => j \in Jobs /\ Awaited(r, j)
    BY <1>1, <1>2, <1>5, HandsRest
  <2> QED BY <1>3, <2>1, <2>2, AwaitRests DEF Live
<1>8. ASSUME NEW r \in Role PROVE SlotOK(r)'
  <2>1. SlotOK(r) /\ (Unread(r)' <=> Unread(r))
    BY <1>3, <1>4, ReportInvIs DEF Cares, Unread, NoMail
  <2>2. Awaited(r, known[r])' => Awaited(r, known[r])
    <3>1. PICK k : k = known[r]
      OBVIOUS
    <3>2. Awaited(r, k)' => Awaited(r, k)
      BY <1>1, <1>2, <1>5, HandsRest DEF Awaited
    <3> QED BY <1>3, <3>1, <3>2 DEF Awaited, Open, Agent, Alive
  <2> QED BY <1>3, <1>4, <2>1, <2>2 DEF SlotOK, NoMail
<1>9. \A q \in Pid : ReportOK(q)'
  <2>1. \A q \in Pid : ReportOK(q) /\ (HasPeer(q)' <=> HasPeer(q))
    BY <1>3, ReportInvIs DEF Cares, HasPeer
  <2> QED BY <1>3, <2>1 DEF ReportOK, NoMail
<1>10. Orphans' \subseteq Orphans \cup {rjid}
  <2>1. \A r \in Role : \A j \in Jobs : Awaited(r, j) =>
           (\E q \in Role : Awaited(q, j)') \/ j \in {rjid}
    BY <1>6
  <2> QED BY <1>1, <1>2, <2>1, LetGo
<1>11. Owing' \subseteq Owing
  BY <1>1, <1>3 DEF Owing, Owes, Live, Termed
<1>12. CountInv'
  <2>1. (deaths' - deaths) + (errors' - errors) = 1
    BY <1>1, CountersAre
  <2> QED BY <1>1, <1>10, <1>11, <2>1, CountersAre, CountOne DEF Cares
<1>13. LoopOK'
  BY <1>1 DEF LoopOK
<1> QED BY <1>1, <1>2, <1>7, <1>8, <1>9, <1>12, <1>13, HandsRest, CaresIs

(* A role whose worker and entry in agents stay as they are.               *)
LEMMA RoleRests ==
    ASSUME IndInv, Cares, UNCHANGED queueVars, SameHands, NEW r \in Role,
           slot'[r] = slot[r], known'[r] = known[r], term'[r] = term[r],
           dying'[r] = dying[r],
           slot[r] # NoPid => mail'[slot[r]] = mail[slot[r]]
                              /\ wpc'[slot[r]] = wpc[slot[r]],
           NEW n, rjid' = n, n = rjid \/ n = NoJob \/ Agent(n) # r
    PROVE  /\ AwaitOK(r)' /\ SlotOK(r)'
           /\ \A j \in Jobs : Awaited(r, j)' => Awaited(r, j)
           /\ \A j \in Jobs : Awaited(r, j) => Awaited(r, j)' \/ j = rjid
<1> USE DEF IndInv
<1>1. Alive(r)' <=> Alive(r)
  BY DEF Alive
<1>2. \A j \in Jobs : Awaited(r, j)' => Awaited(r, j)
  BY <1>1, HandsRest DEF Awaited, Alive
<1>3. \A j \in Jobs : Awaited(r, j) => Awaited(r, j)' \/ j = rjid
  BY <1>1, HandsRest DEF Awaited, Alive
<1>4. AwaitOK(r)'
  <2>1. AwaitOK(r) /\ (slot[r] # NoPid => slot[r] \in Pid)
    BY AwaitInvIs DEF Cares, TypeOK, SlotTypeOK
  <2>2. \A j \in Jobs' : Awaited(r, j)' => j \in Jobs /\ Awaited(r, j)
    BY <1>2, HandsRest
  <2>3. slot'[r] # NoPid /\ wpc'[slot'[r]] \notin Gone =>
               /\ slot'[r] = slot[r] /\ Live(slot[r])
               /\ wpc[slot[r]] \in Holding =>
                     wpc'[slot[r]] \in Holding /\ wjid'[slot[r]] = wjid[slot[r]]
    BY <2>1 DEF Live, SameHands
  <2> QED BY <2>1, <2>2, <2>3, AwaitRests
<1>5. SlotOK(r)'
  <2>1. SlotOK(r) /\ (Unread(r)' <=> Unread(r))
    BY <1>1, ReportInvIs DEF Cares, Unread, NoMail, Alive
  <2>2. Awaited(r, known[r])' => Awaited(r, known[r])
    <3>1. PICK k : k = known[r]
      OBVIOUS
    <3>2. Awaited(r, k)' => Awaited(r, k)
      BY <1>2, HandsRest DEF Awaited
    <3> QED BY <3>1, <3>2 DEF Awaited, Open, Agent, Alive
  <2>3. term'[r] /\ Alive(r)' => mail'[slot'[r]] = NoMail
    BY <1>1, <2>1 DEF SlotOK, Alive
  <2>4. Unread(r)' /\ Awaited(r, known[r])' => mail'[slot'[r]] = known'[r]
    BY <2>1, <2>2 DEF SlotOK, Unread, Alive
  <2> QED BY <2>1, <2>3, <2>4 DEF SlotOK, NoMail
<1> QED BY <1>2, <1>3, <1>4, <1>5

(* The sweep takes up a run: no worker of the old supervisor is left.      *)
LEMMA CaresSweep ==
    ASSUME IndInv, IndInv', ClosingInv, Cares, SweepOne
    PROVE  Cares'
<1> USE DEF IndInv
<1>1. /\ UNCHANGED queueVars /\ UNCHANGED workerVars /\ UNCHANGED mail
      /\ UNCHANGED slotVars /\ spc = "sweep" /\ spc' = "sweep"
      /\ UNCHANGED <<deaths, outages, errors>>
  BY DEF SweepOne, boundVars
<1>2. /\ slot' = slot /\ known' = known /\ term' = term /\ dying' = dying
      /\ mail' = mail /\ wpc' = wpc /\ wjid' = wjid
  BY <1>1 DEF slotVars, workerVars
<1>3. (\A p \in Pid : wpc[p] = "free") /\ (\A r \in Role : slot[r] = NoPid)
  <2>1. \A p \in Pid : wpc[p] = "free"
    BY <1>1 DEF ProcInv
  <2>2. \A r \in Role : slot[r] # NoPid => slot[r] \in Pid
    BY DEF TypeOK, SlotTypeOK
  <2> QED BY <2>1, <2>2 DEF ProcInv
<1>4. \A r \in Role : known[r] = NoJob /\ ~term[r] /\ ~dying[r] /\ ~Alive(r)
  BY <1>3, ReportInvIs DEF Cares, SlotOK, Alive
<1>5. SameHands
  BY <1>2 DEF SameHands
<1>6. PICK n : n = rjid'
  OBVIOUS
<1>7. n \in Jobs
  BY <1>1, <1>5, <1>6, HandsRest DEF SweepOne, RecoveryInv
<1>8. \A r \in Role : \A j \in Jobs : Awaited(r, j)' => j = n /\ Agent(n) = r
  BY <1>1, <1>2, <1>3, <1>4, <1>5, <1>6, HandsRest DEF Awaited, Alive
<1>9. ASSUME NEW r \in Role PROVE AwaitOK(r)' /\ SlotOK(r)'
  <2>1. AwaitOK(r)'
    BY <1>1, <1>2, <1>3, <1>5, <1>8, HandsRest DEF AwaitOK
  <2>2. SlotOK(r)'
    BY <1>2, <1>3, <1>4 DEF SlotOK, Unread, Alive
  <2> QED BY <2>1, <2>2
<1>10. \A q \in Pid : ReportOK(q)'
  BY <1>2, <1>3 DEF ReportOK, Holding
<1>11. Orphans' \subseteq Orphans
  <2>1. rjid = NoJob
    BY DEF SweepOne, ClosingInv
  <2>2. \A r \in Role : \A j \in Jobs : ~Awaited(r, j)
    BY <1>1, <1>4, <1>5, <2>1, HandsRest DEF Awaited
  <2>3. Orphans' \subseteq Orphans \cup {}
    BY <1>1, <1>5, <2>2, LetGo
  <2> QED BY <2>3
<1>12. Owing' \subseteq Owing
  BY <1>2, <1>3 DEF Owing, Owes, Live, Gone
<1>13. CountInv'
  <2>1. deaths' >= deaths /\ errors' >= errors /\ outages' = outages
    BY <1>1, CountersAre
  <2> QED BY <1>11, <1>12, <2>1, CountQuiet DEF Cares
<1>14. LoopOK'
  BY <1>1 DEF LoopOK
<1> QED BY <1>1, <1>5, <1>9, <1>10, <1>13, <1>14, HandsRest, CaresIs

(* A supervisor that ends in order leaves no worker behind.                *)
LEMMA CaresStopDone ==
    ASSUME IndInv, TypeOK', Cares, StopDone
    PROVE  Cares'
<1> USE DEF IndInv
<1>1. /\ UNCHANGED queueVars /\ UNCHANGED workerVars /\ UNCHANGED mail
      /\ UNCHANGED slotVars /\ rjid' = rjid /\ rstep' = "idle" /\ spc = "stopping"
      /\ UNCHANGED <<deaths, outages, errors>>
  BY DEF StopDone, boundVars, recVars
<1>2. /\ slot' = slot /\ known' = known /\ term' = term /\ dying' = dying
      /\ mail' = mail /\ wpc' = wpc /\ wjid' = wjid
  BY <1>1 DEF slotVars, workerVars
<1>3. SameHands
  BY <1>2 DEF SameHands
<1>4. ASSUME NEW r \in Role
      PROVE  /\ AwaitOK(r)' /\ SlotOK(r)'
             /\ \A j \in Jobs : Awaited(r, j) => Awaited(r, j)'
  <2>1. AwaitOK(r)' /\ SlotOK(r)'
    BY <1>1, <1>2, <1>3, RoleRests
  <2>2. \A j \in Jobs : Awaited(r, j) => Awaited(r, j)'
    BY <1>1, <1>2, <1>3, HandsRest DEF Awaited, Alive
  <2> QED BY <2>1, <2>2
<1>5. \A q \in Pid : ReportOK(q)'
  <2>1. \A q \in Pid : ReportOK(q) /\ (HasPeer(q)' <=> HasPeer(q))
    BY <1>2, ReportInvIs DEF Cares, HasPeer
  <2> QED BY <1>2, <2>1 DEF ReportOK, NoMail
<1>6. Orphans' \subseteq Orphans
  <2>1. Orphans' \subseteq Orphans \cup {}
    BY <1>1, <1>3, <1>4, LetGo
  <2> QED BY <2>1
<1>7. Owing' \subseteq Owing
  <2>1. ASSUME NEW q \in Pid, Live(q) PROVE FALSE
    <3>1. RoleOf[q] \in Role /\ slot[RoleOf[q]] = q /\ q # NoPid
      BY <1>1, <2>1, Peers, SupervisorAssumption
    <3> QED BY <3>1 DEF StopDone
  <2> QED BY <1>2, <2>1 DEF Owing, Owes, Live
<1>8. CountInv'
  <2>1. deaths' >= deaths /\ errors' >= errors /\ outages' = outages
    BY <1>1, CountersAre
  <2> QED BY <1>6, <1>7, <2>1, CountQuiet DEF Cares
<1>9. LoopOK'
  BY <1>1 DEF LoopOK
<1> QED BY <1>1, <1>3, <1>4, <1>5, <1>8, <1>9, HandsRest, CaresIs

(* A new worker: the supervisor knows nothing of it yet.                   *)
LEMMA CaresSpawn ==
    ASSUME IndInv, TypeOK', ClosingInv, Cares, NEW r \in Role, NEW p \in Pid, Spawn(r, p)
    PROVE  Cares'
<1> USE DEF IndInv
<1>1. /\ UNCHANGED queueVars /\ rjid' = rjid /\ rstep' = rstep /\ spc' = spc
      /\ spc = "spawn" /\ wjid' = wjid /\ UNCHANGED <<deaths, outages, errors>>
      /\ known' = known /\ term' = term /\ dying' = dying
      /\ slot[r] = NoPid /\ wpc[p] = "free" /\ RoleOf[p] = r
  BY DEF Spawn, boundVars, recVars, passVars
<1>2. /\ wpc'[p] = "poll" /\ mail'[p] = NoMail /\ slot'[r] = p /\ p # NoPid
      /\ \A q \in Pid : q # p => wpc'[q] = wpc[q] /\ mail'[q] = mail[q]
      /\ \A q \in Role : q # r => slot'[q] = slot[q]
  BY SupervisorAssumption DEF Spawn, Goto, TypeOK, WorkerTypeOK, SlotTypeOK
<1>3. SameHands
  BY <1>1, <1>2 DEF SameHands, Holding
<1>4. rstep = "idle" /\ rjid = NoJob
  BY <1>1, ReportInvIs DEF Cares, LoopOK, ClosingInv
<1>5. known[r] = NoJob /\ ~term[r] /\ ~dying[r]
  BY <1>1, ReportInvIs DEF Cares, SlotOK
<1>6. \A q \in Role : slot[q] # p
  BY <1>1, <1>2 DEF ProcInv
<1>7. \A j \in Jobs : ~Awaited(r, j) /\ ~Awaited(r, j)'
  BY <1>1, <1>2, <1>3, <1>4, <1>5, HandsRest DEF Awaited, Alive
<1>8. AwaitOK(r)' /\ SlotOK(r)'
  <2>1. AwaitOK(r)'
    BY <1>1, <1>3, <1>7, HandsRest DEF AwaitOK
  <2>2. SlotOK(r)'
    BY <1>1, <1>2, <1>5 DEF SlotOK, Unread, Alive, NoMail
  <2> QED BY <2>1, <2>2
<1>9. ASSUME NEW q \in Role, q # r
      PROVE  /\ AwaitOK(q)' /\ SlotOK(q)'
             /\ \A j \in Jobs : Awaited(q, j) => Awaited(q, j)' \/ j = rjid
  <2>1. slot[q] # NoPid => slot[q] \in Pid /\ slot[q] # p
    BY <1>6 DEF TypeOK, SlotTypeOK
  <2>2. slot'[q] = slot[q] /\ (slot[q] # NoPid => mail'[slot[q]] = mail[slot[q]]
                                                 /\ wpc'[slot[q]] = wpc[slot[q]])
    BY <1>2, <1>9, <2>1
  <2> QED BY <1>1, <1>3, <2>2, RoleRests
<1>10. ASSUME NEW q \in Pid PROVE ReportOK(q)'
  <2>1. CASE q = p
    BY <1>2, <2>1 DEF ReportOK, Holding
  <2>2. CASE q # p
    <3>1. HasPeer(q)' => HasPeer(q)
      BY <1>2, <2>2 DEF HasPeer
    <3>2. ReportOK(q)
      BY ReportInvIs DEF Cares
    <3> QED BY <1>1, <1>2, <2>2, <3>1, <3>2 DEF ReportOK, NoMail
  <2> QED BY <2>1, <2>2
<1>11. Orphans' \subseteq Orphans
  <2>1. \A q \in Role : \A j \in Jobs : Awaited(q, j) => \E s \in Role : Awaited(s, j)'
    BY <1>3, <1>4, <1>7, <1>9, HandsRest, <1>1
  <2>2. Orphans' \subseteq Orphans \cup {}
    BY <1>1, <1>3, <2>1, LetGo
  <2> QED BY <2>2
<1>12. Owing' \subseteq Owing
  <2> SUFFICES ASSUME NEW q \in Pid, Owes(q)' PROVE Owes(q)
    BY DEF Owing
  <2>1. PICK s \in Role : slot'[s] = q /\ term'[s]
    BY <1>1 DEF Owes, Termed
  <2>2. s # r /\ slot[s] = q /\ q # p
    BY <1>1, <1>2, <1>5, <1>6, <2>1
  <2> QED BY <1>1, <1>2, <2>1, <2>2 DEF Owes, Live, Termed
<1>13. CountInv'
  <2>1. deaths' >= deaths /\ errors' >= errors /\ outages' = outages
    BY <1>1, CountersAre
  <2> QED BY <1>11, <1>12, <2>1, CountQuiet DEF Cares
<1>14. LoopOK'
  BY <1>1, <1>4 DEF LoopOK
<1> QED BY <1>1, <1>3, <1>8, <1>9, <1>10, <1>13, <1>14, HandsRest, CaresIs

(* Reading the sockets: what a worker has reported is now known, and what  *)
(* was known and is still open is what it reported.                        *)
LEMMA CaresRecv ==
    ASSUME IndInv, TypeOK', ClosingInv, Cares, Recv
    PROVE  Cares'
<1> USE DEF IndInv
<1>1. /\ UNCHANGED queueVars /\ UNCHANGED workerVars /\ slot' = slot /\ term' = term
      /\ rjid' = rjid /\ rstep' = rstep /\ spc = "recv" /\ spc' = "watch"
      /\ UNCHANGED <<deaths, outages, errors>> /\ wpc' = wpc /\ wjid' = wjid
  BY DEF Recv, boundVars, recVars, workerVars
<1>2. SameHands
  BY <1>1 DEF SameHands
<1>3. rstep = "idle" /\ rjid = NoJob
  BY <1>1, ReportInvIs DEF Cares, LoopOK, ClosingInv
<1>4. ASSUME NEW r \in Role
      PROVE  /\ known'[r] = IF Unread(r) THEN mail[slot[r]] ELSE known[r]
             /\ Alive(r)' => Alive(r)
             /\ dying'[r] => dying[r] \/ (Alive(r) /\ wpc[slot[r]] = "zombie")
             /\ slot[r] # NoPid => slot[r] \in Pid
  BY <1>1 DEF Recv, Alive, TypeOK, SlotTypeOK
<1>5. ASSUME NEW p \in Pid
      PROVE  /\ Unread(RoleOf[p]) /\ slot[RoleOf[p]] = p => mail'[p] = NoMail
             /\ mail'[p] = NoMail \/ mail'[p] = mail[p]
             /\ mail[p] = NoMail => mail'[p] = NoMail
  BY Peers DEF Recv
<1>6. ASSUME NEW r \in Role, Alive(r) PROVE mail'[slot[r]] = NoMail
  <2>1. slot[r] \in Pid /\ RoleOf[slot[r]] = r
    BY <1>4, <1>6 DEF Alive, ProcInv
  <2>2. CASE Unread(r)
    BY <1>5, <2>1, <2>2
  <2>3. CASE ~Unread(r)
    BY <1>5, <1>6, <2>1, <2>3 DEF Unread
  <2> QED BY <2>2, <2>3
<1>7. ASSUME NEW r \in Role, NEW j \in Jobs PROVE Awaited(r, j)' <=> Awaited(r, j)
  <2>1. Awaited(r, j)' <=> Open(j) /\ known'[r] = j
    BY <1>1, <1>2, <1>3, <1>4, <1>6, HandsRest DEF Awaited
  <2>2. Awaited(r, j) <=> Open(j) /\ (known[r] = j \/ (Alive(r) /\ mail[slot[r]] = j))
    BY <1>1, <1>2, <1>3, HandsRest DEF Awaited
  <2>3. CASE ~Unread(r)
    BY <1>1, <1>2, <1>4, <2>1, <2>2, <2>3, HandsRest DEF Unread
  <2>4. CASE Unread(r)
    <3>1. Awaited(r, j) /\ known[r] = j => mail[slot[r]] = j
      BY <2>4, ReportInvIs DEF Cares, SlotOK
    <3> QED BY <1>4, <2>1, <2>2, <2>4, <3>1 DEF Unread
  <2> QED BY <2>3, <2>4
<1>8. ASSUME NEW r \in Role PROVE AwaitOK(r)'
  <2>1. AwaitOK(r)
    BY AwaitInvIs DEF Cares
  <2>2. \A j \in Jobs' : Awaited(r, j)' => j \in Jobs /\ Awaited(r, j)
    BY <1>1, <1>2, <1>7, HandsRest
  <2> QED BY <1>1, <2>1, <2>2, AwaitRests DEF Live
<1>9. ASSUME NEW r \in Role PROVE SlotOK(r)'
  <2>1. SlotOK(r)
    BY ReportInvIs DEF Cares
  <2>2. slot'[r] = NoPid => known'[r] = NoJob /\ ~term'[r]
    BY <1>1, <1>4, <2>1 DEF SlotOK, Unread, Alive
  <2>3. dying'[r] => slot'[r] # NoPid /\ wpc'[slot'[r]] = "zombie"
    BY <1>1, <1>4, <2>1 DEF SlotOK, Alive
  <2>4. Alive(r)' => mail'[slot'[r]] = NoMail
    BY <1>1, <1>4, <1>6
  <2> QED BY <2>2, <2>3, <2>4 DEF SlotOK, Unread, NoMail
<1>10. ASSUME NEW p \in Pid PROVE ReportOK(p)'
  <2> SUFFICES ASSUME HasPeer(p), wpc[p] \in Holding \ {"taken"}
               PROVE  mail'[p] = NoMail /\ known'[RoleOf[p]] = wjid[p]
    BY <1>1 DEF ReportOK, HasPeer, NoMail
  <2>1. PICK r0 \in Role : r0 = RoleOf[p]
    BY Peers
  <2>2. slot[r0] = p
    BY <2>1, Peers
  <2>3. Alive(r0)
    <3>1. ~dying[r0]
      BY <2>2, ReportInvIs DEF Cares, SlotOK, Holding
    <3> QED BY <2>2, <3>1, SupervisorAssumption DEF Alive
  <2>4. mail'[p] = NoMail
    BY <1>6, <2>2, <2>3
  <2>5. mail[p] = wjid[p] \/ (mail[p] = NoMail /\ known[r0] = wjid[p])
    BY <2>1, ReportInvIs DEF Cares, ReportOK
  <2>6. wjid[p] # NoMail
    BY <1>1, <1>2, HandsRest DEF HoldInv, JobOf
  <2>7. known'[r0] = wjid[p]
    BY <1>4, <2>2, <2>3, <2>5, <2>6 DEF Unread
  <2> QED BY <2>1, <2>4, <2>7
<1>11. Orphans' \subseteq Orphans
  <2>1. Orphans' \subseteq Orphans \cup {}
    BY <1>1, <1>2, <1>7, LetGo
  <2> QED BY <2>1
<1>12. Owing' \subseteq Owing
  BY <1>1 DEF Owing, Owes, Live, Termed
<1>13. CountInv'
  <2>1. deaths' >= deaths /\ errors' >= errors /\ outages' = outages
    BY <1>1, CountersAre
  <2> QED BY <1>11, <1>12, <2>1, CountQuiet DEF Cares
<1>14. LoopOK'
  BY <1>1, <1>3 DEF LoopOK
<1> QED BY <1>1, <1>2, <1>8, <1>9, <1>10, <1>13, <1>14, HandsRest, CaresIs

(* The reaping of a worker takes up what it was known to work on.          *)
LEMMA CaresRecover ==
    ASSUME IndInv, TypeOK', ClosingInv, Cares, NEW r \in Role, Recover(r)
    PROVE  Cares'
<1> USE DEF IndInv
<1>1. PICK k : k = known[r]
  OBVIOUS
<1>2. /\ UNCHANGED queueVars /\ UNCHANGED workerVars /\ mail' = mail /\ slot' = slot
      /\ term' = term /\ dying' = dying /\ spc' = spc /\ rjid' = k
      /\ spc \in {"reap", "stopping"} /\ rstep = "idle" /\ k # NoJob
      /\ slot[r] # NoPid /\ dying[r] /\ wpc[slot[r]] = "zombie"
      /\ wpc' = wpc /\ wjid' = wjid /\ UNCHANGED <<deaths, outages, errors>>
  BY <1>1 DEF Recover, Reapable, boundVars, passVars, workerVars
<1>3. known'[r] = NoJob /\ \A q \in Role : q # r => known'[q] = known[q]
  BY DEF Recover, TypeOK, SlotTypeOK
<1>4. SameHands
  BY <1>2 DEF SameHands
<1>5. rjid = NoJob
  BY <1>2 DEF ClosingInv
<1>6. k \in Jobs /\ Agent(k) = r
  BY <1>1, <1>2 DEF HoldInv, JobOf
<1>7. ~Alive(r) /\ ~Alive(r)'
  BY <1>2 DEF Alive
<1>8. ASSUME NEW j \in Jobs PROVE Awaited(r, j)' <=> Awaited(r, j)
  <2>1. Awaited(r, j)' <=> Open(j) /\ k = j
    BY <1>2, <1>3, <1>4, <1>6, <1>7, HandsRest DEF Awaited
  <2>2. Awaited(r, j) <=> Open(j) /\ k = j
    BY <1>1, <1>2, <1>4, <1>5, <1>7, HandsRest DEF Awaited
  <2> QED BY <2>1, <2>2
<1>9. AwaitOK(r)'
  <2>1. AwaitOK(r)
    BY AwaitInvIs DEF Cares
  <2>2. \A j \in Jobs' : Awaited(r, j)' => j \in Jobs /\ Awaited(r, j)
    BY <1>2, <1>4, <1>8, HandsRest
  <2> QED BY <1>2, <2>1, <2>2, AwaitRests DEF Live
<1>10. SlotOK(r)'
  BY <1>2, <1>7 DEF SlotOK, Unread
<1>11. ASSUME NEW q \in Role, q # r
       PROVE  /\ AwaitOK(q)' /\ SlotOK(q)'
              /\ \A j \in Jobs : Awaited(q, j) => Awaited(q, j)' \/ j = rjid
  BY <1>2, <1>3, <1>4, <1>6, <1>11, RoleRests
<1>12. ASSUME NEW p \in Pid PROVE ReportOK(p)'
  <2>1. ReportOK(p) /\ (HasPeer(p)' <=> HasPeer(p))
    BY <1>2, ReportInvIs DEF Cares, HasPeer
  <2>2. HasPeer(p) /\ wpc[p] \in Holding => RoleOf[p] \in Role /\ RoleOf[p] # r
    BY <1>2, Peers DEF Holding
  <2> QED BY <1>2, <1>3, <2>1, <2>2 DEF ReportOK, NoMail
<1>13. Orphans' \subseteq Orphans
  <2>1. \A q \in Role : \A j \in Jobs : Awaited(q, j) => \E s \in Role : Awaited(s, j)'
    BY <1>2, <1>4, <1>5, <1>8, <1>11, HandsRest
  <2>2. Orphans' \subseteq Orphans \cup {}
    BY <1>2, <1>4, <2>1, LetGo
  <2> QED BY <2>2
<1>14. Owing' \subseteq Owing
  BY <1>2 DEF Owing, Owes, Live, Termed
<1>15. CountInv'
  <2>1. deaths' >= deaths /\ errors' >= errors /\ outages' = outages
    BY <1>2, CountersAre
  <2> QED BY <1>13, <1>14, <2>1, CountQuiet DEF Cares
<1>16. LoopOK'
  BY <1>2 DEF LoopOK
<1> QED BY <1>2, <1>4, <1>9, <1>10, <1>11, <1>12, <1>15, <1>16, HandsRest, CaresIs

(* A dead worker leaves agents once nothing is known of it any more.       *)
LEMMA CaresForget ==
    ASSUME IndInv, TypeOK', ClosingInv, Cares, NEW r \in Role, Forget(r)
    PROVE  Cares'
<1> USE DEF IndInv
<1>1. PICK p \in Pid : p = slot[r]
  BY DEF Forget, Reapable, TypeOK, SlotTypeOK
<1>2. /\ UNCHANGED queueVars /\ known' = known /\ spc' = spc /\ rjid' = rjid
      /\ rstep' = rstep /\ rstep = "idle" /\ wjid' = wjid
      /\ known[r] = NoJob /\ dying[r] /\ wpc[p] = "zombie" /\ slot[r] = p
      /\ spc \in {"reap", "stopping"} /\ UNCHANGED <<deaths, outages, errors>>
  BY <1>1 DEF Forget, Reapable, boundVars, passVars, recVars
<1>3. /\ wpc'[p] = "free" /\ mail'[p] = NoMail
      /\ \A q \in Pid : q # p => wpc'[q] = wpc[q] /\ mail'[q] = mail[q]
  BY <1>1 DEF Forget, Goto, TypeOK, WorkerTypeOK
<1>4. /\ slot'[r] = NoPid /\ ~term'[r] /\ ~dying'[r]
      /\ \A q \in Role : q # r => /\ slot'[q] = slot[q] /\ term'[q] = term[q]
                                  /\ dying'[q] = dying[q]
  BY DEF Forget, TypeOK, SlotTypeOK
<1>5. SameHands
  BY <1>2, <1>3 DEF SameHands, Holding
<1>6. rjid = NoJob
  BY <1>2 DEF ClosingInv
<1>7. \A q \in Role : slot[q] = p => q = r
  BY <1>2, Peers
<1>8. \A j \in Jobs : ~Awaited(r, j) /\ ~Awaited(r, j)'
  BY <1>2, <1>4, <1>5, <1>6, HandsRest DEF Awaited, Alive
<1>9. AwaitOK(r)' /\ SlotOK(r)'
  <2>1. AwaitOK(r)'
    BY <1>2, <1>5, <1>8, HandsRest DEF AwaitOK
  <2>2. SlotOK(r)'
    BY <1>2, <1>4 DEF SlotOK, Unread, Alive
  <2> QED BY <2>1, <2>2
<1>10. ASSUME NEW q \in Role, q # r
       PROVE  /\ AwaitOK(q)' /\ SlotOK(q)'
              /\ \A j \in Jobs : Awaited(q, j) => Awaited(q, j)' \/ j = rjid
  <2>1. slot[q] # NoPid => slot[q] \in Pid /\ slot[q] # p
    BY <1>7, <1>10 DEF TypeOK, SlotTypeOK
  <2>2. slot[q] # NoPid => mail'[slot[q]] = mail[slot[q]] /\ wpc'[slot[q]] = wpc[slot[q]]
    BY <1>3, <2>1
  <2> QED BY <1>2, <1>4, <1>5, <1>10, <2>2, RoleRests
<1>11. ASSUME NEW q \in Pid PROVE ReportOK(q)'
  <2>1. CASE q = p
    BY <1>3, <2>1 DEF ReportOK, Holding
  <2>2. CASE q # p
    <3>1. HasPeer(q)' => HasPeer(q)
      BY <1>4, SupervisorAssumption DEF HasPeer
    <3>2. ReportOK(q)
      BY ReportInvIs DEF Cares
    <3> QED BY <1>2, <1>3, <2>2, <3>1, <3>2 DEF ReportOK, NoMail
  <2> QED BY <2>1, <2>2
<1>12. Orphans' \subseteq Orphans
  <2>1. \A q \in Role : \A j \in Jobs : Awaited(q, j) => \E s \in Role : Awaited(s, j)'
    BY <1>2, <1>5, <1>6, <1>8, <1>10, HandsRest
  <2>2. Orphans' \subseteq Orphans \cup {}
    BY <1>2, <1>5, <2>1, LetGo
  <2> QED BY <2>2
<1>13. Owing' \subseteq Owing
  <2> SUFFICES ASSUME NEW q \in Pid, Owes(q)' PROVE Owes(q)
    BY DEF Owing
  <2>1. PICK s \in Role : slot'[s] = q /\ term'[s]
    BY <1>2 DEF Owes, Termed
  <2>2. s # r /\ slot[s] = q /\ term[s] /\ q # p
    BY <1>4, <1>7, <2>1
  <2> QED BY <1>2, <1>3, <2>2 DEF Owes, Live, Termed
<1>14. CountInv'
  <2>1. deaths' >= deaths /\ errors' >= errors /\ outages' = outages
    BY <1>2, CountersAre
  <2> QED BY <1>12, <1>13, <2>1, CountQuiet DEF Cares
<1>15. LoopOK'
  BY <1>2 DEF LoopOK
<1> QED BY <1>2, <1>5, <1>9, <1>10, <1>11, <1>14, <1>15, HandsRest, CaresIs

(* SIGTERM: a worker that has reported nothing yet may now take an item    *)
(* that it will never report; a silent one that is not frozen has been     *)
(* counted as a death.                                                     *)
LEMMA CaresTerminate ==
    ASSUME IndInv, TypeOK', Cares, NEW r \in Role, Terminate(r)
    PROVE  Cares'
<1> USE DEF IndInv
<1>1. PICK p \in Pid : p = slot[r]
  BY DEF Terminate, Alive, TypeOK, SlotTypeOK
<1>2. /\ UNCHANGED queueVars /\ UNCHANGED workerVars /\ mail' = mail /\ slot' = slot
      /\ known' = known /\ dying' = dying /\ spc' = spc /\ rjid' = rjid
      /\ rstep' = rstep /\ wpc' = wpc /\ wjid' = wjid /\ spc # "down"
      /\ Alive(r) /\ mail[p] = NoMail /\ wpc[p] \in Silent
      /\ outages' = outages /\ errors' = errors
  BY <1>1 DEF Terminate, passVars, recVars, workerVars, Silent
<1>3. term'[r] /\ \A q \in Role : q # r => term'[q] = term[q]
  BY DEF Terminate, TypeOK, SlotTypeOK
<1>4. SameHands
  BY <1>2 DEF SameHands
<1>5. \A q \in Role : \A j \in Jobs : Awaited(q, j)' <=> Awaited(q, j)
  BY <1>2, <1>4, HandsRest DEF Awaited, Alive
<1>6. AwaitOK(r)'
  <2>1. AwaitOK(r)
    BY AwaitInvIs DEF Cares
  <2>2. \A j \in Jobs' : Awaited(r, j)' => j \in Jobs /\ Awaited(r, j)
    BY <1>2, <1>4, <1>5, HandsRest
  <2> QED BY <1>2, <2>1, <2>2, AwaitRests DEF Live
<1>7. SlotOK(r)'
  <2>1. slot[r] # NoPid /\ ~dying[r]
    BY <1>2 DEF Alive
  <2> QED BY <1>1, <1>2, <2>1 DEF SlotOK, Unread, NoMail
<1>8. ASSUME NEW q \in Role, q # r PROVE AwaitOK(q)' /\ SlotOK(q)'
  BY <1>2, <1>3, <1>4, <1>8, RoleRests
<1>9. \A q \in Pid : ReportOK(q)'
  <2>1. \A q \in Pid : ReportOK(q) /\ (HasPeer(q)' <=> HasPeer(q))
    BY <1>2, ReportInvIs DEF Cares, HasPeer
  <2> QED BY <1>2, <2>1 DEF ReportOK, NoMail
<1>10. Orphans' \subseteq Orphans
  <2>1. Orphans' \subseteq Orphans \cup {}
    BY <1>2, <1>4, <1>5, LetGo
  <2> QED BY <2>1
<1>11. ASSUME NEW q \in Pid, Owes(q)'
       PROVE  Owes(q) \/ (q = p /\ wpc[p] \in {"poll", "picked", "taken"})
  <2>1. PICK s \in Role : slot[s] = q /\ term'[s]
    BY <1>2, <1>11 DEF Owes, Termed
  <2>2. CASE s = r
    BY <1>1, <1>2, <1>11, <2>1, <2>2 DEF Owes
  <2>3. CASE s # r
    BY <1>2, <1>3, <1>11, <2>1, <2>3 DEF Owes, Live, Termed
  <2> QED BY <2>2, <2>3
<1>12. RoleOf[p] = r
  BY <1>1, Peers
<1>13. Owing' \subseteq Owing \cup {r}
  BY <1>11, <1>12 DEF Owing
<1>14. CASE deaths' = deaths + 1
  <2>1. CountInv'
    BY <1>2, <1>10, <1>13, <1>14, CountOwed DEF Cares
  <2> QED BY <1>2, <1>4, <1>6, <1>7, <1>8, <1>9, <2>1, HandsRest, CaresIs, ReportInvIs
      DEF Cares, LoopOK
<1>15. CASE deaths' = deaths /\ wpc[p] = "hung"
  <2>1. Owing' \subseteq Owing
    BY <1>11, <1>15 DEF Owing
  <2>2. deaths' >= deaths /\ errors' >= errors
    BY <1>2, <1>15, CountersAre
  <2>3. CountInv'
    BY <1>2, <1>10, <2>1, <2>2, CountQuiet DEF Cares
  <2> QED BY <1>2, <1>4, <1>6, <1>7, <1>8, <1>9, <2>3, HandsRest, CaresIs, ReportInvIs
      DEF Cares, LoopOK
<1> QED BY <1>1, <1>14, <1>15 DEF Terminate

(* What a supervisor is responsible for: one open item per role.           *)
LEMMA OnePerRole ==
    ASSUME IndInv, Cares, spc # "down", NEW j \in Jobs, NEW k \in Jobs,
           Held(j) \/ \E r \in Role : Awaited(r, j),
           Held(k) \/ \E r \in Role : Awaited(r, k),
           Agent(j) = Agent(k)
    PROVE  j = k
<1> USE DEF IndInv
<1>1. ASSUME NEW i, Held(i)
      PROVE  \E p \in Pid : /\ wpc[p] \in Holding /\ wjid[p] = i /\ Live(p)
                            /\ Agent(i) = RoleOf[p] /\ RoleOf[p] \in Role
                            /\ slot[RoleOf[p]] = p /\ p # NoPid
  <2>1. PICK p \in Pid : wpc[p] \in Holding /\ wjid[p] = i
    BY <1>1 DEF Held
  <2>2. Live(p)
    BY <2>1 DEF Live, Gone, Holding
  <2> QED BY <2>1, <2>2, Peers, SupervisorAssumption DEF HoldInv, JobOf
<1>2. ASSUME NEW r \in Role, NEW i \in Jobs, NEW l \in Jobs, Awaited(r, i), Held(l),
             Agent(i) = Agent(l)
      PROVE  i = l
  <2>1. PICK p \in Pid : /\ wpc[p] \in Holding /\ wjid[p] = l /\ Live(p)
                         /\ Agent(l) = RoleOf[p] /\ RoleOf[p] \in Role
                         /\ slot[RoleOf[p]] = p /\ p # NoPid
    BY <1>1, <1>2
  <2>2. Agent(i) = r
    BY <1>2, AwaitedIsOwn
  <2>3. slot[r] = p
    BY <1>2, <2>1, <2>2
  <2>4. AwaitOK(r)
    BY AwaitInvIs DEF Cares
  <2> QED BY <1>2, <2>1, <2>3, <2>4 DEF AwaitOK
<1>3. CASE Held(j) /\ Held(k)
  <2>1. PICK p \in Pid : wjid[p] = j /\ Agent(j) = RoleOf[p] /\ slot[RoleOf[p]] = p
    BY <1>1, <1>3
  <2>2. PICK q \in Pid : wjid[q] = k /\ Agent(k) = RoleOf[q] /\ slot[RoleOf[q]] = q
    BY <1>1, <1>3
  <2> QED BY <2>1, <2>2
<1>4. ASSUME NEW r \in Role, Awaited(r, j), NEW q \in Role, Awaited(q, k) PROVE j = k
  <2>1. Agent(j) = r /\ Agent(k) = q
    BY <1>4, AwaitedIsOwn
  <2>2. AwaitOK(r)
    BY AwaitInvIs DEF Cares
  <2> QED BY <1>4, <2>1, <2>2 DEF AwaitOK
<1> QED BY <1>2, <1>3, <1>4

(* An orderly end: every worker is killed, and what the supervisor had not *)
(* yet read of is lost, one item per role.                                 *)
LEMMA CaresStop ==
    ASSUME IndInv, IndInv', ClosingInv, Cares, Stop
    PROVE  Cares'
<1> USE DEF IndInv
<1>1. /\ UNCHANGED queueVars /\ mail' = mail /\ slot' = slot /\ known' = known
      /\ term' = term /\ rjid' = rjid /\ rstep' = rstep
      /\ spc = "fetch" /\ spc' = "stopping"
      /\ outages' = outages + 1 /\ deaths' = deaths /\ errors' = errors
  BY DEF Stop, recVars
<1>2. [Next]_vars
  BY DEF Next, Environment
<1>3. nextJournal' = nextJournal /\ Grows
  BY <1>1, <1>2, StepGrows DEF queueVars
<1>4. rstep = "idle" /\ rjid = NoJob
  BY <1>1, ReportInvIs DEF Cares, LoopOK, ClosingInv
<1>5. ASSUME NEW p \in Pid
      PROVE  /\ wpc'[p] \in Gone
             /\ HasPeer(p) => wpc'[p] = "zombie"
  <2>1. wpc'[p] = IF HasPeer(p) THEN "zombie" ELSE wpc[p]
    BY DEF Stop
  <2>2. ~HasPeer(p) => ~Live(p)
    BY <1>1, Peers
  <2> QED BY <2>1, <2>2 DEF Gone, Live
<1>6. Jobs' = Jobs /\ \A j : (Open(j)' <=> Open(j)) /\ Agent(j)' = Agent(j)
  BY <1>1 DEF queueVars, Jobs, Open, Agent
<1>7. ASSUME NEW r \in Role
      PROVE  ~Alive(r)' /\ (dying'[r] <=> slot[r] # NoPid)
  BY <1>1 DEF Stop, Alive
<1>8. NoJob \notin Jobs
  BY QueueBasics, QueueAssumption DEF TypeOK, JournalId, NoJob
<1>9. \A r \in Role : \A j \in Jobs : Awaited(r, j)' => Awaited(r, j)
  BY <1>1, <1>4, <1>6, <1>7, <1>8 DEF Awaited
<1>10. ASSUME NEW r \in Role PROVE AwaitOK(r)' /\ SlotOK(r)'
  <2>1. AwaitOK(r) /\ SlotOK(r) /\ (slot[r] # NoPid => slot[r] \in Pid)
    BY AwaitInvIs, ReportInvIs DEF Cares, TypeOK, SlotTypeOK
  <2>2. AwaitOK(r)'
    BY <1>1, <1>5, <1>6, <1>9, <2>1 DEF AwaitOK, Live
  <2>3. slot[r] # NoPid => HasPeer(slot[r])
    BY DEF HasPeer
  <2>4. SlotOK(r)'
    BY <1>1, <1>5, <1>7, <2>1, <2>3 DEF SlotOK, Unread
  <2> QED BY <2>2, <2>4
<1>11. \A q \in Pid : ReportOK(q)' /\ SettledOK(q)'
  BY <1>5 DEF ReportOK, SettledOK, Gone, Holding
<1>12. PICK S : S = {j \in Jobs : Held(j) \/ \E r \in Role : Awaited(r, j)}
  OBVIOUS
<1>13. Orphans' \subseteq Orphans \cup S
  <2>1. \A j \in Jobs' : Open(j)' => Held(j)' \/ (j \in Jobs /\ Open(j))
    BY <1>6
  <2>2. \A j \in Jobs : Held(j) => j \in S
    BY <1>12
  <2>3. \A j \in Jobs : \A r \in Role : Awaited(r, j) => j \in S
    BY <1>12
  <2> QED BY <2>1, <2>2, <2>3, OrphansFrom
<1>14. Owing' = {}
  BY <1>5 DEF Owing, Owes, Live
<1>15. \A j \in S : Agent(j) \in Role \ Owing'
  BY <1>12, <1>14, ReportInvIs DEF Cares, AgentsOK
<1>16. \A j, k \in S : Agent(j) = Agent(k) => j = k
  BY <1>1, <1>12, OnePerRole
<1>17. CountInv'
  BY <1>1, <1>3, <1>12, <1>13, <1>15, <1>16, CountOutage DEF Cares
<1>18. AgentsOK' /\ LoopOK'
  BY <1>1, <1>4, <1>6, ReportInvIs DEF Cares, AgentsOK, LoopOK
<1> QED BY <1>10, <1>11, <1>17, <1>18, CaresIs

(* Any other end: the workers live on, each owing its item, and what was   *)
(* awaited of those already gone is lost, one item per role.               *)
LEMMA CaresCrash ==
    ASSUME IndInv, IndInv', Cares, Crash
    PROVE  Cares'
<1> USE DEF IndInv
<1>1. /\ UNCHANGED queueVars /\ spc # "down" /\ rstep' = "idle" /\ rjid' = NoJob
      /\ wjid' = wjid
      /\ outages' = outages + 1 /\ deaths' = deaths /\ errors' = errors
  BY DEF Crash, RecoveryEnds
<1>2. [Next]_vars
  BY DEF Next, Environment
<1>3. Grows
  BY <1>2, StepGrows
<1>4. /\ \A r \in Role : slot'[r] = NoPid /\ known'[r] = NoJob /\ ~term'[r] /\ ~dying'[r]
      /\ \A p \in Pid : wpc'[p] = IF wpc[p] = "zombie" THEN "free" ELSE wpc[p]
  BY DEF Crash
<1>5. SameHands
  BY <1>1, <1>4 DEF SameHands, Holding
<1>6. \A r \in Role : \A j \in Jobs : ~Awaited(r, j)'
  BY <1>1, <1>4, <1>5, HandsRest DEF Awaited, Alive
<1>7. ASSUME NEW r \in Role PROVE AwaitOK(r)' /\ SlotOK(r)'
  <2>1. AwaitOK(r)'
    BY <1>1, <1>5, <1>6, HandsRest DEF AwaitOK
  <2>2. SlotOK(r)'
    BY <1>4 DEF SlotOK, Unread, Alive
  <2> QED BY <2>1, <2>2
<1>8. ASSUME NEW p \in Pid PROVE ReportOK(p)'
  <2>1. ~HasPeer(p)'
    BY <1>4, SupervisorAssumption DEF HasPeer
  <2> QED BY <2>1 DEF ReportOK
<1>9. PICK S : S = {j \in Jobs : ~Held(j) /\ \E r \in Role : Awaited(r, j)}
  OBVIOUS
<1>10. Orphans' \subseteq Orphans \cup S
  <2>1. \A j \in Jobs' : Open(j)' => Held(j)' \/ (j \in Jobs /\ Open(j))
    BY <1>1, <1>5, HandsRest
  <2>2. \A j \in Jobs : Held(j) => Held(j)'
    BY <1>1, <1>5, HandsRest
  <2>3. \A j \in Jobs : \A r \in Role : Awaited(r, j) => Held(j)' \/ j \in S
    BY <1>1, <1>5, <1>9, HandsRest
  <2> QED BY <2>1, <2>2, <2>3, OrphansFrom
<1>11. ASSUME NEW j \in S PROVE Agent(j) \in Role \ Owing'
  <2>1. PICK r \in Role : Awaited(r, j)
    BY <1>9, <1>11
  <2>2. j \in Jobs /\ Agent(j) = r /\ ~Held(j)
    BY <1>9, <1>11, <2>1, AwaitedIsOwn
  <2>3. ASSUME NEW p \in Pid, RoleOf[p] = r, Live(p)' PROVE FALSE
    <3>1. Live(p)
      BY <1>4, <2>3 DEF Live, Gone
    <3>2. slot[r] = p /\ p # NoPid
      BY <1>1, <2>3, <3>1, Peers, SupervisorAssumption
    <3>3. AwaitOK(r)
      BY AwaitInvIs DEF Cares
    <3>4. wpc[p] \in Holding /\ wjid[p] = j
      BY <2>1, <2>2, <3>1, <3>2, <3>3 DEF AwaitOK
    <3> QED BY <2>2, <3>4 DEF Held
  <2>4. r \notin Owing'
    BY <2>3 DEF Owing, Owes
  <2> QED BY <2>2, <2>4
<1>12. \A j, k \in S : Agent(j) = Agent(k) => j = k
  BY <1>1, <1>9, OnePerRole
<1>13. CountInv'
  <2>1. S \subseteq Jobs
    BY <1>9
  <2> QED BY <1>1, <1>3, <1>10, <1>11, <1>12, <2>1, CountOutage DEF Cares
<1>14. LoopOK'
  BY <1>1 DEF LoopOK
<1> QED BY <1>1, <1>5, <1>7, <1>8, <1>13, <1>14, HandsRest, CaresIs

LEMMA CaresInit == Init => Cares
<1> SUFFICES ASSUME Init PROVE Cares
  OBVIOUS
<1>1. /\ Jobs = {} /\ rstep = "idle" /\ \A p \in Pid : wpc[p] = "free"
      /\ \A r \in Role : slot[r] = NoPid /\ known[r] = NoJob /\ ~term[r] /\ ~dying[r]
  BY DEF Init, QueueInit, Jobs
<1>2. ReportInv
  <2>1. \A r \in Role : ~Unread(r)
    BY <1>1 DEF Unread, Alive
  <2> QED BY <1>1, <2>1 DEF ReportInv, Holding
<1>3. AwaitInv
  BY <1>1 DEF AwaitInv
<1>4. Orphans = {} /\ Owing = {}
  BY <1>1 DEF Orphans, Owing, Owes, Live, Gone
<1>5. CountInv
  <2>1. Cardinality(Role) \in Nat
    BY FS_CardinalityType, SupervisorAssumption
  <2>2. Cardinality({}) = 0
    BY FS_EmptySet
  <2>3. deaths = 0 /\ errors = 0 /\ outages = 0
    BY DEF Init
  <2>4. PICK c \in Nat : c = Cardinality(Role)
    BY <2>1
  <2>5. c * 0 = 0
    BY <2>4
  <2> QED BY <1>4, <2>2, <2>3, <2>4, <2>5 DEF CountInv
<1> QED BY <1>2, <1>3, <1>5 DEF Cares

LEMMA CaresStep ==
    ASSUME IndInv, IndInv', ClosingInv, Cares, [Next]_vars
    PROVE  Cares'
<1>1. TypeOK'
  BY DEF IndInv
<1>2. CASE UNCHANGED vars
  BY <1>1, <1>2, CaresPasses
<1>3. CASE Environment
  <2>1. ASSUME NEW p \in Pid, Hang(p) \/ Die(p) \/ Unwind(p) \/ DrainGroup(p) PROVE Cares'
    BY <1>1, <2>1, CaresMoves, CaresEnds
  <2>2. CASE \E t \in Turns : Submit(t)
    BY <1>1, <2>2, CaresPasses
  <2>3. CASE RecoveryError \/ Stop \/ Crash
    BY <1>1, <2>3, CaresError, CaresStop, CaresCrash
  <2> QED BY <1>3, <2>1, <2>2, <2>3 DEF Environment
<1>4. ASSUME NEW p \in Pid, Worker(p) PROVE Cares'
  <2>1. CASE Take(p)
    BY <2>1, CaresTake
  <2>2. CASE Exit(p) \/ EmitProcessing(p) \/ EmitOutcome(p)
    BY <2>2, CaresEnds
  <2>3. CASE \/ Poll(p) \/ StartRun(p)
             \/ (\E s \in {"finished", "failed"} : FinishRun(p, s))
             \/ PostFailure(p) \/ RequestSummary(p) \/ (\E o \in Terminal : Settle(p, o))
    BY <1>1, <2>3, CaresMoves
  <2> QED BY <1>4, <2>1, <2>2, <2>3 DEF Worker
<1>5. CASE Pass
  <2>1. CASE SweepOne \/ StopDone \/ Recv
    BY <1>1, <2>1, CaresSweep, CaresStopDone, CaresRecv
  <2>2. ASSUME NEW r \in Role, Recover(r) \/ Forget(r) PROVE Cares'
    BY <1>1, <2>2, CaresRecover, CaresForget
  <2>3. ASSUME NEW r \in Role, NEW p \in Pid, Spawn(r, p) PROVE Cares'
    BY <1>1, <2>3, CaresSpawn
  <2>4. CASE \/ Start \/ SweepDone \/ Fetch \/ SendEnvelope \/ Stamp \/ SpawnDone
             \/ WatchDone \/ ReapDone \/ Recovery
    BY <1>1, <2>4, CaresPasses
  <2> QED BY <1>5, <2>1, <2>2, <2>3, <2>4 DEF Pass
<1>6. ASSUME NEW r \in Role, Terminate(r) \/ Kill(r) PROVE Cares'
  BY <1>1, <1>6, CaresTerminate, CaresKill
<1> QED BY <1>2, <1>3, <1>4, <1>5, <1>6 DEF Next

(***************************************************************************)
(* The theorems.                                                           *)
(***************************************************************************)
LEMMA ClosedRunsStay ==
    ASSUME IndInv, RunInv, [Next]_vars, NEW j \in JournalId, run[j] \in Closed
    PROVE  run'[j] = run[j]
<1>1. ASSUME NEW p \in Pid, NEW s, run' = [run EXCEPT ![wjid[p]] = s],
             run[wjid[p]] \notin Closed
      PROVE  run'[j] = run[j]
  BY <1>1 DEF IndInv, TypeOK, RunTypeOK
<1>2. ASSUME NEW p \in Pid, Worker(p) PROVE run'[j] = run[j]
  <2>1. CASE StartRun(p)
    <3>1. run[wjid[p]] = "none"
      BY <2>1 DEF StartRun, At, RunInv
    <3> QED BY <1>1, <2>1, <3>1 DEF StartRun, Closed
  <2>2. ASSUME NEW s \in {"finished", "failed"}, FinishRun(p, s) PROVE run'[j] = run[j]
    <3>1. run[wjid[p]] = "running"
      BY <2>2 DEF FinishRun, At, RunInv
    <3> QED BY <1>1, <2>2, <3>1 DEF FinishRun, Closed
  <2>3. CASE ~StartRun(p) /\ ~(\E s \in {"finished", "failed"} : FinishRun(p, s))
    BY <1>2, <2>3 DEF Worker, Poll, Exit, Take, EmitProcessing, EmitOutcome,
       PostFailure, RequestSummary, Settle, runVars
  <2> QED BY <2>1, <2>2, <2>3
<1>3. CASE Recovery
  <2>1. CASE KillRun
    <3>1. run[rjid] = "running" /\ run' = [run EXCEPT ![rjid] = "killed"]
      BY <2>1 DEF KillRun, RecoveryStep, RunInv
    <3> QED BY <3>1 DEF Closed, IndInv, TypeOK, RunTypeOK
  <2>2. CASE ~KillRun
    BY <1>3, <2>2 DEF Recovery, LookUpRun, CheckJournal, FailJournal, PostKilledNotice,
       OrderSummary, runVars
  <2> QED BY <2>1, <2>2
<1>4. CASE Pass /\ ~Recovery
  BY <1>4 DEF Pass, Start, SweepOne, SweepDone, Fetch, SendEnvelope, Stamp, Spawn,
     SpawnDone, Recv, WatchDone, Recover, Forget, ReapDone, StopDone, runVars
<1>5. CASE Environment
  BY <1>5 DEF Environment, Submit, Hang, Die, Unwind, DrainGroup, RecoveryError, Stop,
     Crash, runVars
<1>6. ASSUME NEW r \in Role, Terminate(r) \/ Kill(r) PROVE run'[j] = run[j]
  BY <1>6 DEF Terminate, Kill, runVars
<1>7. CASE UNCHANGED vars
  BY <1>7 DEF vars, runVars
<1> QED BY <1>2, <1>3, <1>4, <1>5, <1>6, <1>7 DEF Next

LEMMA FullInit == Init => FullInv
BY InvInit, ClosingInit, SentInit, RunInit, CaresInit DEF FullInv, Cares

LEMMA FullStep == Managed /\ FullInv /\ [Next]_vars => FullInv'
<1> SUFFICES ASSUME Managed, FullInv, [Next]_vars PROVE FullInv'
  OBVIOUS
<1>1. IndInv' /\ TypeOK'
  <2>1. IndInv'
    BY InvStep DEF FullInv
  <2> QED BY <2>1 DEF IndInv
<1>2. ClosingInv' /\ SentInv' /\ RunInv'
  BY <1>1, ClosingStep, SentStep, RunStep DEF FullInv
<1>3. Cares'
  BY <1>1, CaresStep DEF FullInv, Cares
<1> QED BY <1>1, <1>2, <1>3 DEF FullInv, Cares

(* The whole strengthening, for every number of roles, processes, rows and *)
(* faults: what TLC checks of FullInv on one instance.                     *)
THEOREM InvariantHolds ==
    ASSUME Managed
    PROVE  Spec => []FullInv
BY FullInit, FullStep, PTL DEF Spec

(* Killing a run leaves its journal row closed and its room told, unless   *)
(* the recovery was cut short (recover_interrupted_assistant_run).         *)
THEOREM KilledRunsAreClosed ==
    ASSUME Managed
    PROVE  Spec => []KilledRunIsClosed
<1>1. FullInv => KilledRunIsClosed
  BY DEF FullInv, ClosingInv
<1> QED BY <1>1, FullInit, FullStep, PTL DEF Spec

(* No wake-up is lost to a restart between envelope and stamp, and none is *)
(* doubled but by one (the routing pass of core.py).                       *)
THEOREM StampsAreSent ==
    ASSUME Managed
    PROVE  Spec => []StampMeansSent
<1>1. FullInv => StampMeansSent
  <2> SUFFICES ASSUME FullInv, NEW j \in Jobs
               PROVE  /\ journal[j].routed /\ journal[j].back # NoRole
                           => EnvelopesOf(j) # {}
                      /\ Cardinality(EnvelopesOf(j)) <= 1 + outages
    BY DEF StampMeansSent
  <2>1. j \in JournalId
    BY QueueBasics DEF FullInv, IndInv, TypeOK
  <2>2. outages \in Nat /\ Cardinality(EnvelopesOf(j)) \in Nat
    BY CountersGrow, EnvelopesFinite DEF FullInv, IndInv
  <2> QED BY <2>1, <2>2 DEF FullInv, SentInv
<1> QED BY <1>1, FullInit, FullStep, PTL DEF Spec

(* No outage, no double: the only way to a second envelope is a supervisor *)
(* that ends between sending the first and stamping its row (core.py).     *)
THEOREM RoutedOnceUnlessCutShort ==
    ASSUME Managed
    PROVE  Spec => [](outages = 0 => RoutedAtMostOnce)
<1>1. FullInv => (outages = 0 => RoutedAtMostOnce)
  <2> SUFFICES ASSUME FullInv, outages = 0, NEW j \in Jobs
               PROVE  Cardinality(EnvelopesOf(j)) <= 1
    BY DEF RoutedAtMostOnce
  <2>1. j \in JournalId
    BY QueueBasics DEF FullInv, IndInv, TypeOK
  <2>2. Cardinality(EnvelopesOf(j)) \in Nat
    BY EnvelopesFinite DEF FullInv, IndInv
  <2> QED BY <2>1, <2>2 DEF FullInv, SentInv
<1> QED BY <1>1, FullInit, FullStep, PTL DEF Spec

(* A run is summarised once, by its worker or by the recovery that killed  *)
(* it, and only after it is closed (finish_run's callers in assistant.py   *)
(* and db/assistant.py).                                                   *)
THEOREM SummariesOnce ==
    ASSUME Managed
    PROVE  Spec => []SummarizedOnce
<1>1. FullInv => SummarizedOnce
  BY DEF FullInv, RunInv
<1> QED BY <1>1, FullInit, FullStep, PTL DEF Spec

(* Work nobody will end: at most one item for each worker that died or was *)
(* terminated for its silence, one for each recovery that raised, and one  *)
(* per role for each end of a supervisor.                                  *)
THEOREM OrphansCounted ==
    ASSUME Managed
    PROVE  Spec => []OrphansAreCounted
<1>1. FullInv => OrphansAreCounted
  <2> SUFFICES ASSUME FullInv PROVE OrphansAreCounted
    OBVIOUS
  <2>1. Cardinality(Orphans) \in Nat /\ Cardinality(Owing) \in Nat
    BY OrphansFinite DEF FullInv, IndInv
  <2>2. Cardinality(Orphans) + Cardinality(Owing) <= Paid /\ Paid \in Nat
    <3>1. Cardinality(Role) \in Nat
      BY OrphansFinite DEF FullInv, IndInv
    <3>2. deaths \in Nat /\ errors \in Nat /\ outages \in Nat
      BY CountersAre DEF FullInv, IndInv
    <3>3. PICK c \in Nat : c = Cardinality(Role)
      BY <3>1
    <3>4. c * outages \in Nat
      BY <3>2
    <3> QED BY <3>2, <3>3, <3>4, Counted DEF FullInv, Paid
  <2> QED BY <2>1, <2>2 DEF OrphansAreCounted, Paid
<1> QED BY <1>1, FullInit, FullStep, PTL DEF Spec

(* And so with nothing lost there is none: every open item is a worker's,  *)
(* or is about to be recovered.                                            *)
THEOREM NoOrphanWithoutLoss ==
    ASSUME Managed
    PROVE  Spec => [](deaths = 0 /\ errors = 0 /\ outages = 0 => Orphans = {})
<1>1. OrphansAreCounted /\ TypeOK
        => (deaths = 0 /\ errors = 0 /\ outages = 0 => Orphans = {})
  <2> SUFFICES ASSUME OrphansAreCounted, TypeOK, deaths = 0, errors = 0, outages = 0
               PROVE  Orphans = {}
    OBVIOUS
  <2>1. PICK c \in Nat : c = Cardinality(Role)
    BY OrphansFinite
  <2>2. c * 0 = 0
    BY <2>1
  <2>3. Cardinality(Orphans) = 0 /\ IsFiniteSet(Orphans)
    BY <2>1, <2>2, OrphansFinite DEF OrphansAreCounted
  <2> QED BY <2>3, FS_EmptySet
<1>2. Spec => []OrphansAreCounted
  BY OrphansCounted
<1>3. FullInv => TypeOK
  BY DEF FullInv, IndInv
<1> QED BY <1>1, <1>2, <1>3, FullInit, FullStep, PTL DEF Spec

(* An outcome stands: no recovery, retry or late worker rewrites a journal *)
(* row that has ended, and a closed run is not closed again.               *)
THEOREM OutcomesAreFinal ==
    ASSUME Managed
    PROVE  Spec => OutcomesStand
<1>1. FullInv /\ [Next]_vars =>
        [\A j \in JournalId :
            /\ journal[j].state \in Terminal => journal'[j].state = journal[j].state
            /\ run[j] \in Closed => run'[j] = run[j]]_vars
  <2> SUFFICES ASSUME FullInv, [Next]_vars, NEW j \in JournalId
               PROVE  /\ journal[j].state \in Terminal
                            => journal'[j].state = journal[j].state
                      /\ run[j] \in Closed => run'[j] = run[j]
    OBVIOUS
  <2>1. IndInv /\ RunInv
    BY DEF FullInv
  <2> QED BY <2>1, TerminalsStay, ClosedRunsStay
<1> QED BY <1>1, FullInit, FullStep, PTL DEF Spec, OutcomesStand

===============================================================================
