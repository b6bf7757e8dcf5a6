----------------------------- MODULE QueueProofs -----------------------------
(***************************************************************************)
(* Lemmas about the operations of the queue (db/queue.py), cited by the    *)
(* proofs about the modules that run them.                                 *)
(***************************************************************************)
EXTENDS Queue, WellFoundedInduction, TLAPS

(* A non-empty set of ids has an oldest one, and Oldest is it.             *)
LEMMA OldestIsLeast ==
    ASSUME NEW S, S \subseteq Nat, S # {}
    PROVE  Oldest(S) \in S /\ \A k \in S : Oldest(S) <= k
<1>1. PICK i \in S : \A k \in S : ~ (<<k, i>> \in OpToRel(<, Nat))
  BY NatLessThanWellFounded, WFMin
<1>2. \A k \in S : k < i => <<k, i>> \in OpToRel(<, Nat)
  BY DEF OpToRel
<1>3. ASSUME NEW k \in S PROVE i <= k
  <2>1. ~ (k < i)
    BY <1>1, <1>2
  <2> QED BY <2>1
<1> QED BY <1>3 DEF Oldest

LEMMA OldestJob ==
    ASSUME NEW S \in SUBSET JournalId, S # {}
    PROVE  Oldest(S) \in S
<1>1. S \subseteq Nat
  BY QueueAssumption DEF JournalId
<1> QED BY <1>1, OldestIsLeast

(* The row a take_item reads is in the inbox and for the agent that reads. *)
LEMMA OldestPending ==
    ASSUME QueueTypeOK, NEW agent, Pending(agent) # {}
    PROVE  /\ Oldest(Pending(agent)) \in inbox
           /\ rows[Oldest(Pending(agent))].to = agent
<1>1. inbox \subseteq RowId /\ RowId \subseteq Nat
  <2>1. inbox \subseteq RowId
    BY DEF QueueTypeOK
  <2>2. RowId \subseteq Nat
    BY QueueAssumption DEF RowId
  <2> QED BY <2>1, <2>2
<1>2. Pending(agent) \subseteq inbox
  BY DEF Pending
<1>3. Oldest(Pending(agent)) \in Pending(agent)
  BY <1>1, <1>2, OldestIsLeast
<1> QED BY <1>3 DEF Pending

LEMMA QueueInitType == QueueInit => QueueTypeOK
BY QueueAssumption
   DEF QueueInit, QueueTypeOK, RowId, JournalId, Row, Entry, NoRow, NoEntry

LEMMA QueueFrame == QueueTypeOK /\ UNCHANGED queueVars => QueueTypeOK'
BY DEF QueueTypeOK, queueVars

(* Each operation keeps the queue well typed.                              *)
LEMMA EnqueueType ==
    ASSUME QueueTypeOK, NEW r \in Row, Enqueue(r)
    PROVE  QueueTypeOK'
<1>1. nextRow' \in 1..(MaxRows + 1) /\ inbox' \in SUBSET RowId
  BY QueueAssumption DEF QueueTypeOK, Enqueue, RowId
<1>2. rows' \in [RowId -> Row]
  BY DEF QueueTypeOK, Enqueue
<1> QED BY <1>1, <1>2 DEF QueueTypeOK, Enqueue

LEMMA TakeItemType ==
    ASSUME QueueTypeOK, NEW i \in 0..MaxRows, TakeItem(i)
    PROVE  QueueTypeOK'
<1>1. nextJournal' \in 1..(MaxJournal + 1)
  BY QueueAssumption DEF QueueTypeOK, TakeItem, JournalId
<1>2. inbox' \in SUBSET RowId
  BY DEF QueueTypeOK, TakeItem
<1>3. journal' \in [JournalId -> Entry]
  <2>1. [row |-> i, state |-> "processing", back |-> NoRole,
         routed |-> FALSE] \in Entry
    BY DEF Entry
  <2> QED BY <2>1 DEF QueueTypeOK, TakeItem
<1> QED BY <1>1, <1>2, <1>3 DEF QueueTypeOK, TakeItem

LEMMA JournalUpdateType ==
    ASSUME QueueTypeOK, NEW j, NEW state \in Terminal,
           NEW back \in Role \cup {NoRole}, JournalUpdate(j, state, back)
    PROVE  QueueTypeOK'
<1>1. journal' \in [JournalId -> Entry]
  BY DEF QueueTypeOK, JournalUpdate, Entry
<1> QED BY <1>1 DEF QueueTypeOK, JournalUpdate

LEMMA MarkRoutedType ==
    ASSUME QueueTypeOK, NEW j, MarkRouted(j)
    PROVE  QueueTypeOK'
<1>1. journal' \in [JournalId -> Entry]
  BY DEF QueueTypeOK, MarkRouted, Entry
<1> QED BY <1>1 DEF QueueTypeOK, MarkRouted

(* The rows the operations insert are rows.                                *)
LEMMA RowTypes ==
    ASSUME NEW to \in Role \cup {NoRole}, NEW ret \in Role \cup {NoRole},
           NEW j \in 0..MaxJournal
    PROVE  /\ Turn(to, ret) \in Row
           /\ Envelope(to, j) \in Row
           /\ SummaryOrder(to, j) \in Row
BY QueueAssumption DEF Turn, Envelope, SummaryOrder, Row

(***************************************************************************)
(* No row is lost or handed out twice: each operation keeps QueueInv, on   *)
(* the conditions its callers have to meet.                                *)
(***************************************************************************)

(* Journal rows are never removed, and keep the row they stand for.        *)
Grows ==
    /\ Jobs \subseteq Jobs'
    /\ \A i \in Rows : i \in Rows' /\ rows'[i] = rows[i]
    /\ \A j \in Jobs : journal'[j].row = journal[j].row

SameStates == \A j \in Jobs : journal'[j].state = journal[j].state

LEMMA QueueBasics ==
    ASSUME QueueTypeOK
    PROVE  /\ Rows \subseteq RowId /\ Jobs \subseteq JournalId
           /\ nextRow \in Nat \ {0} /\ nextJournal \in Nat \ {0}
           /\ nextRow \notin Rows /\ nextJournal \notin Jobs
BY QueueAssumption DEF QueueTypeOK, Rows, Jobs, RowId, JournalId

LEMMA QueueInitInv == QueueInit => QueueInv
BY QueueAssumption DEF QueueInit, QueueInv, Rows, Jobs, JournalId, NoEntry

LEMMA QueueFrameInv ==
    ASSUME QueueTypeOK, QueueInv, UNCHANGED queueVars
    PROVE  QueueInv' /\ Grows /\ SameStates
BY DEF QueueInv, Grows, SameStates, queueVars, Rows, Jobs

LEMMA EnqueueInv ==
    ASSUME QueueTypeOK, QueueInv, NEW r \in Row, Enqueue(r)
    PROVE  QueueInv' /\ Grows /\ SameStates /\ inbox \subseteq inbox'
<1>1. /\ nextRow \in RowId /\ nextRow' = nextRow + 1
      /\ inbox' = inbox \cup {nextRow}
      /\ journal' = journal /\ nextJournal' = nextJournal
  BY DEF Enqueue
<1>2. Rows' = Rows \cup {nextRow} /\ Jobs' = Jobs
  BY <1>1, QueueBasics DEF Rows, Jobs
<1>3. \A i \in Rows : rows'[i] = rows[i]
  BY QueueBasics DEF Enqueue, QueueTypeOK
<1>4. Rows' \ inbox' = Rows \ inbox
  BY <1>1, <1>2, QueueBasics DEF QueueInv
<1>5. QueueInv'
  BY <1>1, <1>2, <1>4 DEF QueueInv
<1> QED BY <1>1, <1>2, <1>3, <1>5 DEF Grows, SameStates

LEMMA TakeItemInv ==
    ASSUME QueueTypeOK, QueueInv, NEW i \in inbox, TakeItem(i)
    PROVE  /\ QueueInv' /\ Grows /\ SameStates
           /\ nextJournal \in Jobs' /\ inbox' = inbox \ {i}
           /\ journal'[nextJournal].row = i
           /\ journal'[nextJournal].state = "processing"
<1>1. /\ nextJournal \in JournalId /\ nextJournal' = nextJournal + 1
      /\ inbox' = inbox \ {i} /\ rows' = rows /\ nextRow' = nextRow
  BY DEF TakeItem
<1>2. Rows' = Rows /\ Jobs' = Jobs \cup {nextJournal}
  BY <1>1, QueueBasics DEF Rows, Jobs
<1>3. /\ journal'[nextJournal].row = i
      /\ journal'[nextJournal].state = "processing"
      /\ \A j \in JournalId : j # nextJournal => journal'[j] = journal[j]
  BY <1>1 DEF TakeItem, QueueTypeOK
<1>4. \A j \in Jobs : j \in JournalId /\ j # nextJournal /\ journal'[j] = journal[j]
  BY <1>3, QueueBasics
<1>5. i \in Rows
  BY DEF QueueInv
<1>6. Rows' \ inbox' = (Rows \ inbox) \cup {i}
  BY <1>1, <1>2, <1>5
<1>7. QueueInv'
  <2>1. inbox' \subseteq Rows'
    BY <1>1, <1>2 DEF QueueInv
  <2>2. ASSUME NEW j \in JournalId PROVE j \in Jobs' <=> journal'[j].state # "none"
    BY <1>2, <1>3, <2>2 DEF QueueInv
  <2>3. \A j \in Jobs' : journal'[j].row \in Rows' \ inbox'
    BY <1>2, <1>3, <1>4, <1>6 DEF QueueInv
  <2>4. ASSUME NEW j \in Jobs', NEW k \in Jobs', journal'[j].row = journal'[k].row
        PROVE  j = k
    <3>1. \A n \in Jobs : journal'[n].row # i
      BY <1>4 DEF QueueInv
    <3> QED BY <1>2, <1>3, <1>4, <2>4, <3>1 DEF QueueInv
  <2>5. ASSUME NEW n \in Rows' \ inbox' PROVE \E j \in Jobs' : journal'[j].row = n
    <3>1. CASE n = i
      BY <1>2, <1>3, <3>1
    <3>2. CASE n \in Rows \ inbox
      BY <1>2, <1>4, <3>2 DEF QueueInv
    <3> QED BY <1>6, <3>1, <3>2
  <2> QED BY <2>1, <2>2, <2>3, <2>4, <2>5 DEF QueueInv
<1> QED BY <1>1, <1>2, <1>3, <1>4, <1>7 DEF Grows, SameStates

LEMMA JournalUpdateInv ==
    ASSUME QueueTypeOK, QueueInv, NEW j \in Jobs, NEW state \in Terminal, NEW back,
           JournalUpdate(j, state, back)
    PROVE  /\ QueueInv' /\ Grows /\ inbox' = inbox
           /\ journal'[j].state = state
           /\ \A k \in JournalId : k # j => journal'[k] = journal[k]
<1>1. /\ UNCHANGED <<rows, nextRow, inbox, nextJournal>>
      /\ Rows' = Rows /\ Jobs' = Jobs
  BY DEF JournalUpdate, Rows, Jobs
<1>2. j \in JournalId
  BY QueueBasics
<1>3. journal'[j].state = state /\ journal'[j].row = journal[j].row
  BY <1>2 DEF JournalUpdate, QueueTypeOK, Entry
<1>4. \A k \in JournalId : k # j => journal'[k] = journal[k]
  BY <1>2 DEF JournalUpdate, QueueTypeOK, Entry
<1>5. \A k \in Jobs : k \in JournalId /\ journal'[k].row = journal[k].row
  BY <1>3, <1>4, QueueBasics
<1>6. \A k \in JournalId : k \in Jobs' <=> journal'[k].state # "none"
  BY <1>1, <1>3, <1>4 DEF QueueInv, Terminal
<1>7. QueueInv'
  BY <1>1, <1>5, <1>6 DEF QueueInv
<1> QED BY <1>1, <1>3, <1>4, <1>5, <1>7 DEF Grows

LEMMA MarkRoutedInv ==
    ASSUME QueueTypeOK, QueueInv, NEW j, MarkRouted(j)
    PROVE  QueueInv' /\ Grows /\ SameStates /\ inbox' = inbox
<1>1. /\ UNCHANGED <<rows, nextRow, inbox, nextJournal>>
      /\ Rows' = Rows /\ Jobs' = Jobs
  BY DEF MarkRouted, Rows, Jobs
<1>2. \A k \in JournalId : journal'[k].row = journal[k].row
                           /\ journal'[k].state = journal[k].state
  BY DEF MarkRouted, QueueTypeOK, Entry
<1>3. Jobs \subseteq JournalId
  BY QueueBasics
<1>4. QueueInv'
  BY <1>1, <1>2, <1>3 DEF QueueInv
<1> QED BY <1>1, <1>2, <1>3, <1>4 DEF Grows, SameStates

(* A journal row never changes hands.                                      *)
LEMMA JobStays ==
    ASSUME QueueInv, Grows, NEW j, NEW r, JobOf(j, r)
    PROVE  JobOf(j, r)'
BY DEF QueueInv, Grows, JobOf, Agent

=============================================================================
