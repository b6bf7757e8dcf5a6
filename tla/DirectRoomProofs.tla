-------------------------- MODULE DirectRoomProofs ---------------------------
(***************************************************************************)
(* A direct room, for any number of sends, presses of Stop and deaths: no  *)
(* turn is lost or doubled, a press covers every queued turn it read and   *)
(* lets at most one deleted turn run, a blinking cursor has its worker,    *)
(* and the turns implement the ledger.                                     *)
(***************************************************************************)
EXTENDS DirectRoom, QueueProofs, FiniteSetTheorems

LEMMA InitType == Init => TypeOK
<1> SUFFICES ASSUME Init PROVE TypeOK
  OBVIOUS
<1>1. QueueTypeOK
  BY QueueInitType DEF Init
<1>2. /\ 0 \in 0..MaxRows /\ 0 \in 0..MaxJournal
      /\ 0 \in 0..MaxPresses /\ 0 \in 0..MaxFaults
  BY QueueAssumption, DirectRoomAssumption
<1> QED BY <1>1, <1>2 DEF Init, TypeOK, NoJob, On

LEMMA TypeStep == TypeOK /\ WorkInv /\ [Next]_vars => TypeOK'
<1> SUFFICES ASSUME TypeOK, WorkInv, [Next]_vars PROVE TypeOK'
  OBVIOUS
<1>a. QueueTypeOK /\ (UNCHANGED queueVars => QueueTypeOK')
  BY QueueFrame DEF TypeOK
<1>b. /\ Processing \subseteq JournalId
      /\ JournalId \subseteq 0..MaxJournal /\ RowId \subseteq 0..MaxRows
  BY QueueAssumption DEF Processing, JournalId, RowId
<1>d. 0 \in 0..MaxRows /\ 0 \in 0..MaxJournal
  BY QueueAssumption
<1>c. {"failed", "stopped"} \subseteq Terminal /\ "completed" \in Terminal
  BY DEF Terminal
<1> USE DEF TypeOK, On, workerVars, pressVars, roomVars, faultVars
<1>1. CASE Send
  <2>1. QueueTypeOK'
    BY <1>1, <1>a, RowTypes, EnqueueType, DirectRoomAssumption
    DEF Send, Turn, Row
  <2> QED BY <1>1, <2>1 DEF Send
<1>2. CASE PostBubble
  BY <1>2, <1>a DEF PostBubble
<1>3. CASE ReadInbox
  BY <1>3, <1>a, DirectRoomAssumption DEF ReadInbox, Pending, QueueTypeOK
<1>4. CASE Cancel
  BY <1>4, <1>b DEF Cancel, QueueTypeOK
<1>5. CASE SettleRows
  BY <1>5, <1>a DEF SettleRows
<1>6. CASE StopNotice
  BY <1>6, <1>a DEF StopNotice
<1>7. CASE Spawn
  BY <1>7, <1>a DEF Spawn
<1>8. CASE Poll
  <2>1. Pending(DirectChat) # {} => Oldest(Pending(DirectChat)) \in RowId
    BY <1>a, OldestPending DEF QueueTypeOK
  <2> QED BY <1>8, <1>a, <1>b, <2>1 DEF Poll
<1>9. CASE Take
  <2>1. QueueTypeOK'
    BY <1>9, <1>a, TakeItemType DEF Take
  <2>2. nextJournal \in JournalId
    BY <1>9 DEF Take, TakeItem
  <2> QED BY <1>9, <1>b, <2>1, <2>2 DEF Take
<1>10. CASE Report
  BY <1>10, <1>a DEF Report
<1>11. CASE Flush
  BY <1>11, <1>a DEF Flush
<1>12. CASE Finish
  BY <1>12, <1>a, <1>c DEF Finish, Settled
<1>13. ASSUME NEW o \in {"failed", "stopped"}, Cut(o) PROVE TypeOK'
  BY <1>13, <1>a, <1>c, DirectRoomAssumption DEF Cut, Settled
<1>20. CASE Refuse
  BY <1>20, <1>a, <1>c DEF Refuse
<1>14. CASE PostNotice
  BY <1>14, <1>a DEF PostNotice
<1>15. CASE Journal
  <2>1. out \in Terminal
    BY <1>15 DEF Journal, WorkInv
  <2>2. QueueTypeOK'
    BY <1>15, <1>a, <2>1, JournalUpdateType DEF Journal
  <2> QED BY <1>15, <1>d, <2>2 DEF Journal, NoJob
<1>16. CASE Die
  BY <1>16, <1>a, <1>d, DirectRoomAssumption DEF Die, Vanish, NoJob
<1>17. CASE Outage
  BY <1>17, <1>a, <1>d, DirectRoomAssumption DEF Outage, Vanish, NoJob
<1>18. CASE Recover
  <2>1. QueueTypeOK'
    BY <1>18, <1>a, <1>c, JournalUpdateType DEF Recover
  <2> QED BY <1>18, <1>d, <2>1 DEF Recover, NoJob
<1>19. CASE UNCHANGED vars
  BY <1>19, <1>a DEF vars
<1> QED
  BY <1>1, <1>2, <1>3, <1>4, <1>5, <1>6, <1>7, <1>8, <1>9, <1>10, <1>11, <1>12,
     <1>13, <1>14, <1>15, <1>16, <1>17, <1>18, <1>19, <1>20
  DEF Next, Press, Worker

(***************************************************************************)
(* The turns: what each queue operation and a press do to TurnInv.         *)
(***************************************************************************)
LEMMA SendTurns ==
    ASSUME TypeOK, TurnInv, NEW r, Enqueue(r), UNCHANGED <<seen, dropped>>
    PROVE  /\ TurnInv' /\ Jobs' = Jobs /\ journal' = journal
           /\ Rows \subseteq Rows' /\ inbox \subseteq inbox'
<1>1. /\ nextRow' = nextRow + 1 /\ inbox' = inbox \cup {nextRow}
      /\ UNCHANGED <<journal, nextJournal>>
  BY DEF Enqueue
<1>2. QueueTypeOK
  BY DEF TypeOK
<1>3. Rows' = Rows \cup {nextRow} /\ nextRow \notin Rows /\ Jobs' = Jobs
  BY <1>1, <1>2, QueueBasics DEF Rows, Jobs
<1>4. Rows' \ inbox' = Rows \ inbox
  BY <1>1, <1>3 DEF TurnInv
<1>5. TurnInv'
  BY <1>1, <1>3, <1>4 DEF TurnInv
<1> QED BY <1>1, <1>3, <1>5

LEMMA TakeTurns ==
    ASSUME TypeOK, TurnInv, NEW i \in inbox \cup dropped,
           \A j \in Jobs : journal[j].row # i,
           TakeItem(i), UNCHANGED <<seen, dropped>>
    PROVE  /\ TurnInv' /\ Jobs' = Jobs \cup {nextJournal}
           /\ nextJournal \in JournalId /\ nextJournal \notin Jobs
           /\ journal'[nextJournal].state = "processing"
           /\ \A j \in JournalId : j # nextJournal => journal'[j] = journal[j]
<1>1. /\ nextJournal \in JournalId /\ nextJournal' = nextJournal + 1
      /\ inbox' = inbox \ {i} /\ UNCHANGED <<rows, nextRow>>
  BY DEF TakeItem
<1>2. QueueTypeOK
  BY DEF TypeOK
<1>3. /\ Rows' = Rows /\ Jobs' = Jobs \cup {nextJournal}
      /\ nextJournal \notin Jobs /\ Jobs \subseteq JournalId
  BY <1>1, <1>2, QueueBasics DEF Rows, Jobs
<1>4. /\ journal'[nextJournal].row = i
      /\ journal'[nextJournal].state = "processing"
      /\ \A j \in JournalId : j # nextJournal => journal'[j] = journal[j]
  BY <1>1, <1>2 DEF TakeItem, QueueTypeOK
<1>5. \A j \in Jobs : journal'[j] = journal[j] /\ journal'[j].row # i
  BY <1>3, <1>4
<1>6. i \in Rows \ inbox'
  BY <1>1 DEF TurnInv
<1>7. TurnInv'
  <2>1. /\ inbox' \subseteq Rows' /\ seen' \subseteq Rows'
        /\ dropped' \subseteq Rows' \ inbox'
    BY <1>1, <1>3 DEF TurnInv
  <2>2. \A j \in JournalId : j \in Jobs' <=> journal'[j].state # "none"
    BY <1>3, <1>4 DEF TurnInv
  <2>3. \A j \in Jobs' : journal'[j].row \in Rows' \ inbox'
    BY <1>1, <1>3, <1>4, <1>5, <1>6 DEF TurnInv
  <2>4. \A j, k \in Jobs' : journal'[j].row = journal'[k].row => j = k
    BY <1>3, <1>4, <1>5 DEF TurnInv
  <2>5. ASSUME NEW n \in Rows' \ (inbox' \cup dropped')
        PROVE  \E j \in Jobs' : journal'[j].row = n
    BY <1>1, <1>3, <1>4, <1>5, <2>5 DEF TurnInv
  <2> QED BY <2>1, <2>2, <2>3, <2>4, <2>5 DEF TurnInv
<1> QED BY <1>1, <1>3, <1>4, <1>7

LEMMA UpdateTurns ==
    ASSUME TypeOK, TurnInv, NEW j \in Jobs, NEW state \in Terminal, NEW back,
           JournalUpdate(j, state, back), UNCHANGED <<seen, dropped>>
    PROVE  /\ TurnInv' /\ Jobs' = Jobs /\ j \in JournalId
           /\ inbox' = inbox
           /\ journal'[j].row = journal[j].row /\ journal'[j].state = state
           /\ \A k \in JournalId : k # j => journal'[k] = journal[k]
<1>1. UNCHANGED <<rows, nextRow, inbox, nextJournal>>
  BY DEF JournalUpdate
<1>2. QueueTypeOK
  BY DEF TypeOK
<1>3. Rows' = Rows /\ Jobs' = Jobs /\ Jobs \subseteq JournalId
  BY <1>1, <1>2, QueueBasics DEF Rows, Jobs
<1>4. /\ journal'[j].row = journal[j].row /\ journal'[j].state = state
      /\ \A k \in JournalId : k # j => journal'[k] = journal[k]
  BY <1>2, <1>3 DEF JournalUpdate, QueueTypeOK, Entry
<1>5. \A k \in Jobs : journal'[k].row = journal[k].row
  BY <1>3, <1>4
<1>6. \A k \in JournalId : k \in Jobs' <=> journal'[k].state # "none"
  BY <1>3, <1>4 DEF TurnInv, Terminal
<1>7. TurnInv'
  BY <1>1, <1>3, <1>5, <1>6 DEF TurnInv
<1> QED BY <1>1, <1>3, <1>4, <1>7

LEMMA CancelTurns ==
    ASSUME TypeOK, TurnInv, Cancel
    PROVE  TurnInv' /\ Jobs' = Jobs /\ Processing \subseteq Jobs
<1>1. /\ inbox' = inbox \ seen /\ dropped' = dropped \cup (inbox \cap seen)
      /\ UNCHANGED <<rows, nextRow, journal, nextJournal, seen>>
  BY DEF Cancel
<1>2. Rows' = Rows /\ Jobs' = Jobs
  BY <1>1 DEF Rows, Jobs
<1>3. TurnInv'
  BY <1>1, <1>2 DEF TurnInv
<1>4. Processing \subseteq Jobs
  BY DEF Processing, TurnInv
<1> QED BY <1>2, <1>3, <1>4

LEMMA FrameTurns ==
    ASSUME TurnInv, UNCHANGED queueVars, UNCHANGED dropped,
           seen' \subseteq Rows
    PROVE  TurnInv' /\ Jobs' = Jobs /\ Rows' = Rows /\ Processing' = Processing
<1>1. Rows' = Rows /\ Jobs' = Jobs
  BY DEF Rows, Jobs, queueVars
<1> QED BY <1>1 DEF TurnInv, queueVars, Processing

(***************************************************************************)
(* The step.  Every action leaves the turns alone (FrameTurns) or performs *)
(* one of the operations above.                                            *)
(***************************************************************************)
RoomInv == TypeOK /\ TurnInv /\ WorkInv

Inv == RoomInv /\ StopCoversSeen

LEMMA InitInv == Init => Inv
<1> SUFFICES ASSUME Init PROVE Inv
  OBVIOUS
<1>1. TypeOK
  BY InitType
<1>2. Rows = {} /\ Jobs = {}
  BY DEF Init, QueueInit, Rows, Jobs
<1>3. \A j \in JournalId : journal[j].state = "none"
  BY DEF Init, QueueInit, NoEntry
<1>4. TurnInv
  BY <1>2, <1>3 DEF Init, QueueInit, TurnInv
<1>5. WorkInv
  BY <1>3 DEF Init, WorkInv, On, NoJob, Processing
<1> QED BY <1>1, <1>4, <1>5 DEF Inv, RoomInv, Init, StopCoversSeen

(* A step that leaves the queue alone only has the worker's part to keep.  *)
LEMMA QuietStep ==
    ASSUME Inv, TypeOK', WorkInv', UNCHANGED <<queueVars, dropped, asked>>,
           \/ UNCHANGED seen /\ (spc' # "cancel" => spc # "cancel")
           \/ seen' \subseteq Rows /\ spc' = "cancel"
    PROVE  Inv'
<1>1. TurnInv' /\ Jobs' = Jobs
  BY FrameTurns DEF Inv, RoomInv, TurnInv
<1>2. StopCoversSeen'
  BY <1>1 DEF Inv, StopCoversSeen, queueVars
<1> QED BY <1>1, <1>2 DEF Inv, RoomInv

LEMMA InvStep == Inv /\ [Next]_vars => Inv'
<1> SUFFICES ASSUME Inv, [Next]_vars PROVE Inv'
  OBVIOUS
<1>a. TypeOK'
  BY TypeStep DEF Inv, RoomInv
<1>b. /\ TypeOK /\ TurnInv /\ WorkInv /\ StopCoversSeen
      /\ Jobs \subseteq JournalId
  BY QueueBasics DEF Inv, RoomInv, TypeOK
<1>c. UNCHANGED queueVars => Processing' = Processing /\ Jobs' = Jobs
  BY DEF queueVars, Processing, Jobs
<1> USE DEF On, NoJob, workerVars, pressVars, roomVars, faultVars
<1>1. CASE Send
  <2>1. /\ TurnInv' /\ Jobs' = Jobs /\ journal' = journal
        /\ inbox \subseteq inbox'
    BY <1>1, <1>b, SendTurns DEF Send
  <2>2. WorkInv'
    BY <1>1, <1>b, <2>1 DEF Send, WorkInv, Processing
  <2>3. StopCoversSeen'
    BY <1>1, <1>b, <2>1 DEF Send, StopCoversSeen
  <2> QED BY <1>a, <2>1, <2>2, <2>3 DEF Inv, RoomInv
<1>2. CASE PostBubble
  <2>1. WorkInv'
    BY <1>2, <1>b, <1>c DEF PostBubble, WorkInv, queueVars
  <2> QED BY <1>2, <1>a, <2>1, QuietStep DEF PostBubble
<1>3. CASE ReadInbox
  <2>1. WorkInv'
    BY <1>3, <1>b, <1>c DEF ReadInbox, WorkInv, queueVars
  <2>2. seen' \subseteq Rows
    BY <1>3, <1>b DEF ReadInbox, Pending, TurnInv
  <2> QED BY <1>3, <1>a, <2>1, <2>2, QuietStep DEF ReadInbox
<1>4. CASE Cancel
  <2>1. TurnInv' /\ Jobs' = Jobs /\ Processing \subseteq Jobs
    BY <1>4, <1>b, CancelTurns
  <2>2. WorkInv'
    BY <1>4, <1>b, <2>1 DEF Cancel, WorkInv, Processing
  <2>3. ASSUME NEW i \in seen, i \notin dropped'
        PROVE  \E j \in Jobs :
                  /\ journal[j].row = i
                  /\ (j \in asked' \/ journal[j].state \in Terminal)
    <3>1. i \in Rows \ (inbox \cup dropped)
      BY <1>4, <1>b, <2>3 DEF Cancel, TurnInv
    <3>2. PICK j \in Jobs : journal[j].row = i
      BY <1>b, <3>1 DEF TurnInv
    <3>3. journal[j].state \in Terminal \cup {"processing"}
      BY <1>b DEF TypeOK, QueueTypeOK, Entry, TurnInv
    <3>4. journal[j].state = "processing" => j \in asked'
      BY <1>4, <1>b DEF Cancel, Processing
    <3> QED BY <3>2, <3>3, <3>4
  <2>4. StopCoversSeen'
    BY <1>4, <2>1, <2>3 DEF Cancel, StopCoversSeen
  <2> QED BY <1>a, <2>1, <2>2, <2>4 DEF Inv, RoomInv
<1>5. CASE SettleRows
  <2>1. WorkInv'
    BY <1>5, <1>b, <1>c DEF SettleRows, WorkInv, queueVars
  <2> QED BY <1>5, <1>a, <2>1, QuietStep DEF SettleRows
<1>6. CASE StopNotice
  <2>1. WorkInv'
    BY <1>6, <1>b, <1>c DEF StopNotice, WorkInv, queueVars
  <2> QED BY <1>6, <1>a, <2>1, QuietStep DEF StopNotice
<1>7. CASE Spawn
  <2>1. WorkInv'
    BY <1>7, <1>b, <1>c DEF Spawn, WorkInv, queueVars
  <2> QED BY <1>7, <1>a, <2>1, QuietStep DEF Spawn
<1>8. CASE Poll
  <2>1. Pending(DirectChat) # {} => Oldest(Pending(DirectChat)) \in inbox
    BY <1>b, OldestPending DEF TypeOK
  <2>2. \A i \in inbox : \A j \in Jobs : journal[j].row # i
    BY <1>b DEF TurnInv
  <2>3. WorkInv'
    BY <1>8, <1>b, <1>c, <2>1, <2>2 DEF Poll, WorkInv, queueVars
  <2> QED BY <1>8, <1>a, <2>3, QuietStep DEF Poll
<1>9. CASE Take
  <2>1. /\ TurnInv' /\ Jobs' = Jobs \cup {nextJournal}
        /\ nextJournal \in JournalId /\ nextJournal \notin Jobs
        /\ journal'[nextJournal].state = "processing"
        /\ \A j \in JournalId : j # nextJournal => journal'[j] = journal[j]
    BY <1>9, <1>b, TakeTurns DEF Take, WorkInv
  <2>2. Processing' = Processing \cup {nextJournal}
    BY <2>1 DEF Processing
  <2>3. WorkInv'
    BY <1>9, <1>b, <2>1, <2>2 DEF Take, WorkInv
  <2>4. \A j \in Jobs : j \in Jobs' /\ journal'[j] = journal[j]
    BY <1>b, <2>1
  <2>5. StopCoversSeen'
    BY <1>9, <1>b, <2>4 DEF Take, StopCoversSeen
  <2> QED BY <1>a, <2>1, <2>3, <2>5 DEF Inv, RoomInv
<1>10. CASE Report
  <2>1. /\ UNCHANGED <<journal, inbox, dropped, asked, row, job, lost>>
        /\ Jobs' = Jobs /\ Processing' = Processing
        /\ pc = "taken" /\ pc' = "reported" /\ known' = job
    BY <1>10, <1>c DEF Report, queueVars
  <2>2. job \in Jobs /\ journal[job].state = "processing" /\ known = NoJob
    BY <1>b, <2>1 DEF WorkInv
  <2>3. \A j \in Processing : job = j \/ lost
    <3>1. 0 \notin Jobs /\ Processing \subseteq Jobs
      BY <1>b DEF TurnInv, Jobs, Processing
    <3> QED BY <1>b, <2>1, <2>2, <3>1 DEF WorkInv
  <2>4. WorkInv'
    BY <1>b, <2>1, <2>2, <2>3 DEF WorkInv
  <2> QED BY <1>10, <1>a, <2>4, QuietStep DEF Report
<1>11. CASE Flush
  <2>1. WorkInv'
    BY <1>11, <1>b, <1>c DEF Flush, WorkInv, queueVars
  <2> QED BY <1>11, <1>a, <2>1, QuietStep DEF Flush
<1>12. CASE Finish
  <2>1. WorkInv'
    BY <1>12, <1>b, <1>c DEF Finish, WorkInv, queueVars, Terminal
  <2> QED BY <1>12, <1>a, <2>1, QuietStep DEF Finish
<1>13. ASSUME NEW o \in {"failed", "stopped"}, Cut(o) PROVE Inv'
  <2>1. WorkInv'
    BY <1>13, <1>b, <1>c DEF Cut, WorkInv, queueVars, Terminal
  <2> QED BY <1>13, <1>a, <2>1, QuietStep DEF Cut
<1>20. CASE Refuse
  <2>1. WorkInv'
    BY <1>20, <1>b, <1>c DEF Refuse, WorkInv, queueVars, Terminal
  <2> QED BY <1>20, <1>a, <2>1, QuietStep DEF Refuse
<1>14. CASE PostNotice
  <2>1. WorkInv'
    BY <1>14, <1>b, <1>c DEF PostNotice, WorkInv, queueVars
  <2> QED BY <1>14, <1>a, <2>1, QuietStep DEF PostNotice
<1>15. CASE Journal
  <2>1. out \in Terminal /\ job \in Jobs
    BY <1>15, <1>b DEF Journal, WorkInv
  <2>2. /\ TurnInv' /\ Jobs' = Jobs /\ job \in JournalId /\ inbox' = inbox
        /\ journal'[job].row = journal[job].row /\ journal'[job].state = out
        /\ \A k \in JournalId : k # job => journal'[k] = journal[k]
    BY <1>15, <1>b, <2>1, UpdateTurns DEF Journal
  <2>3. Processing' \subseteq Processing \ {job}
    BY <2>1, <2>2 DEF Processing, Terminal
  <2>4. WorkInv'
    BY <1>15, <1>b, <2>2, <2>3 DEF Journal, WorkInv
  <2>5. \A j \in Jobs :
           /\ journal'[j].row = journal[j].row
           /\ journal[j].state \in Terminal => journal'[j].state \in Terminal
    BY <1>b, <2>1, <2>2
  <2>6. StopCoversSeen'
    BY <1>15, <1>b, <2>2, <2>5 DEF Journal, StopCoversSeen
  <2> QED BY <1>a, <2>2, <2>4, <2>6 DEF Inv, RoomInv
<1>16. CASE Die
  <2>1. WorkInv'
    BY <1>16, <1>b, <1>c DEF Die, Vanish, WorkInv, queueVars
  <2> QED BY <1>16, <1>a, <2>1, QuietStep DEF Die
<1>17. CASE Outage
  <2>1. WorkInv'
    BY <1>17, <1>b, <1>c DEF Outage, Vanish, WorkInv, queueVars
  <2> QED BY <1>17, <1>a, <2>1, QuietStep DEF Outage
<1>18. CASE Recover
  <2>1. CASE journal[known].state = "processing"
    <3>1. known \in Jobs
      BY <1>18, <1>b DEF Recover, WorkInv
    <3>2. /\ TurnInv' /\ Jobs' = Jobs /\ known \in JournalId /\ inbox' = inbox
          /\ journal'[known].row = journal[known].row
          /\ journal'[known].state = "failed"
          /\ \A k \in JournalId : k # known => journal'[k] = journal[k]
      BY <1>18, <1>b, <2>1, <3>1, UpdateTurns DEF Recover, Terminal
    <3>3. Processing' \subseteq Processing \ {known}
      BY <3>2 DEF Processing
    <3>4. WorkInv'
      BY <1>18, <1>b, <3>2, <3>3 DEF Recover, WorkInv
    <3>5. \A j \in Jobs :
             /\ journal'[j].row = journal[j].row
             /\ journal[j].state \in Terminal => journal'[j].state \in Terminal
      BY <1>b, <3>2 DEF Terminal
    <3>6. StopCoversSeen'
      BY <1>18, <1>b, <3>2, <3>5 DEF Recover, StopCoversSeen
    <3> QED BY <1>a, <3>2, <3>4, <3>6 DEF Inv, RoomInv
  <2>2. CASE journal[known].state # "processing"
    <3>1. known \notin Processing
      BY <2>2 DEF Processing
    <3>2. WorkInv'
      BY <1>18, <1>b, <1>c, <2>2, <3>1 DEF Recover, WorkInv, queueVars
    <3> QED BY <1>18, <1>a, <2>2, <3>2, QuietStep DEF Recover
  <2> QED BY <2>1, <2>2
<1>19. CASE UNCHANGED vars
  <2>1. WorkInv'
    BY <1>19, <1>b, <1>c DEF vars, WorkInv, queueVars
  <2> QED BY <1>19, <1>a, <2>1, QuietStep DEF vars
<1> QED
  BY <1>1, <1>2, <1>3, <1>4, <1>5, <1>6, <1>7, <1>8, <1>9, <1>10, <1>11, <1>12,
     <1>13, <1>14, <1>15, <1>16, <1>17, <1>18, <1>19, <1>20
  DEF Next, Press, Worker

(***************************************************************************)
(* The turns begun after their row was deleted: one for each press at most,*)
(* since a press comes upon at most one row that is read and not yet taken.*)
(***************************************************************************)
LEMMA DroppedFinite ==
    ASSUME TypeOK, NEW S
    PROVE  IsFiniteSet(dropped \cap S) /\ Cardinality(dropped \cap S) \in Nat
<1>1. IsFiniteSet(RowId)
  BY QueueAssumption, FS_Interval DEF RowId
<1>2. dropped \cap S \subseteq RowId
  BY DEF TypeOK
<1> QED BY <1>1, <1>2, FS_Subset, FS_CardinalityType

(* No row is deleted or begun, and none newly picked.                      *)
LEMMA DroppedRests ==
    ASSUME TypeOK, DroppedInv, Begun' = Begun,
           UNCHANGED <<dropped, presses>>, spc' = "cancel" <=> spc = "cancel",
           pc' = "picked" => pc = "picked" /\ row' = row
    PROVE  DroppedInv'
<1>1. presses \in Nat /\ Cardinality(dropped \cap Begun) \in Nat
  BY DroppedFinite, DirectRoomAssumption DEF TypeOK
<1> QED BY <1>1 DEF DroppedInv

LEMMA BegunRests ==
    ASSUME Jobs' = Jobs, \A j \in Jobs : journal'[j].row = journal[j].row
    PROVE  Begun' = Begun
BY DEF Begun

LEMMA DroppedTake ==
    ASSUME Inv, DroppedInv, Take
    PROVE  DroppedInv'
<1>1. /\ TypeOK /\ TurnInv /\ WorkInv /\ pc = "picked" /\ pc' = "taken"
      /\ TakeItem(row) /\ UNCHANGED <<spc, seen, dropped, presses>>
  BY DEF Take, Inv, RoomInv, pressVars
<1>2. row \in inbox \cup dropped /\ \A j \in Jobs : journal[j].row # row
  BY <1>1 DEF WorkInv
<1>3. /\ Jobs' = Jobs \cup {nextJournal} /\ nextJournal \notin Jobs
      /\ \A j \in JournalId : j # nextJournal => journal'[j] = journal[j]
  BY <1>1, <1>2, TakeTurns
<1>4. journal'[nextJournal].row = row /\ Jobs \subseteq JournalId
  BY <1>1, QueueBasics DEF TakeItem, TypeOK, QueueTypeOK
<1>5. Begun' = Begun \cup {row} /\ row \notin Begun
  BY <1>2, <1>3, <1>4 DEF Begun
<1>6. /\ presses \in Nat /\ Cardinality(dropped \cap Begun) \in Nat
      /\ IsFiniteSet(dropped \cap Begun)
  BY <1>1, DroppedFinite, DirectRoomAssumption DEF TypeOK
<1>7. CASE row \in dropped
  <2>1. (dropped \cap Begun)' = (dropped \cap Begun) \cup {row}
    BY <1>1, <1>5, <1>7
  <2>2. Cardinality((dropped \cap Begun)') = Cardinality(dropped \cap Begun) + 1
    BY <1>5, <1>6, <2>1, FS_AddElement
  <2> QED BY <1>1, <1>6, <1>7, <2>2 DEF DroppedInv
<1>8. CASE row \notin dropped
  <2>1. (dropped \cap Begun)' = dropped \cap Begun
    BY <1>1, <1>5, <1>8
  <2> QED BY <1>1, <1>6, <1>8, <2>1 DEF DroppedInv
<1> QED BY <1>7, <1>8

LEMMA DroppedCancel ==
    ASSUME Inv, DroppedInv, Cancel
    PROVE  DroppedInv'
<1>1. /\ TypeOK /\ TurnInv /\ spc = "cancel" /\ spc' # "cancel"
      /\ dropped' = dropped \cup (inbox \cap seen)
      /\ UNCHANGED <<pc, row, journal, nextJournal, presses>>
  BY DEF Cancel, Inv, RoomInv, workerVars
<1>2. Begun' = Begun /\ inbox \cap Begun = {}
  BY <1>1 DEF Begun, Jobs, TurnInv
<1>3. (dropped \cap Begun)' = dropped \cap Begun
  BY <1>1, <1>2
<1>4. presses \in Nat /\ Cardinality(dropped \cap Begun) \in Nat
  BY <1>1, DroppedFinite, DirectRoomAssumption DEF TypeOK
<1> QED BY <1>1, <1>3, <1>4 DEF DroppedInv

LEMMA DroppedStep == Inv /\ DroppedInv /\ [Next]_vars => DroppedInv'
<1> SUFFICES ASSUME Inv, DroppedInv, [Next]_vars PROVE DroppedInv'
  OBVIOUS
<1>a. TypeOK /\ TurnInv /\ WorkInv /\ Jobs \subseteq JournalId
  BY QueueBasics DEF Inv, RoomInv, TypeOK
<1>b. UNCHANGED queueVars => Begun' = Begun
  BY DEF queueVars, Begun, Jobs
<1> USE DEF workerVars, pressVars
<1>1. CASE Send
  <2>1. Begun' = Begun
    BY <1>1, <1>a, SendTurns, BegunRests DEF Send
  <2> QED BY <1>1, <1>a, <2>1, DroppedRests DEF Send
<1>2. CASE ReadInbox
  <2>1. presses \in Nat /\ Cardinality(dropped \cap Begun) \in Nat
    BY <1>a, DroppedFinite, DirectRoomAssumption DEF TypeOK
  <2> QED BY <1>2, <1>b, <2>1 DEF ReadInbox, DroppedInv
<1>3. CASE Cancel
  BY <1>3, DroppedCancel
<1>4. CASE PostBubble \/ SettleRows \/ StopNotice \/ Spawn \/ UNCHANGED vars
  BY <1>4, <1>a, <1>b, DroppedRests
  DEF PostBubble, SettleRows, StopNotice, Spawn, vars
<1>5. CASE Poll
  <2>1. Pending(DirectChat) # {} => Oldest(Pending(DirectChat)) \notin dropped
    BY <1>a, OldestPending DEF TypeOK, TurnInv
  <2>2. presses \in Nat /\ Cardinality(dropped \cap Begun) \in Nat
    BY <1>a, DroppedFinite, DirectRoomAssumption DEF TypeOK
  <2> QED BY <1>5, <1>b, <2>1, <2>2 DEF Poll, DroppedInv
<1>6. CASE Take
  BY <1>6, DroppedTake
<1>7. CASE Report \/ Refuse \/ Flush \/ Finish \/ PostNotice
  BY <1>7, <1>a, <1>b, DroppedRests
  DEF Report, Refuse, Flush, Finish, PostNotice
<1>8. ASSUME NEW o \in {"failed", "stopped"}, Cut(o) PROVE DroppedInv'
  BY <1>8, <1>a, <1>b, DroppedRests DEF Cut
<1>9. CASE Journal
  <2>1. out \in Terminal /\ job \in Jobs
    BY <1>9, <1>a DEF Journal, WorkInv, On
  <2>2. Begun' = Begun
    BY <1>9, <1>a, <2>1, UpdateTurns, BegunRests DEF Journal
  <2> QED BY <1>9, <1>a, <2>2, DroppedRests DEF Journal
<1>10. CASE Die \/ Outage
  BY <1>10, <1>a, <1>b, DroppedRests DEF Die, Outage, Vanish
<1>11. CASE Recover
  <2>1. known \in Jobs /\ "failed" \in Terminal
    BY <1>11, <1>a DEF Recover, WorkInv, Terminal
  <2>2. Begun' = Begun
    <3>1. CASE journal[known].state = "processing"
      BY <1>11, <1>a, <2>1, <3>1, UpdateTurns, BegunRests DEF Recover
    <3>2. CASE journal[known].state # "processing"
      BY <1>11, <1>b, <3>2 DEF Recover
    <3> QED BY <3>1, <3>2
  <2> QED BY <1>11, <1>a, <2>2, DroppedRests DEF Recover
<1> QED
  BY <1>1, <1>2, <1>3, <1>4, <1>5, <1>6, <1>7, <1>8, <1>9, <1>10, <1>11
  DEF Next, Press, Worker

LEMMA DroppedInit == Init => DroppedInv
<1> SUFFICES ASSUME Init PROVE DroppedInv
  OBVIOUS
<1>1. dropped \cap Begun = {}
  BY DEF Init
<1> QED BY <1>1, FS_EmptySet DEF Init, DroppedInv

(* The inductive invariant of the room, and with it: no turn is lost or    *)
(* run twice, an item in 'processing' has its worker or its recovery, and  *)
(* deleted turns are begun one a press at most.                            *)
THEOREM RoomInvariant == Spec => []IndInv
<1>1. Inv /\ DroppedInv => IndInv
  BY DEF Inv, RoomInv, IndInv
<1> QED
  BY <1>1, InitInv, InvStep, DroppedInit, DroppedStep, PTL DEF Spec

(* A deleted turn may be begun (DroppedNeverRuns is violated), but never   *)
(* more of them than presses: the race of cancel_room_turns and take_item  *)
(* costs one turn a press, and only the one the worker had just read.      *)
THEOREM OneDroppedRunPerPress ==
    Spec => [](Cardinality(dropped \cap Begun) <= presses)
<1>1. IndInv => Cardinality(dropped \cap Begun) <= presses
  <2> SUFFICES ASSUME IndInv PROVE Cardinality(dropped \cap Begun) <= presses
    OBVIOUS
  <2>1. presses \in Nat /\ Cardinality(dropped \cap Begun) \in Nat
    BY DroppedFinite, DirectRoomAssumption DEF IndInv, TypeOK
  <2> QED BY <2>1 DEF IndInv, DroppedInv
<1> QED BY <1>1, RoomInvariant, PTL

(* Stop covers every queued turn it read, taken meanwhile or not           *)
(* (cancel_room_turns of db/queue.py).                                     *)
THEOREM StopCovers == Spec => []StopCoversSeen
<1>1. Inv => StopCoversSeen
  BY DEF Inv
<1> QED BY <1>1, InitInv, InvStep, PTL DEF Spec

LEMMA CursorStep ==
    IndInv /\ CursorHasWorker /\ [Next]_vars => CursorHasWorker'
<1> SUFFICES ASSUME IndInv, CursorHasWorker, [Next]_vars PROVE CursorHasWorker'
  OBVIOUS
<1>a. /\ faults \in Nat
      /\ answer \in [JournalId -> {"none", "streaming", "settled"}]
  BY DirectRoomAssumption DEF IndInv, TypeOK
<1> USE DEF CursorHasWorker, workerVars, pressVars, roomVars, faultVars
<1>1. CASE \/ Send \/ PostBubble \/ ReadInbox \/ Cancel \/ StopNotice
           \/ UNCHANGED vars
  BY <1>1 DEF Send, PostBubble, ReadInbox, Cancel, StopNotice, vars
<1>2. CASE SettleRows
  BY <1>2, <1>a DEF SettleRows
<1>3. CASE \/ Spawn \/ Poll \/ Take \/ Report \/ PostNotice \/ Journal
           \/ Recover \/ Refuse
  BY <1>3 DEF Spawn, Poll, Take, Report, PostNotice, Journal, Recover, Refuse
<1>4. CASE Flush
  BY <1>4, <1>a DEF Flush
<1>5. CASE Finish
  BY <1>5, <1>a DEF Finish, Settled
<1>6. ASSUME NEW o \in {"failed", "stopped"}, Cut(o) PROVE CursorHasWorker'
  BY <1>6, <1>a DEF Cut, Settled
<1>7. CASE Die \/ Outage
  BY <1>7, <1>a DEF Die, Outage
<1> QED BY <1>1, <1>2, <1>3, <1>4, <1>5, <1>6, <1>7 DEF Next, Press, Worker

(* No cursor is left blinking by a press that settles rows a worker is     *)
(* still writing (chat_api.py, chat/streaming.py): only by a death.        *)
THEOREM CursorsHaveWorkers == Spec => []CursorHasWorker
<1>1. Init => CursorHasWorker
  BY DEF Init, CursorHasWorker
<1> QED BY <1>1, CursorStep, RoomInvariant, PTL DEF Spec

(***************************************************************************)
(* The room implements the ledger: what each operation on the queue does   *)
(* to the rows that wait, are worked on and have ended.                    *)
(***************************************************************************)
LEMMA InStateIs ==
    ASSUME NEW s
    PROVE  \A i : i \in InState(s) <=>
               \E j \in JournalId : journal[j].state = s /\ journal[j].row = i
BY DEF InState

(* Presses delete inbox rows, which stay waiting in the ledger.            *)
LEMMA LedgerRests ==
    ASSUME UNCHANGED <<nextRow, journal, nextJournal>>
    PROVE  UNCHANGED Ledger!vars
<1>1. /\ Rows' = Rows /\ Begun' = Begun
      /\ \A s : InState(s)' = InState(s)
  BY DEF Rows, Begun, Jobs, InState
<1> QED BY <1>1 DEF Ledger!vars

LEMMA LedgerArrive ==
    ASSUME RoomInv, NEW r, Enqueue(r)
    PROVE  Ledger!Arrive(nextRow) /\ nextRow \in RowId
<1>1. /\ TypeOK /\ TurnInv /\ QueueTypeOK
      /\ nextRow \in RowId /\ nextRow' = nextRow + 1
      /\ UNCHANGED <<journal, nextJournal>>
  BY DEF RoomInv, TypeOK, Enqueue
<1>2. Rows' = Rows \cup {nextRow} /\ nextRow \notin Rows
  BY <1>1, QueueBasics DEF Rows
<1>3. Begun' = Begun /\ (\A s : InState(s)' = InState(s)) /\ Begun \subseteq Rows
  BY <1>1 DEF Begun, Jobs, InState, TurnInv
<1>4. \A s : s # "none" => InState(s) \subseteq Begun
  BY <1>1, InStateIs DEF Begun, TurnInv
<1>5. nextRow \in Ledger!Unseen
  BY <1>1, <1>2, <1>3, <1>4 DEF Ledger!Unseen, Terminal
<1>6. (Rows \ Begun)' = (Rows \ Begun) \cup {nextRow}
  BY <1>2, <1>3
<1> QED BY <1>1, <1>3, <1>5, <1>6 DEF Ledger!Arrive

LEMMA LedgerBegin ==
    ASSUME RoomInv, NEW i \in inbox \cup dropped,
           \A j \in Jobs : journal[j].row # i,
           TakeItem(i), UNCHANGED <<seen, dropped>>
    PROVE  Ledger!Begin(i) /\ i \in RowId
<1>1. /\ TypeOK /\ TurnInv /\ QueueTypeOK
      /\ UNCHANGED <<rows, nextRow>>
  BY DEF RoomInv, TypeOK, TakeItem
<1>2. /\ Jobs' = Jobs \cup {nextJournal} /\ nextJournal \in JournalId
      /\ nextJournal \notin Jobs
      /\ journal'[nextJournal].state = "processing"
      /\ \A j \in JournalId : j # nextJournal => journal'[j] = journal[j]
  BY <1>1, TakeTurns
<1>3. /\ journal'[nextJournal].row = i /\ Jobs \subseteq JournalId
      /\ journal[nextJournal].state = "none"
  BY <1>1, <1>2, QueueBasics DEF TakeItem, QueueTypeOK, TurnInv
<1>4. i \in Rows /\ Rows \subseteq RowId /\ Rows' = Rows
  BY <1>1, QueueBasics DEF TurnInv, Rows
<1>5. Begun' = Begun \cup {i} /\ i \notin Begun
  BY <1>2, <1>3 DEF Begun
<1>6. \A s, n : n \in InState(s)' <=>
        \E j \in JournalId : journal'[j].state = s /\ journal'[j].row = n
  BY DEF InState
<1>7. InState("processing")' = InState("processing") \cup {i}
  <2>1. \A n : n \in InState("processing")' <=> n \in InState("processing") \/ n = i
    BY <1>2, <1>3, <1>6, InStateIs
  <2> QED BY <2>1
<1>8. \A s \in Terminal : InState(s)' = InState(s)
  BY <1>2, <1>3 DEF InState, Terminal
<1>9. [o \in Terminal |-> InState(o)]' = [o \in Terminal |-> InState(o)]
  BY <1>8
<1>10. (Rows \ Begun)' = (Rows \ Begun) \ {i} /\ i \in Rows \ Begun
  BY <1>4, <1>5
<1> QED BY <1>4, <1>7, <1>9, <1>10 DEF Ledger!Begin

LEMMA LedgerEnd ==
    ASSUME RoomInv, NEW j \in Jobs, NEW o \in Terminal, NEW back,
           journal[j].state = "processing", JournalUpdate(j, o, back),
           UNCHANGED <<seen, dropped>>
    PROVE  Ledger!End(journal[j].row, o) /\ journal[j].row \in RowId
<1> DEFINE i == journal[j].row
<1>1. /\ TypeOK /\ TurnInv /\ QueueTypeOK /\ UNCHANGED nextRow
  BY DEF RoomInv, TypeOK, JournalUpdate
<1>2. /\ Jobs' = Jobs /\ j \in JournalId
      /\ journal'[j].row = i /\ journal'[j].state = o
      /\ \A k \in JournalId : k # j => journal'[k] = journal[k]
  BY <1>1, UpdateTurns
<1>3. i \in Rows /\ Rows \subseteq RowId /\ Rows' = Rows
  BY <1>1, QueueBasics DEF TurnInv, Rows
<1>4. \A k \in Jobs : journal'[k].row = journal[k].row
  BY <1>1, <1>2, QueueBasics
<1>5. (Rows \ Begun)' = Rows \ Begun
  BY <1>2, <1>3, <1>4, BegunRests
<1>6. \A k \in JournalId : k # j /\ journal[k].state # "none" => journal[k].row # i
  BY <1>1 DEF TurnInv
<1>7. \A s, n : n \in InState(s)' <=>
        \E k \in JournalId : journal'[k].state = s /\ journal'[k].row = n
  BY DEF InState
<1>8. InState("processing")' = InState("processing") \ {i}
  <2>1. \A n : n \in InState("processing")' <=> n \in InState("processing") /\ n # i
    BY <1>2, <1>6, <1>7, InStateIs DEF Terminal
  <2> QED BY <2>1
<1>9. InState(o)' = InState(o) \cup {i}
  <2>1. \A n : n \in InState(o)' <=> n \in InState(o) \/ n = i
    BY <1>2, <1>7, InStateIs DEF Terminal
  <2> QED BY <2>1
<1>10. ASSUME NEW s \in Terminal \ {o} PROVE InState(s)' = InState(s)
  <2>1. \A n : n \in InState(s)' <=> n \in InState(s)
    BY <1>2, <1>7, <1>10, InStateIs DEF Terminal
  <2> QED BY <2>1
<1>11. [s \in Terminal |-> InState(s)]'
         = [[s \in Terminal |-> InState(s)] EXCEPT ![o] = @ \cup {i}]
  BY <1>9, <1>10
<1>12. i \in InState("processing")
  BY <1>2, InStateIs
<1> QED BY <1>3, <1>5, <1>8, <1>11, <1>12 DEF Ledger!End

LEMMA LedgerStep == RoomInv /\ [Next]_vars => [Ledger!Next]_(Ledger!vars)
<1> SUFFICES ASSUME RoomInv, [Next]_vars
             PROVE  Ledger!Next \/ UNCHANGED Ledger!vars
  OBVIOUS
<1>a. TypeOK /\ TurnInv /\ WorkInv
  BY DEF RoomInv
<1> USE DEF workerVars, pressVars
<1>1. CASE Send
  <2>1. PICK r : Enqueue(r)
    BY <1>1 DEF Send
  <2> QED BY <2>1, LedgerArrive DEF Ledger!Next
<1>2. CASE Take
  <2>1. /\ TakeItem(row) /\ UNCHANGED <<seen, dropped>>
        /\ row \in inbox \cup dropped /\ \A j \in Jobs : journal[j].row # row
    BY <1>2, <1>a DEF Take, WorkInv
  <2> QED BY <2>1, LedgerBegin DEF Ledger!Next
<1>3. CASE Journal
  <2>1. /\ job \in Jobs /\ out \in Terminal /\ journal[job].state = "processing"
        /\ JournalUpdate(job, out, NoRole) /\ UNCHANGED <<seen, dropped>>
    BY <1>3, <1>a DEF Journal, WorkInv, On
  <2> QED BY <2>1, LedgerEnd DEF Ledger!Next
<1>4. CASE Recover
  <2>1. CASE journal[known].state = "processing"
    <3>1. /\ known \in Jobs /\ "failed" \in Terminal
          /\ JournalUpdate(known, "failed", NoRole)
          /\ UNCHANGED <<seen, dropped>>
      BY <1>4, <1>a, <2>1 DEF Recover, WorkInv, Terminal
    <3> QED BY <2>1, <3>1, LedgerEnd DEF Ledger!Next
  <2>2. CASE journal[known].state # "processing"
    BY <1>4, <2>2, LedgerRests DEF Recover, queueVars
  <2> QED BY <2>1, <2>2
<1>5. CASE \/ PostBubble \/ ReadInbox \/ Cancel \/ SettleRows \/ StopNotice
           \/ Spawn \/ Poll \/ Report \/ Refuse \/ Flush \/ Finish \/ PostNotice
           \/ Die \/ Outage \/ UNCHANGED vars
  BY <1>5, LedgerRests
  DEF PostBubble, ReadInbox, Cancel, SettleRows, StopNotice, Spawn, Poll,
      Report, Refuse, Flush, Finish, PostNotice, Die, Outage, vars, queueVars
<1>6. ASSUME NEW o \in {"failed", "stopped"}, Cut(o)
      PROVE  UNCHANGED Ledger!vars
  BY <1>6, LedgerRests DEF Cut, queueVars
<1> QED BY <1>1, <1>2, <1>3, <1>4, <1>5, <1>6 DEF Next, Press, Worker

(* A turn is begun once and ends once, whatever presses, deaths and        *)
(* recoveries come between its sending and its outcome.                    *)
THEOREM RoomImplementsLedger == Spec => ImplementsLedger
<1>1. Init => Ledger!Init
  BY DEF Init, QueueInit, NoEntry, Rows, Jobs, Begun, InState, Terminal,
         Ledger!Init
<1>2. Inv => RoomInv
  BY DEF Inv
<1> QED
  BY <1>1, <1>2, LedgerStep, InitInv, InvStep, PTL
  DEF Spec, ImplementsLedger, Ledger!Spec

(* What the ledger promises of its outcomes holds of the room: a turn that *)
(* has ended keeps its outcome, and has no other.                          *)
THEOREM RoomOutcomesStand ==
    Spec => /\ [][\A o \in Terminal : InState(o) \subseteq InState(o)']_vars
            /\ [](\A o, q \in Terminal : InState(o) \cap InState(q) # {} => o = q)
<1> DEFINE A == \A o \in Terminal : InState(o) \subseteq InState(o)'
           B == \A o, q \in Terminal : InState(o) \cap InState(q) # {} => o = q
<1>1. Inv /\ [Next]_vars => A
  <2> SUFFICES ASSUME Inv, [Next]_vars, NEW o \in Terminal
               PROVE  InState(o) \subseteq InState(o)'
    OBVIOUS
  <2> DEFINE ended == [q \in Terminal |-> InState(q)]
  <2>1. [Ledger!Next]_(Ledger!vars)
    BY LedgerStep DEF Inv
  <2>2. ended' = ended \/ \E i \in RowId, q \in Terminal :
                             ended' = [ended EXCEPT ![q] = @ \cup {i}]
    BY <2>1 DEF Ledger!Next, Ledger!vars, Ledger!Arrive, Ledger!Begin, Ledger!End
  <2>3. ended[o] \subseteq ended'[o]
    BY <2>2
  <2> QED BY <2>3
<1>2. Inv => B
  <2> SUFFICES ASSUME Inv, NEW o \in Terminal, NEW q \in Terminal,
                      NEW i \in InState(o) \cap InState(q)
               PROVE  o = q
    BY DEF Inv
  <2>1. PICK j \in JournalId : journal[j].state = o /\ journal[j].row = i
    BY InStateIs
  <2>2. PICK k \in JournalId : journal[k].state = q /\ journal[k].row = i
    BY InStateIs
  <2>3. j = k
    BY <2>1, <2>2 DEF Inv, RoomInv, TurnInv, Terminal
  <2> QED BY <2>1, <2>2, <2>3
<1>3. Init => Inv
  BY InitInv
<1> QED BY <1>1, <1>2, <1>3, InvStep, PTL DEF Spec

===============================================================================
