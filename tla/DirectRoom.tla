------------------------------ MODULE DirectRoom ------------------------------
(***************************************************************************)
(* A direct room: the operator sends and presses Stop (webapp/chat_api.py, *)
(* cancel_room_turns of db/queue.py), the direct-chat worker answers       *)
(* (agents/direct_chat.py under Agent.run), and both write the room's      *)
(* rows.  One room and its one responder; every queued row is a turn of    *)
(* this room.                                                              *)
(*                                                                         *)
(* Only one worker of a role is alive at a time, and what the supervisor   *)
(* knows of it decides whether its item is recovered: both are module      *)
(* Supervisor's matter, of which this module keeps `known`.  How a running *)
(* model call is cut is module StopWatch's; here a flagged turn may be cut *)
(* at any point of its stream.                                             *)
(***************************************************************************)
EXTENDS Queue, FiniteSets

CONSTANTS DirectChat,   \* DIRECT_CHAT_UUID
          MaxPresses,   \* bound: presses of Stop
          MaxFaults     \* bound: deaths of the worker and of the core, and
                        \*        rows an erring database leaves streaming

ASSUME DirectRoomAssumption ==
    /\ DirectChat \in Role
    /\ MaxPresses \in Nat /\ MaxFaults \in Nat

VARIABLES
    asked,           \* the journal rows with stop_requested_at
    pc, row, job,    \* the worker: statement, inbox row, journal row
    out,             \* the journal state its turn is about to end in
    known,           \* the journal row the supervisor believes it is on
    answer,          \* each turn's streaming row
    bubble,          \* the room has a "working" row
    posting,         \* a send is between its enqueue and its bubble
    spc, seen,       \* a press of Stop: statement, the inbox rows it read
    dropped,         \* the rows presses have deleted
    presses, faults, \* the counters of the bounds
    lost             \* a worker died unknown to any supervisor

workerVars == <<pc, row, job, out>>
pressVars  == <<spc, seen, dropped, presses>>
roomVars   == <<answer, bubble>>
faultVars  == <<faults, lost>>
vars == <<queueVars, asked, workerVars, known, roomVars, posting, pressVars,
          faultVars>>

NoJob == 0
On    == {"taken", "reported", "streaming", "notice", "ended"}

Processing == {j \in JournalId : journal[j].state = "processing"}

TypeOK ==
    /\ QueueTypeOK
    /\ asked \in SUBSET JournalId
    /\ pc \in {"none", "poll", "picked"} \cup On
    /\ row \in 0..MaxRows
    /\ job \in 0..MaxJournal
    /\ out \in {"none"} \cup Terminal
    /\ known \in 0..MaxJournal
    /\ answer \in [JournalId -> {"none", "streaming", "settled"}]
    /\ bubble \in BOOLEAN /\ posting \in BOOLEAN
    /\ spc \in {"idle", "cancel", "settle", "notice"}
    /\ seen \in SUBSET RowId /\ dropped \in SUBSET RowId
    /\ presses \in 0..MaxPresses /\ faults \in 0..MaxFaults
    /\ lost \in BOOLEAN
    /\ pc = "picked" => row \in RowId
    /\ pc \in On => job \in JournalId

Init ==
    /\ QueueInit
    /\ asked = {} /\ known = NoJob
    /\ pc = "none" /\ row = 0 /\ job = NoJob /\ out = "none"
    /\ answer = [j \in JournalId |-> "none"]
    /\ bubble = FALSE /\ posting = FALSE
    /\ spc = "idle" /\ seen = {} /\ dropped = {}
    /\ presses = 0 /\ faults = 0 /\ lost = FALSE

-----------------------------------------------------------------------------
(***************************************************************************)
(* The operator sends: the turn first, the working bubble second.          *)
(***************************************************************************)
Send ==
    /\ ~posting /\ posting' = TRUE
    /\ Enqueue(Turn(DirectChat, NoRole))
    /\ UNCHANGED <<asked, workerVars, known, roomVars, pressVars, faultVars>>

PostBubble ==
    /\ posting /\ posting' = FALSE
    /\ bubble' = TRUE
    /\ UNCHANGED <<queueVars, asked, workerVars, known, answer, pressVars,
                   faultVars>>

-----------------------------------------------------------------------------
(***************************************************************************)
(* The operator presses Stop.  cancel_room_turns is one transaction, but   *)
(* each of its statements sees what others have committed meanwhile: it    *)
(* first reads the inbox, then deletes the rows it has read, then reads    *)
(* the journal rows to flag.                                               *)
(***************************************************************************)
ReadInbox ==
    /\ spc = "idle" /\ presses < MaxPresses
    /\ presses' = presses + 1
    /\ seen' = Pending(DirectChat)
    /\ spc' = "cancel"
    /\ UNCHANGED <<queueVars, asked, workerVars, known, roomVars, posting,
                   dropped, faultVars>>

(* Mutant: the journal is looked at only if the inbox had nothing.         *)
CancelEither ==
    /\ spc = "cancel"
    /\ inbox' = inbox \ seen
    /\ dropped' = dropped \cup (inbox \cap seen)
    /\ asked' = IF seen = {} THEN asked \cup Processing ELSE asked
    /\ spc' = IF asked' = {} THEN "settle" ELSE "idle"
    /\ UNCHANGED <<rows, nextRow, journal, nextJournal, workerVars, known,
                   roomVars, posting, seen, presses, faultVars>>

(* A row read above and taken meanwhile is deleted by nobody, counted all  *)
(* the same, and found in the journal.                                     *)
Cancel ==
    /\ spc = "cancel"
    /\ inbox' = inbox \ seen
    /\ dropped' = dropped \cup (inbox \cap seen)
    /\ asked' = asked \cup Processing
    /\ spc' = IF Processing = {} THEN "settle" ELSE "idle"
    /\ UNCHANGED <<rows, nextRow, journal, nextJournal, workerVars, known,
                   roomVars, posting, seen, presses, faultVars>>

(* Nothing was signalled: settle_streaming_rows, in its own transaction.   *)
SettleRows ==
    /\ spc = "settle"
    /\ answer' = [j \in JournalId |->
                    IF answer[j] = "streaming" THEN "settled" ELSE answer[j]]
    /\ spc' = "notice"
    /\ UNCHANGED <<queueVars, asked, workerVars, known, bubble, posting, seen,
                   dropped, presses, faultVars>>

(* The stop notice reaps the bubble; without anything to stop, none.       *)
StopNotice ==
    /\ spc = "notice"
    /\ bubble' = FALSE
    /\ spc' = "idle"
    /\ UNCHANGED <<queueVars, asked, workerVars, known, answer, posting, seen,
                   dropped, presses, faultVars>>

-----------------------------------------------------------------------------
(***************************************************************************)
(* The worker.                                                             *)
(***************************************************************************)
Spawn ==
    /\ pc = "none" /\ known = NoJob /\ Pending(DirectChat) # {}
    /\ pc' = "poll"
    /\ UNCHANGED <<queueVars, asked, row, job, out, known, roomVars, posting,
                   pressVars, faultVars>>

Poll ==
    /\ pc = "poll"
    /\ IF Pending(DirectChat) = {}
       THEN pc' = "none" /\ UNCHANGED row
       ELSE pc' = "picked" /\ row' = Oldest(Pending(DirectChat))
    /\ UNCHANGED <<queueVars, asked, job, out, known, roomVars, posting,
                   pressVars, faultVars>>

Take ==
    /\ pc = "picked" /\ pc' = "taken"
    /\ job' = nextJournal
    /\ TakeItem(row)
    /\ UNCHANGED <<asked, row, out, known, roomVars, posting, pressVars,
                   faultVars>>

Report ==
    /\ pc = "taken" /\ pc' = "reported"
    /\ known' = job
    /\ UNCHANGED <<queueVars, asked, row, job, out, roomVars, posting,
                   pressVars, faultVars>>

(* handle() without a model (a notice, and the turn completes), or with an *)
(* error ahead of the stream, which is only journaled.                     *)
Refuse ==
    /\ pc = "reported"
    /\ \/ pc' = "notice" /\ out' = "completed"
       \/ pc' = "ended" /\ out' = "failed"
    /\ UNCHANGED <<queueVars, asked, row, job, known, roomVars, posting,
                   pressVars, faultVars>>

(* The first token creates a row (of the answer, which reaps the bubble,   *)
(* or of the reasoning, which does not); each flush writes text and        *)
(* streaming flag anew, whatever a press has made of it.                   *)
Flush ==
    /\ pc \in {"reported", "streaming"} /\ pc' = "streaming"
    /\ answer' = [answer EXCEPT ![job] = "streaming"]
    /\ bubble' \in {bubble, FALSE}
    /\ UNCHANGED <<queueVars, asked, row, job, out, known, posting, pressVars,
                   faultVars>>

Settled == [answer EXCEPT ![job] = IF @ = "none" THEN "none" ELSE "settled"]

(* The stream ends: the rows are settled (an answer found in the reasoning *)
(* first gets its row), and the turn completes, with no row at all if the  *)
(* model sent nothing.                                                     *)
Finish ==
    /\ pc \in {"reported", "streaming"} /\ pc' = "ended"
    /\ out' = "completed"
    /\ answer' = Settled
    /\ bubble' \in {bubble, bubble /\ pc = "reported"}
    /\ UNCHANGED <<queueVars, asked, row, job, known, posting, pressVars,
                   faultVars>>

(* Mutant: the rows are left streaming.                                    *)
CutUnsettled(outcome) ==
    /\ pc \in {"reported", "streaming"} /\ pc' = "notice"
    /\ outcome = "stopped" => job \in asked
    /\ out' = outcome
    /\ UNCHANGED <<queueVars, asked, row, job, known, roomVars, posting,
                   pressVars, faultVars>>

(* It is cut: by the operator, if this very journal row is flagged, or by  *)
(* an error.  The rows are settled, then a notice is posted, both at best: *)
(* an error there is only logged.                                          *)
Cut(outcome) ==
    /\ pc \in {"reported", "streaming"} /\ pc' = "notice"
    /\ outcome = "stopped" => job \in asked
    /\ out' = outcome
    /\ \/ answer' = Settled /\ UNCHANGED faults
       \/ UNCHANGED answer /\ faults < MaxFaults /\ faults' = faults + 1
    /\ UNCHANGED <<queueVars, asked, row, job, known, bubble, posting,
                   pressVars, lost>>

PostNotice ==
    /\ pc = "notice" /\ pc' = "ended"
    /\ bubble' \in {bubble, FALSE}
    /\ UNCHANGED <<queueVars, asked, row, job, out, known, answer, posting,
                   pressVars, faultVars>>

(* Agent.run: the journal row's outcome, and the status message.           *)
Journal ==
    /\ pc = "ended" /\ pc' = "poll"
    /\ JournalUpdate(job, out, NoRole)
    /\ row' = 0 /\ job' = NoJob /\ out' = "none" /\ known' = NoJob
    /\ UNCHANGED <<asked, roomVars, posting, pressVars, faultVars>>

-----------------------------------------------------------------------------
(***************************************************************************)
(* Deaths, and the recovery of what the supervisor knew.                   *)
(***************************************************************************)
Vanish == pc' = "none" /\ row' = 0 /\ job' = NoJob /\ out' = "none"

Die ==
    /\ pc # "none"
    /\ faults < MaxFaults /\ faults' = faults + 1
    /\ lost' = (lost \/ pc = "taken")
    /\ Vanish
    /\ UNCHANGED <<queueVars, asked, known, roomVars, posting, pressVars>>

(* The core goes down and takes the worker and its own memory along.       *)
Outage ==
    /\ faults < MaxFaults /\ faults' = faults + 1
    /\ lost' = (lost \/ Processing # {})
    /\ Vanish
    /\ known' = NoJob
    /\ UNCHANGED <<queueVars, asked, roomVars, posting, pressVars>>

(* Mutant: the dead worker's item is forgotten with it.                    *)
RecoverNothing ==
    /\ pc = "none" /\ known # NoJob /\ known' = NoJob
    /\ UNCHANGED <<queueVars, asked, workerVars, roomVars, posting, pressVars,
                   faultVars>>

(* The reaping: fail_journal_if_processing.                                *)
Recover ==
    /\ pc = "none" /\ known # NoJob /\ known' = NoJob
    /\ IF journal[known].state = "processing"
       THEN JournalUpdate(known, "failed", NoRole)
       ELSE UNCHANGED queueVars
    /\ UNCHANGED <<asked, workerVars, roomVars, posting, pressVars, faultVars>>

-----------------------------------------------------------------------------
Press  == Cancel \/ SettleRows \/ StopNotice
Worker == Spawn \/ Poll \/ Take \/ Report \/ PostNotice \/ Journal \/ Recover

Next ==
    \/ Send \/ PostBubble \/ ReadInbox \/ Press
    \/ Worker \/ Refuse \/ Flush \/ Finish
    \/ \E o \in {"failed", "stopped"} : Cut(o)
    \/ Die \/ Outage

Spec == Init /\ [][Next]_vars

(* Web threads run to their end; a worker does all but hear from its       *)
(* model, which nothing guarantees; a flagged turn ends (module StopWatch, *)
(* StopTakesEffect).                                                       *)
Fairness ==
    /\ WF_vars(Press) /\ WF_vars(PostBubble) /\ WF_vars(Worker)
    /\ WF_vars(job \in asked /\ (Finish \/ Cut("failed") \/ Cut("stopped")))

FairSpec == Spec /\ Fairness

-----------------------------------------------------------------------------
(***************************************************************************)
(* Properties.                                                             *)
(***************************************************************************)
(* No turn is lost: out of the inbox, it has been deleted by a press or    *)
(* has one journal row.                                                    *)
TurnInv ==
    /\ inbox \subseteq Rows /\ seen \subseteq Rows
    /\ dropped \subseteq Rows \ inbox
    /\ \A j \in JournalId : j \in Jobs <=> journal[j].state # "none"
    /\ \A j \in Jobs : journal[j].row \in Rows \ inbox
    /\ \A j, k \in Jobs : journal[j].row = journal[k].row => j = k
    /\ \A i \in Rows \ (inbox \cup dropped) : \E j \in Jobs : journal[j].row = i

(* A row about to be taken is still there, or a press has deleted it       *)
(* meanwhile; an item in 'processing' is the worker's, or known to be      *)
(* recovered, unless a worker died unknown.                                *)
WorkInv ==
    /\ asked \subseteq Jobs
    /\ known # NoJob => known \in Jobs
    /\ pc = "picked" => /\ row \in inbox \cup dropped
                        /\ \A j \in Jobs : journal[j].row # row
    /\ pc \in On => job \in Jobs /\ journal[job].state = "processing"
    /\ pc \in On \ {"taken"} => known = job
    /\ pc \in {"poll", "picked", "taken"} => known = NoJob
    /\ pc \in {"notice", "ended"} => out \in Terminal
    /\ \A j \in Processing : (pc \in On /\ job = j) \/ known = j \/ lost

Begun == {journal[j].row : j \in Jobs}

(* What a press cannot take back: it deletes a row the worker has already  *)
(* read, and take_item journals the row all the same.  One worker reads    *)
(* one row at a time, so that each press lets at most one deleted turn run.*)
DroppedInv ==
    Cardinality(dropped \cap Begun)
        + (IF pc = "picked" /\ row \in dropped THEN 1 ELSE 0)
      <= presses - (IF spc = "cancel" THEN 1 ELSE 0)

IndInv == TypeOK /\ TurnInv /\ WorkInv /\ DroppedInv

(* A blinking cursor has somebody behind it: a row is streaming only while *)
(* a worker is on its turn, unless a worker has died or its settling has   *)
(* failed, although a press of Stop may settle rows a worker goes on       *)
(* writing.                                                                *)
CursorHasWorker ==
    faults = 0 =>
        \A j \in JournalId :
            answer[j] = "streaming" => pc = "streaming" /\ job = j

(* Once a press has committed, every queued turn it read is deleted, or,   *)
(* taken meanwhile, is flagged or over: none slips between the reading of  *)
(* the inbox and the reading of the journal (cancel_room_turns).           *)
StopCoversSeen ==
    spc # "cancel" =>
        \A i \in seen :
            \/ i \in dropped
            \/ \E j \in Jobs : journal[j].row = i
                              /\ (j \in asked \/ journal[j].state \in Terminal)

(* A flagged turn ends, even with a silent model: its worker cuts it, or   *)
(* dies and is recovered; only a death no supervisor knew of leaves it.    *)
AskedEnds ==
    \A j \in JournalId :
        j \in asked ~> journal[j].state # "processing" \/ lost

(* What the design note of the Stop button says of a queued turn:          *)
(* "take_item and the API race for the same row; whichever commits first   *)
(* wins".  A deleted turn is not taken.                                    *)
DroppedNeverRuns == \A j \in Jobs : journal[j].row \notin dropped

(* What the comment of _maybe_trigger_direct_chat says of the working      *)
(* bubble: the responder's "own first answer row (or its failure notice)   *)
(* reaps it".  When all turns have completed, none is left.                *)
BubbleIsReaped ==
    /\ ~posting /\ pc = "poll" /\ inbox = {}
    /\ \A j \in Jobs : journal[j].state = "completed"
    => ~bubble

-----------------------------------------------------------------------------
(***************************************************************************)
(* The room implements the ledger: a turn is begun once and ends once,     *)
(* whatever the presses delete under the worker's hands.  A row a press    *)
(* has deleted counts as waiting still, since a worker that had read it    *)
(* may yet begin it (DroppedInv).                                          *)
(***************************************************************************)
InState(s) == {journal[j].row : j \in {k \in JournalId : journal[k].state = s}}

Ledger == INSTANCE TurnLedger WITH
    Id <- RowId, Outcome <- Terminal,
    waiting <- Rows \ Begun,
    working <- InState("processing"),
    ended <- [o \in Terminal |-> InState(o)]

(* No turn of the room is answered twice, and none loses its outcome to a  *)
(* press or to a recovery (take_item, journal_update and                   *)
(* fail_journal_if_processing beside cancel_room_turns).                   *)
ImplementsLedger == Ledger!Spec
===============================================================================
