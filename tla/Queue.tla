-------------------------------- MODULE Queue --------------------------------
(***************************************************************************)
(* The Postgres work queue of db/queue.py: the inbox (work waiting to      *)
(* start) and the journal (what happened to it once taken).                *)
(*                                                                         *)
(* Every operator below is the effect of one committed transaction; the    *)
(* modules that EXTEND this one decide who runs it, and between which      *)
(* steps of somebody else.  A row's data is reduced to what the properties *)
(* tell apart: the agent it is for, the return address its payload carries *)
(* (return_to_agent_uuid), why it was enqueued, and the journal row it     *)
(* stems from.                                                             *)
(***************************************************************************)
EXTENDS Naturals

CONSTANTS Role,        \* the agents of agent_config, by uuid
          NoRole,      \* "no return address"
          MaxRows,     \* bound: inbox rows ever inserted
          MaxJournal   \* bound: journal rows ever inserted

ASSUME QueueAssumption ==
    /\ NoRole \notin Role
    /\ MaxRows \in Nat
    /\ MaxJournal \in Nat

VARIABLES rows,         \* every inbox row ever inserted, by its serial id
          nextRow,      \* the next value of the inbox id sequence
          inbox,        \* the ids of the rows still in the inbox table
          journal,      \* the journal table, rows in started_at order
          nextJournal

queueVars == <<rows, nextRow, inbox, journal, nextJournal>>

RowId     == 1..MaxRows
JournalId == 1..MaxJournal

Row == [to  : Role \cup {NoRole},
        ret : Role \cup {NoRole},
        why : {"turn", "envelope", "summary", "none"},
        src : 0..MaxJournal]

NoRow == [to |-> NoRole, ret |-> NoRole, why |-> "none", src |-> 0]

Turn(to, ret)       == [to |-> to, ret |-> ret, why |-> "turn", src |-> 0]
Envelope(to, j)     == [to |-> to, ret |-> NoRole, why |-> "envelope", src |-> j]
SummaryOrder(to, j) == [to |-> to, ret |-> NoRole, why |-> "summary", src |-> j]

Terminal == {"completed", "failed", "stopped"}

(* back is result["_routing"]["return_to_agent_uuid"]: the return address  *)
(* as the journal's RESULT carries it, which is all the routing pass sees. *)
Entry == [row    : 0..MaxRows,
          state  : {"none", "processing"} \cup Terminal,
          back   : Role \cup {NoRole},
          routed : BOOLEAN]

NoEntry == [row |-> 0, state |-> "none", back |-> NoRole, routed |-> FALSE]

QueueTypeOK ==
    /\ rows \in [RowId -> Row]
    /\ nextRow \in 1..(MaxRows + 1)
    /\ inbox \in SUBSET RowId
    /\ journal \in [JournalId -> Entry]
    /\ nextJournal \in 1..(MaxJournal + 1)

QueueInit ==
    /\ rows = [i \in RowId |-> NoRow]
    /\ nextRow = 1
    /\ inbox = {}
    /\ journal = [j \in JournalId |-> NoEntry]
    /\ nextJournal = 1

Enqueue(r) ==
    /\ nextRow \in RowId
    /\ rows' = [rows EXCEPT ![nextRow] = r]
    /\ nextRow' = nextRow + 1
    /\ inbox' = inbox \cup {nextRow}
    /\ UNCHANGED <<journal, nextJournal>>

Pending(agent) == {i \in inbox : rows[i].to = agent}

Oldest(S) == CHOOSE i \in S : \A k \in S : i <= k

(* Mutant: the row stays in the inbox.                                     *)
TakeItemKeeps(i) ==
    /\ nextJournal \in JournalId
    /\ journal' = [journal EXCEPT ![nextJournal] =
                     [row |-> i, state |-> "processing",
                      back |-> NoRole, routed |-> FALSE]]
    /\ nextJournal' = nextJournal + 1
    /\ UNCHANGED <<rows, nextRow, inbox>>

(* The INSERT and DELETE of take_item, on a row a SELECT returned earlier. *)
(* The DELETE of a row somebody else removed meanwhile matches nothing,    *)
(* which the ORM only warns about: the journal row is inserted all the     *)
(* same.                                                                   *)
TakeItem(i) ==
    /\ nextJournal \in JournalId
    /\ inbox' = inbox \ {i}
    /\ journal' = [journal EXCEPT ![nextJournal] =
                     [row |-> i, state |-> "processing",
                      back |-> NoRole, routed |-> FALSE]]
    /\ nextJournal' = nextJournal + 1
    /\ UNCHANGED <<rows, nextRow>>

JournalUpdate(j, state, back) ==
    /\ journal' = [journal EXCEPT ![j].state = state, ![j].back = back]
    /\ UNCHANGED <<rows, nextRow, inbox, nextJournal>>

MarkRouted(j) ==
    /\ journal' = [journal EXCEPT ![j].routed = TRUE]
    /\ UNCHANGED <<rows, nextRow, inbox, nextJournal>>

(* Mutant: only the successful rows are routed.                            *)
UnroutedCompleted ==
    {j \in JournalId : journal[j].state = "completed" /\ ~journal[j].routed}

UnroutedTerminal ==
    {j \in JournalId : /\ journal[j].state \in {"completed", "failed"}
                       /\ ~journal[j].routed}

(***************************************************************************)
(* What every operation keeps.                                             *)
(***************************************************************************)
Rows == 1..(nextRow - 1)
Jobs == 1..(nextJournal - 1)

Agent(j)    == rows[journal[j].row].to     \* the agent a journal row is for
JobOf(j, r) == j \in Jobs /\ Agent(j) = r

(* A row is in the inbox or in one journal entry.                          *)
QueueInv ==
    /\ inbox \subseteq Rows
    /\ \A j \in JournalId : j \in Jobs <=> journal[j].state # "none"
    /\ \A j \in Jobs : journal[j].row \in Rows \ inbox
    /\ \A j, k \in Jobs : journal[j].row = journal[k].row => j = k
    /\ \A i \in Rows \ inbox : \E j \in Jobs : journal[j].row = i

=============================================================================
