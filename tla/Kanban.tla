-------------------------------- MODULE Kanban --------------------------------
(***************************************************************************)
(* db/kanban.py and tools/kanban_runner.py: cards that agents claim for a  *)
(* time, work on and complete, while a page moves, reassigns and deletes   *)
(* the same cards.                                                         *)
(*                                                                         *)
(* The workers and the web server are processes of their own; what they    *)
(* share are the rows.  An operation is one transaction, but it judges a   *)
(* lease by the clock it read when it began (`old`), and what it read      *)
(* without a lock (`seen`) may no longer be so when it writes.             *)
(***************************************************************************)
EXTENDS Naturals, FiniteSets

CONSTANTS Agent, Task,
          Verified,     \* the agents whose own "ok" is final
          Web,          \* requests the web server serves at once
          NoOne, NoTask,
          MaxRuns,      \* bound: presses of Run
          MaxRequests,  \* bound: operations over HTTP
          MaxSaves,     \* bound: saves of the page
          MaxKills      \* bound: workers killed

ASSUME KanbanAssumption ==
    /\ Verified \subseteq Agent /\ Agent \cap Web = {}
    /\ NoOne \notin Agent /\ NoTask \notin Task
    /\ {MaxRuns, MaxRequests, MaxSaves, MaxKills} \subseteq Nat

VARIABLES
    row,      \* the kanban_task rows
    inbox,    \* the Run items in the agents' inboxes
    op,       \* the operation a process is in the middle of
    work,     \* the card a worker works on
    page,     \* the page: what it loaded, what it saves
    count,    \* the counters of the bounds
    spoilt,   \* cards whose lease did not last until its worker was done
    loose     \* agents that have been killed, or claimed over HTTP

vars == <<row, inbox, op, work, page, count, spoilt, loose>>

Column == {"todo", "review", "done", "gone"}      \* gone: no such row
Board  == [Task -> [col: Column, for: Agent \cup {NoOne}]]

Row == [col: Column, for: Agent \cup {NoOne},     \* the assignee
        by: Agent \cup {NoOne}, lease: {"none", "live", "expired"}]

Gone == [col |-> "gone", for |-> NoOne, by |-> NoOne, lease |-> "none"]

Process == Agent \cup Web

Op == [do: {"none", "run", "claim", "next", "release", "renew", "complete"},
       as: Agent \cup {NoOne}, task: Task \cup {NoTask}, old: SUBSET Task,
       seen: Row, to: Column]

NoOp == [do |-> "none", as |-> NoOne, task |-> NoTask, old |-> {},
         seen |-> Gone, to |-> "gone"]

Empty  == [t \in Task |-> [col |-> "gone", for |-> NoOne]]
NoPage == [step |-> "none", base |-> Empty, old |-> Empty, new |-> Empty]

Bound == [runs |-> MaxRuns, requests |-> MaxRequests, saves |-> MaxSaves,
          kills |-> MaxKills]

TypeOK ==
    /\ row \in [Task -> Row]
    /\ inbox \in [Agent -> [Task -> Nat]]
    /\ op \in [Process -> Op]
    /\ work \in [Agent -> Task \cup {NoTask}]
    /\ page \in [step: {"none", "loaded", "put", "checked", "read"},
                base: Board, old: Board, new: Board]
    /\ count \in [runs: 0..MaxRuns, requests: 0..MaxRequests,
                  saves: 0..MaxSaves, kills: 0..MaxKills]
    /\ spoilt \in SUBSET Task /\ loose \in SUBSET Agent

Init ==
    /\ row \in [Task -> {[Gone EXCEPT !.col = "todo", !.for = a] : a \in Agent}]
    /\ inbox = [a \in Agent |-> [t \in Task |-> 0]]
    /\ op = [x \in Process |-> NoOp]
    /\ work = [a \in Agent |-> NoTask]
    /\ page = NoPage
    /\ count = [runs |-> 0, requests |-> 0, saves |-> 0, kills |-> 0]
    /\ spoilt = {} /\ loose = {}

Counted(b) == count[b] < Bound[b] /\ count' = [count EXCEPT ![b] = @ + 1]

-----------------------------------------------------------------------------
(***************************************************************************)
(* Leases.                                                                 *)
(***************************************************************************)
(* Time passes: claim_expires_at is no longer in the future.               *)
Expire(t) ==
    /\ row[t].lease = "live"
    /\ row' = [row EXCEPT ![t].lease = "expired"]
    /\ spoilt' = spoilt \cup {t}
    /\ UNCHANGED <<inbox, op, work, page, count, loose>>

Started(do, a, t) ==
    [NoOp EXCEPT !.do = do, !.as = a, !.task = t,
                 !.old = {u \in Task : row[u].lease = "expired"}]

(* _lease_live, with the `now` of the operation.                           *)
Live(x, t) == row[t].lease # "none" /\ t \notin op[x].old

(* Mutant: whoever claims gets it.                                         *)
MayTakeAny(x, t) == row[t].col # "gone"

MayTake(x, t) == row[t].col # "gone" /\ ~(Live(x, t) /\ row[t].by # op[x].as)

Others(x, t) == {b \in Agent \ {x} : work[b] = t}

(* The new lease ends later than any clock that has been read so far.      *)
Leased(x, t) ==
    /\ row' = [row EXCEPT ![t].by = op[x].as, ![t].lease = "live"]
    /\ op' = [y \in Process |-> IF y = x THEN NoOp
                                ELSE [op[y] EXCEPT !.old = @ \ {t}]]

Ends(x) == op' = [op EXCEPT ![x] = NoOp]

Refused(x) == Ends(x) /\ UNCHANGED <<row, inbox, work, page, count, spoilt, loose>>

-----------------------------------------------------------------------------
(***************************************************************************)
(* A worker: run_kanban_task.                                              *)
(***************************************************************************)
(* The worker takes a Run item; the claim reads the clock.                 *)
TakeRun(a, t) ==
    /\ op[a].do = "none" /\ work[a] = NoTask /\ inbox[a][t] > 0
    /\ inbox' = [inbox EXCEPT ![a][t] = @ - 1]
    /\ op' = [op EXCEPT ![a] = Started("claim", a, t)]
    /\ UNCHANGED <<row, work, page, count, spoilt, loose>>

(* kanban_claim_task, under the row's lock.                                *)
Claim(x) ==
    LET t == op[x].task IN
    /\ op[x].do = "claim" /\ MayTake(x, t)
    /\ Leased(x, t)
    /\ IF x \in Agent
       THEN /\ work' = [work EXCEPT ![x] = t]
            /\ spoilt' = IF Others(x, t) = {} THEN spoilt \ {t} ELSE spoilt
            /\ UNCHANGED loose
       ELSE loose' = loose \cup {op[x].as} /\ UNCHANGED <<work, spoilt>>
    /\ UNCHANGED <<inbox, page, count>>

ClaimRefused(x) ==      \* a conflict, or the card is gone: skipped
    /\ op[x].do = "claim" /\ ~MayTake(x, op[x].task)
    /\ Refused(x)

(* kanban_dispatch: Review before Done for the unverified.                 *)
Target(a) == IF a \in Verified THEN "done" ELSE "review"

(* kanban_complete_task reads the row, without a lock.                     *)
Reported(a, t, to) ==
    [NoOp EXCEPT !.do = "complete", !.as = a, !.task = t, !.seen = row[t],
                 !.to = to]

Report(a) ==
    LET t == work[a] IN
    /\ t # NoTask /\ op[a].do = "none" /\ row[t].col # "gone"
    /\ \E to \in {row[t].col, Target(a)} :      \* failed, or ok
         op' = [op EXCEPT ![a] = Reported(a, t, to)]
    /\ UNCHANGED <<row, inbox, work, page, count, spoilt, loose>>

ReportToNobody(a) ==
    /\ work[a] # NoTask /\ op[a].do = "none" /\ row[work[a]].col = "gone"
    /\ work' = [work EXCEPT ![a] = NoTask]
    /\ UNCHANGED <<row, inbox, op, page, count, spoilt, loose>>

Idle(x) == IF x \in Agent THEN work' = [work EXCEPT ![x] = NoTask]
                          ELSE UNCHANGED work

(* Mutant: a failure keeps the lease, to be renewed by the next attempt.   *)
KeepsOnFailure(s, to, r) ==
    [r EXCEPT !.by    = IF s.by # NoOne /\ to # s.col THEN NoOne ELSE @,
              !.lease = IF s.by # NoOne /\ to # s.col THEN "none" ELSE @,
              !.col   = IF to # s.col THEN to ELSE @]

(* What the ORM writes are the fields that differ from what was read.      *)
Completed(s, to, r) ==
    [r EXCEPT !.by    = IF s.by # NoOne THEN NoOne ELSE @,
              !.lease = IF s.by # NoOne THEN "none" ELSE @,
              !.col   = IF to # s.col THEN to ELSE @]

(* kanban_complete_task writes.  If the row is gone by now that is an      *)
(* error, after which the worker is as idle as after a success.            *)
Complete(x) ==
    LET t == op[x].task
        s == op[x].seen
    IN
    /\ op[x].do = "complete"
    /\ row' = IF row[t].col = "gone" THEN row
              ELSE [row EXCEPT ![t] = Completed(s, op[x].to, @)]
    /\ spoilt' = IF s.by # NoOne /\ Others(x, t) # {} THEN spoilt \cup {t}
                                                      ELSE spoilt
    /\ Ends(x) /\ Idle(x)
    /\ UNCHANGED <<inbox, page, count, loose>>

(* The supervisor kills a worker; its item is not repeated.                *)
Kill(a) ==
    /\ op[a].do # "none" \/ work[a] # NoTask
    /\ Counted("kills")
    /\ Ends(a) /\ work' = [work EXCEPT ![a] = NoTask]
    /\ loose' = loose \cup {a}
    /\ UNCHANGED <<row, inbox, page, spoilt>>

-----------------------------------------------------------------------------
(***************************************************************************)
(* Requests over HTTP.  They name the agent they act for.                  *)
(***************************************************************************)
Begin(w, o) ==
    /\ op[w].do = "none" /\ Counted("requests")
    /\ op' = [op EXCEPT ![w] = o]
    /\ UNCHANGED <<row, inbox, work, page, spoilt, loose>>

Request(w, a, t) ==
    \/ \E do \in {"claim", "release", "renew"} : Begin(w, Started(do, a, t))
    \/ Begin(w, Started("next", a, NoTask))
    \/ /\ row[t].col # "gone"
       /\ \E to \in {row[t].col, "done"} : Begin(w, Reported(a, t, to))

(* kanban_release_task: a live lease by its holder, any other by anyone.   *)
Release(x) ==
    LET t == op[x].task IN
    /\ op[x].do = "release" /\ MayTake(x, t) /\ row[t].by # NoOne
    /\ row' = [row EXCEPT ![t].by = NoOne, ![t].lease = "none"]
    /\ Ends(x)
    /\ spoilt' = spoilt \cup {t}
    /\ UNCHANGED <<inbox, work, page, count, loose>>

ReleaseRefused(x) ==
    /\ op[x].do = "release"
    /\ ~MayTake(x, op[x].task) \/ row[op[x].task].by = NoOne
    /\ Refused(x)

(* Mutant: whoever renews holds it.                                        *)
RenewAnyones(x) ==
    /\ op[x].do = "renew" /\ row[op[x].task].by # NoOne
    /\ Leased(x, op[x].task)
    /\ UNCHANGED <<inbox, work, page, count, spoilt, loose>>

(* kanban_renew_claim: the holder's, expired or not.                       *)
Renew(x) ==
    /\ op[x].do = "renew" /\ row[op[x].task].by = op[x].as
    /\ Leased(x, op[x].task)
    /\ UNCHANGED <<inbox, work, page, count, spoilt, loose>>

RenewRefused(x) ==
    /\ op[x].do = "renew" /\ row[op[x].task].by # op[x].as
    /\ Refused(x)

(* kanban_claim_next: SKIP LOCKED passes over rows that other operations   *)
(* have locked; of the others, the best by lease and assignment.           *)
Eligible(x, t) ==
    /\ MayTake(x, t) /\ row[t].col # "done"
    /\ row[t].for \in {op[x].as, NoOne}

Resumes(x, t) == Live(x, t) /\ row[t].by = op[x].as

Locking(t, x) ==
    \/ \E y \in Process \ {x} : op[y].task = t /\ op[y].do # "run"
    \/ page.step = "read" /\ page.new[t] # page.old[t]

Better(x, t, u) ==
    \/ Resumes(x, t) /\ ~Resumes(x, u)
    \/ /\ Resumes(x, t) = Resumes(x, u)
       /\ row[t].for # NoOne /\ row[u].for = NoOne

ClaimNext(x, t) ==
    /\ op[x].do = "next" /\ Eligible(x, t)
    /\ \A u \in Task : Eligible(x, u) /\ Better(x, u, t) => Locking(u, x)
    /\ Leased(x, t)
    /\ loose' = loose \cup {op[x].as}
    /\ UNCHANGED <<inbox, work, page, count, spoilt>>

ClaimNothing(x) ==
    /\ op[x].do = "next" /\ \A t \in Task : Eligible(x, t) => Locking(t, x)
    /\ Refused(x)

(* kanban_move_task; the assistant moves cards too.                        *)
Move(t) ==
    /\ row[t].col # "gone" /\ Counted("requests")
    /\ \E c \in {"todo", "review", "done"} : row' = [row EXCEPT ![t].col = c]
    /\ UNCHANGED <<inbox, op, work, page, spoilt, loose>>

(* Run: kanban_enqueue_task checks the lease, without a lock, ...          *)
Run(w, t) ==
    /\ row[t].for # NoOne /\ row[t].lease # "live"
    /\ row[t].col # "gone"
    /\ op[w].do = "none" /\ Counted("runs")
    /\ op' = [op EXCEPT ![w] = Started("run", row[t].for, t)]
    /\ UNCHANGED <<row, inbox, work, page, spoilt, loose>>

(* ... and enqueues.                                                       *)
Enqueue(w) ==
    /\ op[w].do = "run"
    /\ inbox' = [inbox EXCEPT ![op[w].as][op[w].task] = @ + 1]
    /\ Ends(w)
    /\ UNCHANGED <<row, work, page, count, spoilt, loose>>

-----------------------------------------------------------------------------
(***************************************************************************)
(* The page: it loads the board and puts back the whole of it.             *)
(***************************************************************************)
User(r) == [col |-> r.col, for |-> r.for]   \* what kanban_board_version is of
Users == [t \in Task |-> User(row[t])]

PageDoes(step) == page.step = step /\ UNCHANGED <<inbox, op, work, loose>>

Load ==
    /\ PageDoes("none") /\ count.saves < MaxSaves
    /\ page' = [step |-> "loaded", base |-> Users, old |-> Users, new |-> Users]
    /\ UNCHANGED <<row, count, spoilt>>

(* One card is moved, reassigned or deleted.                               *)
Edit(t) ==
    /\ PageDoes("loaded") /\ Counted("saves")
    /\ page.base[t].col # "gone"
    /\ \E u \in ({"todo", "review", "done"} \X Agent) \cup {<<"gone", NoOne>>} :
         page' = [page EXCEPT !.step = "put",
                              !.new[t] = [col |-> u[1], for |-> u[2]]]
    /\ UNCHANGED <<row, spoilt>>

(* kanban_save_board.  A stale version: 409, and the page loads again.     *)
Check ==
    /\ PageDoes("put")
    /\ page' = IF page.base = Users THEN [page EXCEPT !.step = "checked"]
                                    ELSE NoPage
    /\ UNCHANGED <<row, count, spoilt>>

Read ==
    /\ PageDoes("checked")
    /\ page' = [page EXCEPT !.step = "read", !.old = Users]
    /\ UNCHANGED <<row, count, spoilt>>

Kept(t)     == page.new[t].col # "gone" /\ page.old[t].col # "gone"
Inserted(t) == page.new[t].col # "gone" /\ page.old[t].col = "gone"
Deleted(t)  == page.new[t].col = "gone" /\ page.old[t].col # "gone"

(* Mutant: whole rows are written, as they were read.                      *)
SavedWhole(t) ==
    CASE Deleted(t)  -> Gone
      [] Inserted(t) \/ Kept(t) ->
            [Gone EXCEPT !.col = page.new[t].col, !.for = page.new[t].for]
      [] OTHER -> row[t]

(* A row somebody deleted before the read is inserted again.  Of a row     *)
(* that is kept, the fields that differ from what was read are written.    *)
Saved(t) ==
    CASE Deleted(t)  -> Gone
      [] Inserted(t) -> [Gone EXCEPT !.col = page.new[t].col,
                                     !.for = page.new[t].for]
      [] Kept(t)     ->
            [row[t] EXCEPT
               !.col = IF page.new[t].col # page.old[t].col THEN page.new[t].col
                                                            ELSE @,
               !.for = IF page.new[t].for # page.old[t].for THEN page.new[t].for
                                                            ELSE @]
      [] OTHER -> row[t]

Written(t) == page.new[t] # page.old[t]

(* An update that matches no row fails the whole save.                     *)
Write ==
    /\ PageDoes("read") /\ page' = NoPage
    /\ IF \E t \in Task : Kept(t) /\ Written(t) /\ row[t].col = "gone"
       THEN UNCHANGED <<row, spoilt>>
       ELSE /\ row' = [t \in Task |-> Saved(t)]
            /\ spoilt' = spoilt \cup {t \in Task : Deleted(t) \/ Inserted(t)}
    /\ UNCHANGED count

-----------------------------------------------------------------------------
Worker(a) ==
    \/ \E t \in Task : TakeRun(a, t)
    \/ Report(a) \/ ReportToNobody(a) \/ Kill(a)

Operation(x) ==
    \/ Claim(x) \/ ClaimRefused(x) \/ Complete(x)
    \/ Release(x) \/ ReleaseRefused(x) \/ Renew(x) \/ RenewRefused(x)
    \/ \E t \in Task : ClaimNext(x, t)
    \/ ClaimNothing(x)

Next ==
    \/ \E t \in Task : Expire(t) \/ Move(t) \/ Edit(t)
    \/ \E a \in Agent : Worker(a)
    \/ \E x \in Process : Operation(x)
    \/ \E w \in Web, t \in Task : Run(w, t) \/ (\E a \in Agent : Request(w, a, t))
    \/ \E w \in Web : Enqueue(w)
    \/ Load \/ Check \/ Read \/ Write

Spec == Init /\ [][Next]_vars

-----------------------------------------------------------------------------
(***************************************************************************)
(* Properties.                                                             *)
(***************************************************************************)
(* What a process knows while it is in the middle of an operation.         *)
OpInv ==
    /\ \A x \in Process : op[x].do \notin {"none", "next"} => op[x].task \in Task
    /\ \A x \in Process : op[x].do # "none" => op[x].as \in Agent
    /\ \A x \in Process : op[x].do = "complete" => op[x].to # "gone"
    /\ \A x \in Process : \A t \in op[x].old : row[t].lease # "live"
    /\ \A a \in Agent :
         /\ op[a].do \in {"none", "claim", "complete"}
         /\ op[a].do # "none" => op[a].as = a
         /\ op[a].do = "claim" => work[a] = NoTask
         /\ op[a].do = "complete" => work[a] = op[a].task

RowInv(t) ==
    /\ row[t].by = NoOne <=> row[t].lease = "none"
    /\ row[t].col = "gone" => row[t].by = NoOne

(* A worker whose lease has lasted still holds it.                         *)
HolderInv ==
    \A a \in Agent, t \in Task :
        work[a] = t /\ t \notin spoilt => row[t].by = a /\ row[t].lease = "live"

(* A lease belongs to a worker that is at it and will give it back: a      *)
(* completion under way has seen it.                                       *)
ReturnInv ==
    \A a \in Agent \ loose, t \in Task :
        row[t].by = a => /\ work[a] = t
                         /\ op[a].do = "complete" => op[a].seen.by # NoOne

IndInv ==
    /\ TypeOK /\ OpInv /\ HolderInv /\ ReturnInv
    /\ \A t \in Task : RowInv(t)

(* Two agents are at work on one card only if the lease of one has expired *)
(* meanwhile, or was released or completed or deleted by somebody else     *)
(* (kanban.py:1030, "so concurrent claims serialize and exactly one wins"; *)
(* two Run items of one card, its reassignment and late workers included). *)
Exclusive ==
    \A t \in Task \ spoilt, a, b \in Agent : work[a] = t /\ work[b] = t => a = b

(* A worker that was not killed leaves no lease behind, whatever became of *)
(* its card meanwhile (kanban-design.md: "The lease is released on every   *)
(* path").                                                                 *)
LeaseReturned ==
    \A a \in Agent \ loose : work[a] = NoTask => \A t \in Task : row[t].by # a

(* A live lease is not handed on.  It ends by its holder, by a completion, *)
(* or with its row (kanban.py:1061, 1087), whatever clocks the operations  *)
(* had read before they got the row's lock.                                *)
EndsLease(t) ==
    \/ \E x \in Process :
         /\ op[x].task = t /\ op'[x].do = "none"
         /\ op[x].do = "complete" \/ op[x].as = row[t].by
    \/ page.step = "read" /\ (Deleted(t) \/ Inserted(t))

LiveLeaseStands ==
    [][\A t \in Task :
         row[t].lease = "live" /\ row'[t].by # row[t].by
           => row'[t].by = NoOne /\ EndsLease(t)]_vars

===============================================================================
