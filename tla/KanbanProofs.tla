------------------------------ MODULE KanbanProofs ------------------------------
(***************************************************************************)
(* The leases of the kanban cards, for any agents, cards, requests and     *)
(* bounds: a live lease is not handed on, two agents at work on one card   *)
(* are accounted for, and workers leave no lease behind.                   *)
(***************************************************************************)
EXTENDS Kanban, TLAPS

USE DEF PageDoes, Ends

-----------------------------------------------------------------------------
(* Types.                                                                  *)
LEMMA NoOpType == NoOp \in Op /\ Gone \in Row /\ Empty \in Board
<1>1. Gone \in Row
  BY DEF Gone, Row, Column
<1>2. NoOp \in Op
  BY <1>1 DEF NoOp, Op, Column
<1>3. Empty \in Board
  BY DEF Empty, Board, Column
<1> QED BY <1>1, <1>2, <1>3

LEMMA StartedType ==
    ASSUME NEW do \in {"run", "claim", "next", "release", "renew"},
           NEW a \in Agent, NEW t \in Task \cup {NoTask}
    PROVE  /\ Started(do, a, t) \in Op
           /\ Started(do, a, t).do = do /\ Started(do, a, t).as = a
           /\ Started(do, a, t).task = t
           /\ \A u \in Started(do, a, t).old : u \in Task /\ row[u].lease = "expired"
<1>1. {u \in Task : row[u].lease = "expired"} \in SUBSET Task
  OBVIOUS
<1> QED BY <1>1, NoOpType DEF Started, NoOp, Op

LEMMA ReportedType ==
    ASSUME TypeOK, NEW a \in Agent, NEW t \in Task, NEW to \in Column
    PROVE  /\ Reported(a, t, to) \in Op
           /\ Reported(a, t, to).do = "complete" /\ Reported(a, t, to).as = a
           /\ Reported(a, t, to).task = t /\ Reported(a, t, to).seen = row[t]
           /\ Reported(a, t, to).to = to /\ Reported(a, t, to).old = {}
<1>1. row[t] \in Row
  BY DEF TypeOK
<1> QED BY <1>1, NoOpType DEF Reported, NoOp, Op

LEMMA CountType ==
    ASSUME TypeOK, NEW b \in {"runs", "requests", "saves", "kills"}, Counted(b)
    PROVE  count' \in [runs: 0..MaxRuns, requests: 0..MaxRequests,
                       saves: 0..MaxSaves, kills: 0..MaxKills]
BY KanbanAssumption DEF TypeOK, Counted, Bound

LEMMA LeasedType ==
    ASSUME TypeOK, NEW x \in Process, NEW t \in Task, op[x].as \in Agent, Leased(x, t)
    PROVE  row' \in [Task -> Row] /\ op' \in [Process -> Op]
<1>1. [row[t] EXCEPT !.by = op[x].as, !.lease = "live"] \in Row
  <2>1. row[t] \in Row
    BY DEF TypeOK
  <2> QED BY <2>1 DEF Row
<1>2. \A y \in Process : [op[y] EXCEPT !.old = @ \ {t}] \in Op
  BY DEF TypeOK, Op
<1>3. row' \in [Task -> Row]
  BY <1>1 DEF TypeOK, Leased
<1>4. op' \in [Process -> Op]
  BY <1>2, NoOpType DEF Leased
<1> QED BY <1>3, <1>4

LEMMA CompletedType ==
    ASSUME NEW s, NEW to \in Column, NEW r \in Row
    PROVE  Completed(s, to, r) \in Row
BY DEF Completed, Row

LEMMA InitType == Init => TypeOK
<1> SUFFICES ASSUME Init PROVE TypeOK
  OBVIOUS
<1>1. \A a \in Agent : [Gone EXCEPT !.col = "todo", !.for = a] \in Row
  BY DEF Gone, Row, Column
<1>2. row \in [Task -> Row]
  <2> DEFINE S == {[Gone EXCEPT !.col = "todo", !.for = a] : a \in Agent}
  <2>1. \A r \in S : r \in Row
    BY <1>1
  <2>2. row \in [Task -> S]
    BY DEF Init
  <2> HIDE DEF S
  <2> QED BY <2>1, <2>2
<1>3. inbox \in [Agent -> [Task -> Nat]]
  BY KanbanAssumption DEF Init
<1>4. op \in [Process -> Op] /\ work \in [Agent -> Task \cup {NoTask}]
  BY NoOpType DEF Init
<1>5. page \in [step: {"none", "loaded", "put", "checked", "read"},
                base: Board, old: Board, new: Board]
  BY NoOpType DEF Init, NoPage
<1>6. count \in [runs: 0..MaxRuns, requests: 0..MaxRequests,
                 saves: 0..MaxSaves, kills: 0..MaxKills]
  <2>1. \A n \in Nat : 0 \in 0..n
    OBVIOUS
  <2>2. /\ 0 \in 0..MaxRuns /\ 0 \in 0..MaxRequests
        /\ 0 \in 0..MaxSaves /\ 0 \in 0..MaxKills
    BY <2>1, KanbanAssumption
  <2>3. count = [runs |-> 0, requests |-> 0, saves |-> 0, kills |-> 0]
    BY DEF Init
  <2> QED BY <2>2, <2>3
<1>7. spoilt \in SUBSET Task /\ loose \in SUBSET Agent
  BY DEF Init
<1> QED BY <1>2, <1>3, <1>4, <1>5, <1>6, <1>7 DEF TypeOK

LEMMA SavedType == ASSUME TypeOK, NEW t \in Task PROVE Saved(t) \in Row
<1>1. /\ page.new[t] \in [col: Column, for: Agent \cup {NoOne}]
      /\ row[t] \in Row
  BY DEF TypeOK, Board
<1>2. CASE Deleted(t)
  BY <1>2, NoOpType DEF Saved, Deleted, Inserted, Kept
<1>3. CASE ~Deleted(t) /\ Inserted(t)
  <2>1. [Gone EXCEPT !.col = page.new[t].col, !.for = page.new[t].for] \in Row
    BY <1>1, NoOpType DEF Row
  <2>2. ~Kept(t)
    BY <1>3 DEF Kept, Inserted
  <2>3. Saved(t) = [Gone EXCEPT !.col = page.new[t].col, !.for = page.new[t].for]
    BY <1>3, <2>2 DEF Saved
  <2> QED BY <2>1, <2>3
<1>4. CASE ~Deleted(t) /\ ~Inserted(t) /\ Kept(t)
  <2> DEFINE c == IF page.new[t].col # page.old[t].col THEN page.new[t].col
                                                     ELSE row[t].col
             f == IF page.new[t].for # page.old[t].for THEN page.new[t].for
                                                     ELSE row[t].for
  <2>1. c \in Column /\ f \in Agent \cup {NoOne}
    BY <1>1 DEF Row
  <2>2. Saved(t) = [row[t] EXCEPT !.col = c, !.for = f]
    BY <1>4 DEF Saved
  <2> HIDE DEF c, f
  <2> QED BY <1>1, <2>1, <2>2 DEF Row
<1>5. CASE ~Deleted(t) /\ ~Inserted(t) /\ ~Kept(t)
  BY <1>1, <1>5 DEF Saved
<1> QED BY <1>2, <1>3, <1>4, <1>5

(* What a request begins with: nothing it knows about a lease is false.    *)
LEMMA RequestBegins ==
    ASSUME TypeOK, NEW w \in Web, NEW a \in Agent, NEW t \in Task, Request(w, a, t)
    PROVE  \E o \in Op :
             /\ Begin(w, o) /\ o.as = a
             /\ o.do \in {"claim", "next", "release", "renew", "complete"}
             /\ o.do # "next" => o.task \in Task
             /\ o.do = "complete" => o.to # "gone"
             /\ \A u \in o.old : row[u].lease # "live"
<1>1. CASE \E do \in {"claim", "release", "renew"} : Begin(w, Started(do, a, t))
  <2>1. PICK do \in {"claim", "release", "renew"} : Begin(w, Started(do, a, t))
    BY <1>1
  <2> QED BY <2>1, StartedType
<1>2. CASE Begin(w, Started("next", a, NoTask))
  BY <1>2, StartedType
<1>3. CASE /\ row[t].col # "gone"
           /\ \E to \in {row[t].col, "done"} : Begin(w, Reported(a, t, to))
  <2>1. PICK to \in {row[t].col, "done"} : Begin(w, Reported(a, t, to))
    BY <1>3
  <2>2. to \in Column /\ to # "gone"
    BY <1>3 DEF TypeOK, Row, Column, Request
  <2> QED BY <2>1, <2>2, ReportedType
<1> QED BY <1>1, <1>2, <1>3 DEF Request

-----------------------------------------------------------------------------
(* A step of an operation leaves what other operations know alone.         *)
LEMMA TypeStep == ASSUME TypeOK, OpInv, Next PROVE TypeOK'
<1> USE NoOpType
<1>1. ASSUME NEW t \in Task, Expire(t) PROVE TypeOK'
  <2>1. [row[t] EXCEPT !.lease = "expired"] \in Row
    BY DEF TypeOK, Row
  <2> QED BY <1>1, <2>1 DEF TypeOK, Expire
<1>2. ASSUME NEW t \in Task, Move(t) PROVE TypeOK'
  <2>1. row' \in [Task -> Row]
    <3>1. \A c \in Column : [row[t] EXCEPT !.col = c] \in Row
      BY DEF TypeOK, Row
    <3> QED BY <1>2, <3>1 DEF TypeOK, Move, Column
  <2>2. count' \in [runs: 0..MaxRuns, requests: 0..MaxRequests,
                    saves: 0..MaxSaves, kills: 0..MaxKills]
    BY <1>2, CountType DEF Move
  <2> QED BY <1>2, <2>1, <2>2 DEF TypeOK, Move
<1>3. ASSUME NEW t \in Task, Edit(t) PROVE TypeOK'
  <2>1. PICK u \in ({"todo", "review", "done"} \X Agent) \cup {<<"gone", NoOne>>} :
          page' = [page EXCEPT !.step = "put", !.new[t] = [col |-> u[1], for |-> u[2]]]
    BY <1>3 DEF Edit
  <2>2. [col |-> u[1], for |-> u[2]] \in [col: Column, for: Agent \cup {NoOne}]
    BY DEF Column
  <2>3. [page.new EXCEPT ![t] = [col |-> u[1], for |-> u[2]]] \in Board
    BY <2>2 DEF TypeOK, Board
  <2>4. page' \in [step: {"none", "loaded", "put", "checked", "read"},
                   base: Board, old: Board, new: Board]
    BY <2>1, <2>3 DEF TypeOK
  <2>5. count' \in [runs: 0..MaxRuns, requests: 0..MaxRequests,
                    saves: 0..MaxSaves, kills: 0..MaxKills]
    BY <1>3, CountType DEF Edit
  <2> QED BY <1>3, <2>4, <2>5 DEF TypeOK, Edit
<1>4. ASSUME NEW a \in Agent, NEW t \in Task, TakeRun(a, t) PROVE TypeOK'
  <2>1. Started("claim", a, t) \in Op
    BY StartedType
  <2>2. op' \in [Process -> Op]
    BY <1>4, <2>1 DEF TypeOK, TakeRun, Process
  <2>3. [inbox[a] EXCEPT ![t] = @ - 1] \in [Task -> Nat]
    BY <1>4 DEF TypeOK, TakeRun
  <2>4. inbox' \in [Agent -> [Task -> Nat]]
    BY <1>4, <2>3 DEF TypeOK, TakeRun
  <2> QED BY <1>4, <2>2, <2>4 DEF TypeOK, TakeRun
<1>5. ASSUME NEW a \in Agent, Report(a) PROVE TypeOK'
  <2>1. work[a] \in Task /\ row[work[a]].col \in Column /\ Target(a) \in Column
    BY <1>5 DEF TypeOK, Report, Row, Target, Column
  <2>2. \A to \in {row[work[a]].col, Target(a)} : Reported(a, work[a], to) \in Op
    BY <2>1, ReportedType
  <2>3. op' \in [Process -> Op]
    BY <1>5, <2>2 DEF TypeOK, Report, Process
  <2> QED BY <1>5, <2>3 DEF TypeOK, Report
<1>6. ASSUME NEW a \in Agent, ReportToNobody(a) PROVE TypeOK'
  BY <1>6 DEF TypeOK, ReportToNobody
<1>7. ASSUME NEW a \in Agent, Kill(a) PROVE TypeOK'
  <2>1. count' \in [runs: 0..MaxRuns, requests: 0..MaxRequests,
                    saves: 0..MaxSaves, kills: 0..MaxKills]
    BY <1>7, CountType DEF Kill
  <2> QED BY <1>7, <2>1 DEF TypeOK, Kill
<1>8. ASSUME NEW x \in Process, Claim(x) PROVE TypeOK'
  <2>1. op[x].task \in Task /\ op[x].as \in Agent
    BY <1>8 DEF OpInv, Claim
  <2>2. row' \in [Task -> Row] /\ op' \in [Process -> Op]
    BY <1>8, <2>1, LeasedType DEF Claim
  <2>3. work' \in [Agent -> Task \cup {NoTask}]
    BY <1>8, <2>1 DEF TypeOK, Claim
  <2>4. spoilt' \in SUBSET Task /\ loose' \in SUBSET Agent
    BY <1>8, <2>1 DEF TypeOK, Claim
  <2> QED BY <1>8, <2>2, <2>3, <2>4 DEF TypeOK, Claim
<1>9. ASSUME NEW x \in Process, Refused(x) PROVE TypeOK'
  BY <1>9 DEF TypeOK, Refused
<1>10. ASSUME NEW x \in Process, Complete(x) PROVE TypeOK'
  <2>1. op[x].task \in Task /\ op[x].to \in Column
    BY <1>10 DEF TypeOK, OpInv, Op, Complete
  <2>2. row' \in [Task -> Row]
    <3>1. Completed(op[x].seen, op[x].to, row[op[x].task]) \in Row
      BY <2>1, CompletedType DEF TypeOK
    <3> QED BY <1>10, <2>1, <3>1 DEF TypeOK, Complete
  <2>3. op' \in [Process -> Op] /\ work' \in [Agent -> Task \cup {NoTask}]
    BY <1>10 DEF TypeOK, Complete, Idle
  <2>4. spoilt' \in SUBSET Task
    BY <1>10, <2>1 DEF TypeOK, Complete
  <2> QED BY <1>10, <2>2, <2>3, <2>4 DEF TypeOK, Complete
<1>11. ASSUME NEW x \in Process, Release(x) PROVE TypeOK'
  <2>1. op[x].task \in Task
    BY <1>11 DEF OpInv, Release
  <2>2. [row[op[x].task] EXCEPT !.by = NoOne, !.lease = "none"] \in Row
    BY <2>1 DEF TypeOK, Row
  <2> QED BY <1>11, <2>1, <2>2 DEF TypeOK, Release
<1>12. ASSUME NEW x \in Process, Renew(x) PROVE TypeOK'
  <2>1. op[x].task \in Task /\ op[x].as \in Agent
    BY <1>12 DEF OpInv, Renew
  <2>2. row' \in [Task -> Row] /\ op' \in [Process -> Op]
    BY <1>12, <2>1, LeasedType DEF Renew
  <2> QED BY <1>12, <2>2 DEF TypeOK, Renew
<1>13. ASSUME NEW x \in Process, NEW t \in Task, ClaimNext(x, t) PROVE TypeOK'
  <2>1. op[x].as \in Agent
    BY <1>13 DEF OpInv, ClaimNext
  <2>2. row' \in [Task -> Row] /\ op' \in [Process -> Op]
    BY <1>13, <2>1, LeasedType DEF ClaimNext
  <2> QED BY <1>13, <2>1, <2>2 DEF TypeOK, ClaimNext
<1>14. ASSUME NEW w \in Web, NEW t \in Task, Run(w, t) PROVE TypeOK'
  <2>1. row[t].for \in Agent
    BY <1>14 DEF TypeOK, Row, Run
  <2>2. Started("run", row[t].for, t) \in Op
    BY <2>1, StartedType
  <2>3. op' \in [Process -> Op]
    BY <1>14, <2>2 DEF TypeOK, Run, Process
  <2>4. count' \in [runs: 0..MaxRuns, requests: 0..MaxRequests,
                    saves: 0..MaxSaves, kills: 0..MaxKills]
    BY <1>14, CountType DEF Run
  <2> QED BY <1>14, <2>3, <2>4 DEF TypeOK, Run
<1>15. ASSUME NEW w \in Web, NEW o \in Op, Begin(w, o) PROVE TypeOK'
  <2>1. count' \in [runs: 0..MaxRuns, requests: 0..MaxRequests,
                    saves: 0..MaxSaves, kills: 0..MaxKills]
    BY <1>15, CountType DEF Begin
  <2> QED BY <1>15, <2>1 DEF TypeOK, Begin, Process
<1>16. ASSUME NEW w \in Web, NEW a \in Agent, NEW t \in Task, Request(w, a, t)
       PROVE  TypeOK'
  BY <1>15, <1>16, RequestBegins
<1>17. ASSUME NEW w \in Web, Enqueue(w) PROVE TypeOK'
  <2>1. op[w].task \in Task /\ op[w].as \in Agent
    BY <1>17 DEF OpInv, Enqueue, Process
  <2>2. [inbox[op[w].as] EXCEPT ![op[w].task] = @ + 1] \in [Task -> Nat]
    BY <2>1 DEF TypeOK
  <2>3. inbox' \in [Agent -> [Task -> Nat]]
    BY <1>17, <2>1, <2>2 DEF TypeOK, Enqueue
  <2>4. op' \in [Process -> Op]
    BY <1>17 DEF TypeOK, Enqueue
  <2> QED BY <1>17, <2>3, <2>4 DEF TypeOK, Enqueue
<1>18. Users \in Board
  BY DEF TypeOK, Users, User, Board, Row
<1>19. CASE Load
  BY <1>18, <1>19 DEF TypeOK, Load
<1>20. CASE Check
  BY <1>20 DEF TypeOK, Check, NoPage
<1>21. CASE Read
  BY <1>18, <1>21 DEF TypeOK, Read
<1>22. CASE Write
  <2>1. \A t \in Task : Saved(t) \in Row
    BY SavedType
  <2>2. row' \in [Task -> Row] /\ spoilt' \in SUBSET Task
    <3>1. [t \in Task |-> Saved(t)] \in [Task -> Row]
      BY <2>1
    <3> QED BY <1>22, <3>1 DEF TypeOK, Write
  <2> QED BY <1>22, <2>2 DEF TypeOK, Write, NoPage
<1> QED
  BY <1>1, <1>2, <1>3, <1>4, <1>5, <1>6, <1>7, <1>8, <1>9, <1>10, <1>11, <1>12,
     <1>13, <1>14, <1>16, <1>17, <1>19, <1>20, <1>21, <1>22
  DEF Next, Worker, Operation, ClaimRefused, ReleaseRefused, RenewRefused,
      ClaimNothing

-----------------------------------------------------------------------------
(* A save takes leases away with their rows, and does nothing else to      *)
(* them.                                                                   *)
LEMMA SavedLease ==
    ASSUME TypeOK, NEW t \in Task
    PROVE  IF Deleted(t) \/ Inserted(t)
           THEN Saved(t).by = NoOne /\ Saved(t).lease = "none"
           ELSE Saved(t).by = row[t].by /\ Saved(t).lease = row[t].lease
<1>1. row[t] \in Row
  BY DEF TypeOK
<1>2. CASE Deleted(t)
  BY <1>2 DEF Saved, Deleted, Inserted, Kept, Gone
<1>3. CASE ~Deleted(t) /\ Inserted(t)
  <2>1. Saved(t) = [Gone EXCEPT !.col = page.new[t].col, !.for = page.new[t].for]
    BY <1>3 DEF Saved, Kept, Inserted
  <2> QED BY <1>3, <2>1 DEF Gone
<1>4. CASE ~Deleted(t) /\ ~Inserted(t)
  BY <1>1, <1>4 DEF Saved, Row
<1> QED BY <1>2, <1>3, <1>4

-----------------------------------------------------------------------------
(* Most steps end operations, or leave them alone, and make no lease live. *)
LEMMA OpFrame ==
    ASSUME OpInv,
           \A x \in Process : op'[x] = op[x] \/ op'[x] = NoOp,
           \A t \in Task : row'[t].lease = "live" => row[t].lease = "live",
           \A a \in Agent : op'[a].do # "none" => work'[a] = work[a],
           TypeOK
    PROVE  OpInv'
<1>1. \A x \in Process : op[x].old \subseteq Task
  BY DEF TypeOK, Op
<1>2. NoOp.do = "none" /\ NoOp.old = {}
  BY DEF NoOp
<1> QED BY <1>1, <1>2 DEF OpInv, Process

(* One operation begins.                                                   *)
LEMMA OpBegins ==
    ASSUME TypeOK, OpInv, NEW x \in Process, NEW o \in Op,
           op' = [op EXCEPT ![x] = o], UNCHANGED <<row, work>>,
           o.do \notin {"none", "next"} => o.task \in Task,
           o.as \in Agent, o.do = "complete" => o.to # "gone",
           \A u \in o.old : row[u].lease # "live",
           x \in Agent => /\ o.as = x
                          /\ \/ o.do = "claim" /\ work[x] = NoTask
                             \/ o.do = "complete" /\ work[x] = o.task
    PROVE  OpInv'
<1>1. op'[x] = o /\ \A y \in Process \ {x} : op'[y] = op[y]
  BY DEF TypeOK
<1> QED BY <1>1 DEF OpInv, Process

(* A lease is given: no clock that was read finds it expired.              *)
LEMMA OpLeased ==
    ASSUME TypeOK, OpInv, NEW x \in Process, NEW t \in Task, Leased(x, t),
           op[x].as \in Agent,
           \A a \in Agent \ {x} : work'[a] = work[a]
    PROVE  OpInv'
<1>1. /\ op'[x] = NoOp
      /\ \A y \in Process \ {x} : op'[y] = [op[y] EXCEPT !.old = @ \ {t}]
  BY DEF Leased
<1>2. \A y \in Process : op[y] \in Op
  BY DEF TypeOK
<1>3. \A y \in Process \ {x} :
        /\ op'[y].do = op[y].do /\ op'[y].as = op[y].as
        /\ op'[y].task = op[y].task /\ op'[y].to = op[y].to
        /\ op'[y].old = op[y].old \ {t}
  BY <1>1, <1>2 DEF Op
<1>4. NoOp.do = "none" /\ NoOp.old = {}
  BY DEF NoOp
<1>5. \A y \in Process : \A u \in op'[y].old : row'[u].lease # "live"
  <2>1. \A u \in Task \ {t} : row'[u] = row[u]
    BY DEF TypeOK, Leased
  <2>2. \A y \in Process : op[y].old \subseteq Task
    BY <1>2 DEF Op
  <2> QED BY <1>1, <1>3, <1>4, <2>1, <2>2 DEF OpInv
<1> QED BY <1>1, <1>3, <1>4, <1>5 DEF OpInv, Process

LEMMA OpStep == ASSUME IndInv, Next PROVE OpInv'
<1> USE DEF IndInv
<1>1. ASSUME NEW t \in Task, Expire(t) PROVE OpInv'
  <2>1. \A u \in Task : row'[u].lease = "live" => row[u].lease = "live"
    BY <1>1 DEF Expire, TypeOK, Row
  <2> QED BY <1>1, <2>1, OpFrame DEF Expire
<1>2. ASSUME NEW t \in Task, Move(t) PROVE OpInv'
  <2>1. \A u \in Task : row'[u].lease = row[u].lease
    BY <1>2 DEF Move, TypeOK, Row
  <2> QED BY <1>2, <2>1, OpFrame DEF Move
<1>3. ASSUME NEW t \in Task, Edit(t) PROVE OpInv'
  BY <1>3, OpFrame DEF Edit
<1>4. ASSUME NEW a \in Agent, NEW t \in Task, TakeRun(a, t) PROVE OpInv'
  <2> DEFINE o == Started("claim", a, t)
  <2>1. /\ o \in Op /\ o.do = "claim" /\ o.as = a /\ o.task = t
        /\ \A u \in o.old : u \in Task /\ row[u].lease = "expired"
    BY StartedType
  <2>2. op' = [op EXCEPT ![a] = o] /\ work[a] = NoTask /\ UNCHANGED <<row, work>>
    BY <1>4 DEF TakeRun
  <2> HIDE DEF o
  <2> QED BY <2>1, <2>2, OpBegins DEF Process
<1>5. ASSUME NEW a \in Agent, Report(a) PROVE OpInv'
  <2>1. PICK to \in {row[work[a]].col, Target(a)} :
          op' = [op EXCEPT ![a] = Reported(a, work[a], to)]
    BY <1>5 DEF Report
  <2>2. work[a] \in Task /\ to \in Column /\ to # "gone"
    BY <1>5 DEF TypeOK, Report, Row, Target, Column
  <2> DEFINE o == Reported(a, work[a], to)
  <2>3. /\ o \in Op /\ o.do = "complete" /\ o.as = a /\ o.task = work[a]
        /\ o.to = to /\ o.old = {}
    BY <2>2, ReportedType
  <2>4. op' = [op EXCEPT ![a] = o] /\ UNCHANGED <<row, work>>
    BY <1>5, <2>1 DEF Report
  <2> HIDE DEF o
  <2> QED BY <2>2, <2>3, <2>4, OpBegins DEF Process
<1>6. ASSUME NEW a \in Agent, ReportToNobody(a) PROVE OpInv'
  BY <1>6, OpFrame DEF ReportToNobody, TypeOK
<1>7. ASSUME NEW a \in Agent, Kill(a) PROVE OpInv'
  <2>1. \A y \in Process : op'[y] = op[y] \/ op'[y] = NoOp
    BY <1>7 DEF Kill, TypeOK
  <2>2. \A b \in Agent : op'[b].do # "none" => work'[b] = work[b]
    BY <1>7 DEF Kill, TypeOK, NoOp, Process
  <2> QED BY <1>7, <2>1, <2>2, OpFrame DEF Kill
<1>8. ASSUME NEW x \in Process, Claim(x) PROVE OpInv'
  <2>1. op[x].task \in Task /\ op[x].as \in Agent
    BY <1>8 DEF OpInv, Claim
  <2> QED BY <1>8, <2>1, OpLeased DEF Claim, TypeOK
<1>9. ASSUME NEW x \in Process, Refused(x) PROVE OpInv'
  BY <1>9, OpFrame DEF Refused, TypeOK
<1>10. ASSUME NEW x \in Process, Complete(x) PROVE OpInv'
  <2>1. \A u \in Task : row'[u].lease = "live" => row[u].lease = "live"
    BY <1>10 DEF Complete, Completed, TypeOK, Row
  <2>2. \A y \in Process : op'[y] = op[y] \/ op'[y] = NoOp
    BY <1>10 DEF Complete, TypeOK
  <2>3. \A a \in Agent : op'[a].do # "none" => work'[a] = work[a]
    BY <1>10 DEF Complete, Idle, TypeOK, NoOp
  <2> QED BY <2>1, <2>2, <2>3, OpFrame
<1>11. ASSUME NEW x \in Process, Release(x) PROVE OpInv'
  <2>1. \A u \in Task : row'[u].lease = "live" => row[u].lease = "live"
    BY <1>11 DEF Release, TypeOK, Row
  <2> QED BY <1>11, <2>1, OpFrame DEF Release, TypeOK
<1>12. ASSUME NEW x \in Process, Renew(x) PROVE OpInv'
  <2>1. op[x].task \in Task /\ op[x].as \in Agent
    BY <1>12 DEF OpInv, Renew
  <2> QED BY <1>12, <2>1, OpLeased DEF Renew
<1>13. ASSUME NEW x \in Process, NEW t \in Task, ClaimNext(x, t) PROVE OpInv'
  <2>1. op[x].as \in Agent
    BY <1>13 DEF OpInv, ClaimNext
  <2> QED BY <1>13, <2>1, OpLeased DEF ClaimNext
<1>14. ASSUME NEW w \in Web, NEW t \in Task, Run(w, t) PROVE OpInv'
  <2>1. row[t].for \in Agent /\ w \notin Agent
    BY <1>14, KanbanAssumption DEF TypeOK, Row, Run
  <2> DEFINE o == Started("run", row[t].for, t)
  <2>2. /\ o \in Op /\ o.do = "run" /\ o.as = row[t].for /\ o.task = t
        /\ \A u \in o.old : u \in Task /\ row[u].lease = "expired"
    BY <2>1, StartedType
  <2>3. op' = [op EXCEPT ![w] = o] /\ UNCHANGED <<row, work>>
    BY <1>14 DEF Run
  <2> HIDE DEF o
  <2> QED BY <2>1, <2>2, <2>3, OpBegins DEF Process
<1>15. ASSUME NEW w \in Web, NEW a \in Agent, NEW t \in Task, Request(w, a, t)
       PROVE  OpInv'
  <2>1. PICK o \in Op :
             /\ Begin(w, o) /\ o.as = a
             /\ o.do \in {"claim", "next", "release", "renew", "complete"}
             /\ o.do # "next" => o.task \in Task
             /\ o.do = "complete" => o.to # "gone"
             /\ \A u \in o.old : row[u].lease # "live"
    BY <1>15, RequestBegins
  <2>2. w \notin Agent
    BY KanbanAssumption
  <2> QED BY <2>1, <2>2, OpBegins DEF Begin, Process
<1>16. ASSUME NEW w \in Web, Enqueue(w) PROVE OpInv'
  BY <1>16, OpFrame DEF Enqueue, TypeOK
<1>17. CASE Load \/ Check \/ Read
  BY <1>17, OpFrame DEF Load, Check, Read
<1>18. CASE Write
  <2>1. \A u \in Task : row'[u].lease = "live" => row[u].lease = "live"
    BY <1>18, SavedLease DEF Write
  <2> QED BY <1>18, <2>1, OpFrame DEF Write
<1> QED
  BY <1>1, <1>2, <1>3, <1>4, <1>5, <1>6, <1>7, <1>8, <1>9, <1>10, <1>11, <1>12,
     <1>13, <1>14, <1>15, <1>16, <1>17, <1>18
  DEF Next, Worker, Operation, ClaimRefused, ReleaseRefused, RenewRefused,
      ClaimNothing

-----------------------------------------------------------------------------
(* What an operation does to the leases.                                   *)
LEMMA LeasedRow ==
    ASSUME TypeOK, NEW x \in Process, NEW t \in Task, Leased(x, t)
    PROVE  /\ row'[t].by = op[x].as /\ row'[t].lease = "live"
           /\ row'[t].col = row[t].col
           /\ \A u \in Task \ {t} : row'[u] = row[u]
           /\ \A y \in Process : op'[y].do # "none" =>
                op'[y].do = op[y].do /\ op'[y].seen = op[y].seen
<1>1. row[t] \in Row /\ row \in [Task -> Row]
  BY DEF TypeOK
<1>2. \A y \in Process : op[y] \in Op
  BY DEF TypeOK
<1>3. \A y \in Process \ {x} :
        op'[y].do = op[y].do /\ op'[y].seen = op[y].seen
  BY <1>2 DEF Leased, Op
<1>4. op'[x].do = "none"
  BY DEF Leased, NoOp
<1>5. /\ row'[t].by = op[x].as /\ row'[t].lease = "live"
      /\ row'[t].col = row[t].col
      /\ \A u \in Task \ {t} : row'[u] = row[u]
  BY <1>1 DEF Leased, Row
<1> QED BY <1>3, <1>4, <1>5

LEMMA CompletedRow ==
    ASSUME TypeOK, NEW x \in Process, Complete(x), op[x].task \in Task
    PROVE  LET t == op[x].task IN
           /\ \A u \in Task \ {t} : row'[u] = row[u]
           /\ row[t].col = "gone" => row'[t] = row[t]
           /\ row[t].col # "gone" /\ op[x].seen.by # NoOne
                => row'[t].by = NoOne /\ row'[t].lease = "none"
           /\ row[t].col # "gone" /\ op[x].seen.by = NoOne
                => row'[t].by = row[t].by /\ row'[t].lease = row[t].lease
           /\ row[t].col # "gone" => row'[t].col \in {row[t].col, op[x].to}
<1> DEFINE t == op[x].task
<1>1. row[t] \in Row /\ row \in [Task -> Row]
  BY DEF TypeOK
<1>2. CASE row[t].col = "gone"
  BY <1>2 DEF Complete
<1>3. CASE row[t].col # "gone"
  <2>1. row' = [row EXCEPT ![t] = Completed(op[x].seen, op[x].to, row[t])]
    BY <1>3 DEF Complete
  <2> QED BY <1>1, <1>3, <2>1 DEF Completed, Row
<1> QED BY <1>2, <1>3

(* What the steps that leave the leases alone have in common.              *)
Still(t) == row'[t].by = row[t].by /\ row'[t].lease = row[t].lease

LEMMA StillMove ==
    ASSUME TypeOK, NEW t \in Task, Move(t)
    PROVE  \A u \in Task : Still(u) /\ (row'[u].col = "gone" => row[u].col = "gone")
BY DEF TypeOK, Row, Move, Still

LEMMA StillExpire ==
    ASSUME TypeOK, NEW t \in Task, Expire(t)
    PROVE  /\ \A u \in Task \ {t} : row'[u] = row[u]
           /\ row'[t].by = row[t].by /\ row'[t].col = row[t].col
           /\ row'[t].lease = "expired"
BY DEF TypeOK, Row, Expire

LEMMA ReleasedRow ==
    ASSUME TypeOK, NEW x \in Process, Release(x), op[x].task \in Task
    PROVE  /\ \A u \in Task \ {op[x].task} : row'[u] = row[u]
           /\ row'[op[x].task].by = NoOne /\ row'[op[x].task].lease = "none"
BY DEF TypeOK, Row, Release

LEMMA RowStep == ASSUME IndInv, Next PROVE \A t \in Task : RowInv(t)'
<1> USE DEF IndInv
<1> SUFFICES ASSUME NEW u \in Task PROVE RowInv(u)'
  OBVIOUS
<1>0. RowInv(u)
  OBVIOUS
<1>1. ASSUME NEW t \in Task, Expire(t) PROVE RowInv(u)'
  BY <1>0, <1>1, StillExpire DEF RowInv, Expire
<1>2. ASSUME NEW t \in Task, Move(t) PROVE RowInv(u)'
  BY <1>0, <1>2, StillMove DEF RowInv, Still
<1>3. ASSUME UNCHANGED row PROVE RowInv(u)'
  BY <1>0, <1>3 DEF RowInv
<1>4. ASSUME NEW x \in Process, NEW t \in Task, Leased(x, t), row[t].col # "gone",
             op[x].as \in Agent
      PROVE  RowInv(u)'
  BY <1>0, <1>4, LeasedRow, KanbanAssumption DEF RowInv
<1>5. ASSUME NEW x \in Process, Claim(x) PROVE RowInv(u)'
  BY <1>4, <1>5 DEF Claim, MayTake, OpInv
<1>6. ASSUME NEW x \in Process, Renew(x) PROVE RowInv(u)'
  <2>1. op[x].task \in Task /\ op[x].as \in Agent
    BY <1>6 DEF Renew, OpInv
  <2>2. row[op[x].task].col # "gone"
    BY <1>6, <2>1, KanbanAssumption DEF Renew, RowInv
  <2> QED BY <1>4, <1>6, <2>1, <2>2 DEF Renew
<1>7. ASSUME NEW x \in Process, NEW t \in Task, ClaimNext(x, t) PROVE RowInv(u)'
  BY <1>4, <1>7 DEF ClaimNext, Eligible, MayTake, OpInv
<1>8. ASSUME NEW x \in Process, Complete(x) PROVE RowInv(u)'
  <2>1. op[x].task \in Task /\ op[x].to # "gone"
    BY <1>8 DEF Complete, OpInv
  <2> QED BY <1>0, <1>8, <2>1, CompletedRow DEF RowInv
<1>9. ASSUME NEW x \in Process, Release(x) PROVE RowInv(u)'
  <2>1. op[x].task \in Task
    BY <1>9 DEF Release, OpInv
  <2> QED BY <1>0, <1>9, <2>1, ReleasedRow DEF RowInv
<1>10. CASE Write
  <2>1. CASE UNCHANGED row
    BY <2>1, <1>3
  <2>2. CASE /\ row' = [t \in Task |-> Saved(t)]
             /\ ~(Kept(u) /\ Written(u) /\ row[u].col = "gone")
    <3>1. row'[u] = Saved(u)
      BY <2>2
    <3>2. CASE Deleted(u) \/ Inserted(u)
      BY <3>1, <3>2, SavedLease DEF RowInv
    <3>3. CASE ~Deleted(u) /\ ~Inserted(u)
      <4>1. Saved(u).col = "gone" => row[u].col = "gone"
        BY <2>2, <3>3 DEF Saved, Kept, Written, TypeOK, Row
      <4> QED BY <1>0, <3>1, <3>3, <4>1, SavedLease DEF RowInv
    <3> QED BY <3>2, <3>3
  <2> QED BY <1>10, <2>1, <2>2 DEF Write
<1>11. ASSUME NEW a \in Agent, Worker(a) PROVE RowInv(u)'
  BY <1>3, <1>11 DEF Worker, TakeRun, Report, ReportToNobody, Kill
<1>12. ASSUME NEW w \in Web, NEW t \in Task,
              Run(w, t) \/ (\E a \in Agent : Request(w, a, t)) \/ Enqueue(w)
       PROVE  RowInv(u)'
  BY <1>3, <1>12 DEF Run, Request, Begin, Enqueue
<1>13. ASSUME NEW t \in Task, Edit(t) PROVE RowInv(u)'
  BY <1>3, <1>13 DEF Edit
<1>14. CASE Load \/ Check \/ Read
  BY <1>3, <1>14 DEF Load, Check, Read
<1>15. ASSUME NEW x \in Process, Refused(x) PROVE RowInv(u)'
  BY <1>3, <1>15 DEF Refused
<1> QED
  BY <1>1, <1>2, <1>5, <1>6, <1>7, <1>8, <1>9, <1>10, <1>11, <1>12, <1>13, <1>14,
     <1>15
  DEF Next, Operation, ClaimRefused, ReleaseRefused, RenewRefused, ClaimNothing

-----------------------------------------------------------------------------
(* Workers whose lease lasted hold it.  Most steps give nobody work, and   *)
(* leave the leases that have lasted alone.                                *)
LEMMA HolderFrame ==
    ASSUME HolderInv, NEW a \in Agent, NEW t \in Task,
           work'[a] = t => work[a] = t,
           t \notin spoilt' => t \notin spoilt,
           work[a] = t /\ t \notin spoilt' => Still(t)
    PROVE  work'[a] = t /\ t \notin spoilt' => row'[t].by = a /\ row'[t].lease = "live"
BY DEF HolderInv, Still

(* A claim refuses the others' live leases, and those of workers at work   *)
(* are live for every clock.                                               *)
LEMMA TakenIsFree ==
    ASSUME OpInv, HolderInv, NEW x \in Process, NEW t \in Task, MayTake(x, t),
           t \notin spoilt, NEW a \in Agent, work[a] = t
    PROVE  op[x].as = a
<1>1. row[t].by = a /\ row[t].lease = "live"
  BY DEF HolderInv
<1>2. t \notin op[x].old
  BY <1>1 DEF OpInv
<1> QED BY <1>1, <1>2 DEF MayTake, Live

LEMMA HolderStep == ASSUME IndInv, Next PROVE HolderInv'
<1> USE DEF IndInv
<1> SUFFICES ASSUME NEW a \in Agent, NEW t \in Task
             PROVE  work'[a] = t /\ t \notin spoilt'
                      => row'[t].by = a /\ row'[t].lease = "live"
  BY DEF HolderInv
<1> DEFINE Goal == work'[a] = t /\ t \notin spoilt'
                     => row'[t].by = a /\ row'[t].lease = "live"
<1>1. ASSUME NEW u \in Task, Expire(u) PROVE Goal
  <2>1. t = u => t \in spoilt'
    BY <1>1 DEF Expire
  <2>2. t # u => Still(t)
    BY <1>1, StillExpire DEF Still
  <2> QED BY <1>1, <2>1, <2>2, HolderFrame DEF Expire
<1>2. ASSUME NEW u \in Task, Move(u) PROVE Goal
  BY <1>2, StillMove, HolderFrame DEF Move
<1>3. ASSUME UNCHANGED <<row, spoilt>>, work'[a] \in {work[a], NoTask} PROVE Goal
  BY <1>3, HolderFrame, KanbanAssumption DEF Still
<1>4. ASSUME NEW x \in Process, Claim(x) PROVE Goal
  <2> DEFINE u == op[x].task
  <2>1. u \in Task /\ MayTake(x, u) /\ Leased(x, u)
    BY <1>4 DEF Claim, OpInv
  <2> HIDE DEF u
  <2>2. row'[u].by = op[x].as /\ row'[u].lease = "live"
    BY <2>1, LeasedRow
  <2>3. t # u => Still(t)
    BY <2>1, LeasedRow DEF Still
  <2>4. CASE x \in Agent
    <3>1. work' = [work EXCEPT ![x] = u]
      BY <1>4, <2>4 DEF Claim, u
    <3>2. spoilt' = IF Others(x, u) = {} THEN spoilt \ {u} ELSE spoilt
      BY <1>4, <2>4 DEF Claim, u
    <3>3. op[x].as = x
      BY <1>4, <2>4 DEF Claim, OpInv
    <3>4. CASE t = u /\ a = x
      BY <2>2, <3>3, <3>4
    <3>5. CASE t = u /\ a # x
      <4>1. work'[a] = work[a]
        BY <3>1, <3>5 DEF TypeOK
      <4>2. SUFFICES ASSUME work[a] = u, u \notin spoilt' PROVE FALSE
        BY <3>5, <4>1
      <4>3. a \in Others(x, u)
        BY <3>5, <4>2 DEF Others
      <4>4. u \notin spoilt
        BY <3>2, <4>2, <4>3
      <4> QED BY <2>1, <3>3, <3>5, <4>2, <4>4, TakenIsFree
    <3>6. CASE t # u
      <4>1. work'[a] = t => work[a] = t
        BY <3>1, <3>6 DEF TypeOK
      <4>2. t \notin spoilt' => t \notin spoilt
        BY <3>2, <3>6
      <4> QED BY <2>3, <3>6, <4>1, <4>2, HolderFrame
    <3> QED BY <3>4, <3>5, <3>6
  <2>5. CASE x \notin Agent
    <3>1. UNCHANGED <<work, spoilt>>
      BY <1>4, <2>5 DEF Claim
    <3>2. CASE t = u
      BY <2>1, <2>2, <3>1, <3>2, TakenIsFree
    <3>3. CASE t # u
      BY <2>3, <3>1, <3>3, HolderFrame
    <3> QED BY <3>2, <3>3
  <2> QED BY <2>4, <2>5
<1>5. ASSUME NEW x \in Process, Renew(x) PROVE Goal
  <2>1. op[x].task \in Task /\ row[op[x].task].by = op[x].as
    BY <1>5 DEF Renew, OpInv
  <2>2. CASE t = op[x].task
    BY <1>5, <2>1, <2>2, LeasedRow DEF Renew, HolderInv
  <2>3. CASE t # op[x].task
    BY <1>5, <2>1, <2>3, LeasedRow, HolderFrame DEF Renew, Still
  <2> QED BY <2>2, <2>3
<1>6. ASSUME NEW x \in Process, NEW u \in Task, ClaimNext(x, u) PROVE Goal
  <2>1. CASE t = u
    BY <1>6, <2>1, LeasedRow, TakenIsFree DEF ClaimNext, Eligible
  <2>2. CASE t # u
    BY <1>6, <2>2, LeasedRow, HolderFrame DEF ClaimNext, Still
  <2> QED BY <2>1, <2>2
<1>7. ASSUME NEW x \in Process, Complete(x) PROVE Goal
  <2> DEFINE u == op[x].task
  <2>1. u \in Task
    BY <1>7 DEF Complete, OpInv
  <2>2. work'[a] = t => work[a] = t /\ a # x
    <3>1. work'[a] = IF a = x THEN NoTask ELSE work[a]
      BY <1>7 DEF Complete, Idle, TypeOK, Process
    <3> QED BY <3>1, KanbanAssumption
  <2>3. spoilt \subseteq spoilt'
    BY <1>7 DEF Complete
  <2>4. work'[a] = t /\ t \notin spoilt' => Still(t)
    <3>1. SUFFICES ASSUME work'[a] = t, t \notin spoilt' PROVE Still(t)
      OBVIOUS
    <3>2. CASE t # u
      BY <1>7, <2>1, <3>2, CompletedRow DEF Still
    <3>3. CASE t = u
      <4>1. a \in Others(x, u)
        BY <2>2, <3>1, <3>3 DEF Others
      <4>2. op[x].seen.by = NoOne
        BY <1>7, <3>1, <3>3, <4>1 DEF Complete
      <4> QED BY <1>7, <2>1, <3>3, <4>2, CompletedRow DEF Still
    <3> QED BY <3>2, <3>3
  <2> QED BY <2>2, <2>3, <2>4 DEF HolderInv, Still
<1>8. ASSUME NEW x \in Process, Release(x) PROVE Goal
  <2>1. op[x].task \in Task
    BY <1>8 DEF Release, OpInv
  <2>2. t = op[x].task => t \in spoilt'
    BY <1>8 DEF Release
  <2>3. t # op[x].task => Still(t)
    BY <1>8, <2>1, ReleasedRow DEF Still
  <2> QED BY <1>8, <2>2, <2>3, HolderFrame DEF Release
<1>9. ASSUME Write PROVE Goal
  <2>1. UNCHANGED work
    BY <1>9 DEF Write
  <2>2. CASE UNCHANGED <<row, spoilt>>
    BY <1>3, <2>1, <2>2
  <2>3. CASE /\ row' = [u \in Task |-> Saved(u)]
             /\ spoilt' = spoilt \cup {u \in Task : Deleted(u) \/ Inserted(u)}
    <3>1. Deleted(t) \/ Inserted(t) => t \in spoilt'
      BY <2>3
    <3>2. ~(Deleted(t) \/ Inserted(t)) => Still(t)
      BY <2>3, SavedLease DEF Still
    <3> QED BY <2>1, <2>3, <3>1, <3>2, HolderFrame
  <2> QED BY <1>9, <2>2, <2>3 DEF Write
<1>10. ASSUME NEW b \in Agent, Worker(b) PROVE Goal
  BY <1>3, <1>10 DEF Worker, TakeRun, Report, ReportToNobody, Kill, TypeOK
<1>11. ASSUME NEW w \in Web, NEW u \in Task,
              Run(w, u) \/ (\E b \in Agent : Request(w, b, u)) \/ Enqueue(w)
       PROVE  Goal
  BY <1>3, <1>11 DEF Run, Request, Begin, Enqueue
<1>12. ASSUME NEW u \in Task, Edit(u) PROVE Goal
  BY <1>3, <1>12 DEF Edit
<1>13. ASSUME Load \/ Check \/ Read PROVE Goal
  BY <1>3, <1>13 DEF Load, Check, Read
<1>14. ASSUME NEW x \in Process, Refused(x) PROVE Goal
  BY <1>3, <1>14 DEF Refused
<1>15. ASSUME NEW w \in Web, Enqueue(w) PROVE Goal
  BY <1>3, <1>15 DEF Enqueue
<1> HIDE DEF Goal
<1>16. Goal
  BY <1>1, <1>2, <1>4, <1>5, <1>6, <1>7, <1>8, <1>9, <1>10, <1>11, <1>12, <1>13,
     <1>14, <1>15
  DEF Next, Operation, ClaimRefused, ReleaseRefused, RenewRefused, ClaimNothing
<1> QED BY <1>16 DEF Goal

-----------------------------------------------------------------------------
(* Leases belong to workers that are at it.  Most steps give none, and     *)
(* leave those who hold one at what they do.                               *)
LEMMA ReturnFrame ==
    ASSUME ReturnInv, NEW a \in Agent, NEW t \in Task,
           a \notin loose' => a \notin loose,
           row'[t].by = a => row[t].by = a,
           work'[a] = work[a],
           op'[a].do = "complete" => op'[a] = op[a]
    PROVE  a \notin loose' /\ row'[t].by = a
             => work'[a] = t /\ (op'[a].do = "complete" => op'[a].seen.by # NoOne)
BY DEF ReturnInv

LEMMA ReturnStep == ASSUME IndInv, Next PROVE ReturnInv'
<1> USE DEF IndInv
<1> SUFFICES ASSUME NEW a \in Agent, NEW t \in Task
             PROVE  a \notin loose' /\ row'[t].by = a
                      => /\ work'[a] = t
                         /\ op'[a].do = "complete" => op'[a].seen.by # NoOne
  BY DEF ReturnInv
<1> DEFINE Goal == a \notin loose' /\ row'[t].by = a
                     => /\ work'[a] = t
                        /\ op'[a].do = "complete" => op'[a].seen.by # NoOne
<1>0. NoOp.do = "none" /\ a # NoOne /\ t # NoTask
  BY KanbanAssumption DEF NoOp
<1>1. ASSUME NEW u \in Task, Expire(u) PROVE Goal
  BY <1>1, StillExpire, ReturnFrame DEF Expire
<1>2. ASSUME NEW u \in Task, Move(u) PROVE Goal
  BY <1>2, StillMove, ReturnFrame DEF Move, Still
<1>3. ASSUME UNCHANGED <<row, work>>, loose \subseteq loose',
             op'[a].do = "complete" => op'[a] = op[a]
      PROVE  Goal
  BY <1>3, ReturnFrame
<1>4. ASSUME NEW b \in Agent, Worker(b) PROVE Goal
  <2>1. CASE \E u \in Task : TakeRun(b, u)
    <3>1. PICK u \in Task : TakeRun(b, u)
      BY <2>1
    <3>2. op'[a].do = "complete" => op'[a] = op[a]
      BY <3>1, StartedType DEF TakeRun, TypeOK, Process
    <3> QED BY <1>3, <3>1, <3>2 DEF TakeRun
  <2>2. CASE Report(b)
    <3>1. PICK to \in {row[work[b]].col, Target(b)} :
            op' = [op EXCEPT ![b] = Reported(b, work[b], to)]
      BY <2>2 DEF Report
    <3>2. CASE a = b
      <4>1. work[a] \in Task /\ to \in Column
        BY <2>2, <3>2 DEF TypeOK, Report, Row, Target, Column
      <4>2. op'[a] = Reported(a, work[a], to)
        BY <3>1, <3>2 DEF TypeOK, Process
      <4>3. op'[a].seen = row[work[a]]
        BY <4>1, <4>2, ReportedType
      <4> QED BY <1>0, <2>2, <4>3 DEF Report, ReturnInv
    <3>3. CASE a # b
      <4>1. op'[a] = op[a]
        BY <3>1, <3>3 DEF TypeOK, Process
      <4> QED BY <1>3, <2>2, <4>1 DEF Report
    <3> QED BY <3>2, <3>3
  <2>3. CASE ReportToNobody(b)
    <3>1. CASE a = b
      <4>1. row[t].by = a /\ a \notin loose => work[a] = t
        BY DEF ReturnInv
      <4>2. work[a] = t => row[t].by = NoOne
        BY <2>3, <3>1 DEF ReportToNobody, RowInv
      <4> QED BY <1>0, <2>3, <4>1, <4>2 DEF ReportToNobody
    <3>2. CASE a # b
      <4>1. work'[a] = work[a]
        BY <2>3, <3>2 DEF ReportToNobody, TypeOK
      <4> QED BY <2>3, <4>1, ReturnFrame DEF ReportToNobody
    <3> QED BY <3>1, <3>2
  <2>4. CASE Kill(b)
    <3>1. a # b => work'[a] = work[a] /\ op'[a] = op[a]
      BY <2>4 DEF Kill, TypeOK, Process
    <3>2. a = b => a \in loose'
      BY <2>4 DEF Kill
    <3> QED BY <2>4, <3>1, <3>2, ReturnFrame DEF Kill
  <2> QED BY <1>4, <2>1, <2>2, <2>3, <2>4 DEF Worker
<1>5. ASSUME NEW x \in Process, Claim(x) PROVE Goal
  <2> DEFINE u == op[x].task
  <2>1. u \in Task /\ Leased(x, u) /\ op[x].as \in Agent
    BY <1>5 DEF Claim, OpInv
  <2> HIDE DEF u
  <2>2. op'[a].do = "complete" => op[a].do = "complete" /\ op'[a].seen = op[a].seen
    BY <2>1, LeasedRow DEF Process
  <2>3. row'[u].by = op[x].as /\ (t # u => row'[t] = row[t])
    BY <2>1, LeasedRow
  <2>4. CASE x \in Agent
    <3>1. op[x].as = x /\ work[x] = NoTask /\ UNCHANGED loose /\ op'[x].do = "none"
      BY <1>0, <1>5, <2>1, <2>4 DEF Claim, OpInv, Leased
    <3>2. work' = [work EXCEPT ![x] = u]
      BY <1>5, <2>4 DEF Claim, u
    <3>3. CASE a = x
      <4>1. t # u => ~(row[t].by = a /\ a \notin loose)
        BY <1>0, <3>1, <3>3 DEF ReturnInv
      <4> QED BY <2>3, <2>4, <3>1, <3>2, <3>3, <4>1 DEF TypeOK
    <3>4. CASE a # x
      <4>1. work'[a] = work[a]
        BY <3>2, <3>4 DEF TypeOK
      <4>2. row'[t].by = a => row[t].by = a
        BY <2>3, <3>1, <3>4
      <4> QED BY <2>2, <3>1, <4>1, <4>2 DEF ReturnInv
    <3> QED BY <3>3, <3>4
  <2>5. CASE x \notin Agent
    <3>1. UNCHANGED work /\ loose' = loose \cup {op[x].as}
      BY <1>5, <2>5 DEF Claim
    <3> QED BY <2>2, <2>3, <3>1 DEF ReturnInv
  <2> QED BY <2>4, <2>5
<1>6. ASSUME NEW x \in Process, Renew(x) PROVE Goal
  <2>1. op[x].task \in Task /\ row[op[x].task].by = op[x].as
    BY <1>6 DEF Renew, OpInv
  <2>2. row'[t].by = row[t].by
    BY <1>6, <2>1, LeasedRow DEF Renew
  <2>3. op'[a].do = "complete" => op[a].do = "complete" /\ op'[a].seen = op[a].seen
    BY <1>6, <2>1, LeasedRow DEF Renew, Process
  <2> QED BY <1>6, <2>2, <2>3 DEF Renew, ReturnInv
<1>7. ASSUME NEW x \in Process, NEW u \in Task, ClaimNext(x, u) PROVE Goal
  <2>1. op'[a].do = "complete" => op[a].do = "complete" /\ op'[a].seen = op[a].seen
    BY <1>7, LeasedRow DEF ClaimNext, Process
  <2>2. t # u => row'[t] = row[t]
    BY <1>7, LeasedRow DEF ClaimNext
  <2>3. row'[u].by \in loose' /\ UNCHANGED work /\ loose \subseteq loose'
    BY <1>7, LeasedRow DEF ClaimNext
  <2> QED BY <2>1, <2>2, <2>3 DEF ReturnInv
<1>8. ASSUME NEW x \in Process, Complete(x) PROVE Goal
  <2> DEFINE u == op[x].task
  <2>1. u \in Task
    BY <1>8 DEF Complete, OpInv
  <2>2. row'[t].by = a => row[t].by = a
    BY <1>0, <1>8, <2>1, CompletedRow
  <2>3. UNCHANGED loose
    BY <1>8 DEF Complete
  <2>4. CASE a = x
    <3>1. work[a] = u /\ op[a].do = "complete"
      BY <1>8, <2>4 DEF Complete, OpInv
    <3>2. SUFFICES ASSUME a \notin loose, row'[t].by = a PROVE FALSE
      BY <2>3
    <3>3. row[t].by = a
      BY <2>2, <3>2
    <3>4. t = u /\ op[a].seen.by # NoOne
      BY <3>1, <3>2, <3>3 DEF ReturnInv
    <3>5. row[t].col # "gone"
      BY <1>0, <3>3 DEF RowInv
    <3> QED BY <1>0, <1>8, <2>1, <2>4, <3>2, <3>4, <3>5, CompletedRow
  <2>5. CASE a # x
    <3>1. work'[a] = work[a] /\ op'[a] = op[a]
      BY <1>8, <2>5 DEF Complete, Idle, TypeOK, Process
    <3> QED BY <2>2, <2>3, <3>1, ReturnFrame
  <2> QED BY <2>4, <2>5
<1>9. ASSUME NEW x \in Process, Release(x) PROVE Goal
  <2>1. op[x].task \in Task
    BY <1>9 DEF Release, OpInv
  <2>2. row'[t].by = a => row[t].by = a
    BY <1>0, <1>9, <2>1, ReleasedRow
  <2>3. op'[a].do = "complete" => op'[a] = op[a]
    BY <1>0, <1>9 DEF Release, TypeOK, Process
  <2> QED BY <1>9, <2>2, <2>3, ReturnFrame DEF Release
<1>10. ASSUME Write PROVE Goal
  <2>1. row'[t].by = a => row[t].by = a
    BY <1>0, <1>10, SavedLease DEF Write
  <2> QED BY <1>10, <2>1, ReturnFrame DEF Write
<1>11. ASSUME NEW x \in Process, Refused(x) PROVE Goal
  <2>1. op'[a].do = "complete" => op'[a] = op[a]
    BY <1>0, <1>11 DEF Refused, TypeOK, Process
  <2> QED BY <1>3, <1>11, <2>1 DEF Refused
<1>12. ASSUME NEW w \in Web, NEW o, op' = [op EXCEPT ![w] = o],
              UNCHANGED <<row, work, loose>>
       PROVE  Goal
  <2>1. op'[a] = op[a]
    BY <1>12, KanbanAssumption DEF TypeOK, Process
  <2> QED BY <1>3, <1>12, <2>1
<1>13. ASSUME NEW w \in Web, NEW u \in Task, Run(w, u) PROVE Goal
  BY <1>12, <1>13 DEF Run
<1>14. ASSUME NEW w \in Web, NEW u \in Task, NEW b \in Agent, Request(w, b, u)
       PROVE  Goal
  BY <1>12, <1>14 DEF Request, Begin
<1>15. ASSUME NEW w \in Web, Enqueue(w) PROVE Goal
  BY <1>12, <1>15 DEF Enqueue
<1>16. ASSUME NEW u \in Task, Edit(u) PROVE Goal
  BY <1>3, <1>16 DEF Edit
<1>17. ASSUME Load \/ Check \/ Read PROVE Goal
  BY <1>3, <1>17 DEF Load, Check, Read
<1> HIDE DEF Goal
<1>18. Goal
  BY <1>1, <1>2, <1>4, <1>5, <1>6, <1>7, <1>8, <1>9, <1>10, <1>11, <1>13, <1>14,
     <1>15, <1>16, <1>17
  DEF Next, Operation, ClaimRefused, ReleaseRefused, RenewRefused, ClaimNothing
<1> QED BY <1>18 DEF Goal

-----------------------------------------------------------------------------
(* A claim that may be made leaves a live lease with its holder.           *)
LEMMA LiveStays ==
    ASSUME OpInv, NEW x \in Process, NEW t \in Task, MayTake(x, t),
           row[t].lease = "live"
    PROVE  row[t].by = op[x].as
BY DEF OpInv, MayTake, Live

LEMMA StandsStep ==
    ASSUME IndInv, Next, NEW t \in Task, row[t].lease = "live",
           row'[t].by # row[t].by
    PROVE  row'[t].by = NoOne /\ EndsLease(t)
<1> USE DEF IndInv
<1> DEFINE Goal == row'[t].by = NoOne /\ EndsLease(t)
<1>1. ASSUME NEW x \in Process, NEW u \in Task, Leased(x, u),
             u = t => row[t].by = op[x].as
      PROVE  FALSE
  BY <1>1, LeasedRow
<1>2. ASSUME NEW x \in Process, Claim(x) PROVE FALSE
  BY <1>1, <1>2, LiveStays DEF Claim, OpInv
<1>3. ASSUME NEW x \in Process, Renew(x) PROVE FALSE
  BY <1>1, <1>3 DEF Renew, OpInv
<1>4. ASSUME NEW x \in Process, NEW u \in Task, ClaimNext(x, u) PROVE FALSE
  BY <1>1, <1>4, LiveStays DEF ClaimNext, Eligible
<1>5. ASSUME NEW x \in Process, Complete(x) PROVE Goal
  <2>1. op[x].task \in Task
    BY <1>5 DEF Complete, OpInv
  <2>2. t = op[x].task /\ row'[t].by = NoOne
    BY <1>5, <2>1, CompletedRow
  <2>3. op'[x].do = "none" /\ op[x].do = "complete"
    BY <1>5 DEF Complete, TypeOK, NoOp
  <2> QED BY <2>2, <2>3 DEF EndsLease
<1>6. ASSUME NEW x \in Process, Release(x) PROVE Goal
  <2>1. op[x].task \in Task
    BY <1>6 DEF Release, OpInv
  <2>2. t = op[x].task /\ row'[t].by = NoOne
    BY <1>6, <2>1, ReleasedRow
  <2>3. row[t].by = op[x].as
    BY <1>6, <2>2, LiveStays DEF Release
  <2>4. op'[x].do = "none"
    BY <1>6 DEF Release, TypeOK, NoOp
  <2> QED BY <2>2, <2>3, <2>4 DEF EndsLease
<1>7. ASSUME Write PROVE Goal
  <2>1. row'[t] = Saved(t)
    BY <1>7 DEF Write
  <2> QED BY <1>7, <2>1, SavedLease DEF Write, EndsLease
<1>8. ASSUME NEW u \in Task, Expire(u) PROVE FALSE
  BY <1>8, StillExpire
<1>9. ASSUME NEW u \in Task, Move(u) PROVE FALSE
  BY <1>9, StillMove DEF Still
<1>10. ~UNCHANGED row
  OBVIOUS
<1>11. ASSUME NEW b \in Agent, Worker(b) PROVE FALSE
  BY <1>10, <1>11 DEF Worker, TakeRun, Report, ReportToNobody, Kill
<1>12. ASSUME NEW w \in Web, NEW u \in Task,
              Run(w, u) \/ (\E b \in Agent : Request(w, b, u))
       PROVE  FALSE
  BY <1>10, <1>12 DEF Run, Request, Begin
<1>13. ASSUME NEW w \in Web, Enqueue(w) PROVE FALSE
  BY <1>10, <1>13 DEF Enqueue
<1>14. ASSUME NEW u \in Task, Edit(u) PROVE FALSE
  BY <1>10, <1>14 DEF Edit
<1>15. ASSUME Load \/ Check \/ Read PROVE FALSE
  BY <1>10, <1>15 DEF Load, Check, Read
<1>16. ASSUME NEW x \in Process, Refused(x) PROVE FALSE
  BY <1>10, <1>16 DEF Refused
<1> HIDE DEF Goal
<1>17. Goal
  BY <1>2, <1>3, <1>4, <1>5, <1>6, <1>7, <1>8, <1>9, <1>11, <1>12, <1>13, <1>14,
     <1>15, <1>16
  DEF Next, Operation, ClaimRefused, ReleaseRefused, RenewRefused, ClaimNothing
<1> QED BY <1>17 DEF Goal

-----------------------------------------------------------------------------
(* The invariants hold at the start, and every step keeps them.            *)
LEMMA InitInv == Init => IndInv
<1> SUFFICES ASSUME Init PROVE IndInv
  OBVIOUS
<1>1. TypeOK
  BY InitType
<1>2. OpInv
  BY KanbanAssumption DEF Init, OpInv, NoOp, Process
<1>3. HolderInv
  BY KanbanAssumption DEF Init, HolderInv
<1>4. \A t \in Task : row[t].by = NoOne /\ row[t].lease = "none" /\ row[t].col = "todo"
  <2>1. ASSUME NEW t \in Task
        PROVE  row[t].by = NoOne /\ row[t].lease = "none" /\ row[t].col = "todo"
    <3>1. PICK a \in Agent : row[t] = [Gone EXCEPT !.col = "todo", !.for = a]
      BY DEF Init
    <3> QED BY <3>1 DEF Gone
  <2> QED BY <2>1
<1>5. ReturnInv
  BY <1>4, KanbanAssumption DEF ReturnInv
<1>6. \A t \in Task : RowInv(t)
  BY <1>4 DEF RowInv
<1> QED BY <1>1, <1>2, <1>3, <1>5, <1>6 DEF IndInv

LEMMA NextInv == IndInv /\ [Next]_vars => IndInv'
<1> SUFFICES ASSUME IndInv, [Next]_vars PROVE IndInv'
  OBVIOUS
<1>1. CASE Next
  <2>1. TypeOK'
    BY <1>1, TypeStep DEF IndInv
  <2> QED BY <1>1, <2>1, OpStep, HolderStep, ReturnStep, RowStep DEF IndInv
<1>2. CASE UNCHANGED vars
  <2>1. TypeOK' /\ OpInv' /\ HolderInv' /\ ReturnInv'
    BY <1>2 DEF vars, IndInv, TypeOK, OpInv, HolderInv, ReturnInv
  <2>2. \A t \in Task : RowInv(t)'
    BY <1>2 DEF vars, IndInv, RowInv
  <2> QED BY <2>1, <2>2 DEF IndInv
<1> QED BY <1>1, <1>2

(* The leases, the operations under way and the workers agree              *)
(* (kanban.py:1015-1106, 1380-1423).                                       *)
THEOREM KanbanInvariant == Spec => []IndInv
BY InitInv, NextInv, PTL DEF Spec

(* Two agents are at work on one card only after a lease ended early       *)
(* (kanban.py:1030).                                                       *)
THEOREM OneAtWork == Spec => []Exclusive
<1>1. IndInv => Exclusive
  BY DEF IndInv, HolderInv, Exclusive
<1> QED BY <1>1, KanbanInvariant, PTL

(* A worker that was not killed leaves no lease behind                     *)
(* (kanban.py:1380-1423, kanban_runner.py:43-82).                          *)
THEOREM NoLeaseLeft == Spec => []LeaseReturned
<1>1. IndInv => LeaseReturned
  BY KanbanAssumption DEF IndInv, ReturnInv, LeaseReturned
<1> QED BY <1>1, KanbanInvariant, PTL

(* A live lease is not handed on (kanban.py:1025-1106).                    *)
THEOREM LiveLeasesStand == Spec => LiveLeaseStands
<1> DEFINE Stands ==
      \A t \in Task :
        row[t].lease = "live" /\ row'[t].by # row[t].by
          => row'[t].by = NoOne /\ EndsLease(t)
<1>1. IndInv /\ [Next]_vars => [Stands]_vars
  BY StandsStep
<1>2. [][Stands]_vars <=> LiveLeaseStands
  BY DEF LiveLeaseStands
<1> HIDE DEF Stands
<1> QED BY <1>1, <1>2, KanbanInvariant, PTL DEF Spec

===============================================================================
