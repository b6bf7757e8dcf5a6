----------------------------- MODULE MCSupervisor -----------------------------
(***************************************************************************)
(* Supervisor on a small instance: an assistant with up to two process     *)
(* identities and the run summarizer with one.  The turns the producers    *)
(* enqueue are for the assistant and ask for the outcome to be returned    *)
(* to the summarizer, so the summarizer's inbox gets both envelopes and    *)
(* summary orders.                                                         *)
(***************************************************************************)
EXTENDS Supervisor, TLC

CONSTANTS asst, summ, none,   \* the roles, and no role
          a1, a2, s1          \* the process identities

MCRole   == {asst, summ}
MCRoleOf == [p \in Pid |-> IF p = s1 THEN summ ELSE asst]
MCTurns  == {Turn(asst, summ)}

(* The assistant's identities are interchangeable: nothing orders them.    *)
Sym == Permutations({a1, a2})

===============================================================================
