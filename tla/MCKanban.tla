------------------------------- MODULE MCKanban -------------------------------
(* Kanban with two agents, two cards, one request and one page.            *)
EXTENDS Kanban, TLC

CONSTANTS a1, a2, t1, t2, w1

MCAgent == {a1, a2}
MCTask  == {t1, t2}
MCWeb   == {w1}
MCVerified == {a1}

CardSymmetry == Permutations(MCTask)
===============================================================================
