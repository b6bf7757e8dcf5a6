------------------------------ MODULE MCLauncher ------------------------------
(* Launcher with the core and one service.                                 *)
EXTENDS Launcher

CONSTANTS core, s1

MCService == {s1}
===============================================================================
