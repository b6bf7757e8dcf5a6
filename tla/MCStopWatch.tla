----------------------------- MODULE MCStopWatch -----------------------------
(* StopWatch with a worker that takes two turns, so that the watcher of the *)
(* first can still be running in the second.                               *)
EXTENDS StopWatch
===============================================================================
