-------------------------------- MODULE MCCron --------------------------------
(* A command that is retried and a reminder, with one request at a time.   *)
EXTENDS Cron

CONSTANTS backup, reminder, w1, sup

MCMaxRetries == [j \in Job |-> IF j = reminder THEN 0 ELSE 1]
===============================================================================
