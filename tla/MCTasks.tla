------------------------------ MODULE MCTasks ------------------------------
(* Tasks with up to three forks, by whichever task, in whichever order.     *)
EXTENDS Tasks

CONSTANTS main, t1, t2, t3

MCTaskSet == {t1, t2, t3}

=============================================================================
