---------------------------- MODULE MC_Scheduler ----------------------------
(* Small instances of Scheduler: the options of the runs.                  *)
EXTENDS Scheduler

\* A program of its own, with the cycle detector and events.
Program == {Option(FALSE, FALSE, TRUE, 2)}

\* A program without them, and one that is embedded.
Ending == {Option(FALSE, TRUE, FALSE, 2), Option(TRUE, FALSE, TRUE, 1)}

\* Two wakeups, so that a thread can have two actors in its queue, and the
\* part of the behaviours that is searched: no noisy events, few messages
\* unread, and all threads counted as blocked only after a missed actor.
Racing == {Option(FALSE, TRUE, FALSE, 2)}
Race == noisy = 0 /\ Len(mq[0]) <= 3 /\ (blockCount = N => missed # {})
=============================================================================
