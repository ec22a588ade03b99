---- MODULE BoundedTasks ----
(***************************************************************************)
(* What the task loop promises, without histories, locks and records.  A     *)
(* task has a bounded number of rounds with a rest between them; a stop is   *)
(* confirmed only while there is something to stop, and from then on no      *)
(* round begins; a task ends once, by its own answer, at the limit, by a      *)
(* stop, or it is left adrift by an error or a crash.                        *)
(***************************************************************************)
EXTENDS Naturals

CONSTANTS Tasks, MaxRounds

VARIABLES
  stage,    \* of each task: "none", "working", "resting", "adrift" or how it ended
  rounds,   \* rounds each task has had
  stopped   \* tasks whose stop was confirmed

vars == <<stage, rounds, stopped>>

Init == /\ stage = [t \in Tasks |-> "none"]
        /\ rounds = [t \in Tasks |-> 0]
        /\ stopped = {}

Goes(t, s) == stage' = [stage EXCEPT ![t] = s]

Begin(t) == /\ stage[t] = "none" /\ t \notin stopped
            /\ Goes(t, "working")
            /\ rounds' = [rounds EXCEPT ![t] = 0]
            /\ UNCHANGED stopped

EndRound(t) == /\ stage[t] = "working" /\ rounds[t] < MaxRounds
               /\ Goes(t, "resting") \/ Goes(t, "done")
               /\ rounds' = [rounds EXCEPT ![t] = @ + 1]
               /\ UNCHANGED stopped

BeginRound(t) == /\ stage[t] = "resting" /\ t \notin stopped /\ rounds[t] < MaxRounds
                 /\ Goes(t, "working")
                 /\ UNCHANGED <<rounds, stopped>>

(* The user is told that the limit was reached, also after a stop *)
Exhaust(t) == /\ stage[t] = "resting" /\ rounds[t] = MaxRounds
              /\ Goes(t, "exhausted")
              /\ UNCHANGED <<rounds, stopped>>

Cancel(t) == /\ stage[t] = "resting" /\ t \in stopped
             /\ Goes(t, "cancelled")
             /\ UNCHANGED <<rounds, stopped>>

Break(t) == /\ stage[t] = "working"
            /\ Goes(t, "adrift")
            /\ UNCHANGED <<rounds, stopped>>

(* A round in progress goes on; a task adrift can be stopped, too *)
Stop(t) == /\ stage[t] \in {"working", "resting", "adrift"}
           /\ stopped' = stopped \cup {t}
           /\ UNCHANGED <<stage, rounds>>

Crash == /\ stage' = [t \in Tasks |-> IF stage[t] \in {"working", "resting"} THEN "adrift" ELSE stage[t]]
         /\ UNCHANGED <<rounds, stopped>>

Next == \/ \E t \in Tasks : \/ Begin(t) \/ EndRound(t) \/ BeginRound(t)
                            \/ Exhaust(t) \/ Cancel(t) \/ Break(t) \/ Stop(t)
        \/ Crash

Spec == Init /\ [][Next]_vars
====
