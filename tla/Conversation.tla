---- MODULE Conversation ----
(***************************************************************************)
(* What the users of a bridge may rely on, without sockets, tables, turns    *)
(* and posts.  A request is declined at once or accepted; what was accepted  *)
(* gets one outcome at most, for good; an answer is shown where its request  *)
(* was made, or, once a process has stopped, perhaps outside of all threads. *)
(***************************************************************************)
CONSTANT Requests

VARIABLES stage, home, place, stopped

vars == <<stage, home, place, stopped>>

Threads == Requests \cup {"none"}
Declined == {"usage", "offline", "dropped"}
Untold == {"blank", "failed", "refused"}

Init == /\ stage = [r \in Requests |-> "new"]
        /\ home = [r \in Requests |-> "none"]
        /\ place = [r \in Requests |-> "none"]
        /\ stopped = FALSE

Make(r, s, thread) == /\ stage[r] = "new"
                      /\ stage' = [stage EXCEPT ![r] = s]
                      /\ home' = [home EXCEPT ![r] = thread]
                      /\ UNCHANGED <<place, stopped>>

(* Nothing could be shown, or the platform took none of the posts *)
End(r, o) == /\ stage[r] = "sent"
             /\ stage' = [stage EXCEPT ![r] = o]
             /\ UNCHANGED <<home, place, stopped>>

Show(r, thread) == /\ stage[r] = "sent"
                   /\ thread = home[r] \/ (stopped /\ thread = "none")
                   /\ stage' = [stage EXCEPT ![r] = "shown"]
                   /\ place' = [place EXCEPT ![r] = thread]
                   /\ UNCHANGED <<home, stopped>>

(* A process stops; requests that were accepted may never be heard of again *)
Stop == stopped' = TRUE /\ UNCHANGED <<stage, home, place>>

Next == \/ \E r \in Requests :
             \/ \E s \in Declined \cup {"sent"}, thread \in Threads : Make(r, s, thread)
             \/ \E o \in Untold : End(r, o)
             \/ \E thread \in Threads : Show(r, thread)
        \/ Stop

Spec == Init /\ [][Next]_vars
====
