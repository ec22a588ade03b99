---- MODULE LoginLinks ----
(***************************************************************************)
(* What a login promises, without callback servers, states, timers and       *)
(* marks.  A link is offered once and open to one user, who has one open     *)
(* link at most; it is redeemed only while it is open, never twice at a time; *)
(* what it connected, it connects once, and a link that lapsed stays closed. *)
(***************************************************************************)
CONSTANTS Users, Logins, None

VARIABLES
  open,        \* the login whose link is open to each user
  used,        \* logins whose link was offered, or that were given up
  redeeming,   \* logins whose code is being exchanged
  connected    \* logins whose exchange succeeded

vars == <<open, used, redeeming, connected>>

Init == /\ open = [u \in Users |-> None]
        /\ used = {} /\ redeeming = {} /\ connected = {}

(* Any step may find that the time of some users' links is up *)
Lapsed(U) == [u \in Users |-> IF u \in U THEN None ELSE open[u]]

Offer(u, l, U) == /\ l \notin used
                  /\ used' = used \cup {l}
                  /\ open' = [Lapsed(U) EXCEPT ![u] = l]
                  /\ UNCHANGED <<redeeming, connected>>

Redeem(u, U) == /\ u \notin U /\ open[u] \notin redeeming \cup {None}
                /\ redeeming' = redeeming \cup {open[u]}
                /\ open' = Lapsed(U)
                /\ UNCHANGED <<used, connected>>

(* The link closes with its success, if it has not lapsed before *)
Succeed(l, U) == /\ l \in redeeming
                 /\ redeeming' = redeeming \ {l}
                 /\ connected' = connected \cup {l}
                 /\ \A u \in Users : open[u] = l => u \in U
                 /\ open' = Lapsed(U)
                 /\ UNCHANGED used

Fail(l, U) == /\ l \in redeeming
              /\ redeeming' = redeeming \ {l}
              /\ open' = Lapsed(U)
              /\ UNCHANGED <<used, connected>>

Lapse(U) == open' = Lapsed(U) /\ UNCHANGED <<used, redeeming, connected>>

GiveUp(l) == used' = used \cup {l} /\ UNCHANGED <<open, redeeming, connected>>

(* The process stops; logins that were not offered yet will not be *)
Stop == /\ \E L \in SUBSET Logins : used' = used \cup L
        /\ open' = Lapsed(Users) /\ redeeming' = {} /\ UNCHANGED connected

Next == \/ \E U \in SUBSET Users :
             \/ \E u \in Users : Redeem(u, U) \/ \E l \in Logins : Offer(u, l, U)
             \/ \E l \in Logins : Succeed(l, U) \/ Fail(l, U)
             \/ Lapse(U)
        \/ \E l \in Logins : GiveUp(l)
        \/ Stop

Spec == Init /\ [][Next]_vars
====
