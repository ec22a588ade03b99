---- MODULE Consent ----
(***************************************************************************)
(* What the human-in-the-loop gate promises, without pending maps, timers, *)
(* records or sessions.  Each gate of a call is asked at most once and      *)
(* decided at most once; a call runs once, only when none of its gates is   *)
(* open or refused and the host it visits, if any, is allowed to its user;  *)
(* a host is opened only by a domain gate that was granted, for the user of *)
(* that call; a crash voids every call that did not run.                    *)
(***************************************************************************)
EXTENDS FiniteSets

CONSTANTS Calls, Users, Keys, AnyKey, Web, BaseAllowed, Subdomain

VARIABLES req, verdict, allowed, ran

vars == <<req, verdict, allowed, ran>>

Gates == Calls \X {"tool", "domain"}
User(c) == req[c].user
Host(c) == req[c].key
Browses(c) == req[c].tool = Web /\ Host(c) # AnyKey
Covered(h, D) == \E d \in D : h = d \/ <<h, d>> \in Subdomain

Init == /\ verdict = [g \in Gates |-> "none"]
        /\ allowed = [u \in Users |-> BaseAllowed]
        /\ ran = {}

(* A domain is asked for after the tool was granted, and only if needed *)
MayAsk(g) ==
  /\ verdict[g] = "none"
  /\ g[2] = "domain" => /\ verdict[<<g[1], "tool">>] = "granted"
                        /\ Browses(g[1])
                        /\ ~Covered(Host(g[1]), allowed[User(g[1])])

(* Ask the user, or let the call pass without asking *)
Ask(g) == /\ MayAsk(g)
          /\ verdict' = [verdict EXCEPT ![g] = "open"]
          /\ UNCHANGED <<req, allowed, ran>>

Waive(g) == /\ MayAsk(g)
            /\ verdict' = [verdict EXCEPT ![g] = "granted"]
            /\ UNCHANGED <<req, allowed, ran>>

(* The user's answer, or the timeout *)
Decide(g, v) == /\ verdict[g] = "open"
                /\ verdict' = [verdict EXCEPT ![g] = v]
                /\ UNCHANGED <<req, allowed, ran>>

Run(c) ==
  /\ c \notin ran
  /\ verdict[<<c, "tool">>] = "granted"
  /\ \/ verdict[<<c, "domain">>] = "none" /\ UNCHANGED allowed
     \/ /\ verdict[<<c, "domain">>] = "granted"
        /\ allowed' = [allowed EXCEPT ![User(c)] = @ \cup {Host(c)}]
  /\ Browses(c) => Covered(Host(c), allowed'[User(c)])
  /\ ran' = ran \cup {c}
  /\ UNCHANGED <<req, verdict>>

(* Sessions of some users expire: what was opened for them is forgotten *)
Forget(U) == /\ allowed' = [u \in Users |-> IF u \in U THEN BaseAllowed ELSE allowed[u]]
             /\ UNCHANGED <<req, verdict, ran>>

Crash(C) ==
  /\ C \cap ran = {}
  /\ verdict' = [g \in Gates |-> IF g[1] \in C THEN "void" ELSE verdict[g]]
  /\ allowed' = [u \in Users |-> BaseAllowed]
  /\ UNCHANGED <<req, ran>>

Next ==
  \/ \E g \in Gates : Ask(g) \/ Waive(g) \/ \E v \in {"granted", "refused"} : Decide(g, v)
  \/ \E c \in Calls : Run(c)
  \/ \E U \in SUBSET Users : Forget(U)
  \/ \E C \in SUBSET Calls : Crash(C)

Spec == Init /\ [][Next]_vars
====
