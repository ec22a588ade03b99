---- MODULE Supervision ----
(***************************************************************************)
(* What the care for the containers of MCP servers promises, without flows,  *)
(* intervals, addresses and tables.  A server is started once; it is given   *)
(* up only by a start that fails or at the shutdown; a container that runs   *)
(* is left alone until then, and one that died is seen and recovered once.   *)
(***************************************************************************)
EXTENDS Naturals

CONSTANT Servers

VARIABLES
  care,   \* of each server: "unstarted", "starting", "launched", "watched", "abandoned"
  up,     \* servers with a container that runs
  deaths, \* containers that died by themselves
  down    \* the shutdown was called

vars == <<care, up, deaths, down>>

Init == /\ care = [s \in Servers |-> "unstarted"]
        /\ up = {}
        /\ deaths = 0
        /\ down = FALSE

Turns(s, c) == care' = [care EXCEPT ![s] = c]

Start(s) == /\ care[s] = "unstarted" /\ ~down
            /\ Turns(s, "starting")
            /\ UNCHANGED <<up, deaths, down>>

(* Never beside a container that runs *)
Launch(s) == /\ care[s] = "starting" /\ s \notin up
             /\ Turns(s, "launched")
             /\ up' = up \cup {s}
             /\ UNCHANGED <<deaths, down>>

Watch(s) == /\ care[s] = "launched"
            /\ Turns(s, "watched")
            /\ UNCHANGED <<up, deaths, down>>

(* What was launched may run on *)
Abandon(s) == /\ care[s] \in {"starting", "launched"}
              /\ Turns(s, "abandoned")
              /\ UNCHANGED <<up, deaths, down>>

Die(s) == /\ s \in up
          /\ up' = up \ {s}
          /\ deaths' = deaths + 1
          /\ UNCHANGED <<care, down>>

(* A recovery needs a death, and there is no other way to a second start *)
Recover(s) == /\ care[s] = "watched" /\ s \notin up
              /\ Turns(s, "starting")
              /\ UNCHANGED <<up, deaths, down>>

Forsake(S) == care' = [s \in Servers |-> IF s \in S THEN "abandoned" ELSE care[s]]

Watched == {s \in Servers : care[s] = "watched"}

Shutdown == /\ ~down /\ \A s \in Servers : care[s] # "unstarted"
            /\ down' = TRUE
            /\ \E S \in SUBSET Watched : Forsake(S)
            /\ UNCHANGED <<up, deaths>>

Halt(s) == /\ down /\ s \in up
           /\ up' = up \ {s}
           /\ UNCHANGED <<care, deaths, down>>

(* Only after the shutdown is a server that was watched left to itself *)
Leave(s) == /\ down /\ s \in Watched
            /\ Turns(s, "abandoned")
            /\ UNCHANGED <<up, deaths, down>>

Next == \/ \E s \in Servers : \/ Start(s) \/ Launch(s) \/ Watch(s) \/ Abandon(s)
                              \/ Die(s) \/ Recover(s) \/ Halt(s) \/ Leave(s)
        \/ Shutdown

Spec == Init /\ [][Next]_vars
====
