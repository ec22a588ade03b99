---- MODULE McpServers_proofs ----
(***************************************************************************)
(* Proofs about McpServers: types, one running container per server, the   *)
(* watch on the listed containers, the registrations of the proxy and the  *)
(* shutdown, for any servers, addresses and numbers of crashes.            *)
(***************************************************************************)
EXTENDS McpServers, TLAPS

----
(* Types *)

(* The names of stages and statuses. *)
LEMMA Names ==
  /\ "unused" \in Stages /\ "done" \in Stages /\ "failed" \in Stages
  /\ "removing" \in Stages /\ "launching" \in Stages /\ "launched" \in Stages
  /\ "handshake" \in Stages /\ "answered" \in Stages
  /\ "absent" \in Statuses /\ "starting" \in Statuses /\ "ready" \in Statuses
  /\ "error" \in Statuses
BY DEF Stages, InProgress, Starting, Statuses

(* TypeOK comes in four parts. *)
FlowTypes ==
  /\ of \in [Containers -> Servers \cup {None}]
  /\ stage \in [Containers -> Stages]
  /\ old \in [Containers -> Containers \cup {None}]

TableTypes ==
  /\ status \in [Servers -> Statuses]
  /\ client \in [Servers -> Containers \cup {None}]
  /\ containers \in [Servers -> Containers \cup {None}]
  /\ restartCounts \in [Servers -> Nat]
  /\ healthChecks \in [Servers -> Containers \cup {None}]
  /\ halting \in [Servers -> Containers \cup {None}]

WorldTypes ==
  /\ inspecting \in [Containers -> Containers \cup {None}]
  /\ registrations \in [Addresses -> Servers \cup {None}]
  /\ address \in [Containers -> Addresses \cup {None}]

PlainTypes ==
  /\ waiting \subseteq Servers
  /\ boot \subseteq Containers /\ lost \subseteq Containers
  /\ intervals \subseteq Containers /\ alive \subseteq Containers
  /\ atStop \subseteq Containers
  /\ made \in 0..MaxContainers
  /\ crashes \in 0..MaxCrashes
  /\ down \in BOOLEAN

(* Containers are made in order: the ones made belong to a server that is   *)
(* no longer waiting, the others have no part in anything.                  *)
Watching(i) == i \in intervals \/ inspecting[i] # None

MadeInOrder ==
  \A c \in Containers :
    /\ c <= made => /\ stage[c] # "unused" /\ of[c] \in Servers /\ of[c] \notin waiting
    /\ c > made => stage[c] = "unused" /\ ~Watching(c) /\ c \notin alive

TypeInv == FlowTypes /\ TableTypes /\ WorldTypes /\ PlainTypes /\ MadeInOrder

(* The parts make up TypeOK. *)
LEMMA TypeParts == TypeInv => TypeOK
BY DEF TypeInv, TypeOK, FlowTypes, TableTypes, WorldTypes, PlainTypes

(* What a call of startContainer changes. *)
LEMMA CallMakes ==
  ASSUME TypeInv, NEW s \in Servers, NEW w \in Stages, NEW r \in Containers \cup {None},
         Call(s, w, r)
  PROVE  /\ made + 1 \in Containers /\ made' = made + 1 /\ made' \in 0..MaxContainers
         /\ FlowTypes'
         /\ of'[made + 1] = s /\ stage'[made + 1] = w /\ old'[made + 1] = r
         /\ \A c \in Containers : c # made + 1 =>
              of'[c] = of[c] /\ stage'[c] = stage[c] /\ old'[c] = old[c]
<1>1. made + 1 \in Containers /\ made' = made + 1
  BY DEF Call
<1>2. FlowTypes'
  BY <1>1 DEF Call, FlowTypes, TypeInv
<1> QED BY <1>1, <1>2, BoundsAssumption DEF Call, FlowTypes, PlainTypes, TypeInv, Containers

(* A container whose flow is somewhere has a server. *)
LEMMA HasServer ==
  ASSUME TypeInv, NEW c \in Containers, stage[c] # "unused" \/ Watching(c)
  PROVE  of[c] \in Servers /\ of[c] \notin waiting /\ c <= made
<1>1. c \in Int /\ made \in Int
  BY BoundsAssumption DEF TypeInv, PlainTypes, Containers
<1>2. ~(c > made)
  BY DEF TypeInv, MadeInOrder
<1> QED BY <1>1, <1>2 DEF TypeInv, MadeInOrder

(* The initial states have their types. *)
LEMMA TypeInit == Init => TypeInv
<1> SUFFICES ASSUME Init PROVE TypeInv
  OBVIOUS
<1>1. FlowTypes /\ TableTypes /\ WorldTypes
  BY Names DEF Init, FlowTypes, TableTypes, WorldTypes
<1>2. PlainTypes
  <2>1. made \in 0..MaxContainers /\ crashes \in 0..MaxCrashes
    BY BoundsAssumption DEF Init
  <2> QED BY <2>1 DEF Init, PlainTypes
<1>3. MadeInOrder
  BY DEF Init, MadeInOrder, Watching, Containers
<1> QED BY <1>1, <1>2, <1>3 DEF TypeInv

(* A flow that throws changes the state of its server only. *)
LEMMA ThrowTypes ==
  ASSUME TypeInv, NEW c \in Containers, stage[c] # "unused", Throw(c)
  PROVE  TypeInv'
<1> USE DEF manager, watch, docker, ending
<1>1. of[c] \in Servers
  BY HasServer
<1>2. FlowTypes' /\ WorldTypes'
  BY Names DEF TypeInv, Throw, FlowTypes, WorldTypes
<1>3. TableTypes' /\ PlainTypes'
  <2>1. CASE c \in boot
    BY <2>1, <1>1, Names DEF TypeInv, Throw, TableTypes, PlainTypes
  <2>2. CASE c \notin boot
    BY <2>2 DEF TypeInv, Throw, TableTypes, PlainTypes
  <2> QED BY <2>1, <2>2
<1>4. MadeInOrder'
  BY DEF TypeInv, FlowTypes, MadeInOrder, Watching, Throw
<1> QED BY <1>2, <1>3, <1>4 DEF TypeInv

(* No action takes a variable out of its type; a container that is not made *)
(* yet takes no step.                                                       *)
THEOREM TypeStep == TypeInv /\ [Next]_vars => TypeInv'
<1> SUFFICES ASSUME TypeInv, [Next]_vars PROVE TypeInv'
  OBVIOUS
<1>0. FlowTypes /\ TableTypes /\ WorldTypes /\ PlainTypes /\ MadeInOrder
  BY DEF TypeInv
<1> USE DEF flows, manager, watch, docker, ending
<1>1. ASSUME NEW s \in Servers, StartServer(s) PROVE TypeInv'
  <2>1. Call(s, "launching", None) /\ "launching" \in Stages /\ "starting" \in Statuses
    BY <1>1, Names DEF StartServer
  <2>2. /\ made + 1 \in Containers /\ made' = made + 1 /\ made' \in 0..MaxContainers
        /\ FlowTypes'
        /\ of'[made + 1] = s /\ stage'[made + 1] = "launching"
        /\ \A c \in Containers : c # made + 1 => of'[c] = of[c] /\ stage'[c] = stage[c]
    BY <2>1, CallMakes
  <2>3. TableTypes' /\ WorldTypes' /\ PlainTypes'
    BY <1>0, <1>1, <2>1, <2>2 DEF StartServer, TableTypes, WorldTypes, PlainTypes
  <2>4. MadeInOrder'
    <3>1. UNCHANGED <<intervals, inspecting, alive>> /\ waiting' = waiting \ {s}
      BY <1>1 DEF StartServer
    <3> QED BY <1>0, <2>2, <3>1 DEF MadeInOrder, Watching, PlainTypes, Containers
  <2> QED BY <2>2, <2>3, <2>4 DEF TypeInv
<1>2. ASSUME NEW c \in Containers, LaunchFails(c) \/ InspectFails(c) \/ HandshakeFails(c)
      PROVE  TypeInv'
  BY <1>2, ThrowTypes DEF LaunchFails, InspectFails, HandshakeFails
<1>3. ASSUME NEW c \in Containers, Launch(c) PROVE TypeInv'
  <2>1. of[c] \in Servers /\ c <= made
    BY <1>3, HasServer DEF Launch
  <2>2. FlowTypes' /\ TableTypes'
    BY <1>0, <1>3, Names DEF Launch, FlowTypes, TableTypes
  <2>3. WorldTypes'
    BY <1>0, <1>3 DEF Launch, WorldTypes
  <2>4. PlainTypes'
    BY <1>0, <1>3 DEF Launch, PlainTypes
  <2>5. MadeInOrder'
    BY <1>0, <1>3, <2>1 DEF Launch, MadeInOrder, Watching, FlowTypes
  <2> QED BY <2>2, <2>3, <2>4, <2>5 DEF TypeInv
<1>4. ASSUME NEW c \in Containers, List(c) PROVE TypeInv'
  <2>1. of[c] \in Servers /\ c <= made
    BY <1>4, HasServer DEF List
  <2>2. FlowTypes' /\ TableTypes'
    BY <1>0, <1>4, <2>1, Names DEF List, FlowTypes, TableTypes
  <2>3. WorldTypes'
    BY <1>0, <1>4, <2>1 DEF List, WorldTypes
  <2>4. PlainTypes'
    BY <1>0, <1>4 DEF List, PlainTypes
  <2>5. MadeInOrder'
    BY <1>0, <1>4, <2>1 DEF List, MadeInOrder, Watching, FlowTypes
  <2> QED BY <2>2, <2>3, <2>4, <2>5 DEF TypeInv
<1>5. ASSUME NEW c \in Containers, Answer(c) \/ Complete(c) \/ Die(c) PROVE TypeInv'
  <2>1. FlowTypes' /\ WorldTypes'
    BY <1>0, <1>5, Names DEF Answer, Complete, Die, FlowTypes, WorldTypes
  <2>2. TableTypes'
    BY <1>0, <1>5, Names DEF Answer, Complete, Die, TableTypes
  <2>3. PlainTypes'
    <3>1. crashes' \in 0..MaxCrashes
      BY <1>0, <1>5, BoundsAssumption DEF Answer, Complete, Die, PlainTypes
    <3> QED BY <1>0, <1>5, <3>1 DEF Answer, Complete, Die, PlainTypes
  <2>4. MadeInOrder'
    BY <1>0, <1>5 DEF Answer, Complete, Die, MadeInOrder, Watching, FlowTypes
  <2> QED BY <2>1, <2>2, <2>3, <2>4 DEF TypeInv
<1>6. ASSUME NEW i \in Containers, Tick(i) \/ SeenAlive(i) PROVE TypeInv'
  <2>1. FlowTypes' /\ TableTypes'
    BY <1>0, <1>6 DEF Tick, SeenAlive, FlowTypes, TableTypes
  <2>2. WorldTypes' /\ PlainTypes'
    <3>1. i \in Containers /\ of[i] \in Servers
      BY <1>6, HasServer DEF Tick, SeenAlive, Watching
    <3> QED BY <1>0, <1>6, <3>1 DEF Tick, SeenAlive, WorldTypes, PlainTypes, TableTypes
  <2>3. MadeInOrder'
    <3>1. Watching(i)
      BY <1>6 DEF Tick, SeenAlive, Watching
    <3>2. \A d \in Containers : Watching(d)' => Watching(d)
      BY <1>0, <1>6 DEF Tick, SeenAlive, Watching, WorldTypes
    <3>3. UNCHANGED <<made, stage, of, waiting, alive>>
      BY <1>6 DEF Tick, SeenAlive
    <3> QED BY <1>0, <3>2, <3>3 DEF MadeInOrder
  <2> QED BY <2>1, <2>2, <2>3 DEF TypeInv
<1>7. ASSUME NEW i \in Containers, SeenDead(i) PROVE TypeInv'
  <2> DEFINE s == of[i]
  <2>1. s \in Servers
    BY <1>7, HasServer DEF SeenDead, Watching
  <2>2. /\ intervals' = intervals \ {i}
        /\ inspecting' = [inspecting EXCEPT ![i] = None]
        /\ healthChecks' = [healthChecks EXCEPT ![s] = None]
        /\ HandleCrash(s)
        /\ UNCHANGED <<waiting, boot, lost, containers, alive, address, crashes, ending>>
    BY <1>7 DEF SeenDead
  <2>3. \A d \in Containers : Watching(d)' => Watching(d)
    BY <1>0, <2>2 DEF Watching, WorldTypes
  <2> HIDE DEF s
  <2>4. CASE UNCHANGED flows
    <3>1. FlowTypes'
      BY <1>0, <2>4 DEF FlowTypes
    <3>2. TableTypes'
      BY <1>0, <2>1, <2>2, Names DEF TableTypes, HandleCrash
    <3>3. WorldTypes'
      BY <1>0, <2>2, <2>1 DEF WorldTypes, HandleCrash, Unregister
    <3>4. PlainTypes'
      BY <1>0, <2>2, <2>4 DEF PlainTypes
    <3>5. MadeInOrder'
      BY <1>0, <2>2, <2>3, <2>4 DEF MadeInOrder
    <3> QED BY <3>1, <3>2, <3>3, <3>4, <3>5 DEF TypeInv
  <2>5. CASE /\ Call(s, IF containers[s] = None THEN "launching" ELSE "removing", containers[s])
             /\ Unregister({s})
             /\ status' = [status EXCEPT ![s] = "error"]
             /\ client' = [client EXCEPT ![s] = None]
             /\ restartCounts' = [restartCounts EXCEPT ![s] = @ + 1]
    <3>1. /\ made + 1 \in Containers /\ made' = made + 1 /\ made' \in 0..MaxContainers
          /\ FlowTypes'
          /\ of'[made + 1] = s /\ stage'[made + 1] \in {"launching", "removing"}
          /\ \A c \in Containers : c # made + 1 => of'[c] = of[c] /\ stage'[c] = stage[c]
      <4> DEFINE w == IF containers[s] = None THEN "launching" ELSE "removing"
      <4>1. w \in Stages /\ w \in {"launching", "removing"} /\ containers[s] \in Containers \cup {None}
        BY <1>0, <2>1, Names DEF TableTypes
      <4>2. Call(s, w, containers[s])
        BY <2>5
      <4> HIDE DEF w
      <4> QED BY <2>1, <4>1, <4>2, CallMakes
    <3>2. TableTypes'
      BY <1>0, <2>1, <2>2, <2>5, Names DEF TableTypes
    <3>3. WorldTypes'
      BY <1>0, <2>2, <2>5 DEF WorldTypes, Unregister
    <3>4. PlainTypes'
      BY <1>0, <2>2, <3>1 DEF PlainTypes
    <3>5. MadeInOrder'
      <4>1. s \notin waiting /\ UNCHANGED <<waiting, alive>>
        BY <1>7, <2>2, HasServer DEF SeenDead, Watching, s
      <4>2. \A d \in Containers : d > made => ~Watching(d)' /\ d \notin alive
        BY <1>0, <2>3 DEF MadeInOrder
      <4> QED BY <1>0, <2>1, <2>3, <3>1, <4>1, <4>2 DEF MadeInOrder, PlainTypes, Containers
    <3> QED BY <3>1, <3>2, <3>3, <3>4, <3>5 DEF TypeInv
  <2> QED BY <2>2, <2>4, <2>5 DEF HandleCrash
<1>8. ASSUME NEW c \in Containers, Removed(c) PROVE TypeInv'
  <2>1. FlowTypes' /\ TableTypes' /\ WorldTypes'
    BY <1>0, <1>8, Names DEF Removed, FlowTypes, TableTypes, WorldTypes
  <2>2. PlainTypes'
    BY <1>0, <1>8 DEF Removed, PlainTypes
  <2>3. MadeInOrder'
    BY <1>0, <1>8 DEF Removed, MadeInOrder, Watching, FlowTypes
  <2> QED BY <2>1, <2>2, <2>3 DEF TypeInv
<1>9. CASE StopAll
  <2>1. FlowTypes'
    BY <1>0, <1>9 DEF StopAll, FlowTypes
  <2>2. WorldTypes'
    BY <1>0, <1>9 DEF StopAll, WorldTypes, Unregister
  <2>3. TableTypes'
    BY <1>0, <1>9, Names DEF StopAll, TableTypes
  <2>4. PlainTypes'
    BY <1>0, <1>9 DEF StopAll, PlainTypes, TableTypes
  <2>5. MadeInOrder'
    BY <1>0, <1>9 DEF StopAll, MadeInOrder, Watching
  <2> QED BY <2>1, <2>2, <2>3, <2>4, <2>5 DEF TypeInv
<1>10. ASSUME NEW s \in Servers, Stopped(s) PROVE TypeInv'
  <2>1. FlowTypes' /\ TableTypes' /\ WorldTypes'
    BY <1>0, <1>10, Names DEF Stopped, FlowTypes, TableTypes, WorldTypes
  <2>2. PlainTypes'
    BY <1>0, <1>10 DEF Stopped, PlainTypes
  <2>3. MadeInOrder'
    BY <1>0, <1>10 DEF Stopped, MadeInOrder, Watching
  <2> QED BY <2>1, <2>2, <2>3 DEF TypeInv
<1>11. CASE UNCHANGED vars
  BY <1>0, <1>11 DEF vars, TypeInv, FlowTypes, TableTypes, WorldTypes, PlainTypes, MadeInOrder, Watching
<1> QED BY <1>1, <1>2, <1>3, <1>4, <1>5, <1>6, <1>7, <1>8, <1>9, <1>10, <1>11 DEF Next

(* The types and the order of the containers hold in every reachable state. *)
THEOREM TypeInvariant == Spec => []TypeInv
BY TypeInit, TypeStep, PTL DEF Spec

(* TypeOK holds of every behaviour, for any servers, addresses and bounds. *)
THEOREM TypeCorrect == Spec => []TypeOK
BY TypeInvariant, TypeParts, PTL

----
(* Who may start a container *)

(* Of each server, one flow at most is on its way to a new container, or    *)
(* one interval at most is awake, and never both: the interval that reports *)
(* a crash hands over to the recovery, and the recovery arms the next.      *)
Begun(c) == stage[c] \in Starting
Holds(c) == Begun(c) \/ Watching(c)

TokenInv ==
  /\ \A c, d \in Containers : Holds(c) /\ Holds(d) /\ of[c] = of[d] => c = d
  /\ \A c \in Containers : ~(Begun(c) /\ Watching(c))

(* What the report of a crash changes: nothing more than the interval, when *)
(* the server was stopped or is given up, or a new flow starts.             *)
LEMMA CrashEffect ==
  ASSUME TypeInv, NEW i \in Containers, SeenDead(i)
  PROVE  /\ of[i] \in Servers /\ of[i] \notin waiting /\ Watching(i) /\ i <= made
         /\ i \notin intervals' /\ inspecting'[i] = None
         /\ \A c \in Containers : c # i => (Watching(c)' <=> Watching(c))
         /\ \A s \in Servers : s # of[i] => /\ status'[s] = status[s]
                                            /\ restartCounts'[s] = restartCounts[s]
         /\ status'[of[i]] = "absent" <=> status[of[i]] = "absent"
         /\ intervals' = intervals \ {i}
         /\ healthChecks' = [healthChecks EXCEPT ![of[i]] = None]
         /\ UNCHANGED <<waiting, boot, lost, containers, docker, ending>>
         /\ \/ /\ UNCHANGED <<flows, registrations>>
               /\ \/ status[of[i]] = "absent"
                  \/ restartCounts[of[i]] + 1 > MaxRestartAttempts
            \/ /\ made + 1 \in Containers /\ made' = made + 1
               /\ of'[made + 1] = of[i] /\ old'[made + 1] = containers[of[i]]
               /\ stage'[made + 1] = IF containers[of[i]] = None THEN "launching" ELSE "removing"
               /\ \A c \in Containers : c # made + 1 =>
                    of'[c] = of[c] /\ stage'[c] = stage[c] /\ old'[c] = old[c]
               /\ Unregister({of[i]})
               /\ status[of[i]] # "absent"
<1> DEFINE s == of[i]
<1>1. Watching(i) /\ s \in Servers /\ s \notin waiting /\ i <= made
  BY HasServer DEF SeenDead, Watching
<1>2. /\ intervals' = intervals \ {i}
      /\ inspecting' = [inspecting EXCEPT ![i] = None]
      /\ healthChecks' = [healthChecks EXCEPT ![s] = None]
      /\ HandleCrash(s)
      /\ UNCHANGED <<waiting, boot, lost, containers, docker, ending>>
  BY DEF SeenDead
<1>3. /\ i \notin intervals' /\ inspecting'[i] = None
      /\ \A c \in Containers : c # i => (Watching(c)' <=> Watching(c))
  BY <1>2 DEF Watching, TypeInv, WorldTypes
<1> HIDE DEF s
<1>4. /\ \A t \in Servers : t # s => /\ status'[t] = status[t]
                                     /\ restartCounts'[t] = restartCounts[t]
      /\ status'[s] = "absent" <=> status[s] = "absent"
  BY <1>1, <1>2 DEF HandleCrash, TypeInv, TableTypes
<1>5. \/ /\ UNCHANGED <<flows, registrations>>
         /\ status[s] = "absent" \/ restartCounts[s] + 1 > MaxRestartAttempts
      \/ /\ status[s] # "absent"
         /\ Call(s, IF containers[s] = None THEN "launching" ELSE "removing", containers[s])
         /\ Unregister({s})
  BY <1>2 DEF HandleCrash
<1>6. ASSUME Call(s, IF containers[s] = None THEN "launching" ELSE "removing", containers[s])
      PROVE  /\ made + 1 \in Containers /\ made' = made + 1
             /\ of'[made + 1] = s /\ old'[made + 1] = containers[s]
             /\ stage'[made + 1] = IF containers[s] = None THEN "launching" ELSE "removing"
             /\ \A c \in Containers : c # made + 1 =>
                  of'[c] = of[c] /\ stage'[c] = stage[c] /\ old'[c] = old[c]
  <2> DEFINE w == IF containers[s] = None THEN "launching" ELSE "removing"
  <2>1. w \in Stages /\ containers[s] \in Containers \cup {None}
    BY <1>1, Names DEF TypeInv, TableTypes
  <2>2. Call(s, w, containers[s])
    BY <1>6
  <2> HIDE DEF w
  <2>3. /\ made + 1 \in Containers /\ made' = made + 1
        /\ of'[made + 1] = s /\ old'[made + 1] = containers[s]
        /\ stage'[made + 1] = w
        /\ \A c \in Containers : c # made + 1 =>
             of'[c] = of[c] /\ stage'[c] = stage[c] /\ old'[c] = old[c]
    BY <1>1, <2>1, <2>2, CallMakes
  <2> QED BY <2>3 DEF w
<1> QED BY <1>1, <1>2, <1>3, <1>4, <1>5, <1>6 DEF s

(* What the start of a server changes. *)
LEMMA StartEffect ==
  ASSUME TypeInv, NEW s \in Servers, StartServer(s)
  PROVE  /\ s \in waiting /\ \A c \in Containers : of[c] = s => c > made
         /\ made + 1 \in Containers /\ made' = made + 1
         /\ of'[made + 1] = s /\ stage'[made + 1] = "launching"
         /\ \A c \in Containers : c # made + 1 =>
              of'[c] = of[c] /\ stage'[c] = stage[c] /\ old'[c] = old[c]
         /\ ~\E c \in boot : stage[c] \in InProgress
         /\ boot' = boot \cup {made + 1}
         /\ waiting' = waiting \ {s}
         /\ \A t \in Servers : t # s => status'[t] = status[t]
         /\ status'[s] = "starting"
         /\ UNCHANGED <<lost, containers, restartCounts, watch, registrations, docker, ending>>
<1>1. Call(s, "launching", None) /\ "launching" \in Stages
  BY Names DEF StartServer
<1>2. \A c \in Containers : of[c] = s => c > made
  <2>1. \A c \in Containers : c \in Int /\ made \in Int
    BY BoundsAssumption DEF TypeInv, PlainTypes, Containers
  <2> QED BY <2>1 DEF StartServer, TypeInv, MadeInOrder
<1> QED BY <1>1, <1>2, CallMakes DEF StartServer, TypeInv, TableTypes

(* A container that is not made yet holds nothing. *)
LEMMA Unmade ==
  ASSUME TypeInv
  PROVE  \A c \in Containers : Holds(c) => c <= made
BY HasServer DEF Holds, Begun, Starting

(* No action starts a second flow or interval of a server. *)
THEOREM TokenStep == TypeInv /\ TokenInv /\ [Next]_vars => TokenInv'
<1> SUFFICES ASSUME TypeInv, TokenInv, [Next]_vars PROVE TokenInv'
  OBVIOUS
<1>0. /\ stage \in [Containers -> Stages]
      /\ inspecting \in [Containers -> Containers \cup {None}]
      /\ \A c \in Containers : c \in Int
      /\ made \in Int
  BY BoundsAssumption DEF TypeInv, FlowTypes, WorldTypes, PlainTypes, Containers
<1> USE DEF flows, manager, watch, docker, ending
<1>1. ASSUME NEW s \in Servers, StartServer(s) PROVE TokenInv'
  <2>1. /\ \A c \in Containers : of[c] = s => c > made
        /\ made + 1 \in Containers
        /\ of'[made + 1] = s /\ stage'[made + 1] = "launching"
        /\ \A c \in Containers : c # made + 1 => of'[c] = of[c] /\ stage'[c] = stage[c]
        /\ UNCHANGED watch
    BY <1>1, StartEffect
  <2>2. \A c \in Containers : c # made + 1 => (Holds(c)' <=> Holds(c)) /\ (Begun(c)' <=> Begun(c))
    BY <2>1 DEF Holds, Begun, Watching
  <2>3. \A c \in Containers : c = made + 1 => ~Watching(c)'
    BY <1>0, <2>1, Unmade DEF Holds, Watching
  <2>4. \A c \in Containers : (Watching(c)' <=> Watching(c))
    BY <2>1 DEF Watching
  <2> QED BY <1>0, <2>1, <2>2, <2>3, <2>4, Unmade DEF TokenInv
<1>2. ASSUME NEW c \in Containers, \/ LaunchFails(c) \/ InspectFails(c) \/ HandshakeFails(c)
                                   \/ Launch(c) \/ List(c) \/ Answer(c) \/ Complete(c)
                                   \/ Die(c) \/ Removed(c)
      PROVE TokenInv'
  <2>1. of' = of
    BY <1>2 DEF LaunchFails, InspectFails, HandshakeFails, Throw, Launch, List, Answer,
                Complete, Die, Removed
  <2>2. \A d \in Containers : Begun(d)' => Begun(d)
    BY <1>0, <1>2 DEF LaunchFails, InspectFails, HandshakeFails, Throw, Launch, List, Answer,
                Complete, Die, Removed, Begun, Starting
  <2>3. CASE List(c)
    <3>1. intervals' = (intervals \ {healthChecks[of[c]]}) \cup {c} /\ inspecting' = inspecting
      BY <2>3 DEF List
    <3>2. \A d \in Containers : d # c /\ Watching(d)' => Watching(d)
      BY <3>1 DEF Watching
    <3>3. Begun(c) /\ ~Begun(c)'
      BY <1>0, <2>3 DEF List, Begun, Starting
    <3> QED BY <2>1, <2>2, <3>2, <3>3 DEF TokenInv, Holds
  <2>4. CASE UNCHANGED <<intervals, inspecting>>
    <3>1. \A d \in Containers : Watching(d)' => Watching(d)
      BY <2>4 DEF Watching
    <3> QED BY <2>1, <2>2, <3>1 DEF TokenInv, Holds
  <2> QED BY <1>2, <2>3, <2>4 DEF LaunchFails, InspectFails, HandshakeFails, Throw, Launch,
                                  Answer, Complete, Die, Removed
<1>3. ASSUME NEW i \in Containers, Tick(i) \/ SeenAlive(i) PROVE TokenInv'
  <2>1. UNCHANGED <<of, stage>>
    BY <1>3 DEF Tick, SeenAlive
  <2>2. \A d \in Containers : Watching(d)' => Watching(d)
    BY <1>0, <1>3 DEF Tick, SeenAlive, Watching
  <2> QED BY <2>1, <2>2 DEF TokenInv, Holds, Begun
<1>4. ASSUME NEW i \in Containers, SeenDead(i) PROVE TokenInv'
  <2>1. /\ Watching(i) /\ i <= made /\ ~Watching(i)'
        /\ \A c \in Containers : c # i => (Watching(c)' <=> Watching(c))
    BY <1>4, CrashEffect DEF Watching
  <2>2. CASE UNCHANGED flows
    BY <2>1, <2>2 DEF TokenInv, Holds, Begun
  <2>3. CASE /\ made + 1 \in Containers
             /\ of'[made + 1] = of[i]
             /\ \A c \in Containers : c # made + 1 => of'[c] = of[c] /\ stage'[c] = stage[c]
    <3>1. \A c \in Containers : c # made + 1 => (Begun(c)' <=> Begun(c))
      BY <2>3 DEF Begun
    <3>2. \A c \in Containers : c = made + 1 => ~Watching(c)'
      BY <1>0, <2>1, Unmade DEF Holds
    <3>3. \A c \in Containers : Holds(c)' => c = made + 1 \/ (Holds(c) /\ c # i)
      BY <1>0, <2>1, <3>1 DEF Holds, TokenInv
    <3>4. \A c \in Containers : Holds(c)' /\ of'[c] = of[i] => c = made + 1
      BY <1>0, <2>1, <2>3, <3>3 DEF Holds, TokenInv
    <3> QED BY <1>0, <2>1, <2>3, <3>1, <3>2, <3>3, <3>4, Unmade DEF TokenInv
  <2> QED BY <1>4, <2>2, <2>3, CrashEffect
<1>5. ASSUME NEW s \in Servers, Stopped(s) PROVE TokenInv'
  <2>1. UNCHANGED <<of, stage>> /\ \A d \in Containers : Watching(d)' => Watching(d)
    BY <1>5 DEF Stopped, Watching
  <2> QED BY <2>1 DEF TokenInv, Holds, Begun
<1>6. CASE StopAll \/ UNCHANGED vars
  <2>1. UNCHANGED <<of, stage>> /\ \A d \in Containers : Watching(d)' => Watching(d)
    BY <1>6 DEF StopAll, vars, Watching
  <2> QED BY <2>1 DEF TokenInv, Holds, Begun
<1> QED BY <1>1, <1>2, <1>3, <1>4, <1>5, <1>6 DEF Next

----
(* What the tables point at *)

(* The tables name containers of their own server; a listed one is past the *)
(* start.                                                                   *)
PlaceInv ==
  /\ \A s \in Servers : containers[s] # None =>
       /\ of[containers[s]] = s
       /\ stage[containers[s]] \notin Starting \cup {"unused"}
  /\ \A s \in Servers : healthChecks[s] # None =>
       /\ of[healthChecks[s]] = s
       /\ stage[healthChecks[s]] # "unused"

(* A server is missing from the table only before its start and after the   *)
(* shutdown, which waits for the startup and is the only one to halt.       *)
PhaseInv ==
  /\ \A s \in Servers : status[s] = "absent" => s \in waiting \/ down
  /\ down => Booted
  /\ \A c \in boot : stage[c] # "unused"
  /\ \A s \in Servers : halting[s] # None => down

(* The types the steps below use. *)
LEMMA Shapes ==
  ASSUME TypeInv
  PROVE  /\ stage \in [Containers -> Stages]
         /\ old \in [Containers -> Containers \cup {None}]
         /\ status \in [Servers -> Statuses]
         /\ containers \in [Servers -> Containers \cup {None}]
         /\ restartCounts \in [Servers -> Nat]
         /\ healthChecks \in [Servers -> Containers \cup {None}]
         /\ halting \in [Servers -> Containers \cup {None}]
         /\ inspecting \in [Containers -> Containers \cup {None}]
         /\ registrations \in [Addresses -> Servers \cup {None}]
         /\ address \in [Containers -> Addresses \cup {None}]
         /\ of \in [Containers -> Servers \cup {None}]
         /\ boot \subseteq Containers /\ alive \subseteq Containers /\ atStop \subseteq Containers
         /\ intervals \subseteq Containers /\ waiting \subseteq Servers
         /\ None \notin Containers /\ None \notin Servers /\ None \notin Addresses
BY BoundsAssumption, NoneAssumption
   DEF TypeInv, FlowTypes, TableTypes, WorldTypes, PlainTypes, Containers

(* The call of startContainer makes a container that was not in use. *)
LEMMA Fresh ==
  ASSUME TypeInv, made + 1 \in Containers
  PROVE  /\ stage[made + 1] = "unused" /\ ~Watching(made + 1) /\ made + 1 \notin alive
         /\ ~Begun(made + 1)
<1>1. made \in Int /\ made + 1 > made
  BY BoundsAssumption DEF TypeInv, PlainTypes
<1> QED BY <1>1 DEF TypeInv, MadeInOrder, Begun, Starting

(* No action lists a container under another server. *)
THEOREM PlaceStep == TypeInv /\ PlaceInv /\ [Next]_vars => PlaceInv'
<1> SUFFICES ASSUME TypeInv, PlaceInv, [Next]_vars PROVE PlaceInv'
  OBVIOUS
<1>0. /\ stage \in [Containers -> Stages]
      /\ containers \in [Servers -> Containers \cup {None}]
      /\ healthChecks \in [Servers -> Containers \cup {None}]
      /\ None \notin Containers
  BY Shapes
<1> USE DEF flows, manager, watch, docker, ending
<1>1. ASSUME NEW s \in Servers, StartServer(s) PROVE PlaceInv'
  <2>1. /\ made + 1 \in Containers
        /\ \A c \in Containers : c # made + 1 => of'[c] = of[c] /\ stage'[c] = stage[c]
        /\ UNCHANGED <<containers, healthChecks>>
    BY <1>1, StartEffect
  <2>2. stage[made + 1] = "unused"
    BY <2>1, Fresh
  <2> QED BY <1>0, <2>1, <2>2 DEF PlaceInv
<1>2. ASSUME NEW c \in Containers,
             \/ LaunchFails(c) \/ InspectFails(c) \/ HandshakeFails(c) \/ Launch(c)
             \/ Answer(c) \/ Complete(c) \/ Die(c)
      PROVE  PlaceInv'
  <2>1. UNCHANGED <<of, containers, healthChecks>>
    BY <1>2 DEF LaunchFails, InspectFails, HandshakeFails, Throw, Launch, Answer, Complete, Die
  <2>2. \A d \in Containers : /\ stage[d] # "unused" => stage'[d] # "unused"
                              /\ stage[d] \notin Starting \cup {"unused"} =>
                                   stage'[d] \notin Starting \cup {"unused"}
    BY <1>0, <1>2 DEF LaunchFails, InspectFails, HandshakeFails, Throw, Launch, Answer,
                      Complete, Die, Starting
  <2> QED BY <1>0, <2>1, <2>2 DEF PlaceInv
<1>3. ASSUME NEW c \in Containers, List(c) PROVE PlaceInv'
  <2>1. of[c] \in Servers /\ of' = of
    BY <1>3, HasServer DEF List
  <2>2. /\ stage' = [stage EXCEPT ![c] = "handshake"]
        /\ containers' = [containers EXCEPT ![of[c]] = c]
        /\ healthChecks' = [healthChecks EXCEPT ![of[c]] = c]
    BY <1>3 DEF List
  <2> QED BY <1>0, <2>1, <2>2 DEF PlaceInv, Starting
<1>4. ASSUME NEW i \in Containers, Tick(i) \/ SeenAlive(i) PROVE PlaceInv'
  BY <1>0, <1>4 DEF Tick, SeenAlive, PlaceInv
<1>5. ASSUME NEW i \in Containers, SeenDead(i) PROVE PlaceInv'
  <2>1. UNCHANGED containers /\ healthChecks' = [healthChecks EXCEPT ![of[i]] = None]
    BY <1>5, CrashEffect
  <2>2. \A c \in Containers : stage[c] # "unused" => of'[c] = of[c] /\ stage'[c] = stage[c]
    BY <1>5, CrashEffect, Fresh
  <2> QED BY <1>0, <2>1, <2>2 DEF PlaceInv
<1>6. ASSUME NEW c \in Containers, Removed(c) PROVE PlaceInv'
  BY <1>0, <1>6 DEF Removed, PlaceInv, Starting
<1>7. ASSUME NEW s \in Servers, Stopped(s) PROVE PlaceInv'
  BY <1>0, <1>7 DEF Stopped, PlaceInv
<1>8. CASE StopAll \/ UNCHANGED vars
  BY <1>0, <1>8 DEF StopAll, vars, PlaceInv
<1> QED BY <1>1, <1>2, <1>3, <1>4, <1>5, <1>6, <1>7, <1>8 DEF Next

(* No action takes a server out of the table before the shutdown. *)
THEOREM PhaseStep == TypeInv /\ PhaseInv /\ [Next]_vars => PhaseInv'
<1> SUFFICES ASSUME TypeInv, PhaseInv, [Next]_vars PROVE PhaseInv'
  OBVIOUS
<1>0. /\ stage \in [Containers -> Stages]
      /\ status \in [Servers -> Statuses]
      /\ halting \in [Servers -> Containers \cup {None}]
      /\ containers \in [Servers -> Containers \cup {None}]
      /\ boot \subseteq Containers
      /\ None \notin Containers
  BY Shapes
<1> USE DEF flows, manager, watch, docker, ending
<1>1. ASSUME NEW s \in Servers, StartServer(s) PROVE PhaseInv'
  <2>1. /\ s \in waiting /\ waiting' = waiting \ {s}
        /\ made + 1 \in Containers /\ stage'[made + 1] = "launching"
        /\ \A c \in Containers : c # made + 1 => stage'[c] = stage[c]
        /\ boot' = boot \cup {made + 1}
        /\ \A t \in Servers : t # s => status'[t] = status[t]
        /\ status'[s] = "starting"
        /\ UNCHANGED <<halting, down>>
    BY <1>1, StartEffect
  <2>2. ~down
    BY <2>1 DEF PhaseInv, Booted
  <2> QED BY <1>0, <2>1, <2>2 DEF PhaseInv
<1>2. ASSUME NEW c \in Containers,
             \/ LaunchFails(c) \/ InspectFails(c) \/ HandshakeFails(c) \/ Launch(c) \/ List(c)
             \/ Answer(c) \/ Complete(c) \/ Die(c) \/ Removed(c)
      PROVE  PhaseInv'
  <2>1. UNCHANGED <<waiting, boot, halting, down>>
    BY <1>2 DEF LaunchFails, InspectFails, HandshakeFails, Throw, Launch, List, Answer,
                Complete, Die, Removed
  <2>2. \A s \in Servers : status'[s] = "absent" => status[s] = "absent"
    BY <1>0, <1>2 DEF LaunchFails, InspectFails, HandshakeFails, Throw, Launch, List, Answer,
                      Complete, Die, Removed
  <2>3. \A d \in Containers : /\ stage[d] # "unused" => stage'[d] # "unused"
                              /\ stage[d] \notin InProgress => stage'[d] \notin InProgress
    BY <1>0, <1>2 DEF LaunchFails, InspectFails, HandshakeFails, Throw, Launch, List, Answer,
                      Complete, Die, Removed, Starting, InProgress
  <2> QED BY <1>0, <2>1, <2>2, <2>3 DEF PhaseInv, Booted
<1>3. ASSUME NEW i \in Containers, Tick(i) \/ SeenAlive(i) PROVE PhaseInv'
  BY <1>0, <1>3 DEF Tick, SeenAlive, PhaseInv, Booted
<1>4. ASSUME NEW i \in Containers, SeenDead(i) PROVE PhaseInv'
  <2>1. UNCHANGED <<waiting, boot, halting, down>>
    BY <1>4, CrashEffect
  <2>2. \A s \in Servers : status'[s] = "absent" => status[s] = "absent"
    BY <1>4, CrashEffect
  <2>3. \A c \in Containers : stage[c] # "unused" => stage'[c] = stage[c]
    BY <1>4, CrashEffect, Fresh
  <2> QED BY <1>0, <2>1, <2>2, <2>3 DEF PhaseInv, Booted
<1>5. ASSUME NEW s \in Servers, Stopped(s) PROVE PhaseInv'
  BY <1>0, <1>5 DEF Stopped, PhaseInv, Booted
<1>6. CASE StopAll
  BY <1>0, <1>6 DEF StopAll, PhaseInv, Booted
<1>7. CASE UNCHANGED vars
  BY <1>7 DEF vars, PhaseInv, Booted
<1> QED BY <1>1, <1>2, <1>3, <1>4, <1>5, <1>6, <1>7 DEF Next

----
(* One container of each server *)

(* What a running container of the same server may be to a flow, or to an   *)
(* interval of a server in the table.                                       *)
LoneInv ==
  \A d \in alive, c \in Containers : of[c] = of[d] =>
    /\ stage[c] # "launching"
    /\ stage[c] = "launched" => d = c
    /\ stage[c] = "removing" => d = old[c]
    /\ Watching(c) /\ status[of[c]] # "absent" => d = containers[of[c]]

(* A new container comes only from a flow that found no other running.      *)
THEOREM LoneStep ==
  TypeInv /\ TokenInv /\ PhaseInv /\ LoneInv /\ [Next]_vars => LoneInv'
<1> SUFFICES ASSUME TypeInv, TokenInv, PhaseInv, LoneInv, [Next]_vars PROVE LoneInv'
  OBVIOUS
<1>0. /\ stage \in [Containers -> Stages]
      /\ status \in [Servers -> Statuses]
      /\ containers \in [Servers -> Containers \cup {None}]
      /\ halting \in [Servers -> Containers \cup {None}]
      /\ inspecting \in [Containers -> Containers \cup {None}]
      /\ of \in [Containers -> Servers \cup {None}]
      /\ boot \subseteq Containers /\ alive \subseteq Containers
      /\ None \notin Containers /\ None \notin Servers
  BY Shapes
<1> USE DEF flows, manager, watch, docker, ending
<1>1. ASSUME NEW s \in Servers, StartServer(s) PROVE LoneInv'
  <2>1. /\ s \in waiting
        /\ made + 1 \in Containers
        /\ of'[made + 1] = s /\ stage'[made + 1] = "launching"
        /\ \A c \in Containers : c # made + 1 =>
             of'[c] = of[c] /\ stage'[c] = stage[c] /\ old'[c] = old[c]
        /\ \A t \in Servers : t # s => status'[t] = status[t]
        /\ UNCHANGED <<containers, watch, alive>>
    BY <1>1, StartEffect
  <2>2. made + 1 \notin alive /\ ~Watching(made + 1)
    BY <2>1, Fresh
  <2>3. \A d \in Containers : d \in alive \/ Watching(d) => of[d] \in Servers /\ of[d] # s
    <3>1. \A d \in Containers : d \in alive \/ Watching(d) => d <= made
      <4>1. \A d \in Containers : d \in Int /\ made \in Int
        BY BoundsAssumption DEF TypeInv, PlainTypes, Containers
      <4> QED BY <4>1 DEF TypeInv, MadeInOrder
    <3> QED BY <2>1, <3>1 DEF TypeInv, MadeInOrder
  <2>4. \A c \in Containers : Watching(c)' <=> Watching(c)
    BY <2>1 DEF Watching
  <2> QED BY <1>0, <2>1, <2>2, <2>3, <2>4 DEF LoneInv
<1>2. ASSUME NEW c \in Containers,
             \/ LaunchFails(c) \/ InspectFails(c) \/ HandshakeFails(c)
             \/ Answer(c) \/ Complete(c) \/ Die(c)
      PROVE  LoneInv'
  <2>1. UNCHANGED <<of, old, containers, watch>> /\ alive' \subseteq alive
    BY <1>2 DEF LaunchFails, InspectFails, HandshakeFails, Throw, Answer, Complete, Die
  <2>2. \A d \in Containers : stage'[d] \in Starting => stage'[d] = stage[d]
    BY <1>0, <1>2 DEF LaunchFails, InspectFails, HandshakeFails, Throw, Answer, Complete, Die,
                      Starting
  <2>3. \A s \in Servers : status[s] = "absent" => status'[s] = "absent"
    <3>1. CASE Die(c) \/ Answer(c)
      BY <3>1 DEF Die, Answer
    <3>2. CASE Complete(c)
      BY <1>0, <3>2 DEF Complete
    <3>3. CASE LaunchFails(c) \/ InspectFails(c) \/ HandshakeFails(c)
      <4>1. Throw(c) /\ stage[c] \in InProgress /\ stage[c] # "unused"
        BY <3>3 DEF LaunchFails, InspectFails, HandshakeFails, InProgress, Starting
      <4>2. of[c] \in Servers /\ of[c] \notin waiting
        BY <4>1, HasServer
      <4>3. CASE c \in boot
        <5>1. ~down
          BY <4>1, <4>3 DEF PhaseInv, Booted
        <5>2. status[of[c]] # "absent"
          BY <4>2, <5>1 DEF PhaseInv
        <5> QED BY <1>0, <4>1, <5>2 DEF Throw
      <4>4. CASE c \notin boot
        BY <4>1, <4>4 DEF Throw
      <4> QED BY <4>3, <4>4
    <3> QED BY <1>2, <3>1, <3>2, <3>3
  <2>4. \A d \in Containers : Watching(d)' <=> Watching(d)
    BY <2>1 DEF Watching
  <2>5. \A d \in Containers : Watching(d) => of[d] \in Servers
    BY HasServer
  <2> QED BY <1>0, <2>1, <2>2, <2>3, <2>4, <2>5 DEF LoneInv, Starting
<1>3. ASSUME NEW c \in Containers, Launch(c) PROVE LoneInv'
  <2>1. /\ stage[c] = "launching" /\ stage' = [stage EXCEPT ![c] = "launched"]
        /\ alive' = alive \cup {c}
        /\ UNCHANGED <<of, old, containers, status, watch>>
    BY <1>3 DEF Launch
  <2>2. Begun(c) /\ \A d \in Containers : Watching(d)' <=> Watching(d)
    BY <2>1 DEF Begun, Starting, Watching
  <2>3. \A d \in Containers : of[d] = of[c] /\ d # c => ~Begun(d) /\ ~Watching(d)
    BY <2>2 DEF TokenInv, Holds
  <2>4. ~Watching(c)
    BY <2>2 DEF TokenInv
  <2>5. \A d \in alive : of[d] # of[c]
    BY <2>1 DEF LoneInv
  <2> QED BY <1>0, <2>1, <2>2, <2>3, <2>4, <2>5 DEF LoneInv, Begun, Starting
<1>4. ASSUME NEW c \in Containers, List(c) PROVE LoneInv'
  <2>1. /\ stage[c] = "launched" /\ stage' = [stage EXCEPT ![c] = "handshake"]
        /\ containers' = [containers EXCEPT ![of[c]] = c]
        /\ intervals' = (intervals \ {healthChecks[of[c]]}) \cup {c}
        /\ UNCHANGED <<of, old, alive, status, inspecting>>
    BY <1>4 DEF List
  <2>2. Begun(c) /\ of[c] \in Servers
    BY <2>1, HasServer DEF Begun, Starting
  <2>3. \A d \in Containers : d # c /\ Watching(d)' => Watching(d) /\ of[d] # of[c]
    BY <2>1, <2>2 DEF Watching, TokenInv, Holds
  <2>4. \A d \in alive : of[d] = of[c] => d = c
    BY <2>1 DEF LoneInv
  <2> QED BY <1>0, <2>1, <2>2, <2>3, <2>4 DEF LoneInv
<1>5. ASSUME NEW i \in Containers, Tick(i) \/ SeenAlive(i) PROVE LoneInv'
  <2>1. UNCHANGED <<of, stage, old, containers, status, alive>>
    BY <1>5 DEF Tick, SeenAlive
  <2>2. \A d \in Containers : Watching(d)' => Watching(d)
    BY <1>0, <1>5 DEF Tick, SeenAlive, Watching
  <2> QED BY <2>1, <2>2 DEF LoneInv
<1>6. ASSUME NEW i \in Containers, SeenDead(i) PROVE LoneInv'
  <2> DEFINE s == of[i]
  <2>1. /\ Watching(i) /\ ~Watching(i)' /\ s \in Servers
        /\ \A c \in Containers : c # i => (Watching(c)' <=> Watching(c))
        /\ \A t \in Servers : t # s => status'[t] = status[t]
        /\ status'[s] = "absent" <=> status[s] = "absent"
        /\ UNCHANGED <<containers, alive>>
    BY <1>6, CrashEffect DEF Watching
  <2>2. \A d \in Containers : Watching(d)' => Watching(d)
    BY <2>1
  <2>3. \A d \in Containers : Watching(d) => of[d] \in Servers
    BY HasServer
  <2>4. CASE UNCHANGED flows
    BY <2>1, <2>2, <2>3, <2>4 DEF LoneInv
  <2>5. CASE /\ made + 1 \in Containers
             /\ of'[made + 1] = s /\ old'[made + 1] = containers[s]
             /\ stage'[made + 1] = IF containers[s] = None THEN "launching" ELSE "removing"
             /\ \A c \in Containers : c # made + 1 =>
                  of'[c] = of[c] /\ stage'[c] = stage[c] /\ old'[c] = old[c]
             /\ status[s] # "absent"
    <3>1. made + 1 \notin alive /\ ~Watching(made + 1)
      BY <2>5, Fresh
    <3>2. \A d \in alive : of[d] = s => d = containers[s]
      BY <2>1, <2>5 DEF LoneInv
    <3> QED BY <1>0, <2>1, <2>2, <2>3, <2>5, <3>1, <3>2 DEF LoneInv
  <2> QED BY <1>6, <2>4, <2>5, CrashEffect
<1>7. ASSUME NEW c \in Containers, Removed(c) PROVE LoneInv'
  <2>1. /\ stage[c] = "removing" /\ stage' = [stage EXCEPT ![c] = "launching"]
        /\ containers' = [containers EXCEPT ![of[c]] = None]
        /\ alive' = alive \ {old[c]}
        /\ UNCHANGED <<of, old, status, watch>>
    BY <1>7 DEF Removed
  <2>2. Begun(c) /\ of[c] \in Servers /\ \A d \in Containers : Watching(d)' <=> Watching(d)
    BY <2>1, HasServer DEF Begun, Starting, Watching
  <2>3. \A d \in Containers : Watching(d) => of[d] # of[c]
    BY <2>2 DEF TokenInv, Holds
  <2>4. \A d \in alive' : of[d] # of[c]
    BY <2>1 DEF LoneInv
  <2> QED BY <1>0, <2>1, <2>2, <2>3, <2>4 DEF LoneInv
<1>8. ASSUME NEW s \in Servers, Stopped(s) PROVE LoneInv'
  <2>1. /\ containers' = [containers EXCEPT ![s] = None]
        /\ status' = [status EXCEPT ![s] = "absent"]
        /\ alive' \subseteq alive
        /\ UNCHANGED <<of, stage, old, watch>>
    BY <1>8 DEF Stopped
  <2>2. \A d \in Containers : Watching(d)' <=> Watching(d)
    BY <2>1 DEF Watching
  <2>3. \A d \in Containers : Watching(d) => of[d] \in Servers
    BY HasServer
  <2> QED BY <1>0, <2>1, <2>2, <2>3 DEF LoneInv
<1>9. CASE StopAll
  <2>1. /\ \A s \in Servers : status[s] = "absent" => status'[s] = "absent"
        /\ intervals' \subseteq intervals
        /\ UNCHANGED <<of, stage, old, containers, alive, inspecting>>
    BY <1>0, <1>9 DEF StopAll
  <2>2. \A d \in Containers : Watching(d)' => Watching(d)
    BY <2>1 DEF Watching
  <2>3. \A d \in Containers : Watching(d) => of[d] \in Servers
    BY HasServer
  <2> QED BY <2>1, <2>2, <2>3 DEF LoneInv
<1>10. CASE UNCHANGED vars
  BY <1>10 DEF vars, LoneInv, Watching
<1> QED BY <1>1, <1>2, <1>3, <1>4, <1>5, <1>6, <1>7, <1>8, <1>9, <1>10 DEF Next

(* Only Launch adds a container to those that run.                          *)
THEOREM OneStep ==
  TypeInv /\ LoneInv /\ OneContainer /\ [Next]_vars => OneContainer'
<1> SUFFICES ASSUME TypeInv, LoneInv, OneContainer, [Next]_vars PROVE OneContainer'
  OBVIOUS
<1> USE DEF flows, manager, watch, docker, ending
<1>1. ASSUME NEW c \in Containers, Launch(c) PROVE OneContainer'
  BY <1>1 DEF Launch, LoneInv, OneContainer
<1>2. ASSUME /\ alive' \subseteq alive
             /\ \A d \in Containers : d \in alive => of'[d] = of[d]
      PROVE  OneContainer'
  BY <1>2, Shapes DEF OneContainer
<1>3. ASSUME NEW s \in Servers, StartServer(s) PROVE OneContainer'
  <2>1. UNCHANGED alive /\ \A d \in Containers : d \in alive => of'[d] = of[d]
    BY <1>3, StartEffect, Fresh
  <2> QED BY <2>1, <1>2
<1>4. ASSUME NEW i \in Containers, SeenDead(i) PROVE OneContainer'
  <2>1. UNCHANGED alive /\ \A d \in Containers : d \in alive => of'[d] = of[d]
    BY <1>4, CrashEffect, Fresh
  <2> QED BY <2>1, <1>2
<1>5. ASSUME NEW c \in Containers,
             \/ LaunchFails(c) \/ InspectFails(c) \/ HandshakeFails(c) \/ List(c)
             \/ Answer(c) \/ Complete(c) \/ Die(c) \/ Removed(c) \/ Tick(c) \/ SeenAlive(c)
      PROVE  OneContainer'
  <2>1. alive' \subseteq alive /\ of' = of
    BY <1>5 DEF LaunchFails, InspectFails, HandshakeFails, Throw, List, Answer, Complete, Die,
                Removed, Tick, SeenAlive
  <2> QED BY <2>1, <1>2
<1>6. ASSUME NEW s \in Servers, Stopped(s) PROVE OneContainer'
  BY <1>2, <1>6 DEF Stopped
<1>7. CASE StopAll \/ UNCHANGED vars
  BY <1>2, <1>7 DEF StopAll, vars
<1> QED BY <1>1, <1>3, <1>4, <1>5, <1>6, <1>7 DEF Next

----
(* The watch on the listed containers *)

(* An interval is awake only for a server whose count of restarts was reset, *)
(* so that no crash it reports is given up.                                  *)
CountInv == \A i \in Containers : Watching(i) => restartCounts[of[i]] = 0

(* No action leaves an interval awake over a count of restarts. *)
THEOREM CountStep == TypeInv /\ TokenInv /\ CountInv /\ [Next]_vars => CountInv'
<1> SUFFICES ASSUME TypeInv, TokenInv, CountInv, [Next]_vars PROVE CountInv'
  OBVIOUS
<1>0. /\ restartCounts \in [Servers -> Nat]
      /\ inspecting \in [Containers -> Containers \cup {None}]
      /\ \A d \in Containers : Watching(d) => of[d] \in Servers
  BY Shapes, HasServer
<1> USE DEF flows, manager, watch, docker, ending
<1>1. ASSUME NEW s \in Servers, StartServer(s) PROVE CountInv'
  <2>1. /\ made + 1 \in Containers
        /\ \A c \in Containers : c # made + 1 => of'[c] = of[c]
        /\ UNCHANGED <<restartCounts, watch>>
    BY <1>1, StartEffect
  <2>2. \A c \in Containers : Watching(c)' => Watching(c) /\ c # made + 1
    BY <2>1, Fresh DEF Watching
  <2> QED BY <2>1, <2>2 DEF CountInv
<1>2. ASSUME NEW c \in Containers, List(c) PROVE CountInv'
  <2>1. /\ stage[c] = "launched"
        /\ intervals' = (intervals \ {healthChecks[of[c]]}) \cup {c}
        /\ restartCounts' = [restartCounts EXCEPT ![of[c]] = 0]
        /\ UNCHANGED <<of, inspecting>>
    BY <1>2 DEF List
  <2>2. of[c] \in Servers
    BY <2>1, HasServer
  <2>3. \A d \in Containers : d # c /\ Watching(d)' => Watching(d)
    BY <2>1 DEF Watching
  <2> QED BY <1>0, <2>1, <2>2, <2>3 DEF CountInv
<1>3. ASSUME NEW c \in Containers,
             \/ LaunchFails(c) \/ InspectFails(c) \/ HandshakeFails(c) \/ Launch(c)
             \/ Answer(c) \/ Complete(c) \/ Die(c) \/ Removed(c) \/ Tick(c) \/ SeenAlive(c)
      PROVE  CountInv'
  <2>1. UNCHANGED <<of, restartCounts>>
    BY <1>3 DEF LaunchFails, InspectFails, HandshakeFails, Throw, Launch, Answer, Complete, Die,
                Removed, Tick, SeenAlive
  <2>2. \A d \in Containers : Watching(d)' => Watching(d)
    BY <1>0, <1>3 DEF LaunchFails, InspectFails, HandshakeFails, Throw, Launch, Answer, Complete,
                      Die, Removed, Tick, SeenAlive, Watching
  <2> QED BY <2>1, <2>2 DEF CountInv
<1>4. ASSUME NEW i \in Containers, SeenDead(i) PROVE CountInv'
  <2>1. /\ Watching(i) /\ ~Watching(i)'
        /\ \A c \in Containers : c # i => (Watching(c)' <=> Watching(c))
        /\ \A s \in Servers : s # of[i] => restartCounts'[s] = restartCounts[s]
    BY <1>4, CrashEffect DEF Watching
  <2>2. \A c \in Containers : Watching(c) => of'[c] = of[c]
    BY <1>4, CrashEffect, Fresh
  <2>3. \A c \in Containers : Watching(c)' => Watching(c) /\ of[c] # of[i]
    BY <2>1 DEF TokenInv, Holds
  <2> QED BY <1>0, <2>1, <2>2, <2>3 DEF CountInv
<1>5. ASSUME NEW s \in Servers, Stopped(s) PROVE CountInv'
  BY <1>0, <1>5 DEF Stopped, CountInv, Watching
<1>6. CASE StopAll \/ UNCHANGED vars
  <2>1. UNCHANGED <<of, restartCounts, inspecting>> /\ intervals' \subseteq intervals
    BY <1>6 DEF StopAll, vars
  <2> QED BY <2>1 DEF CountInv, Watching
<1> QED BY <1>1, <1>2, <1>3, <1>4, <1>5, <1>6 DEF Next

(* Until the shutdown an interval ends only with its server, or with a      *)
(* crash that a recovery takes up.                                          *)
THEOREM WatchStep ==
  TypeInv /\ PlaceInv /\ PhaseInv /\ CountInv /\ Watched /\ [Next]_vars => Watched'
<1> SUFFICES ASSUME TypeInv, PlaceInv, PhaseInv, CountInv, Watched, [Next]_vars,
                    ~down', NEW s \in Servers, containers'[s] # None
             PROVE  \/ \E i \in intervals' : of'[i] = s
                    \/ \E c \in Containers : of'[c] = s /\ stage'[c] = "removing"
  BY DEF Watched
<1>0. /\ stage \in [Containers -> Stages]
      /\ containers \in [Servers -> Containers \cup {None}]
      /\ healthChecks \in [Servers -> Containers \cup {None}]
      /\ intervals \subseteq Containers
      /\ None \notin Containers
  BY Shapes
<1> USE DEF flows, manager, watch, docker, ending
<1>1. ASSUME containers'[s] = containers[s], down' = down,
             \A i \in intervals : of[i] = s => i \in intervals' /\ of'[i] = of[i],
             \A c \in Containers : stage[c] = "removing" /\ of[c] = s =>
                                     stage'[c] = "removing" /\ of'[c] = of[c]
      PROVE  \/ \E i \in intervals' : of'[i] = s
             \/ \E c \in Containers : of'[c] = s /\ stage'[c] = "removing"
  BY <1>1 DEF Watched
<1>2. ASSUME NEW t \in Servers, StartServer(t)
      PROVE  \/ \E i \in intervals' : of'[i] = s
             \/ \E c \in Containers : of'[c] = s /\ stage'[c] = "removing"
  <2>1. /\ made + 1 \in Containers
        /\ \A c \in Containers : c # made + 1 => of'[c] = of[c] /\ stage'[c] = stage[c]
        /\ UNCHANGED <<containers, intervals, down>>
    BY <1>2, StartEffect
  <2>2. stage[made + 1] = "unused" /\ made + 1 \notin intervals
    BY <2>1, Fresh DEF Watching
  <2> QED BY <1>0, <1>1, <2>1, <2>2
<1>3. ASSUME NEW c \in Containers, List(c)
      PROVE  \/ \E i \in intervals' : of'[i] = s
             \/ \E d \in Containers : of'[d] = s /\ stage'[d] = "removing"
  <2>1. /\ stage[c] = "launched" /\ stage' = [stage EXCEPT ![c] = "handshake"]
        /\ containers' = [containers EXCEPT ![of[c]] = c]
        /\ intervals' = (intervals \ {healthChecks[of[c]]}) \cup {c}
        /\ UNCHANGED <<of, down>>
    BY <1>3 DEF List
  <2>2. of[c] \in Servers
    BY <2>1, HasServer
  <2>3. CASE of[c] = s
    BY <2>1, <2>3
  <2>4. CASE of[c] # s
    <3>1. \A i \in intervals : of[i] = s => i \in intervals'
      BY <1>0, <2>1, <2>2, <2>4 DEF PlaceInv
    <3> QED BY <1>0, <1>1, <2>1, <2>2, <2>4, <3>1
  <2> QED BY <2>3, <2>4
<1>4. ASSUME NEW c \in Containers,
             \/ LaunchFails(c) \/ InspectFails(c) \/ HandshakeFails(c) \/ Launch(c)
             \/ Answer(c) \/ Complete(c) \/ Die(c) \/ SeenAlive(c)
      PROVE  \/ \E i \in intervals' : of'[i] = s
             \/ \E d \in Containers : of'[d] = s /\ stage'[d] = "removing"
  <2>1. UNCHANGED <<of, containers, intervals, down>>
    BY <1>4 DEF LaunchFails, InspectFails, HandshakeFails, Throw, Launch, Answer, Complete, Die,
                SeenAlive
  <2>2. \A d \in Containers : stage[d] = "removing" => stage'[d] = "removing"
    BY <1>0, <1>4 DEF LaunchFails, InspectFails, HandshakeFails, Throw, Launch, Answer, Complete,
                      Die, SeenAlive
  <2> QED BY <1>1, <2>1, <2>2
<1>5. ASSUME NEW i \in Containers, Tick(i)
      PROVE  \/ \E j \in intervals' : of'[j] = s
             \/ \E c \in Containers : of'[c] = s /\ stage'[c] = "removing"
  <2>1. UNCHANGED <<of, stage, containers, down>>
    BY <1>5 DEF Tick
  <2>2. containers[of[i]] = None \/ UNCHANGED intervals
    BY <1>5 DEF Tick
  <2>3. intervals' = intervals \/ intervals' = intervals \ {i}
    BY <1>5 DEF Tick
  <2> QED BY <1>1, <2>1, <2>2, <2>3
<1>6. ASSUME NEW i \in Containers, SeenDead(i)
      PROVE  \/ \E j \in intervals' : of'[j] = s
             \/ \E c \in Containers : of'[c] = s /\ stage'[c] = "removing"
  <2>1. /\ of[i] \in Servers /\ of[i] \notin waiting /\ Watching(i)
        /\ intervals' = intervals \ {i}
        /\ UNCHANGED <<containers, down>>
    BY <1>6, CrashEffect
  <2>2. /\ \A c \in Containers : stage[c] = "removing" => stage'[c] = "removing" /\ of'[c] = of[c]
        /\ \A j \in intervals : of'[j] = of[j]
    BY <1>0, <1>6, CrashEffect, Fresh DEF Watching
  <2>3. CASE of[i] # s
    BY <1>1, <2>1, <2>2, <2>3
  <2>4. CASE of[i] = s
    <3>1. status[s] # "absent"
      BY <2>1, <2>4 DEF PhaseInv
    <3>2. ~(restartCounts[s] + 1 > MaxRestartAttempts)
      <4>1. restartCounts[s] = 0
        BY <2>1, <2>4 DEF CountInv
      <4> QED BY <4>1, BoundsAssumption
    <3>3. /\ made + 1 \in Containers /\ of'[made + 1] = s
          /\ stage'[made + 1] = IF containers[s] = None THEN "launching" ELSE "removing"
      BY <1>6, <2>4, <3>1, <3>2, CrashEffect
    <3> QED BY <2>1, <3>3
  <2> QED BY <2>3, <2>4
<1>7. ASSUME NEW c \in Containers, Removed(c)
      PROVE  \/ \E i \in intervals' : of'[i] = s
             \/ \E d \in Containers : of'[d] = s /\ stage'[d] = "removing"
  <2>1. /\ stage[c] = "removing" /\ stage' = [stage EXCEPT ![c] = "launching"]
        /\ containers' = [containers EXCEPT ![of[c]] = None]
        /\ UNCHANGED <<of, intervals, down>>
    BY <1>7 DEF Removed
  <2>2. of[c] # s /\ containers'[s] = containers[s]
    BY <1>0, <2>1
  <2>3. \A d \in Containers : stage[d] = "removing" /\ of[d] = s => stage'[d] = "removing"
    BY <1>0, <2>1, <2>2
  <2> QED BY <1>1, <2>1, <2>2, <2>3
<1>8. ASSUME NEW t \in Servers, Stopped(t)
      PROVE  \/ \E i \in intervals' : of'[i] = s
             \/ \E c \in Containers : of'[c] = s /\ stage'[c] = "removing"
  BY <1>8 DEF Stopped, PhaseInv
<1>9. CASE StopAll
  BY <1>9 DEF StopAll
<1>10. CASE UNCHANGED vars
  BY <1>1, <1>10 DEF vars
<1> QED BY <1>2, <1>3, <1>4, <1>5, <1>6, <1>7, <1>8, <1>9, <1>10 DEF Next

----
(* The addresses of the proxy and the shutdown *)

(* Before the shutdown, a flow on its way to a new container works for a    *)
(* server that is not listed, or whose registration was removed.            *)
RegInv ==
  ~down => \A c \in Containers :
    /\ stage[c] \in {"launching", "launched"} => containers[of[c]] = None
    /\ stage[c] = "removing" => \A a \in Addresses : registrations[a] # of[c]

(* No action leaves an address registered for a server it was taken from. *)
THEOREM RegStep ==
  TypeInv /\ TokenInv /\ PlaceInv /\ PhaseInv /\ RegInv /\ NoStaleRegistration /\ [Next]_vars
    => RegInv' /\ NoStaleRegistration'
<1> SUFFICES ASSUME TypeInv, TokenInv, PlaceInv, PhaseInv, RegInv, NoStaleRegistration,
                    [Next]_vars, ~down'
             PROVE  RegInv' /\ NoStaleRegistration'
  BY DEF RegInv, NoStaleRegistration
<1>0. /\ stage \in [Containers -> Stages]
      /\ containers \in [Servers -> Containers \cup {None}]
      /\ registrations \in [Addresses -> Servers \cup {None}]
      /\ address \in [Containers -> Addresses \cup {None}]
      /\ None \notin Containers /\ None \notin Servers /\ None \notin Addresses
      /\ \A c \in Containers : stage[c] # "unused" => of[c] \in Servers
  BY Shapes, HasServer
<1> USE DEF flows, manager, watch, docker, ending
<1>1. ASSUME NEW s \in Servers, StartServer(s) PROVE RegInv' /\ NoStaleRegistration'
  <2>1. /\ s \in waiting /\ made + 1 \in Containers
        /\ of'[made + 1] = s /\ stage'[made + 1] = "launching"
        /\ \A c \in Containers : c # made + 1 => of'[c] = of[c] /\ stage'[c] = stage[c]
        /\ UNCHANGED <<containers, registrations, address, down>>
    BY <1>1, StartEffect
  <2>2. containers[s] = None
    <3>1. ASSUME containers[s] # None PROVE FALSE
      <4>1. /\ containers[s] \in Containers /\ of[containers[s]] = s
            /\ stage[containers[s]] # "unused"
        BY <1>0, <3>1 DEF PlaceInv
      <4> QED BY <2>1, <4>1, HasServer
    <3> QED BY <3>1
  <2> QED BY <2>1, <2>2 DEF RegInv, NoStaleRegistration
<1>2. ASSUME NEW c \in Containers,
             \/ LaunchFails(c) \/ InspectFails(c) \/ HandshakeFails(c)
             \/ Answer(c) \/ Complete(c) \/ Die(c) \/ Tick(c) \/ SeenAlive(c)
      PROVE  RegInv' /\ NoStaleRegistration'
  <2>1. UNCHANGED <<of, containers, registrations, address, down>>
    BY <1>2 DEF LaunchFails, InspectFails, HandshakeFails, Throw, Answer, Complete, Die,
                Tick, SeenAlive
  <2>2. \A d \in Containers : stage'[d] \in Starting => stage'[d] = stage[d]
    BY <1>0, <1>2 DEF LaunchFails, InspectFails, HandshakeFails, Throw, Answer, Complete, Die,
                      Tick, SeenAlive, Starting
  <2> QED BY <2>1, <2>2 DEF RegInv, NoStaleRegistration, Starting
<1>3. ASSUME NEW c \in Containers, Launch(c) PROVE RegInv' /\ NoStaleRegistration'
  <2>1. /\ stage[c] = "launching" /\ stage' = [stage EXCEPT ![c] = "launched"]
        /\ UNCHANGED <<of, containers, registrations, down>>
        /\ \A d \in Containers : d # c => address'[d] = address[d]
    BY <1>0, <1>3 DEF Launch
  <2>2. \A s \in Servers : containers[s] # c
    BY <1>0, <2>1 DEF PlaceInv, Starting
  <2> QED BY <1>0, <2>1, <2>2 DEF RegInv, NoStaleRegistration
<1>4. ASSUME NEW c \in Containers, List(c) PROVE RegInv' /\ NoStaleRegistration'
  <2>1. /\ stage[c] = "launched" /\ stage' = [stage EXCEPT ![c] = "handshake"]
        /\ containers' = [containers EXCEPT ![of[c]] = c]
        /\ registrations' = [a \in Addresses |-> IF a = address[c] THEN of[c]
                                                 ELSE registrations[a]]
        /\ UNCHANGED <<of, address, down>>
    BY <1>4 DEF List
  <2>2. of[c] \in Servers /\ containers[of[c]] = None
    BY <1>0, <2>1 DEF RegInv
  <2>3. \A d \in Containers : d # c /\ of[d] = of[c] => ~Begun(d)
    BY <2>1 DEF TokenInv, Holds, Begun, Starting
  <2>4. RegInv'
    BY <1>0, <2>1, <2>2, <2>3 DEF RegInv, Begun, Starting
  <2>5. \A a \in Addresses : registrations[a] # of[c]
    BY <2>1, <2>2 DEF NoStaleRegistration
  <2>6. NoStaleRegistration'
    BY <1>0, <2>1, <2>2, <2>5 DEF NoStaleRegistration
  <2> QED BY <2>4, <2>6
<1>5. ASSUME NEW i \in Containers, SeenDead(i) PROVE RegInv' /\ NoStaleRegistration'
  <2> DEFINE s == of[i]
  <2>1. s \in Servers /\ UNCHANGED <<containers, address, down>>
    BY <1>5, CrashEffect
  <2> HIDE DEF s
  <2>2. CASE UNCHANGED <<flows, registrations>>
    BY <2>1, <2>2 DEF RegInv, NoStaleRegistration
  <2>3. CASE /\ made + 1 \in Containers /\ of'[made + 1] = s
             /\ stage'[made + 1] = IF containers[s] = None THEN "launching" ELSE "removing"
             /\ \A c \in Containers : c # made + 1 => of'[c] = of[c] /\ stage'[c] = stage[c]
             /\ Unregister({s})
    <3>1. /\ \A a \in Addresses : registrations'[a] = registrations[a] \/ registrations'[a] = None
          /\ \A a \in Addresses : containers[s] # None /\ address[containers[s]] = a =>
                                    registrations'[a] = None
      BY <2>3 DEF Unregister
    <3>2. \A a \in Addresses : registrations'[a] # s
      BY <1>0, <2>1, <3>1 DEF NoStaleRegistration
    <3>3. RegInv'
      BY <1>0, <2>1, <2>3, <3>1, <3>2 DEF RegInv
    <3>4. NoStaleRegistration'
      BY <1>0, <2>1, <3>1 DEF NoStaleRegistration
    <3> QED BY <3>3, <3>4
  <2> QED BY <1>5, <2>2, <2>3, CrashEffect DEF s
<1>6. ASSUME NEW c \in Containers, Removed(c) PROVE RegInv' /\ NoStaleRegistration'
  <2>1. /\ stage[c] = "removing" /\ stage' = [stage EXCEPT ![c] = "launching"]
        /\ containers' = [containers EXCEPT ![of[c]] = None]
        /\ of[c] \in Servers
        /\ UNCHANGED <<of, registrations, address, down>>
    BY <1>0, <1>6 DEF Removed
  <2>2. \A a \in Addresses : registrations[a] # of[c]
    BY <2>1 DEF RegInv
  <2> QED BY <1>0, <2>1, <2>2 DEF RegInv, NoStaleRegistration
<1>7. ASSUME NEW s \in Servers, Stopped(s) PROVE FALSE
  BY <1>7 DEF Stopped, PhaseInv
<1>8. CASE StopAll
  BY <1>8 DEF StopAll
<1>9. CASE UNCHANGED vars
  BY <1>9 DEF vars, RegInv, NoStaleRegistration
<1> QED BY <1>1, <1>2, <1>3, <1>4, <1>5, <1>6, <1>7, <1>8, <1>9 DEF Next

(* What was listed at the shutdown is past its start, and as long as it     *)
(* runs stopContainer is at work on it and its server is in the table.      *)
StopInv ==
  /\ \A c \in atStop : /\ stage[c] \notin Starting \cup {"unused"}
                       /\ c \in alive => of[c] \in Servers /\ halting[of[c]] = c
  /\ \A s \in Servers : halting[s] # None => status[s] # "absent"

(* StopInv says what the shutdown leaves. *)
LEMMA StopEnds == TypeInv /\ StopInv => StopsListed
<1> SUFFICES ASSUME TypeInv, StopInv, \A s \in Servers : status[s] = "absent",
                    NEW c \in atStop, c \in alive
             PROVE  FALSE
  BY DEF StopsListed
<1>1. of[c] \in Servers /\ halting[of[c]] = c /\ c # None
  BY Shapes DEF StopInv
<1> QED BY <1>1 DEF StopInv

(* No action takes a container of the shutdown from the hands of *)
(* stopContainer. *)
THEOREM StopStep ==
  TypeInv /\ PlaceInv /\ PhaseInv /\ StopInv /\ [Next]_vars => StopInv'
<1> SUFFICES ASSUME TypeInv, PlaceInv, PhaseInv, StopInv, [Next]_vars PROVE StopInv'
  OBVIOUS
<1>0. /\ stage \in [Containers -> Stages]
      /\ status \in [Servers -> Statuses]
      /\ containers \in [Servers -> Containers \cup {None}]
      /\ halting \in [Servers -> Containers \cup {None}]
      /\ atStop \subseteq Containers /\ alive \subseteq Containers
      /\ None \notin Containers
  BY Shapes
<1> USE DEF flows, manager, watch, docker, ending
<1>1. ASSUME NEW s \in Servers, StartServer(s) PROVE StopInv'
  <2>1. /\ \A c \in Containers : stage[c] # "unused" => of'[c] = of[c] /\ stage'[c] = stage[c]
        /\ \A t \in Servers : t # s => status'[t] = status[t]
        /\ status'[s] = "starting"
        /\ UNCHANGED <<alive, ending>>
    BY <1>1, StartEffect, Fresh
  <2> QED BY <1>0, <2>1 DEF StopInv
<1>2. ASSUME NEW c \in Containers,
             \/ LaunchFails(c) \/ InspectFails(c) \/ HandshakeFails(c) \/ List(c)
             \/ Answer(c) \/ Complete(c) \/ Die(c) \/ Removed(c) \/ Tick(c) \/ SeenAlive(c)
      PROVE  StopInv'
  <2>1. UNCHANGED <<of, ending>> /\ alive' \subseteq alive
    BY <1>2 DEF LaunchFails, InspectFails, HandshakeFails, Throw, List, Answer, Complete, Die,
                Removed, Tick, SeenAlive
  <2>2. \A s \in Servers : status'[s] = "absent" => status[s] = "absent"
    BY <1>0, <1>2 DEF LaunchFails, InspectFails, HandshakeFails, Throw, List, Answer, Complete,
                      Die, Removed, Tick, SeenAlive
  <2>3. \A d \in Containers : stage[d] \notin Starting \cup {"unused"} =>
                                stage'[d] \notin Starting \cup {"unused"}
    BY <1>0, <1>2 DEF LaunchFails, InspectFails, HandshakeFails, Throw, List, Answer, Complete,
                      Die, Removed, Tick, SeenAlive, Starting
  <2> QED BY <1>0, <2>1, <2>2, <2>3 DEF StopInv
<1>3. ASSUME NEW c \in Containers, Launch(c) PROVE StopInv'
  <2>1. /\ stage[c] = "launching" /\ stage' = [stage EXCEPT ![c] = "launched"]
        /\ alive' = alive \cup {c}
        /\ UNCHANGED <<of, status, ending>>
    BY <1>3 DEF Launch
  <2>2. c \notin atStop
    BY <2>1 DEF StopInv, Starting
  <2> QED BY <1>0, <2>1, <2>2 DEF StopInv, Starting
<1>4. ASSUME NEW i \in Containers, SeenDead(i) PROVE StopInv'
  <2>1. /\ \A c \in Containers : stage[c] # "unused" => of'[c] = of[c] /\ stage'[c] = stage[c]
        /\ \A s \in Servers : status'[s] = "absent" => status[s] = "absent"
        /\ UNCHANGED <<alive, ending>>
    BY <1>4, CrashEffect, Fresh
  <2> QED BY <1>0, <2>1 DEF StopInv
<1>5. CASE StopAll
  <2> DEFINE held == {s \in Servers : status[s] # "absent" /\ containers[s] # None}
  <2>1. /\ ~down /\ waiting = {}
        /\ atStop' = {containers[s] : s \in Servers} \ {None}
        /\ halting' = [s \in Servers |-> IF s \in held THEN containers[s] ELSE None]
        /\ status' = [s \in Servers |-> IF s \in held THEN status[s] ELSE "absent"]
        /\ UNCHANGED <<of, stage, alive>>
    BY <1>5 DEF StopAll, Booted
  <2>2. \A s \in Servers : containers[s] # None => s \in held
    BY <2>1 DEF PhaseInv
  <2>3. \A s \in Servers : s \in held => status[s] # "absent"
    OBVIOUS
  <2> HIDE DEF held
  <2>4. ASSUME NEW c \in atStop'
        PROVE  /\ stage[c] \notin Starting \cup {"unused"}
               /\ of[c] \in Servers /\ halting'[of[c]] = c
    <3>1. PICK s \in Servers : c = containers[s] /\ containers[s] # None
      BY <2>1, <2>4
    <3> QED BY <2>1, <2>2, <3>1 DEF PlaceInv
  <2> QED BY <2>1, <2>3, <2>4 DEF StopInv
<1>6. ASSUME NEW s \in Servers, Stopped(s) PROVE StopInv'
  BY <1>0, <1>6 DEF Stopped, StopInv
<1>7. CASE UNCHANGED vars
  BY <1>7 DEF vars, StopInv
<1> QED BY <1>1, <1>2, <1>3, <1>4, <1>5, <1>6, <1>7 DEF Next

----
(* What an interval inspects *)

(* An interval inspects its own container, which stays listed until the     *)
(* shutdown, and before it an interval does not end under an inspection.    *)
(* What a recovery removes is a container of its server that died.          *)
AwakeAt(i) ==
  /\ inspecting[i] \in {None, i}
  /\ inspecting[i] # None => i \in intervals \/ down
  /\ Watching(i) => \/ containers[of[i]] = i
                    \/ down /\ containers[of[i]] = None
  /\ stage[i] = "removing" => /\ old[i] \in Containers /\ old[i] \notin alive
                              /\ of[old[i]] = of[i] /\ stage[old[i]] # "unused"

AwakeInv == \A i \in Containers : AwakeAt(i)

(* No action lists another container under an interval that is awake. *)
THEOREM AwakeStep ==
  TypeInv /\ TokenInv /\ PlaceInv /\ PhaseInv /\ AwakeInv /\ [Next]_vars => AwakeInv'
<1> SUFFICES ASSUME TypeInv, TokenInv, PlaceInv, PhaseInv, AwakeInv, [Next]_vars PROVE AwakeInv'
  OBVIOUS
<1>0. /\ stage \in [Containers -> Stages]
      /\ old \in [Containers -> Containers \cup {None}]
      /\ containers \in [Servers -> Containers \cup {None}]
      /\ healthChecks \in [Servers -> Containers \cup {None}]
      /\ inspecting \in [Containers -> Containers \cup {None}]
      /\ of \in [Containers -> Servers \cup {None}]
      /\ alive \subseteq Containers /\ intervals \subseteq Containers
      /\ None \notin Containers /\ None \notin Servers
      /\ \A d \in Containers : Watching(d) => of[d] \in Servers /\ stage[d] # "unused"
  <2>1. \A d \in Containers : Watching(d) => of[d] \in Servers /\ stage[d] # "unused"
    BY HasServer DEF TypeInv, MadeInOrder
  <2> QED BY <2>1, Shapes
<1> USE DEF flows, manager, watch, docker, ending
<1>1. ASSUME NEW s \in Servers, StartServer(s) PROVE AwakeInv'
  <2>1. /\ made + 1 \in Containers /\ stage'[made + 1] = "launching"
        /\ \A c \in Containers : c # made + 1 =>
             of'[c] = of[c] /\ stage'[c] = stage[c] /\ old'[c] = old[c]
        /\ UNCHANGED <<containers, watch, alive, down>>
    BY <1>1, StartEffect
  <2>2. stage[made + 1] = "unused" /\ ~Watching(made + 1)
    BY <2>1, Fresh
  <2>3. \A c \in Containers : Watching(c)' <=> Watching(c)
    BY <2>1 DEF Watching
  <2> QED BY <1>0, <2>1, <2>2, <2>3 DEF AwakeInv, AwakeAt
<1>2. ASSUME NEW c \in Containers,
             \/ LaunchFails(c) \/ InspectFails(c) \/ HandshakeFails(c)
             \/ Answer(c) \/ Complete(c) \/ Die(c)
      PROVE  AwakeInv'
  <2>1. UNCHANGED <<of, old, containers, watch, down>> /\ alive' \subseteq alive
    BY <1>2 DEF LaunchFails, InspectFails, HandshakeFails, Throw, Answer, Complete, Die
  <2>2. \A d \in Containers : /\ stage'[d] = "removing" => stage[d] = "removing"
                              /\ stage[d] # "unused" => stage'[d] # "unused"
    BY <1>0, <1>2 DEF LaunchFails, InspectFails, HandshakeFails, Throw, Answer, Complete, Die
  <2>3. \A d \in Containers : Watching(d)' <=> Watching(d)
    BY <2>1 DEF Watching
  <2> QED BY <2>1, <2>2, <2>3 DEF AwakeInv, AwakeAt
<1>3. ASSUME NEW c \in Containers, Launch(c) PROVE AwakeInv'
  <2>1. /\ stage[c] = "launching" /\ stage' = [stage EXCEPT ![c] = "launched"]
        /\ alive' = alive \cup {c}
        /\ UNCHANGED <<of, old, containers, watch, down>>
    BY <1>3 DEF Launch
  <2>2. \A d \in Containers : /\ Watching(d)' <=> Watching(d)
                              /\ stage'[d] = "removing" => stage[d] = "removing" /\ d # c
                              /\ stage[d] # "unused" => stage'[d] # "unused"
    BY <1>0, <2>1 DEF Watching
  <2>3. \A d \in Containers : stage[d] = "removing" => old[d] # c
    BY <2>1 DEF AwakeInv, AwakeAt, TokenInv, Holds, Begun, Starting
  <2> QED BY <1>0, <2>1, <2>2, <2>3 DEF AwakeInv, AwakeAt
<1>4. ASSUME NEW c \in Containers, List(c) PROVE AwakeInv'
  <2>1. /\ stage[c] = "launched" /\ stage' = [stage EXCEPT ![c] = "handshake"]
        /\ containers' = [containers EXCEPT ![of[c]] = c]
        /\ intervals' = (intervals \ {healthChecks[of[c]]}) \cup {c}
        /\ UNCHANGED <<of, old, alive, inspecting, down>>
    BY <1>4 DEF List
  <2>2. Begun(c) /\ of[c] \in Servers
    BY <2>1, HasServer DEF Begun, Starting
  <2>3. \A d \in Containers : d # c /\ of[d] = of[c] => ~Watching(d)
    BY <2>2 DEF TokenInv, Holds
  <2>4. \A d \in Containers : d # c => /\ Watching(d)' => Watching(d) /\ of[d] # of[c]
                                       /\ Watching(d) => (d \in intervals' <=> d \in intervals)
    BY <1>0, <2>1, <2>2, <2>3 DEF Watching, PlaceInv
  <2>5. ~Watching(c)
    BY <2>2 DEF TokenInv
  <2>6. inspecting[c] = None
    BY <2>5 DEF Watching
  <2>7. \A d \in Containers : /\ stage'[d] = "removing" => stage[d] = "removing"
                              /\ stage[d] # "unused" => stage'[d] # "unused"
    BY <1>0, <2>1
  <2>8. ASSUME NEW d \in Containers, d # c
        PROVE  /\ inspecting'[d] \in {None, d}
               /\ inspecting'[d] # None => d \in intervals' \/ down'
               /\ Watching(d)' => \/ containers'[of'[d]] = d
                                  \/ down' /\ containers'[of'[d]] = None
    BY <1>0, <2>1, <2>2, <2>4, <2>8 DEF AwakeInv, AwakeAt, Watching
  <2>9. c \in intervals' /\ containers'[of'[c]] = c /\ inspecting'[c] = None
    BY <1>0, <2>1, <2>2, <2>6
  <2>10. \A d \in Containers : stage'[d] = "removing" =>
            /\ old'[d] \in Containers /\ old'[d] \notin alive'
            /\ of'[old'[d]] = of'[d] /\ stage'[old'[d]] # "unused"
    BY <2>1, <2>7 DEF AwakeInv, AwakeAt
  <2> QED BY <2>8, <2>9, <2>10 DEF AwakeInv, AwakeAt
<1>5. ASSUME NEW i \in Containers, Tick(i) \/ SeenAlive(i) PROVE AwakeInv'
  <2>1. UNCHANGED <<of, old, stage, containers, alive, down>>
    BY <1>5 DEF Tick, SeenAlive
  <2>2. \A d \in Containers : Watching(d)' => Watching(d)
    BY <1>0, <1>5 DEF Tick, SeenAlive, Watching
  <2>3. CASE Tick(i)
    <3>1. Watching(i) /\ inspecting[i] = None /\ of[i] \in Servers
      BY <1>0, <2>3 DEF Tick, Watching
    <3>2. CASE UNCHANGED inspecting /\ intervals' = intervals \ {i}
      BY <2>1, <2>2, <3>1, <3>2 DEF AwakeInv, AwakeAt
    <3>3. CASE /\ containers[of[i]] # None /\ UNCHANGED intervals
               /\ inspecting' = [inspecting EXCEPT ![i] = containers[of[i]]]
      <4>1. containers[of[i]] = i /\ i \in intervals
        BY <2>3, <3>1, <3>3 DEF AwakeInv, AwakeAt, Tick
      <4> QED BY <1>0, <2>1, <2>2, <3>3, <4>1 DEF AwakeInv, AwakeAt
    <3> QED BY <2>3, <3>2, <3>3 DEF Tick
  <2>4. CASE SeenAlive(i)
    <3>1. inspecting' = [inspecting EXCEPT ![i] = None] /\ UNCHANGED intervals
      BY <2>4 DEF SeenAlive
    <3> QED BY <1>0, <2>1, <2>2, <3>1 DEF AwakeInv, AwakeAt
  <2> QED BY <1>5, <2>3, <2>4
<1>6. ASSUME NEW i \in Containers, SeenDead(i) PROVE AwakeInv'
  <2> DEFINE s == of[i]
  <2>1. /\ Watching(i) /\ s \in Servers
        /\ i \notin intervals' /\ inspecting'[i] = None
        /\ \A c \in Containers : c # i => (Watching(c)' <=> Watching(c))
        /\ intervals' = intervals \ {i}
        /\ inspecting' = [inspecting EXCEPT ![i] = None]
        /\ UNCHANGED <<containers, alive, down>>
    BY <1>6, CrashEffect DEF SeenDead
  <2>2. ~Watching(i)' /\ \A c \in Containers : Watching(c)' => Watching(c)
    BY <2>1 DEF Watching
  <2>3. i \notin alive /\ containers[s] \in {None, i} /\ stage[i] # "unused"
    <3>1. inspecting[i] # None /\ inspecting[i] \notin alive
      BY <1>6 DEF SeenDead
    <3> QED BY <1>0, <2>1, <3>1 DEF AwakeInv, AwakeAt
  <2>4. CASE UNCHANGED flows
    BY <1>0, <2>1, <2>2, <2>4 DEF AwakeInv, AwakeAt
  <2>5. CASE /\ made + 1 \in Containers
             /\ of'[made + 1] = s /\ old'[made + 1] = containers[s]
             /\ stage'[made + 1] = IF containers[s] = None THEN "launching" ELSE "removing"
             /\ \A c \in Containers : c # made + 1 =>
                  of'[c] = of[c] /\ stage'[c] = stage[c] /\ old'[c] = old[c]
    <3>1. stage[made + 1] = "unused" /\ ~Watching(made + 1)
      BY <2>5, Fresh
    <3>2. ASSUME NEW c \in Containers, c # made + 1
          PROVE  AwakeAt(c)'
      BY <1>0, <2>1, <2>2, <2>5, <3>1, <3>2 DEF AwakeInv, AwakeAt
    <3>3. /\ made + 1 \notin intervals' /\ inspecting'[made + 1] = None
          /\ made + 1 # i
      <4>1. made + 1 # i
        BY <2>1, <3>1
      <4> QED BY <1>0, <2>1, <2>5, <3>1, <4>1 DEF Watching
    <3>4. stage'[made + 1] = "removing" =>
             /\ old'[made + 1] = i /\ i # made + 1
             /\ of'[i] = of'[made + 1] /\ stage'[i] # "unused" /\ i \notin alive'
      BY <1>0, <2>1, <2>3, <2>5, <3>1
    <3>5. ASSUME NEW c \in Containers, c = made + 1
          PROVE  AwakeAt(c)'
      BY <3>3, <3>4, <3>5 DEF AwakeAt, Watching
    <3> QED BY <3>2, <3>5 DEF AwakeInv
  <2> QED BY <1>6, <2>4, <2>5, CrashEffect
<1>7. ASSUME NEW c \in Containers, Removed(c) PROVE AwakeInv'
  <2>1. /\ stage[c] = "removing" /\ stage' = [stage EXCEPT ![c] = "launching"]
        /\ containers' = [containers EXCEPT ![of[c]] = None]
        /\ alive' = alive \ {old[c]}
        /\ UNCHANGED <<of, old, watch, down>>
    BY <1>7 DEF Removed
  <2>2. Begun(c) /\ of[c] \in Servers /\ \A d \in Containers : Watching(d)' <=> Watching(d)
    BY <2>1, HasServer DEF Begun, Starting, Watching
  <2>3. \A d \in Containers : Watching(d) => of[d] # of[c]
    BY <2>2 DEF TokenInv, Holds
  <2> QED BY <1>0, <2>1, <2>2, <2>3 DEF AwakeInv, AwakeAt
<1>8. ASSUME NEW s \in Servers, Stopped(s) PROVE AwakeInv'
  <2>1. /\ containers' = [containers EXCEPT ![s] = None]
        /\ alive' \subseteq alive /\ down' = down /\ down
        /\ UNCHANGED <<of, stage, old, watch>>
    BY <1>8 DEF Stopped, PhaseInv
  <2>2. \A d \in Containers : Watching(d)' <=> Watching(d)
    BY <2>1 DEF Watching
  <2> QED BY <1>0, <2>1, <2>2 DEF AwakeInv, AwakeAt
<1>9. CASE StopAll
  <2>1. /\ down' /\ intervals' \subseteq intervals
        /\ UNCHANGED <<of, stage, old, containers, alive, inspecting>>
    BY <1>9 DEF StopAll
  <2>2. \A d \in Containers : Watching(d)' => Watching(d)
    BY <2>1 DEF Watching
  <2> QED BY <2>1, <2>2 DEF AwakeInv, AwakeAt
<1>10. CASE UNCHANGED vars
  BY <1>10 DEF vars, AwakeInv, AwakeAt, Watching
<1> QED BY <1>1, <1>2, <1>3, <1>4, <1>5, <1>6, <1>7, <1>8, <1>9, <1>10 DEF Next

----
(* The theorems *)

SafeInv ==
  /\ TypeInv /\ TokenInv /\ PlaceInv /\ PhaseInv /\ LoneInv /\ OneContainer
  /\ CountInv /\ Watched /\ RegInv /\ NoStaleRegistration /\ StopInv
  /\ AwakeInv

(* At first no container runs, is listed or is watched. *)
LEMMA SafeInit == Init => SafeInv
<1> SUFFICES ASSUME Init PROVE SafeInv
  OBVIOUS
<1>1. TypeInv
  BY TypeInit
<1>2. TokenInv /\ LoneInv /\ OneContainer /\ CountInv
  BY DEF Init, TokenInv, LoneInv, OneContainer, CountInv, Holds, Begun, Watching, Starting
<1>3. PlaceInv /\ PhaseInv /\ StopInv /\ AwakeInv
  BY DEF Init, PlaceInv, PhaseInv, StopInv, AwakeInv, AwakeAt, Watching
<1>4. Watched /\ RegInv /\ NoStaleRegistration
  BY NoneAssumption DEF Init, Watched, RegInv, NoStaleRegistration
<1> QED BY <1>1, <1>2, <1>3, <1>4 DEF SafeInv

(* All parts hold together in every reachable state. *)
THEOREM SafeInvariant == Spec => []SafeInv
<1>1. SafeInv /\ [Next]_vars => SafeInv'
  BY TypeStep, TokenStep, PlaceStep, PhaseStep, LoneStep, OneStep, CountStep, WatchStep,
     RegStep, StopStep, AwakeStep DEF SafeInv
<1> QED BY <1>1, SafeInit, PTL DEF Spec

(* A server never has two containers that run, whatever recoveries, startup *)
(* and shutdown overlap.                                                    *)
THEOREM OneContainerRuns == Spec => []OneContainer
<1>1. SafeInv => OneContainer
  BY DEF SafeInv
<1> QED BY <1>1, SafeInvariant, PTL

(* Until the shutdown every listed container is watched by an interval, or  *)
(* a recovery is about to remove it.                                        *)
THEOREM ListedAreWatched == Spec => []Watched
<1>1. SafeInv => Watched
  BY DEF SafeInv
<1> QED BY <1>1, SafeInvariant, PTL

(* Until the shutdown the proxy takes no address for a server's that is not *)
(* the address of its listed container.                                     *)
THEOREM RegistrationsAreFresh == Spec => []NoStaleRegistration
<1>1. SafeInv => NoStaleRegistration
  BY DEF SafeInv
<1> QED BY <1>1, SafeInvariant, PTL

(* When every server has left the table after stopAll, no container that    *)
(* was listed when it was called still runs.                                *)
THEOREM ShutdownStopsListed == Spec => []StopsListed
<1>1. SafeInv => StopsListed
  BY StopEnds DEF SafeInv
<1> QED BY <1>1, SafeInvariant, PTL

----
(* The implementation of Supervision *)

(* A server has one state of care, that of the flow or interval it has. *)
CareFacts ==
  \A s \in Servers :
    /\ s \in waiting => Care(s) = "unstarted"
    /\ s \notin waiting => Care(s) # "unstarted"
    /\ \A c \in Containers : of[c] = s =>
         /\ stage[c] \in {"removing", "launching"} => Care(s) = "starting"
         /\ stage[c] = "launched" => Care(s) = "launched"
         /\ Watching(c) => Care(s) = "watched"
    /\ s \notin waiting /\ (\A c \in Containers : of[c] = s => ~Holds(c)) => Care(s) = "abandoned"

(* The one that holds a server, if any, decides. *)
LEMMA CareOf == TypeInv /\ TokenInv => CareFacts
<1> SUFFICES ASSUME TypeInv, TokenInv, NEW s \in Servers
             PROVE  /\ s \in waiting => Care(s) = "unstarted"
                    /\ s \notin waiting => Care(s) # "unstarted"
                    /\ \A c \in Containers : of[c] = s =>
                         /\ stage[c] \in {"removing", "launching"} => Care(s) = "starting"
                         /\ stage[c] = "launched" => Care(s) = "launched"
                         /\ Watching(c) => Care(s) = "watched"
                    /\ s \notin waiting /\ (\A c \in Containers : of[c] = s => ~Holds(c)) =>
                         Care(s) = "abandoned"
  BY DEF CareFacts
<1>1. \A c \in Containers : Holds(c) /\ of[c] = s => s \notin waiting
  BY HasServer DEF Holds, Begun, Starting
<1>2. \A c, d \in Containers : Holds(c) /\ Holds(d) /\ of[c] = s /\ of[d] = s => c = d
  BY DEF TokenInv
<1>3. \A c \in Containers : ~(Begun(c) /\ Watching(c))
  BY DEF TokenInv
<1> QED BY <1>1, <1>2, <1>3 DEF Care, Holds, Begun, Starting, Watching

(* A server whose flows and intervals a step leaves alone keeps its care. *)
LEMMA CareKept ==
  ASSUME NEW s \in Servers, s \in waiting' <=> s \in waiting,
         \A c \in Containers :
           \/ (of[c] = s => ~Holds(c)) /\ (of'[c] = s => ~Holds(c)')
           \/ /\ of'[c] = of[c] /\ (Watching(c)' <=> Watching(c))
              /\ \/ stage'[c] = stage[c]
                 \/ ~Begun(c) /\ ~Begun(c)'
                 \/ /\ stage[c] \in {"removing", "launching"}
                    /\ stage'[c] \in {"removing", "launching"}
  PROVE  Care(s)' = Care(s)
<1> DEFINE Prepares(c) == of[c] = s /\ stage[c] \in {"removing", "launching"}
           Launched(c) == of[c] = s /\ stage[c] = "launched"
           Watches(c) == of[c] = s /\ (c \in intervals \/ inspecting[c] # None)
<1>1. \A c \in Containers : /\ Prepares(c)' <=> Prepares(c)
                            /\ Launched(c)' <=> Launched(c)
                            /\ Watches(c)' <=> Watches(c)
  BY DEF Holds, Watching, Begun, Starting
<1>2. Care(s) = IF s \in waiting THEN "unstarted"
                ELSE IF \E c \in Containers : Prepares(c) THEN "starting"
                ELSE IF \E c \in Containers : Launched(c) THEN "launched"
                ELSE IF \E c \in Containers : Watches(c) THEN "watched"
                ELSE "abandoned"
  BY DEF Care
<1>3. Care(s)' = IF s \in waiting' THEN "unstarted"
                 ELSE IF \E c \in Containers : Prepares(c)' THEN "starting"
                 ELSE IF \E c \in Containers : Launched(c)' THEN "launched"
                 ELSE IF \E c \in Containers : Watches(c)' THEN "watched"
                 ELSE "abandoned"
  BY DEF Care
<1> HIDE DEF Prepares, Launched, Watches
<1> QED BY <1>1, <1>2, <1>3

(* Which servers have a container that runs. *)
Up == {of[c] : c \in alive}

(* One step of care of one server, in the terms of Supervision. *)
LEMMA CareTurns ==
  ASSUME NEW s \in Servers, NEW CONSTANT v, Care(s)' = v,
         \A t \in Servers : t # s => Care(t)' = Care(t)
  PROVE  Keeper!Turns(s, v)
BY DEF Keeper!Turns

(* A step of one server leaves the care of the others. *)
LEMMA OthersKept ==
  ASSUME NEW s \in Servers, UNCHANGED <<of, waiting>>,
         \A c \in Containers : of[c] # s => /\ stage'[c] = stage[c]
                                            /\ Watching(c)' <=> Watching(c)
  PROVE  \A t \in Servers : t # s => Care(t)' = Care(t)
<1> TAKE t \in Servers
<1> HAVE t # s
<1>1. \A c \in Containers : \/ of[c] # t /\ of'[c] # t
                           \/ /\ of'[c] = of[c] /\ stage'[c] = stage[c]
                              /\ Watching(c)' <=> Watching(c)
  OBVIOUS
<1> QED BY <1>1, CareKept

(* Nothing that Supervision speaks of changes. *)
LEMMA Unnoticed ==
  ASSUME \A t \in Servers : Care(t)' = Care(t), Up' = Up, UNCHANGED <<crashes, down>>
  PROVE  UNCHANGED Keeper!vars
BY DEF Keeper!vars, Up

(* The care after a step is that of the flow or interval that is left. *)
LEMMA CareOfNext == (TypeInv /\ TokenInv => CareFacts)'
BY CareOf, PTL

(* A container that was made keeps its server. *)
LEMMA UpKept ==
  ASSUME TypeInv, [Next]_vars, UNCHANGED alive
  PROVE  Up' = Up
<1>0. alive \subseteq Containers
  BY Shapes
<1>1. \A c \in alive : of'[c] = of[c]
  <2> USE DEF flows, manager, watch, docker, ending
  <2>1. CASE \E s \in Servers : StartServer(s)
    BY <1>0, <2>1, StartEffect, Fresh
  <2>2. CASE \E i \in Containers : SeenDead(i)
    BY <1>0, <2>2, CrashEffect, Fresh
  <2>3. CASE of' = of
    BY <2>3
  <2>4. CASE \E c \in Containers : \/ LaunchFails(c) \/ Launch(c) \/ InspectFails(c) \/ List(c)
                                   \/ HandshakeFails(c) \/ Answer(c) \/ Complete(c)
                                   \/ Die(c) \/ Removed(c) \/ Tick(c) \/ SeenAlive(c)
    BY <2>3, <2>4 DEF LaunchFails, InspectFails, HandshakeFails, Throw, Launch, List, Answer,
                      Complete, Die, Removed, Tick, SeenAlive
  <2>5. CASE (\E s \in Servers : Stopped(s)) \/ StopAll \/ UNCHANGED vars
    BY <2>3, <2>5 DEF Stopped, StopAll, vars
  <2> QED BY <2>1, <2>2, <2>4, <2>5 DEF Next
<1> QED BY <1>1 DEF Up

(* Each action is a step of Supervision, or one it does not speak of. *)
LEMMA SupervisionNext == SafeInv /\ SafeInv' /\ [Next]_vars => [Keeper!Next]_(Keeper!vars)
<1> SUFFICES ASSUME SafeInv, SafeInv', [Next]_vars PROVE [Keeper!Next]_(Keeper!vars)
  OBVIOUS
<1>0. /\ TypeInv /\ TokenInv /\ PlaceInv /\ PhaseInv /\ LoneInv /\ OneContainer
      /\ CountInv /\ AwakeInv
      /\ CareFacts /\ CareFacts'
  BY CareOf, CareOfNext DEF SafeInv
<1>a. /\ stage \in [Containers -> Stages]
      /\ of \in [Containers -> Servers \cup {None}]
      /\ alive \subseteq Containers /\ None \notin Containers
      /\ healthChecks \in [Servers -> Containers \cup {None}]
      /\ inspecting \in [Containers -> Containers \cup {None}]
  BY <1>0, Shapes
<1> USE DEF flows, manager, watch, docker, ending
<1>1. ASSUME NEW s \in Servers, StartServer(s) PROVE Keeper!Start(s)
  <2>1. /\ s \in waiting /\ waiting' = waiting \ {s}
        /\ made + 1 \in Containers
        /\ of'[made + 1] = s /\ stage'[made + 1] = "launching"
        /\ \A c \in Containers : c # made + 1 => of'[c] = of[c] /\ stage'[c] = stage[c]
        /\ UNCHANGED <<watch, docker, ending>>
    BY <1>0, <1>1, StartEffect
  <2>2. stage[made + 1] = "unused" /\ ~Holds(made + 1)
    BY <1>0, <2>1, Fresh DEF Holds
  <2>3. Care(s) = "unstarted" /\ Care(s)' = "starting"
    BY <1>0, <2>1 DEF CareFacts
  <2>4. \A c \in Containers : Watching(c)' <=> Watching(c)
    BY <2>1 DEF Watching
  <2>5. ASSUME NEW t \in Servers, t # s PROVE Care(t)' = Care(t)
    <3>1. t \in waiting' <=> t \in waiting
      BY <2>1, <2>5
    <3>2. \A c \in Containers :
            \/ (of[c] = t => ~Holds(c)) /\ (of'[c] = t => ~Holds(c)')
            \/ of'[c] = of[c] /\ (Watching(c)' <=> Watching(c)) /\ stage'[c] = stage[c]
      BY <2>1, <2>2, <2>4, <2>5
    <3> QED BY <3>1, <3>2, CareKept
  <2>6. Keeper!Turns(s, "starting")
    BY <2>3, <2>5, CareTurns
  <2>7. ~down
    BY <1>0, <2>1 DEF PhaseInv, Booted
  <2>8. Up' = Up
    BY <1>0, <2>1, UpKept
  <2> QED BY <2>1, <2>3, <2>6, <2>7, <2>8 DEF Keeper!Start, Up
<1>2. ASSUME NEW c \in Containers, LaunchFails(c) \/ InspectFails(c), NEW s \in Servers, s = of[c]
      PROVE  Keeper!Abandon(s)
  <2>1. /\ stage[c] \in {"launching", "launched"} /\ stage' = [stage EXCEPT ![c] = "failed"]
        /\ UNCHANGED <<waiting, of, watch, docker, ending>>
    BY <1>2 DEF LaunchFails, InspectFails, Throw
  <2>2. Begun(c) /\ \A d \in Containers : of[d] = s => d = c \/ ~Holds(d)
    BY <1>0, <1>2, <2>1 DEF TokenInv, Holds, Begun, Starting
  <2>3. \A d \in Containers : (Watching(d)' <=> Watching(d)) /\ (d # c => stage'[d] = stage[d])
    BY <1>a, <2>1 DEF Watching
  <2>4. Care(s) \in {"starting", "launched"}
    BY <1>0, <1>2, <2>1 DEF CareFacts
  <2>5. Care(s)' = "abandoned"
    <3>1. s \notin waiting' /\ ~Watching(c)
      BY <1>0, <1>2, <2>1, <2>2, HasServer DEF TokenInv
    <3>2. \A d \in Containers : of'[d] = s => ~Holds(d)'
      BY <1>a, <2>1, <2>2, <2>3, <3>1 DEF Holds, Begun, Starting
    <3> QED BY <1>0, <3>1, <3>2 DEF CareFacts
  <2>6. \A t \in Servers : t # s => Care(t)' = Care(t)
    BY <1>2, <2>1, <2>3, OthersKept
  <2>7. Keeper!Turns(s, "abandoned")
    BY <2>5, <2>6, CareTurns
  <2> QED BY <2>1, <2>4, <2>7 DEF Keeper!Abandon
<1>3. ASSUME NEW c \in Containers, Launch(c), NEW s \in Servers, s = of[c]
      PROVE  Keeper!Launch(s)
  <2>1. /\ stage[c] = "launching" /\ stage' = [stage EXCEPT ![c] = "launched"]
        /\ alive' = alive \cup {c}
        /\ UNCHANGED <<waiting, of, watch, crashes, ending>>
    BY <1>3 DEF Launch
  <2>2. Care(s) = "starting" /\ Care(s)' = "launched"
    BY <1>0, <1>a, <1>3, <2>1 DEF CareFacts
  <2>3. \A d \in Containers : (Watching(d)' <=> Watching(d)) /\ (d # c => stage'[d] = stage[d])
    BY <1>a, <2>1 DEF Watching
  <2>4. \A t \in Servers : t # s => Care(t)' = Care(t)
    BY <1>3, <2>1, <2>3, OthersKept
  <2>5. Keeper!Turns(s, "launched")
    BY <2>2, <2>4, CareTurns
  <2>6. s \notin Up /\ Up' = Up \cup {s}
    BY <1>0, <1>3, <2>1 DEF LoneInv, Up
  <2> QED BY <2>1, <2>2, <2>5, <2>6 DEF Keeper!Launch, Up
<1>4. ASSUME NEW c \in Containers, List(c), NEW s \in Servers, s = of[c]
      PROVE  Keeper!Watch(s)
  <2>1. /\ stage[c] = "launched" /\ stage' = [stage EXCEPT ![c] = "handshake"]
        /\ intervals' = (intervals \ {healthChecks[s]}) \cup {c}
        /\ UNCHANGED <<waiting, of, inspecting, docker, ending>>
    BY <1>4 DEF List
  <2>2. Watching(c)' /\ Care(s) = "launched" /\ Care(s)' = "watched"
    BY <1>0, <1>4, <2>1 DEF CareFacts, Watching
  <2>3. \A d \in Containers : of[d] # s => /\ stage'[d] = stage[d]
                                           /\ Watching(d)' <=> Watching(d)
    BY <1>0, <1>a, <1>4, <2>1 DEF Watching, PlaceInv
  <2>4. \A t \in Servers : t # s => Care(t)' = Care(t)
    BY <2>1, <2>3, OthersKept
  <2>5. Keeper!Turns(s, "watched")
    BY <2>2, <2>4, CareTurns
  <2> QED BY <2>1, <2>2, <2>5 DEF Keeper!Watch
<1>5. ASSUME NEW c \in Containers, HandshakeFails(c) \/ Answer(c) \/ Complete(c)
      PROVE  UNCHANGED Keeper!vars
  <2>1. /\ stage[c] \in {"handshake", "answered"}
        /\ \E w \in {"failed", "answered", "done"} : stage' = [stage EXCEPT ![c] = w]
        /\ UNCHANGED <<waiting, of, watch, docker, ending>>
    BY <1>5 DEF HandshakeFails, Answer, Complete, Throw
  <2>2. \A d \in Containers : /\ Watching(d)' <=> Watching(d)
                              /\ stage'[d] = stage[d] \/ (~Begun(d) /\ ~Begun(d)')
    BY <1>a, <2>1 DEF Watching, Begun, Starting
  <2>3. \A t \in Servers : Care(t)' = Care(t)
    BY <2>1, <2>2, CareKept
  <2> QED BY <2>1, <2>3, Unnoticed DEF Up
<1>6. ASSUME UNCHANGED <<waiting, of, stage, watch>>
      PROVE  \A t \in Servers : Care(t)' = Care(t)
  <2>1. \A d \in Containers : Watching(d)' <=> Watching(d)
    BY <1>6 DEF Watching
  <2> QED BY <1>6, <2>1, CareKept
<1>7. ASSUME NEW c \in Containers, Die(c), NEW s \in Servers, s = of[c]
      PROVE  Keeper!Die(s)
  <2>1. /\ c \in alive /\ alive' = alive \ {c} /\ crashes' = crashes + 1
        /\ UNCHANGED <<waiting, of, stage, watch, ending>>
    BY <1>7 DEF Die
  <2>2. s \in Up /\ Up' = Up \ {s}
    BY <1>0, <1>7, <2>1 DEF OneContainer, Up
  <2>3. [t \in Servers |-> Care(t)]' = [t \in Servers |-> Care(t)]
    BY <1>6, <2>1
  <2> QED BY <2>1, <2>2, <2>3 DEF Keeper!Die, Up
<1>8. ASSUME NEW i \in Containers, NEW s \in Servers, s = of[i], down, Watching(i), ~Watching(i)',
             \A d \in Containers : d # i => (Watching(d)' <=> Watching(d)),
             UNCHANGED <<waiting, of, stage, alive, crashes, ending>>
      PROVE  Keeper!Leave(s)
  <2>1. Care(s) = "watched"
    BY <1>0, <1>8 DEF CareFacts
  <2>2. Care(s)' = "abandoned"
    <3>1. s \notin waiting'
      BY <1>0, <1>8, HasServer
    <3>2. \A d \in Containers : of'[d] = s => ~Holds(d)'
      BY <1>0, <1>8 DEF TokenInv, Holds, Begun
    <3> QED BY <1>0, <3>1, <3>2 DEF CareFacts
  <2>3. \A t \in Servers : t # s => Care(t)' = Care(t)
    BY <1>8, OthersKept
  <2>4. Keeper!Turns(s, "abandoned")
    BY <2>2, <2>3, CareTurns
  <2> QED BY <1>8, <2>1, <2>4 DEF Keeper!Leave, Keeper!Watched
<1>9. ASSUME NEW i \in Containers, Tick(i) \/ SeenAlive(i)
      PROVE  (\E s \in Servers : Keeper!Leave(s)) \/ UNCHANGED Keeper!vars
  <2>1. UNCHANGED <<waiting, of, stage, docker, ending>>
    BY <1>9 DEF Tick, SeenAlive
  <2>2. Watching(i) /\ \A d \in Containers : d # i => (Watching(d)' <=> Watching(d))
    BY <1>a, <1>9 DEF Tick, SeenAlive, Watching
  <2>3. PICK s \in Servers : s = of[i]
    BY <1>0, <2>2, HasServer
  <2>4. CASE Watching(i)'
    <3>1. \A d \in Containers : Watching(d)' <=> Watching(d)
      BY <2>2, <2>4
    <3>2. \A t \in Servers : Care(t)' = Care(t)
      BY <2>1, <3>1, CareKept
    <3> QED BY <2>1, <3>2, Unnoticed DEF Up
  <2>5. CASE ~Watching(i)'
    <3>1. down
      <4>1. CASE Tick(i)
        <5>1. containers[s] = None
          BY <1>a, <2>3, <2>5, <4>1 DEF Tick, Watching
        <5> QED BY <1>0, <1>a, <2>2, <2>3, <5>1 DEF AwakeInv, AwakeAt
      <4>2. CASE SeenAlive(i)
        <5>1. inspecting[i] # None /\ i \notin intervals
          BY <2>5, <4>2 DEF SeenAlive, Watching
        <5> QED BY <1>0, <5>1 DEF AwakeInv, AwakeAt
      <4> QED BY <1>9, <4>1, <4>2
    <3> QED BY <1>8, <2>1, <2>2, <2>3, <2>5, <3>1
  <2> QED BY <2>4, <2>5
<1>10. ASSUME NEW i \in Containers, SeenDead(i), NEW s \in Servers, s = of[i]
       PROVE  Keeper!Leave(s) \/ Keeper!Recover(s)
  <2>1. /\ s \notin waiting /\ Watching(i)
        /\ i \notin intervals' /\ inspecting'[i] = None
        /\ \A d \in Containers : d # i => (Watching(d)' <=> Watching(d))
        /\ UNCHANGED <<waiting, docker, ending>>
    BY <1>0, <1>10, CrashEffect
  <2>2. ~Watching(i)'
    BY <2>1 DEF Watching
  <2>3. CASE UNCHANGED flows /\ (status[s] = "absent" \/ restartCounts[s] + 1 > MaxRestartAttempts)
    <3>1. down
      <4>1. ~(restartCounts[s] + 1 > MaxRestartAttempts)
        <5>1. restartCounts[s] = 0
          BY <1>0, <1>10, <2>1 DEF CountInv
        <5> QED BY <5>1, BoundsAssumption
      <4> QED BY <1>0, <2>1, <2>3, <4>1 DEF PhaseInv
    <3> QED BY <1>8, <1>10, <2>1, <2>2, <2>3, <3>1
  <2>4. CASE /\ made + 1 \in Containers
             /\ of'[made + 1] = s
             /\ stage'[made + 1] = IF containers[s] = None THEN "launching" ELSE "removing"
             /\ \A c \in Containers : c # made + 1 => of'[c] = of[c] /\ stage'[c] = stage[c]
             /\ status[s] # "absent"
    <3>1. ~Holds(made + 1) /\ made + 1 # i
      BY <1>0, <2>1, <2>4, Fresh DEF Holds
    <3>2. Care(s) = "watched" /\ Care(s)' = "starting"
      BY <1>0, <1>10, <2>1, <2>4 DEF CareFacts
    <3>3. s \notin Up
      <4>1. inspecting[i] = i /\ i \notin alive
        BY <1>0, <1>10 DEF SeenDead, AwakeInv, AwakeAt
      <4>2. containers[s] \in {i, None}
        BY <1>0, <1>10, <2>1 DEF AwakeInv, AwakeAt
      <4>3. \A d \in alive : of[d] = s => d = containers[s]
        BY <1>0, <1>10, <2>1, <2>4 DEF LoneInv
      <4> QED BY <1>a, <4>1, <4>2, <4>3 DEF Up
    <3>4. ASSUME NEW t \in Servers, t # s PROVE Care(t)' = Care(t)
      <4>1. \A c \in Containers :
              \/ (of[c] = t => ~Holds(c)) /\ (of'[c] = t => ~Holds(c)')
              \/ of'[c] = of[c] /\ (Watching(c)' <=> Watching(c)) /\ stage'[c] = stage[c]
        <5>1. ASSUME NEW c \in Containers, c # made + 1, c # i
              PROVE  of'[c] = of[c] /\ (Watching(c)' <=> Watching(c)) /\ stage'[c] = stage[c]
          BY <2>1, <2>4, <5>1
        <5>2. ASSUME NEW c \in Containers, c = made + 1 \/ c = i
              PROVE  (of[c] = t => ~Holds(c)) /\ of'[c] # t
          BY <1>10, <2>4, <3>1, <3>4, <5>2
        <5> QED BY <5>1, <5>2
      <4> QED BY <2>1, <4>1, CareKept
    <3>5. Keeper!Turns(s, "starting")
      BY <3>2, <3>4, CareTurns
    <3>6. Up' = Up
      BY <1>0, <2>1, UpKept
    <3> QED BY <2>1, <3>2, <3>3, <3>5, <3>6 DEF Keeper!Recover, Up
  <2> QED BY <1>0, <1>10, <2>3, <2>4, CrashEffect
<1>11. ASSUME NEW c \in Containers, Removed(c) PROVE UNCHANGED Keeper!vars
  <2>1. /\ stage[c] = "removing" /\ stage' = [stage EXCEPT ![c] = "launching"]
        /\ alive' = alive
        /\ UNCHANGED <<waiting, of, watch, crashes, ending>>
    BY <1>0, <1>11 DEF Removed, AwakeInv, AwakeAt
  <2>2. \A d \in Containers : /\ Watching(d)' <=> Watching(d)
                              /\ \/ stage'[d] = stage[d]
                                 \/ stage[d] = "removing" /\ stage'[d] = "launching"
    BY <1>a, <2>1 DEF Watching
  <2>3. \A t \in Servers : Care(t)' = Care(t)
    BY <2>1, <2>2, CareKept
  <2> QED BY <2>1, <2>3, Unnoticed DEF Up
<1>12. CASE StopAll
  <2>1. /\ waiting = {} /\ ~down /\ down' = TRUE /\ intervals' \subseteq intervals
        /\ UNCHANGED <<waiting, of, stage, inspecting, docker>>
    BY <1>12 DEF StopAll, Booted
  <2>2. PICK S \in SUBSET Servers : S = {t \in Servers : Care(t)' # Care(t)}
    OBVIOUS
  <2>3. ASSUME NEW t \in Servers, Care(t)' # Care(t)
        PROVE  Care(t) = "watched" /\ Care(t)' = "abandoned"
    <3>1. ~\E d \in Containers : of[d] = t /\ Begun(d)
      BY <1>0, <2>1, <2>3 DEF CareFacts, Begun, Starting
    <3>2. PICK d \in Containers : of[d] = t /\ Watching(d) /\ ~Watching(d)'
      <4>1. \A d \in Containers : Watching(d)' => Watching(d)
        BY <2>1 DEF Watching
      <4> QED BY <2>1, <2>3, <4>1, CareKept
    <3>3. \A e \in Containers : of'[e] = t => ~Holds(e)'
      BY <1>0, <2>1, <3>1, <3>2 DEF TokenInv, Holds, Begun, Watching
    <3> QED BY <1>0, <2>1, <3>2, <3>3 DEF CareFacts
  <2>4. Keeper!Forsake(S) /\ S \subseteq Keeper!Watched
    BY <2>2, <2>3 DEF Keeper!Forsake, Keeper!Watched
  <2>5. \A t \in Servers : Care(t) # "unstarted"
    BY <1>0, <2>1 DEF CareFacts
  <2>6. Keeper!Shutdown
    BY <2>1, <2>4, <2>5 DEF Keeper!Shutdown
  <2> QED BY <2>6 DEF Keeper!Next
<1>13. ASSUME NEW s \in Servers, Stopped(s)
       PROVE  (\E t \in Servers : Keeper!Halt(t)) \/ UNCHANGED Keeper!vars
  <2>1. /\ down /\ alive' = alive \ {halting[s]}
        /\ UNCHANGED <<waiting, of, stage, watch, crashes, down>>
    BY <1>0, <1>13 DEF Stopped, PhaseInv
  <2>2. \A t \in Servers : Care(t)' = Care(t)
    BY <1>6, <2>1
  <2>3. CASE halting[s] \notin alive
    BY <2>1, <2>2, <2>3, Unnoticed DEF Up
  <2>4. CASE halting[s] \in alive
    <3>1. PICK t \in Servers : t = of[halting[s]]
      <4>1. \A d \in alive : of[d] \in Servers
        BY <1>0, <1>a, BoundsAssumption DEF TypeInv, MadeInOrder, PlainTypes, Containers
      <4> QED BY <2>4, <4>1
    <3>2. t \in Up /\ Up' = Up \ {t}
      BY <1>0, <2>1, <2>4, <3>1 DEF OneContainer, Up
    <3>3. Keeper!Halt(t)
      BY <2>1, <2>2, <3>2 DEF Keeper!Halt, Up
    <3> QED BY <3>3
  <2> QED BY <2>3, <2>4
<1>14. CASE UNCHANGED vars
  <2>1. \A t \in Servers : Care(t)' = Care(t)
    BY <1>6, <1>14 DEF vars
  <2> QED BY <1>14, <2>1, Unnoticed DEF vars, Up
<1>15. ASSUME NEW c \in Containers,
              \/ LaunchFails(c) \/ InspectFails(c) \/ Launch(c) \/ List(c) \/ Die(c) \/ SeenDead(c)
       PROVE  Keeper!Next
  <2>1. of[c] \in Servers
    <3>1. stage[c] # "unused" \/ c \in alive \/ Watching(c)
      BY <1>15 DEF LaunchFails, InspectFails, Launch, List, Die, SeenDead, Watching
    <3>2. c \in alive => c <= made
      BY <1>0, BoundsAssumption DEF TypeInv, MadeInOrder, PlainTypes, Containers
    <3> QED BY <1>0, <3>1, <3>2, HasServer DEF TypeInv, MadeInOrder
  <2>2. PICK s \in Servers : s = of[c]
    BY <2>1
  <2> QED BY <1>2, <1>3, <1>4, <1>7, <1>10, <1>15, <2>2 DEF Keeper!Next
<1> QED BY <1>1, <1>5, <1>9, <1>11, <1>12, <1>13, <1>14, <1>15 DEF Next, Keeper!Next

(* The manager, with its flows, intervals and tables, implements Supervision: *)
(* until the shutdown no container is stopped that runs, none that is watched *)
(* is given up, and each recovery answers a death of its own.                 *)
THEOREM ManagerImplementsSupervision == Spec => Supervised
<1>1. Init => Keeper!Init
  BY DEF Init, Keeper!Init, Care
<1>2. SafeInv /\ SafeInv' /\ [Next]_vars => [Keeper!Next]_(Keeper!vars)
  BY SupervisionNext
<1> QED BY <1>1, <1>2, SafeInvariant, PTL DEF Spec, Supervised, Keeper!Spec
====
