---- MODULE McpServers ----
(***************************************************************************)
(* The long-lived containers of MCP servers: McpManager (manager.ts),      *)
(* McpContainerManager (container.ts) and the address table of McpProxy    *)
(* (proxy.ts), with Docker around them.                                    *)
(*                                                                         *)
(* A container is named by the call of startContainer that makes it,       *)
(* counted from 1; the name also stands for the flow that made the call    *)
(* (startServer, or the handleCrash that recovers from a crash) and for    *)
(* the health-check interval the call arms.  An action runs from one await *)
(* to the next; closing an MCP client takes only microtasks.  Docker is    *)
(* assumed to answer an inspect before the next tick, 30 seconds later,    *)
(* and to carry out a stop or a removal.                                   *)
(***************************************************************************)
EXTENDS Integers, FiniteSets

CONSTANTS
  Servers,             \* the enabled servers of the configuration
  Networked,           \* those with allowedDomains
  Addresses,           \* addresses of the gateway's Docker network
  None,                \* no server, no address, no container
  MaxRestartAttempts,  \* MAX_RESTART_ATTEMPTS
  MaxCrashes,          \* bound: containers that die by themselves
  MaxContainers        \* bound: calls of startContainer

Containers == 1..MaxContainers

ASSUME ServersAssumption == Networked \subseteq Servers
ASSUME NoneAssumption == None \notin Servers \cup Addresses \cup Int
ASSUME BoundsAssumption == /\ MaxRestartAttempts \in Nat \ {0}
                           /\ MaxCrashes \in Nat
                           /\ MaxContainers \in Nat

VARIABLES
  waiting,        \* servers startAll has not come to yet
  made,           \* calls of startContainer so far
  of,             \* the server of each container
  stage,          \* where the flow of each container is
  old,            \* the container a recovery removes first
  boot,           \* containers that startServer asked for
  lost,           \* recoveries whose McpServerState was replaced in the table
  status,         \* McpServerState.status, "absent" for a server not in the table
  client,         \* the container McpServerState.client talks to
  containers,     \* McpContainerManager.containers, by server
  restartCounts,
  intervals,      \* health-check intervals that are armed
  healthChecks,   \* the interval the container manager knows of, by server
  inspecting,     \* the container each interval awaits the inspection of
  registrations,  \* McpProxy.registrations: the server of each address
  alive,          \* Docker: containers that run
  address,        \* Docker: the address each container was given
  crashes,        \* number of containers that died by themselves
  halting,        \* the container stopContainer is stopping, by server
  down,           \* stopAll was called
  atStop          \* history: what was in containers at that moment

flows == <<made, of, stage, old>>
manager == <<status, client, lost>>
watch == <<intervals, healthChecks, inspecting>>
docker == <<alive, address, crashes>>
ending == <<halting, down, atStop>>
vars == <<waiting, boot, flows, manager, containers, restartCounts, watch,
          registrations, docker, ending>>

Starting == {"removing", "launching", "launched"}
InProgress == Starting \cup {"handshake", "answered"}
Stages == {"unused", "done", "failed"} \cup InProgress
Statuses == {"absent", "starting", "ready", "error"}

Init ==
  /\ waiting = Servers
  /\ made = 0
  /\ of = [c \in Containers |-> None]
  /\ stage = [c \in Containers |-> "unused"]
  /\ old = [c \in Containers |-> None]
  /\ boot = {} /\ lost = {}
  /\ status = [s \in Servers |-> "absent"]
  /\ client = [s \in Servers |-> None]
  /\ containers = [s \in Servers |-> None]
  /\ restartCounts = [s \in Servers |-> 0]
  /\ intervals = {}
  /\ healthChecks = [s \in Servers |-> None]
  /\ inspecting = [c \in Containers |-> None]
  /\ registrations = [a \in Addresses |-> None]
  /\ alive = {} /\ crashes = 0
  /\ address = [c \in Containers |-> None]
  /\ halting = [s \in Servers |-> None]
  /\ down = FALSE
  /\ atStop = {}

Booted == waiting = {} /\ \A c \in boot : stage[c] \notin InProgress

----
(* Startup *)

(* The next call of startContainer is for s *)
Call(s, where, removes) ==
  LET c == made + 1 IN
  /\ c \in Containers
  /\ made' = c
  /\ of' = [of EXCEPT ![c] = s]
  /\ stage' = [stage EXCEPT ![c] = where]
  /\ old' = [old EXCEPT ![c] = removes]

(* startAll takes the servers one after the other *)
StartServer(s) ==
  /\ s \in waiting
  /\ \A c \in boot : stage[c] \notin InProgress
  /\ Call(s, "launching", None)
  /\ waiting' = waiting \ {s}
  /\ boot' = boot \cup {made + 1}
  /\ status' = [status EXCEPT ![s] = "starting"]
  /\ client' = [client EXCEPT ![s] = None]
  /\ UNCHANGED <<lost, containers, restartCounts, watch, registrations, docker, ending>>

(* The flow throws.  startAll puts a new state in the table for a server that *)
(* did not start; a recovery that fails leaves the state in "error".          *)
Throw(c) ==
  LET s == of[c] IN
  /\ stage' = [stage EXCEPT ![c] = "failed"]
  /\ \/ /\ c \in boot
        /\ status' = [status EXCEPT ![s] = "error"]
        /\ client' = [client EXCEPT ![s] = None]
        /\ lost' = lost \cup {d \in Containers \ boot : of[d] = s /\ stage[d] \in InProgress}
     \/ c \notin boot /\ UNCHANGED manager
  /\ UNCHANGED <<waiting, boot, made, of, old, containers, restartCounts, watch,
                 registrations, docker, ending>>

(* Create, attach or start fails, or the network of the gateway is not found *)
LaunchFails(c) == stage[c] = "launching" /\ Throw(c)

Free(a) == \A d \in alive : address[d] # a

(* Docker starts the container, with an address no running container has *)
Launch(c) ==
  /\ stage[c] = "launching"
  /\ stage' = [stage EXCEPT ![c] = "launched"]
  /\ alive' = alive \cup {c}
  /\ \/ /\ of[c] \in Networked
        /\ \E a \in Addresses : Free(a) /\ address' = [address EXCEPT ![c] = a]
     \/ of[c] \notin Networked /\ UNCHANGED address
  /\ UNCHANGED <<waiting, boot, made, of, old, manager, containers, restartCounts,
                 watch, registrations, crashes, ending>>

(* Mutant: without an address the container is started once more *)
InspectRetries(c) ==
  /\ stage[c] = "launched" /\ of[c] \in Networked
  /\ stage' = [stage EXCEPT ![c] = "launching"]
  /\ UNCHANGED <<waiting, boot, made, of, old, manager, containers, restartCounts,
                 watch, registrations, docker, ending>>

(* The inspection that looks up the address fails: the container runs on *)
InspectFails(c) == stage[c] = "launched" /\ of[c] \in Networked /\ Throw(c)

(* Mutant: a restart does not watch the new container *)
ListUnwatched(c) ==
  LET s == of[c] IN
  /\ stage[c] = "launched"
  /\ stage' = [stage EXCEPT ![c] = "handshake"]
  /\ containers' = [containers EXCEPT ![s] = c]
  /\ restartCounts' = [restartCounts EXCEPT ![s] = 0]
  /\ registrations' = [a \in Addresses |-> IF a = address[c] THEN s ELSE registrations[a]]
  /\ IF c \in boot
     THEN /\ intervals' = (intervals \ {healthChecks[s]}) \cup {c}
          /\ healthChecks' = [healthChecks EXCEPT ![s] = c]
     ELSE UNCHANGED <<intervals, healthChecks>>
  /\ UNCHANGED <<waiting, boot, made, of, old, manager, inspecting, docker, ending>>

(* The rest of startContainer: register the address, list and watch the container *)
List(c) ==
  LET s == of[c] IN
  /\ stage[c] = "launched"
  /\ stage' = [stage EXCEPT ![c] = "handshake"]
  /\ containers' = [containers EXCEPT ![s] = c]
  /\ restartCounts' = [restartCounts EXCEPT ![s] = 0]
  /\ registrations' = [a \in Addresses |-> IF a = address[c] THEN s ELSE registrations[a]]
  /\ intervals' = (intervals \ {healthChecks[s]}) \cup {c}
  /\ healthChecks' = [healthChecks EXCEPT ![s] = c]
  /\ UNCHANGED <<waiting, boot, made, of, old, manager, inspecting, docker, ending>>

(* Mutant: a handshake with a dead container never times out *)
HandshakeHangs(c) == stage[c] = "handshake" /\ c \in alive /\ Throw(c)

(* The handshake or tools/list fails or times out *)
HandshakeFails(c) == stage[c] = "handshake" /\ Throw(c)

(* The server has sent its tools: the answer is on its way *)
Answer(c) ==
  /\ stage[c] = "handshake" /\ c \in alive
  /\ stage' = [stage EXCEPT ![c] = "answered"]
  /\ UNCHANGED <<waiting, boot, made, of, old, manager, containers, restartCounts,
                 watch, registrations, docker, ending>>

(* Mutant: the server takes the status of its container *)
CompleteRunning(c) ==
  LET s == of[c] IN
  /\ stage[c] = "answered"
  /\ stage' = [stage EXCEPT ![c] = "done"]
  /\ IF c \in lost \/ status[s] = "absent"
     THEN UNCHANGED <<status, client>>
     ELSE /\ status' = [status EXCEPT ![s] = "running"]
          /\ client' = [client EXCEPT ![s] = c]
  /\ UNCHANGED <<waiting, boot, made, of, old, lost, containers, restartCounts,
                 watch, registrations, docker, ending>>

(* The flow ends: its tools are offered, unless its state left the table *)
Complete(c) ==
  LET s == of[c] IN
  /\ stage[c] = "answered"
  /\ stage' = [stage EXCEPT ![c] = "done"]
  /\ IF c \in lost \/ status[s] = "absent"
     THEN UNCHANGED <<status, client>>
     ELSE /\ status' = [status EXCEPT ![s] = "ready"]
          /\ client' = [client EXCEPT ![s] = c]
  /\ UNCHANGED <<waiting, boot, made, of, old, lost, containers, restartCounts,
                 watch, registrations, docker, ending>>

----
(* Crashes and recovery *)

(* A container dies by itself; Docker takes its address back *)
Die(c) ==
  /\ c \in alive
  /\ crashes < MaxCrashes
  /\ crashes' = crashes + 1
  /\ alive' = alive \ {c}
  /\ UNCHANGED <<waiting, boot, flows, manager, containers, restartCounts, watch,
                 registrations, address, ending>>

(* An interval fires: inspect what is listed, or end with the server *)
Tick(i) ==
  LET s == of[i] IN
  /\ i \in intervals
  /\ inspecting[i] = None
  /\ \/ /\ containers[s] = None
        /\ intervals' = intervals \ {i}
        /\ healthChecks' = [healthChecks EXCEPT ![s] = None]
        /\ UNCHANGED inspecting
     \/ /\ containers[s] # None
        /\ inspecting' = [inspecting EXCEPT ![i] = containers[s]]
        /\ UNCHANGED <<intervals, healthChecks>>
  /\ UNCHANGED <<waiting, boot, flows, manager, containers, restartCounts,
                 registrations, docker, ending>>

(* Mutant: the interval ends with an inspection that fails *)
SeenAliveOnce(i) ==
  LET s == of[i] IN
  /\ inspecting[i] # None
  /\ inspecting' = [inspecting EXCEPT ![i] = None]
  /\ intervals' = intervals \ {i}
  /\ healthChecks' = [healthChecks EXCEPT ![s] = None]
  /\ UNCHANGED <<waiting, boot, flows, manager, containers, restartCounts,
                 registrations, docker, ending>>

(* The inspection says that the container runs, or fails *)
SeenAlive(i) ==
  /\ inspecting[i] # None
  /\ inspecting' = [inspecting EXCEPT ![i] = None]
  /\ UNCHANGED <<waiting, boot, flows, manager, containers, restartCounts, intervals,
                 healthChecks, registrations, docker, ending>>

Unregister(S) ==
  registrations' = [a \in Addresses |-> IF \E s \in S : /\ containers[s] # None
                                                        /\ address[containers[s]] = a
                                        THEN None ELSE registrations[a]]

(* Mutant: the address of the dead container stays registered *)
HandleCrashRegistered(s) ==
  IF status[s] = "absent"
  THEN UNCHANGED <<flows, status, client, restartCounts, registrations>>
  ELSE /\ status' = [status EXCEPT ![s] = "error"]
       /\ client' = [client EXCEPT ![s] = None]
       /\ restartCounts' = [restartCounts EXCEPT ![s] = @ + 1]
       /\ UNCHANGED registrations
       /\ IF restartCounts[s] + 1 > MaxRestartAttempts
          THEN UNCHANGED flows
          ELSE Call(s, IF containers[s] = None THEN "launching" ELSE "removing", containers[s])

(* handleCrash and restartContainer up to their first await.  A server that *)
(* stopAll took out of the table is left alone; at the limit it is given up. *)
HandleCrash(s) ==
  IF status[s] = "absent"
  THEN UNCHANGED <<flows, status, client, restartCounts, registrations>>
  ELSE /\ status' = [status EXCEPT ![s] = "error"]
       /\ client' = [client EXCEPT ![s] = None]
       /\ restartCounts' = [restartCounts EXCEPT ![s] = @ + 1]
       /\ IF restartCounts[s] + 1 > MaxRestartAttempts
          THEN UNCHANGED <<flows, registrations>>
          ELSE /\ Call(s, IF containers[s] = None THEN "launching" ELSE "removing", containers[s])
               /\ Unregister({s})

(* Mutant: the interval goes on ticking during the restart *)
SeenDeadTicking(i) ==
  LET s == of[i] IN
  /\ inspecting[i] # None /\ inspecting[i] \notin alive
  /\ inspecting' = [inspecting EXCEPT ![i] = None]
  /\ HandleCrash(s)
  /\ UNCHANGED <<waiting, boot, lost, containers, intervals, healthChecks, docker, ending>>

(* The inspection says that the container stopped: the crash is handled at once *)
SeenDead(i) ==
  LET s == of[i] IN
  /\ inspecting[i] # None /\ inspecting[i] \notin alive
  /\ inspecting' = [inspecting EXCEPT ![i] = None]
  /\ intervals' = intervals \ {i}
  /\ healthChecks' = [healthChecks EXCEPT ![s] = None]
  /\ HandleCrash(s)
  /\ UNCHANGED <<waiting, boot, lost, containers, docker, ending>>

(* The old container is removed *)
Removed(c) ==
  /\ stage[c] = "removing"
  /\ stage' = [stage EXCEPT ![c] = "launching"]
  /\ containers' = [containers EXCEPT ![of[c]] = None]
  /\ alive' = alive \ {old[c]}
  /\ UNCHANGED <<waiting, boot, made, of, old, manager, restartCounts, watch,
                 registrations, address, crashes, ending>>

----
(* Shutdown *)

(* Mutant: only the servers with a client are stopped *)
StopAllReady ==
  LET held == {s \in Servers : client[s] # None /\ containers[s] # None} IN
  /\ Booted /\ ~down
  /\ down' = TRUE
  /\ atStop' = {containers[s] : s \in Servers} \ {None}
  /\ intervals' = intervals \ {healthChecks[s] : s \in held}
  /\ healthChecks' = [s \in Servers |-> IF s \in held THEN None ELSE healthChecks[s]]
  /\ Unregister(held)
  /\ halting' = [s \in Servers |-> IF s \in held THEN containers[s] ELSE None]
  /\ status' = [s \in Servers |-> IF s \in held THEN status[s] ELSE "absent"]
  /\ client' = [s \in Servers |-> None]
  /\ UNCHANGED <<waiting, boot, flows, lost, containers, restartCounts, inspecting, docker>>

(* stopAll: stopServer and stopContainer of every server, up to the await of *)
(* Docker; a server without a container is done at once                       *)
StopAll ==
  LET held == {s \in Servers : status[s] # "absent" /\ containers[s] # None} IN
  /\ Booted /\ ~down
  /\ down' = TRUE
  /\ atStop' = {containers[s] : s \in Servers} \ {None}
  /\ intervals' = intervals \ {healthChecks[s] : s \in held}
  /\ healthChecks' = [s \in Servers |-> IF s \in held THEN None ELSE healthChecks[s]]
  /\ Unregister(held)
  /\ halting' = [s \in Servers |-> IF s \in held THEN containers[s] ELSE None]
  /\ status' = [s \in Servers |-> IF s \in held THEN status[s] ELSE "absent"]
  /\ client' = [s \in Servers |-> IF s \in held THEN client[s] ELSE None]
  /\ UNCHANGED <<waiting, boot, flows, lost, containers, restartCounts, inspecting, docker>>

(* Docker stopped and removed the container: the server leaves the tables *)
Stopped(s) ==
  /\ halting[s] # None
  /\ halting' = [halting EXCEPT ![s] = None]
  /\ alive' = alive \ {halting[s]}
  /\ containers' = [containers EXCEPT ![s] = None]
  /\ restartCounts' = [restartCounts EXCEPT ![s] = 0]
  /\ status' = [status EXCEPT ![s] = "absent"]
  /\ client' = [client EXCEPT ![s] = None]
  /\ UNCHANGED <<waiting, boot, flows, lost, watch, registrations, address, crashes,
                 down, atStop>>

Next ==
  \/ \E s \in Servers : StartServer(s) \/ Stopped(s)
  \/ \E c \in Containers : \/ LaunchFails(c) \/ Launch(c) \/ InspectFails(c) \/ List(c)
                           \/ HandshakeFails(c) \/ Answer(c) \/ Complete(c)
                           \/ Die(c) \/ Removed(c)
                           \/ Tick(c) \/ SeenAlive(c) \/ SeenDead(c)
  \/ StopAll

Spec == Init /\ [][Next]_vars

(* Awaits of Docker and of the handshake end (the MCP client gives up after *)
(* a minute), intervals fire, and an inspection does not fail for ever.     *)
Fairness ==
  /\ \A s \in Servers : WF_vars(StartServer(s)) /\ WF_vars(Stopped(s))
  /\ \A c \in Containers :
       /\ WF_vars(Launch(c) \/ LaunchFails(c))
       /\ WF_vars(List(c) \/ InspectFails(c))
       /\ WF_vars(Answer(c) \/ HandshakeFails(c))
       /\ WF_vars(Complete(c))
       /\ WF_vars(Removed(c))
       /\ WF_vars(Tick(c)) /\ SF_vars(SeenDead(c))

FairSpec == Spec /\ Fairness

----
(* Properties *)

(* Every variable has its type. *)
TypeOK ==
  /\ waiting \subseteq Servers
  /\ made \in 0..MaxContainers
  /\ of \in [Containers -> Servers \cup {None}]
  /\ stage \in [Containers -> Stages]
  /\ old \in [Containers -> Containers \cup {None}]
  /\ boot \subseteq Containers /\ lost \subseteq Containers
  /\ status \in [Servers -> Statuses]
  /\ client \in [Servers -> Containers \cup {None}]
  /\ containers \in [Servers -> Containers \cup {None}]
  /\ restartCounts \in [Servers -> Nat]
  /\ intervals \subseteq Containers
  /\ healthChecks \in [Servers -> Containers \cup {None}]
  /\ inspecting \in [Containers -> Containers \cup {None}]
  /\ registrations \in [Addresses -> Servers \cup {None}]
  /\ alive \subseteq Containers
  /\ address \in [Containers -> Addresses \cup {None}]
  /\ crashes \in 0..MaxCrashes
  /\ halting \in [Servers -> Containers \cup {None}]
  /\ down \in BOOLEAN
  /\ atStop \subseteq Containers

(* A server never has two containers that run: a recovery that overlaps the *)
(* startup, another recovery or the shutdown does not start a second one.   *)
OneContainer == \A c, d \in alive : of[c] = of[d] => c = d

(* Until the shutdown, a container in the table is watched by an armed      *)
(* interval, unless a recovery is about to remove it: no crash goes unseen. *)
Watched ==
  ~down => \A s \in Servers : containers[s] # None =>
             \/ \E i \in intervals : of[i] = s
             \/ \E c \in Containers : of[c] = s /\ stage[c] = "removing"

(* The proxy knows an address as a server's only while the container listed *)
(* for that server was given this address.                                  *)
NoStaleRegistration ==
  ~down => \A a \in Addresses, s \in Servers : registrations[a] = s =>
             containers[s] # None /\ address[containers[s]] = a

(* Once every server has left the table after stopAll, nothing runs that    *)
(* was listed when it was called.                                           *)
StopsListed == down /\ (\A s \in Servers : status[s] = "absent") => atStop \cap alive = {}

(* How a server is cared for: by a flow, by an interval, or no longer. *)
Care(s) ==
  IF s \in waiting THEN "unstarted"
  ELSE IF \E c \in Containers : of[c] = s /\ stage[c] \in {"removing", "launching"}
       THEN "starting"
  ELSE IF \E c \in Containers : of[c] = s /\ stage[c] = "launched"
       THEN "launched"
  ELSE IF \E i \in Containers : of[i] = s /\ (i \in intervals \/ inspecting[i] # None)
       THEN "watched"
  ELSE "abandoned"

Keeper == INSTANCE Supervision WITH care <- [s \in Servers |-> Care(s)],
                                    up <- {of[c] : c \in alive},
                                    deaths <- crashes, down <- down

(* A server is launched only at the startup or for a container that died    *)
(* under watch, never beside one that runs; until the shutdown nothing but  *)
(* a start that fails gives it up, and no container is stopped that runs.   *)
Supervised == Keeper!Spec

(* Startup ends, whatever fails, hangs or crashes meanwhile. *)
StartupEnds == <>Booted

(* A container that died does not stay listed: a recovery takes it out of the *)
(* table, though the restart may then fail.                                   *)
CrashNoticed ==
  \A s \in Servers, c \in Containers :
    containers[s] = c /\ c \notin alive ~> containers[s] # c \/ down
====
