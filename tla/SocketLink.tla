---- MODULE SocketLink ----
(***************************************************************************)
(* The Unix socket between the gateway and one bridge process              *)
(* (packages/shared/src/socket.ts).  The server keeps the connections it    *)
(* accepted; the client reconnects after a delay that doubles up to a       *)
(* limit.  Either process may stop and is started again by its container.   *)
(*                                                                         *)
(* Each action says what happens to the link alone: the modules that        *)
(* extend this one add what the process at either end does with it.         *)
(***************************************************************************)
EXTENDS Naturals, Sequences

CONSTANTS FirstDelay,   \* the delay before the first attempt to reconnect
          MaxDelay,     \* the limit of that delay
          MaxDowns,     \* bound: stops of the gateway
          MaxExits      \* bound: stops of the bridge

ASSUME DelayAssumption == FirstDelay \in Nat \ {0} /\ MaxDelay \in Nat /\ FirstDelay <= MaxDelay

VARIABLES
  gateway,     \* the server listens
  bridge,      \* the bridge process runs
  sock,        \* the client's socket: none, opening, open or closed
  timer,       \* reconnectTimer is set
  delay,       \* reconnectDelay
  peer,        \* the server's end: none, backlog (not yet accepted), held (in clients), gone
  client,      \* nextClientId: the id of the connection accepted last
  toGateway,   \* lines written by the bridge and not yet read
  toBridge,    \* lines written by the gateway and not yet read
  downs, exits \* stops so far

link == <<gateway, bridge, sock, timer, delay, peer, client, toGateway, toBridge, downs, exits>>

LinkInit ==
  /\ gateway = FALSE /\ bridge = FALSE
  /\ sock = "none" /\ timer = FALSE /\ delay = FirstDelay
  /\ peer = "none" /\ client = 0
  /\ toGateway = <<>> /\ toBridge = <<>>
  /\ downs = 0 /\ exits = 0

Connected == sock = "open"

(* MUTANT of Sent: replies to the connection before *)
SentBefore(m, id) == IF peer = "held" /\ id = client - 1 THEN Append(toBridge, m) ELSE toBridge
(* A reply goes to the connection it was asked on, a broadcast to every one *)
Sent(m, id) == IF peer = "held" /\ id = client THEN Append(toBridge, m) ELSE toBridge
Broadcast(m) == IF peer = "held" THEN Append(toBridge, m) ELSE toBridge

(* What the client writes is dropped unless it is connected *)
Written(m) == IF Connected THEN Append(toGateway, m) ELSE toGateway

(* MUTANT of ScheduleReconnect: the delay is not limited *)
ScheduleUncapped ==
  IF timer THEN UNCHANGED <<timer, delay>> ELSE timer' = TRUE /\ delay' = 2 * delay

ScheduleReconnect ==
  IF timer THEN UNCHANGED <<timer, delay>>
  ELSE timer' = TRUE /\ delay' = IF 2 * delay < MaxDelay THEN 2 * delay ELSE MaxDelay

(* The bridge process starts and connects *)
StartBridge ==
  /\ ~bridge
  /\ bridge' = TRUE /\ sock' = "opening" /\ timer' = FALSE /\ delay' = FirstDelay
  /\ UNCHANGED <<gateway, peer, client, toGateway, toBridge, downs, exits>>

Established ==
  /\ sock = "opening" /\ gateway
  /\ sock' = "open" /\ delay' = FirstDelay /\ peer' = "backlog"
  /\ UNCHANGED <<gateway, bridge, timer, client, toGateway, toBridge, downs, exits>>

(* The server's connection handler *)
Accept ==
  /\ peer = "backlog"
  /\ peer' = "held" /\ client' = client + 1
  /\ UNCHANGED <<gateway, bridge, sock, timer, delay, toGateway, toBridge, downs, exits>>

(* MUTANT of Refused: no further attempt *)
RefusedForGood ==
  /\ sock = "opening" /\ ~gateway
  /\ sock' = "closed"
  /\ UNCHANGED <<gateway, bridge, timer, delay, peer, client, toGateway, toBridge, downs, exits>>

(* No socket file, or nobody listens on it: an expected error, then close *)
Refused ==
  /\ sock = "opening" /\ ~gateway
  /\ sock' = "closed" /\ ScheduleReconnect
  /\ UNCHANGED <<gateway, bridge, peer, client, toGateway, toBridge, downs, exits>>

(* The server ended the connection and everything it had sent is read *)
Lost ==
  /\ sock = "open" /\ peer = "gone" /\ toBridge = <<>>
  /\ sock' = "closed" /\ peer' = "none" /\ toGateway' = <<>> /\ ScheduleReconnect
  /\ UNCHANGED <<gateway, bridge, client, toBridge, downs, exits>>

TimerFires ==
  /\ timer
  /\ timer' = FALSE /\ sock' = "opening"
  /\ UNCHANGED <<gateway, bridge, delay, peer, client, toGateway, toBridge, downs, exits>>

(* The process ends: unread lines to it are lost, those it wrote are not *)
Leave ==
  /\ bridge' = FALSE /\ sock' = "none" /\ timer' = FALSE /\ peer' = "none"
  /\ toBridge' = <<>>
  /\ toGateway' = IF peer = "gone" THEN <<>> ELSE toGateway
  /\ UNCHANGED <<gateway, delay, client, downs>>

(* A reset instead of an end, because the server had not read all: the      *)
(* error event has no listener in the bridges, so it ends the process       *)
Reset == sock = "open" /\ peer = "gone" /\ toGateway # <<>> /\ Leave /\ UNCHANGED exits

(* disconnect and exit on a signal, or a failure of the process itself *)
Exit == bridge /\ exits < MaxExits /\ Leave /\ exits' = exits + 1

GatewayUp ==
  /\ ~gateway
  /\ gateway' = TRUE /\ client' = 0
  /\ UNCHANGED <<bridge, sock, timer, delay, peer, toGateway, toBridge, downs, exits>>

GatewayDown ==
  /\ gateway /\ downs < MaxDowns
  /\ gateway' = FALSE /\ downs' = downs + 1
  /\ peer' = IF peer = "none" THEN "none" ELSE "gone"
  /\ toGateway' = IF sock = "open" THEN toGateway ELSE <<>>
  /\ UNCHANGED <<bridge, sock, timer, delay, client, toBridge, exits>>
====
