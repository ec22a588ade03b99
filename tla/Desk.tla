---- MODULE Desk ----
(***************************************************************************)
(* The gateway as a bridge sees it: it asks for approvals and expires them  *)
(* by broadcast, takes the first decision on each, answers commands by      *)
(* broadcast and messages on the connection they came by.  HitlGate has the *)
(* gate in full; here it keeps one verdict per approval.                    *)
(***************************************************************************)
EXTENDS SocketLink, FiniteSets

CONSTANTS Approvals,   \* approval ids
          Requests,    \* ids of the users' messages and commands
          Platform,    \* the platform of this bridge
          MaxNotices   \* bound: notifications of a task loop or a heartbeat

Decisions == {"approved", "session-approved", "rejected"}
Chats == {Platform, "web"}
Lists == {"memory-list", "session-list", "heartbeat-list"}
Actions == {"memory-delete", "task-stop", "heartbeat-toggle"}
Auths == {"auth-connect", "auth-status", "auth-disconnect"}
Commands == Lists \cup Actions \cup Auths

VARIABLES
  verdict,   \* of each approval: idle, asked, a decision, expired or void
  chat,      \* the chat each approval is asked in
  serving,   \* turns of the gateway: [id, client]
  notices    \* notifications sent so far

desk == <<verdict, chat, serving, notices>>

DeskInit ==
  /\ verdict = [a \in Approvals |-> "idle"]
  /\ chat \in [Approvals -> Chats]
  /\ serving = {} /\ notices = 0

(* What the gateway writes to a bridge *)
Card(a) == [type |-> "approval-request", id |-> a, chat |-> chat[a]]
Expiry(a) == [type |-> "approval-expired", id |-> a, chat |-> chat[a]]
Answer(r, t, full) == [type |-> t, id |-> r, chat |-> Platform, full |-> full]

(* Only the lines to the bridge change *)
Emits(b) == toBridge' = b /\ UNCHANGED <<gateway, bridge, sock, timer, delay, peer, client,
                                         toGateway, downs, exits>>
Reads == gateway /\ peer \notin {"backlog", "gone"} /\ toGateway # <<>>
(* A line is read and a line may be written *)
Takes(b) == /\ toGateway' = Tail(toGateway) /\ toBridge' = b
            /\ UNCHANGED <<gateway, bridge, sock, timer, delay, peer, client, downs, exits>>

Ask(a) ==
  /\ gateway /\ verdict[a] = "idle"
  /\ verdict' = [verdict EXCEPT ![a] = "asked"]
  /\ Emits(Broadcast(Card(a)))
  /\ UNCHANGED <<chat, serving, notices>>

(* The gate's timeout *)
Expire(a) ==
  /\ gateway /\ verdict[a] = "asked"
  /\ verdict' = [verdict EXCEPT ![a] = "expired"]
  /\ Emits(Broadcast(Expiry(a)))
  /\ UNCHANGED <<chat, serving, notices>>

(* The dashboard decides: no bridge is told *)
DecideOnDashboard(a, d) ==
  /\ gateway /\ verdict[a] = "asked"
  /\ verdict' = [verdict EXCEPT ![a] = d]
  /\ UNCHANGED <<link, chat, serving, notices>>

(* MUTANT of TakeDecision: whatever is decided last holds *)
TakeLateDecision ==
  LET m == Head(toGateway) IN
  /\ Reads /\ m.type = "approval-decision"
  /\ Takes(toBridge)
  /\ verdict' = [verdict EXCEPT ![m.id] = m.decision]
  /\ UNCHANGED <<chat, serving, notices>>

(* resolveApproval: only an open approval is decided *)
TakeDecision ==
  LET m == Head(toGateway) IN
  /\ Reads /\ m.type = "approval-decision"
  /\ Takes(toBridge)
  /\ verdict' = IF verdict[m.id] = "asked" THEN [verdict EXCEPT ![m.id] = m.decision] ELSE verdict
  /\ UNCHANGED <<chat, serving, notices>>

(* A command is answered at once; full: the list is not empty, the action   *)
(* found what it was asked for                                              *)
TakeCommand(full) ==
  LET m == Head(toGateway) IN
  /\ Reads /\ m.type \in Lists \cup Actions
  /\ Takes(Broadcast(Answer(m.id, m.type, full)))
  /\ UNCHANGED desk

(* A message, or an auth command, is served across awaits *)
TakeTurn ==
  LET m == Head(toGateway) IN
  /\ Reads /\ m.type \in Auths \cup {"message"}
  /\ Takes(toBridge)
  /\ serving' = serving \cup {[id |-> m.id, type |-> m.type, client |-> client]}
  /\ UNCHANGED <<verdict, chat, notices>>

(* full: what is left of the text without its thinking is not empty *)
Reply(s, full) ==
  /\ gateway
  /\ serving' = serving \ {s}
  /\ Emits(IF s.type = "message" THEN Sent(Answer(s.id, "response", full), s.client)
                                 ELSE Broadcast(Answer(s.id, "auth-response", TRUE)))
  /\ UNCHANGED <<verdict, chat, notices>>

(* A notification, the progress of a task, a heartbeat that starts *)
Notify(t, c) ==
  /\ gateway /\ notices < MaxNotices
  /\ notices' = notices + 1
  /\ Emits(Broadcast([type |-> t, id |-> notices', chat |-> c]))
  /\ UNCHANGED <<verdict, chat, serving>>

(* The process stops: waits and turns are lost *)
Stop == /\ GatewayDown
        /\ verdict' = [a \in Approvals |-> IF verdict[a] = "asked" THEN "void" ELSE verdict[a]]
        /\ serving' = {}
        /\ UNCHANGED <<chat, notices>>

DeskNext ==
  \/ \E a \in Approvals : Ask(a) \/ Expire(a) \/ \E d \in Decisions : DecideOnDashboard(a, d)
  \/ TakeDecision
  \/ \E full \in BOOLEAN : TakeCommand(full)
  \/ TakeTurn
  \/ \E s \in serving, full \in BOOLEAN : Reply(s, full)
  \/ \E t \in {"notification", "task-progress", "heartbeat-triggered"}, c \in Chats : Notify(t, c)
  \/ Stop

(* Steps of the link alone *)
LinkNext ==
  /\ Established \/ Accept \/ Refused \/ Lost \/ TimerFires \/ GatewayUp
  /\ UNCHANGED desk

(***************************************************************************)
(* The promise of the gate                                                  *)
(***************************************************************************)
(* What an approval is to Consent; the domain gate is never asked here *)
Consented(v, gate) ==
  IF v = "void" THEN "void"
  ELSE IF gate = "domain" \/ v = "idle" THEN "none"
  ELSE IF v = "asked" THEN "open"
  ELSE IF v \in {"approved", "session-approved"} THEN "granted" ELSE "refused"

(* One user, and calls that visit no host *)
Gate ==
  INSTANCE Consent WITH
    Calls <- Approvals, Users <- {"user"}, Keys <- {"any"}, AnyKey <- "any", Web <- "web",
    BaseAllowed <- {}, Subdomain <- {},
    req <- [a \in Approvals |-> [user |-> "user", tool |-> "tool", key |-> "any"]],
    verdict <- [g \in Approvals \X {"tool", "domain"} |-> Consented(verdict[g[1]], g[2])],
    allowed <- [u \in {"user"} |-> {}], ran <- {}

(* What the bridges and the dashboard decide through their lines is what     *)
(* Consent allows, as the gate itself is shown to do: an approval is asked   *)
(* once and decided once, by the first decision or the timeout, though more   *)
(* presses, a stop of the gateway and decisions written before it arrive     *)
DeskConsents == Gate!Spec
====
