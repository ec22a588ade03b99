---- MODULE Bridges_proofs ----
(***************************************************************************)
(* Proofs about the bridges: types, one decision per approval, and answers   *)
(* in the thread of their request.                                           *)
(***************************************************************************)
EXTENDS MCBridges, TLAPS

----
(* Types *)

Asked == Lists \cup Actions \cup Auths \cup {"message"}
Answers == Lists \cup Actions \cup {"auth-response", "response"}
Told == {"approval-request", "approval-expired"}
News == {"notification", "task-progress", "heartbeat-triggered"}

DecisionLines == [type : {"approval-decision"}, id : Approvals, decision : Decisions]
GateLines == DecisionLines \cup [type : Asked, id : Requests]
BridgeLines == [type : Told, id : Approvals, chat : Chats]
               \cup [type : Answers, id : Requests, chat : Chats, full : BOOLEAN]
               \cup [type : News, id : Nat, chat : Chats]

IsJob(j) ==
  /\ j = [msg |-> j.msg, tries |-> j.tries, ref |-> j.ref, thread |-> j.thread]
  /\ j.msg \in BridgeLines \cup DecisionLines /\ j.thread \in Threads

LinkType ==
  /\ gateway \in BOOLEAN /\ bridge \in BOOLEAN /\ timer \in BOOLEAN
  /\ sock \in {"none", "opening", "open", "closed"}
  /\ peer \in {"none", "backlog", "held", "gone"}
  /\ delay \in FirstDelay..MaxDelay
  /\ client \in Nat /\ downs \in Nat /\ exits \in Nat
  /\ toGateway \in Seq(GateLines) /\ toBridge \in Seq(BridgeLines)
DeskType ==
  /\ verdict \in [Approvals -> {"idle", "asked", "expired", "void"} \cup Decisions]
  /\ chat \in [Approvals -> Chats] /\ notices \in Nat
  /\ serving \subseteq [id : Requests, type : Auths \cup {"message"}, client : Nat]
MemoryType ==
  /\ refs \subseteq Approvals /\ resolved \subseteq Approvals /\ told \subseteq Approvals
  /\ pending \subseteq [id : Requests, thread : Threads] /\ channel \in Threads
  /\ written \in [Approvals -> SUBSET Decisions]
  /\ \A j \in jobs : IsJob(j)
ScreenType ==
  /\ cards \in [Approvals -> {"none", "live", "expired"} \cup Decisions]
  /\ asked \in [Requests -> {"new", "usage", "offline", "dropped", "sent"} \cup Outcomes]
  /\ home \in [Requests -> Threads] /\ shownIn \in [Requests -> Threads]

TypeInv == LinkType /\ DeskType /\ MemoryType /\ ScreenType

(* There may be no lines. *)
LEMMA NoLines == <<>> \in Seq(GateLines) /\ <<>> \in Seq(BridgeLines)
OBVIOUS

(* The delay stays within its limits. *)
LEMMA DelayKeeps ==
  ASSUME delay \in FirstDelay..MaxDelay
  PROVE  /\ FirstDelay \in FirstDelay..MaxDelay
         /\ ScheduleReconnect /\ timer \in BOOLEAN => delay' \in FirstDelay..MaxDelay /\ timer' \in BOOLEAN
<1>1. FirstDelay \in Nat /\ MaxDelay \in Nat /\ FirstDelay <= MaxDelay
  BY DelayAssumption
<1>2. delay \in Nat /\ FirstDelay <= delay /\ delay <= MaxDelay
  BY <1>1
<1>3. ASSUME ScheduleReconnect, timer \in BOOLEAN
      PROVE  delay' \in FirstDelay..MaxDelay /\ timer' \in BOOLEAN
  <2>1. CASE timer
    BY <1>3, <2>1 DEF ScheduleReconnect
  <2>2. CASE ~timer
    <3>1. timer' = TRUE /\ delay' = IF 2 * delay < MaxDelay THEN 2 * delay ELSE MaxDelay
      BY <1>3, <2>2 DEF ScheduleReconnect
    <3> QED BY <1>1, <1>2, <3>1
  <2> QED BY <2>1, <2>2
<1> QED BY <1>1, <1>3

(* The steps of the link. *)
LEMMA LinkKeeps ==
  ASSUME LinkType, Established \/ Accept \/ Refused \/ Lost \/ TimerFires \/ GatewayUp \/ StartBridge
  PROVE  LinkType'
<1>0. delay \in FirstDelay..MaxDelay /\ timer \in BOOLEAN
  BY DEF LinkType
<1>1. delay' \in FirstDelay..MaxDelay /\ timer' \in BOOLEAN
  BY <1>0, DelayKeeps DEF Established, Accept, Refused, Lost, TimerFires, GatewayUp, StartBridge
<1>2. client' \in Nat /\ downs' \in Nat /\ exits' \in Nat
  BY DEF LinkType, Established, Accept, Refused, Lost, TimerFires, GatewayUp, StartBridge
<1>3. toGateway' \in Seq(GateLines) /\ toBridge' \in Seq(BridgeLines)
  BY NoLines DEF LinkType, Established, Accept, Refused, Lost, TimerFires, GatewayUp, StartBridge
<1>4. /\ gateway' \in BOOLEAN /\ bridge' \in BOOLEAN
      /\ sock' \in {"none", "opening", "open", "closed"}
      /\ peer' \in {"none", "backlog", "held", "gone"}
  BY DEF LinkType, Established, Accept, Refused, Lost, TimerFires, GatewayUp, StartBridge
<1> QED BY <1>1, <1>2, <1>3, <1>4 DEF LinkType

(* The end of either process. *)
LEMMA EndKeeps ==
  ASSUME LinkType, Reset \/ Exit \/ GatewayDown
  PROVE  LinkType'
<1>1. toGateway' \in Seq(GateLines) /\ toBridge' \in Seq(BridgeLines)
  BY NoLines DEF LinkType, Reset, Exit, Leave, GatewayDown
<1>2. client' \in Nat /\ downs' \in Nat /\ exits' \in Nat
  BY DEF LinkType, Reset, Exit, Leave, GatewayDown
<1>3. /\ gateway' \in BOOLEAN /\ bridge' \in BOOLEAN /\ timer' \in BOOLEAN
      /\ sock' \in {"none", "opening", "open", "closed"}
      /\ peer' \in {"none", "backlog", "held", "gone"} /\ delay' \in FirstDelay..MaxDelay
  BY DEF LinkType, Reset, Exit, Leave, GatewayDown
<1> QED BY <1>1, <1>2, <1>3 DEF LinkType

(* Lines that are read and written. *)
LEMMA LinesKeep ==
  ASSUME LinkType
  PROVE  /\ \A b \in Seq(BridgeLines) : Emits(b) => LinkType'
         /\ \A b \in Seq(BridgeLines) : Reads /\ Takes(b) => LinkType' /\ Head(toGateway) \in GateLines
         /\ \A m \in GateLines : Writes(m) => LinkType'
         /\ Receives => LinkType' /\ Line \in BridgeLines
<1> USE DEF LinkType
<1>1. ASSUME NEW b \in Seq(BridgeLines), Emits(b) PROVE LinkType'
  BY <1>1 DEF Emits
<1>2. ASSUME NEW b \in Seq(BridgeLines), Reads, Takes(b) PROVE LinkType' /\ Head(toGateway) \in GateLines
  BY <1>2 DEF Reads, Takes
<1>3. ASSUME NEW m \in GateLines, Writes(m) PROVE LinkType'
  BY <1>3 DEF Writes, Written
<1>4. ASSUME Receives PROVE LinkType' /\ Line \in BridgeLines
  BY <1>4 DEF Receives, Line
<1> QED BY <1>1, <1>2, <1>3, <1>4

(* A line that is written reaches the bridge or is lost. *)
LEMMA WrittenLines ==
  ASSUME LinkType, NEW m \in BridgeLines
  PROVE  Broadcast(m) \in Seq(BridgeLines) /\ \A id : Sent(m, id) \in Seq(BridgeLines)
BY DEF LinkType, Broadcast, Sent

(* The steps of the gateway. *)
LEMMA DeskKeeps ==
  ASSUME LinkType, DeskType, DeskNext
  PROVE  LinkType' /\ DeskType'
<1>0. toBridge \in Seq(BridgeLines)
  BY DEF LinkType
<1>1. ASSUME NEW a \in Approvals, Ask(a) PROVE LinkType' /\ DeskType'
  <2>1. Card(a) \in BridgeLines
    BY DEF Card, BridgeLines, Told, DeskType
  <2> QED BY <1>1, <2>1, WrittenLines, LinesKeep DEF Ask, DeskType
<1>2. ASSUME NEW a \in Approvals, Expire(a) PROVE LinkType' /\ DeskType'
  <2>1. Expiry(a) \in BridgeLines
    BY DEF Expiry, BridgeLines, Told, DeskType
  <2> QED BY <1>2, <2>1, WrittenLines, LinesKeep DEF Expire, DeskType
<1>3. ASSUME NEW a \in Approvals, NEW d \in Decisions, DecideOnDashboard(a, d) PROVE LinkType' /\ DeskType'
  BY <1>3 DEF DecideOnDashboard, DeskType, LinkType, link
<1>4. CASE TakeDecision
  <2>1. LinkType' /\ Head(toGateway) \in GateLines
    BY <1>0, <1>4, LinesKeep DEF TakeDecision
  <2>2. Head(toGateway) \in DecisionLines
    BY <1>4, <2>1 DEF TakeDecision, GateLines, Asked, Lists, Actions, Auths
  <2> QED BY <1>4, <2>1, <2>2 DEF TakeDecision, DeskType, DecisionLines
<1>5. ASSUME NEW full \in BOOLEAN, TakeCommand(full) PROVE LinkType' /\ DeskType'
  <2> DEFINE m == Head(toGateway)
  <2>1. toGateway \in Seq(GateLines) /\ toGateway # <<>>
    BY <1>5 DEF TakeCommand, Reads, LinkType
  <2>2. m \in GateLines
    BY <2>1
  <2>3. m.type \in Lists \cup Actions /\ m.id \in Requests
    BY <1>5, <2>2 DEF TakeCommand, GateLines, DecisionLines, Lists, Actions
  <2>4. Answer(m.id, m.type, full) \in BridgeLines
    BY <2>3 DEF Answer, BridgeLines, Answers, Chats
  <2> QED BY <1>5, <2>4, WrittenLines, LinesKeep DEF TakeCommand, DeskType, desk
<1>6. CASE TakeTurn
  <2>1. LinkType' /\ Head(toGateway) \in GateLines
    BY <1>0, <1>6, LinesKeep DEF TakeTurn
  <2>2. Head(toGateway).type \in Auths \cup {"message"} /\ Head(toGateway).id \in Requests
    BY <1>6, <2>1 DEF TakeTurn, GateLines, DecisionLines, Auths
  <2> QED BY <1>6, <2>1, <2>2 DEF TakeTurn, DeskType, LinkType
<1>7. ASSUME NEW x \in serving, NEW full \in BOOLEAN, Reply(x, full) PROVE LinkType' /\ DeskType'
  <2>1. x.id \in Requests
    BY DEF DeskType
  <2>2. /\ Answer(x.id, "response", full) \in BridgeLines
        /\ Answer(x.id, "auth-response", TRUE) \in BridgeLines
    BY <2>1 DEF Answer, BridgeLines, Answers, Chats
  <2>3. /\ Sent(Answer(x.id, "response", full), x.client) \in Seq(BridgeLines)
        /\ Broadcast(Answer(x.id, "auth-response", TRUE)) \in Seq(BridgeLines)
    BY <2>2, WrittenLines
  <2>4. LinkType'
    BY <1>7, <2>3, LinesKeep DEF Reply
  <2> QED BY <1>7, <2>4 DEF Reply, DeskType
<1>8. ASSUME NEW t \in News, NEW c \in Chats, Notify(t, c) PROVE LinkType' /\ DeskType'
  <2>1. notices' \in Nat
    BY <1>8 DEF Notify, DeskType
  <2>2. [type |-> t, id |-> notices', chat |-> c] \in BridgeLines
    BY <2>1 DEF BridgeLines
  <2>3. LinkType'
    BY <1>8, <2>2, WrittenLines, LinesKeep DEF Notify
  <2> QED BY <1>8, <2>1, <2>3 DEF Notify, DeskType
<1>9. CASE Stop
  BY <1>9, EndKeeps DEF Stop, DeskType
<1> QED BY <1>1, <1>2, <1>3, <1>4, <1>5, <1>6, <1>7, <1>8, <1>9 DEF DeskNext, News

(* A post that is taken or refused. *)
LEMMA PostKeeps ==
  ASSUME MemoryType, ScreenType, NEW j \in jobs, Posted(j) \/ NotPosted(j)
  PROVE  MemoryType' /\ ScreenType'
<1>0. IsJob(j)
  BY DEF MemoryType
<1>1. /\ OfRequest(j.msg) => j.msg \in [type : Answers, id : Requests, chat : Chats, full : BOOLEAN]
      /\ j.msg.type \in Told => j.msg \in [type : Told, id : Approvals, chat : Chats]
      /\ j.msg.type = "approval-decision" => j.msg \in DecisionLines
  BY <1>0 DEF IsJob, OfRequest, BridgeLines, DecisionLines, Told, Answers, News, Lists, Actions
<1>2. CASE Posted(j)
  <2> DEFINE m == j.msg
  <2>1. jobs' = jobs \ {j} /\ UNCHANGED <<resolved, pending, channel, written, home>>
    BY <1>2 DEF Posted
  <2>2. cards' \in [Approvals -> {"none", "live", "expired"} \cup Decisions]
    BY <1>1, <1>2 DEF Posted, ScreenType, DecisionLines, Told
  <2>3. refs' \subseteq Approvals /\ told' \subseteq Approvals
    BY <1>1, <1>2 DEF Posted, MemoryType, Told
  <2>4. asked' \in [Requests -> {"new", "usage", "offline", "dropped", "sent"} \cup Outcomes]
    BY <1>1, <1>2 DEF Posted, ScreenType, Outcomes
  <2>5. shownIn' \in [Requests -> Threads]
    BY <1>0, <1>1, <1>2 DEF Posted, ScreenType, IsJob
  <2> QED BY <2>1, <2>2, <2>3, <2>4, <2>5 DEF MemoryType, ScreenType
<1>3. CASE NotPosted(j)
  <2>1. UNCHANGED <<refs, resolved, pending, channel, told, written, cards, home, shownIn>>
    BY <1>3 DEF NotPosted
  <2>2. ASSUME NEW t PROVE IsJob([j EXCEPT !.tries = t])
    <3>1. PICK m, u, f, h : j = [msg |-> m, tries |-> u, ref |-> f, thread |-> h]
      BY <1>0 DEF IsJob
    <3>2. [j EXCEPT !.tries = t] = [msg |-> m, tries |-> t, ref |-> f, thread |-> h]
      BY <3>1
    <3> QED BY <1>0, <3>1, <3>2 DEF IsJob
  <2>3. jobs' \subseteq jobs \cup {[j EXCEPT !.tries = Tail(@)]}
    BY <1>3 DEF NotPosted
  <2>4. asked' \in [Requests -> {"new", "usage", "offline", "dropped", "sent"} \cup Outcomes]
    BY <1>1, <1>3 DEF NotPosted, ScreenType, Outcomes
  <2> QED BY <2>1, <2>2, <2>3, <2>4 DEF MemoryType, ScreenType
<1> QED BY <1>2, <1>3

(* A line of the bridge's own is written. *)
LEMMA WriteKeeps ==
  ASSUME TypeInv, NEW r \in Requests, NEW t \in Asked, Writes([type |-> t, id |-> r])
  PROVE  LinkType'
<1>1. [type |-> t, id |-> r] \in GateLines
  BY DEF GateLines
<1> QED BY <1>1, LinesKeep DEF TypeInv

----
(* The steps of both bridges, by what they change *)

New(m, t, f, h) == [msg |-> m, tries |-> t, ref |-> f, thread |-> h]

Usage(r) ==
  /\ asked[r] = "new"
  /\ asked' = [asked EXCEPT ![r] = "usage"]
  /\ UNCHANGED <<link, desk, memory, cards, home, shownIn, unposted>>
Command(r, t, lost) ==
  /\ asked[r] = "new"
  /\ asked' = [asked EXCEPT ![r] = IF Connected THEN "sent" ELSE lost]
  /\ Writes([type |-> t, id |-> r])
  /\ UNCHANGED <<desk, memory, cards, home, shownIn, unposted>>
Message(r, thread) ==
  /\ asked[r] = "new"
  /\ asked' = [asked EXCEPT ![r] = IF Connected THEN "sent" ELSE "offline"]
  /\ Writes([type |-> "message", id |-> r])
  /\ pending' = IF Connected THEN pending \cup {[id |-> r, thread |-> thread]} ELSE pending
  /\ home' = [home EXCEPT ![r] = thread]
  /\ channel' \in {channel, thread}
  /\ UNCHANGED <<desk, refs, resolved, jobs, told, written, cards, shownIn, unposted>>
Press(a, d) ==
  /\ a \notin resolved
  /\ Writes([type |-> "approval-decision", id |-> a, decision |-> d])
  /\ written' = IF Connected THEN [written EXCEPT ![a] = @ \cup {d}] ELSE written
  /\ resolved' = resolved \cup {a} /\ refs' = refs \ {a}
  /\ jobs' = jobs \cup {New([type |-> "approval-decision", id |-> a, decision |-> d], <<"edit">>, FALSE, "none")}
  /\ UNCHANGED <<desk, pending, channel, told, screen>>

Ignored == Receives /\ UNCHANGED <<desk, memory, screen>>
OnMessage(t, thread) ==
  /\ Receives /\ Line.type \notin {"approval-expired", "response"}
  /\ jobs' \subseteq jobs \cup {New(Line, t, FALSE, thread)}
  /\ UNCHANGED <<desk, refs, resolved, pending, channel, told, written, screen>>
OnExpired(f, t) ==
  /\ Receives /\ Line.type = "approval-expired"
  /\ resolved' = resolved \cup {Line.id} /\ refs' = refs \ {Line.id}
  /\ jobs' \subseteq jobs \cup {New(Line, t, f, "none")}
  /\ UNCHANGED <<desk, pending, channel, told, written, screen>>
OnResponse(t, thread) ==
  /\ Receives /\ Line.type = "response"
  /\ pending' = {p \in pending : p.id # Line.id}
  /\ \/ jobs' = jobs /\ asked' = [asked EXCEPT ![Line.id] = "blank"]
     \/ jobs' \subseteq jobs \cup {New(Line, t, FALSE, thread)} /\ asked' = asked
  /\ UNCHANGED <<desk, refs, resolved, channel, told, written, cards, home, shownIn, unposted>>

(* The thread of a mention is any; that of a message on Telegram is the      *)
(* message; an answer goes where the table of pending requests says.         *)
UserStep ==
  \E r \in Requests :
    \/ Usage(r)
    \/ \E t \in Asked \ {"message"}, lost \in {"offline", "dropped"} : Command(r, t, lost)
    \/ \E thread \in Threads : Message(r, thread) /\ (which = "telegram" => thread = r)
PressStep == \E a \in Approvals, d \in Decisions : Press(a, d) /\ (which = "telegram" => Connected)
HandlerStep ==
  \/ Ignored
  \/ \E t, thread : OnMessage(t, thread) /\ thread \in IF OfRequest(Line) THEN {"none"} ELSE Threads
  \/ \E f, t : OnExpired(f, t)
  \/ \E t, thread : /\ OnResponse(t, thread)
                    /\ IF which = "telegram" THEN thread = Line.id
                       ELSE \/ \E p \in pending : p.id = Line.id /\ thread = p.thread
                            \/ thread = "none" /\ \A p \in pending : p.id # Line.id

(* A job that a handler adds is of this form. *)
LEMMA JobForms ==
  ASSUME NEW m, NEW t
  PROVE  /\ Job(m, t) = New(m, t, FALSE, "none")
         /\ \A f : [Job(m, t) EXCEPT !.ref = f] = New(m, t, f, "none")
         /\ \A h : [Job(m, t) EXCEPT !.thread = h] = New(m, t, FALSE, h)
<1>1. Job(m, t) = New(m, t, FALSE, "none")
  BY DEF Job, New
<1>2. PICK j, g, b : j = Job(m, t) /\ g = "none" /\ b = FALSE
  OBVIOUS
<1>3. j = [msg |-> m, tries |-> t, ref |-> b, thread |-> g]
  BY <1>2 DEF Job
<1>4. ASSUME NEW f PROVE [j EXCEPT !.ref = f] = New(m, t, f, g)
  BY <1>3 DEF New
<1>5. ASSUME NEW h PROVE [j EXCEPT !.thread = h] = New(m, t, b, h)
  BY <1>3 DEF New
<1> QED BY <1>1, <1>2, <1>4, <1>5

(* The users of Telegram take these steps. *)
LEMMA TelegramUsers ==
  ASSUME which = "telegram", NEW r \in Requests,
         \/ TelegramUsage(r) \/ TelegramMemories(r) \/ TelegramForgetMemory(r) \/ TelegramSessions(r) \/ TelegramStopTask(r) \/ TelegramHeartbeats(r)
         \/ TelegramToggleHeartbeat(r) \/ TelegramConnect(r) \/ TelegramAuthStatus(r) \/ TelegramDisconnect(r) \/ TelegramMessage(r)
  PROVE  UserStep
<1>1. ASSUME NEW t \in Commands, TelegramCommand(r, t)
      PROVE  Command(r, t, "offline") /\ t \in Asked \ {"message"}
  BY <1>1 DEF TelegramCommand, TelegramForward, Command, Commands, Asked, Lists, Actions, Auths
<1>2. CASE TelegramMessage(r)
  <2>1. Message(r, r) /\ r \in Threads
    BY <1>2 DEF TelegramMessage, TelegramForward, Message, Threads
  <2> QED BY <2>1 DEF UserStep
<1>3. CASE TelegramUsage(r)
  BY <1>3 DEF TelegramUsage, Usage, UserStep
<1>4. {"memory-list", "memory-delete", "session-list", "task-stop", "heartbeat-list", "heartbeat-toggle",
       "auth-connect", "auth-status", "auth-disconnect"} \subseteq Commands
  BY DEF Commands, Lists, Actions, Auths
<1>5. CASE \/ TelegramMemories(r) \/ TelegramForgetMemory(r) \/ TelegramSessions(r) \/ TelegramStopTask(r) \/ TelegramHeartbeats(r)
           \/ TelegramToggleHeartbeat(r) \/ TelegramConnect(r) \/ TelegramAuthStatus(r) \/ TelegramDisconnect(r)
  <2>1. \E t \in Commands : TelegramCommand(r, t)
    BY <1>4, <1>5 DEF TelegramMemories, TelegramForgetMemory, TelegramSessions, TelegramStopTask, TelegramHeartbeats,
                      TelegramToggleHeartbeat, TelegramConnect, TelegramAuthStatus, TelegramDisconnect
  <2> QED BY <1>1, <2>1 DEF UserStep
<1> QED BY <1>2, <1>3, <1>5

(* So do those of Slack. *)
LEMMA SlackUsers ==
  ASSUME which = "slack", ScreenType, channel \in Threads, NEW r \in Requests,
         \/ SlackUsage(r) \/ SlackMemories(r) \/ SlackForgetMemory(r) \/ SlackSessions(r) \/ SlackStopTask(r) \/ SlackHeartbeats(r)
         \/ SlackTextCommand(r) \/ SlackConnect(r) \/ SlackAuthStatus(r) \/ SlackDisconnect(r)
         \/ SlackMention(r) \/ SlackDirectMessage(r)
  PROVE  UserStep
<1>1. ASSUME NEW t \in Commands, SlackCommand(r, t)
      PROVE  Command(r, t, "offline") /\ t \in Asked \ {"message"}
  BY <1>1 DEF SlackCommand, SlackForward, Command, Commands, Asked, Lists, Actions, Auths
<1>2. CASE SlackMention(r)
  <2>1. PICK thread \in {r} \cup ({home[q] : q \in Requests} \ {"none"}) : SlackKeep(r, thread) /\ channel' = thread
    BY <1>2 DEF SlackMention
  <2>2. Message(r, thread) /\ thread \in Threads
    BY <1>2, <2>1 DEF SlackMention, SlackKeep, SlackForward, Message, Threads, ScreenType
  <2> QED BY <2>2 DEF UserStep
<1>3. CASE SlackDirectMessage(r)
  <2>1. Message(r, "none") /\ "none" \in Threads
    BY <1>3 DEF SlackDirectMessage, SlackKeep, SlackForward, Message, Threads
  <2> QED BY <2>1 DEF UserStep
<1>4. CASE SlackUsage(r)
  BY <1>4 DEF SlackUsage, Usage, UserStep
<1>5. CASE SlackTextCommand(r)
  <2>1. PICK t \in Lists \cup Actions : SlackForward(r, t, "dropped")
    BY <1>5 DEF SlackTextCommand
  <2>2. Command(r, t, "dropped") /\ t \in Asked \ {"message"}
    BY <1>5, <2>1 DEF SlackTextCommand, SlackForward, Command, Asked, Lists, Actions
  <2> QED BY <2>2 DEF UserStep
<1>6. {"memory-list", "memory-delete", "session-list", "task-stop", "heartbeat-list",
       "auth-connect", "auth-status", "auth-disconnect"} \subseteq Commands
  BY DEF Commands, Lists, Actions, Auths
<1>7. CASE \/ SlackMemories(r) \/ SlackForgetMemory(r) \/ SlackSessions(r) \/ SlackStopTask(r) \/ SlackHeartbeats(r)
           \/ SlackConnect(r) \/ SlackAuthStatus(r) \/ SlackDisconnect(r)
  <2>1. \E t \in Commands : SlackCommand(r, t)
    BY <1>6, <1>7 DEF SlackMemories, SlackForgetMemory, SlackSessions, SlackStopTask, SlackHeartbeats,
                      SlackConnect, SlackAuthStatus, SlackDisconnect
  <2> QED BY <1>1, <2>1 DEF UserStep
<1> QED BY <1>2, <1>3, <1>4, <1>5, <1>7

(* And so do the handlers of both. *)
LEMMA Handlers ==
  ASSUME channel \in Threads,
         \/ /\ which = "telegram"
            /\ TelegramIgnore \/ TelegramOnMessage \/ TelegramOnExpired \/ TelegramOnResponse
         \/ /\ which = "slack"
            /\ SlackIgnore \/ SlackOnMessage \/ SlackOnExpired \/ SlackOnResponse
  PROVE  HandlerStep
<1>1. CASE TelegramIgnore \/ SlackIgnore
  BY <1>1 DEF TelegramIgnore, SlackIgnore, Ignored, HandlerStep
<1>2. CASE TelegramOnMessage
  <2>1. OnMessage(TelegramTries(Line), "none") /\ "none" \in Threads
    BY <1>2, JobForms DEF TelegramOnMessage, OnMessage, Begin, Threads
  <2> QED BY <2>1 DEF HandlerStep
<1>3. CASE SlackOnMessage
  <2>1. PICK h \in {channel, "none"} :
          /\ h = IF Line.type \in {"approval-request", "notification", "task-progress"} THEN channel ELSE "none"
          /\ jobs' = Begin([Job(Line, SlackTries(Line)) EXCEPT !.thread = h])
    BY <1>3 DEF SlackOnMessage
  <2>2. OfRequest(Line) => h = "none"
    BY <2>1 DEF OfRequest, Lists, Actions
  <2>3. h \in Threads
    BY DEF Threads
  <2>4. jobs' \subseteq jobs \cup {New(Line, SlackTries(Line), FALSE, h)}
    BY <2>1, JobForms DEF Begin
  <2>5. OnMessage(SlackTries(Line), h)
    BY <1>3, <2>4 DEF SlackOnMessage, OnMessage
  <2> QED BY <2>2, <2>3, <2>5 DEF HandlerStep
<1>4. CASE TelegramOnExpired \/ SlackOnExpired
  <2>1. PICK t : /\ t = <<IF Line.id \in refs THEN "edit" ELSE "plain">>
                 /\ jobs' = Begin([Job(Line, t) EXCEPT !.ref = Line.id \in refs])
    BY <1>4 DEF TelegramOnExpired, SlackOnExpired
  <2>2. jobs' \subseteq jobs \cup {New(Line, t, Line.id \in refs, "none")}
    <3>1. [Job(Line, t) EXCEPT !.ref = Line.id \in refs] = New(Line, t, Line.id \in refs, "none")
      BY JobForms
    <3> QED BY <2>1, <3>1 DEF Begin, New
  <2>3. OnExpired(Line.id \in refs, t)
    BY <1>4, <2>2 DEF TelegramOnExpired, SlackOnExpired, OnExpired
  <2> QED BY <2>3 DEF HandlerStep
<1>5. CASE which = "telegram" /\ TelegramOnResponse
  <2>1. jobs' \subseteq jobs \cup {New(Line, TelegramFormattedTries(Line.full), FALSE, Line.id)}
    BY <1>5, JobForms DEF TelegramOnResponse, Begin
  <2>2. ~Line.full => jobs' = jobs
    <3>1. ~Line.full => New(Line, TelegramFormattedTries(Line.full), FALSE, Line.id).tries = <<>>
      BY DEF New, TelegramFormattedTries
    <3>2. \A g : [Job(Line, TelegramFormattedTries(Line.full)) EXCEPT !.thread = g]
                   = New(Line, TelegramFormattedTries(Line.full), FALSE, g)
      BY JobForms
    <3> QED BY <1>5, <3>1, <3>2 DEF TelegramOnResponse, Begin
  <2>3. OnResponse(TelegramFormattedTries(Line.full), Line.id)
    BY <1>5, <2>1, <2>2 DEF TelegramOnResponse, OnResponse
  <2> QED BY <1>5, <2>3 DEF HandlerStep
<1>6. CASE which = "slack" /\ SlackOnResponse
  <2> DEFINE known == {p \in pending : p.id = Line.id}
  <2>1. PICK h, t : /\ h = IF known = {} THEN "none" ELSE (CHOOSE p \in known : TRUE).thread
                    /\ t = SlackFormattedTries(Line.full)
                    /\ jobs' = Begin([Job(Line, t) EXCEPT !.thread = h])
    BY <1>6 DEF SlackOnResponse
  <2>2. jobs' \subseteq jobs \cup {New(Line, t, FALSE, h)}
    <3>1. \A g : [Job(Line, t) EXCEPT !.thread = g] = New(Line, t, FALSE, g)
      BY JobForms
    <3> QED BY <2>1, <3>1 DEF Begin
  <2>3. ~Line.full => jobs' = jobs
    <3>1. ~Line.full => New(Line, t, FALSE, h).tries = <<>>
      BY <2>1 DEF New, SlackFormattedTries
    <3>2. \A g : [Job(Line, t) EXCEPT !.thread = g] = New(Line, t, FALSE, g)
      BY JobForms
    <3> QED BY <2>1, <3>1, <3>2 DEF Begin
  <2>4. OnResponse(t, h)
    <3>1. pending' = {p \in pending : p.id # Line.id}
      BY <1>6 DEF SlackOnResponse
    <3> QED BY <1>6, <2>2, <2>3, <3>1 DEF SlackOnResponse, OnResponse
  <2>5. \/ \E p \in pending : p.id = Line.id /\ h = p.thread
        \/ h = "none" /\ \A p \in pending : p.id # Line.id
    BY <2>1
  <2> QED BY <1>6, <2>4, <2>5 DEF HandlerStep
<1> QED BY <1>1, <1>2, <1>3, <1>4, <1>5, <1>6

(* The steps of a behaviour, whichever its bridge. *)
LEMMA Steps ==
  ASSUME TypeInv, Next
  PROVE  UserStep \/ PressStep \/ HandlerStep \/ Shared
<1>1. channel \in Threads /\ ScreenType
  BY DEF TypeInv, MemoryType
<1>2. CASE which = "telegram" /\ TelegramNext
  <2>1. ASSUME NEW a \in Approvals, NEW d \in Decisions, TelegramPress(a, d) PROVE PressStep
    <3>1. Press(a, d) /\ Connected
      BY <2>1, JobForms DEF TelegramPress, Press, Begin, Job, New
    <3> QED BY <3>1 DEF PressStep
  <2> QED BY <1>1, <1>2, <2>1, TelegramUsers, Handlers DEF TelegramNext
<1>3. CASE which = "slack" /\ SlackNext
  <2>1. ASSUME NEW a \in Approvals, NEW d \in Decisions, SlackPress(a, d) PROVE PressStep
    <3>1. Press(a, d)
      BY <2>1, JobForms DEF SlackPress, Press, Begin, Job, New
    <3> QED BY <1>3, <3>1 DEF PressStep
  <2> QED BY <1>1, <1>3, <2>1, SlackUsers, Handlers DEF SlackNext
<1> QED BY <1>2, <1>3 DEF Next

(* A user's request. *)
LEMMA UserTypes ==
  ASSUME TypeInv, UserStep
  PROVE  TypeInv'
<1> USE DEF TypeInv
<1>1. ASSUME NEW r \in Requests, Usage(r) PROVE TypeInv'
  <2>1. LinkType' /\ DeskType'
    BY <1>1 DEF Usage, link, desk, LinkType, DeskType
  <2>2. MemoryType' /\ ScreenType'
    BY <1>1 DEF Usage, memory, MemoryType, ScreenType
  <2> QED BY <2>1, <2>2
<1>2. ASSUME NEW r \in Requests, NEW t \in Asked \ {"message"}, NEW lost \in {"offline", "dropped"},
             Command(r, t, lost)
      PROVE  TypeInv'
  <2>1. LinkType' /\ DeskType'
    BY <1>2, WriteKeeps DEF Command, desk, DeskType
  <2>2. MemoryType' /\ ScreenType'
    BY <1>2 DEF Command, memory, MemoryType, ScreenType
  <2> QED BY <2>1, <2>2
<1>3. ASSUME NEW r \in Requests, NEW thread \in Threads, Message(r, thread) PROVE TypeInv'
  <2>1. LinkType' /\ DeskType'
    <3>1. "message" \in Asked
      BY DEF Asked
    <3> QED BY <1>3, <3>1, WriteKeeps DEF Message, desk, DeskType
  <2>2. MemoryType'
    BY <1>3 DEF Message, MemoryType
  <2>3. ScreenType'
    BY <1>3 DEF Message, ScreenType
  <2> QED BY <2>1, <2>2, <2>3
<1> QED BY <1>1, <1>2, <1>3 DEF UserStep

(* A press. *)
LEMMA PressTypes ==
  ASSUME TypeInv, PressStep
  PROVE  TypeInv'
<1> USE DEF TypeInv
<1>1. PICK a \in Approvals, d \in Decisions : Press(a, d)
  BY DEF PressStep
<1> DEFINE m == [type |-> "approval-decision", id |-> a, decision |-> d]
<1>2. m \in DecisionLines
  BY DEF DecisionLines
<1>3. LinkType' /\ DeskType'
  BY <1>1, <1>2, LinesKeep DEF Press, GateLines, desk, DeskType
<1>4. IsJob(New(m, <<"edit">>, FALSE, "none"))
  BY <1>2 DEF IsJob, New, Threads
<1>5. MemoryType' /\ ScreenType'
  BY <1>1, <1>4 DEF Press, screen, MemoryType, ScreenType
<1> QED BY <1>3, <1>5

(* A line of the gateway. *)
LEMMA HandlerTypes ==
  ASSUME TypeInv, HandlerStep
  PROVE  TypeInv' /\ Line \in BridgeLines
<1> USE DEF TypeInv
<1>1. Receives
  BY DEF HandlerStep, Ignored, OnMessage, OnExpired, OnResponse
<1>2. LinkType' /\ Line \in BridgeLines
  BY <1>1, LinesKeep
<1>3. DeskType'
  BY DEF HandlerStep, Ignored, OnMessage, OnExpired, OnResponse, desk, DeskType
<1>4. ASSUME NEW t, NEW f, NEW h \in Threads PROVE IsJob(New(Line, t, f, h))
  BY <1>2 DEF IsJob, New
<1>5. "none" \in Threads /\ Requests \subseteq Threads
  BY DEF Threads
<1>6. CASE Ignored
  BY <1>2, <1>3, <1>6 DEF Ignored, memory, screen, MemoryType, ScreenType
<1>7. ASSUME NEW t, NEW h \in Threads, OnMessage(t, h) PROVE TypeInv'
  <2>1. \A j \in jobs' : IsJob(j)
    <3>1. IsJob(New(Line, t, FALSE, h))
      BY <1>4
    <3>2. \A j \in jobs' : j \in jobs \/ j = New(Line, t, FALSE, h)
      BY <1>7 DEF OnMessage
    <3> QED BY <3>1, <3>2 DEF MemoryType
  <2>2. MemoryType' /\ ScreenType'
    BY <1>7, <2>1 DEF OnMessage, screen, MemoryType, ScreenType
  <2> QED BY <1>2, <1>3, <2>2
<1>8. ASSUME NEW t, NEW f, OnExpired(f, t) PROVE TypeInv'
  <2>1. Line.id \in Approvals
    BY <1>2, <1>8 DEF OnExpired, BridgeLines, Told, Answers, News, Lists, Actions
  <2> QED BY <1>2, <1>3, <1>4, <1>5, <1>8, <2>1 DEF OnExpired, screen, MemoryType, ScreenType
<1>9. ASSUME NEW t, NEW h, OnResponse(t, h),
             h = Line.id \/ h = "none" \/ \E p \in pending : h = p.thread
      PROVE  TypeInv'
  <2>1. Line.id \in Requests
    BY <1>2, <1>9 DEF OnResponse, BridgeLines, Told, Answers, News, Lists, Actions
  <2>2. h \in Threads
    BY <1>5, <1>9, <2>1 DEF MemoryType
  <2>3. MemoryType'
    <3>1. IsJob(New(Line, t, FALSE, h))
      BY <1>4, <2>2
    <3>2. \A j \in jobs' : j \in jobs \/ j = New(Line, t, FALSE, h)
      BY <1>9 DEF OnResponse
    <3>3. \A j \in jobs' : IsJob(j)
      BY <3>1, <3>2 DEF MemoryType
    <3> QED BY <1>9, <3>3 DEF OnResponse, MemoryType
  <2>4. ScreenType'
    BY <1>9, <2>1 DEF OnResponse, ScreenType, Outcomes
  <2> QED BY <1>2, <1>3, <2>3, <2>4
<1>10. ASSUME NEW t, NEW h, OnMessage(t, h), h \in IF OfRequest(Line) THEN {"none"} ELSE Threads PROVE TypeInv'
  BY <1>5, <1>7, <1>10
<1> QED BY <1>2, <1>6, <1>8, <1>9, <1>10 DEF HandlerStep

(* The steps of both, and the end of the process. *)
LEMMA SharedTypes ==
  ASSUME TypeInv, Shared
  PROVE  TypeInv'
<1> USE DEF TypeInv
<1>1. CASE OfLink
  BY <1>1, LinkKeeps DEF OfLink, LinkNext, desk, memory, screen, DeskType, MemoryType, ScreenType
<1>2. CASE OfDesk
  BY <1>2, DeskKeeps DEF OfDesk, memory, screen, MemoryType, ScreenType
<1>3. CASE OfPosts
  <2>1. PICK j \in jobs : Posted(j) \/ NotPosted(j)
    BY <1>3 DEF OfPosts
  <2>2. LinkType' /\ DeskType'
    BY <2>1 DEF Posted, NotPosted, link, desk, LinkType, DeskType
  <2> QED BY <2>1, <2>2, PostKeeps
<1>4. CASE Die
  <2>1. LinkType'
    BY <1>4, EndKeeps DEF Die
  <2>2. DeskType' /\ MemoryType' /\ ScreenType'
    BY <1>4 DEF Die, Forgotten, desk, screen, DeskType, MemoryType, ScreenType, NoDecisions, Threads
  <2> QED BY <2>1, <2>2
<1> QED BY <1>1, <1>2, <1>3, <1>4 DEF Shared

(* Every step keeps the types. *)
LEMMA NextTypes == TypeInv /\ [Next]_allVars => TypeInv'
<1>1. ASSUME TypeInv, Next PROVE TypeInv'
  BY <1>1, Steps, UserTypes, PressTypes, HandlerTypes, SharedTypes
<1>2. ASSUME TypeInv, UNCHANGED allVars PROVE TypeInv'
  <2>1. UNCHANGED link /\ UNCHANGED desk /\ UNCHANGED memory /\ UNCHANGED screen
    BY <1>2 DEF allVars, vars
  <2>2. LinkType' /\ DeskType'
    BY <1>2, <2>1 DEF TypeInv, LinkType, DeskType, link, desk
  <2>3. MemoryType' /\ ScreenType'
    BY <1>2, <2>1 DEF TypeInv, MemoryType, ScreenType, memory, screen
  <2> QED BY <2>2, <2>3 DEF TypeInv
<1> QED BY <1>1, <1>2

(* At the start the tables are empty. *)
LEMMA InitTypes == Init => TypeInv
<1> SUFFICES ASSUME Init PROVE TypeInv
  OBVIOUS
<1>1. LinkType
  <2>1. FirstDelay \in FirstDelay..MaxDelay
    BY DelayAssumption
  <2> QED BY <2>1, NoLines DEF Init, BridgeInit, LinkInit, LinkType
<1>2. DeskType /\ MemoryType /\ ScreenType
  BY DEF Init, BridgeInit, DeskInit, DeskType, MemoryType, ScreenType, NoDecisions, Threads
<1> QED BY <1>1, <1>2 DEF TypeInv

(* The tables of the bridges, the connection and the screen have their types *)
(* whatever the numbers of approvals, requests, stops and notices.           *)
THEOREM TypeCorrect == Spec => []TypeOK
<1>1. TypeInv => TypeOK
  BY DEF TypeInv, LinkType, DeskType, MemoryType, ScreenType, TypeOK
<1> QED BY <1>1, InitTypes, NextTypes, PTL DEF Spec

----
(* One decision for each approval *)

(* An approval that was decided or whose expiry was told is resolved, before *)
(* the post that tells it is tried; a card that is about to show a decision  *)
(* on Telegram has it written.                                               *)
DecisionInv ==
  /\ \A a \in Approvals : written[a] # {} => a \in resolved
  /\ told \subseteq resolved
  /\ \A j \in jobs : j.msg.type = "approval-expired" => j.msg.id \in resolved
  /\ which = "telegram" =>
       \A j \in jobs : j.msg.type = "approval-decision" => j.msg.decision \in written[j.msg.id]

Settled ==
  /\ \A a \in Approvals : written[a] # {} \/ a \in told => written'[a] \in {written[a], {}}
  /\ which = "telegram" => \A a \in Approvals, d \in Decisions :
       cards'[a] = d /\ cards[a] # d => d \in written[a]

(* A press decides an approval that is not resolved. *)
LEMMA PressSettles ==
  ASSUME TypeInv, DecisionInv, PressStep, which' = which
  PROVE  DecisionInv' /\ Settled
<1>1. PICK a \in Approvals, d \in Decisions : Press(a, d) /\ (which = "telegram" => Connected)
  BY DEF PressStep
<1> DEFINE m == [type |-> "approval-decision", id |-> a, decision |-> d]
           new == New(m, <<"edit">>, FALSE, "none")
<1>2. /\ a \notin resolved /\ resolved' = resolved \cup {a}
      /\ written' = IF Connected THEN [written EXCEPT ![a] = @ \cup {d}] ELSE written
      /\ UNCHANGED told /\ UNCHANGED cards
  BY <1>1 DEF Press, screen
<1>3. \A j \in jobs' : j \in jobs \/ j = new
  BY <1>1 DEF Press
<1>4. written \in [Approvals -> SUBSET Decisions]
  BY DEF TypeInv, MemoryType
<1>5. new.msg.type = "approval-decision" /\ new.msg.decision = d /\ new.msg.id = a
  BY DEF New
<1>6. Settled
  BY <1>2, <1>4 DEF Settled, DecisionInv
<1>7. /\ \A b \in Approvals : written'[b] # {} => b \in resolved'
      /\ told' \subseteq resolved'
  BY <1>2, <1>4 DEF DecisionInv
<1>8. \A j \in jobs' : j.msg.type = "approval-expired" => j.msg.id \in resolved'
  BY <1>2, <1>3, <1>5 DEF DecisionInv
<1>9. ASSUME which = "telegram", NEW j \in jobs', j.msg.type = "approval-decision"
      PROVE  j.msg.decision \in written'[j.msg.id]
  <2>1. written' = [written EXCEPT ![a] = @ \cup {d}]
    BY <1>1, <1>2, <1>9
  <2>2. CASE j \in jobs
    <3>1. j.msg.decision \in written[j.msg.id] /\ j.msg.id \in Approvals
      BY <1>9, <2>2 DEF DecisionInv, TypeInv, MemoryType, IsJob, BridgeLines, DecisionLines, Told, Answers, News, Lists, Actions
    <3> QED BY <1>4, <2>1, <3>1
  <2>3. CASE j = new
    BY <1>4, <1>5, <2>1, <2>3
  <2> QED BY <1>3, <2>2, <2>3
<1> QED BY <1>6, <1>7, <1>8, <1>9 DEF DecisionInv

(* An expiry resolves its approval before it is told. *)
LEMMA HandlerSettles ==
  ASSUME TypeInv, DecisionInv, HandlerStep, which' = which
  PROVE  DecisionInv' /\ Settled
<1>1. Line \in BridgeLines
  BY HandlerTypes
<1>2. Line.type # "approval-decision"
  BY <1>1 DEF BridgeLines, Told, Answers, News, Lists, Actions
<1>3. UNCHANGED <<told, written, cards>>
  BY DEF HandlerStep, Ignored, OnMessage, OnExpired, OnResponse, memory, screen
<1>4. /\ resolved \subseteq resolved'
      /\ \A j \in jobs' : j \in jobs \/ /\ j.msg = Line
                                        /\ Line.type = "approval-expired" => Line.id \in resolved'
  <2>1. CASE Ignored
    BY <2>1 DEF Ignored, memory
  <2>2. ASSUME NEW t, NEW h, OnMessage(t, h)
        PROVE  /\ resolved' = resolved /\ Line.type # "approval-expired"
               /\ \A j \in jobs' : j \in jobs \/ j.msg = Line
    BY <2>2 DEF OnMessage, New
  <2>3. ASSUME NEW t, NEW f, OnExpired(f, t)
        PROVE  /\ resolved' = resolved \cup {Line.id}
               /\ \A j \in jobs' : j \in jobs \/ j.msg = Line
    BY <2>3 DEF OnExpired, New
  <2>4. ASSUME NEW t, NEW h, OnResponse(t, h)
        PROVE  /\ resolved' = resolved /\ Line.type # "approval-expired"
               /\ \A j \in jobs' : j \in jobs \/ j.msg = Line
    BY <2>4 DEF OnResponse, New
  <2> QED BY <2>1, <2>2, <2>3, <2>4 DEF HandlerStep
<1> QED BY <1>2, <1>3, <1>4 DEF DecisionInv, Settled

(* A post that tells a decision or an expiry was made after it. *)
LEMMA PostSettles ==
  ASSUME TypeInv, DecisionInv, NEW j \in jobs, Posted(j) \/ NotPosted(j), which' = which
  PROVE  DecisionInv' /\ Settled
<1>0. /\ j.msg.type \in Told \cup {"approval-decision"} => j.msg.id \in Approvals
      /\ j.msg.type = "approval-decision" => j.msg.decision \in Decisions
  BY DEF TypeInv, MemoryType, IsJob, BridgeLines, DecisionLines, Told, Answers, News, Lists, Actions
<1>1. UNCHANGED <<resolved, written>>
  BY DEF Posted, NotPosted
<1>2. \A k \in jobs' : k \in jobs \/ k.msg = j.msg
  <2>1. CASE Posted(j)
    BY <2>1 DEF Posted
  <2>2. CASE NotPosted(j)
    <3>1. PICK t : jobs' \subseteq jobs \cup {[j EXCEPT !.tries = t]}
      BY <2>2 DEF NotPosted
    <3>2. PICK m, u, f, h : j = [msg |-> m, tries |-> u, ref |-> f, thread |-> h]
      BY DEF TypeInv, MemoryType, IsJob
    <3>3. [j EXCEPT !.tries = t] = [msg |-> m, tries |-> t, ref |-> f, thread |-> h]
      BY <3>2
    <3> QED BY <3>1, <3>2, <3>3
  <2> QED BY <2>1, <2>2
<1>3. \A a \in told' : a \in told \/ (j.msg.type = "approval-expired" /\ a = j.msg.id)
  BY DEF Posted, NotPosted
<1>4. DecisionInv'
  BY <1>1, <1>2, <1>3 DEF DecisionInv
<1>5. ASSUME which = "telegram", NEW a \in Approvals, NEW d \in Decisions, cards'[a] = d, cards[a] # d
      PROVE  d \in written[a]
  <2>1. Posted(j) /\ cards \in [Approvals -> {"none", "live", "expired"} \cup Decisions]
    BY <1>5 DEF NotPosted, TypeInv, ScreenType
  <2>2. "live" \notin Decisions /\ "expired" \notin Decisions
    BY DEF Decisions
  <2>3. j.msg.type = "approval-decision" /\ j.msg.id = a /\ j.msg.decision = d
    BY <1>0, <1>5, <2>1, <2>2 DEF Posted, Told
  <2> QED BY <1>5, <2>3 DEF DecisionInv
<1> QED BY <1>1, <1>4, <1>5 DEF Settled

(* Every step settles what it settles for good. *)
LEMMA StepSettles ==
  ASSUME TypeInv, DecisionInv, [Next]_allVars
  PROVE  DecisionInv' /\ Settled
<1>1. which' = which
  BY DEF Next, allVars, scope
<1>2. ASSUME UNCHANGED <<jobs, told, resolved, written, cards>> PROVE DecisionInv' /\ Settled
  BY <1>1, <1>2 DEF DecisionInv, Settled
<1>3. CASE UserStep
  BY <1>2, <1>3 DEF UserStep, Usage, Command, Message, memory
<1>4. CASE OfLink \/ OfDesk
  BY <1>2, <1>4 DEF OfLink, OfDesk, memory, screen
<1>5. CASE OfPosts
  BY <1>1, <1>5, PostSettles DEF OfPosts
<1>6. CASE Die
  <2>1. /\ jobs' = {} /\ told' = {} /\ \A a \in Approvals : written'[a] = {}
        /\ UNCHANGED cards
    BY <1>6 DEF Die, Forgotten, NoDecisions, screen
  <2> QED BY <2>1 DEF DecisionInv, Settled
<1>7. CASE UNCHANGED allVars
  BY <1>2, <1>7 DEF allVars, vars, memory, screen
<1> QED BY <1>1, <1>3, <1>4, <1>5, <1>6, <1>7, Steps, PressSettles, HandlerSettles DEF Shared

(* A bridge process writes one decision for an approval at most and none     *)
(* after it told that the approval expired, and on Telegram no card shows a  *)
(* decision that was not written (callback_query, handleApprovalExpired).    *)
THEOREM DecisionsAreKept == Spec => DecisionsKept
<1>1. Init => TypeInv /\ DecisionInv
  BY InitTypes DEF Init, BridgeInit, NoDecisions, DecisionInv
<1>2. TypeInv /\ DecisionInv /\ [Next]_allVars => TypeInv' /\ DecisionInv'
  BY NextTypes, StepSettles
<1>3. ASSUME TypeInv, DecisionInv, [Next]_allVars
      PROVE  /\ [\A a \in Approvals : written[a] # {} \/ a \in told => written'[a] \in {written[a], {}}]_vars
             /\ [which = "telegram" => \A a \in Approvals, d \in Decisions :
                   cards'[a] = d /\ cards[a] # d => d \in written[a]]_allVars
  BY <1>3, StepSettles DEF Settled
<1> QED BY <1>1, <1>2, <1>3, PTL DEF Spec, DecisionsKept, DecidedOnce, TelegramShowsSent

----
(* The steps of the gateway, by what they change *)

(* What a step of the gateway does to the lines and the turns. *)
Tells ==
  /\ UNCHANGED <<serving, downs, exits, peer>>
  /\ \/ toGateway' = toGateway
     \/ toGateway # <<>> /\ toGateway' = Tail(toGateway)
  /\ \/ toBridge' = toBridge
     \/ \E m \in BridgeLines :
          /\ toBridge' = Append(toBridge, m) /\ m.type # "response"
          /\ OfRequest(m) => /\ toGateway # <<>> /\ toGateway' = Tail(toGateway)
                             /\ m.type \in Lists \cup Actions
                             /\ m.type = Head(toGateway).type /\ m.id = Head(toGateway).id
Serves ==
  LET m == Head(toGateway) IN
  /\ UNCHANGED <<toBridge, downs, exits, peer>>
  /\ toGateway # <<>> /\ toGateway' = Tail(toGateway) /\ m.type \in Auths \cup {"message"}
  /\ serving' = serving \cup {[id |-> m.id, type |-> m.type, client |-> client]}
Replies ==
  \E s \in serving, m \in BridgeLines :
    /\ UNCHANGED <<toGateway, downs, exits, peer>>
    /\ serving' = serving \ {s} /\ toBridge' \in {toBridge, Append(toBridge, m)}
    /\ m.id = s.id /\ m.type = IF s.type = "message" THEN "response" ELSE "auth-response"
Halts == downs' = downs + 1 /\ UNCHANGED exits /\ toGateway' \in {toGateway, <<>>}
          /\ UNCHANGED toBridge /\ serving' = {}

(* The steps of the gateway are these. *)
LEMMA DeskForms ==
  ASSUME LinkType, DeskType, DeskNext
  PROVE  Tells \/ Serves \/ Replies \/ Halts
<1>1. ASSUME NEW a \in Approvals, Ask(a) PROVE Tells
  <2>1. Card(a) \in BridgeLines /\ ~OfRequest(Card(a)) /\ Card(a).type # "response"
    BY DEF Card, BridgeLines, Told, DeskType, OfRequest, Lists, Actions
  <2>2. toBridge' \in {toBridge, Append(toBridge, Card(a))}
    BY <1>1 DEF Ask, Emits, Broadcast
  <2> QED BY <1>1, <2>1, <2>2 DEF Ask, Emits, Tells
<1>2. ASSUME NEW a \in Approvals, Expire(a) PROVE Tells
  <2>1. Expiry(a) \in BridgeLines /\ ~OfRequest(Expiry(a)) /\ Expiry(a).type # "response"
    BY DEF Expiry, BridgeLines, Told, DeskType, OfRequest, Lists, Actions
  <2>2. toBridge' \in {toBridge, Append(toBridge, Expiry(a))}
    BY <1>2 DEF Expire, Emits, Broadcast
  <2> QED BY <1>2, <2>1, <2>2 DEF Expire, Emits, Tells
<1>3. ASSUME NEW a \in Approvals, NEW d \in Decisions, DecideOnDashboard(a, d) PROVE Tells
  BY <1>3 DEF DecideOnDashboard, link, Tells
<1>4. CASE TakeDecision
  BY <1>4 DEF TakeDecision, Reads, Takes, Tells
<1>5. ASSUME NEW full \in BOOLEAN, TakeCommand(full) PROVE Tells
  <2> DEFINE m == Head(toGateway)
             answer == Answer(m.id, m.type, full)
  <2>1. toGateway \in Seq(GateLines) /\ toGateway # <<>>
    BY <1>5 DEF TakeCommand, Reads, LinkType
  <2>2. m \in GateLines
    BY <2>1
  <2>3. m.type \in Lists \cup Actions /\ m.id \in Requests
    BY <1>5, <2>2 DEF TakeCommand, GateLines, DecisionLines, Lists, Actions
  <2>4. /\ answer \in BridgeLines /\ answer.type \in Lists \cup Actions /\ answer.type # "response"
        /\ answer.type = m.type /\ answer.id = m.id
    BY <2>3 DEF Answer, BridgeLines, Answers, Chats, Lists, Actions
  <2>5. toBridge' \in {toBridge, Append(toBridge, answer)}
    BY <1>5 DEF TakeCommand, Takes, Broadcast
  <2> QED BY <1>5, <2>1, <2>4, <2>5 DEF TakeCommand, Takes, desk, Tells
<1>6. CASE TakeTurn
  BY <1>6 DEF TakeTurn, Reads, Takes, Serves
<1>7. ASSUME NEW s \in serving, NEW full \in BOOLEAN, Reply(s, full) PROVE Replies
  <2> DEFINE m == IF s.type = "message" THEN Answer(s.id, "response", full) ELSE Answer(s.id, "auth-response", TRUE)
  <2>1. s.id \in Requests
    BY DEF DeskType
  <2>2. m \in BridgeLines /\ m.id = s.id /\ m.type = IF s.type = "message" THEN "response" ELSE "auth-response"
    BY <2>1 DEF Answer, BridgeLines, Answers, Chats
  <2>3. toBridge' \in {toBridge, Append(toBridge, m)}
    BY <1>7 DEF Reply, Emits, Sent, Broadcast
  <2> QED BY <1>7, <2>2, <2>3 DEF Reply, Emits, Replies
<1>8. ASSUME NEW t \in News, NEW c \in Chats, Notify(t, c) PROVE Tells
  <2> DEFINE m == [type |-> t, id |-> notices', chat |-> c]
  <2>1. notices' \in Nat
    BY <1>8 DEF Notify, DeskType
  <2>2. m \in BridgeLines /\ ~OfRequest(m) /\ m.type # "response"
    BY <2>1 DEF BridgeLines, News, OfRequest, Lists, Actions
  <2>3. toBridge' \in {toBridge, Append(toBridge, m)}
    BY <1>8 DEF Notify, Emits, Broadcast
  <2> QED BY <1>8, <2>2, <2>3 DEF Notify, Emits, Tells
<1>9. CASE Stop
  BY <1>9 DEF Stop, GatewayDown, Halts
<1> QED BY <1>1, <1>2, <1>3, <1>4, <1>5, <1>6, <1>7, <1>8, <1>9 DEF DeskNext, News

----
(* One copy of each request *)

(* A line about r of one of the types T is on its way, at i *)
At(q, T, r, i) == i \in 1..Len(q) /\ q[i].type \in T /\ q[i].id = r
Some(q, T, r) == \E i : At(q, T, r, i)
Once(q, T, r) == \A i, k : At(q, T, r, i) /\ At(q, T, r, k) => i = k

(* Where a request can be: on its way to the gateway, in a turn, on its way  *)
(* back as its answer, or in a handler that posts the answer.                *)
Turn(s, r) == s \in serving /\ s.id = r
Posting(j, r) == j \in jobs /\ OfRequest(j.msg) /\ j.msg.id = r
Going(r) == Some(toGateway, Asked, r)
Turned(r) == \E s : Turn(s, r)
Coming(r) == Some(toBridge, Answers, r)
Ending(r) == \E j : Posting(j, r)

(* It is in one of these places at most and there once, and only while it    *)
(* has no outcome.                                                           *)
Single(r) ==
  /\ Once(toGateway, Asked, r) /\ Once(toBridge, Answers, r)
  /\ \A s, u : Turn(s, r) /\ Turn(u, r) => s = u
  /\ \A j, k : Posting(j, r) /\ Posting(k, r) => j = k
Apart(r) ==
  /\ Going(r) => ~Turned(r) /\ ~Coming(r) /\ ~Ending(r)
  /\ Turned(r) => ~Coming(r) /\ ~Ending(r)
  /\ Coming(r) => ~Ending(r)
Somewhere(r) == Going(r) \/ Turned(r) \/ Coming(r) \/ Ending(r)
Sole(r) == Single(r) /\ Apart(r) /\ (Somewhere(r) => asked[r] = "sent")
SoleInv == \A r \in Requests : Sole(r)

(* Lines that are read. *)
LEMMA AtTail ==
  ASSUME NEW S, NEW q \in Seq(S), q # <<>>, NEW T, NEW r
  PROVE  /\ Some(Tail(q), T, r) => Some(q, T, r)
         /\ Once(q, T, r) => Once(Tail(q), T, r)
         /\ Head(q).type \in T /\ Head(q).id = r /\ Once(q, T, r) => ~Some(Tail(q), T, r)
         /\ Head(q).type \in T /\ Head(q).id = r => Some(q, T, r)
<1>1. Len(Tail(q)) = Len(q) - 1 /\ Len(q) \in Nat \ {0} /\ Head(q) = q[1]
  OBVIOUS
<1>2. \A i \in 1..Len(Tail(q)) : Tail(q)[i] = q[i + 1]
  OBVIOUS
<1>3. ASSUME NEW i, At(Tail(q), T, r, i) PROVE At(q, T, r, i + 1) /\ i \in Nat \ {0}
  BY <1>1, <1>2, <1>3 DEF At
<1>4. Some(Tail(q), T, r) => Some(q, T, r)
  BY <1>3 DEF Some
<1>5. ASSUME Once(q, T, r) PROVE Once(Tail(q), T, r)
  BY <1>3, <1>5 DEF Once
<1>6. Head(q).type \in T /\ Head(q).id = r => At(q, T, r, 1)
  BY <1>1 DEF At
<1>7. Head(q).type \in T /\ Head(q).id = r /\ Once(q, T, r) => ~Some(Tail(q), T, r)
  BY <1>3, <1>6 DEF Some, Once
<1> QED BY <1>4, <1>5, <1>6, <1>7 DEF Some

(* Lines that are written. *)
LEMMA AtAppend ==
  ASSUME NEW S, NEW q \in Seq(S), NEW m \in S, NEW T, NEW r
  PROVE  /\ Some(Append(q, m), T, r) => Some(q, T, r) \/ (m.type \in T /\ m.id = r)
         /\ Once(q, T, r) /\ ~(m.type \in T /\ m.id = r) => Once(Append(q, m), T, r)
         /\ ~Some(q, T, r) => Once(Append(q, m), T, r)
<1>1. ASSUME NEW i, At(Append(q, m), T, r, i)
      PROVE  At(q, T, r, i) \/ (i = Len(q) + 1 /\ m.type \in T /\ m.id = r)
  BY <1>1 DEF At
<1> QED BY <1>1 DEF Some, Once

(* No lines are nowhere. *)
LEMMA AtNone == ASSUME NEW T, NEW r PROVE ~Some(<<>>, T, r) /\ Once(<<>>, T, r)
BY DEF Some, Once, At

(* Lines that are not about r come and go. *)
LEMMA AtOther ==
  ASSUME NEW S, NEW q \in Seq(S), NEW b, NEW T, NEW r,
         \/ b \in {q, <<>>}
         \/ q # <<>> /\ b = Tail(q)
         \/ \E m \in S : b = Append(q, m) /\ ~(m.type \in T /\ m.id = r)
  PROVE  (Some(b, T, r) => Some(q, T, r)) /\ (Once(q, T, r) => Once(b, T, r))
<1>1. CASE b = q
  BY <1>1
<1>2. CASE b = <<>>
  BY <1>2, AtNone
<1>3. CASE q # <<>> /\ b = Tail(q)
  BY <1>3, AtTail
<1>4. ASSUME NEW m \in S, b = Append(q, m), ~(m.type \in T /\ m.id = r)
      PROVE  (Some(b, T, r) => Some(q, T, r)) /\ (Once(q, T, r) => Once(b, T, r))
  BY <1>4, AtAppend
<1> QED BY <1>1, <1>2, <1>3, <1>4

(* What lines may do to a request they are not about. *)
UpOther(r) ==
  \/ toGateway' \in {toGateway, <<>>}
  \/ toGateway # <<>> /\ toGateway' = Tail(toGateway)
  \/ \E m \in GateLines : toGateway' = Append(toGateway, m) /\ ~(m.type \in Asked /\ m.id = r)
DownOther(r) ==
  \/ toBridge' \in {toBridge, <<>>}
  \/ toBridge # <<>> /\ toBridge' = Tail(toBridge)
  \/ \E m \in BridgeLines : toBridge' = Append(toBridge, m) /\ ~(m.type \in Answers /\ m.id = r)

LEMMA LinesOther ==
  ASSUME TypeInv, NEW r, Single(r)
  PROVE  /\ UpOther(r) => (Going(r)' => Going(r)) /\ Once(toGateway', Asked, r)
         /\ DownOther(r) => (Coming(r)' => Coming(r)) /\ Once(toBridge', Answers, r)
<1>1. toGateway \in Seq(GateLines) /\ toBridge \in Seq(BridgeLines)
  BY DEF TypeInv, LinkType
<1>2. ASSUME UpOther(r) PROVE (Going(r)' => Going(r)) /\ Once(toGateway', Asked, r)
  BY <1>1, <1>2, AtOther DEF UpOther, Single, Going
<1>3. ASSUME DownOther(r) PROVE (Coming(r)' => Coming(r)) /\ Once(toBridge', Answers, r)
  BY <1>1, <1>3, AtOther DEF DownOther, Single, Coming
<1> QED BY <1>2, <1>3

(* A step that is not about a request leaves it where it is or loses it. *)
LEMMA SoleStays ==
  ASSUME TypeInv, NEW r, Sole(r), UpOther(r), DownOther(r),
         \A s : Turn(s, r)' => Turn(s, r), \A j : Posting(j, r)' => Posting(j, r),
         asked'[r] = asked[r] \/ ~Somewhere(r)
  PROVE  Sole(r)'
<1>1. /\ Going(r)' => Going(r)
      /\ Coming(r)' => Coming(r)
      /\ Once(toGateway', Asked, r) /\ Once(toBridge', Answers, r)
  BY LinesOther DEF Sole
<1>2. (Turned(r)' => Turned(r)) /\ (Ending(r)' => Ending(r))
  BY DEF Turned, Ending
<1>3. Single(r)'
  BY <1>1 DEF Sole, Single
<1>4. Apart(r)' /\ (Somewhere(r)' => Somewhere(r))
  BY <1>1, <1>2 DEF Sole, Apart, Somewhere
<1> QED BY <1>3, <1>4 DEF Sole

(* A request starts in one place. *)
LEMMA UserSole ==
  ASSUME TypeInv, SoleInv, UserStep
  PROVE  SoleInv'
<1>1. PICK r \in Requests :
        \/ Usage(r)
        \/ \E t \in Asked \ {"message"}, lost \in {"offline", "dropped"} : Command(r, t, lost)
        \/ \E h \in Threads : Message(r, h)
  BY DEF UserStep
<1>2. asked[r] = "new" /\ UNCHANGED <<toBridge, serving, jobs>>
  BY <1>1 DEF Usage, Command, Message, Writes, link, desk, memory
<1>3. \A q \in Requests : q # r => asked'[q] = asked[q]
  BY <1>1 DEF Usage, Command, Message, TypeInv, ScreenType
<1>4. \/ toGateway' = toGateway
      \/ \E m \in GateLines : toGateway' = Append(toGateway, m) /\ m.id = r /\ asked'[r] = "sent"
  <2>1. CASE Usage(r)
    BY <2>1 DEF Usage, link
  <2>2. ASSUME NEW t \in Asked, NEW lost, Writes([type |-> t, id |-> r]),
               asked' = [asked EXCEPT ![r] = IF Connected THEN "sent" ELSE lost]
        PROVE  \/ toGateway' = toGateway
               \/ \E m \in GateLines : toGateway' = Append(toGateway, m) /\ m.id = r /\ asked'[r] = "sent"
    <3>1. [type |-> t, id |-> r] \in GateLines
      BY DEF GateLines
    <3>2. Connected => asked'[r] = "sent"
      BY <2>2 DEF TypeInv, ScreenType
    <3> QED BY <2>2, <3>1, <3>2 DEF Writes, Written
  <2>3. "message" \in Asked
    BY DEF Asked
  <2> QED BY <1>1, <2>1, <2>2, <2>3 DEF Command, Message
<1>5. ASSUME NEW q \in Requests PROVE Sole(q)'
  <2>1. Sole(q) /\ DownOther(q) /\ (\A s : Turn(s, q)' => Turn(s, q)) /\ (\A j : Posting(j, q)' => Posting(j, q))
    BY <1>2 DEF SoleInv, DownOther, Turn, Posting
  <2>2. CASE toGateway' = toGateway
    <3>1. asked'[q] = asked[q] \/ ~Somewhere(q)
      BY <1>2, <1>3, <2>1 DEF Sole
    <3> QED BY <2>1, <2>2, <3>1, SoleStays DEF UpOther
  <2>3. ASSUME NEW m \in GateLines, toGateway' = Append(toGateway, m), m.id = r, asked'[r] = "sent" PROVE Sole(q)'
    <3>1. CASE q # r
      BY <1>3, <2>1, <2>3, <3>1, SoleStays DEF UpOther
    <3>2. CASE q = r
      <4>1. ~Going(r) /\ ~Turned(r) /\ ~Coming(r) /\ ~Ending(r)
        BY <1>2, <2>1, <3>2 DEF Sole, Somewhere
      <4>2. toGateway \in Seq(GateLines)
        BY DEF TypeInv, LinkType
      <4>3. Once(toGateway', Asked, r)
        BY <2>3, <4>1, <4>2, AtAppend DEF Going
      <4>4. ~Turned(r)' /\ ~Coming(r)' /\ ~Ending(r)'
        BY <1>2, <4>1 DEF Turned, Coming, Ending, Turn, Posting
      <4>5. Single(r)'
        BY <1>2, <2>1, <3>2, <4>3 DEF Sole, Single, Turn, Posting
      <4> QED BY <2>3, <3>2, <4>4, <4>5 DEF Sole, Apart, Somewhere
    <3> QED BY <3>1, <3>2
  <2> QED BY <1>4, <2>2, <2>3
<1> QED BY <1>5 DEF SoleInv

(* A press is about no request. *)
LEMMA PressSole ==
  ASSUME TypeInv, SoleInv, PressStep
  PROVE  SoleInv'
<1>1. PICK a \in Approvals, d \in Decisions : Press(a, d)
  BY DEF PressStep
<1> DEFINE m == [type |-> "approval-decision", id |-> a, decision |-> d]
           new == New(m, <<"edit">>, FALSE, "none")
<1>2. m \in GateLines /\ m.type \notin Asked
  BY DEF GateLines, DecisionLines, Asked, Lists, Actions, Auths
<1>3. ~OfRequest(new.msg)
  BY DEF New, OfRequest, Lists, Actions
<1>4. /\ UNCHANGED <<toBridge, serving, asked>> /\ jobs' = jobs \cup {new}
      /\ toGateway' \in {toGateway, Append(toGateway, m)}
  BY <1>1 DEF Press, Writes, Written, desk, screen
<1> HIDE DEF new
<1>5. ASSUME NEW r \in Requests PROVE Sole(r)'
  <2>1. UpOther(r) /\ DownOther(r)
    BY <1>2, <1>4 DEF UpOther, DownOther
  <2>2. (\A s : Turn(s, r)' => Turn(s, r)) /\ (\A j : Posting(j, r)' => Posting(j, r))
    BY <1>3, <1>4 DEF Turn, Posting
  <2> QED BY <1>4, <2>1, <2>2, SoleStays DEF SoleInv
<1> QED BY <1>5 DEF SoleInv

(* A line that is handled becomes a post or an outcome. *)
LEMMA HandlerSole ==
  ASSUME TypeInv, SoleInv, HandlerStep
  PROVE  SoleInv'
<1>1. Line \in BridgeLines /\ Receives
  BY HandlerTypes DEF HandlerStep, Ignored, OnMessage, OnExpired, OnResponse
<1>2. toBridge # <<>> /\ toBridge' = Tail(toBridge) /\ UNCHANGED <<toGateway, serving>>
  BY <1>1 DEF HandlerStep, Ignored, OnMessage, OnExpired, OnResponse, Receives, desk
<1>3. OfRequest(Line) => Line.type \in Answers /\ Line.id \in Requests
  BY <1>1 DEF OfRequest, BridgeLines, Told, Answers, News, Lists, Actions
<1>4. \/ UNCHANGED <<jobs, asked>>
      \/ UNCHANGED asked /\ \E new : new.msg = Line /\ jobs' \subseteq jobs \cup {new}
      \/ OfRequest(Line) /\ UNCHANGED jobs /\ asked' = [asked EXCEPT ![Line.id] = "blank"]
  <2>1. \A t, f, h : New(Line, t, f, h).msg = Line
    BY DEF New
  <2>2. ASSUME NEW t, NEW h, OnMessage(t, h)
        PROVE  UNCHANGED asked /\ \E new : new.msg = Line /\ jobs' \subseteq jobs \cup {new}
    BY <2>1, <2>2 DEF OnMessage, screen
  <2>3. ASSUME NEW f, NEW t, OnExpired(f, t)
        PROVE  UNCHANGED asked /\ \E new : new.msg = Line /\ jobs' \subseteq jobs \cup {new}
    BY <2>1, <2>3 DEF OnExpired, screen
  <2>4. ASSUME NEW t, NEW h, OnResponse(t, h)
        PROVE  \/ UNCHANGED asked /\ \E new : new.msg = Line /\ jobs' \subseteq jobs \cup {new}
               \/ OfRequest(Line) /\ UNCHANGED jobs /\ asked' = [asked EXCEPT ![Line.id] = "blank"]
    BY <2>1, <2>4 DEF OnResponse, OfRequest
  <2> QED BY <2>2, <2>3, <2>4 DEF HandlerStep, Ignored, memory, screen
<1>5. ASSUME NEW r \in Requests PROVE Sole(r)'
  <2>1. Sole(r) /\ UpOther(r) /\ DownOther(r) /\ \A s : Turn(s, r)' => Turn(s, r)
    BY <1>2 DEF SoleInv, UpOther, DownOther, Turn
  <2>2. CASE ~(OfRequest(Line) /\ Line.id = r)
    <3>1. asked'[r] = asked[r]
      BY <1>3, <1>4, <2>2 DEF TypeInv, ScreenType
    <3>2. \A j : Posting(j, r)' => Posting(j, r)
      BY <1>4, <2>2 DEF Posting
    <3> QED BY <2>1, <3>1, <3>2, SoleStays
  <2>3. CASE OfRequest(Line) /\ Line.id = r
    <3>1. toBridge \in Seq(BridgeLines) /\ Line = Head(toBridge)
      BY DEF TypeInv, LinkType, Line
    <3>2. Coming(r) /\ ~Coming(r)' /\ Once(toBridge', Answers, r)
      BY <1>2, <1>3, <2>1, <2>3, <3>1, AtTail DEF Sole, Single, Coming
    <3>3. ~Going(r) /\ ~Turned(r) /\ ~Ending(r) /\ asked[r] = "sent"
      BY <2>1, <3>2 DEF Sole, Apart, Somewhere
    <3>4. ~Going(r)' /\ ~Turned(r)'
      BY <1>2, <3>3 DEF Going, Turned, Turn
    <3>5. \A j, k : Posting(j, r)' /\ Posting(k, r)' => j = k
      BY <1>4, <3>3 DEF Ending, Posting
    <3>6. Ending(r)' => asked'[r] = "sent"
      BY <1>4, <3>3 DEF Ending, Posting
    <3>7. Single(r)'
      BY <1>2, <2>1, <3>2, <3>5 DEF Sole, Single, Turn
    <3> QED BY <3>2, <3>4, <3>6, <3>7 DEF Sole, Apart, Somewhere
  <2> QED BY <2>2, <2>3
<1> QED BY <1>5 DEF SoleInv

(* The gateway moves a request from a line to a turn, and on to a line. *)
LEMMA DeskSole ==
  ASSUME TypeInv, SoleInv, OfDesk
  PROVE  SoleInv'
<1>1. UNCHANGED <<jobs, asked>> /\ \A r, j : Posting(j, r)' => Posting(j, r)
  BY DEF OfDesk, memory, screen, Posting
<1>2. toGateway \in Seq(GateLines) /\ toBridge \in Seq(BridgeLines)
  BY DEF TypeInv, LinkType
<1>3. CASE Tells
  <2>1. ASSUME NEW r \in Requests PROVE Sole(r)'
    <3>1. Sole(r) /\ UpOther(r) /\ \A s : Turn(s, r)' => Turn(s, r)
      BY <1>3 DEF SoleInv, Tells, UpOther, Turn
    <3>2. CASE DownOther(r)
      BY <1>1, <3>1, <3>2, SoleStays
    <3>3. CASE ~DownOther(r)
      <4>1. PICK m \in BridgeLines :
              /\ toBridge' = Append(toBridge, m) /\ m.type \in Answers /\ m.id = r
              /\ OfRequest(m) => /\ toGateway # <<>> /\ toGateway' = Tail(toGateway)
                                 /\ m.type \in Lists \cup Actions
                                 /\ m.type = Head(toGateway).type /\ m.id = Head(toGateway).id
        BY <1>3, <3>3 DEF Tells, DownOther
      <4>2. OfRequest(m)
        BY <4>1 DEF OfRequest, Answers
      <4>3. Going(r) /\ ~Going(r)' /\ Once(toGateway', Asked, r)
        <5>1. Head(toGateway).type \in Asked /\ Head(toGateway).id = r
          BY <4>1, <4>2 DEF Asked
        <5>2. toGateway # <<>> /\ toGateway' = Tail(toGateway) /\ Once(toGateway, Asked, r)
          BY <3>1, <4>1, <4>2 DEF Sole, Single
        <5>3. Some(toGateway, Asked, r) /\ ~Some(toGateway', Asked, r) /\ Once(toGateway', Asked, r)
          BY <1>2, <5>1, <5>2, AtTail
        <5> QED BY <5>3 DEF Going
      <4>4. ~Turned(r) /\ ~Coming(r) /\ ~Ending(r) /\ asked[r] = "sent"
        BY <3>1, <4>3 DEF Sole, Apart, Somewhere
      <4>5. Once(toBridge', Answers, r)
        BY <1>2, <4>1, <4>4, AtAppend DEF Coming
      <4>6. ~Turned(r)' /\ ~Ending(r)'
        BY <1>1, <3>1, <4>4 DEF Turned, Ending
      <4>7. Single(r)'
        BY <1>1, <3>1, <4>3, <4>5 DEF Sole, Single
      <4> QED BY <1>1, <4>3, <4>4, <4>6, <4>7 DEF Sole, Apart
    <3> QED BY <3>2, <3>3
  <2> QED BY <2>1 DEF SoleInv
<1>4. CASE Serves
  <2> DEFINE m == Head(toGateway)
             new == [id |-> m.id, type |-> m.type, client |-> client]
  <2>1. /\ UNCHANGED toBridge /\ toGateway # <<>> /\ toGateway' = Tail(toGateway)
        /\ serving' = serving \cup {new} /\ new.id = m.id /\ m.type \in Asked
    BY <1>4 DEF Serves, Asked
  <2> HIDE DEF new
  <2>2. ASSUME NEW r \in Requests PROVE Sole(r)'
    <3>1. Sole(r) /\ UpOther(r) /\ DownOther(r)
      BY <2>1 DEF SoleInv, UpOther, DownOther
    <3>2. CASE m.id # r
      <4>1. \A s : Turn(s, r)' => Turn(s, r)
        BY <2>1, <3>2 DEF Turn
      <4> QED BY <1>1, <3>1, <4>1, SoleStays
    <3>3. CASE m.id = r
      <4>1. Going(r) /\ ~Going(r)' /\ Once(toGateway', Asked, r)
        BY <1>2, <2>1, <3>1, <3>3, AtTail DEF Sole, Single, Going
      <4>2. ~Turned(r) /\ ~Coming(r) /\ ~Ending(r) /\ asked[r] = "sent"
        BY <3>1, <4>1 DEF Sole, Apart, Somewhere
      <4>3. \A s, u : Turn(s, r)' /\ Turn(u, r)' => s = u
        BY <2>1, <4>2 DEF Turned, Turn
      <4>4. ~Coming(r)' /\ ~Ending(r)'
        BY <1>1, <2>1, <4>2 DEF Coming, Ending
      <4>5. Single(r)'
        BY <1>1, <2>1, <3>1, <4>1, <4>3 DEF Sole, Single
      <4> QED BY <1>1, <4>1, <4>2, <4>4, <4>5 DEF Sole, Apart
    <3> QED BY <3>2, <3>3
  <2> QED BY <2>2 DEF SoleInv
<1>5. CASE Replies
  <2>1. PICK s \in serving, m \in BridgeLines :
          /\ UNCHANGED toGateway
          /\ serving' = serving \ {s} /\ toBridge' \in {toBridge, Append(toBridge, m)}
          /\ m.id = s.id /\ m.type = IF s.type = "message" THEN "response" ELSE "auth-response"
    BY <1>5 DEF Replies
  <2>2. ASSUME NEW r \in Requests PROVE Sole(r)'
    <3>1. Sole(r) /\ UpOther(r) /\ \A u : Turn(u, r)' => Turn(u, r)
      BY <2>1 DEF SoleInv, UpOther, Turn
    <3>2. CASE DownOther(r)
      BY <1>1, <3>1, <3>2, SoleStays
    <3>3. CASE ~DownOther(r)
      <4>1. toBridge' = Append(toBridge, m) /\ Turn(s, r)
        BY <2>1, <3>3 DEF DownOther, Turn
      <4>2. ~Going(r) /\ ~Coming(r) /\ ~Ending(r) /\ asked[r] = "sent"
        BY <3>1, <4>1 DEF Sole, Apart, Somewhere, Turned
      <4>3. ~Turned(r)'
        BY <2>1, <3>1, <4>1 DEF Sole, Single, Turned, Turn
      <4>4. Once(toBridge', Answers, r)
        BY <1>2, <4>1, <4>2, AtAppend DEF Coming
      <4>5. ~Going(r)' /\ ~Ending(r)'
        BY <1>1, <2>1, <4>2 DEF Going, Ending
      <4>6. Single(r)'
        BY <1>1, <2>1, <3>1, <4>4 DEF Sole, Single
      <4> QED BY <1>1, <4>2, <4>3, <4>5, <4>6 DEF Sole, Apart
    <3> QED BY <3>2, <3>3
  <2> QED BY <2>2 DEF SoleInv
<1>6. CASE Halts
  <2>1. ASSUME NEW r \in Requests PROVE UpOther(r) /\ DownOther(r) /\ \A s : Turn(s, r)' => Turn(s, r)
    BY <1>6 DEF Halts, UpOther, DownOther, Turn
  <2> QED BY <1>1, <2>1, SoleStays DEF SoleInv
<1> QED BY <1>3, <1>4, <1>5, <1>6, DeskForms DEF OfDesk, TypeInv

(* A post that is taken, or was the last one, gives the request its outcome. *)
LEMMA PostSole ==
  ASSUME TypeInv, SoleInv, NEW j \in jobs, Posted(j) \/ NotPosted(j)
  PROVE  SoleInv'
<1>1. UNCHANGED <<toGateway, toBridge, serving>>
  BY DEF Posted, NotPosted, link, desk
<1>2. OfRequest(j.msg) => j.msg.id \in Requests
  BY DEF TypeInv, MemoryType, IsJob, OfRequest, BridgeLines, DecisionLines, Told, Answers, News, Lists, Actions
<1>3. \/ jobs' = jobs \ {j} /\ (~OfRequest(j.msg) => UNCHANGED asked)
         /\ (OfRequest(j.msg) => \E o : asked' = [asked EXCEPT ![j.msg.id] = o])
      \/ UNCHANGED asked /\ \E new : new.msg = j.msg /\ jobs' = (jobs \ {j}) \cup {new}
  <2>1. CASE Posted(j)
    BY <2>1 DEF Posted
  <2>2. CASE NotPosted(j) /\ Len(j.tries) = 1
    BY <2>2 DEF NotPosted
  <2>3. CASE NotPosted(j) /\ Len(j.tries) # 1
    <3>1. UNCHANGED asked /\ jobs' = (jobs \ {j}) \cup {[j EXCEPT !.tries = Tail(@)]}
      BY <2>3 DEF NotPosted
    <3>2. PICK m, u, f, h : j = [msg |-> m, tries |-> u, ref |-> f, thread |-> h]
      BY DEF TypeInv, MemoryType, IsJob
    <3>3. [j EXCEPT !.tries = Tail(@)].msg = j.msg
      BY <3>2
    <3> QED BY <3>1, <3>3
  <2> QED BY <2>1, <2>2, <2>3
<1>4. ASSUME NEW r \in Requests PROVE Sole(r)'
  <2>1. Sole(r) /\ UpOther(r) /\ DownOther(r) /\ \A s : Turn(s, r)' => Turn(s, r)
    BY <1>1 DEF SoleInv, UpOther, DownOther, Turn
  <2>2. CASE ~Posting(j, r)
    <3>1. asked'[r] = asked[r] /\ \A k : Posting(k, r)' => Posting(k, r)
      BY <1>2, <1>3, <2>2 DEF Posting, TypeInv, ScreenType
    <3> QED BY <2>1, <3>1, SoleStays
  <2>3. CASE Posting(j, r)
    <3>1. ~Going(r) /\ ~Turned(r) /\ ~Coming(r) /\ asked[r] = "sent"
      BY <2>1, <2>3 DEF Sole, Apart, Somewhere, Ending
    <3>2. ~Going(r)' /\ ~Turned(r)' /\ ~Coming(r)'
      BY <1>1, <3>1 DEF Going, Turned, Coming, Turn
    <3>3. \A k : Posting(k, r) => k = j
      BY <2>1, <2>3 DEF Sole, Single
    <3>4. \A k, l : Posting(k, r)' /\ Posting(l, r)' => k = l
      BY <1>3, <3>3 DEF Posting
    <3>5. Ending(r)' => asked'[r] = "sent"
      BY <1>3, <3>1, <3>3 DEF Ending, Posting
    <3>6. Single(r)'
      BY <1>1, <2>1, <3>4 DEF Sole, Single, Turn
    <3> QED BY <3>2, <3>5, <3>6 DEF Sole, Apart, Somewhere
  <2> QED BY <2>2, <2>3
<1> QED BY <1>4 DEF SoleInv

(* Every step keeps one copy of each request. *)
LEMMA StepSole ==
  ASSUME TypeInv, SoleInv, [Next]_allVars
  PROVE  SoleInv'
<1>1. ASSUME toGateway' \in {toGateway, <<>>}, toBridge' \in {toBridge, <<>>}, jobs' \subseteq jobs,
             UNCHANGED <<serving, asked>>
      PROVE  SoleInv'
  <2>1. ASSUME NEW r \in Requests
        PROVE  /\ UpOther(r) /\ DownOther(r)
               /\ (\A s : Turn(s, r)' => Turn(s, r)) /\ (\A j : Posting(j, r)' => Posting(j, r))
    BY <1>1 DEF UpOther, DownOther, Turn, Posting
  <2> QED BY <1>1, <2>1, SoleStays DEF SoleInv
<1>2. CASE OfLink
  <2>1. UNCHANGED <<serving, jobs, asked>>
    BY <1>2 DEF OfLink, LinkNext, desk, memory, screen
  <2>2. toGateway' \in {toGateway, <<>>} /\ UNCHANGED toBridge
    BY <1>2 DEF OfLink, LinkNext, Established, Accept, Refused, Lost, TimerFires, GatewayUp, StartBridge
  <2> QED BY <1>1, <2>1, <2>2
<1>3. CASE Die
  <2>1. /\ UNCHANGED <<serving, asked>> /\ jobs' = {}
        /\ toGateway' \in {toGateway, <<>>} /\ toBridge' = <<>>
    BY <1>3 DEF Die, Forgotten, Reset, Exit, Leave, desk, screen
  <2> QED BY <1>1, <2>1
<1>4. CASE UNCHANGED allVars
  <2>1. UNCHANGED link /\ UNCHANGED desk /\ UNCHANGED memory /\ UNCHANGED screen
    BY <1>4 DEF allVars, vars
  <2> QED BY <1>1, <2>1 DEF link, desk, memory, screen
<1> QED BY <1>2, <1>3, <1>4, Steps, UserSole, PressSole, HandlerSole, DeskSole, PostSole DEF Shared, OfPosts

(* At the start no request is anywhere. *)
LEMMA InitSole == Init => SoleInv
<1> SUFFICES ASSUME Init, NEW r \in Requests PROVE Sole(r)
  BY DEF SoleInv
<1>1. toGateway = <<>> /\ toBridge = <<>> /\ serving = {} /\ jobs = {}
  BY DEF Init, BridgeInit, LinkInit, DeskInit
<1>2. ~Somewhere(r)
  BY <1>1, AtNone DEF Somewhere, Going, Turned, Coming, Ending, Turn, Posting
<1>3. Single(r)
  BY <1>1, AtNone DEF Single, Turn, Posting
<1> QED BY <1>2, <1>3 DEF Sole, Apart, Somewhere

----
(* Answers in the thread of their request *)

Whole == downs = 0 /\ exits = 0

(* The thread of a message on Telegram is the message, and a command has     *)
(* none; a request that is on its way was made.                              *)
Placed(r, turn) ==
  /\ asked[r] # "new"
  /\ IF turn THEN which = "telegram" => home[r] = r ELSE home[r] = "none"
UpPlaced == {m \in GateLines : m.type \in Asked => Placed(m.id, m.type = "message")}
DownPlaced == {m \in BridgeLines : OfRequest(m) => Placed(m.id, m.type = "response")}
InPlace(r, thread) == thread = home[r] \/ (thread = "none" /\ ~Whole)

TurnsPlaced == \A s \in serving : Placed(s.id, s.type = "message")
PendingPlaced == \A p \in pending : asked[p.id] # "new" /\ p.thread = home[p.id]
JobsPlaced ==
  \A j \in jobs : OfRequest(j.msg) => asked[j.msg.id] # "new" /\ InPlace(j.msg.id, j.thread)
ShownPlaced == \A r \in Requests : asked[r] = "shown" => InPlace(r, shownIn[r])
NewPlaced == \A r \in Requests : asked[r] = "new" => home[r] = "none"

PlaceInv ==
  /\ toGateway \in Seq(UpPlaced) /\ toBridge \in Seq(DownPlaced)
  /\ TurnsPlaced /\ PendingPlaced /\ JobsPlaced /\ ShownPlaced /\ NewPlaced

(* A request that was made is never new again and stays in its thread. *)
Onward ==
  /\ \A r \in Requests : asked[r] # "new" => asked'[r] # "new" /\ home'[r] = home[r]
  /\ \A r \in Requests : asked'[r] = "new" => home'[r] = home[r]
  /\ Whole' => Whole
  /\ which' = which

(* What was made is never new again, and stops are never taken back. *)
LEMMA StepsOnward ==
  ASSUME TypeInv, [Next]_allVars
  PROVE  Onward
<1>0. which' = which
  BY DEF Next, allVars, scope
<1>1. /\ asked \in [Requests -> {"new", "usage", "offline", "dropped", "sent"} \cup Outcomes]
      /\ home \in [Requests -> Threads] /\ downs \in Nat /\ exits \in Nat
  BY DEF TypeInv, ScreenType, LinkType
<1>2. CASE UserStep
  <2>1. UNCHANGED <<downs, exits>>
    BY <1>2 DEF UserStep, Usage, Command, Message, Writes, link
  <2>2. ASSUME NEW r \in Requests, Usage(r) PROVE Onward
    BY <1>0, <1>1, <2>1, <2>2 DEF Usage, Onward, Whole
  <2>3. ASSUME NEW r \in Requests, NEW t, NEW lost \in {"offline", "dropped"}, Command(r, t, lost) PROVE Onward
    BY <1>0, <1>1, <2>1, <2>3 DEF Command, Onward, Whole
  <2>4. ASSUME NEW r \in Requests, NEW h \in Threads, Message(r, h) PROVE Onward
    BY <1>0, <1>1, <2>1, <2>4 DEF Message, Onward, Whole
  <2> QED BY <1>2, <2>2, <2>3, <2>4 DEF UserStep
<1>3. CASE PressStep
  BY <1>0, <1>3 DEF PressStep, Press, Writes, screen, Onward, Whole
<1>4. CASE HandlerStep
  <2>1. UNCHANGED <<downs, exits, home>>
    BY <1>4 DEF HandlerStep, Ignored, OnMessage, OnExpired, OnResponse, Receives, screen
  <2>2. asked' = asked \/ \E r : asked' = [asked EXCEPT ![r] = "blank"]
    BY <1>4 DEF HandlerStep, Ignored, OnMessage, OnExpired, OnResponse, screen
  <2> QED BY <1>0, <1>1, <2>1, <2>2 DEF Onward, Whole
<1>5. CASE OfLink
  BY <1>0, <1>1, <1>5 DEF OfLink, LinkNext, Established, Accept, Refused, Lost, TimerFires, GatewayUp, StartBridge,
                     screen, Onward, Whole
<1>6. CASE OfDesk
  <2>1. UNCHANGED <<asked, home>>
    BY <1>6 DEF OfDesk, screen
  <2>2. UNCHANGED <<downs, exits>> \/ downs' = downs + 1
    BY <1>6, DeskForms DEF OfDesk, TypeInv, Tells, Serves, Replies, Halts
  <2> QED BY <1>0, <1>1, <2>1, <2>2 DEF Onward, Whole
<1>7. CASE OfPosts
  <2>1. PICK j \in jobs : Posted(j) \/ NotPosted(j)
    BY <1>7 DEF OfPosts
  <2>2. UNCHANGED <<downs, exits, home>>
    BY <2>1 DEF Posted, NotPosted, link
  <2>3. \/ asked' = asked
        \/ \E r, o : o \in {"shown", "refused", "failed"} /\ asked' = [asked EXCEPT ![r] = o]
    BY <2>1 DEF Posted, NotPosted
  <2> QED BY <1>0, <1>1, <2>2, <2>3 DEF Onward, Whole
<1>8. CASE Die
  <2>1. UNCHANGED <<asked, home, downs>> /\ exits' \in {exits, exits + 1}
    BY <1>8 DEF Die, Forgotten, Reset, Exit, Leave, screen
  <2> QED BY <1>0, <1>1, <2>1 DEF Onward, Whole
<1>9. CASE UNCHANGED allVars
  BY <1>9 DEF allVars, vars, link, screen, scope, Onward, Whole
<1> QED BY <1>2, <1>3, <1>4, <1>5, <1>6, <1>7, <1>8, <1>9, Steps DEF Shared

(* What is in its place stays there. *)
LEMMA PlacesStay ==
  ASSUME TypeInv, PlaceInv, Onward
  PROVE  /\ \A r \in Requests : \A turn : Placed(r, turn) => Placed(r, turn)'
         /\ \A r \in Requests : \A h : asked[r] # "new" /\ InPlace(r, h) => InPlace(r, h)'
         /\ UpPlaced \subseteq UpPlaced' /\ DownPlaced \subseteq DownPlaced'
         /\ \A q \in Seq(UpPlaced) : q \in Seq(UpPlaced')
         /\ \A q \in Seq(DownPlaced) : q \in Seq(DownPlaced')
<1>1. ASSUME NEW r \in Requests, NEW turn, Placed(r, turn) PROVE Placed(r, turn)'
  BY <1>1 DEF Onward, Placed
<1>2. ASSUME NEW r \in Requests, NEW h, asked[r] # "new", InPlace(r, h) PROVE InPlace(r, h)'
  BY <1>2 DEF Onward, InPlace
<1>3. ASSUME NEW m \in UpPlaced PROVE m \in UpPlaced'
  <2>1. m \in GateLines /\ (m.type \in Asked => m.id \in Requests)
    BY DEF UpPlaced, GateLines, DecisionLines, Asked, Lists, Actions, Auths
  <2> QED BY <1>1, <2>1 DEF UpPlaced
<1>4. ASSUME NEW m \in DownPlaced PROVE m \in DownPlaced'
  <2>1. m \in BridgeLines /\ (OfRequest(m) => m.id \in Requests)
    BY DEF DownPlaced, OfRequest, BridgeLines, Told, Answers, News, Lists, Actions
  <2> QED BY <1>1, <2>1 DEF DownPlaced
<1>5. ASSUME NEW q \in Seq(UpPlaced) PROVE q \in Seq(UpPlaced')
  BY <1>3
<1>6. ASSUME NEW q \in Seq(DownPlaced) PROVE q \in Seq(DownPlaced')
  BY <1>4
<1> QED BY <1>1, <1>2, <1>3, <1>4, <1>5, <1>6

(* While nothing stopped, the bridge has a message in its table until the    *)
(* answer is there.                                                          *)
OnWay(r) ==
  \/ Some(toGateway, {"message"}, r) \/ Some(toBridge, {"response"}, r)
  \/ \E s : Turn(s, r) /\ s.type = "message"
Awaited(r) == OnWay(r) => \E p \in pending : p.id = r
AwaitInv == Whole => peer # "gone" /\ \A r \in Requests : Awaited(r)

ThreadInv == PlaceInv /\ AwaitInv

(* What only leaves a place, or does not move, is still where it belongs. *)
LEMMA PartsStay ==
  ASSUME TypeInv, PlaceInv, Onward
  PROVE  /\ toGateway' \in {toGateway, <<>>} \/ (toGateway # <<>> /\ toGateway' = Tail(toGateway))
              => toGateway' \in Seq(UpPlaced')
         /\ toBridge' \in {toBridge, <<>>} \/ (toBridge # <<>> /\ toBridge' = Tail(toBridge))
              => toBridge' \in Seq(DownPlaced')
         /\ serving' \subseteq serving => TurnsPlaced'
         /\ pending' \subseteq pending => PendingPlaced'
         /\ jobs' \subseteq jobs => JobsPlaced'
         /\ UNCHANGED shownIn /\ (\A r \in Requests : asked'[r] = "shown" => asked[r] = "shown") => ShownPlaced'
         /\ NewPlaced'
<1>1. \A q \in Seq(UpPlaced) : q # <<>> => Tail(q) \in Seq(UpPlaced)
  OBVIOUS
<1>2. \A q \in Seq(DownPlaced) : q # <<>> => Tail(q) \in Seq(DownPlaced)
  OBVIOUS
<1>3. <<>> \in Seq(UpPlaced') /\ <<>> \in Seq(DownPlaced')
  OBVIOUS
<1>4. ASSUME toGateway' \in {toGateway, <<>>} \/ (toGateway # <<>> /\ toGateway' = Tail(toGateway))
      PROVE  toGateway' \in Seq(UpPlaced')
  BY <1>1, <1>3, <1>4, PlacesStay DEF PlaceInv
<1>5. ASSUME toBridge' \in {toBridge, <<>>} \/ (toBridge # <<>> /\ toBridge' = Tail(toBridge))
      PROVE  toBridge' \in Seq(DownPlaced')
  BY <1>2, <1>3, <1>5, PlacesStay DEF PlaceInv
<1>6. ASSUME serving' \subseteq serving PROVE TurnsPlaced'
  <2>1. ASSUME NEW s \in serving' PROVE Placed(s.id, s.type = "message")'
    <3>1. s.id \in Requests /\ Placed(s.id, s.type = "message")
      BY <1>6 DEF TypeInv, DeskType, PlaceInv, TurnsPlaced
    <3> QED BY <3>1, PlacesStay DEF Placed
  <2> QED BY <2>1 DEF TurnsPlaced
<1>7. ASSUME pending' \subseteq pending PROVE PendingPlaced'
  <2>1. \A p \in pending : p.id \in Requests
    BY DEF TypeInv, MemoryType
  <2> QED BY <1>7, <2>1 DEF PlaceInv, PendingPlaced, Onward
<1>8. ASSUME jobs' \subseteq jobs PROVE JobsPlaced'
  <2>1. \A j \in jobs : OfRequest(j.msg) => j.msg.id \in Requests
    BY DEF TypeInv, MemoryType, IsJob, OfRequest, BridgeLines, DecisionLines, Told, Answers, News, Lists, Actions
  <2>2. ASSUME NEW j \in jobs', OfRequest(j.msg)
        PROVE  asked'[j.msg.id] # "new" /\ InPlace(j.msg.id, j.thread)'
    <3>1. asked[j.msg.id] # "new" /\ InPlace(j.msg.id, j.thread) /\ j.msg.id \in Requests
      BY <1>8, <2>1, <2>2 DEF PlaceInv, JobsPlaced
    <3> QED BY <3>1, PlacesStay DEF Onward
  <2> QED BY <2>2 DEF JobsPlaced
<1>9. ASSUME UNCHANGED shownIn, \A r \in Requests : asked'[r] = "shown" => asked[r] = "shown" PROVE ShownPlaced'
  <2>1. ASSUME NEW r \in Requests, asked'[r] = "shown" PROVE InPlace(r, shownIn[r])'
    <3>1. asked[r] # "new" /\ InPlace(r, shownIn[r])
      BY <1>9, <2>1 DEF PlaceInv, ShownPlaced
    <3> QED BY <1>9, <3>1 DEF InPlace, Onward
  <2> QED BY <2>1 DEF ShownPlaced
<1>10. NewPlaced'
  BY DEF PlaceInv, NewPlaced, Onward
<1> QED BY <1>4, <1>5, <1>6, <1>7, <1>8, <1>9, <1>10

(* Users put their requests where they belong. *)
LEMMA UserPlaces ==
  ASSUME TypeInv, PlaceInv, Onward, UserStep
  PROVE  PlaceInv'
<1>1. PICK r \in Requests :
        \/ Usage(r)
        \/ \E t \in Asked \ {"message"}, lost \in {"offline", "dropped"} : Command(r, t, lost)
        \/ \E h \in Threads : Message(r, h) /\ (which = "telegram" => h = r)
  BY DEF UserStep
<1>2. UNCHANGED <<toBridge, serving, jobs, shownIn>> /\ asked[r] = "new"
  BY <1>1 DEF Usage, Command, Message, Writes, link, desk, memory
<1>3. \A q \in Requests : asked'[q] = "shown" => asked[q] = "shown"
  BY <1>1 DEF Usage, Command, Message, TypeInv, ScreenType
<1>4. toBridge' \in Seq(DownPlaced') /\ TurnsPlaced' /\ JobsPlaced' /\ ShownPlaced' /\ NewPlaced'
  BY <1>2, <1>3, PartsStay
<1>5. CASE Usage(r)
  BY <1>4, <1>5, PartsStay DEF Usage, link, memory, PlaceInv
<1>6. ASSUME NEW m \in GateLines, m.id = r, Writes(m), Connected => Placed(r, m.type = "message")'
      PROVE  toGateway' \in Seq(UpPlaced')
  <2>1. CASE Connected
    <3>1. toGateway \in Seq(UpPlaced')
      BY PlacesStay DEF PlaceInv
    <3>2. m \in UpPlaced'
      BY <1>6, <2>1 DEF UpPlaced
    <3>3. toGateway' = Append(toGateway, m)
      BY <1>6, <2>1 DEF Writes, Written
    <3> QED BY <3>1, <3>2, <3>3
  <2>2. CASE ~Connected
    BY <1>6, <2>2, PartsStay DEF Writes, Written
  <2> QED BY <2>1, <2>2
<1>7. ASSUME NEW t \in Asked \ {"message"}, NEW lost \in {"offline", "dropped"}, Command(r, t, lost)
      PROVE  PlaceInv'
  <2> DEFINE m == [type |-> t, id |-> r]
  <2>1. m \in GateLines /\ m.id = r /\ m.type # "message" /\ Writes(m)
    BY <1>7 DEF GateLines, Command
  <2>2. Connected => Placed(r, m.type = "message")'
    BY <1>2, <1>7, <2>1 DEF Command, Placed, PlaceInv, NewPlaced, TypeInv, ScreenType
  <2>3. PendingPlaced'
    BY <1>7, PartsStay DEF Command, memory
  <2> QED BY <1>4, <1>6, <2>1, <2>2, <2>3 DEF PlaceInv
<1>8. ASSUME NEW h \in Threads, Message(r, h), which = "telegram" => h = r
      PROVE  PlaceInv'
  <2> DEFINE m == [type |-> "message", id |-> r]
  <2>1. m \in GateLines /\ m.id = r /\ m.type = "message" /\ Writes(m)
    BY <1>8 DEF GateLines, Message, Asked
  <2>2. asked'[r] # "new" /\ home'[r] = h
    BY <1>8 DEF Message, TypeInv, ScreenType
  <2>3. Connected => Placed(r, m.type = "message")'
    BY <1>8, <2>1, <2>2 DEF Placed, Onward
  <2>4. PendingPlaced'
    <3>1. \A p \in pending : p.id \in Requests
      BY DEF TypeInv, MemoryType
    <3>2. \A p \in pending' : p \in pending \/ (p.id = r /\ p.thread = h)
      BY <1>8 DEF Message
    <3> QED BY <2>2, <3>1, <3>2 DEF PlaceInv, PendingPlaced, Onward
  <2> QED BY <1>4, <1>6, <2>1, <2>3, <2>4 DEF PlaceInv
<1> QED BY <1>1, <1>5, <1>7, <1>8

(* A press moves no request. *)
LEMMA PressPlaces ==
  ASSUME TypeInv, PlaceInv, Onward, PressStep
  PROVE  PlaceInv'
<1>1. PICK a \in Approvals, d \in Decisions : Press(a, d)
  BY DEF PressStep
<1> DEFINE m == [type |-> "approval-decision", id |-> a, decision |-> d]
           new == New(m, <<"edit">>, FALSE, "none")
<1>2. UNCHANGED <<toBridge, serving, pending, asked, shownIn>> /\ Writes(m)
  BY <1>1 DEF Press, Writes, desk, screen
<1>3. toGateway' \in Seq(UpPlaced')
  <2>1. m \in UpPlaced'
    BY DEF UpPlaced, GateLines, DecisionLines, Asked, Lists, Actions, Auths
  <2>2. toGateway \in Seq(UpPlaced')
    BY PlacesStay DEF PlaceInv
  <2> QED BY <1>2, <2>1, <2>2 DEF Writes, Written
<1>4. JobsPlaced'
  <2>1. \A j \in jobs : OfRequest(j.msg) => j.msg.id \in Requests
    BY DEF TypeInv, MemoryType, IsJob, OfRequest, BridgeLines, DecisionLines, Told, Answers, News, Lists, Actions
  <2>2. ~OfRequest(new.msg)
    BY DEF New, OfRequest, Lists, Actions
  <2>3. \A j \in jobs' : j \in jobs \/ j = new
    BY <1>1 DEF Press
  <2>4. ASSUME NEW j \in jobs', OfRequest(j.msg)
        PROVE  asked'[j.msg.id] # "new" /\ InPlace(j.msg.id, j.thread)'
    <3>1. asked[j.msg.id] # "new" /\ InPlace(j.msg.id, j.thread) /\ j.msg.id \in Requests
      BY <2>1, <2>2, <2>3, <2>4 DEF PlaceInv, JobsPlaced
    <3> QED BY <3>1, PlacesStay DEF Onward
  <2> QED BY <2>4 DEF JobsPlaced
<1> QED BY <1>2, <1>3, <1>4, PartsStay DEF PlaceInv

(* A new job is where the line it answers belongs. *)
LEMMA JobPlaces ==
  ASSUME TypeInv, PlaceInv, Onward, NEW new, jobs' \subseteq jobs \cup {new},
         OfRequest(new.msg) => /\ new.msg.id \in Requests /\ asked[new.msg.id] # "new"
                               /\ InPlace(new.msg.id, new.thread)
  PROVE  JobsPlaced'
<1>1. \A j \in jobs : OfRequest(j.msg) => j.msg.id \in Requests
  BY DEF TypeInv, MemoryType, IsJob, OfRequest, BridgeLines, DecisionLines, Told, Answers, News, Lists, Actions
<1>2. ASSUME NEW j \in jobs', OfRequest(j.msg)
      PROVE  asked'[j.msg.id] # "new" /\ InPlace(j.msg.id, j.thread)'
  <2>1. asked[j.msg.id] # "new" /\ InPlace(j.msg.id, j.thread) /\ j.msg.id \in Requests
    <3>1. CASE j \in jobs
      BY <1>1, <1>2, <3>1 DEF PlaceInv, JobsPlaced
    <3>2. CASE j = new
      BY <1>2, <3>2
    <3> QED BY <3>1, <3>2
  <2> QED BY <2>1, PlacesStay DEF Onward
<1> QED BY <1>2 DEF JobsPlaced

(* An answer is posted where its request was made. *)
LEMMA HandlerPlaces ==
  ASSUME TypeInv, PlaceInv, AwaitInv, Onward, HandlerStep
  PROVE  PlaceInv'
<1>1. Line \in BridgeLines /\ Receives
  BY HandlerTypes DEF HandlerStep, Ignored, OnMessage, OnExpired, OnResponse
<1>2. toBridge # <<>> /\ toBridge' = Tail(toBridge) /\ UNCHANGED toGateway
  BY <1>1 DEF Receives
<1>3. UNCHANGED <<serving, shownIn>> /\ pending' \subseteq pending
  BY DEF HandlerStep, Ignored, OnMessage, OnExpired, OnResponse, desk, screen, memory
<1>4. \A r \in Requests : asked'[r] = "shown" => asked[r] = "shown"
  <2>1. asked' = asked \/ asked' = [asked EXCEPT ![Line.id] = "blank"]
    BY DEF HandlerStep, Ignored, OnMessage, OnExpired, OnResponse, screen
  <2> QED BY <2>1 DEF TypeInv, ScreenType
<1>5. Line \in DownPlaced
  BY <1>2 DEF Line, PlaceInv
<1>6. OfRequest(Line) => Line.id \in Requests /\ Placed(Line.id, Line.type = "response")
  BY <1>1, <1>5 DEF DownPlaced, OfRequest, BridgeLines, Told, Answers, News, Lists, Actions
<1>7. JobsPlaced'
  <2>1. CASE Ignored
    BY <2>1, PartsStay DEF Ignored, memory
  <2>2. ASSUME NEW t, NEW h, OnMessage(t, h), OfRequest(Line) => h = "none" PROVE JobsPlaced'
    <3> DEFINE new == New(Line, t, FALSE, h)
    <3>1. new.msg = Line /\ new.thread = h
      BY DEF New
    <3>2. OfRequest(Line) => asked[Line.id] # "new" /\ InPlace(Line.id, h)
      BY <1>6, <2>2 DEF OnMessage, Placed, InPlace
    <3>3. jobs' \subseteq jobs \cup {new}
      BY <2>2 DEF OnMessage
    <3> HIDE DEF new
    <3> QED BY <1>6, <3>1, <3>2, <3>3, JobPlaces
  <2>3. ASSUME NEW t, NEW f, OnExpired(f, t) PROVE JobsPlaced'
    <3> DEFINE new == New(Line, t, f, "none")
    <3>1. new.msg = Line
      BY DEF New
    <3>2. ~OfRequest(Line)
      BY <2>3 DEF OnExpired, OfRequest, Lists, Actions
    <3>3. jobs' \subseteq jobs \cup {new}
      BY <2>3 DEF OnExpired
    <3> HIDE DEF new
    <3> QED BY <3>1, <3>2, <3>3, JobPlaces
  <2>4. ASSUME NEW t, NEW h, OnResponse(t, h),
               IF which = "telegram" THEN h = Line.id
               ELSE \/ \E p \in pending : p.id = Line.id /\ h = p.thread
                    \/ h = "none" /\ \A p \in pending : p.id # Line.id
        PROVE  JobsPlaced'
    <3> DEFINE new == New(Line, t, FALSE, h)
    <3>1. new.msg = Line /\ new.thread = h
      BY DEF New
    <3>2. Line.type = "response" /\ Line.id \in Requests /\ Placed(Line.id, TRUE)
      BY <1>6, <2>4 DEF OnResponse, OfRequest
    <3>3. InPlace(Line.id, h)
      <4>1. CASE which = "telegram"
        BY <2>4, <3>2, <4>1 DEF Placed, InPlace
      <4>2. ASSUME NEW p \in pending, p.id = Line.id, h = p.thread PROVE InPlace(Line.id, h)
        BY <4>2 DEF PlaceInv, PendingPlaced, InPlace
      <4>3. CASE h = "none" /\ \A p \in pending : p.id # Line.id
        <5>1. Some(toBridge, {"response"}, Line.id)
          BY <1>2, <3>2, AtTail DEF Line, PlaceInv
        <5>2. ~Whole
          BY <3>2, <4>3, <5>1 DEF AwaitInv, Awaited, OnWay
        <5> QED BY <4>3, <5>2 DEF InPlace
      <4> QED BY <2>4, <4>1, <4>2, <4>3
    <3>4. jobs' \subseteq jobs \cup {new}
      BY <2>4 DEF OnResponse
    <3> HIDE DEF new
    <3> QED BY <3>1, <3>2, <3>3, <3>4, JobPlaces DEF Placed
  <2> QED BY <2>1, <2>2, <2>3, <2>4 DEF HandlerStep
<1> QED BY <1>2, <1>3, <1>4, <1>7, PartsStay DEF PlaceInv

(* The gateway answers what it read. *)
LEMMA DeskPlaces ==
  ASSUME TypeInv, PlaceInv, Onward, OfDesk
  PROVE  PlaceInv'
<1>1. UNCHANGED <<pending, jobs, asked, shownIn>>
  BY DEF OfDesk, memory, screen
<1>2. PendingPlaced' /\ JobsPlaced' /\ ShownPlaced' /\ NewPlaced'
  BY <1>1, PartsStay
<1>3. ASSUME NEW m \in BridgeLines, toBridge' \in {toBridge, Append(toBridge, m)},
             OfRequest(m) => m.id \in Requests /\ Placed(m.id, m.type = "response")
      PROVE  toBridge' \in Seq(DownPlaced')
  <2>1. m \in DownPlaced
    BY <1>3 DEF DownPlaced
  <2>2. m \in DownPlaced' /\ toBridge \in Seq(DownPlaced')
    BY <2>1, PlacesStay DEF PlaceInv
  <2> QED BY <1>3, <2>2
<1>4. ASSUME toGateway # <<>>
      PROVE  LET m == Head(toGateway) IN
             m.type \in Asked => m.id \in Requests /\ Placed(m.id, m.type = "message")
  <2>1. Head(toGateway) \in UpPlaced
    BY <1>4 DEF PlaceInv
  <2> QED BY <2>1 DEF UpPlaced, GateLines, DecisionLines, Asked, Lists, Actions, Auths
<1>5. CASE Tells
  <2>1. toGateway' \in Seq(UpPlaced') /\ TurnsPlaced'
    BY <1>5, PartsStay DEF Tells
  <2>2. ASSUME NEW m \in BridgeLines, toBridge' = Append(toBridge, m), m.type # "response",
               OfRequest(m) => /\ toGateway # <<>> /\ m.type \in Lists \cup Actions
                               /\ m.type = Head(toGateway).type /\ m.id = Head(toGateway).id
        PROVE  toBridge' \in Seq(DownPlaced')
    <3>1. OfRequest(m) => m.id \in Requests /\ Placed(m.id, m.type = "response")
      BY <1>4, <2>2 DEF Asked, Lists, Actions, Placed
    <3> QED BY <1>3, <2>2, <3>1
  <2>3. toBridge' \in Seq(DownPlaced')
    BY <1>5, <2>2, PartsStay DEF Tells
  <2> QED BY <1>2, <2>1, <2>3 DEF PlaceInv
<1>6. CASE Serves
  <2> DEFINE m == Head(toGateway)
             new == [id |-> m.id, type |-> m.type, client |-> client]
  <2>1. toGateway' \in Seq(UpPlaced') /\ toBridge' \in Seq(DownPlaced')
    BY <1>6, PartsStay DEF Serves
  <2>2. m.id \in Requests /\ Placed(m.id, m.type = "message")
    BY <1>4, <1>6 DEF Serves, Asked
  <2>3. ASSUME NEW s \in serving' PROVE Placed(s.id, s.type = "message")'
    <3>1. s.id \in Requests /\ Placed(s.id, s.type = "message")
      <4>1. CASE s \in serving
        BY <4>1 DEF TypeInv, DeskType, PlaceInv, TurnsPlaced
      <4>2. CASE s = new
        BY <2>2, <4>2
      <4> QED BY <1>6, <4>1, <4>2 DEF Serves
    <3> QED BY <3>1, PlacesStay DEF Placed
  <2> QED BY <1>2, <2>1, <2>3 DEF PlaceInv, TurnsPlaced
<1>7. CASE Replies
  <2>1. PICK s \in serving, m \in BridgeLines :
          /\ serving' = serving \ {s} /\ toBridge' \in {toBridge, Append(toBridge, m)}
          /\ m.id = s.id /\ m.type = IF s.type = "message" THEN "response" ELSE "auth-response"
    BY <1>7 DEF Replies
  <2>2. s.id \in Requests /\ Placed(s.id, s.type = "message")
    BY DEF TypeInv, DeskType, PlaceInv, TurnsPlaced
  <2>3. toBridge' \in Seq(DownPlaced')
    BY <1>3, <2>1, <2>2 DEF Placed
  <2>4. toGateway' \in Seq(UpPlaced') /\ TurnsPlaced'
    BY <1>7, <2>1, PartsStay DEF Replies
  <2> QED BY <1>2, <2>3, <2>4 DEF PlaceInv
<1>8. CASE Halts
  BY <1>2, <1>8, PartsStay DEF Halts, PlaceInv
<1> QED BY <1>5, <1>6, <1>7, <1>8, DeskForms DEF OfDesk, TypeInv

(* A post is shown where its job says. *)
LEMMA PostPlaces ==
  ASSUME TypeInv, PlaceInv, Onward, NEW j \in jobs, Posted(j) \/ NotPosted(j)
  PROVE  PlaceInv'
<1>1. UNCHANGED <<toGateway, toBridge, serving, pending>>
  BY DEF Posted, NotPosted, link, desk
<1>2. toGateway' \in Seq(UpPlaced') /\ toBridge' \in Seq(DownPlaced') /\ TurnsPlaced' /\ PendingPlaced' /\ NewPlaced'
  BY <1>1, PartsStay
<1>3. OfRequest(j.msg) => /\ j.msg.id \in Requests /\ asked[j.msg.id] # "new"
                          /\ InPlace(j.msg.id, j.thread)
  BY DEF TypeInv, MemoryType, IsJob, OfRequest, BridgeLines, DecisionLines, Told, Answers, News, Lists, Actions,
         PlaceInv, JobsPlaced
<1>4. CASE Posted(j)
  <2>1. JobsPlaced'
    BY <1>4, PartsStay DEF Posted
  <2>2. CASE ~OfRequest(j.msg)
    <3>1. UNCHANGED <<asked, shownIn>>
      BY <1>4, <2>2 DEF Posted
    <3> QED BY <1>2, <2>1, <3>1, PartsStay DEF PlaceInv
  <2>3. CASE OfRequest(j.msg)
    <3>1. /\ asked' = [asked EXCEPT ![j.msg.id] = "shown"]
          /\ shownIn' = [shownIn EXCEPT ![j.msg.id] = j.thread]
      BY <1>4, <2>3 DEF Posted
    <3>2. ASSUME NEW r \in Requests, asked'[r] = "shown" PROVE InPlace(r, shownIn[r])'
      <4>1. asked[r] # "new" /\ InPlace(r, shownIn'[r])
        BY <1>3, <2>3, <3>1, <3>2 DEF TypeInv, ScreenType, PlaceInv, ShownPlaced
      <4> QED BY <4>1 DEF InPlace, Onward
    <3> QED BY <1>2, <2>1, <3>2 DEF PlaceInv, ShownPlaced
  <2> QED BY <2>2, <2>3
<1>5. CASE NotPosted(j)
  <2>1. PICK t : jobs' \subseteq jobs \cup {[j EXCEPT !.tries = t]}
    BY <1>5 DEF NotPosted
  <2>2. PICK m, u, f, h : j = [msg |-> m, tries |-> u, ref |-> f, thread |-> h]
    BY DEF TypeInv, MemoryType, IsJob
  <2>3. [j EXCEPT !.tries = t] = New(m, t, f, h)
    BY <2>2 DEF New
  <2>4. New(m, t, f, h).msg = j.msg /\ New(m, t, f, h).thread = j.thread
    BY <2>2 DEF New
  <2> DEFINE new == New(m, t, f, h)
  <2> HIDE DEF new
  <2>5. JobsPlaced'
    BY <1>3, <2>1, <2>3, <2>4, JobPlaces
  <2>6. UNCHANGED shownIn /\ \A r \in Requests : asked'[r] = "shown" => asked[r] = "shown"
    <3>1. \/ asked' = asked
          \/ \E o \in {"refused", "failed"} : asked' = [asked EXCEPT ![j.msg.id] = o]
      BY <1>5 DEF NotPosted
    <3> QED BY <1>5, <3>1 DEF NotPosted, TypeInv, ScreenType
  <2> QED BY <1>2, <2>5, <2>6, PartsStay DEF PlaceInv
<1> QED BY <1>4, <1>5

(* The link and the end of a process only lose lines. *)
LEMMA SharedPlaces ==
  ASSUME TypeInv, PlaceInv, Onward, Shared
  PROVE  PlaceInv'
<1>1. CASE OfLink
  <2>1. UNCHANGED <<serving, pending, jobs, asked, shownIn>>
    BY <1>1 DEF OfLink, LinkNext, desk, memory, screen
  <2>2. toGateway' \in {toGateway, <<>>} /\ UNCHANGED toBridge
    BY <1>1 DEF OfLink, LinkNext, Established, Accept, Refused, Lost, TimerFires, GatewayUp, StartBridge
  <2> QED BY <2>1, <2>2, PartsStay DEF PlaceInv
<1>2. CASE Die
  <2>1. /\ UNCHANGED <<serving, asked, shownIn>> /\ pending' = {} /\ jobs' = {}
        /\ toGateway' \in {toGateway, <<>>} /\ toBridge' = <<>>
    BY <1>2 DEF Die, Forgotten, Reset, Exit, Leave, desk, screen
  <2> QED BY <2>1, PartsStay DEF PlaceInv
<1> QED BY <1>1, <1>2, DeskPlaces, PostPlaces DEF Shared, OfPosts

(* Where a message is known to be awaited, or on no way, after a step.       *)
LEMMA WaysStay ==
  ASSUME TypeInv, NEW r \in Requests,
         \/ toGateway' \in {toGateway, <<>>}
         \/ toGateway # <<>> /\ toGateway' = Tail(toGateway)
         \/ \E m \in GateLines : toGateway' = Append(toGateway, m) /\ ~(m.type = "message" /\ m.id = r),
         \/ toBridge' \in {toBridge, <<>>}
         \/ toBridge # <<>> /\ toBridge' = Tail(toBridge)
         \/ \E m \in BridgeLines : toBridge' = Append(toBridge, m) /\ ~(m.type = "response" /\ m.id = r),
         serving' \subseteq serving
  PROVE  OnWay(r)' => OnWay(r)
<1>1. toGateway \in Seq(GateLines) /\ toBridge \in Seq(BridgeLines)
  BY DEF TypeInv, LinkType
<1>2. Some(toGateway', {"message"}, r) => Some(toGateway, {"message"}, r)
  BY <1>1, AtOther
<1>3. Some(toBridge', {"response"}, r) => Some(toBridge, {"response"}, r)
  BY <1>1, AtOther
<1> QED BY <1>2, <1>3 DEF OnWay, Turn

(* The bridge waits for the answer of a message that it wrote. *)
LEMMA UserAwaits ==
  ASSUME TypeInv, AwaitInv, Onward, UserStep, Whole'
  PROVE  AwaitInv'
<1>1. peer' # "gone" /\ \A r \in Requests : Awaited(r)
  BY DEF AwaitInv, Onward, UserStep, Usage, Command, Message, Writes, link
<1>2. PICK r \in Requests :
        \/ Usage(r)
        \/ \E t \in Asked \ {"message"}, lost \in {"offline", "dropped"} : Command(r, t, lost)
        \/ \E h \in Threads : Message(r, h)
  BY DEF UserStep
<1>3. UNCHANGED <<toBridge, serving>> /\ pending \subseteq pending'
  BY <1>2 DEF Usage, Command, Message, Writes, link, desk, memory
<1>4. \/ toGateway' = toGateway
      \/ \E m \in GateLines : /\ toGateway' = Append(toGateway, m) /\ m.id = r
                              /\ m.type = "message" => \E p \in pending' : p.id = r
  <2>1. \A t \in Asked : [type |-> t, id |-> r] \in GateLines
    BY DEF GateLines
  <2>2. "message" \in Asked
    BY DEF Asked
  <2>3. ASSUME NEW t \in Asked \ {"message"}, NEW lost, Command(r, t, lost)
        PROVE  \/ toGateway' = toGateway
               \/ \E m \in GateLines : toGateway' = Append(toGateway, m) /\ m.id = r /\ m.type # "message"
    BY <2>1, <2>3 DEF Command, Writes, Written
  <2>4. ASSUME NEW h \in Threads, Message(r, h)
        PROVE  \/ toGateway' = toGateway
               \/ \E m \in GateLines : /\ toGateway' = Append(toGateway, m) /\ m.id = r
                                       /\ \E p \in pending' : p.id = r
    <3>1. Connected => [id |-> r, thread |-> h] \in pending'
      BY <2>4 DEF Message
    <3> QED BY <2>1, <2>2, <2>4, <3>1 DEF Message, Writes, Written
  <2> QED BY <1>2, <2>3, <2>4 DEF Usage, link
<1>5. ASSUME NEW q \in Requests PROVE Awaited(q)'
  <2>1. CASE \E p \in pending' : p.id = q
    BY <2>1 DEF Awaited
  <2>2. CASE ~\E p \in pending' : p.id = q
    <3>1. OnWay(q)' => OnWay(q)
      BY <1>3, <1>4, <2>2, WaysStay
    <3> QED BY <1>1, <1>3, <3>1 DEF Awaited
  <2> QED BY <2>1, <2>2
<1> QED BY <1>1, <1>5 DEF AwaitInv

(* A press is no message. *)
LEMMA PressAwaits ==
  ASSUME TypeInv, AwaitInv, Onward, PressStep, Whole'
  PROVE  AwaitInv'
<1>1. PICK a \in Approvals, d \in Decisions : Press(a, d)
  BY DEF PressStep
<1> DEFINE m == [type |-> "approval-decision", id |-> a, decision |-> d]
<1>2. m \in GateLines /\ m.type # "message"
  BY DEF GateLines, DecisionLines
<1>3. /\ UNCHANGED <<toBridge, serving, pending, peer>>
      /\ toGateway' \in {toGateway, Append(toGateway, m)}
  BY <1>1 DEF Press, Writes, Written, desk
<1>4. \A r \in Requests : OnWay(r)' => OnWay(r)
  BY <1>2, <1>3, WaysStay
<1> QED BY <1>3, <1>4 DEF AwaitInv, Onward, Awaited

(* The answer that ends the wait was all there was of the message. *)
LEMMA HandlerAwaits ==
  ASSUME TypeInv, SoleInv, AwaitInv, Onward, HandlerStep, Whole'
  PROVE  AwaitInv'
<1>1. Line \in BridgeLines /\ Receives
  BY HandlerTypes DEF HandlerStep, Ignored, OnMessage, OnExpired, OnResponse
<1>2. toBridge # <<>> /\ toBridge' = Tail(toBridge) /\ UNCHANGED <<toGateway, serving, peer>>
  BY <1>1 DEF HandlerStep, Ignored, OnMessage, OnExpired, OnResponse, Receives, desk
<1>3. \/ pending' = pending
      \/ Line.type = "response" /\ pending' = {p \in pending : p.id # Line.id}
  BY DEF HandlerStep, Ignored, OnMessage, OnExpired, OnResponse, memory
<1>4. peer # "gone" /\ \A r \in Requests : Awaited(r)
  BY DEF AwaitInv, Onward
<1>5. ASSUME NEW r \in Requests PROVE Awaited(r)'
  <2>1. OnWay(r)' => OnWay(r)
    BY <1>2, WaysStay
  <2>2. CASE \A p \in pending : p.id = r => p \in pending'
    BY <1>4, <2>1, <2>2 DEF Awaited
  <2>3. CASE Line.type = "response" /\ Line.id = r
    <3>1. toBridge \in Seq(BridgeLines) /\ Line = Head(toBridge) /\ Line.type \in Answers /\ Sole(r)
      BY <2>3 DEF TypeInv, LinkType, Line, Answers, SoleInv
    <3>2. Coming(r) /\ ~Coming(r)'
      BY <1>2, <2>3, <3>1, AtTail DEF Sole, Single, Coming
    <3>3. ~Going(r)' /\ ~Turned(r)'
      BY <1>2, <3>1, <3>2 DEF Sole, Apart, Going, Turned, Turn
    <3>4. OnWay(r)' => Going(r)' \/ Turned(r)' \/ Coming(r)'
      BY DEF OnWay, Going, Turned, Coming, Some, At, Asked, Answers
    <3> QED BY <3>2, <3>3, <3>4 DEF Awaited
  <2> QED BY <1>3, <2>2, <2>3
<1> QED BY <1>2, <1>4, <1>5 DEF AwaitInv

(* A message that the gateway reads or answers stays on its way. *)
LEMMA DeskAwaits ==
  ASSUME TypeInv, AwaitInv, Onward, OfDesk, Whole'
  PROVE  AwaitInv'
<1>1. UNCHANGED pending
  BY DEF OfDesk, memory
<1>2. toGateway \in Seq(GateLines) /\ toBridge \in Seq(BridgeLines)
  BY DEF TypeInv, LinkType
<1>3. CASE Tells
  <2>1. UNCHANGED <<serving, peer>>
    BY <1>3 DEF Tells
  <2>2. toGateway' = toGateway \/ (toGateway # <<>> /\ toGateway' = Tail(toGateway))
    BY <1>3 DEF Tells
  <2>3. toBridge' = toBridge \/ \E m \in BridgeLines : toBridge' = Append(toBridge, m) /\ m.type # "response"
    BY <1>3 DEF Tells
  <2>4. \A r \in Requests : OnWay(r)' => OnWay(r)
    BY <2>1, <2>2, <2>3, WaysStay
  <2> QED BY <1>1, <2>1, <2>4 DEF AwaitInv, Onward, Awaited
<1>4. CASE Serves
  <2> DEFINE m == Head(toGateway)
             new == [id |-> m.id, type |-> m.type, client |-> client]
  <2>1. /\ UNCHANGED <<toBridge, peer>> /\ toGateway # <<>> /\ toGateway' = Tail(toGateway)
        /\ serving' = serving \cup {new} /\ new.id = m.id /\ new.type = m.type
    BY <1>4 DEF Serves
  <2> HIDE DEF new
  <2>2. ASSUME NEW r \in Requests, OnWay(r)' PROVE OnWay(r)
    <3>1. Some(toGateway', {"message"}, r) => Some(toGateway, {"message"}, r)
      BY <1>2, <2>1, AtTail
    <3>2. m.type = "message" /\ m.id = r => Some(toGateway, {"message"}, r)
      BY <1>2, <2>1, AtTail
    <3>3. ASSUME NEW s, Turn(s, r)', s.type = "message" PROVE OnWay(r)
      BY <2>1, <3>2, <3>3 DEF OnWay, Turn
    <3> QED BY <2>1, <2>2, <3>1, <3>3 DEF OnWay
  <2> QED BY <1>1, <2>1, <2>2 DEF AwaitInv, Onward, Awaited
<1>5. CASE Replies
  <2>1. PICK s \in serving, m \in BridgeLines :
          /\ UNCHANGED <<toGateway, peer>>
          /\ serving' = serving \ {s} /\ toBridge' \in {toBridge, Append(toBridge, m)}
          /\ m.id = s.id /\ m.type = IF s.type = "message" THEN "response" ELSE "auth-response"
    BY <1>5 DEF Replies
  <2>2. ASSUME NEW r \in Requests, OnWay(r)' PROVE OnWay(r)
    <3>1. CASE s.type = "message" /\ s.id = r
      BY <3>1 DEF OnWay, Turn
    <3>2. CASE ~(s.type = "message" /\ s.id = r)
      <4>1. ~(m.type = "response" /\ m.id = r)
        BY <2>1, <3>2
      <4> QED BY <2>1, <2>2, <4>1, WaysStay
    <3> QED BY <3>1, <3>2
  <2> QED BY <1>1, <2>1, <2>2 DEF AwaitInv, Onward, Awaited
<1>6. CASE Halts
  <2>1. ~Whole'
    BY <1>6 DEF Halts, Whole, TypeInv, LinkType
  <2> QED BY <2>1
<1> QED BY <1>3, <1>4, <1>5, <1>6, DeskForms DEF OfDesk, TypeInv

(* The link loses lines only when something stopped. *)
LEMMA SharedAwaits ==
  ASSUME TypeInv, AwaitInv, Onward, Shared, Whole'
  PROVE  AwaitInv'
<1>1. peer # "gone" /\ \A r \in Requests : Awaited(r)
  BY DEF AwaitInv, Onward
<1>2. CASE OfLink
  <2>1. UNCHANGED <<serving, pending>>
    BY <1>2 DEF OfLink, LinkNext, desk, memory
  <2>2. toGateway' \in {toGateway, <<>>} /\ UNCHANGED toBridge /\ peer' # "gone"
    BY <1>1, <1>2 DEF OfLink, LinkNext, Established, Accept, Refused, Lost, TimerFires, GatewayUp, StartBridge
  <2>3. \A r \in Requests : OnWay(r)' => OnWay(r)
    BY <2>1, <2>2, WaysStay
  <2> QED BY <1>1, <2>1, <2>2, <2>3 DEF AwaitInv, Awaited
<1>3. CASE OfPosts
  <2>1. UNCHANGED <<toGateway, toBridge, serving, pending, peer>>
    BY <1>3 DEF OfPosts, Posted, NotPosted, link, desk
  <2>2. \A r \in Requests : OnWay(r)' => OnWay(r)
    BY <2>1, WaysStay
  <2> QED BY <1>1, <2>1, <2>2 DEF AwaitInv, Awaited
<1>4. CASE Die
  <2>1. ~Whole'
    BY <1>1, <1>4 DEF Die, Reset, Exit, Whole, TypeInv, LinkType
  <2> QED BY <2>1
<1> QED BY <1>2, <1>3, <1>4, DeskAwaits DEF Shared

(* Every step keeps requests, lines and answers in their places. *)
LEMMA StepThreads ==
  ASSUME TypeInv, SoleInv, ThreadInv, [Next]_allVars
  PROVE  ThreadInv'
<1>1. Onward
  BY StepsOnward
<1>2. CASE Next
  <2>1. PlaceInv'
    BY <1>1, <1>2, Steps, UserPlaces, PressPlaces, HandlerPlaces, SharedPlaces DEF ThreadInv
  <2>2. CASE Whole'
    <3>1. AwaitInv'
      BY <1>1, <1>2, <2>2, Steps, UserAwaits, PressAwaits, HandlerAwaits, SharedAwaits DEF ThreadInv
    <3> QED BY <2>1, <3>1 DEF ThreadInv
  <2>3. CASE ~Whole'
    BY <2>1, <2>3 DEF ThreadInv, AwaitInv
  <2> QED BY <2>2, <2>3
<1>3. CASE UNCHANGED allVars
  <2>1. UNCHANGED link /\ UNCHANGED desk /\ UNCHANGED memory /\ UNCHANGED screen
    BY <1>3 DEF allVars, vars
  <2>2. UNCHANGED <<toGateway, toBridge, peer, serving, pending, jobs, asked, shownIn>>
    BY <2>1 DEF link, desk, memory, screen
  <2>3. PlaceInv'
    BY <1>1, <2>2, PartsStay DEF ThreadInv, PlaceInv
  <2>4. ASSUME Whole' PROVE AwaitInv'
    <3>1. peer # "gone" /\ \A r \in Requests : Awaited(r)
      BY <1>1, <2>4 DEF ThreadInv, AwaitInv, Onward
    <3>2. \A r \in Requests : OnWay(r)' => OnWay(r)
      BY <2>2, WaysStay
    <3> QED BY <2>2, <3>1, <3>2 DEF AwaitInv, Awaited
  <2> QED BY <2>3, <2>4 DEF ThreadInv, AwaitInv
<1> QED BY <1>2, <1>3

(* At the start nothing is on its way. *)
LEMMA InitThreads == Init => ThreadInv
<1> SUFFICES ASSUME Init PROVE ThreadInv
  OBVIOUS
<1>1. /\ toGateway = <<>> /\ toBridge = <<>> /\ serving = {} /\ pending = {} /\ jobs = {}
      /\ \A r \in Requests : asked[r] = "new" /\ home[r] = "none"
      /\ peer = "none"
  BY DEF Init, BridgeInit, LinkInit, DeskInit
<1>2. PlaceInv
  BY <1>1 DEF PlaceInv, TurnsPlaced, PendingPlaced, JobsPlaced, ShownPlaced, NewPlaced
<1>3. AwaitInv
  BY <1>1, AtNone DEF AwaitInv, OnWay, Awaited, Turn
<1> QED BY <1>2, <1>3 DEF ThreadInv

(* An answer is shown in the thread its request was made in, whatever was    *)
(* mentioned since; only after a stop of a process it may be outside of it   *)
(* (pendingRequests and handleSocketResponse of both bridges).               *)
THEOREM AnswersStayInThread == Spec => []RepliesInThread
<1>1. TypeInv /\ SoleInv /\ ThreadInv /\ [Next]_allVars => TypeInv' /\ SoleInv' /\ ThreadInv'
  BY NextTypes, StepSole, StepThreads
<1>2. TypeInv /\ ThreadInv => RepliesInThread
  <2>1. ASSUME TypeInv, ~Whole PROVE downs + exits > 0
    BY <2>1 DEF Whole, TypeInv, LinkType
  <2> QED BY <2>1 DEF ThreadInv, PlaceInv, ShownPlaced, InPlace, RepliesInThread
<1> QED BY <1>1, <1>2, InitTypes, InitSole, InitThreads, PTL DEF Spec

----
(* The gateway decides as Consent allows *)

(* What a step does to the verdicts. *)
LEMMA VerdictSteps ==
  ASSUME TypeInv, [Next]_allVars
  PROVE  \/ verdict' = verdict
         \/ \E a \in Approvals : verdict[a] = "idle" /\ verdict' = [verdict EXCEPT ![a] = "asked"]
         \/ \E a \in Approvals, v \in Decisions \cup {"expired"} :
              verdict[a] = "asked" /\ verdict' = [verdict EXCEPT ![a] = v]
         \/ verdict' = [a \in Approvals |-> IF verdict[a] = "asked" THEN "void" ELSE verdict[a]]
<1>1. CASE OfDesk
  <2>1. CASE TakeDecision
    <3>1. toGateway # <<>> /\ toGateway \in Seq(GateLines) /\ Head(toGateway).type = "approval-decision"
      BY <2>1 DEF TakeDecision, Reads, TypeInv, LinkType
    <3>2. Head(toGateway) \in DecisionLines
      BY <3>1 DEF GateLines, Asked, Lists, Actions, Auths
    <3> QED BY <2>1, <3>2 DEF TakeDecision, DecisionLines
  <2> QED BY <1>1, <2>1 DEF OfDesk, DeskNext, Ask, Expire, DecideOnDashboard, TakeCommand, TakeTurn, Reply, Notify,
                            Stop, desk
<1>2. CASE ~OfDesk
  <2>1. UNCHANGED desk \/ UNCHANGED allVars
    BY <1>2, Steps DEF UserStep, Usage, Command, Message, PressStep, Press, HandlerStep, Ignored, OnMessage, OnExpired,
                      OnResponse, Shared, OfLink, LinkNext, OfPosts, Posted, NotPosted, Die, Forgotten
  <2> QED BY <2>1 DEF desk, allVars, vars
<1> QED BY <1>1, <1>2

(* The gateway's side of the bridges implements Consent: an approval is      *)
(* decided once, by the first press, text or click or by the timeout, and    *)
(* void if the gateway stops before (resolveApproval).                       *)
THEOREM DeskImplementsConsent == Spec => DeskConsents
<1> DEFINE Gates == Approvals \X {"tool", "domain"}
           Verdicts == [g \in Gates |-> Consented(verdict[g[1]], g[2])]
<1>1. Init => Gate!Init
  BY DEF Init, BridgeInit, DeskInit, Gate!Init, Gate!Gates, Consented
<1>2. TypeInv /\ [Next]_allVars => [Gate!Next]_(Gate!vars)
  <2> SUFFICES ASSUME TypeInv, [Next]_allVars PROVE [Gate!Next]_(Gate!vars)
    OBVIOUS
  <2> USE DEF Gate!Gates
  <2>1. verdict \in [Approvals -> {"idle", "asked", "expired", "void"} \cup Decisions]
    BY DEF TypeInv, DeskType
  <2>g. \A g \in Gates : g = <<g[1], g[2]>> /\ g[1] \in Approvals /\ (g[2] = "tool" \/ g[2] = "domain")
    OBVIOUS
  <2>2. CASE verdict' = verdict
    BY <2>2 DEF Gate!vars, Consented
  <2>3. ASSUME NEW a \in Approvals, verdict[a] = "idle", verdict' = [verdict EXCEPT ![a] = "asked"]
        PROVE  Gate!Next
    <3>0. \A b \in Approvals : /\ Consented(verdict[b], "tool")' = IF b = a THEN "open" ELSE Consented(verdict[b], "tool")
                               /\ Consented(verdict[b], "domain")' = Consented(verdict[b], "domain")
      BY <2>1, <2>3 DEF Consented
    <3>1. \A g \in Gates : Consented(verdict[g[1]], g[2])' = IF g = <<a, "tool">> THEN "open" ELSE Consented(verdict[g[1]], g[2])
      BY <2>g, <3>0
    <3>2. Verdicts' = [Verdicts EXCEPT ![<<a, "tool">>] = "open"]
      BY <3>1
    <3>3. Verdicts[<<a, "tool">>] = "none"
      BY <2>3 DEF Consented
    <3>4. <<a, "tool">> \in Gates /\ Gate!Ask(<<a, "tool">>)
      BY <3>2, <3>3 DEF Gate!Ask, Gate!MayAsk
    <3> QED BY <3>4 DEF Gate!Next
  <2>4. ASSUME NEW a \in Approvals, NEW v \in Decisions \cup {"expired"}, verdict[a] = "asked",
               verdict' = [verdict EXCEPT ![a] = v]
        PROVE  Gate!Next
    <3> DEFINE w == IF v \in {"approved", "session-approved"} THEN "granted" ELSE "refused"
    <3>0. \A b \in Approvals : /\ Consented(verdict[b], "tool")' = IF b = a THEN w ELSE Consented(verdict[b], "tool")
                               /\ Consented(verdict[b], "domain")' = Consented(verdict[b], "domain")
      BY <2>1, <2>4 DEF Consented, Decisions
    <3>1. \A g \in Gates : Consented(verdict[g[1]], g[2])' = IF g = <<a, "tool">> THEN w ELSE Consented(verdict[g[1]], g[2])
      BY <2>g, <3>0
    <3>2. Verdicts' = [Verdicts EXCEPT ![<<a, "tool">>] = w]
      BY <3>1
    <3>3. Verdicts[<<a, "tool">>] = "open"
      BY <2>4 DEF Consented
    <3>4. <<a, "tool">> \in Gates /\ Gate!Decide(<<a, "tool">>, w)
      BY <3>2, <3>3 DEF Gate!Decide
    <3> QED BY <3>4 DEF Gate!Next
  <2>5. CASE verdict' = [a \in Approvals |-> IF verdict[a] = "asked" THEN "void" ELSE verdict[a]]
    <3> DEFINE C == {a \in Approvals : verdict[a] = "asked"}
    <3>0. \A b \in Approvals :
            \A gate : Consented(verdict[b], gate)' = IF b \in C THEN "void" ELSE Consented(verdict[b], gate)
      BY <2>1, <2>5 DEF Consented
    <3>1. \A g \in Gates : Consented(verdict[g[1]], g[2])' = IF g[1] \in C THEN "void" ELSE Consented(verdict[g[1]], g[2])
      BY <2>g, <3>0
    <3>2. Verdicts' = [g \in Gates |-> IF g[1] \in C THEN "void" ELSE Verdicts[g]]
      BY <3>1
    <3>3. Gate!Crash(C)
      BY <3>2 DEF Gate!Crash
    <3> QED BY <3>3 DEF Gate!Next
  <2> QED BY <2>2, <2>3, <2>4, <2>5, VerdictSteps
<1> QED BY <1>1, <1>2, InitTypes, NextTypes, PTL DEF Spec, DeskConsents, Gate!Spec

----
(* Requests are answered as Conversation promises *)

(* An answer is shown, or its request ends without one. *)
LEMMA PostTalks ==
  ASSUME TypeInv, SoleInv, PlaceInv, NEW j \in jobs, Posted(j) \/ NotPosted(j)
  PROVE  [Talk!Next]_(Talk!vars)
<1>1. UNCHANGED <<downs, exits, home>>
  BY DEF Posted, NotPosted, link
<1>2. ASSUME OfRequest(j.msg)
      PROVE  /\ j.msg.id \in Requests /\ asked[j.msg.id] = "sent"
             /\ j.thread \in Threads /\ InPlace(j.msg.id, j.thread)
  <2>1. j.msg.id \in Requests /\ j.thread \in Threads
    BY <1>2 DEF TypeInv, MemoryType, IsJob, OfRequest, BridgeLines, DecisionLines, Told, Answers, News, Lists, Actions
  <2>2. Posting(j, j.msg.id)
    BY <1>2 DEF Posting
  <2> QED BY <1>2, <2>1, <2>2 DEF SoleInv, Sole, Somewhere, Ending, PlaceInv, JobsPlaced
<1>3. CASE UNCHANGED <<asked, shownIn>>
  BY <1>1, <1>3 DEF Talk!vars
<1>4. CASE Posted(j) /\ OfRequest(j.msg)
  <2>1. /\ asked' = [asked EXCEPT ![j.msg.id] = "shown"]
        /\ shownIn' = [shownIn EXCEPT ![j.msg.id] = j.thread]
    BY <1>4 DEF Posted
  <2>2. j.thread = home[j.msg.id] \/ (downs + exits > 0 /\ j.thread = "none")
    BY <1>2, <1>4 DEF InPlace, Whole, TypeInv, LinkType
  <2>3. Talk!Show(j.msg.id, j.thread)
    BY <1>1, <1>2, <1>4, <2>1, <2>2 DEF Talk!Show
  <2>4. Threads = Talk!Threads
    BY DEF Threads, Talk!Threads
  <2> QED BY <1>2, <1>4, <2>3, <2>4 DEF Talk!Next
<1>5. CASE NotPosted(j) /\ OfRequest(j.msg) /\ asked' # asked
  <2>1. UNCHANGED shownIn /\ \E o \in {"refused", "failed"} : asked' = [asked EXCEPT ![j.msg.id] = o]
    BY <1>5 DEF NotPosted
  <2>2. \E o \in Talk!Untold : Talk!End(j.msg.id, o)
    BY <1>1, <1>2, <1>5, <2>1 DEF Talk!End, Talk!Untold
  <2> QED BY <1>2, <1>5, <2>2 DEF Talk!Next
<1> QED BY <1>3, <1>4, <1>5 DEF Posted, NotPosted

(* A step for the users is one that Conversation allows. *)
LEMMA StepTalks ==
  ASSUME TypeInv, SoleInv, PlaceInv, [Next]_allVars
  PROVE  [Talk!Next]_(Talk!vars)
<1>1. downs \in Nat /\ exits \in Nat /\ Threads = Talk!Threads
  BY DEF TypeInv, LinkType, Threads, Talk!Threads
<1>2. CASE UserStep
  <2>1. UNCHANGED <<downs, exits, shownIn>>
    BY <1>2 DEF UserStep, Usage, Command, Message, Writes, link
  <2>2. PICK r \in Requests, s \in {"usage", "offline", "dropped", "sent"}, h \in Threads :
          asked[r] = "new" /\ asked' = [asked EXCEPT ![r] = s] /\ home' = [home EXCEPT ![r] = h]
    <3>1. ASSUME NEW r \in Requests, asked[r] = "new" PROVE home[r] \in Threads /\ home = [home EXCEPT ![r] = home[r]]
      BY DEF TypeInv, ScreenType
    <3>2. ASSUME NEW r \in Requests, Usage(r)
          PROVE  asked[r] = "new" /\ home' = home /\ asked' = [asked EXCEPT ![r] = "usage"]
      BY <3>2 DEF Usage
    <3>3. ASSUME NEW r \in Requests, NEW t, NEW lost \in {"offline", "dropped"}, Command(r, t, lost)
          PROVE  /\ asked[r] = "new" /\ home' = home
                 /\ \E s \in {"offline", "dropped", "sent"} : asked' = [asked EXCEPT ![r] = s]
      BY <3>3 DEF Command
    <3>4. ASSUME NEW r \in Requests, NEW h \in Threads, Message(r, h)
          PROVE  /\ asked[r] = "new" /\ home' = [home EXCEPT ![r] = h]
                 /\ \E s \in {"offline", "sent"} : asked' = [asked EXCEPT ![r] = s]
      BY <3>4 DEF Message
    <3> QED BY <1>2, <3>1, <3>2, <3>3, <3>4 DEF UserStep
  <2>3. Talk!Make(r, s, h)
    BY <2>1, <2>2 DEF Talk!Make
  <2>4. s \in Talk!Declined \cup {"sent"}
    BY DEF Talk!Declined
  <2> QED BY <1>1, <2>3, <2>4 DEF Talk!Next
<1>3. CASE HandlerStep
  <2>1. UNCHANGED <<downs, exits, home, shownIn>>
    BY <1>3 DEF HandlerStep, Ignored, OnMessage, OnExpired, OnResponse, Receives, screen
  <2>2. CASE UNCHANGED asked
    BY <2>1, <2>2 DEF Talk!vars
  <2>3. CASE ~UNCHANGED asked
    <3>1. /\ asked' = [asked EXCEPT ![Line.id] = "blank"]
          /\ toBridge # <<>> /\ Line.type \in Answers /\ Line.type = "response" /\ Line \in BridgeLines
      BY <1>3, <2>3, HandlerTypes DEF HandlerStep, Ignored, OnMessage, OnExpired, OnResponse, Receives, screen, Answers
    <3>2. Line.id \in Requests
      BY <3>1 DEF BridgeLines, Told, News
    <3>3. toBridge \in Seq(BridgeLines) /\ Line = Head(toBridge)
      BY DEF TypeInv, LinkType, Line
    <3>4. Coming(Line.id)
      BY <3>1, <3>3, AtTail DEF Coming
    <3>5. asked[Line.id] = "sent"
      BY <3>2, <3>4 DEF SoleInv, Sole, Somewhere
    <3>6. Talk!End(Line.id, "blank") /\ "blank" \in Talk!Untold
      BY <2>1, <3>1, <3>5 DEF Talk!End, Talk!Untold
    <3> QED BY <3>2, <3>6 DEF Talk!Next
  <2> QED BY <2>2, <2>3
<1>4. ASSUME UNCHANGED <<asked, home, shownIn>>, UNCHANGED <<downs, exits>> \/ downs' + exits' > 0
      PROVE  [Talk!Next]_(Talk!vars)
  <2>1. CASE UNCHANGED <<downs, exits>>
    BY <1>4, <2>1 DEF Talk!vars
  <2>2. CASE downs' + exits' > 0
    BY <1>4, <2>2 DEF Talk!Stop, Talk!Next
  <2> QED BY <1>4, <2>1, <2>2
<1>5. CASE PressStep
  BY <1>4, <1>5 DEF PressStep, Press, Writes, screen
<1>6. CASE OfLink
  BY <1>4, <1>6 DEF OfLink, LinkNext, Established, Accept, Refused, Lost, TimerFires, GatewayUp, StartBridge, screen
<1>7. CASE OfDesk
  <2>1. UNCHANGED <<downs, exits>> \/ (downs' = downs + 1 /\ exits' = exits)
    BY <1>7, DeskForms DEF OfDesk, TypeInv, Tells, Serves, Replies, Halts
  <2> QED BY <1>1, <1>4, <1>7, <2>1 DEF OfDesk, screen
<1>8. CASE Die
  <2>1. UNCHANGED <<downs, asked, home, shownIn>> /\ (exits' = exits \/ exits' = exits + 1)
    BY <1>8 DEF Die, Forgotten, Reset, Exit, Leave, screen
  <2> QED BY <1>1, <1>4, <2>1
<1>9. CASE UNCHANGED allVars
  BY <1>4, <1>9 DEF allVars, vars, link, screen
<1> QED BY <1>2, <1>3, <1>5, <1>6, <1>7, <1>8, <1>9, Steps, PostTalks DEF Shared, OfPosts

(* The bridges implement Conversation: every request gets one outcome, for   *)
(* good, through refused posts, lost connections and stops of processes, and *)
(* an answer is shown where its request was made.                            *)
THEOREM BridgesImplementConversation == Spec => RequestsAnswered
<1>1. Init => Talk!Init
  BY DEF Init, BridgeInit, LinkInit, Talk!Init
<1>2. TypeInv /\ SoleInv /\ ThreadInv /\ [Next]_allVars => TypeInv' /\ SoleInv' /\ ThreadInv'
  BY NextTypes, StepSole, StepThreads
<1>3. TypeInv /\ SoleInv /\ ThreadInv /\ [Next]_allVars => [Talk!Next]_(Talk!vars)
  BY StepTalks DEF ThreadInv
<1> QED BY <1>1, <1>2, <1>3, InitTypes, InitSole, InitThreads, PTL DEF Spec, RequestsAnswered, Talk!Spec
====
