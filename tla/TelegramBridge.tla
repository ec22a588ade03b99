---- MODULE TelegramBridge ----
(***************************************************************************)
(* The Telegram bridge (packages/bridge-telegram/src/index.ts).  Handlers   *)
(* of socket lines are not awaited, so the posts of one run while the next  *)
(* line is handled.  Texts are abstracted to whether Telegram can parse     *)
(* them; users outside the allowlist are ignored and left out.              *)
(***************************************************************************)
EXTENDS Bridge

TelegramHere(m) == m.chat = Platform

(* A command whose arguments are not valid is answered with its usage *)
TelegramUsage(r) ==
  /\ bridge /\ asked[r] = "new"
  /\ asked' = [asked EXCEPT ![r] = "usage"]
  /\ UNCHANGED <<link, desk, memory, cards, home, shownIn, unposted>>

(* A request is written to the gateway, or the user is told that it cannot be *)
TelegramForward(r, t) ==
  /\ bridge /\ asked[r] = "new"
  /\ asked' = [asked EXCEPT ![r] = IF Connected THEN "sent" ELSE "offline"]
  /\ Writes([type |-> t, id |-> r])

TelegramCommand(r, t) == TelegramForward(r, t) /\ UNCHANGED <<desk, memory, cards, home, shownIn, unposted>>

TelegramMemories(r) == TelegramCommand(r, "memory-list")
TelegramForgetMemory(r) == TelegramCommand(r, "memory-delete")
TelegramSessions(r) == TelegramCommand(r, "session-list")
TelegramStopTask(r) == TelegramCommand(r, "task-stop")
TelegramHeartbeats(r) == TelegramCommand(r, "heartbeat-list")
(* /heartbeat_enable and /heartbeat_disable *)
TelegramToggleHeartbeat(r) == TelegramCommand(r, "heartbeat-toggle")
(* /connect, with or without a callback *)
TelegramConnect(r) == TelegramCommand(r, "auth-connect")
TelegramAuthStatus(r) == TelegramCommand(r, "auth-status")
TelegramDisconnect(r) == TelegramCommand(r, "auth-disconnect")

(* A text message; its entry is dropped again when it cannot be sent *)
TelegramMessage(r) ==
  /\ TelegramForward(r, "message")
  /\ pending' = IF Connected THEN pending \cup {[id |-> r, thread |-> r]} ELSE pending
  /\ home' = [home EXCEPT ![r] = r]
  /\ UNCHANGED <<desk, refs, resolved, channel, jobs, told, written, cards, shownIn, unposted>>

(* MUTANT of TelegramPress: the connection is not checked *)
TelegramPressOffline(a, d) ==
  /\ bridge /\ cards[a] = "live" /\ a \notin resolved
  /\ Writes([type |-> "approval-decision", id |-> a, decision |-> d])
  /\ written' = IF Connected THEN [written EXCEPT ![a] = @ \cup {d}] ELSE written
  /\ resolved' = resolved \cup {a}
  /\ refs' = refs \ {a}
  /\ jobs' = Begin(Job([type |-> "approval-decision", id |-> a, decision |-> d], <<"edit">>))
  /\ UNCHANGED <<desk, pending, channel, told, screen>>

(* A button of a live card.  A press on a resolved approval, or without a   *)
(* connection, is answered and changes nothing.                             *)
TelegramPress(a, d) ==
  /\ bridge /\ cards[a] = "live" /\ a \notin resolved /\ Connected
  /\ Writes([type |-> "approval-decision", id |-> a, decision |-> d])
  /\ written' = [written EXCEPT ![a] = @ \cup {d}]
  /\ resolved' = resolved \cup {a}
  /\ refs' = refs \ {a}
  /\ jobs' = Begin(Job([type |-> "approval-decision", id |-> a, decision |-> d], <<"edit">>))
  /\ UNCHANGED <<desk, pending, channel, told, screen>>

(***************************************************************************)
(* The attempts of each handler to post what it received                    *)
(***************************************************************************)
TelegramCardTries == <<"markdown", "plain">>
TelegramFormattedTries(full) == IF full THEN <<"html", "plain">> ELSE <<>>
TelegramProgressTries == <<"markdown">>
(* The text under the list has unescaped brackets and dots *)
TelegramMemoryListTries(full) == IF full THEN <<"broken", "plain">> ELSE <<"plain">>
TelegramMemoryDeleteTries == <<"plain">>
(* The date of each session is in unescaped brackets *)
TelegramSessionListTries(full) == IF full THEN <<"broken">> ELSE <<"plain">>
TelegramTaskStopTries == <<"plain">>
TelegramHeartbeatListTries(full) == IF full THEN <<"markdown", "plain">> ELSE <<"plain">>
TelegramHeartbeatToggleTries == <<"plain">>
(* The text ends in unescaped dots *)
TelegramHeartbeatTriggeredTries == <<"broken">>
TelegramAuthTries(full) == TelegramFormattedTries(full)

TelegramTries(m) ==
  CASE m.type = "approval-request" -> TelegramCardTries
    [] m.type = "notification" -> TelegramFormattedTries(TRUE)
    [] m.type = "task-progress" -> TelegramProgressTries
    [] m.type = "memory-list" -> TelegramMemoryListTries(m.full)
    [] m.type = "memory-delete" -> TelegramMemoryDeleteTries
    [] m.type = "session-list" -> TelegramSessionListTries(m.full)
    [] m.type = "task-stop" -> TelegramTaskStopTries
    [] m.type = "heartbeat-list" -> TelegramHeartbeatListTries(m.full)
    [] m.type = "heartbeat-toggle" -> TelegramHeartbeatToggleTries
    [] m.type = "heartbeat-triggered" -> TelegramHeartbeatTriggeredTries
    [] m.type = "auth-response" -> TelegramAuthTries(m.full)

(* Lines for another chat are dropped *)
TelegramIgnore == Receives /\ ~TelegramHere(Line) /\ UNCHANGED <<desk, memory, screen>>

(* Cards, notices and answers to commands *)
TelegramOnMessage ==
  /\ Receives /\ TelegramHere(Line) /\ Line.type \notin {"approval-expired", "response"}
  /\ jobs' = Begin(Job(Line, TelegramTries(Line)))
  /\ UNCHANGED <<desk, refs, resolved, pending, channel, told, written, screen>>

(* MUTANT of TelegramOnExpired: the approval is not marked as resolved *)
TelegramOnExpiredUnmarked ==
  LET a == Line.id IN
  /\ Receives /\ TelegramHere(Line) /\ Line.type = "approval-expired"
  /\ refs' = refs \ {a}
  /\ jobs' = Begin([Job(Line, <<IF a \in refs THEN "edit" ELSE "plain">>) EXCEPT !.ref = a \in refs])
  /\ UNCHANGED <<desk, resolved, pending, channel, told, written, screen>>

(* MUTANT of TelegramOnExpired: only a known card is edited *)
TelegramOnExpiredCardOnly ==
  LET a == Line.id IN
  /\ Receives /\ TelegramHere(Line) /\ Line.type = "approval-expired"
  /\ resolved' = resolved \cup {a}
  /\ refs' = refs \ {a}
  /\ jobs' = IF a \in refs THEN Begin([Job(Line, <<"edit">>) EXCEPT !.ref = TRUE]) ELSE jobs
  /\ UNCHANGED <<desk, pending, channel, told, written, screen>>

(* The card is edited, or a notice replaces it when none is known *)
TelegramOnExpired ==
  LET a == Line.id IN
  /\ Receives /\ TelegramHere(Line) /\ Line.type = "approval-expired"
  /\ resolved' = resolved \cup {a}
  /\ refs' = refs \ {a}
  /\ jobs' = Begin([Job(Line, <<IF a \in refs THEN "edit" ELSE "plain">>) EXCEPT !.ref = a \in refs])
  /\ UNCHANGED <<desk, pending, channel, told, written, screen>>

(* The answer names the message it replies to *)
TelegramOnResponse ==
  LET r == Line.id IN
  /\ Receives /\ TelegramHere(Line) /\ Line.type = "response"
  /\ pending' = {p \in pending : p.id # r}
  /\ jobs' = Begin([Job(Line, TelegramFormattedTries(Line.full)) EXCEPT !.thread = r])
  /\ asked' = IF Line.full THEN asked ELSE [asked EXCEPT ![r] = "blank"]
  /\ UNCHANGED <<desk, refs, resolved, channel, told, written, cards, home, shownIn, unposted>>

TelegramNext ==
  \/ \E r \in Requests :
       \/ TelegramUsage(r) \/ TelegramMemories(r) \/ TelegramForgetMemory(r) \/ TelegramSessions(r) \/ TelegramStopTask(r) \/ TelegramHeartbeats(r)
       \/ TelegramToggleHeartbeat(r) \/ TelegramConnect(r) \/ TelegramAuthStatus(r) \/ TelegramDisconnect(r) \/ TelegramMessage(r)
  \/ \E a \in Approvals, d \in Decisions : TelegramPress(a, d)
  \/ TelegramIgnore \/ TelegramOnMessage \/ TelegramOnExpired \/ TelegramOnResponse
  \/ Shared
====
