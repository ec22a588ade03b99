---- MODULE SlackBridge ----
(***************************************************************************)
(* The Slack bridge (packages/bridge-slack/src/index.ts): as the Telegram   *)
(* bridge, with threads, text commands, and its own handling of a button    *)
(* that is pressed while the gateway is away.                               *)
(***************************************************************************)
EXTENDS Bridge

(* Only chat ids with the Slack prefix are for this bridge *)
SlackHere(m) == m.chat = Platform

SlackUsage(r) ==
  /\ bridge /\ asked[r] = "new"
  /\ asked' = [asked EXCEPT ![r] = "usage"]
  /\ UNCHANGED <<link, desk, memory, cards, home, shownIn, unposted>>

(* A request is written if connected; otherwise its outcome is lost *)
SlackForward(r, t, lost) ==
  /\ bridge /\ asked[r] = "new"
  /\ asked' = [asked EXCEPT ![r] = IF Connected THEN "sent" ELSE lost]
  /\ Writes([type |-> t, id |-> r])

SlackCommand(r, t) == /\ SlackForward(r, t, "offline")
                 /\ UNCHANGED <<desk, memory, cards, home, shownIn, unposted>>

(* The slash commands /argus_memories, /argus_forget and so on *)
SlackMemories(r) == SlackCommand(r, "memory-list")
SlackForgetMemory(r) == SlackCommand(r, "memory-delete")
SlackSessions(r) == SlackCommand(r, "session-list")
SlackStopTask(r) == SlackCommand(r, "task-stop")
SlackHeartbeats(r) == SlackCommand(r, "heartbeat-list")
SlackConnect(r) == SlackCommand(r, "auth-connect")
SlackAuthStatus(r) == SlackCommand(r, "auth-status")
SlackDisconnect(r) == SlackCommand(r, "auth-disconnect")

(* A message that is a command (!stop and so on): nothing is said when the  *)
(* gateway is away                                                          *)
SlackTextCommand(r) ==
  /\ \E t \in Lists \cup Actions : SlackForward(r, t, "dropped")
  /\ UNCHANGED <<desk, memory, cards, home, shownIn, unposted>>

(* MUTANT of SlackKeep: the thread of the mention before *)
SlackKeepLatest(r, thread) ==
  /\ pending' = IF Connected THEN pending \cup {[id |-> r, thread |-> channel]} ELSE pending
  /\ home' = [home EXCEPT ![r] = thread]

SlackKeep(r, thread) ==
  /\ pending' = IF Connected THEN pending \cup {[id |-> r, thread |-> thread]} ELSE pending
  /\ home' = [home EXCEPT ![r] = thread]

(* A mention opens a thread, or goes on in the one it was made in *)
SlackMention(r) ==
  /\ SlackForward(r, "message", "offline")
  /\ \E thread \in {r} \cup ({home[q] : q \in Requests} \ {"none"}) :
       SlackKeep(r, thread) /\ channel' = thread
  /\ UNCHANGED <<desk, refs, resolved, jobs, told, written, cards, shownIn, unposted>>

(* A direct message has no thread *)
SlackDirectMessage(r) ==
  /\ SlackForward(r, "message", "offline")
  /\ SlackKeep(r, "none")
  /\ UNCHANGED <<desk, refs, resolved, channel, jobs, told, written, cards, shownIn, unposted>>

(* A button of a live card: the decision is written only if connected, and  *)
(* the approval is resolved and its card edited in either case              *)
SlackPress(a, d) ==
  /\ bridge /\ cards[a] = "live" /\ a \notin resolved
  /\ Writes([type |-> "approval-decision", id |-> a, decision |-> d])
  /\ written' = IF Connected THEN [written EXCEPT ![a] = @ \cup {d}] ELSE written
  /\ resolved' = resolved \cup {a}
  /\ refs' = refs \ {a}
  /\ jobs' = Begin(Job([type |-> "approval-decision", id |-> a, decision |-> d], <<"edit">>))
  /\ UNCHANGED <<desk, pending, channel, told, screen>>

(***************************************************************************)
(* The attempts of each handler to post what it received                    *)
(***************************************************************************)
SlackCardTries == <<"blocks">>
SlackFormattedTries(full) == IF full THEN <<"mrkdwn", "plain">> ELSE <<>>
SlackProgressTries == <<"mrkdwn">>
SlackMemoryListTries(full) == IF full THEN <<"blocks", "plain">> ELSE <<"plain">>
SlackMemoryDeleteTries == <<"plain">>
SlackSessionListTries(full) == IF full THEN <<"blocks">> ELSE <<"plain">>
SlackTaskStopTries == <<"plain">>
SlackHeartbeatListTries(full) == IF full THEN <<"blocks", "plain">> ELSE <<"plain">>
SlackHeartbeatToggleTries == <<"plain">>
SlackHeartbeatTriggeredTries == <<"plain">>
SlackAuthTries(full) == SlackFormattedTries(full)

SlackTries(m) ==
  CASE m.type = "approval-request" -> SlackCardTries
    [] m.type = "notification" -> SlackFormattedTries(TRUE)
    [] m.type = "task-progress" -> SlackProgressTries
    [] m.type = "memory-list" -> SlackMemoryListTries(m.full)
    [] m.type = "memory-delete" -> SlackMemoryDeleteTries
    [] m.type = "session-list" -> SlackSessionListTries(m.full)
    [] m.type = "task-stop" -> SlackTaskStopTries
    [] m.type = "heartbeat-list" -> SlackHeartbeatListTries(m.full)
    [] m.type = "heartbeat-toggle" -> SlackHeartbeatToggleTries
    [] m.type = "heartbeat-triggered" -> SlackHeartbeatTriggeredTries
    [] m.type = "auth-response" -> SlackAuthTries(m.full)

SlackIgnore == Receives /\ ~SlackHere(Line) /\ UNCHANGED <<desk, memory, screen>>

(* Cards, notifications and progress go to the thread of the last mention *)
SlackOnMessage ==
  LET threaded == Line.type \in {"approval-request", "notification", "task-progress"} IN
  /\ Receives /\ SlackHere(Line) /\ Line.type \notin {"approval-expired", "response"}
  /\ jobs' = Begin([Job(Line, SlackTries(Line)) EXCEPT !.thread = IF threaded THEN channel ELSE "none"])
  /\ UNCHANGED <<desk, refs, resolved, pending, channel, told, written, screen>>

SlackOnExpired ==
  LET a == Line.id IN
  /\ Receives /\ SlackHere(Line) /\ Line.type = "approval-expired"
  /\ resolved' = resolved \cup {a}
  /\ refs' = refs \ {a}
  /\ jobs' = Begin([Job(Line, <<IF a \in refs THEN "edit" ELSE "plain">>) EXCEPT !.ref = a \in refs])
  /\ UNCHANGED <<desk, pending, channel, told, written, screen>>

(* The thread of an answer is the one its request was made in *)
SlackOnResponse ==
  LET r == Line.id
      known == {p \in pending : p.id = r}
      thread == IF known = {} THEN "none" ELSE (CHOOSE p \in known : TRUE).thread IN
  /\ Receives /\ SlackHere(Line) /\ Line.type = "response"
  /\ pending' = pending \ known
  /\ jobs' = Begin([Job(Line, SlackFormattedTries(Line.full)) EXCEPT !.thread = thread])
  /\ asked' = IF Line.full THEN asked ELSE [asked EXCEPT ![r] = "blank"]
  /\ UNCHANGED <<desk, refs, resolved, channel, told, written, cards, home, shownIn, unposted>>

SlackNext ==
  \/ \E r \in Requests :
       \/ SlackUsage(r) \/ SlackMemories(r) \/ SlackForgetMemory(r) \/ SlackSessions(r) \/ SlackStopTask(r) \/ SlackHeartbeats(r)
       \/ SlackTextCommand(r) \/ SlackConnect(r) \/ SlackAuthStatus(r) \/ SlackDisconnect(r)
       \/ SlackMention(r) \/ SlackDirectMessage(r)
  \/ \E a \in Approvals, d \in Decisions : SlackPress(a, d)
  \/ SlackIgnore \/ SlackOnMessage \/ SlackOnExpired \/ SlackOnResponse
  \/ Shared
====
