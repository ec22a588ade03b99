---- MODULE Turns ----
(***************************************************************************)
(* Turns of the conversation: what the gateway does with a message that    *)
(* asks for an answer.  A turn comes from a bridge (index.ts) or from the  *)
(* dashboard (dashboard.ts); it is answered from the history of the        *)
(* session (session.ts) or, when it is complex, by the task loop (loop.ts) *)
(* with a record in SQLite (memory.ts).                                     *)
(*                                                                         *)
(* An action runs from one await to the next: the await of the LLM, whose  *)
(* answer takes as long as the tools and approvals it needs, and the pause *)
(* between two iterations of the task loop.                                *)
(***************************************************************************)
EXTENDS Integers, Sequences

CONSTANTS
  Turns,          \* messages that ask for an answer, the LLM's final text each
  Users,
  WebUser,        \* WEB_USER_ID, the user of the dashboard
  Sizes,          \* how many messages a turn may add to the history
  MaxMessages,    \* MAX_MESSAGES
  MaxIterations,  \* DEFAULT_MAX_ITERATIONS
  MaxRestarts     \* bound: crashes of the gateway in one behaviour

ASSUME UsersAssumption == WebUser \in Users
ASSUME SizesAssumption == Sizes \subseteq Nat \ {0}
ASSUME LimitsAssumption == /\ MaxMessages \in Nat \ {0}
                           /\ MaxIterations \in Nat \ {0}
                           /\ MaxRestarts \in Nat

VARIABLES
  user,       \* who sent each turn
  pc,         \* where each turn is
  base,       \* the copy of the history a chat turn was started with
  history,    \* Session.messages by user, each message named by its turn
  busy,       \* chatBusy
  status,     \* task_sessions.status of the task a turn started, "none" without one
  iteration,  \* task_sessions.iteration
  created,    \* tasks in the order of created_at
  cancelled,  \* TaskLoop.cancelledSessions
  stopped,    \* history: tasks whose cancellation was confirmed to the user
  log,        \* history: the messages of the turns answered in the session
  restarts    \* number of crashes so far

conversation == <<base, history, log>>
tasks == <<status, iteration, created, cancelled, stopped>>
vars == <<user, pc, busy, conversation, tasks, restarts>>

Running == {"chat", "iterate", "pause"}
Returned == {"answered", "completed", "cancelled", "exhausted"}
Ended == Returned \cup {"error", "busy", "lost"}
Statuses == {"none", "active", "completed", "failed"}

Init ==
  /\ user \in [Turns -> Users]
  /\ pc = [t \in Turns |-> "idle"]
  /\ base = [t \in Turns |-> <<>>]
  /\ history = [u \in Users |-> <<>>]
  /\ busy = FALSE
  /\ status = [t \in Turns |-> "none"]
  /\ iteration = [t \in Turns |-> 0]
  /\ created = <<>>
  /\ cancelled = {}
  /\ stopped = {}
  /\ log = [u \in Users |-> <<>>]
  /\ restarts = 0

----
(* The history of a session *)

(* Messages the turn adds: the user's, the tool rounds, the answer *)
Messages(t, n) == [i \in 1..n |-> t]

(* slice(-MAX_MESSAGES) *)
Trim(s) == IF Len(s) > MaxMessages
           THEN SubSeq(s, Len(s) - MaxMessages + 1, Len(s)) ELSE s

(* setMessages with what runLoop returned *)
SetMessages(t, n) ==
  /\ history' = [history EXCEPT ![user[t]] = Trim(base[t] \o Messages(t, n))]
  /\ log' = [log EXCEPT ![user[t]] = @ \o Messages(t, n)]

----
(* The task loop *)

Active(u) == {t \in Turns : user[t] = u /\ status[t] = "active"}

(* createSession, and the first iteration: no stop can be known for a new task *)
CreateSession(t) ==
  /\ status' = [status EXCEPT ![t] = "active"]
  /\ iteration' = [iteration EXCEPT ![t] = 0]
  /\ created' = Append(created, t)
  /\ pc' = [pc EXCEPT ![t] = "iterate"]
  /\ UNCHANGED <<cancelled, stopped>>

(* The handler returned or threw: its finally clears chatBusy *)
Finish(t, how) ==
  /\ pc' = [pc EXCEPT ![t] = how]
  /\ busy' = IF user[t] = WebUser THEN FALSE ELSE busy

----
(* Handlers *)

(* A dashboard message while another is processed: HTTP 409 *)
Refuse(t) ==
  /\ pc[t] = "idle" /\ user[t] = WebUser /\ busy
  /\ pc' = [pc EXCEPT ![t] = "busy"]
  /\ UNCHANGED <<user, busy, conversation, tasks, restarts>>

(* Mutant: chatBusy is not looked at *)
AcceptConcurrent(t) ==
  /\ pc[t] = "idle"
  /\ IF user[t] = WebUser THEN busy' = TRUE ELSE UNCHANGED busy

Accept(t) ==
  /\ pc[t] = "idle"
  /\ IF user[t] = WebUser THEN ~busy /\ busy' = TRUE ELSE UNCHANGED busy

(* A message that is not complex, or one of a user with an active task *)
StartChat(t) ==
  /\ Accept(t)
  /\ pc' = [pc EXCEPT ![t] = "chat"]
  /\ base' = [base EXCEPT ![t] = history[user[t]]]
  /\ UNCHANGED <<user, history, log, tasks, restarts>>

StartTask(t) ==
  /\ Accept(t)
  /\ Active(user[t]) = {}
  /\ CreateSession(t)
  /\ UNCHANGED <<user, conversation, restarts>>

(* orchestrator.chat returned, without or with the [CONTINUE] marker *)
AnswerChat(t, n) ==
  /\ pc[t] = "chat"
  /\ SetMessages(t, n)
  /\ base' = [base EXCEPT ![t] = <<>>]
  /\ \/ Finish(t, "answered") /\ UNCHANGED tasks
     \/ CreateSession(t) /\ UNCHANGED busy
  /\ UNCHANGED <<user, restarts>>

(* Mutant: the record keeps its iteration *)
IterateUncounted(t) ==
  /\ pc[t] = "iterate"
  /\ UNCHANGED iteration
  /\ \/ /\ status' = [status EXCEPT ![t] = "active"]
        /\ pc' = [pc EXCEPT ![t] = "pause"]
        /\ UNCHANGED busy
     \/ /\ status' = [status EXCEPT ![t] = "completed"]
        /\ Finish(t, "completed")
  /\ UNCHANGED <<user, conversation, created, cancelled, stopped, restarts>>

(* One iteration of the loop returned: updateSession, then a pause or the end *)
Iterate(t) ==
  /\ pc[t] = "iterate"
  /\ iteration' = [iteration EXCEPT ![t] = @ + 1]
  /\ \/ /\ status' = [status EXCEPT ![t] = "active"]
        /\ pc' = [pc EXCEPT ![t] = "pause"]
        /\ UNCHANGED busy
     \/ /\ status' = [status EXCEPT ![t] = "completed"]
        /\ Finish(t, "completed")
  /\ UNCHANGED <<user, conversation, created, cancelled, stopped, restarts>>

(* Mutant: one iteration too many *)
WakeOffByOne(t) ==
  /\ pc[t] = "pause"
  /\ \/ /\ iteration[t] > MaxIterations
        /\ status' = [status EXCEPT ![t] = "failed"]
        /\ Finish(t, "exhausted")
        /\ UNCHANGED cancelled
     \/ /\ iteration[t] <= MaxIterations /\ t \in cancelled
        /\ status' = [status EXCEPT ![t] = "failed"]
        /\ cancelled' = cancelled \ {t}
        /\ Finish(t, "cancelled")
     \/ /\ iteration[t] <= MaxIterations /\ t \notin cancelled
        /\ pc' = [pc EXCEPT ![t] = "iterate"]
        /\ UNCHANGED <<busy, status, cancelled>>
  /\ UNCHANGED <<user, conversation, iteration, created, stopped, restarts>>

(* Mutant: a cancelled loop leaves its record as it is *)
WakeKeepsRecord(t) ==
  /\ pc[t] = "pause"
  /\ \/ /\ iteration[t] >= MaxIterations
        /\ status' = [status EXCEPT ![t] = "failed"]
        /\ Finish(t, "exhausted")
        /\ UNCHANGED cancelled
     \/ /\ iteration[t] < MaxIterations /\ t \in cancelled
        /\ UNCHANGED status
        /\ cancelled' = cancelled \ {t}
        /\ Finish(t, "cancelled")
     \/ /\ iteration[t] < MaxIterations /\ t \notin cancelled
        /\ pc' = [pc EXCEPT ![t] = "iterate"]
        /\ UNCHANGED <<busy, status, cancelled>>
  /\ UNCHANGED <<user, conversation, iteration, created, stopped, restarts>>

(* Mutant: cancelledSessions is not looked at *)
WakeDeaf(t) ==
  /\ pc[t] = "pause"
  /\ \/ /\ iteration[t] >= MaxIterations
        /\ status' = [status EXCEPT ![t] = "failed"]
        /\ Finish(t, "exhausted")
     \/ /\ iteration[t] < MaxIterations
        /\ pc' = [pc EXCEPT ![t] = "iterate"]
        /\ UNCHANGED <<busy, status>>
  /\ UNCHANGED <<user, conversation, iteration, created, cancelled, stopped, restarts>>

(* The pause is over: the loop ends at the limit, or when it was cancelled, *)
(* in this order; otherwise the next iteration starts.                      *)
Wake(t) ==
  /\ pc[t] = "pause"
  /\ \/ /\ iteration[t] >= MaxIterations
        /\ status' = [status EXCEPT ![t] = "failed"]
        /\ Finish(t, "exhausted")
        /\ UNCHANGED cancelled
     \/ /\ iteration[t] < MaxIterations /\ t \in cancelled
        /\ status' = [status EXCEPT ![t] = "failed"]
        /\ cancelled' = cancelled \ {t}
        /\ Finish(t, "cancelled")
     \/ /\ iteration[t] < MaxIterations /\ t \notin cancelled
        /\ pc' = [pc EXCEPT ![t] = "iterate"]
        /\ UNCHANGED <<busy, status, cancelled>>
  /\ UNCHANGED <<user, conversation, iteration, created, stopped, restarts>>

(* Mutant: chatBusy is cleared on success only *)
FailLocked(t) ==
  /\ pc[t] \in {"chat", "iterate"}
  /\ base' = [base EXCEPT ![t] = <<>>]
  /\ pc' = [pc EXCEPT ![t] = "error"]
  /\ UNCHANGED <<user, busy, history, log, tasks, restarts>>

(* The LLM call throws: an error goes to the user, a task stays active *)
Fail(t) ==
  /\ pc[t] \in {"chat", "iterate"}
  /\ base' = [base EXCEPT ![t] = <<>>]
  /\ Finish(t, "error")
  /\ UNCHANGED <<user, history, log, tasks, restarts>>

(* Mutant: the youngest task of the user, active or not *)
StopYoungest(u) ==
  /\ u # WebUser
  /\ \E i \in DOMAIN created :
       LET t == created[i] IN
       /\ user[t] = u
       /\ \A j \in DOMAIN created : j > i => user[created[j]] # u
       /\ status' = [status EXCEPT ![t] = "failed"]
       /\ cancelled' = cancelled \cup {t}
       /\ stopped' = stopped \cup {t}
  /\ UNCHANGED <<user, pc, busy, conversation, iteration, created, restarts>>

(* task-stop: the youngest active task of the user.  The dashboard has no stop. *)
Stop(u) ==
  /\ u # WebUser
  /\ \E i \in DOMAIN created :
       LET t == created[i] IN
       /\ t \in Active(u)
       /\ \A j \in DOMAIN created : j > i => created[j] \notin Active(u)
       /\ status' = [status EXCEPT ![t] = "failed"]
       /\ cancelled' = cancelled \cup {t}
       /\ stopped' = stopped \cup {t}
  /\ UNCHANGED <<user, pc, busy, conversation, iteration, created, restarts>>

----
(* Other things that happen to the sessions *)

(* POST /api/chat/reset *)
Reset ==
  /\ history' = [history EXCEPT ![WebUser] = <<>>]
  /\ log' = [log EXCEPT ![WebUser] = <<>>]
  /\ UNCHANGED <<user, pc, busy, base, tasks, restarts>>

(* cleanup, an hour after the last setMessages of the user *)
Expire(u) ==
  /\ history' = [history EXCEPT ![u] = <<>>]
  /\ log' = [log EXCEPT ![u] = <<>>]
  /\ UNCHANGED <<user, pc, busy, base, tasks, restarts>>

(* A crash and a restart: only the records of the tasks survive *)
Restart ==
  /\ restarts < MaxRestarts
  /\ restarts' = restarts + 1
  /\ pc' = [t \in Turns |-> IF pc[t] \in Running THEN "lost" ELSE pc[t]]
  /\ base' = [t \in Turns |-> <<>>]
  /\ history' = [u \in Users |-> <<>>]
  /\ log' = [u \in Users |-> <<>>]
  /\ busy' = FALSE
  /\ cancelled' = {}
  /\ UNCHANGED <<user, status, iteration, created, stopped>>

Next ==
  \/ \E t \in Turns : \/ Refuse(t) \/ StartChat(t) \/ StartTask(t)
                      \/ \E n \in Sizes : AnswerChat(t, n)
                      \/ Iterate(t) \/ Wake(t) \/ Fail(t)
  \/ \E u \in Users : Stop(u) \/ Expire(u)
  \/ Reset
  \/ Restart

Spec == Init /\ [][Next]_vars

(* The LLM call answers or throws (approvals time out, tools too), timers fire *)
Fairness ==
  \A t \in Turns :
    /\ WF_vars((\E n \in Sizes : AnswerChat(t, n)) \/ Iterate(t) \/ Fail(t))
    /\ WF_vars(Wake(t))

FairSpec == Spec /\ Fairness

----
(* Properties *)

(* Every variable has its type. *)
TypeOK ==
  /\ user \in [Turns -> Users]
  /\ pc \in [Turns -> {"idle"} \cup Running \cup Ended]
  /\ base \in [Turns -> Seq(Turns)]
  /\ history \in [Users -> Seq(Turns)]
  /\ busy \in BOOLEAN
  /\ status \in [Turns -> Statuses]
  /\ iteration \in [Turns -> 0..MaxIterations]
  /\ created \in Seq(Turns)
  /\ cancelled \subseteq Turns /\ stopped \subseteq Turns
  /\ log \in [Users -> Seq(Turns)]
  /\ restarts \in 0..MaxRestarts

(* chatBusy is set exactly while one turn of the dashboard is in progress:  *)
(* no error path leaves the chat locked, and no two turns share it.         *)
BusyTracked ==
  LET inProgress == {t \in Turns : user[t] = WebUser /\ pc[t] \in Running} IN
  /\ busy <=> inProgress # {}
  /\ \A s, t \in inProgress : s = t

(* The last message of s, the one before it, and so on up to the limit, are *)
(* the last messages of h                                                   *)
Keeps(h, s) ==
  \A k \in 1..MaxMessages :
    k <= Len(s) => k <= Len(h) /\ h[Len(h) - k + 1] = s[Len(s) - k + 1]

(* The dashboard's conversation keeps its last messages: what was answered  *)
(* since the session or the chat was started anew, up to the limit, is the  *)
(* end of the history, in the order it was answered.                        *)
WebKeepsRecent == /\ Keeps(history[WebUser], log[WebUser])
                  /\ Len(history[WebUser]) <= MaxMessages

(* The record of a task is active as long as its loop runs, unless a stop   *)
(* is waiting for the loop; and it stays active afterwards only when the    *)
(* loop threw or died with the process.                                     *)
RecordTracksLoop ==
  \A t \in Turns :
    /\ pc[t] \in {"iterate", "pause"} => status[t] = "active" \/ t \in cancelled
    /\ status[t] = "active" => pc[t] \in {"iterate", "pause", "error", "lost"}
    /\ pc[t] = "completed" => status[t] = "completed"
    /\ pc[t] \in {"cancelled", "exhausted"} => status[t] = "failed"

(* Once a stop was confirmed the loop begins no further iteration.          *)
NoIterationAfterStop ==
  [][\A t \in stopped : pc[t] # "iterate" => pc'[t] # "iterate"]_vars

(* Once the loop has answered the user, the record keeps that verdict: a    *)
(* later stop, another task or a restart does not touch it.                 *)
VerdictFinal ==
  [][\A t \in Turns : pc[t] \in Returned => status'[t] = status[t]]_vars

(* Every accepted turn ends: the task loop is bounded. *)
TurnsEnd == \A t \in Turns : pc[t] \in Running ~> pc[t] \in Ended

(* A turn as a task: one that never got a record is none *)
Stage(place, record) ==
  IF place = "iterate" THEN "working"
  ELSE IF place = "pause" THEN "resting"
  ELSE IF place = "completed" THEN "done"
  ELSE IF place \in {"cancelled", "exhausted"} THEN place
  ELSE IF place \in {"error", "lost"} /\ record # "none" THEN "adrift" ELSE "none"

Loop == INSTANCE BoundedTasks WITH
          Tasks <- Turns, MaxRounds <- MaxIterations, rounds <- iteration,
          stage <- [t \in Turns |-> Stage(pc[t], status[t])]

(* The task loop, its records and cancelledSessions together do what         *)
(* BoundedTasks allows: a task has at most MaxIterations rounds, a stop is   *)
(* confirmed only for a task that has not answered, and is obeyed at the next *)
(* rest, though an iteration in flight overwrites the record of the stop     *)
TasksBounded == Loop!Spec

(* What the documentation says and the code does not do: see the README     *)

(* A stopped task is never active or completed again: README.md "Users can  *)
(* cancel in-progress tasks with the `/stop` command", memory.test.ts       *)
(* "cancels active session".                                                *)
StopHolds == \A t \in stopped : status[t] = "failed"

(* The history of any user keeps the last messages of the session: the      *)
(* header of session.ts.                                                    *)
KeepsRecent == \A u \in Users : Keeps(history[u], log[u])
====
