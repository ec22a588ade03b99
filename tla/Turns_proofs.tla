---- MODULE Turns_proofs ----
(***************************************************************************)
(* Proofs about Turns: types, the lock of the dashboard, the records of    *)
(* the task loop, and the history of the dashboard's conversation.         *)
(***************************************************************************)
EXTENDS Turns, TLAPS

----
(* Sequences of messages *)

(* A turn adds n messages, all its own. *)
LEMMA MessagesType ==
  ASSUME NEW t \in Turns, NEW n \in Nat
  PROVE  /\ Messages(t, n) \in Seq(Turns)
         /\ Len(Messages(t, n)) = n
         /\ \A i \in 1..n : Messages(t, n)[i] = t
  BY DEF Messages

(* setMessages keeps the last MaxMessages messages, in their places. *)
LEMMA TrimType ==
  ASSUME NEW s \in Seq(Turns)
  PROVE  /\ Trim(s) \in Seq(Turns)
         /\ Len(Trim(s)) <= MaxMessages
         /\ Keeps(Trim(s), s)
<1> USE LimitsAssumption DEF Keeps
<1>1. CASE Len(s) <= MaxMessages
  <2>1. Trim(s) = s
    BY <1>1 DEF Trim
  <2> QED BY <1>1, <2>1
<1>2. CASE Len(s) > MaxMessages
  <2> DEFINE m == Len(s) - MaxMessages + 1
  <2>1. Trim(s) = SubSeq(s, m, Len(s)) /\ m \in 1..Len(s)
    BY <1>2 DEF Trim
  <2> HIDE DEF m
  <2>2. /\ SubSeq(s, m, Len(s)) \in Seq(Turns)
        /\ Len(SubSeq(s, m, Len(s))) = Len(s) - m + 1
        /\ \A i \in 1..(Len(s) - m + 1) : SubSeq(s, m, Len(s))[i] = s[m + i - 1]
    BY <2>1
  <2>3. Len(Trim(s)) = MaxMessages
    BY <2>1, <2>2 DEF m
  <2>4. \A k \in 1..MaxMessages : Trim(s)[MaxMessages - k + 1] = s[Len(s) - k + 1]
    BY <2>1, <2>2, <1>2 DEF m
  <2> QED BY <2>1, <2>2, <2>3, <2>4, <1>2
<1> QED BY <1>1, <1>2

(* A history that keeps s keeps it when both grow by the same messages. *)
LEMMA KeepsAppend ==
  ASSUME NEW h \in Seq(Turns), NEW s \in Seq(Turns), NEW w \in Seq(Turns), Keeps(h, s)
  PROVE  Keeps(h \o w, s \o w)
<1> USE LimitsAssumption
<1> SUFFICES ASSUME NEW k \in 1..MaxMessages, k <= Len(s \o w)
             PROVE  /\ k <= Len(h \o w)
                    /\ (h \o w)[Len(h \o w) - k + 1] = (s \o w)[Len(s \o w) - k + 1]
  BY DEF Keeps
<1>1. Len(h \o w) = Len(h) + Len(w) /\ Len(s \o w) = Len(s) + Len(w)
  OBVIOUS
<1>2. CASE k <= Len(w)
  <2>1. (h \o w)[Len(h) + Len(w) - k + 1] = w[Len(w) - k + 1]
    BY <1>2
  <2>2. (s \o w)[Len(s) + Len(w) - k + 1] = w[Len(w) - k + 1]
    BY <1>2
  <2> QED BY <1>1, <1>2, <2>1, <2>2
<1>3. CASE k > Len(w)
  <2> DEFINE j == k - Len(w)
  <2>1. j \in 1..MaxMessages /\ j <= Len(s)
    BY <1>1, <1>3
  <2>2. j <= Len(h) /\ h[Len(h) - j + 1] = s[Len(s) - j + 1]
    BY <2>1 DEF Keeps
  <2>3. (h \o w)[Len(h) - j + 1] = h[Len(h) - j + 1]
    BY <2>1, <2>2
  <2>4. (s \o w)[Len(s) - j + 1] = s[Len(s) - j + 1]
    BY <2>1
  <2> QED BY <1>1, <2>1, <2>2, <2>3, <2>4
<1> QED BY <1>1, <1>2, <1>3

(* Keeping is transitive. *)
LEMMA KeepsTrans ==
  ASSUME NEW h \in Seq(Turns), NEW r \in Seq(Turns), NEW s \in Seq(Turns),
         Keeps(h, r), Keeps(r, s)
  PROVE  Keeps(h, s)
BY LimitsAssumption DEF Keeps

(* Nothing was said: any history keeps it. *)
LEMMA KeepsNothing ==
  ASSUME NEW h \in Seq(Turns)
  PROVE  Keeps(h, <<>>)
BY LimitsAssumption DEF Keeps

----
(* Types *)

(* An iteration is in progress only below the limit, which bounds the count. *)
Bounded == \A t \in Turns : pc[t] = "iterate" => iteration[t] < MaxIterations

TypeInv == TypeOK /\ Bounded

(* The places and statuses the actions write. *)
Locations == {"idle"} \cup Running \cup Ended

(* The names of the places of a turn and of the states of a record. *)
LEMMA Places ==
  /\ "idle" \in Locations /\ "chat" \in Locations /\ "iterate" \in Locations
  /\ "pause" \in Locations /\ "answered" \in Locations /\ "completed" \in Locations
  /\ "cancelled" \in Locations /\ "exhausted" \in Locations /\ "error" \in Locations
  /\ "busy" \in Locations /\ "lost" \in Locations
  /\ "none" \in Statuses /\ "active" \in Statuses /\ "completed" \in Statuses
  /\ "failed" \in Statuses
BY DEF Locations, Running, Ended, Returned, Statuses

(* TypeOK in two halves, with the sequences apart from the rest. *)
SequenceTypes ==
  /\ base \in [Turns -> Seq(Turns)]
  /\ history \in [Users -> Seq(Turns)]
  /\ created \in Seq(Turns)
  /\ log \in [Users -> Seq(Turns)]

PlainTypes ==
  /\ user \in [Turns -> Users]
  /\ pc \in [Turns -> Locations]
  /\ busy \in BOOLEAN
  /\ status \in [Turns -> Statuses]
  /\ iteration \in [Turns -> 0..MaxIterations]
  /\ cancelled \subseteq Turns /\ stopped \subseteq Turns
  /\ restarts \in 0..MaxRestarts

(* No action takes a variable out of its type, and the loop counts no       *)
(* further than MaxIterations: the check of the while in execute.           *)
THEOREM TypeStep == TypeInv /\ [Next]_vars => TypeInv'
<1> SUFFICES ASSUME SequenceTypes, PlainTypes, Bounded, [Next]_vars
             PROVE  SequenceTypes' /\ PlainTypes' /\ Bounded'
  BY DEF TypeInv, TypeOK, SequenceTypes, PlainTypes, Locations
<1> USE LimitsAssumption, UsersAssumption, SizesAssumption DEF conversation, tasks
<1>1. ASSUME NEW t \in Turns, Refuse(t) PROVE SequenceTypes' /\ PlainTypes' /\ Bounded'
  <2>1. SequenceTypes'
    BY <1>1 DEF Refuse, SequenceTypes
  <2>2. PlainTypes'
    BY <1>1, Places DEF Refuse, PlainTypes, Bounded
  <2>3. Bounded'
    BY <1>1 DEF Refuse, PlainTypes, Bounded
  <2> QED BY <2>1, <2>2, <2>3
<1>2. ASSUME NEW t \in Turns, StartChat(t) PROVE SequenceTypes' /\ PlainTypes' /\ Bounded'
  <2>1. SequenceTypes'
    BY <1>2 DEF StartChat, SequenceTypes, PlainTypes
  <2>2. PlainTypes'
    BY <1>2, Places DEF StartChat, Accept, PlainTypes, Bounded
  <2>3. Bounded'
    BY <1>2 DEF StartChat, Accept, PlainTypes, Bounded
  <2> QED BY <2>1, <2>2, <2>3
<1>3. ASSUME NEW t \in Turns, StartTask(t) PROVE SequenceTypes' /\ PlainTypes' /\ Bounded'
  <2>1. SequenceTypes'
    <3>1. Append(created, t) \in Seq(Turns)
      BY DEF SequenceTypes
    <3> QED BY <1>3, <3>1 DEF StartTask, CreateSession, SequenceTypes
  <2>2. PlainTypes'
    <3>1. iteration' \in [Turns -> 0..MaxIterations] /\ restarts' \in 0..MaxRestarts
      BY <1>3 DEF StartTask, Accept, CreateSession, PlainTypes, Bounded
    <3>2. pc' \in [Turns -> Locations] /\ status' \in [Turns -> Statuses]
      BY <1>3, Places DEF StartTask, Accept, CreateSession, PlainTypes
    <3> QED BY <1>3, <3>1, <3>2 DEF StartTask, Accept, CreateSession, PlainTypes
  <2>3. Bounded'
    BY <1>3 DEF StartTask, Accept, CreateSession, PlainTypes, Bounded
  <2> QED BY <2>1, <2>2, <2>3
<1>4. ASSUME NEW t \in Turns, NEW n \in Sizes, AnswerChat(t, n) PROVE SequenceTypes' /\ PlainTypes' /\ Bounded'
  <2>1. SequenceTypes'
    <3>1. /\ n \in Nat /\ Messages(t, n) \in Seq(Turns) /\ <<>> \in Seq(Turns)
          /\ Append(created, t) \in Seq(Turns)
      BY MessagesType DEF SequenceTypes
    <3>2. base[t] \o Messages(t, n) \in Seq(Turns) /\ user[t] \in Users
      BY <3>1 DEF SequenceTypes, PlainTypes
    <3>3. Trim(base[t] \o Messages(t, n)) \in Seq(Turns)
      BY <3>2, TrimType
    <3>4. history' \in [Users -> Seq(Turns)]
      BY <1>4, <3>2, <3>3 DEF AnswerChat, SetMessages, SequenceTypes
    <3>5. log' \in [Users -> Seq(Turns)]
      <4>1. log[user[t]] \o Messages(t, n) \in Seq(Turns)
        BY <3>1, <3>2 DEF SequenceTypes
      <4> QED BY <1>4, <3>2, <4>1 DEF AnswerChat, SetMessages, SequenceTypes
    <3>6. base' \in [Turns -> Seq(Turns)]
      BY <1>4, <3>1 DEF AnswerChat, SequenceTypes
    <3>7. created' \in Seq(Turns)
      BY <1>4, <3>1 DEF AnswerChat, CreateSession, SequenceTypes
    <3> QED BY <3>4, <3>5, <3>6, <3>7 DEF SequenceTypes
  <2>2. PlainTypes'
    <3>1. iteration' \in [Turns -> 0..MaxIterations] /\ restarts' \in 0..MaxRestarts
      <4>1. iteration' = iteration \/ iteration' = [iteration EXCEPT ![t] = 0]
        BY <1>4 DEF AnswerChat, CreateSession
      <4> QED BY <1>4, <4>1 DEF AnswerChat, PlainTypes
    <3>2. pc' \in [Turns -> Locations] /\ status' \in [Turns -> Statuses]
      BY <1>4, Places DEF AnswerChat, Finish, CreateSession, PlainTypes
    <3> QED BY <1>4, <3>1, <3>2 DEF AnswerChat, SetMessages, Finish, CreateSession, PlainTypes
  <2>3. Bounded'
    <3>1. \/ pc' = [pc EXCEPT ![t] = "answered"] /\ iteration' = iteration
          \/ iteration' = [iteration EXCEPT ![t] = 0]
             /\ pc' = [pc EXCEPT ![t] = "iterate"]
      BY <1>4 DEF AnswerChat, Finish, CreateSession
    <3> QED BY <3>1 DEF PlainTypes, Bounded
  <2> QED BY <2>1, <2>2, <2>3
<1>5. ASSUME NEW t \in Turns, Iterate(t) PROVE SequenceTypes' /\ PlainTypes' /\ Bounded'
  <2>1. SequenceTypes'
    BY <1>5 DEF Iterate, Finish, SequenceTypes
  <2>2. PlainTypes'
    <3>1. iteration' \in [Turns -> 0..MaxIterations] /\ restarts' \in 0..MaxRestarts
      BY <1>5 DEF Iterate, Finish, PlainTypes, Bounded
    <3>2. pc' \in [Turns -> Locations] /\ status' \in [Turns -> Statuses]
      BY <1>5, Places DEF Iterate, Finish, PlainTypes
    <3> QED BY <1>5, <3>1, <3>2 DEF Iterate, Finish, PlainTypes
  <2>3. Bounded'
    BY <1>5 DEF Iterate, Finish, PlainTypes, Bounded
  <2> QED BY <2>1, <2>2, <2>3
<1>6. ASSUME NEW t \in Turns, Wake(t) PROVE SequenceTypes' /\ PlainTypes' /\ Bounded'
  <2>1. SequenceTypes'
    BY <1>6 DEF Wake, Finish, SequenceTypes
  <2>2. PlainTypes'
    BY <1>6, Places DEF Wake, Finish, PlainTypes, Bounded
  <2>3. Bounded'
    BY <1>6 DEF Wake, Finish, PlainTypes, Bounded
  <2> QED BY <2>1, <2>2, <2>3
<1>7. ASSUME NEW t \in Turns, Fail(t) PROVE SequenceTypes' /\ PlainTypes' /\ Bounded'
  <2>1. SequenceTypes'
    <3>1. <<>> \in Seq(Turns)
      OBVIOUS
    <3> QED BY <1>7, <3>1 DEF Fail, SequenceTypes
  <2>2. PlainTypes'
    BY <1>7, Places DEF Fail, Finish, PlainTypes, Bounded
  <2>3. Bounded'
    BY <1>7 DEF Fail, Finish, PlainTypes, Bounded
  <2> QED BY <2>1, <2>2, <2>3
<1>8. ASSUME NEW u \in Users, Stop(u) PROVE SequenceTypes' /\ PlainTypes' /\ Bounded'
  <2>1. SequenceTypes'
    BY <1>8 DEF Stop, SequenceTypes
  <2>2. PlainTypes'
    BY <1>8, Places DEF Stop, PlainTypes, SequenceTypes, Active
  <2>3. Bounded'
    BY <1>8 DEF Stop, PlainTypes, Bounded
  <2> QED BY <2>1, <2>2, <2>3
<1>9. ASSUME NEW u \in Users, Expire(u) PROVE SequenceTypes' /\ PlainTypes' /\ Bounded'
  <2>1. SequenceTypes'
    <3>1. <<>> \in Seq(Turns)
      OBVIOUS
    <3> QED BY <1>9, <3>1 DEF Expire, SequenceTypes
  <2>2. PlainTypes'
    BY <1>9, Places DEF Expire, PlainTypes, Bounded
  <2>3. Bounded'
    BY <1>9 DEF Expire, PlainTypes, Bounded
  <2> QED BY <2>1, <2>2, <2>3
<1>10. CASE Reset
  <2>1. SequenceTypes'
    <3>1. <<>> \in Seq(Turns)
      OBVIOUS
    <3> QED BY <1>10, <3>1 DEF Reset, SequenceTypes
  <2>2. PlainTypes'
    BY <1>10, Places DEF Reset, PlainTypes, Bounded
  <2>3. Bounded'
    BY <1>10 DEF Reset, PlainTypes, Bounded
  <2> QED BY <2>1, <2>2, <2>3
<1>11. CASE Restart
  <2>1. SequenceTypes'
    <3>1. <<>> \in Seq(Turns)
      OBVIOUS
    <3> QED BY <1>11, <3>1 DEF Restart, SequenceTypes
  <2>2. PlainTypes'
    <3>1. iteration' \in [Turns -> 0..MaxIterations] /\ restarts' \in 0..MaxRestarts
      BY <1>11 DEF Restart, PlainTypes, Bounded
    <3>2. pc' \in [Turns -> Locations] /\ status' \in [Turns -> Statuses]
      BY <1>11, Places DEF Restart, PlainTypes
    <3> QED BY <1>11, <3>1, <3>2 DEF Restart, PlainTypes
  <2>3. Bounded'
    BY <1>11 DEF Restart, PlainTypes, Bounded
  <2> QED BY <2>1, <2>2, <2>3
<1>12. CASE UNCHANGED vars
  BY <1>12 DEF vars, SequenceTypes, PlainTypes, Bounded
<1> QED BY <1>1, <1>2, <1>3, <1>4, <1>5, <1>6, <1>7, <1>8, <1>9, <1>10, <1>11, <1>12 DEF Next

(* The initial states have their types. *)
LEMMA TypeInit == Init => TypeInv
<1> SUFFICES ASSUME Init PROVE SequenceTypes /\ PlainTypes /\ Bounded
  BY DEF TypeInv, TypeOK, SequenceTypes, PlainTypes, Locations
<1>1. SequenceTypes
  <2>1. <<>> \in Seq(Turns)
    OBVIOUS
  <2> QED BY <2>1 DEF Init, SequenceTypes
<1>2. PlainTypes
  <2>1. iteration \in [Turns -> 0..MaxIterations] /\ restarts \in 0..MaxRestarts
    BY LimitsAssumption DEF Init
  <2>2. pc \in [Turns -> Locations] /\ status \in [Turns -> Statuses]
    BY Places DEF Init
  <2> QED BY <2>1, <2>2 DEF Init, PlainTypes
<1>3. Bounded
  BY DEF Init, Bounded
<1> QED BY <1>1, <1>2, <1>3

(* The types and the bound on iterations hold in every reachable state. *)
THEOREM TypeInvariant == Spec => []TypeInv
BY TypeInit, TypeStep, PTL DEF Spec

(* TypeOK holds of every behaviour, for any turns, users and limits. *)
THEOREM TypeCorrect == Spec => []TypeOK
<1>1. TypeInv => TypeOK
  BY DEF TypeInv
<1> QED BY <1>1, TypeInvariant, PTL

----
(* The records of the task loop *)

(* RecordTracksLoop with what makes it inductive: a turn without a task has *)
(* no record and cannot be stopped, and a stop of a task that still runs    *)
(* waits in cancelledSessions until the loop wakes.                         *)
NoTask ==
  \A t \in Turns : pc[t] \in {"idle", "chat", "busy", "answered"} =>
                     status[t] = "none" /\ t \notin stopped

StopWaits == \A t \in stopped : pc[t] \in {"iterate", "pause"} => t \in cancelled

LoopInv == NoTask /\ StopWaits /\ RecordTracksLoop

(* No action breaks LoopInv: only a task that is active is stopped, and the *)
(* loop writes the verdict it answers with.                                 *)
THEOREM LoopStep == TypeInv /\ LoopInv /\ [Next]_vars => LoopInv'
<1> SUFFICES ASSUME PlainTypes, LoopInv, [Next]_vars
             PROVE  LoopInv'
  BY DEF TypeInv, TypeOK, PlainTypes, Locations
<1> USE DEF LoopInv, NoTask, StopWaits, RecordTracksLoop, PlainTypes, tasks
<1>1. ASSUME NEW t \in Turns, Refuse(t) PROVE LoopInv'
  BY <1>1 DEF Refuse
<1>2. ASSUME NEW t \in Turns, StartChat(t) PROVE LoopInv'
  BY <1>2 DEF StartChat, Accept
<1>3. ASSUME NEW t \in Turns, StartTask(t) PROVE LoopInv'
  BY <1>3 DEF StartTask, Accept, CreateSession
<1>4. ASSUME NEW t \in Turns, NEW n \in Sizes, AnswerChat(t, n) PROVE LoopInv'
  <2>1. CASE Finish(t, "answered") /\ UNCHANGED tasks
    BY <1>4, <2>1 DEF AnswerChat, Finish
  <2>2. CASE CreateSession(t)
    BY <1>4, <2>2 DEF AnswerChat, CreateSession
  <2> QED BY <1>4, <2>1, <2>2 DEF AnswerChat
<1>5. ASSUME NEW t \in Turns, Iterate(t) PROVE LoopInv'
  BY <1>5 DEF Iterate, Finish
<1>6. ASSUME NEW t \in Turns, Wake(t) PROVE LoopInv'
  BY <1>6 DEF Wake, Finish
<1>7. ASSUME NEW t \in Turns, Fail(t) PROVE LoopInv'
  BY <1>7 DEF Fail, Finish
<1>8. ASSUME NEW u \in Users, Stop(u) PROVE LoopInv'
  <2>1. PICK t \in Turns : /\ status[t] = "active"
                           /\ status' = [status EXCEPT ![t] = "failed"]
                           /\ cancelled' = cancelled \cup {t}
                           /\ stopped' = stopped \cup {t}
    BY <1>8 DEF Stop, Active
  <2> QED BY <1>8, <2>1 DEF Stop
<1>9. ASSUME NEW u \in Users, Expire(u) PROVE LoopInv'
  BY <1>9 DEF Expire
<1>10. CASE Reset
  BY <1>10 DEF Reset
<1>11. CASE Restart
  BY <1>11 DEF Restart, Running
<1>12. CASE UNCHANGED vars
  BY <1>12 DEF vars
<1> QED BY <1>1, <1>2, <1>3, <1>4, <1>5, <1>6, <1>7, <1>8, <1>9, <1>10, <1>11, <1>12 DEF Next

(* The records and the loops agree in every reachable state. *)
THEOREM LoopInvariant == Spec => [](TypeInv /\ LoopInv)
<1>1. Init => LoopInv
  BY DEF Init, LoopInv, NoTask, StopWaits, RecordTracksLoop
<1> QED BY <1>1, TypeInit, TypeStep, LoopStep, PTL DEF Spec

(* The record of a task is active exactly as long as its loop can still     *)
(* write to it, or was cut off by an error or a crash.                      *)
THEOREM RecordsTrackLoops == Spec => []RecordTracksLoop
<1>1. LoopInv => RecordTracksLoop
  BY DEF LoopInv
<1> QED BY <1>1, LoopInvariant, PTL

(* After a confirmed stop no iteration begins: a stopped task was started,  *)
(* and its loop finds it in cancelledSessions when it wakes.                *)
THEOREM StoppedLoopsRest == Spec => NoIterationAfterStop
<1> DEFINE Rests == \A t \in stopped : pc[t] # "iterate" => pc'[t] # "iterate"
<1>1. TypeInv /\ LoopInv /\ [Next]_vars => [Rests]_vars
  <2> SUFFICES ASSUME PlainTypes, LoopInv, Next, NEW s \in stopped, pc[s] # "iterate"
               PROVE  pc'[s] # "iterate"
    BY DEF TypeInv, TypeOK, PlainTypes, Locations
  <2> USE DEF LoopInv, NoTask, StopWaits, PlainTypes
  <2>1. ASSUME NEW t \in Turns, Refuse(t) PROVE pc'[s] # "iterate"
    BY <2>1 DEF Refuse
  <2>2. ASSUME NEW t \in Turns, StartChat(t) PROVE pc'[s] # "iterate"
    BY <2>2 DEF StartChat, Accept
  <2>3. ASSUME NEW t \in Turns, StartTask(t) PROVE pc'[s] # "iterate"
    BY <2>3 DEF StartTask, Accept, CreateSession
  <2>4. ASSUME NEW t \in Turns, NEW n \in Sizes, AnswerChat(t, n) PROVE pc'[s] # "iterate"
    BY <2>4 DEF AnswerChat, Finish, CreateSession
  <2>5. ASSUME NEW t \in Turns, Iterate(t) PROVE pc'[s] # "iterate"
    BY <2>5 DEF Iterate, Finish
  <2>6. ASSUME NEW t \in Turns, Wake(t) PROVE pc'[s] # "iterate"
    BY <2>6 DEF Wake, Finish
  <2>7. ASSUME NEW t \in Turns, Fail(t) PROVE pc'[s] # "iterate"
    BY <2>7 DEF Fail, Finish
  <2>8. (\E u \in Users : Stop(u) \/ Expire(u)) \/ Reset => pc' = pc
    BY DEF Stop, Expire, Reset
  <2>9. CASE Restart
    BY <2>9 DEF Restart, Running
  <2> QED BY <2>1, <2>2, <2>3, <2>4, <2>5, <2>6, <2>7, <2>8, <2>9 DEF Next
<1> QED BY <1>1, LoopInvariant, PTL DEF Spec, NoIterationAfterStop

(* The verdict of a loop that answered is final: only its own loop writes   *)
(* to a record that is not active.                                          *)
THEOREM VerdictsAreFinal == Spec => VerdictFinal
<1> DEFINE Final == \A t \in Turns : pc[t] \in Returned => status'[t] = status[t]
<1>1. TypeInv /\ LoopInv /\ [Next]_vars => [Final]_vars
  <2> SUFFICES ASSUME PlainTypes, LoopInv, Next, NEW s \in Turns, pc[s] \in Returned
               PROVE  status'[s] = status[s]
    BY DEF TypeInv, TypeOK, PlainTypes, Locations
  <2> USE DEF LoopInv, NoTask, RecordTracksLoop, PlainTypes, tasks, Returned
  <2>1. ASSUME NEW t \in Turns, StartTask(t) PROVE status'[s] = status[s]
    BY <2>1 DEF StartTask, Accept, CreateSession
  <2>2. ASSUME NEW t \in Turns, NEW n \in Sizes, AnswerChat(t, n) PROVE status'[s] = status[s]
    BY <2>2 DEF AnswerChat, CreateSession
  <2>3. ASSUME NEW t \in Turns, Iterate(t) PROVE status'[s] = status[s]
    BY <2>3 DEF Iterate
  <2>4. ASSUME NEW t \in Turns, Wake(t) PROVE status'[s] = status[s]
    BY <2>4 DEF Wake
  <2>5. ASSUME NEW u \in Users, Stop(u) PROVE status'[s] = status[s]
    <3>1. status[s] # "active"
      OBVIOUS
    <3> QED BY <2>5, <3>1 DEF Stop, Active
  <2>6. \/ \E t \in Turns : Refuse(t) \/ StartChat(t) \/ Fail(t)
        \/ \E u \in Users : Expire(u)
        \/ Reset \/ Restart
        => status' = status
    BY DEF Refuse, StartChat, Fail, Expire, Reset, Restart
  <2> QED BY <2>1, <2>2, <2>3, <2>4, <2>5, <2>6 DEF Next
<1> QED BY <1>1, LoopInvariant, PTL DEF Spec, VerdictFinal

----
(* The task loop implements BoundedTasks *)

(* Only what was stopped is in cancelledSessions, and a task has a record. *)
Recorded ==
  \A t \in Turns : pc[t] \in {"iterate", "pause", "completed", "cancelled", "exhausted"} => status[t] # "none"

TaskInv == LoopInv /\ cancelled \subseteq stopped /\ Recorded

(* Every step keeps it. *)
LEMMA TaskInvStep == TypeInv /\ TaskInv /\ [Next]_vars => TaskInv'
<1> SUFFICES ASSUME TypeInv, PlainTypes, TaskInv, [Next]_vars
             PROVE  TaskInv'
  BY DEF TypeInv, TypeOK, PlainTypes, Locations
<1>0. LoopInv'
  BY LoopStep DEF TaskInv
<1> DEFINE Rest == cancelled \subseteq stopped /\ Recorded
<1> USE DEF Recorded, TaskInv, PlainTypes, tasks
<1>1. ASSUME NEW t \in Turns, Refuse(t) \/ StartChat(t) PROVE Rest'
  BY <1>1 DEF Refuse, StartChat, Accept
<1>2. ASSUME NEW t \in Turns, CreateSession(t) PROVE Rest'
  BY <1>2 DEF CreateSession
<1>3. ASSUME NEW t \in Turns, NEW n \in Sizes, AnswerChat(t, n) PROVE Rest'
  <2>1. CASE Finish(t, "answered") /\ UNCHANGED tasks
    BY <2>1 DEF Finish
  <2> QED BY <1>2, <1>3, <2>1 DEF AnswerChat
<1>4. ASSUME NEW t \in Turns, Iterate(t) \/ Wake(t) PROVE Rest'
  BY <1>4 DEF Iterate, Wake, Finish
<1>5. ASSUME NEW t \in Turns, Fail(t) PROVE Rest'
  BY <1>5 DEF Fail, Finish
<1>6. ASSUME NEW u \in Users, Stop(u) PROVE Rest'
  <2> PICK t \in Turns : /\ status' = [status EXCEPT ![t] = "failed"]
                         /\ cancelled' = cancelled \cup {t} /\ stopped' = stopped \cup {t}
    BY <1>6 DEF Stop, Active
  <2> QED BY <1>6 DEF Stop
<1>7. ASSUME Restart PROVE Rest'
  BY <1>7 DEF Restart, Running
<1>8. ASSUME UNCHANGED <<pc, tasks>> PROVE Rest'
  BY <1>8
<1>9. (\E u \in Users : Expire(u)) \/ Reset \/ UNCHANGED vars => UNCHANGED <<pc, tasks>>
  BY DEF Expire, Reset, vars
<1> QED BY <1>0, <1>1, <1>2, <1>3, <1>4, <1>5, <1>6, <1>7, <1>8, <1>9 DEF Next, StartTask

(* What a turn is as a task. *)
LEMMA Stages ==
  ASSUME NEW r
  PROVE  /\ Stage("iterate", r) = "working" /\ Stage("pause", r) = "resting"
         /\ Stage("completed", r) = "done" /\ Stage("cancelled", r) = "cancelled"
         /\ Stage("exhausted", r) = "exhausted"
         /\ \A p \in {"idle", "chat", "busy", "answered"} : Stage(p, r) = "none"
         /\ \A p \in {"error", "lost"} : Stage(p, r) = IF r = "none" THEN "none" ELSE "adrift"
BY DEF Stage

(* A step that moves one turn moves one task. *)
Moves(t, place, record) ==
  \A u \in Turns : pc'[u] = (IF u = t THEN place ELSE pc[u]) /\ status'[u] = (IF u = t THEN record ELSE status[u])

LEMMA MovesGo ==
  ASSUME NEW t \in Turns, NEW place, NEW record, Moves(t, place, record)
  PROVE  Loop!Goes(t, Stage(place, record))
BY DEF Moves, Loop!Goes

(* Nothing moved, or a turn between places where it is no task. *)
LEMMA MovesStay ==
  ASSUME PlainTypes, NEW t \in Turns, NEW place, Moves(t, place, status[t]),
         Stage(place, status[t]) = Stage(pc[t], status[t]), UNCHANGED <<iteration, stopped>>
  PROVE  UNCHANGED Loop!vars
<1>1. \A u \in Turns : Stage(pc'[u], status'[u]) = Stage(pc[u], status[u])
  BY DEF Moves
<1> QED BY <1>1 DEF Loop!vars

(* Every step of the model is one of BoundedTasks, or none. *)
LEMMA TasksNext ==
  ASSUME TypeInv, TaskInv, [Next]_vars
  PROVE  [Loop!Next]_(Loop!vars)
<1> USE LimitsAssumption DEF PlainTypes, tasks
<1>0. PlainTypes /\ Bounded /\ NoTask /\ StopWaits /\ RecordTracksLoop /\ Recorded /\ cancelled \subseteq stopped
  BY DEF TypeInv, TypeOK, Locations, TaskInv, LoopInv
<1>t. \A t \in Turns : iteration[t] \in 0..MaxIterations
  BY <1>0
<1>1. ASSUME NEW t \in Turns, Refuse(t) \/ StartChat(t) PROVE UNCHANGED Loop!vars
  <2> PICK place \in {"busy", "chat"} : pc' = [pc EXCEPT ![t] = place]
    BY <1>1 DEF Refuse, StartChat, Accept
  <2>1. pc[t] = "idle" /\ UNCHANGED tasks
    BY <1>1 DEF Refuse, StartChat, Accept
  <2>2. Moves(t, place, status[t])
    BY <1>0, <2>1 DEF Moves
  <2>3. Stage(place, status[t]) = Stage(pc[t], status[t])
    BY <2>1, Stages
  <2> QED BY <1>0, <2>1, <2>2, <2>3, MovesStay
<1>2. ASSUME NEW t \in Turns, CreateSession(t), pc[t] \in {"idle", "chat"} PROVE Loop!Begin(t)
  <2>1. Stage(pc[t], status[t]) = "none" /\ t \notin stopped
    BY <1>0, <1>2, Stages DEF NoTask
  <2>2. Moves(t, "iterate", "active")
    BY <1>0, <1>2 DEF CreateSession, Moves
  <2>3. Loop!Goes(t, "working")
    BY <2>2, MovesGo, Stages
  <2> QED BY <1>2, <2>1, <2>3 DEF CreateSession, Loop!Begin
<1>3. ASSUME NEW t \in Turns, NEW n \in Sizes, AnswerChat(t, n) PROVE UNCHANGED Loop!vars \/ Loop!Begin(t)
  <2>0. pc[t] = "chat"
    BY <1>3 DEF AnswerChat
  <2>1. CASE Finish(t, "answered") /\ UNCHANGED tasks
    <3>1. Moves(t, "answered", status[t])
      BY <1>0, <2>1 DEF Finish, Moves
    <3>2. Stage("answered", status[t]) = Stage(pc[t], status[t])
      BY <2>0, Stages
    <3> QED BY <1>0, <2>1, <3>1, <3>2, MovesStay
  <2> QED BY <1>2, <1>3, <2>0, <2>1 DEF AnswerChat
<1>4. ASSUME NEW t \in Turns, Iterate(t) PROVE Loop!EndRound(t)
  <2>1. Stage(pc[t], status[t]) = "working" /\ iteration[t] < MaxIterations
    BY <1>0, <1>4, Stages DEF Iterate, Bounded
  <2>2. Moves(t, "pause", "active") \/ Moves(t, "completed", "completed")
    BY <1>0, <1>4 DEF Iterate, Finish, Moves
  <2>3. Loop!Goes(t, "resting") \/ Loop!Goes(t, "done")
    BY <2>2, MovesGo, Stages
  <2> QED BY <1>4, <2>1, <2>3 DEF Iterate, Loop!EndRound
<1>5. ASSUME NEW t \in Turns, Wake(t) PROVE Loop!Next
  <2>0. Stage(pc[t], status[t]) = "resting" /\ UNCHANGED <<iteration, stopped>>
    BY <1>5, Stages DEF Wake
  <2>l. iteration[t] >= MaxIterations <=> ~(iteration[t] < MaxIterations)
    BY <1>t
  <2>1. CASE iteration[t] >= MaxIterations
    <3>0. pc' = [pc EXCEPT ![t] = "exhausted"] /\ status' = [status EXCEPT ![t] = "failed"]
      BY <1>5, <2>1, <2>l DEF Wake, Finish
    <3>1. Moves(t, "exhausted", "failed")
      BY <1>0, <3>0 DEF Moves
    <3>2. Loop!Goes(t, "exhausted")
      BY <3>1, MovesGo, Stages
    <3> QED BY <1>t, <2>0, <2>1, <3>2 DEF Loop!Exhaust, Loop!Next
  <2>2. CASE iteration[t] < MaxIterations /\ t \in cancelled
    <3>0. pc' = [pc EXCEPT ![t] = "cancelled"] /\ status' = [status EXCEPT ![t] = "failed"]
      BY <1>5, <2>2, <2>l DEF Wake, Finish
    <3>1. Moves(t, "cancelled", "failed")
      BY <1>0, <3>0 DEF Moves
    <3>2. Loop!Goes(t, "cancelled")
      BY <3>1, MovesGo, Stages
    <3> QED BY <1>0, <2>0, <2>2, <3>2 DEF Loop!Cancel, Loop!Next
  <2>3. CASE iteration[t] < MaxIterations /\ t \notin cancelled
    <3>1. Moves(t, "iterate", status[t])
      BY <1>0, <1>5, <2>3 DEF Wake, Moves
    <3>2. Loop!Goes(t, "working")
      BY <3>1, MovesGo, Stages
    <3>3. t \notin stopped
      BY <1>0, <1>5, <2>3 DEF Wake, StopWaits
    <3> QED BY <2>0, <2>3, <3>2, <3>3 DEF Loop!BeginRound, Loop!Next
  <2> QED BY <1>t, <2>1, <2>2, <2>3
<1>6. ASSUME NEW t \in Turns, Fail(t) PROVE UNCHANGED Loop!vars \/ Loop!Break(t)
  <2>1. Moves(t, "error", status[t]) /\ UNCHANGED tasks
    BY <1>0, <1>6 DEF Fail, Finish, Moves
  <2>2. CASE pc[t] = "chat"
    <3>1. Stage("error", status[t]) = Stage(pc[t], status[t])
      BY <1>0, <2>2, Stages DEF NoTask
    <3> QED BY <1>0, <2>1, <3>1, MovesStay
  <2>3. CASE pc[t] = "iterate"
    <3>1. Stage("error", status[t]) = "adrift" /\ Stage(pc[t], status[t]) = "working"
      BY <1>0, <2>3, Stages DEF Recorded
    <3>2. Loop!Goes(t, "adrift")
      BY <2>1, <3>1, MovesGo
    <3> QED BY <2>1, <3>1, <3>2 DEF Loop!Break
  <2> QED BY <1>6, <2>2, <2>3 DEF Fail
<1>7. ASSUME NEW u \in Users, Stop(u) PROVE \E t \in Turns : Loop!Stop(t)
  <2> PICK t \in Turns : /\ status[t] = "active" /\ status' = [status EXCEPT ![t] = "failed"]
                         /\ stopped' = stopped \cup {t}
    BY <1>7 DEF Stop, Active
  <2>1. pc[t] \in {"iterate", "pause", "error", "lost"}
    BY <1>0 DEF RecordTracksLoop
  <2>2. Stage(pc[t], "failed") = Stage(pc[t], "active") /\ Stage(pc[t], "active") \in {"working", "resting", "adrift"}
    BY <2>1, Stages
  <2>3. \A v \in Turns : Stage(pc'[v], status'[v]) = Stage(pc[v], status[v])
    BY <1>0, <1>7, <2>2 DEF Stop
  <2> QED BY <1>7, <2>2, <2>3 DEF Stop, Loop!Stop
<1>8. CASE Restart
  <2>1. \A t \in Turns : Stage(pc'[t], status'[t]) = IF Stage(pc[t], status[t]) \in {"working", "resting"}
                                                     THEN "adrift" ELSE Stage(pc[t], status[t])
    <3> TAKE t \in Turns
    <3>1. status'[t] = status[t]
      BY <1>8 DEF Restart
    <3>2. CASE pc[t] \in {"iterate", "pause"}
      <4>1. Stage(pc[t], status[t]) \in {"working", "resting"} /\ pc'[t] = "lost" /\ status[t] # "none"
        BY <1>0, <1>8, <3>2, Stages DEF Restart, Running, Recorded
      <4> QED BY <3>1, <4>1, Stages
    <3>3. CASE pc[t] = "chat"
      <4>1. Stage(pc[t], status[t]) = "none" /\ pc'[t] = "lost" /\ status[t] = "none"
        BY <1>0, <1>8, <3>3, Stages DEF Restart, Running, NoTask
      <4> QED BY <3>1, <4>1, Stages
    <3>4. CASE pc[t] \notin Running
      <4>1. pc'[t] = pc[t]
        BY <1>8, <3>4 DEF Restart
      <4>2. Stage(pc[t], status[t]) \notin {"working", "resting"}
        BY <3>4 DEF Stage, Running
      <4> QED BY <3>1, <4>1, <4>2
    <3> QED BY <3>2, <3>3, <3>4 DEF Running
  <2>2. [t \in Turns |-> Stage(pc'[t], status'[t])]
          = [t \in Turns |-> IF [u \in Turns |-> Stage(pc[u], status[u])][t] \in {"working", "resting"}
                             THEN "adrift" ELSE [u \in Turns |-> Stage(pc[u], status[u])][t]]
    BY <2>1
  <2>3. Loop!Crash
    BY <1>8, <2>2 DEF Restart, Loop!Crash
  <2> QED BY <2>3 DEF Loop!Next
<1>9. (\E u \in Users : Expire(u)) \/ Reset \/ UNCHANGED vars => UNCHANGED Loop!vars
  BY DEF Expire, Reset, vars, Loop!vars
<1>10. ASSUME NEW t \in Turns, StartTask(t) PROVE Loop!Begin(t)
  BY <1>2, <1>10 DEF StartTask, Accept
<1> QED BY <1>1, <1>3, <1>4, <1>5, <1>6, <1>7, <1>8, <1>9, <1>10 DEF Next, Loop!Next

(* The task loop, with its records in SQLite and its set of cancelled tasks   *)
(* in memory, implements BoundedTasks: at most MaxIterations rounds, and none *)
(* after a confirmed stop, through overwritten records, errors and crashes.   *)
THEOREM LoopImplementsTasks == Spec => TasksBounded
<1>1. Init => TaskInv /\ Loop!Init
  <2>1. Init => TaskInv
    BY DEF Init, TaskInv, LoopInv, NoTask, StopWaits, RecordTracksLoop, Recorded
  <2>2. Init => Loop!Init
    BY Stages DEF Init, Loop!Init
  <2> QED BY <2>1, <2>2
<1>2. TypeInv /\ TaskInv /\ [Next]_vars => [Loop!Next]_(Loop!vars)
  BY TasksNext
<1> QED BY <1>1, <1>2, TaskInvStep, TypeInit, TypeStep, PTL DEF Spec, TasksBounded, Loop!Spec

----
(* The lock of the dashboard *)

(* BusyTracked holds turn by turn: a dashboard turn starts only when none   *)
(* is in progress, and each way it ends clears chatBusy.                    *)
THEOREM BusyStep == TypeInv /\ BusyTracked /\ [Next]_vars => BusyTracked'
<1> SUFFICES ASSUME PlainTypes, BusyTracked, [Next]_vars
             PROVE  BusyTracked'
  BY DEF TypeInv, TypeOK, PlainTypes, Locations
<1> USE DEF BusyTracked, PlainTypes, Running
<1>1. ASSUME NEW t \in Turns, Refuse(t) PROVE BusyTracked'
  BY <1>1 DEF Refuse
<1>2. ASSUME NEW t \in Turns, StartChat(t) PROVE BusyTracked'
  BY <1>2 DEF StartChat, Accept
<1>3. ASSUME NEW t \in Turns, StartTask(t) PROVE BusyTracked'
  BY <1>3 DEF StartTask, Accept, CreateSession
<1>4. ASSUME NEW t \in Turns, NEW how \in Ended, Finish(t, how), pc[t] \in Running,
             UNCHANGED user
      PROVE BusyTracked'
  BY <1>4 DEF Finish, Ended, Returned
<1>5. ASSUME NEW t \in Turns, NEW place \in Running, pc[t] \in Running,
             pc' = [pc EXCEPT ![t] = place], UNCHANGED <<user, busy>>
      PROVE BusyTracked'
  BY <1>5
<1>6. ASSUME NEW t \in Turns, NEW n \in Sizes, AnswerChat(t, n) PROVE BusyTracked'
  <2>1. CASE Finish(t, "answered")
    BY <1>4, <1>6, <2>1 DEF AnswerChat, Ended, Returned
  <2>2. CASE CreateSession(t) /\ UNCHANGED busy
    BY <1>5, <1>6, <2>2 DEF AnswerChat, CreateSession
  <2> QED BY <1>6, <2>1, <2>2 DEF AnswerChat
<1>7. ASSUME NEW t \in Turns, Iterate(t) PROVE BusyTracked'
  <2>1. CASE Finish(t, "completed")
    BY <1>4, <1>7, <2>1 DEF Iterate, Ended, Returned
  <2>2. CASE pc' = [pc EXCEPT ![t] = "pause"] /\ UNCHANGED busy
    BY <1>5, <1>7, <2>2 DEF Iterate
  <2> QED BY <1>7, <2>1, <2>2 DEF Iterate
<1>8. ASSUME NEW t \in Turns, Wake(t) PROVE BusyTracked'
  <2>1. CASE Finish(t, "exhausted") \/ Finish(t, "cancelled")
    BY <1>4, <1>8, <2>1 DEF Wake, Ended, Returned
  <2>2. CASE pc' = [pc EXCEPT ![t] = "iterate"] /\ UNCHANGED busy
    BY <1>5, <1>8, <2>2 DEF Wake
  <2> QED BY <1>8, <2>1, <2>2 DEF Wake
<1>9. ASSUME NEW t \in Turns, Fail(t) PROVE BusyTracked'
  BY <1>4, <1>9 DEF Fail, Ended
<1>10. (\E u \in Users : Stop(u) \/ Expire(u)) \/ Reset => UNCHANGED <<user, pc, busy>>
  BY DEF Stop, Expire, Reset
<1>11. CASE Restart
  BY <1>11 DEF Restart
<1>12. UNCHANGED vars => UNCHANGED <<user, pc, busy>>
  BY DEF vars
<1>13. ASSUME UNCHANGED <<user, pc, busy>> PROVE BusyTracked'
  BY <1>13
<1> QED BY <1>1, <1>2, <1>3, <1>6, <1>7, <1>8, <1>9, <1>10, <1>11, <1>12, <1>13 DEF Next

(* chatBusy is set exactly while one turn of the dashboard is in progress. *)
THEOREM LockIsTracked == Spec => []BusyTracked
<1>1. Init => BusyTracked
  BY DEF Init, BusyTracked, Running
<1> QED BY <1>1, TypeInit, TypeStep, BusyStep, PTL DEF Spec

----
(* The history of the dashboard *)

(* A dashboard turn in progress was started from a history that keeps what  *)
(* was answered: no other turn of the dashboard has answered since.         *)
BaseKeeps ==
  \A t \in Turns : user[t] = WebUser /\ pc[t] = "chat" => Keeps(base[t], log[WebUser])

WebInv == BaseKeeps /\ WebKeepsRecent

(* The answer of a dashboard turn extends what its base keeps, and nobody   *)
(* else writes to that history but to empty it.                             *)
THEOREM WebStep == TypeInv /\ BusyTracked /\ WebInv /\ [Next]_vars => WebInv'
<1> SUFFICES ASSUME SequenceTypes, PlainTypes, BusyTracked, WebInv, [Next]_vars
             PROVE  WebInv'
  BY DEF TypeInv, TypeOK, SequenceTypes, PlainTypes, Locations
<1> USE DEF WebInv, BaseKeeps, WebKeepsRecent, conversation
<1> DEFINE h == history[WebUser]
           l == log[WebUser]
<1>0. h \in Seq(Turns) /\ l \in Seq(Turns) /\ \A t \in Turns : base[t] \in Seq(Turns)
  BY UsersAssumption DEF SequenceTypes
<1>1. ASSUME UNCHANGED <<user, base>>, h' = h, l' = l,
             \A t \in Turns : pc'[t] = "chat" => pc[t] = "chat"
      PROVE WebInv'
  BY <1>1
<1>2. ASSUME NEW t \in Turns, StartChat(t) PROVE WebInv'
  BY <1>2, UsersAssumption DEF StartChat, Accept, PlainTypes, SequenceTypes
<1>3. ASSUME NEW t \in Turns, NEW n \in Sizes, AnswerChat(t, n) PROVE WebInv'
  <2>1. n \in Nat /\ Messages(t, n) \in Seq(Turns)
    BY SizesAssumption, MessagesType
  <2>2. CASE user[t] = WebUser
    <3> DEFINE grown == base[t] \o Messages(t, n)
    <3>1. Keeps(base[t], l)
      BY <1>3, <2>2 DEF AnswerChat
    <3>2. /\ history'[WebUser] = Trim(grown)
          /\ log'[WebUser] = l \o Messages(t, n)
      BY <1>3, <2>2, UsersAssumption DEF AnswerChat, SetMessages, SequenceTypes
    <3>3. Keeps(grown, l \o Messages(t, n))
      BY <1>0, <2>1, <3>1, KeepsAppend
    <3>4. grown \in Seq(Turns) /\ l \o Messages(t, n) \in Seq(Turns)
      BY <1>0, <2>1
    <3>5. Trim(grown) \in Seq(Turns) /\ Len(Trim(grown)) <= MaxMessages /\ Keeps(Trim(grown), grown)
      BY <3>4, TrimType
    <3>6. Keeps(Trim(grown), l \o Messages(t, n))
      BY <3>3, <3>4, <3>5, KeepsTrans
    <3>7. \A s \in Turns : user'[s] = WebUser => pc'[s] # "chat"
      <4>1. \A s \in Turns : user[s] = WebUser /\ pc[s] = "chat" => s = t
        BY <1>3, <2>2 DEF AnswerChat, BusyTracked, Running
      <4>2. UNCHANGED user /\ pc'[t] # "chat" /\ \A s \in Turns : s # t => pc'[s] = pc[s]
        BY <1>3 DEF AnswerChat, Finish, CreateSession, PlainTypes
      <4> QED BY <4>1, <4>2
    <3>8. WebKeepsRecent'
      BY <3>2, <3>5, <3>6 DEF Keeps
    <3> QED BY <3>7, <3>8
  <2>3. CASE user[t] # WebUser
    <3>1. h' = h /\ l' = l /\ UNCHANGED user
      BY <1>3, <2>3, UsersAssumption DEF AnswerChat, SetMessages, SequenceTypes
    <3>2. \A s \in Turns : s # t => base'[s] = base[s] /\ pc'[s] = pc[s]
      BY <1>3 DEF AnswerChat, Finish, CreateSession, PlainTypes, SequenceTypes
    <3> QED BY <2>3, <3>1, <3>2
  <2> QED BY <2>2, <2>3
<1>4. ASSUME NEW t \in Turns, Fail(t) PROVE WebInv'
  <2>1. h' = h /\ l' = l /\ UNCHANGED user /\ pc'[t] # "chat"
    BY <1>4 DEF Fail, Finish, PlainTypes
  <2>2. \A s \in Turns : s # t => base'[s] = base[s] /\ pc'[s] = pc[s]
    BY <1>4 DEF Fail, Finish, PlainTypes, SequenceTypes
  <2> QED BY <2>1, <2>2
<1>5. ASSUME NEW t \in Turns, Refuse(t) \/ StartTask(t) \/ Iterate(t) \/ Wake(t) PROVE WebInv'
  <2>1. UNCHANGED conversation /\ UNCHANGED user
    BY <1>5 DEF Refuse, StartTask, Iterate, Wake
  <2>2. \A s \in Turns : pc'[s] = "chat" => pc[s] = "chat"
    BY <1>5 DEF Refuse, StartTask, CreateSession, Iterate, Wake, Finish, PlainTypes
  <2> QED BY <1>1, <2>1, <2>2
<1>6. ASSUME h' = <<>>, l' = <<>>, UNCHANGED <<user, pc, base>> PROVE WebInv'
  BY <1>0, <1>6, KeepsNothing, LimitsAssumption DEF Keeps
<1>7. ASSUME NEW u \in Users, Expire(u) PROVE WebInv'
  <2>1. CASE u = WebUser
    BY <1>6, <1>7, <2>1 DEF Expire, SequenceTypes
  <2>2. CASE u # WebUser
    BY <1>1, <1>7, <2>2, UsersAssumption DEF Expire, SequenceTypes
  <2> QED BY <2>1, <2>2
<1>8. ASSUME NEW u \in Users, Stop(u) PROVE WebInv'
  BY <1>1, <1>8 DEF Stop
<1>9. CASE Reset
  BY <1>6, <1>9, UsersAssumption DEF Reset, SequenceTypes
<1>10. CASE Restart
  <2>1. history'[WebUser] = <<>> /\ log'[WebUser] = <<>>
    BY <1>10, UsersAssumption DEF Restart
  <2>2. \A t \in Turns : pc'[t] # "chat"
    BY <1>10 DEF Restart, Running
  <2> QED BY <2>1, <2>2, LimitsAssumption DEF Keeps
<1>11. CASE UNCHANGED vars
  BY <1>1, <1>11 DEF vars
<1> QED BY <1>2, <1>3, <1>4, <1>5, <1>7, <1>8, <1>9, <1>10, <1>11 DEF Next

(* What was answered on the dashboard is the end of its history.            *)
THEOREM WebHistoryKept == Spec => []WebKeepsRecent
<1>1. Init => WebInv
  BY UsersAssumption, LimitsAssumption DEF Init, WebInv, BaseKeeps, WebKeepsRecent, Keeps
<1>2. WebInv => WebKeepsRecent
  BY DEF WebInv
<1> QED BY <1>1, <1>2, LockIsTracked, TypeInvariant, WebStep, PTL DEF Spec
====
