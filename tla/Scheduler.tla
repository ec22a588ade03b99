---- MODULE Scheduler ----
(***************************************************************************)
(* HeartbeatScheduler (scheduler.ts) and the callback the gateway gives it   *)
(* (index.ts).  Time is left out but for the hops of a delay that setTimeout *)
(* cannot take at once: a timer waits MAX_TIMEOUT once for each hop, then    *)
(* its last part.                                                            *)
(***************************************************************************)
EXTENDS Naturals, FiniteSets

CONSTANTS Heartbeats,
          Unparsable,   \* heartbeats whose schedule parseExpression refuses
          MaxHops,      \* bound: hops of the longest delay
          MaxRuns,      \* bound: runs of one heartbeat in progress
          MaxToggles    \* bound: toggles by the user

VARIABLES
  running,   \* between start and stop
  enabled,   \* config.enabled of each heartbeat
  timer,     \* scheduled.timer of each: the number of a timer, 0 for null
  armed,     \* timers that will fire: [beat, id, hops]
  runs,      \* runs of each in progress
  toggles    \* toggles so far

beats == <<running, enabled, timer, armed, runs, toggles>>

TimerIds == 1..3
None == [h \in Heartbeats |-> 0]

BeatsInit == /\ running = FALSE /\ enabled = [h \in Heartbeats |-> FALSE]
        /\ timer = None /\ armed = {} /\ runs = None /\ toggles = 0

Armed(h) == {t \in armed : t.beat = h}

(* clearTimeout of the timer in the table *)
Cleared(h) == armed \ {t \in Armed(h) : t.id = timer[h]}

(* setTimer: a new timer takes the place in the table, the others stay armed *)
SetTimer(h, others, hops) ==
  LET id == CHOOSE i \in TimerIds : \A t \in others : t.beat = h => t.id # i IN
  /\ timer' = [timer EXCEPT ![h] = id]
  /\ armed' = others \cup {[beat |-> h, id |-> id, hops |-> hops]}

(* MUTANT of ScheduleNext: the existing timer is not cancelled *)
ScheduleNextAgain(h, on) ==
  IF ~on \/ ~running \/ h \in Unparsable THEN UNCHANGED <<timer, armed>>
  ELSE \E hops \in 0..MaxHops : SetTimer(h, armed, hops)
(* scheduleNext: the delay depends on the schedule and the hour *)
ScheduleNext(h, on) ==
  IF ~on \/ ~running THEN UNCHANGED <<timer, armed>>
  ELSE IF h \in Unparsable THEN armed' = Cleared(h) /\ UNCHANGED timer
  ELSE \E hops \in 0..MaxHops : SetTimer(h, Cleared(h), hops)

(* start, in a new process, of what the configuration file says *)
Start ==
  /\ ~running /\ running' = TRUE
  /\ \E hops \in 0..MaxHops :
       /\ enabled' \in [Heartbeats -> BOOLEAN]
       /\ LET on == {h \in Heartbeats \ Unparsable : enabled'[h]} IN
            /\ timer' = [h \in Heartbeats |-> IF h \in on THEN 1 ELSE 0]
            /\ armed' = {[beat |-> h, id |-> 1, hops |-> hops] : h \in on}
  /\ runs' = None /\ UNCHANGED toggles

Stop ==
  /\ running /\ running' = FALSE
  /\ armed' = {t \in armed : t.id # timer[t.beat]}
  /\ timer' = None
  /\ UNCHANGED <<enabled, runs, toggles>>

Toggle(h, on) ==
  /\ running /\ toggles < MaxToggles /\ toggles' = toggles + 1
  /\ enabled' = [enabled EXCEPT ![h] = on]
  /\ IF on THEN ScheduleNext(h, TRUE)
     ELSE armed' = Cleared(h) /\ timer' = [timer EXCEPT ![h] = 0]
  /\ UNCHANGED <<running, runs>>

(* A chained timer sets the next one; it cancels nothing *)
Chains(t) ==
  /\ t.hops > 0 /\ SetTimer(t.beat, armed \ {t}, t.hops - 1)
  /\ UNCHANGED <<running, enabled, runs, toggles>>

(* fire calls the callback and awaits it: the timer in the table is spent *)
Fire(t) ==
  /\ t.hops = 0 /\ armed' = armed \ {t}
  /\ LET begins == enabled[t.beat] /\ running IN
       /\ begins => runs[t.beat] < MaxRuns
       /\ runs' = IF begins THEN [runs EXCEPT ![t.beat] = @ + 1] ELSE runs
  /\ UNCHANGED <<running, enabled, timer, toggles>>

(* The callback ends: there is no user, the answer is broadcast, or the      *)
(* error is logged                                                           *)
CallbackEnds(h) == runs[h] > 0 /\ runs' = [runs EXCEPT ![h] = @ - 1]

(* MUTANT of FireEnds: an error skips the next run *)
FireEndsUnlessFailed(h) ==
  /\ CallbackEnds(h)
  /\ ScheduleNext(h, enabled[h]) \/ UNCHANGED <<timer, armed>>
  /\ UNCHANGED <<running, enabled, toggles>>
FireEnds(h) ==
  /\ CallbackEnds(h) /\ ScheduleNext(h, enabled[h])
  /\ UNCHANGED <<running, enabled, toggles>>

BeatsNext ==
  \/ Start \/ Stop
  \/ \E h \in Heartbeats : (\E on \in BOOLEAN : Toggle(h, on)) \/ FireEnds(h)
  \/ \E t \in armed : Chains(t) \/ Fire(t)

BeatsSpec == BeatsInit /\ [][BeatsNext]_beats

(* The event loop runs the timers that are due, and a run ends: the model    *)
(* and the tools answer or fail, and the gate's wait has a timeout           *)
Due(h) == \E t \in Armed(h) : Chains(t) \/ Fire(t)
Fairness == \A h \in Heartbeats : WF_beats(Due(h)) /\ WF_beats(FireEnds(h))

SchedulerTypeOK ==
  /\ running \in BOOLEAN /\ enabled \in [Heartbeats -> BOOLEAN]
  /\ timer \in [Heartbeats -> 0..3]
  /\ armed \subseteq [beat : Heartbeats, id : TimerIds, hops : 0..MaxHops]
  /\ runs \in [Heartbeats -> 0..MaxRuns] /\ toggles \in 0..MaxToggles

(* A heartbeat never has two timers: the one that is armed is in the table,  *)
(* where a toggle and stop find it, and it is enabled; through toggles while *)
(* a run is in progress, chains of timers and overlapping runs               *)
OneTimer ==
  \A t \in armed : /\ timer[t.beat] = t.id /\ enabled[t.beat] /\ running
                   /\ Armed(t.beat) = {t}

(* An enabled heartbeat with a schedule that parses fires again and again    *)
(* until it is disabled or the scheduler stops, whatever its runs end with   *)
FiresAgain ==
  \A h \in Heartbeats \ Unparsable :
    (running /\ enabled[h]) ~> (runs[h] > 0 \/ ~enabled[h] \/ ~running)
====
