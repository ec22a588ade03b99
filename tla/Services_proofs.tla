---- MODULE Services_proofs ----
(***************************************************************************)
(* Proofs about what runs beside the turns: a heartbeat has one timer at     *)
(* most, the prompt carries what was loaded or approved, and dispatched      *)
(* calls are accounted for.                                                  *)
(***************************************************************************)
EXTENDS Scheduler, PromptFiles, Dispatcher, TLAPS

----
(* Scheduler *)

(* The tables have an entry for each heartbeat, and timers belong to one *)
TableInv == /\ enabled \in [Heartbeats -> BOOLEAN]
            /\ timer \in [Heartbeats -> {0} \cup TimerIds]
            /\ \A t \in armed : t.beat \in Heartbeats

BeatsInv == TableInv /\ OneTimer

(* clearTimeout leaves a heartbeat without an armed timer: the armed one is   *)
(* the one in the table.                                                      *)
LEMMA ClearedHasNone ==
  ASSUME BeatsInv, NEW h \in Heartbeats
  PROVE  /\ Cleared(h) \subseteq armed
         /\ \A t \in armed : t \in Cleared(h) <=> t.beat # h
BY DEF BeatsInv, OneTimer, Cleared, Armed

(* setTimer for a running, enabled heartbeat that has no other armed timer    *)
(* keeps the invariant.                                                       *)
LEMMA SetTimerKeeps ==
  ASSUME BeatsInv, NEW h \in Heartbeats, NEW others \in SUBSET armed, NEW hops,
         \A t \in others : t.beat # h,
         enabled' \in [Heartbeats -> BOOLEAN], enabled'[h],
         \A t \in others : enabled'[t.beat], running',
         SetTimer(h, others, hops)
  PROVE  BeatsInv'
<1> DEFINE id == CHOOSE i \in TimerIds : \A t \in others : t.beat = h => t.id # i
           new == [beat |-> h, id |-> id, hops |-> hops]
<1>1. timer' = [timer EXCEPT ![h] = id] /\ armed' = others \cup {new}
  BY DEF SetTimer
<1>2. id \in TimerIds
  <2>1. \E i \in TimerIds : \A t \in others : t.beat = h => t.id # i
    BY DEF TimerIds
  <2> QED BY <2>1
<1> HIDE DEF id
<1>3. TableInv'
  BY <1>1, <1>2 DEF BeatsInv, TableInv
<1>4. ASSUME NEW t \in armed'
      PROVE  /\ timer'[t.beat] = t.id /\ enabled'[t.beat]
             /\ {u \in armed' : u.beat = t.beat} = {t}
  <2>1. CASE t = new
    BY <1>1, <2>1 DEF BeatsInv, TableInv
  <2>2. CASE t \in others
    <3>1. t \in armed /\ t.beat # h /\ t.beat \in Heartbeats
      BY <2>2 DEF BeatsInv, TableInv
    <3>2. timer'[t.beat] = t.id /\ enabled'[t.beat]
      BY <1>1, <2>2, <3>1 DEF BeatsInv, TableInv, OneTimer
    <3>3. {u \in armed : u.beat = t.beat} = {t}
      BY <3>1 DEF BeatsInv, OneTimer, Armed
    <3>4. {u \in armed' : u.beat = t.beat} = {t}
      BY <1>1, <2>2, <3>1, <3>3
    <3> QED BY <3>2, <3>4
  <2> QED BY <1>1, <2>1, <2>2
<1>5. OneTimer'
  BY <1>4 DEF OneTimer, Armed
<1> QED BY <1>3, <1>5 DEF BeatsInv

(* Armed timers that are a part of the old ones, of heartbeats that stay      *)
(* enabled, keep the invariant.                                               *)
LEMMA FewerKeeps ==
  ASSUME BeatsInv, armed' \subseteq armed,
         enabled' \in [Heartbeats -> BOOLEAN], timer' \in [Heartbeats -> {0} \cup TimerIds],
         \A t \in armed' : timer'[t.beat] = timer[t.beat] /\ enabled'[t.beat] /\ running'
  PROVE  BeatsInv'
<1>1. TableInv'
  BY DEF BeatsInv, TableInv
<1>2. ASSUME NEW t \in armed'
      PROVE  timer'[t.beat] = t.id /\ enabled'[t.beat] /\ running' /\ {u \in armed' : u.beat = t.beat} = {t}
  BY DEF BeatsInv, OneTimer, Armed
<1> QED BY <1>1, <1>2 DEF BeatsInv, OneTimer, Armed

(* scheduleNext keeps the invariant, whether it arms a timer, only cancels    *)
(* the old one or does nothing.                                               *)
LEMMA ScheduleNextKeeps ==
  ASSUME BeatsInv, NEW h \in Heartbeats, UNCHANGED running,
         enabled' \in [Heartbeats -> BOOLEAN], \A g \in Heartbeats : enabled[g] => enabled'[g],
         ScheduleNext(h, enabled'[h])
  PROVE  BeatsInv'
<1>0. TableInv /\ OneTimer
  BY DEF BeatsInv
<1>e. \A t \in armed : enabled'[t.beat] /\ running'
  BY <1>0 DEF TableInv, OneTimer
<1>1. CASE UNCHANGED <<timer, armed>>
  BY <1>0, <1>1, <1>e, FewerKeeps DEF TableInv
<1>2. CASE armed' = Cleared(h) /\ UNCHANGED timer
  BY <1>0, <1>2, <1>e, ClearedHasNone, FewerKeeps DEF TableInv
<1>3. CASE enabled'[h] /\ running /\ \E hops \in 0..MaxHops : SetTimer(h, Cleared(h), hops)
  <2> PICK hops \in 0..MaxHops : SetTimer(h, Cleared(h), hops)
    BY <1>3
  <2>1. Cleared(h) \in SUBSET armed /\ \A t \in Cleared(h) : t.beat # h
    BY ClearedHasNone
  <2> QED BY <1>3, <1>e, <2>1, SetTimerKeeps
<1> QED BY <1>1, <1>2, <1>3 DEF ScheduleNext

(* At the start there is no timer. *)
LEMMA BeatsInvInit == BeatsInit => BeatsInv
BY DEF BeatsInit, BeatsInv, TableInv, OneTimer, None

(* Every step of the scheduler keeps the invariant. *)
LEMMA BeatsInvNext == BeatsInv /\ [BeatsNext]_beats => BeatsInv'
<1> SUFFICES ASSUME BeatsInv, [BeatsNext]_beats PROVE BeatsInv'
  OBVIOUS
<1>0. TableInv /\ OneTimer
  BY DEF BeatsInv
<1>1. CASE Start
  <2> PICK hops \in 0..MaxHops :
         /\ enabled' \in [Heartbeats -> BOOLEAN]
         /\ timer' = [h \in Heartbeats |-> IF h \in {g \in Heartbeats \ Unparsable : enabled'[g]} THEN 1 ELSE 0]
         /\ armed' = {[beat |-> h, id |-> 1, hops |-> hops] : h \in {g \in Heartbeats \ Unparsable : enabled'[g]}}
    BY <1>1 DEF Start
  <2>1. running'
    BY <1>1 DEF Start
  <2>2. TableInv'
    BY DEF TableInv, TimerIds
  <2>3. ASSUME NEW t \in armed'
        PROVE  timer'[t.beat] = t.id /\ enabled'[t.beat] /\ {u \in armed' : u.beat = t.beat} = {t}
    OBVIOUS
  <2> QED BY <2>1, <2>2, <2>3 DEF BeatsInv, OneTimer, Armed
<1>2. CASE Stop
  <2>1. armed' = {}
    BY <1>0, <1>2 DEF Stop, OneTimer
  <2> QED BY <1>0, <1>2, <2>1 DEF Stop, BeatsInv, TableInv, OneTimer, None
<1>3. ASSUME NEW h \in Heartbeats, NEW on \in BOOLEAN, Toggle(h, on) PROVE BeatsInv'
  <2>1. running' = running /\ enabled' = [enabled EXCEPT ![h] = on]
    BY <1>3 DEF Toggle
  <2>2. enabled' \in [Heartbeats -> BOOLEAN] /\ enabled'[h] = on
    BY <1>0, <2>1 DEF TableInv
  <2>3. CASE on
    <3>1. \A g \in Heartbeats : enabled[g] => enabled'[g]
      BY <1>0, <2>1, <2>3 DEF TableInv
    <3>2. ScheduleNext(h, enabled'[h])
      BY <1>3, <2>2, <2>3 DEF Toggle
    <3> QED BY <2>1, <2>2, <3>1, <3>2, ScheduleNextKeeps
  <2>4. CASE ~on
    <3>1. armed' = Cleared(h) /\ timer' = [timer EXCEPT ![h] = 0]
      BY <1>3, <2>4 DEF Toggle
    <3>2. \A t \in armed' : t \in armed /\ t.beat # h /\ t.beat \in Heartbeats
      BY <1>0, <3>1, ClearedHasNone DEF TableInv
    <3>3. \A t \in armed' : timer'[t.beat] = timer[t.beat] /\ enabled'[t.beat] /\ running'
      BY <1>0, <2>1, <3>1, <3>2 DEF TableInv, OneTimer
    <3>4. timer' \in [Heartbeats -> {0} \cup TimerIds]
      BY <1>0, <3>1 DEF TableInv
    <3> QED BY <2>2, <3>2, <3>3, <3>4, FewerKeeps
  <2> QED BY <2>3, <2>4
<1>4. ASSUME NEW h \in Heartbeats, FireEnds(h) PROVE BeatsInv'
  BY <1>0, <1>4, ScheduleNextKeeps DEF FireEnds, TableInv
<1>5. ASSUME NEW t \in armed, Chains(t) PROVE BeatsInv'
  <2>1. SetTimer(t.beat, armed \ {t}, t.hops - 1) /\ UNCHANGED <<running, enabled>>
    BY <1>5 DEF Chains
  <2>2. t.beat \in Heartbeats /\ armed \ {t} \in SUBSET armed
    BY <1>0 DEF TableInv
  <2>3. \A u \in armed \ {t} : u.beat # t.beat
    BY <1>0 DEF OneTimer, Armed
  <2>4. \A u \in armed : enabled'[u.beat] /\ running'
    BY <1>0, <2>1 DEF OneTimer
  <2>5. enabled' \in [Heartbeats -> BOOLEAN]
    BY <1>0, <2>1 DEF TableInv
  <2> QED BY <2>1, <2>2, <2>3, <2>4, <2>5, SetTimerKeeps
<1>6. ASSUME NEW t \in armed, Fire(t) PROVE BeatsInv'
  <2>1. armed' \subseteq armed /\ UNCHANGED <<running, enabled, timer>>
    BY <1>6 DEF Fire
  <2> QED BY <1>0, <2>1, FewerKeeps DEF TableInv, OneTimer
<1>7. CASE UNCHANGED beats
  BY <1>0, <1>7, FewerKeeps DEF beats, TableInv, OneTimer
<1> QED BY <1>1, <1>2, <1>3, <1>4, <1>5, <1>6, <1>7 DEF BeatsNext

(* A heartbeat never has two timers, and the one that is armed is in the      *)
(* table: for any heartbeats, delays, toggles and overlapping runs.           *)
THEOREM OneTimerEach == BeatsSpec => []OneTimer
<1>1. BeatsInv => OneTimer
  BY DEF BeatsInv
<1> QED BY BeatsInvInit, BeatsInvNext, <1>1, PTL DEF BeatsSpec

----
(* PromptFiles *)

(* The hash that is blessed is of what stands, and a skill that was shown is  *)
(* the one that was loaded                                                    *)
FilesInv ==
  /\ blessed = standing
  /\ skills \in [Skills -> [hash : Contents \cup {NoFile}, enabled : BOOLEAN]]
  /\ skillFile \in [Skills -> Contents \cup {NoFile}]
  /\ soulFile \in Contents \cup {NoFile}
  /\ \A x \in shown : x.skill \in Skills /\ x.content = skills[x.skill].hash

(* Reads of skills show only what was loaded, and forget no hash. *)
LEMMA ReadsKeep ==
  ASSUME FilesInv, NEW S \in SUBSET Skills, NEW T \in SUBSET Same(S), ReadSkills(S, T)
  PROVE  FilesInv'
<1>1. /\ UNCHANGED <<soulFile, blessed, standing, skillFile>>
      /\ skills' = [s \in Skills |-> IF s \in S /\ GetSkillContent(s) = "tampered"
                                     THEN [skills[s] EXCEPT !.enabled = FALSE] ELSE skills[s]]
      /\ shown' = shown \cup {[skill |-> s, content |-> skillFile[s]] : s \in T}
  BY DEF ReadSkills, soul
<1>2. \A s \in Skills : skills[s] \in [hash : Contents \cup {NoFile}, enabled : BOOLEAN]
  BY DEF FilesInv
<1>3. \A s \in Skills : /\ skills'[s] \in [hash : Contents \cup {NoFile}, enabled : BOOLEAN]
                        /\ skills'[s].hash = skills[s].hash
  BY <1>1, <1>2
<1>4. skills' \in [Skills -> [hash : Contents \cup {NoFile}, enabled : BOOLEAN]]
  BY <1>1, <1>3
<1>5. \A s \in T : s \in Skills /\ skillFile[s] = skills[s].hash
  BY DEF Same, GetSkillContent
<1>6. ASSUME NEW x \in shown' PROVE x.skill \in Skills /\ x.content = skills'[x.skill].hash
  <2>1. CASE x \in shown
    BY <1>3, <2>1 DEF FilesInv
  <2>2. CASE x \in {[skill |-> s, content |-> skillFile[s]] : s \in T}
    <3> PICK s \in T : x = [skill |-> s, content |-> skillFile[s]]
      BY <2>2
    <3>1. x.skill = s /\ x.content = skillFile[s]
      OBVIOUS
    <3> QED BY <1>3, <1>5, <3>1
  <2> QED BY <1>1, <2>1, <2>2
<1> QED BY <1>1, <1>4, <1>6 DEF FilesInv

(* Nothing was loaded. *)
LEMMA FilesInvInit == FilesInit => FilesInv
BY DEF FilesInit, FilesInv, Absent

(* A replaced soul file is blessed, and stands. *)
LEMMA UpdateKeeps ==
  ASSUME FilesInv, NEW c \in Contents, NEW context, ApplySoulUpdate(c, context)
  PROVE  FilesInv'
BY DEF ApplySoulUpdate, Applied, skill, FilesInv

(* Every step keeps the invariant. *)
LEMMA FilesInvNext ==
  ASSUME AlwaysLoad \subseteq Skills, FilesInv, [FilesNext]_files
  PROVE  FilesInv'
<1>1. CASE StartGateway
  <2>1. /\ blessed' = soulFile /\ standing' = soulFile /\ shown' = {}
        /\ UNCHANGED <<soulFile, skillFile>>
    BY <1>1 DEF StartGateway, LoadSoul, LoadSkills
  <2>2. skills' \in [Skills -> [hash : Contents \cup {NoFile}, enabled : BOOLEAN]]
    <3>1. skills' = [s \in Skills |->
             IF s \in Linked \/ skillFile[s] \in Invalid \cup {NoFile} THEN Absent
             ELSE [hash |-> skillFile[s], enabled |-> s \notin Off]]
      BY <1>1 DEF StartGateway, LoadSkills
    <3>2. \A s \in Skills : skillFile[s] \in Contents \cup {NoFile}
      BY DEF FilesInv
    <3>3. \A s \in Skills : [hash |-> skillFile[s], enabled |-> s \notin Off] \in [hash : Contents \cup {NoFile}, enabled : BOOLEAN]
      BY <3>2
    <3>4. Absent \in [hash : Contents \cup {NoFile}, enabled : BOOLEAN]
      BY DEF Absent
    <3> QED BY <3>1, <3>3, <3>4
  <2> QED BY <2>1, <2>2 DEF FilesInv
<1>2. CASE FormatSkillsSection
  BY <1>2, ReadsKeep DEF FormatSkillsSection
<1>3. ASSUME NEW s \in Skills, HandleSkillTool(s) PROVE FilesInv'
  BY <1>3, ReadsKeep DEF HandleSkillTool
<1>4. CASE Crash
  BY <1>4 DEF Crash, FilesInv, Absent
<1>5. ASSUME NEW c \in Contents, HandleSoulTool(c) \/ UpdateSoul(c) PROVE FilesInv'
  BY <1>5, UpdateKeeps DEF HandleSoulTool, UpdateSoul
<1>6. ASSUME NEW c \in Contents \cup {NoFile}, EditSoul(c) PROVE FilesInv'
  BY <1>6 DEF EditSoul, skill, FilesInv
<1>7. ASSUME NEW c \in Contents \cup {NoFile}, NEW s \in Skills, EditSkill(s, c) PROVE FilesInv'
  BY <1>7 DEF EditSkill, soul, FilesInv
<1>8. CASE UNCHANGED files
  BY <1>8 DEF files, FilesInv
<1> QED BY <1>1, <1>2, <1>3, <1>4, <1>5, <1>6, <1>7, <1>8 DEF FilesNext

(* The prompt carries the identity that was loaded or applied last, or the    *)
(* fallback, and no skill text but what was there at the start: for any       *)
(* contents, skills, edits and crashes.                                       *)
THEOREM PromptIsVerified ==
  ASSUME AlwaysLoad \subseteq Skills
  PROVE  FilesSpec => []PromptVerified
<1>1. FilesInv => PromptVerified
  BY DEF FilesInv, PromptVerified, SoulRead
<1>2. FilesInv /\ [FilesNext]_files => FilesInv'
  BY FilesInvNext
<1> QED BY FilesInvInit, <1>1, <1>2, PTL DEF FilesSpec

----
(* Dispatcher *)

(* Where a call is, what Docker has of it, and what it may be told *)
CallInv(c) ==
  /\ stage[c] \in {"idle", "creating"} => box[c] = "none"
  /\ stage[c] = "starting" => box[c] = "created"
  /\ stage[c] = "reading" => box[c] = "exited"
  /\ stage[c] \in {"waiting", "reading"} /\ box[c] = "exited" => exit[c] # NotYet
  /\ stage[c] = "done" => box[c] \in {"none", "removed", "stuck"}
  /\ told[c] = "ok" => /\ stage[c] \in {"removing", "done", "lost"} /\ box[c] # "running"
                       /\ Succeeded(c)

CallsInv == DispatcherTypeOK /\ \A c \in Calls : CallInv(c)

(* What the parser returns is a result of stdout, or that there is none. *)
LEMMA ParsedIsSaid ==
  ASSUME NEW p \in Printed, NEW said, ParseExecutorResult(p, said)
  PROVE  \/ said # "noise" /\ \E i \in DOMAIN p : p[i].stream = "stdout" /\ p[i].says = said
         \/ said = "none" /\ \A i \in DOMAIN p : p[i].stream = "stdout" => p[i].says = "noise"
BY DEF ParseExecutorResult, DemuxDockerLogs

(* No call was made. *)
LEMMA CallsInvInit == CallsInit => CallsInv
BY DEF CallsInit, CallsInv, CallInv, DispatcherTypeOK

(* Every step of a call, of its container and of the gateway keeps it. *)
LEMMA CallsInvNext == CallsInv /\ [CallsNext]_calls => CallsInv'
<1> SUFFICES ASSUME CallsInv, [CallsNext]_calls PROVE CallsInv'
  OBVIOUS
<1> USE DEF CallsInv, DispatcherTypeOK
<1>1. ASSUME NEW c \in Calls, Execute(c) PROVE CallsInv'
  BY <1>1 DEF Execute, Go, CallInv, Succeeded
<1>2. ASSUME NEW c \in Calls, CreateContainer(c) PROVE CallsInv'
  BY <1>2 DEF CreateContainer, Fail, Tell, Go, CallInv, Succeeded
<1>3. ASSUME NEW c \in Calls, StartContainer(c) PROVE CallsInv'
  BY <1>3 DEF StartContainer, Fail, Tell, Go, CallInv, Succeeded
<1>4. ASSUME NEW c \in Calls, Exits(c) PROVE CallsInv'
  <2> PICK p \in Printed, n \in {0, 1} : exit' = [exit EXCEPT ![c] = [lines |-> p, code |-> n]]
    BY <1>4 DEF Exits
  <2> DEFINE e == [lines |-> p, code |-> n]
  <2>1. e \in [lines : Printed, code : {0, 1}] /\ e # NotYet
    BY DEF NotYet
  <2> HIDE DEF e
  <2>2. box' = [box EXCEPT ![c] = "exited"] /\ box[c] = "running" /\ UNCHANGED <<stage, told>>
    BY <1>4 DEF Exits
  <2>3. exit' = [exit EXCEPT ![c] = e]
    BY DEF e
  <2>4. DispatcherTypeOK'
    <3>1. exit' \in [Calls -> {NotYet} \cup [lines : Printed, code : {0, 1}]]
      BY <2>1, <2>3
    <3>2. stage' = stage /\ told' = told /\ box' \in [Calls -> {"none", "created", "running", "exited", "removed", "stuck"}]
      BY <2>2
    <3> QED BY <3>1, <3>2
  <2>5. \A d \in Calls : CallInv(d)'
    BY <2>1, <2>2, <2>3 DEF CallInv, Succeeded
  <2> QED BY <2>4, <2>5
<1>5. ASSUME NEW c \in Calls, WaitWithTimeout(c) PROVE CallsInv'
  BY <1>5 DEF WaitWithTimeout, Go, CallInv, Succeeded
<1>6. ASSUME NEW c \in Calls, Kill(c) PROVE CallsInv'
  BY <1>6 DEF Kill, Tell, Go, CallInv, Succeeded
<1>7. ASSUME NEW c \in Calls, ReadLogs(c) PROVE CallsInv'
  <2>1. CASE Fail(c) /\ UNCHANGED <<box, exit>> /\ stage[c] = "reading"
    BY <2>1 DEF Fail, Tell, Go, CallInv, Succeeded
  <2>2. ASSUME NEW said, ParseExecutorResult(exit[c].lines, said), said \in {"ok", "failed", "noise", "none"},
               Tell(c, IF said # "none" THEN said ELSE IF exit[c].code = 0 THEN "ok" ELSE "failed"),
               Go(c, "removing"), UNCHANGED <<box, exit>>, stage[c] = "reading"
        PROVE  CallsInv'
    <3>1. exit[c].lines \in Printed
      <4>1. exit[c] # NotYet
        BY <2>2 DEF CallInv
      <4> QED BY <4>1
    <3> DEFINE r == IF said # "none" THEN said ELSE IF exit[c].code = 0 THEN "ok" ELSE "failed"
    <3>2. r \in {"ok", "failed"}
      BY <2>2, <3>1, ParsedIsSaid
    <3>3. exit[c] # NotYet
      BY <2>2 DEF CallInv
    <3>4. \A i \in DOMAIN exit[c].lines : exit[c].lines[i].says # "none"
      BY <3>1 DEF Printed, Lines
    <3>5. r = "ok" => Succeeded(c)
      BY <2>2, <3>1, <3>3, <3>4, ParsedIsSaid DEF Succeeded
    <3> HIDE DEF r
    <3>6. told' = [told EXCEPT ![c] = r] /\ stage' = [stage EXCEPT ![c] = "removing"]
      BY <2>2 DEF Tell, Go, r
    <3> QED BY <2>2, <3>2, <3>5, <3>6 DEF CallInv, Succeeded
  <2> QED BY <1>7, <2>1, <2>2 DEF ReadLogs
<1>8. ASSUME NEW c \in Calls, Remove(c) PROVE CallsInv'
  BY <1>8 DEF Remove, Go, CallInv, Succeeded
<1>9. CASE GatewayCrash
  BY <1>9 DEF GatewayCrash, CallInv, Succeeded
<1>10. CASE UNCHANGED calls
  BY <1>10 DEF calls, CallInv, Succeeded
<1> QED BY <1>1, <1>2, <1>3, <1>4, <1>5, <1>6, <1>7, <1>8, <1>9, <1>10 DEF CallsNext

(* A call that returned leaves no container, unless Docker refuses to remove  *)
(* it, and is told of a success only if its program succeeded: for any calls, *)
(* outputs, failures of Docker and crashes.                                   *)
THEOREM CallsAreAccounted == CallsSpec => []CallsAccounted
<1>1. CallsInv => CallsAccounted
  BY DEF CallsInv, CallInv, CallsAccounted
<1> QED BY CallsInvInit, <1>1, CallsInvNext, PTL DEF CallsSpec
====
