---- MODULE Dispatcher ----
(***************************************************************************)
(* Dispatcher.execute (dispatcher.ts): one container for each call, with the *)
(* steps between its awaits, any of which Docker may refuse.  The program in *)
(* the container prints lines; a line may be a result that says how the      *)
(* call went, the executors print theirs on stdout.                          *)
(***************************************************************************)
EXTENDS Naturals, Sequences, FiniteSets

CONSTANTS Calls,
          MaxLines   \* bound: lines a program prints

Lines == [stream : {"stdout", "stderr"}, says : {"ok", "failed", "noise"}]
Printed == UNION {[1..n -> Lines] : n \in 0..MaxLines}
NotYet == [lines |-> <<>>, code |-> 99]

VARIABLES
  stage,   \* where execute is, for each call
  box,     \* the container of each call
  exit,    \* what its program printed and its exit code, NotYet while it runs
  told     \* the result of execute

calls == <<stage, box, exit, told>>

CallsInit == /\ stage = [c \in Calls |-> "idle"] /\ box = [c \in Calls |-> "none"]
        /\ exit = [c \in Calls |-> NotYet] /\ told = [c \in Calls |-> "none"]

Go(c, s) == stage' = [stage EXCEPT ![c] = s]
Tell(c, r) == told' = [told EXCEPT ![c] = r]

(* MUTANT of Fail: a failure returns without the finally block *)
FailAtOnce(c) == Tell(c, "error") /\ Go(c, "done")
(* The catch block; the finally block follows if there is a container *)
Fail(c) == Tell(c, "error") /\ Go(c, IF box[c] = "none" THEN "done" ELSE "removing")

Execute(c) == stage[c] = "idle" /\ Go(c, "creating") /\ UNCHANGED <<box, exit, told>>

CreateContainer(c) ==
  /\ stage[c] = "creating" /\ UNCHANGED exit
  /\ \/ box' = [box EXCEPT ![c] = "created"] /\ Go(c, "starting") /\ UNCHANGED told
     \/ Fail(c) /\ UNCHANGED box

StartContainer(c) ==
  /\ stage[c] = "starting" /\ UNCHANGED exit
  /\ \/ box' = [box EXCEPT ![c] = "running"] /\ Go(c, "waiting") /\ UNCHANGED told
     \/ Fail(c) /\ UNCHANGED box

(* The program ends by itself *)
Exits(c) ==
  /\ box[c] = "running" /\ box' = [box EXCEPT ![c] = "exited"]
  /\ \E p \in Printed, n \in {0, 1} : exit' = [exit EXCEPT ![c] = [lines |-> p, code |-> n]]
  /\ UNCHANGED <<stage, told>>

(* waitWithTimeout: the exit, or first the timer or a failure of the wait *)
WaitWithTimeout(c) ==
  /\ stage[c] = "waiting"
  /\ Go(c, "killing") \/ (box[c] = "exited" /\ Go(c, "reading"))
  /\ UNCHANGED <<box, exit, told>>

(* The kill may come too late, or fail *)
Kill(c) ==
  /\ stage[c] = "killing" /\ Tell(c, "timeout") /\ Go(c, "removing")
  /\ box' \in {box, [box EXCEPT ![c] = "exited"]}
  /\ UNCHANGED exit

(* MUTANT of DemuxDockerLogs: the streams are not separated *)
DemuxDockerLogsMixed(p) == DOMAIN p
(* The lines of stdout among those printed, by their positions *)
DemuxDockerLogs(p) == {i \in DOMAIN p : p[i].stream = "stdout"}

(* MUTANT of ParseExecutorResult: the last line, be it a result or not *)
ParseLastLine(p, said) ==
  LET out == DemuxDockerLogs(p) IN
  IF out = {} THEN said = "none" ELSE \E i \in out : (\A j \in out : j <= i) /\ said = p[i].says
(* parseExecutorResult: the last line that is a result says how the call went *)
ParseExecutorResult(p, said) ==
  LET results == {i \in DemuxDockerLogs(p) : p[i].says # "noise"} IN
  IF results = {} THEN said = "none"
  ELSE \E i \in results : (\A j \in results : j <= i) /\ said = p[i].says

(* The result in the logs, or one made of the exit code *)
ReadLogs(c) ==
  /\ stage[c] = "reading" /\ UNCHANGED <<box, exit>>
  /\ \/ \E said \in {"ok", "failed", "noise", "none"} :
          /\ ParseExecutorResult(exit[c].lines, said)
          /\ Tell(c, IF said # "none" THEN said ELSE IF exit[c].code = 0 THEN "ok" ELSE "failed")
          /\ Go(c, "removing")
     \/ Fail(c)

(* Removal by force; a refusal is ignored *)
Remove(c) ==
  /\ stage[c] = "removing" /\ Go(c, "done")
  /\ box' \in {[box EXCEPT ![c] = "removed"], [box EXCEPT ![c] = "stuck"]}
  /\ UNCHANGED <<exit, told>>

(* The gateway dies: nobody looks for the containers of its calls *)
GatewayCrash ==
  /\ stage' = [c \in Calls |-> IF stage[c] \in {"idle", "done"} THEN stage[c] ELSE "lost"]
  /\ stage' # stage /\ UNCHANGED <<box, exit, told>>

CallsNext ==
  \/ \E c \in Calls : \/ Execute(c) \/ CreateContainer(c) \/ StartContainer(c) \/ Exits(c)
                      \/ WaitWithTimeout(c) \/ Kill(c) \/ ReadLogs(c) \/ Remove(c)
  \/ GatewayCrash

CallsSpec == CallsInit /\ [][CallsNext]_calls

DispatcherTypeOK ==
  /\ stage \in [Calls -> {"idle", "creating", "starting", "waiting", "killing", "reading",
                          "removing", "done", "lost"}]
  /\ box \in [Calls -> {"none", "created", "running", "exited", "removed", "stuck"}]
  /\ exit \in [Calls -> {NotYet} \cup [lines : Printed, code : {0, 1}]]
  /\ told \in [Calls -> {"none", "ok", "failed", "timeout", "error"}]

(* The program ended by itself and said on stdout that it succeeded, or said  *)
(* nothing there and exited with 0                                           *)
Succeeded(c) ==
  LET Says(w) == \E i \in DOMAIN exit[c].lines :
                   exit[c].lines[i].stream = "stdout" /\ exit[c].lines[i].says \in w IN
  exit[c] # NotYet /\ (Says({"ok"}) \/ (exit[c].code = 0 /\ ~Says({"ok", "failed"})))

(* A call that returned leaves no container, unless Docker refuses to remove  *)
(* it; and it is told that it succeeded only if its program succeeded         *)
CallsAccounted ==
  \A c \in Calls :
    /\ stage[c] = "done" => box[c] \in {"none", "removed", "stuck"}
    /\ told[c] = "ok" => Succeeded(c)
====
