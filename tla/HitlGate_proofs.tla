---- MODULE HitlGate_proofs ----
(***************************************************************************)
(* Theorems about HitlGate, for every value of its constants.              *)
(*                                                                         *)
(* The invariants are proved in layers; each layer may use the ones before *)
(* it: types, then what is fresh and what is pending, then the records,    *)
(* then the answers, then what answers justify.                            *)
(***************************************************************************)
EXTENDS HitlGate, TLAPS

(* A gate is a pair of a call and a kind. *)
LEMMA GatePairs ==
  ASSUME NEW g \in Gates
  PROVE  g[1] \in Calls /\ g[2] \in Kinds /\ g = <<g[1], g[2]>>
  BY DEF Gates

(* Each call has a gate of both kinds. *)
LEMMA GateOf ==
  ASSUME NEW c \in Calls
  PROVE  <<c, "tool">> \in Gates /\ <<c, "domain">> \in Gates
  BY DEF Gates, Kinds

----
(* Types *)

(* A call of gate() keeps the types of what it changes. *)
LEMMA GateTypes ==
  ASSUME TypeOK, NEW g \in Gates, Gate(g)
  PROVE  /\ phase' \in [Calls -> Phases]
         /\ pending' \subseteq Gates /\ timers' \subseteq Gates
         /\ promise' \in [Gates -> Outcomes]
         /\ result' \in [Gates -> Outcomes]
         /\ store' \in [Gates -> Statuses]
         /\ sent' \subseteq Broadcasts \X Gates
  <1> USE DEF TypeOK
  <1>1. phase' \in [Calls -> Phases]
    BY GatePairs DEF Gate, Phases, Kinds
  <1>2. CASE PassGate(g)
    BY <1>1, <1>2 DEF PassGate, gateVars, Outcomes, Broadcasts
  <1>3. CASE AskGate(g)
    BY <1>1, <1>3 DEF AskGate, Statuses, Broadcasts
  <1> QED BY <1>2, <1>3 DEF Gate

(* The fields of a request, and what a gate is asked about, have their types. *)
LEMMA UserTypes ==
  ASSUME TypeOK
  PROVE  /\ \A c \in Calls : req[c].user \in Users /\ req[c].key \in Keys
                             /\ req[c].tool \in Tools
         /\ \A g \in Gates : User(g) \in Users /\ Tool(g) \in Tools
                             /\ PatternKey(g) \in Keys
  <1>1. \A c \in Calls : req[c] \in RequestType
    BY RequestsAssumption DEF TypeOK
  <1>2. \A c \in Calls : req[c].user \in Users /\ req[c].key \in Keys
                         /\ req[c].tool \in Tools
    BY <1>1 DEF RequestType
  <1> QED BY <1>2, GatePairs, ToolsAssumption, KeysAssumption
          DEF User, Tool, PatternKey

(* No action of the gate takes a variable out of its type. *)
THEOREM TypeStep == TypeOK /\ [Next]_vars => TypeOK'
  <1> SUFFICES ASSUME TypeOK, [Next]_vars PROVE TypeOK'
    OBVIOUS
  <1> USE DEF TypeOK
  <1>1. ASSUME NEW c \in Calls, Begin(c) PROVE TypeOK'
    BY <1>1, UserTypes DEF Begin, gateVars, Phases
  <1>2. ASSUME NEW c \in Calls, CallTool(c) PROVE TypeOK'
    BY <1>2, GateTypes, GateOf DEF CallTool
  <1>3. ASSUME NEW c \in Calls, PreFlight(c) PROVE TypeOK'
    BY <1>3, GateTypes, GateOf DEF PreFlight
  <1>4. ASSUME NEW c \in Calls, Dispatch(c), domains' \in [Users -> SUBSET Keys]
        PROVE TypeOK'
    BY <1>4, UserTypes, DomainsAssumption DEF Dispatch, gateVars, Phases
  <1>5. ASSUME NEW c \in Calls, DispatchNow(c) PROVE TypeOK'
    BY <1>4, <1>5 DEF DispatchNow
  <1>6. ASSUME NEW c \in Calls, AddDomain(c) PROVE TypeOK'
    BY <1>4, <1>6, UserTypes DEF AddDomain
  <1>7. ASSUME NEW c \in Calls, End(c) PROVE TypeOK'
    BY <1>7, UserTypes DEF End, gateVars, Phases
  <1>8. ASSUME NEW g \in Gates, Resume(g) PROVE TypeOK'
    BY <1>8 DEF Resume, gateVars, Outcomes, Statuses
  <1>9. ASSUME NEW g \in Gates, Refuse(g) PROVE TypeOK'
    BY <1>9, GatePairs DEF Refuse, gateVars, Phases
  <1>10. ASSUME NEW g \in Gates, Timeout(g) PROVE TypeOK'
    BY <1>10 DEF Timeout, Settle, FirstAnswer, gateVars, Outcomes, Statuses, Broadcasts
  <1>11. ASSUME NEW g \in Gates, NEW d \in Decisions, ResolveApproval(g, d)
         PROVE TypeOK'
    <2>1. first' \in [Gates -> Decisions \cup {"none", "timeout"}]
      BY <1>11 DEF ResolveApproval, FirstAnswer
    <2>2. CASE Accept(g, d)
      <3>1. [tool |-> Tool(g), key |-> PatternKey(g), gate |-> g] \in Grants
        BY UserTypes DEF Grants
      <3>2. grants' \in [Users -> SUBSET Grants]
        BY <2>2, <3>1, UserTypes DEF Accept, GrantOf
      <3>3. promise' \in [Gates -> Outcomes]
        BY <2>2 DEF Accept, Settle, Outcomes, Decisions
      <3> QED BY <1>11, <2>1, <2>2, <3>2, <3>3 DEF ResolveApproval, Accept
    <2>3. CASE UNCHANGED <<gateVars, grants>>
      BY <1>11, <2>1, <2>3 DEF ResolveApproval, gateVars
    <2> QED BY <1>11, <2>2, <2>3 DEF ResolveApproval
  <1>12. ASSUME NEW u \in Users, Idle(u) PROVE TypeOK'
    BY <1>12 DEF Idle, gateVars
  <1>13. CASE Sweep
    BY <1>13 DEF Sweep, SweepSome, gateVars, Statuses
  <1>14. CASE Cleanup
    BY <1>14 DEF Cleanup, gateVars
  <1>15. CASE Restart
    BY <1>15, BoundAssumption DEF Restart, Phases
  <1>16. CASE UNCHANGED vars
    BY <1>16 DEF vars, gateVars
  <1> QED
    BY <1>1, <1>2, <1>3, <1>5, <1>6, <1>7, <1>8, <1>9, <1>10, <1>11, <1>12, <1>13,
       <1>14, <1>15, <1>16 DEF Next

(* Type correctness. *)
THEOREM TypeCorrect == Spec => []TypeOK
  <1>1. Init => TypeOK
    BY BoundAssumption DEF Init, TypeOK, Phases, Outcomes, Statuses
  <1> QED BY <1>1, TypeStep, PTL DEF Spec

----
(* What is fresh and what is pending *)

(* A gate the call has not reached is untouched: nobody can have answered it. *)
NotAsked(g) == \/ phase[g[1]] \in {"idle", "called"}
               \/ g[2] = "domain" /\ phase[g[1]] = "tool"

FreshInv ==
  \A g \in Gates : NotAsked(g) =>
    promise[g] = "none" /\ result[g] = "none" /\ store[g] = "absent" /\ first[g] = "none"

(* Gate(g) touches nothing but g and the phase of its call. *)
LEMMA GateFrame ==
  ASSUME TypeOK, NEW g \in Gates, Gate(g)
  PROVE  /\ phase' = [phase EXCEPT ![g[1]] = g[2]]
         /\ promise' = promise
         /\ \A h \in Gates : h # g => /\ result'[h] = result[h]
                                      /\ store'[h] = store[h]
                                      /\ h \in pending' <=> h \in pending
                                      /\ h \in timers' <=> h \in timers
  BY DEF TypeOK, Gate, PassGate, AskGate, gateVars

(* An unasked gate is asked: FreshInv and PendingTracked hold after Gate(g). *)
LEMMA GateTracked ==
  ASSUME TypeOK, FreshInv, PendingTracked, NEW g \in Gates, Gate(g), NotAsked(g),
         g[2] = "tool" => phase[g[1]] # "tool",
         g[2] = "domain" => result[<<g[1], "tool">>] # "none",
         UNCHANGED first
  PROVE  FreshInv' /\ PendingTracked'
  <1>1. promise[g] = "none" /\ result[g] = "none" /\ g \notin pending /\ g \notin timers
    BY GatePairs DEF FreshInv, PendingTracked, Waits, NotAsked, Kinds
  <1>2. \A h \in Gates : h[1] # g[1] => phase'[h[1]] = phase[h[1]]
    BY GatePairs, GateFrame DEF TypeOK
  <1>3. phase'[g[1]] = g[2]
    BY GatePairs, GateFrame DEF TypeOK
  <1>4. FreshInv'
    <2> SUFFICES ASSUME NEW h \in Gates, NotAsked(h)'
                 PROVE  /\ promise'[h] = "none" /\ result'[h] = "none"
                        /\ store'[h] = "absent" /\ first'[h] = "none"
      BY DEF FreshInv
    <2>1. h # g
      BY <1>3, GatePairs DEF NotAsked, Kinds
    <2>2. NotAsked(h)
      <3>1. CASE h[1] # g[1]
        BY <1>2, <3>1 DEF NotAsked
      <3>2. CASE h[1] = g[1]
        <4>1. h[2] = "domain" /\ g[2] = "tool"
          BY <1>3, <2>1, <3>2, GatePairs DEF NotAsked, Kinds
        <4> QED BY <3>2, <4>1 DEF NotAsked
      <3> QED BY <3>1, <3>2
    <2> QED BY <2>1, <2>2, GateFrame DEF FreshInv
  <1>5. PendingTracked'
    <2>1. ASSUME NEW h \in Gates, h # g
          PROVE  h \in pending' <=> Waits(h)'
      <3>1. h \in pending <=> Waits(h)
        BY DEF PendingTracked
      <3>2. CASE h[1] # g[1]
        BY <1>2, <2>1, <3>1, <3>2, GateFrame DEF Waits
      <3>3. CASE h[1] = g[1]
        <4>1. ~Waits(h)'
          BY <1>3, <2>1, <3>3, GatePairs DEF Waits
        <4>2. ~Waits(h)
          BY <2>1, <3>3, GatePairs DEF Waits, NotAsked, Kinds
        <4> QED BY <2>1, <3>1, <4>1, <4>2, GateFrame
      <3> QED BY <3>2, <3>3
    <2>2. g \in pending' <=> Waits(g)'
      <3>1. CASE PassGate(g)
        BY <1>1, <3>1 DEF PassGate, Waits, gateVars, TypeOK
      <3>2. CASE AskGate(g)
        BY <1>1, <1>3, <3>2 DEF AskGate, Waits
      <3> QED BY <3>1, <3>2 DEF Gate
    <2>3. timers' = pending'
      BY DEF Gate, PassGate, AskGate, gateVars, PendingTracked
    <2> QED BY <2>1, <2>2, <2>3 DEF PendingTracked
  <1> QED BY <1>4, <1>5

TrackInv == FreshInv /\ PendingTracked

(* No action leaves a card pending that nobody waits at, or a wait without *)
(* card and timer. *)
THEOREM TrackStep == TypeOK /\ TrackInv /\ [Next]_vars => TrackInv'
  <1> SUFFICES ASSUME TypeOK, FreshInv, PendingTracked, [Next]_vars
               PROVE  FreshInv' /\ PendingTracked'
    BY DEF TrackInv
  <1>1. ASSUME NEW c \in Calls, Begin(c) PROVE FreshInv' /\ PendingTracked'
    BY <1>1, GatePairs DEF Begin, gateVars, TypeOK, FreshInv, PendingTracked, NotAsked,
                           Waits, Kinds
  <1>2. ASSUME NEW c \in Calls, CallTool(c) PROVE FreshInv' /\ PendingTracked'
    BY <1>2, GateOf, GateTracked DEF CallTool, NotAsked
  <1>3. ASSUME NEW c \in Calls, PreFlight(c) PROVE FreshInv' /\ PendingTracked'
    BY <1>3, GateOf, GateTracked DEF PreFlight, NotAsked
  (* A step that only moves the phase of a call no gate of which waits *)
  <1>4. ASSUME NEW c \in Calls, NEW p \in {"ran", "refused", "over"},
               phase' = [phase EXCEPT ![c] = p],
               \A g \in Gates : g[1] = c => ~Waits(g),
               UNCHANGED <<gateVars, result, store, first>>
        PROVE  FreshInv' /\ PendingTracked'
    BY <1>4, GatePairs DEF gateVars, TypeOK, FreshInv, PendingTracked, NotAsked, Waits,
                           Kinds
  <1>5. ASSUME NEW c \in Calls, DispatchNow(c) PROVE FreshInv' /\ PendingTracked'
    <2>1. \A g \in Gates : g[1] = c => ~Waits(g)
      BY <1>5, GatePairs DEF DispatchNow, Waits
    <2> QED BY <1>4, <1>5, <2>1 DEF DispatchNow, Dispatch
  <1>6. ASSUME NEW c \in Calls, AddDomain(c) PROVE FreshInv' /\ PendingTracked'
    <2>1. \A g \in Gates : g[1] = c => ~Waits(g)
      BY <1>6, GatePairs DEF AddDomain, Waits
    <2> QED BY <1>4, <1>6, <2>1 DEF AddDomain, Dispatch
  <1>7. ASSUME NEW c \in Calls, End(c) PROVE FreshInv' /\ PendingTracked'
    <2>1. \A g \in Gates : g[1] = c => ~Waits(g)
      BY <1>7, GatePairs DEF End, Waits, Kinds
    <2> QED BY <1>4, <1>7, <2>1 DEF End
  <1>8. ASSUME NEW g \in Gates, Resume(g) PROVE FreshInv' /\ PendingTracked'
    <2>1. ~NotAsked(g) /\ ~Waits(g)
      BY <1>8, GatePairs DEF Resume, NotAsked, Waits, Kinds
    <2>2. ~Waits(g)'
      BY <1>8 DEF Resume, Waits, gateVars
    <2> QED BY <1>8, <2>1, <2>2 DEF Resume, gateVars, TypeOK, FreshInv, PendingTracked,
                                   NotAsked, Waits
  <1>9. ASSUME NEW g \in Gates, Refuse(g) PROVE FreshInv' /\ PendingTracked'
    <2>1. \A h \in Gates : h[1] = g[1] => ~Waits(h)
      BY <1>9, GatePairs DEF Refuse, Waits
    <2> QED BY <1>4, <1>9, <2>1, GatePairs DEF Refuse
  <1>10. ASSUME NEW g \in Gates, Timeout(g) PROVE FreshInv' /\ PendingTracked'
    <2>1. g \in pending /\ Waits(g) /\ ~NotAsked(g)
      BY <1>10, GatePairs DEF Timeout, PendingTracked, Waits, NotAsked, Kinds
    <2>2. promise' = [promise EXCEPT ![g] = "rejected"]
      BY <1>10, <2>1 DEF Timeout, Settle, Waits, TypeOK
    <2>3. FreshInv'
      BY <1>10, <2>1, <2>2 DEF Timeout, FirstAnswer, FreshInv, NotAsked, TypeOK
    <2>4. PendingTracked'
      BY <1>10, <2>1, <2>2 DEF Timeout, PendingTracked, Waits, TypeOK
    <2> QED BY <2>3, <2>4
  <1>11. ASSUME NEW g \in Gates, NEW d \in Decisions, ResolveApproval(g, d)
         PROVE FreshInv' /\ PendingTracked'
    <2>1. ~NotAsked(g)
      BY <1>11 DEF ResolveApproval, FreshInv
    <2>2. CASE Accept(g, d)
      <3>1. Waits(g)
        BY <2>2 DEF Accept, PendingTracked
      <3>2. \E o \in {"approved", "rejected"} : promise' = [promise EXCEPT ![g] = o]
        BY <2>2, <3>1 DEF Accept, Settle, Waits, TypeOK, Decisions
      <3>3. FreshInv'
        BY <1>11, <2>1, <3>2 DEF ResolveApproval, FirstAnswer, FreshInv, NotAsked, TypeOK
      <3>4. PendingTracked'
        BY <1>11, <2>2, <3>2 DEF ResolveApproval, Accept, PendingTracked, Waits, TypeOK
      <3> QED BY <3>3, <3>4
    <2>3. CASE UNCHANGED <<gateVars, grants>>
      BY <1>11, <2>1, <2>3 DEF ResolveApproval, FirstAnswer, FreshInv, NotAsked, TypeOK,
                               PendingTracked, Waits, gateVars
    <2> QED BY <1>11, <2>2, <2>3 DEF ResolveApproval
  <1>12. ASSUME NEW u \in Users, Idle(u) PROVE FreshInv' /\ PendingTracked'
    BY <1>12 DEF Idle, gateVars, FreshInv, NotAsked, PendingTracked, Waits
  <1>13. CASE Sweep
    BY <1>13 DEF Sweep, SweepSome, gateVars, FreshInv, NotAsked, PendingTracked, Waits
  <1>14. CASE Cleanup
    BY <1>14 DEF Cleanup, gateVars, FreshInv, NotAsked, PendingTracked, Waits
  <1>15. CASE Restart
    BY <1>15, GatePairs DEF Restart, FreshInv, NotAsked, PendingTracked, Waits, Kinds
  <1>16. CASE UNCHANGED vars
    BY <1>16 DEF vars, gateVars, FreshInv, NotAsked, PendingTracked, Waits
  <1> QED
    BY <1>1, <1>2, <1>3, <1>5, <1>6, <1>7, <1>8, <1>9, <1>10, <1>11, <1>12, <1>13,
       <1>14, <1>15, <1>16 DEF Next

(* pendingDecisions holds the gates some call waits at, no more and no less, *)
(* each with its timer.                                                      *)
THEOREM PendingAlwaysTracked == Spec => []PendingTracked
  <1>1. Init => TrackInv
    BY GatePairs DEF Init, TrackInv, FreshInv, PendingTracked, Waits, Kinds
  <1>2. TrackInv => PendingTracked
    BY DEF TrackInv
  <1> QED BY <1>1, <1>2, TypeCorrect, TrackStep, PTL DEF Spec

----
(* Records *)

(* RecordAgrees is not inductive: the other half says that a settled record *)
(* belongs to a gate that has returned, so that no later write touches it.  *)
RecordInv ==
  /\ RecordAgrees
  /\ \A g \in Gates : store[g] \in {"approved", "rejected"} => result[g] = store[g]

(* No action parts the record of a gate that returned from its answer. *)
THEOREM RecordStep ==
  TypeOK /\ TrackInv /\ RecordInv /\ [Next]_vars =>
    /\ RecordInv'
    /\ \A g \in Gates : store[g] \in {"approved", "rejected"} => store'[g] = store[g]
  <1> SUFFICES ASSUME TypeOK, FreshInv, PendingTracked, RecordInv, [Next]_vars
               PROVE  /\ RecordInv'
                      /\ \A g \in Gates : store[g] \in {"approved", "rejected"} =>
                            store'[g] = store[g]
    BY DEF TrackInv
  <1> DEFINE Goal == /\ RecordInv'
                     /\ \A g \in Gates : store[g] \in {"approved", "rejected"} =>
                           store'[g] = store[g]
  <1> USE DEF RecordInv, RecordAgrees
  <1>1. CASE UNCHANGED <<store, result>>
    BY <1>1
  <1>2. ASSUME NEW g \in Gates, Gate(g), NotAsked(g) PROVE Goal
    <2>1. store[g] = "absent" /\ result[g] = "none"
      BY <1>2 DEF FreshInv
    <2>2. \/ store'[g] = "absent"
          \/ store'[g] = "pending" /\ result'[g] = "none"
      BY <1>2, <2>1 DEF Gate, PassGate, AskGate, TypeOK
    <2> QED BY <1>2, <2>1, <2>2, GateFrame
  <1>3. ASSUME NEW c \in Calls, CallTool(c) PROVE Goal
    BY <1>2, <1>3, GateOf DEF CallTool, NotAsked
  <1>4. ASSUME NEW c \in Calls, PreFlight(c) PROVE Goal
    BY <1>2, <1>4, GateOf DEF PreFlight, NotAsked
  <1>5. ASSUME NEW g \in Gates, Resume(g) PROVE Goal
    BY <1>5 DEF Resume, TypeOK, Outcomes
  <1>6. ASSUME NEW g \in Gates, Timeout(g) PROVE Goal
    <2>1. result[g] = "none"
      BY <1>6 DEF Timeout, PendingTracked, Waits
    <2> QED BY <1>6, <2>1 DEF Timeout, TypeOK
  <1>7. CASE Sweep
    BY <1>7 DEF Sweep, SweepSome, TypeOK, Outcomes
  <1>8. ASSUME NEW c \in Calls, Begin(c) \/ DispatchNow(c) \/ AddDomain(c) \/ End(c)
        PROVE UNCHANGED <<store, result>>
    BY <1>8 DEF Begin, DispatchNow, AddDomain, Dispatch, End
  <1>9. ASSUME NEW g \in Gates,
               Refuse(g) \/ \E d \in Decisions : ResolveApproval(g, d)
        PROVE UNCHANGED <<store, result>>
    BY <1>9 DEF Refuse, ResolveApproval
  <1>10. ASSUME \/ \E u \in Users : Idle(u)
                \/ Cleanup \/ Restart \/ UNCHANGED vars
         PROVE UNCHANGED <<store, result>>
    BY <1>10 DEF Idle, Cleanup, Restart, vars
  <1> QED
    BY <1>1, <1>3, <1>4, <1>5, <1>6, <1>7, <1>8, <1>9, <1>10 DEF Next

(* The record of a gate that returned says what it returned. *)
THEOREM RecordsAgree == Spec => []RecordAgrees
  <1>1. Init => TrackInv /\ RecordInv
    BY GatePairs DEF Init, TrackInv, FreshInv, PendingTracked, Waits, Kinds, RecordInv,
                     RecordAgrees
  <1>2. RecordInv => RecordAgrees
    BY DEF RecordInv
  <1> QED BY <1>1, <1>2, TypeCorrect, TrackStep, RecordStep, PTL DEF Spec

(* An approved or rejected record never changes again. *)
THEOREM SettledIsFinal == Spec => SettledFinal
  <1>1. Init => TrackInv /\ RecordInv
    BY GatePairs DEF Init, TrackInv, FreshInv, PendingTracked, Waits, Kinds, RecordInv,
                     RecordAgrees
  <1>2. TypeOK /\ TrackInv /\ RecordInv /\ [Next]_vars =>
          [\A g \in Gates : store[g] \in {"approved", "rejected"} =>
             store'[g] = store[g]]_vars
    BY RecordStep
  <1> QED BY <1>1, <1>2, TypeCorrect, TrackStep, RecordStep, PTL DEF Spec, SettledFinal

----
(* Answers *)

(* Requests are fixed; answers, broadcasts and runs are never taken back. *)
LEMMA Monotone ==
  ASSUME TypeOK, [Next]_vars
  PROVE  /\ req' = req
         /\ \A g \in Gates : first[g] # "none" => first'[g] = first[g]
         /\ sent \subseteq sent'
         /\ ran \subseteq ran'
  <1> DEFINE Goal == /\ req' = req
                     /\ \A g \in Gates : first[g] # "none" => first'[g] = first[g]
                     /\ sent \subseteq sent'
                     /\ ran \subseteq ran'
  <1>1. ASSUME NEW c \in Calls, Begin(c) \/ End(c) PROVE Goal
    BY <1>1 DEF Begin, End
  <1>2. ASSUME NEW c \in Calls, CallTool(c) \/ PreFlight(c) PROVE Goal
    BY <1>2 DEF CallTool, PreFlight, Gate, PassGate, AskGate
  <1>3. ASSUME NEW c \in Calls, DispatchNow(c) \/ AddDomain(c) PROVE Goal
    BY <1>3 DEF DispatchNow, AddDomain, Dispatch
  <1>4. ASSUME NEW g \in Gates, Resume(g) \/ Refuse(g) PROVE Goal
    BY <1>4 DEF Resume, Refuse
  <1>5. ASSUME NEW g \in Gates, Timeout(g) PROVE Goal
    BY <1>5 DEF Timeout, FirstAnswer, TypeOK
  <1>6. ASSUME NEW g \in Gates, NEW d \in Decisions, ResolveApproval(g, d) PROVE Goal
    BY <1>6 DEF ResolveApproval, FirstAnswer, TypeOK
  <1>7. ASSUME \/ \E u \in Users : Idle(u)
               \/ Sweep \/ Cleanup \/ Restart \/ UNCHANGED vars
        PROVE Goal
    BY <1>7 DEF Idle, Sweep, SweepSome, Cleanup, Restart, vars
  <1> QED BY <1>1, <1>2, <1>3, <1>4, <1>5, <1>6, <1>7 DEF Next

(* What stays true once it is true *)
LEMMA Lasting ==
  ASSUME TypeOK, [Next]_vars
  PROVE  \A g \in Gates :
           /\ User(g)' = User(g) /\ Tool(g)' = Tool(g) /\ PatternKey(g)' = PatternKey(g)
           /\ BaseTier(g)' = BaseTier(g)
           /\ Approves(g) => Approves(g)'
           /\ Noticed(g) => Noticed(g)'
           /\ LetThrough(g) => LetThrough(g)'
  BY Monotone DEF User, Tool, PatternKey, BaseTier, Approves, Noticed, LetThrough

(* A soul update is never let through without asking. *)
LEMMA SoulAsks ==
  ASSUME NEW g \in Gates, Tool(g) = Soul
  PROVE  Tier(g) = "require-approval"
  <1>1. g[2] = "tool" /\ req[g[1]].tool = Soul
    BY GatePairs, ToolsAssumption DEF Tool, Kinds
  <1>2. BaseTier(g) = "require-approval"
    BY <1>1 DEF BaseTier
  <1> QED BY <1>2, ToolsAssumption DEF Tier, TrustedTarget

(* Why gate() let a call through *)
PassedBy(g) ==
  \/ Approves(g)
  \/ store[g] = "absent" /\ Tool(g) # Soul /\ (BaseTier(g) = "auto-approve" \/ Noticed(g))

AnswerInv ==
  /\ \A g \in Gates : g \in pending => first[g] = "none"
  /\ \A g \in Gates : promise[g] = "approved" => Approves(g)
  /\ \A g \in Gates : result[g] = "approved" => PassedBy(g)

(* No action settles a promise, or returns a result, that the first answer *)
(* does not explain. *)
THEOREM AnswerStep ==
  TypeOK /\ TrackInv /\ AnswerInv /\ [Next]_vars => AnswerInv'
  <1> SUFFICES ASSUME TypeOK, FreshInv, PendingTracked, AnswerInv, [Next]_vars
               PROVE  AnswerInv'
    BY DEF TrackInv
  <1>0. \A g \in Gates : /\ Approves(g) => Approves(g)'
                         /\ store'[g] = store[g] /\ PassedBy(g) => PassedBy(g)'
    BY Lasting DEF PassedBy
  <1>1. CASE UNCHANGED <<pending, first, promise, result, store>>
    BY <1>0, <1>1 DEF AnswerInv
  <1>2. ASSUME NEW g \in Gates, Gate(g), NotAsked(g), UNCHANGED first PROVE AnswerInv'
    <2>1. first[g] = "none" /\ store[g] = "absent" /\ result[g] = "none"
      BY <1>2 DEF FreshInv
    <2>2. \A h \in Gates : h \in pending' => first'[h] = "none"
      BY <1>2, <2>1, GateFrame DEF AnswerInv
    <2>3. \A h \in Gates : promise'[h] = "approved" => Approves(h)'
      BY <1>0, <1>2, GateFrame DEF AnswerInv
    <2>4. ASSUME NEW h \in Gates, result'[h] = "approved" PROVE PassedBy(h)'
      <3>1. CASE h # g
        BY <1>0, <1>2, <2>4, <3>1, GateFrame DEF AnswerInv
      <3>2. CASE h = g
        <4>1. PassGate(g)
          BY <1>2, <2>1, <2>4, <3>2 DEF Gate, AskGate
        <4>2. Tool(g) # Soul
          BY <4>1, SoulAsks DEF PassGate
        <4>3. Tier(g) = "notify" \/ Tier(g) = BaseTier(g)
          BY DEF Tier
        <4>4. BaseTier(g) \in Tiers
          <5>1. req[g[1]] \in RequestType
            BY GatePairs, RequestsAssumption DEF TypeOK
          <5> QED BY <5>1, DomainsAssumption DEF BaseTier, RequestType, Tiers
        <4>5. BaseTier(g) = "auto-approve" \/ Noticed(g)'
          BY <4>1, <4>3, <4>4 DEF PassGate, Tiers, Noticed
        <4>6. store'[g] = "absent"
          BY <2>1, <4>1 DEF PassGate
        <4> QED BY <3>2, <4>2, <4>5, <4>6, Lasting DEF PassedBy
      <3> QED BY <3>1, <3>2
    <2> QED BY <2>2, <2>3, <2>4 DEF AnswerInv
  <1>3. ASSUME NEW c \in Calls, CallTool(c) PROVE AnswerInv'
    BY <1>2, <1>3, GateOf DEF CallTool, NotAsked
  <1>4. ASSUME NEW c \in Calls, PreFlight(c) PROVE AnswerInv'
    BY <1>2, <1>4, GateOf DEF PreFlight, NotAsked
  <1>5. ASSUME NEW g \in Gates, Resume(g) PROVE AnswerInv'
    <2>1. promise' = promise /\ pending' = pending /\ first' = first
      BY <1>5 DEF Resume, gateVars
    <2>2. ASSUME NEW h \in Gates, result'[h] = "approved" PROVE PassedBy(h)'
      <3>1. CASE h # g
        BY <1>0, <1>5, <2>2, <3>1 DEF Resume, AnswerInv, TypeOK
      <3>2. CASE h = g
        BY <1>0, <1>5, <2>2, <3>2 DEF Resume, AnswerInv, PassedBy, TypeOK
      <3> QED BY <3>1, <3>2
    <2> QED BY <1>0, <2>1, <2>2 DEF AnswerInv
  <1>6. ASSUME NEW g \in Gates, Timeout(g) PROVE AnswerInv'
    <2>1. g \in pending /\ result[g] = "none" /\ promise[g] = "none"
      BY <1>6 DEF Timeout, PendingTracked, Waits
    <2>2. \A h \in Gates : promise'[h] = "approved" => promise[h] = "approved"
      BY <1>6, <2>1 DEF Timeout, Settle, TypeOK
    <2>3. \A h \in Gates : h \in pending' => first'[h] = "none"
      BY <1>6 DEF Timeout, FirstAnswer, AnswerInv, TypeOK
    <2>4. \A h \in Gates : h # g => store'[h] = store[h]
      BY <1>6 DEF Timeout, TypeOK
    <2>5. result' = result
      BY <1>6 DEF Timeout
    <2> QED BY <1>0, <2>1, <2>2, <2>3, <2>4, <2>5 DEF AnswerInv
  <1>7. ASSUME NEW g \in Gates, NEW d \in Decisions, ResolveApproval(g, d)
        PROVE AnswerInv'
    <2>1. result' = result /\ store' = store
      BY <1>7 DEF ResolveApproval
    <2>2. CASE Accept(g, d)
      <3>1. Waits(g) /\ first[g] = "none"
        BY <2>2 DEF Accept, PendingTracked, AnswerInv
      <3>2. first'[g] = d
        BY <1>7, <3>1, GatePairs DEF ResolveApproval, FirstAnswer, Waits, Kinds, TypeOK
      <3>3. \A h \in Gates : promise'[h] = "approved" => Approves(h)'
        BY <1>0, <2>2, <3>1, <3>2
           DEF Accept, Settle, Waits, AnswerInv, Approves, Decisions, TypeOK
      <3>4. \A h \in Gates : h \in pending' => first'[h] = "none"
        BY <1>7, <2>2 DEF ResolveApproval, FirstAnswer, Accept, AnswerInv, TypeOK
      <3> QED BY <1>0, <2>1, <3>3, <3>4 DEF AnswerInv
    <2>3. CASE g \notin pending /\ UNCHANGED <<gateVars, grants>>
      <3>1. \A h \in Gates : h \in pending' => first'[h] = "none"
        BY <1>7, <2>3 DEF ResolveApproval, FirstAnswer, gateVars, AnswerInv, TypeOK
      <3> QED BY <1>0, <2>1, <2>3, <3>1 DEF gateVars, AnswerInv
    <2> QED BY <1>7, <2>2, <2>3 DEF ResolveApproval
  <1>8. CASE Sweep
    <2>1. \A h \in Gates : store[h] = "absent" => store'[h] = "absent"
      BY <1>8 DEF Sweep, SweepSome
    <2>2. \A h \in Gates : PassedBy(h) => PassedBy(h)'
      BY <2>1, Lasting DEF PassedBy
    <2> QED BY <1>0, <1>8, <2>2 DEF Sweep, SweepSome, gateVars, AnswerInv
  <1>9. CASE Restart
    BY <1>0, <1>9 DEF Restart, AnswerInv
  <1>10. ASSUME NEW c \in Calls, Begin(c) \/ DispatchNow(c) \/ AddDomain(c) \/ End(c)
         PROVE UNCHANGED <<pending, first, promise, result, store>>
    BY <1>10 DEF Begin, DispatchNow, AddDomain, Dispatch, End, gateVars
  <1>11. ASSUME \/ \E g \in Gates : Refuse(g)
                \/ \E u \in Users : Idle(u)
                \/ Cleanup \/ UNCHANGED vars
         PROVE UNCHANGED <<pending, first, promise, result, store>>
    BY <1>11 DEF Refuse, Idle, Cleanup, vars, gateVars
  <1> QED
    BY <1>1, <1>3, <1>4, <1>5, <1>6, <1>7, <1>8, <1>9, <1>10, <1>11 DEF Next

----
(* What ran *)

RunInv ==
  /\ ExecutionAccounted
  /\ \A c \in ran : phase[c] \in {"ran", "over", "lost"}

(* A call that ran has left its gates: no step gives them a record. *)
LEMMA LeftAlone ==
  ASSUME TypeOK, TrackInv, [Next]_vars,
         NEW c \in Calls, phase[c] \in {"ran", "over", "lost"}
  PROVE  /\ phase'[c] \in {"ran", "over", "lost"}
         /\ store[<<c, "domain">>] = "absent" => store'[<<c, "domain">>] = "absent"
  <1> DEFINE Goal == /\ phase'[c] \in {"ran", "over", "lost"}
                     /\ store[<<c, "domain">>] = "absent" =>
                          store'[<<c, "domain">>] = "absent"
  <1>1. ASSUME NEW b \in Calls, CallTool(b) \/ PreFlight(b) PROVE Goal
    <2>1. b # c
      BY <1>1 DEF CallTool, PreFlight
    <2>2. CASE CallTool(b)
      <3>1. <<c, "domain">> # <<b, "tool">>
        BY <2>1
      <3>2. phase' = [phase EXCEPT ![b] = "tool"]
        BY <2>2, GateOf, GateFrame DEF CallTool
      <3>3. store'[<<c, "domain">>] = store[<<c, "domain">>]
        BY <2>2, <3>1, GateOf, GateFrame DEF CallTool
      <3> QED BY <2>1, <3>2, <3>3 DEF TypeOK
    <2>3. CASE PreFlight(b)
      BY <2>1, <2>3, GateOf, GateFrame DEF PreFlight, TypeOK
    <2> QED BY <1>1, <2>2, <2>3
  <1>2. ASSUME NEW b \in Calls, Begin(b) \/ End(b) \/ DispatchNow(b) \/ AddDomain(b)
        PROVE Goal
    BY <1>2 DEF Begin, End, DispatchNow, AddDomain, Dispatch, TypeOK
  <1>3. ASSUME NEW g \in Gates, Resume(g) \/ Refuse(g) PROVE Goal
    <2>1. g[1] # c
      BY <1>3, GatePairs DEF Resume, Refuse, Kinds
    <2>2. g # <<c, "domain">>
      BY <2>1
    <2>3. CASE Resume(g)
      BY <2>2, <2>3, GateOf DEF Resume, TypeOK
    <2>4. CASE Refuse(g)
      BY <2>1, <2>4, GatePairs DEF Refuse, TypeOK
    <2> QED BY <1>3, <2>3, <2>4
  <1>4. ASSUME NEW g \in Gates, Timeout(g) PROVE Goal
    <2>1. g[1] # c
      BY <1>4, GatePairs DEF Timeout, TrackInv, PendingTracked, Waits, Kinds
    <2> QED BY <1>4, <2>1, GateOf DEF Timeout, TypeOK
  <1>5. ASSUME NEW g \in Gates, NEW d \in Decisions, ResolveApproval(g, d) PROVE Goal
    BY <1>5 DEF ResolveApproval
  <1>6. CASE Sweep
    BY <1>6, GateOf DEF Sweep, SweepSome
  <1>7. ASSUME (\E u \in Users : Idle(u)) \/ Cleanup \/ Restart \/ UNCHANGED vars
        PROVE Goal
    BY <1>7 DEF Idle, Cleanup, Restart, vars
  <1> QED BY <1>1, <1>2, <1>3, <1>4, <1>5, <1>6, <1>7 DEF Next

(* The domain is asked for after the tool was let through. *)
ToolFirst == \A c \in Calls : phase[c] = "domain" => result[<<c, "tool">>] = "approved"

(* No action asks for a domain before the tool was let through. *)
THEOREM ToolFirstStep == TypeOK /\ TrackInv /\ ToolFirst /\ [Next]_vars => ToolFirst'
  <1> SUFFICES ASSUME TypeOK, TrackInv, ToolFirst, [Next]_vars PROVE ToolFirst'
    OBVIOUS
  <1> USE DEF ToolFirst
  <1>1. ASSUME NEW b \in Calls, CallTool(b) PROVE ToolFirst'
    <2>1. phase' = [phase EXCEPT ![b] = "tool"]
      BY <1>1, GateOf, GateFrame DEF CallTool
    <2>2. \A c \in Calls : c # b => result'[<<c, "tool">>] = result[<<c, "tool">>]
      BY <1>1, GateOf, GateFrame DEF CallTool
    <2> QED BY <2>1, <2>2 DEF TypeOK
  <1>2. ASSUME NEW b \in Calls, PreFlight(b) PROVE ToolFirst'
    <2>1. phase' = [phase EXCEPT ![b] = "domain"]
      BY <1>2, GateOf, GateFrame DEF PreFlight
    <2>2. \A c \in Calls : result'[<<c, "tool">>] = result[<<c, "tool">>]
      BY <1>2, GateOf, GateFrame DEF PreFlight
    <2> QED BY <1>2, <2>1, <2>2 DEF PreFlight, TypeOK
  <1>3. ASSUME NEW b \in Calls, Begin(b) \/ End(b) \/ DispatchNow(b) \/ AddDomain(b)
        PROVE ToolFirst'
    BY <1>3 DEF Begin, End, DispatchNow, AddDomain, Dispatch, TypeOK
  <1>4. ASSUME NEW g \in Gates, Resume(g) PROVE ToolFirst'
    BY <1>4, GateOf DEF Resume, TypeOK
  <1>5. ASSUME NEW g \in Gates, Refuse(g) PROVE ToolFirst'
    BY <1>5, GatePairs DEF Refuse, TypeOK
  <1>6. ASSUME NEW g \in Gates, Timeout(g) \/ \E d \in Decisions : ResolveApproval(g, d)
        PROVE ToolFirst'
    BY <1>6 DEF Timeout, ResolveApproval
  <1>7. ASSUME \/ \E u \in Users : Idle(u)
               \/ Sweep \/ Cleanup \/ Restart \/ UNCHANGED vars
        PROVE ToolFirst'
    BY <1>7 DEF Idle, Sweep, SweepSome, Cleanup, Restart, vars
  <1> QED BY <1>1, <1>2, <1>3, <1>4, <1>5, <1>6, <1>7 DEF Next

(* No action runs a call that its gates did not let through. *)
THEOREM RunStep ==
  TypeOK /\ TrackInv /\ AnswerInv /\ ToolFirst /\ RunInv /\ [Next]_vars => RunInv'
  <1> SUFFICES ASSUME TypeOK, TrackInv, AnswerInv, ToolFirst, RunInv, [Next]_vars
               PROVE  RunInv'
    OBVIOUS
  <1>a. ran' \subseteq Calls
    BY TypeStep DEF TypeOK
  <1> SUFFICES ASSUME NEW c \in Calls, c \in ran'
               PROVE  /\ LetThrough(<<c, "tool">>)'
                      /\ store'[<<c, "domain">>] # "absent" => Approves(<<c, "domain">>)'
                      /\ req'[c].tool = Soul => Approves(<<c, "tool">>)'
                      /\ phase'[c] \in {"ran", "over", "lost"}
    BY <1>a DEF RunInv, ExecutionAccounted
  <1>0. <<c, "tool">> \in Gates /\ <<c, "domain">> \in Gates
    BY GateOf
  <1>b. /\ LetThrough(<<c, "tool">>) => LetThrough(<<c, "tool">>)'
        /\ Approves(<<c, "tool">>) => Approves(<<c, "tool">>)'
        /\ Approves(<<c, "domain">>) => Approves(<<c, "domain">>)'
    BY <1>0, Monotone DEF LetThrough, Approves, Noticed, BaseTier
  <1>1. CASE c \in ran
    <2>1. /\ LetThrough(<<c, "tool">>)
          /\ store[<<c, "domain">>] # "absent" => Approves(<<c, "domain">>)
          /\ req[c].tool = Soul => Approves(<<c, "tool">>)
          /\ phase[c] \in {"ran", "over", "lost"}
      BY <1>0, <1>1 DEF RunInv, ExecutionAccounted
    <2>3. store'[<<c, "domain">>] # "absent" => store[<<c, "domain">>] # "absent"
      BY <1>0, <2>1, LeftAlone
    <2>4. req' = req
      BY Monotone
    <2>5. phase'[c] \in {"ran", "over", "lost"}
      BY <2>1, LeftAlone
    <2> QED BY <1>b, <2>1, <2>3, <2>4, <2>5
  <1>2. CASE c \notin ran
    <2>1. /\ DispatchNow(c) \/ AddDomain(c)
          /\ UNCHANGED <<req, result, store, sent, first>>
          /\ phase'[c] = "ran"
      <3>1. ASSUME NEW b \in Calls, DispatchNow(b) \/ AddDomain(b)
            PROVE  /\ ran' = ran \cup {b}
                   /\ UNCHANGED <<req, result, store, sent, first>>
                   /\ phase'[b] = "ran"
        <4>1. Dispatch(b)
          BY <3>1 DEF DispatchNow, AddDomain
        <4> QED BY <4>1 DEF Dispatch, TypeOK
      <3>2. ran' = ran \/ \E b \in Calls : DispatchNow(b) \/ AddDomain(b)
        BY DEF Next, vars, gateVars, Begin, CallTool, PreFlight, End, Resume, Refuse,
               Timeout, ResolveApproval, Idle, Sweep, SweepSome, Cleanup, Restart
      <3> QED BY <1>2, <3>1, <3>2
    <2>2. PassedBy(<<c, "tool">>)
      <3>1. CASE DispatchNow(c)
        BY <1>0, <3>1 DEF DispatchNow, AnswerInv
      <3>2. CASE AddDomain(c)
        BY <1>0, <3>2 DEF AddDomain, AnswerInv, ToolFirst
      <3> QED BY <2>1, <3>1, <3>2
    <2>3. store[<<c, "domain">>] # "absent" => Approves(<<c, "domain">>)
      <3>1. CASE DispatchNow(c)
        BY <1>0, <3>1 DEF DispatchNow, TrackInv, FreshInv, NotAsked
      <3>2. CASE AddDomain(c)
        BY <1>0, <3>2 DEF AddDomain, AnswerInv, PassedBy
      <3> QED BY <2>1, <3>1, <3>2
    <2>4. Tool(<<c, "tool">>) = req[c].tool
      BY <1>0 DEF Tool
    <2> QED BY <1>b, <2>1, <2>2, <2>3, <2>4 DEF PassedBy, LetThrough
  <1> QED BY <1>1, <1>2

(* A call runs only if each gate it was asked at was auto-approved, announced *)
(* or approved by its first answer; a soul update only after its approval.   *)
THEOREM ExecutionIsAccounted == Spec => []ExecutionAccounted
  <1>1. Init => TrackInv /\ AnswerInv /\ ToolFirst /\ RunInv
    BY GatePairs, GateOf DEF Init, TrackInv, FreshInv, PendingTracked, Waits, Kinds,
       AnswerInv, ToolFirst, RunInv, ExecutionAccounted
  <1>2. RunInv => ExecutionAccounted
    BY DEF RunInv
  <1> QED BY <1>1, <1>2, TypeCorrect, TrackStep, AnswerStep, ToolFirstStep, RunStep, PTL
          DEF Spec

----
(* What an answer justifies: grants, opened domains, notices *)

(* No action leaves a grant that its user did not give. *)
THEOREM GrantStep ==
  TypeOK /\ TrackInv /\ AnswerInv /\ GrantsConsented /\ [Next]_vars => GrantsConsented'
  <1> SUFFICES ASSUME TypeOK, TrackInv, AnswerInv, GrantsConsented, [Next]_vars,
                      NEW u \in Users, NEW gr \in grants'[u]
               PROVE  /\ first'[gr.gate] = "session-approved"
                      /\ User(gr.gate)' = u
                      /\ Tool(gr.gate)' = gr.tool
                      /\ PatternKey(gr.gate)' = gr.key
    BY DEF GrantsConsented
  <1>1. gr \in Grants
    BY TypeStep DEF TypeOK
  <1>2. CASE gr \in grants[u]
    BY <1>1, <1>2, Monotone DEF GrantsConsented, Grants, User, Tool, PatternKey
  <1>3. CASE gr \notin grants[u]
    <2>1. PICK g \in Gates, d \in Decisions : ResolveApproval(g, d) /\ Accept(g, d)
      <3>1. CASE \E g \in Gates, d \in Decisions : ResolveApproval(g, d)
        BY <1>3, <3>1 DEF ResolveApproval
      <3>2. CASE ~\E g \in Gates, d \in Decisions : ResolveApproval(g, d)
        <4>1. grants' = grants \/ \A v \in Users : grants'[v] \in {grants[v], {}}
          BY <3>2 DEF Next, vars, Begin, CallTool, PreFlight, DispatchNow, AddDomain,
             Dispatch, End, Resume, Refuse, Timeout, Idle, Sweep, SweepSome, Cleanup, Restart
        <4> QED BY <1>3, <4>1
      <3> QED BY <3>1, <3>2
    <2>2. d = "session-approved" /\ u = User(g) /\ gr = GrantOf(g)
      BY <1>3, <2>1, UserTypes DEF Accept, TypeOK
    <2>3. first'[g] = "session-approved"
      <3>1. Waits(g) /\ first[g] = "none"
        BY <2>1 DEF Accept, TrackInv, PendingTracked, AnswerInv
      <3> QED BY <2>1, <2>2, <3>1, GatePairs
              DEF ResolveApproval, FirstAnswer, Waits, Kinds, TypeOK
    <2> QED BY <2>2, <2>3, Monotone DEF GrantOf, User, Tool, PatternKey
  <1> QED BY <1>2, <1>3

(* Every session grant in force is one its user gave. *)
THEOREM GrantsAreConsented == Spec => []GrantsConsented
  <1>1. Init => TrackInv /\ AnswerInv /\ GrantsConsented
    BY GatePairs DEF Init, TrackInv, FreshInv, PendingTracked, Waits, Kinds, AnswerInv,
       GrantsConsented
  <1> QED BY <1>1, TypeCorrect, TrackStep, AnswerStep, GrantStep, PTL DEF Spec

(* A domain that a call of u opened stays one. *)
LEMMA OpenedLasts ==
  ASSUME TypeOK, [Next]_vars, NEW h, NEW u, OpenedBy(h, u)
  PROVE  OpenedBy(h, u)'
  <1>1. PICK c \in ran : /\ req[c].user = u /\ req[c].key = h
                         /\ LetThrough(<<c, "domain">>)
    BY DEF OpenedBy
  <1>2. <<c, "domain">> \in Gates /\ c \in ran'
    BY GateOf, Monotone DEF TypeOK
  <1>3. LetThrough(<<c, "domain">>)'
    BY <1>1, <1>2, Monotone DEF LetThrough, Approves, Noticed, BaseTier
  <1> QED BY <1>1, <1>2, <1>3, Monotone DEF OpenedBy

(* Running a call: what its token holds, and what it opens *)
LEMMA RunOpens ==
  ASSUME TypeOK, AnswerInv, CapabilityTraced, [Next]_vars,
         NEW c \in Calls, DispatchNow(c) \/ AddDomain(c)
  PROVE  /\ \A u \in Users : \A h \in domains'[u] : OpenedBy(h, u)'
         /\ \A u \in Users :
              req[c].user = u => \A h \in token'[c] \ BaseAllowed : OpenedBy(h, u)'
         /\ req[c].tool = Web /\ req[c].key # AnyKey => Matches(req[c].key, token'[c])
  <1>1. Dispatch(c)
    BY DEF DispatchNow, AddDomain
  <1>2. /\ c \in ran' /\ req' = req
        /\ token'[c] = IF req[c].tool = Web THEN BaseAllowed \cup domains'[req[c].user] ELSE {}
    BY <1>1 DEF Dispatch, TypeOK
  <1>3. req[c].user \in Users
    BY UserTypes
  <1>4. ASSUME NEW u \in Users, NEW h \in domains'[u] PROVE OpenedBy(h, u)'
    <2>1. CASE h \in domains[u]
      BY <2>1, OpenedLasts DEF CapabilityTraced
    <2>2. CASE h \notin domains[u]
      <3>1. AddDomain(c) /\ u = req[c].user /\ h = req[c].key
        BY <1>3, <1>4, <2>2 DEF DispatchNow, AddDomain, TypeOK
      <3>2. LetThrough(<<c, "domain">>)
        BY <3>1, GateOf DEF AddDomain, AnswerInv, PassedBy, LetThrough
      <3>3. LetThrough(<<c, "domain">>)'
        BY <3>2, GateOf, Monotone DEF LetThrough, Approves, Noticed, BaseTier
      <3> QED BY <1>2, <3>1, <3>3 DEF OpenedBy
    <2> QED BY <2>1, <2>2
  <1>5. ASSUME NEW u \in Users, req[c].user = u, NEW h \in token'[c] \ BaseAllowed
        PROVE  OpenedBy(h, u)'
    <2>1. h \in domains'[u]
      BY <1>2, <1>5
    <2> QED BY <1>4, <2>1
  <1>6. ASSUME req[c].tool = Web, req[c].key # AnyKey
        PROVE  Matches(req[c].key, token'[c])
    <2>1. CASE DispatchNow(c)
      BY <1>2, <1>6, <2>1 DEF DispatchNow, NeedsDomain, IsDomainAllowed, Matches
    <2>2. CASE AddDomain(c)
      BY <1>2, <1>3, <1>6, <2>2 DEF AddDomain, Matches, TypeOK
    <2> QED BY <2>1, <2>2
  <1> QED BY <1>4, <1>5, <1>6

(* No action puts into a token or a session a host that its user did not *)
(* open. *)
THEOREM CapabilityStep ==
  TypeOK /\ AnswerInv /\ CapabilityTraced /\ [Next]_vars => CapabilityTraced'
  <1> SUFFICES ASSUME TypeOK, AnswerInv, CapabilityTraced, [Next]_vars
               PROVE  CapabilityTraced'
    OBVIOUS
  <1>1. req' = req
    BY Monotone
  <1>2. CASE \E c \in Calls : DispatchNow(c) \/ AddDomain(c)
    <2>1. PICK b \in Calls : DispatchNow(b) \/ AddDomain(b)
      BY <1>2
    <2>2. /\ ran' = ran \cup {b}
          /\ \A c \in Calls : c # b => token'[c] = token[c]
      BY <2>1 DEF DispatchNow, AddDomain, Dispatch, TypeOK
    <2>3. ASSUME NEW u \in Users, NEW c \in ran', req[c].user = u,
                 NEW h \in token'[c] \ BaseAllowed
          PROVE  OpenedBy(h, u)'
      <3>1. CASE c = b
        BY <2>1, <2>3, <3>1, RunOpens
      <3>2. CASE c # b
        <4>1. c \in ran /\ token'[c] = token[c]
          BY <2>2, <2>3, <3>2 DEF TypeOK
        <4> QED BY <2>3, <4>1, OpenedLasts DEF CapabilityTraced
      <3> QED BY <3>1, <3>2
    <2>4. ASSUME NEW c \in ran', req[c].tool = Web, req[c].key # AnyKey
          PROVE  Matches(req[c].key, token'[c])
      BY <2>1, <2>2, <2>4, RunOpens DEF CapabilityTraced, TypeOK
    <2>5. \A u \in Users : \A h \in domains'[u] : OpenedBy(h, u)'
      BY <2>1, RunOpens
    <2> QED BY <1>1, <2>3, <2>4, <2>5 DEF CapabilityTraced, Matches
  <1>3. CASE ~\E c \in Calls : DispatchNow(c) \/ AddDomain(c)
    <2>1. /\ ran' = ran /\ token' = token
          /\ domains' = domains \/ \A u \in Users : domains'[u] \in {domains[u], {}}
      BY <1>3 DEF Next, vars, Begin, CallTool, PreFlight, End, Resume, Refuse,
         Timeout, ResolveApproval, Idle, Sweep, SweepSome, Cleanup, Restart
    <2>2. ASSUME NEW u \in Users, NEW h \in domains'[u] PROVE OpenedBy(h, u)'
      BY <2>1, <2>2, OpenedLasts DEF CapabilityTraced
    <2>3. ASSUME NEW u \in Users, NEW c \in ran', req[c].user = u,
                 NEW h \in token'[c] \ BaseAllowed
          PROVE  OpenedBy(h, u)'
      BY <2>1, <2>3, OpenedLasts DEF CapabilityTraced
    <2> QED BY <1>1, <2>1, <2>2, <2>3 DEF CapabilityTraced, Matches
  <1> QED BY <1>2, <1>3

(* Tokens and session domains hold nothing but what their user opened. *)
THEOREM CapabilitiesAreTraced == Spec => []CapabilityTraced
  <1>1. Init => TrackInv /\ AnswerInv /\ CapabilityTraced
    BY GatePairs DEF Init, TrackInv, FreshInv, PendingTracked, Waits, Kinds, AnswerInv,
       CapabilityTraced
  <1> QED BY <1>1, TypeCorrect, TrackStep, AnswerStep, CapabilityStep, PTL DEF Spec

(* The reasons to pass without a card do not go away in the history. *)
LEMMA ReasonsLast ==
  ASSUME TypeOK, [Next]_vars, NEW g \in Gates, NEW u \in Users
  PROVE  /\ SessionAllows(g) => SessionAllows(g)'
         /\ HostTrusted(g, u) => HostTrusted(g, u)'
  <1>1. ASSUME SessionAllows(g) PROVE SessionAllows(g)'
    BY <1>1, Monotone DEF SessionAllows, Tool, User, PatternKey
  <1>2. ASSUME HostTrusted(g, u) PROVE HostTrusted(g, u)'
    <2>1. \A h \in Keys : OpenedBy(h, u) => OpenedBy(h, u)'
      BY OpenedLasts
    <2> QED BY <1>2, <2>1, Monotone DEF HostTrusted, Tool, PatternKey, Matches
  <1> QED BY <1>1, <1>2

(* The reasons of gate() at the moment it announces a call *)
LEMMA NoticeReason ==
  ASSUME TypeOK, GrantsConsented, CapabilityTraced, NEW g \in Gates,
         Tier(g) = "notify", BaseTier(g) = "require-approval"
  PROVE  SessionAllows(g) \/ HostTrusted(g, User(g))
  <1>0. User(g) \in Users
    BY UserTypes
  <1>1. CASE TrustedTarget(g)
    <2>1. \A h \in domains[User(g)] : h \in Keys /\ OpenedBy(h, User(g))
      BY <1>0 DEF CapabilityTraced, TypeOK
    <2> QED BY <1>1, <2>1 DEF TrustedTarget, IsDomainTrusted, Matches, HostTrusted
  <1>2. CASE Tool(g) # Soul /\ CheckSessionGrant(g)
    <2>1. PICK gr \in grants[User(g)] : gr.tool = Tool(g) /\ gr.key \in {AnyKey, PatternKey(g)}
      BY <1>2 DEF CheckSessionGrant
    <2>2. gr.gate \in Gates
      BY <1>0, <2>1 DEF TypeOK, Grants
    <2> QED BY <1>0, <1>2, <2>1, <2>2 DEF GrantsConsented, SessionAllows
  <1> QED BY <1>1, <1>2 DEF Tier

(* No action announces a call that should have been asked and had no reason. *)
THEOREM NoticeStep ==
  TypeOK /\ GrantsConsented /\ CapabilityTraced /\ NoticesJustified /\ [Next]_vars
    => NoticesJustified'
  <1> SUFFICES ASSUME TypeOK, GrantsConsented, CapabilityTraced, NoticesJustified,
                      [Next]_vars, NEW g \in Gates, NEW u \in Users,
                      Noticed(g)', BaseTier(g)' = "require-approval", User(g)' = u
               PROVE  SessionAllows(g)' \/ HostTrusted(g, u)'
    BY DEF NoticesJustified
  <1>1. BaseTier(g) = "require-approval" /\ User(g) = u
    BY Monotone DEF BaseTier, User
  <1>2. SessionAllows(g) \/ HostTrusted(g, u)
    <2>1. CASE Noticed(g)
      BY <1>1, <2>1 DEF NoticesJustified
    <2>2. CASE ~Noticed(g)
      <3>1. PassGate(g) /\ Tier(g) = "notify"
        <4>1. ASSUME NEW h \in Gates, Gate(h)
              PROVE  PassGate(g) /\ Tier(g) = "notify"
          BY <2>2, <4>1 DEF Gate, PassGate, AskGate, Noticed
        <4>2. ASSUME NEW c \in Calls, CallTool(c) \/ PreFlight(c)
              PROVE  PassGate(g) /\ Tier(g) = "notify"
          BY <4>1, <4>2, GateOf DEF CallTool, PreFlight
        <4>3. \/ \E c \in Calls : CallTool(c) \/ PreFlight(c)
              \/ sent' = sent
              \/ \E h \in Gates : sent' = sent \cup {<<"approval-expired", h>>}
          BY DEF Next, vars, Begin, DispatchNow, AddDomain, Dispatch, End, Resume, Refuse,
             Timeout, ResolveApproval, Idle, Sweep, SweepSome, Cleanup, Restart
        <4> QED BY <2>2, <4>2, <4>3 DEF Noticed
      <3> QED BY <1>1, <3>1, NoticeReason
    <2> QED BY <2>1, <2>2
  <1> QED BY <1>2, ReasonsLast

(* Whatever was announced instead of asked had a reason. *)
THEOREM NoticesAreJustified == Spec => []NoticesJustified
  <1>1. Init => /\ TrackInv /\ AnswerInv /\ GrantsConsented /\ CapabilityTraced
                /\ NoticesJustified
    BY GatePairs DEF Init, TrackInv, FreshInv, PendingTracked, Waits, Kinds, AnswerInv,
       GrantsConsented, CapabilityTraced, NoticesJustified, Noticed
  <1> QED BY <1>1, TypeCorrect, TrackStep, AnswerStep, GrantStep, CapabilityStep, NoticeStep,
             PTL DEF Spec

----
(* The gate implements Consent *)

(* What is pending has a record. *)
Recorded == \A g \in Gates : g \in pending => store[g] # "absent"

(* No action makes a card pending without a record. *)
THEOREM RecordedStep == TypeOK /\ TrackInv /\ Recorded /\ [Next]_vars => Recorded'
  <1> SUFFICES ASSUME TypeOK, TrackInv, Recorded, [Next]_vars,
                      NEW h \in Gates, h \in pending'
               PROVE  store'[h] # "absent"
    BY DEF Recorded
  <1> USE DEF Recorded
  <1>1. ASSUME NEW g \in Gates, Gate(g), g \notin pending PROVE store'[h] # "absent"
    <2>1. CASE AskGate(g)
      BY <2>1 DEF AskGate, TypeOK
    <2>2. CASE PassGate(g)
      BY <2>2 DEF PassGate, gateVars
    <2> QED BY <1>1, <2>1, <2>2 DEF Gate
  <1>2. ASSUME NEW c \in Calls, CallTool(c) PROVE store'[h] # "absent"
    BY <1>1, <1>2, GateOf DEF CallTool, TrackInv, PendingTracked, Waits
  <1>3. ASSUME NEW c \in Calls, PreFlight(c) PROVE store'[h] # "absent"
    BY <1>1, <1>3, GateOf DEF PreFlight, TrackInv, PendingTracked, Waits
  <1>4. ASSUME NEW c \in Calls, Begin(c) \/ DispatchNow(c) \/ AddDomain(c) \/ End(c)
        PROVE store'[h] # "absent"
    BY <1>4 DEF Begin, DispatchNow, AddDomain, Dispatch, End, gateVars
  <1>5. ASSUME NEW g \in Gates, Resume(g) PROVE store'[h] # "absent"
    BY <1>5 DEF Resume, gateVars, TypeOK, Outcomes
  <1>6. ASSUME NEW g \in Gates, Refuse(g) PROVE store'[h] # "absent"
    BY <1>6 DEF Refuse, gateVars
  <1>7. ASSUME NEW g \in Gates, Timeout(g) PROVE store'[h] # "absent"
    BY <1>7 DEF Timeout, TypeOK
  <1>8. ASSUME NEW g \in Gates, NEW d \in Decisions, ResolveApproval(g, d)
        PROVE store'[h] # "absent"
    BY <1>8 DEF ResolveApproval, Accept, gateVars
  <1>9. CASE Sweep
    BY <1>9 DEF Sweep, SweepSome, gateVars
  <1>10. CASE (\E u \in Users : Idle(u)) \/ Cleanup \/ Restart \/ UNCHANGED vars
    BY <1>10 DEF Idle, Cleanup, Restart, vars, gateVars
  <1> QED BY <1>2, <1>3, <1>4, <1>5, <1>6, <1>7, <1>8, <1>9, <1>10 DEF Next

SafeInv == TypeOK /\ TrackInv /\ AnswerInv /\ ToolFirst /\ RunInv /\ Recorded

(* A step that leaves verdicts, opened domains, requests and runs alone stutters. *)
LEMMA Stutter ==
  ASSUME \A g \in Gates : Verdict(g)' = Verdict(g), UNCHANGED <<req, domains, ran>>
  PROVE  UNCHANGED Abstract!vars
  BY DEF Abstract!vars, AllowedDomains

(* Consent has the same gates. *)
LEMMA SameGates == Abstract!Gates = Gates
  BY DEF Abstract!Gates, Gates, Kinds

(* Asking a gate, or passing it without asking *)
LEMMA GateMaps ==
  ASSUME SafeInv, [Next]_vars, NEW g \in Gates, Gate(g), NotAsked(g),
         phase[g[1]] \in {"called", "tool"},
         g[2] = "domain" => result[<<g[1], "tool">>] = "approved" /\ NeedsDomain(g[1]),
         UNCHANGED <<req, domains, ran>>
  PROVE  Abstract!Next
  <1>1. /\ promise[g] = "none" /\ result[g] = "none" /\ store[g] = "absent"
        /\ Verdict(g) = "none"
    BY DEF SafeInv, TrackInv, FreshInv, Verdict
  <1>2. \A h \in Gates : h # g => Verdict(h)' = Verdict(h)
    <2> SUFFICES ASSUME NEW h \in Gates, h # g PROVE Verdict(h)' = Verdict(h)
      OBVIOUS
    <2>1. /\ promise'[h] = promise[h] /\ result'[h] = result[h] /\ store'[h] = store[h]
          /\ phase' = [phase EXCEPT ![g[1]] = g[2]]
      BY GateFrame DEF SafeInv
    <2>2. phase'[h[1]] = "lost" <=> phase[h[1]] = "lost"
      BY <2>1, GatePairs DEF Kinds, SafeInv, TypeOK
    <2> QED BY <2>1, <2>2 DEF Verdict
  <1>3. Verdict(g)' \in {"open", "granted"}
    <2>1. phase'[g[1]] # "lost"
      BY GateFrame, GatePairs DEF SafeInv, TypeOK, Kinds
    <2>2. CASE PassGate(g)
      BY <2>1, <2>2 DEF PassGate, Verdict, SafeInv, TypeOK
    <2>3. CASE AskGate(g)
      BY <1>1, <2>1, <2>3 DEF AskGate, Verdict, SafeInv, TypeOK
    <2> QED BY <2>2, <2>3 DEF Gate
  <1>4. [h \in Gates |-> Verdict(h)]' = [[h \in Gates |-> Verdict(h)] EXCEPT ![g] = Verdict(g)']
    BY <1>2
  <1>5. Abstract!MayAsk(g)
    <2>1. CASE g[2] = "tool"
      BY <1>1, <2>1 DEF Abstract!MayAsk
    <2>2. CASE g[2] = "domain"
      <3>1. /\ <<g[1], "tool">> \in Gates /\ phase[g[1]] # "lost"
            /\ req[g[1]].user \in Users
        BY GatePairs, GateOf, UserTypes DEF SafeInv
      <3>2. Verdict(<<g[1], "tool">>) = "granted"
        BY <2>2, <3>1 DEF Verdict
      <3>3. Abstract!Browses(g[1])
        BY <2>2 DEF Abstract!Browses, Abstract!Host, NeedsDomain
      <3>4. ~Abstract!Covered(Abstract!Host(g[1]), AllowedDomains(req[g[1]].user))
        BY <2>2 DEF Abstract!Covered, Abstract!Host, NeedsDomain, IsDomainAllowed, Matches,
                    AllowedDomains
      <3> QED BY <1>1, <3>1, <3>2, <3>3, <3>4 DEF Abstract!MayAsk, Abstract!User
    <2> QED BY <2>1, <2>2, GatePairs DEF Kinds
  <1>6. Abstract!Ask(g) \/ Abstract!Waive(g)
    BY <1>3, <1>4, <1>5 DEF Abstract!Ask, Abstract!Waive, AllowedDomains
  <1> QED BY <1>6, SameGates DEF Abstract!Next

(* The first answer or the timeout decides an open gate. *)
LEMMA DecideMaps ==
  ASSUME SafeInv, NEW g \in Gates, g \in pending,
         NEW o \in {"approved", "rejected"}, promise' = [promise EXCEPT ![g] = o],
         UNCHANGED <<req, phase, result, domains, ran>>,
         \A h \in Gates : store[h] # "absent" <=> store'[h] # "absent"
  PROVE  Abstract!Next
  <1>1. Waits(g) /\ store[g] # "absent"
    BY DEF SafeInv, TrackInv, PendingTracked, Recorded
  <1>2. phase[g[1]] # "lost"
    BY <1>1, GatePairs DEF Waits, Kinds
  <1>3. Verdict(g) = "open"
    BY <1>1, <1>2 DEF Verdict, Waits
  <1>4. Verdict(g)' = IF o = "approved" THEN "granted" ELSE "refused"
    BY <1>1, <1>2 DEF Verdict, Waits, SafeInv, TypeOK
  <1>5. \A h \in Gates : h # g => Verdict(h)' = Verdict(h)
    BY DEF Verdict, SafeInv, TypeOK
  <1>6. [h \in Gates |-> Verdict(h)]' = [[h \in Gates |-> Verdict(h)] EXCEPT ![g] = Verdict(g)']
    BY <1>5
  <1>7. \E v \in {"granted", "refused"} : Abstract!Decide(g, v)
    BY <1>3, <1>4, <1>6 DEF Abstract!Decide, AllowedDomains
  <1> QED BY <1>7, SameGates DEF Abstract!Next

(* Dispatch runs the call. *)
LEMMA RunMaps ==
  ASSUME SafeInv, [Next]_vars, NEW c \in Calls, DispatchNow(c) \/ AddDomain(c)
  PROVE  Abstract!Next
  <1>1. /\ <<c, "tool">> \in Gates /\ <<c, "domain">> \in Gates
        /\ req[c].user \in Users
    BY GateOf, UserTypes DEF SafeInv
  <1>2. /\ Dispatch(c) /\ phase[c] \in {"tool", "domain"}
        /\ c \notin ran
    BY DEF DispatchNow, AddDomain, SafeInv, RunInv
  <1>3. /\ phase' = [phase EXCEPT ![c] = "ran"] /\ ran' = ran \cup {c} /\ req' = req
        /\ UNCHANGED <<promise, result, store>>
    BY <1>2 DEF Dispatch, gateVars
  <1>4. \A h \in Gates : Verdict(h)' = Verdict(h)
    <2> SUFFICES ASSUME NEW h \in Gates PROVE Verdict(h)' = Verdict(h)
      OBVIOUS
    <2>1. (phase'[h[1]] = "lost" /\ h[1] \notin ran') <=> (phase[h[1]] = "lost" /\ h[1] \notin ran)
      BY <1>2, <1>3, GatePairs DEF SafeInv, TypeOK
    <2> QED BY <1>3, <2>1 DEF Verdict
  <1>5. [h \in Gates |-> Verdict(h)]' = [h \in Gates |-> Verdict(h)]
    BY <1>4
  <1>6. Verdict(<<c, "tool">>) = "granted"
    BY <1>1, <1>2 DEF Verdict, DispatchNow, AddDomain, SafeInv, ToolFirst
  <1>7. CASE DispatchNow(c)
    <2>1. Verdict(<<c, "domain">>) = "none"
      BY <1>1, <1>7 DEF DispatchNow, Verdict, SafeInv, TrackInv, FreshInv, NotAsked
    <2>2. UNCHANGED [u \in Users |-> AllowedDomains(u)]
      BY <1>7 DEF DispatchNow, AllowedDomains
    <2>3. Abstract!Browses(c) =>
            Abstract!Covered(Abstract!Host(c), AllowedDomains(req[c].user))
      BY <1>7 DEF DispatchNow, NeedsDomain, IsDomainAllowed, Matches, AllowedDomains,
                  Abstract!Browses, Abstract!Host, Abstract!Covered
    <2>4. Abstract!Run(c)
      BY <1>1, <1>2, <1>3, <1>5, <1>6, <2>1, <2>2, <2>3 DEF Abstract!Run, Abstract!User
    <2> QED BY <2>4 DEF Abstract!Next
  <1>8. CASE AddDomain(c)
    <2>1. Verdict(<<c, "domain">>) = "granted"
      BY <1>1, <1>8 DEF AddDomain, Verdict
    <2>2. [u \in Users |-> AllowedDomains(u)]' =
            [[u \in Users |-> AllowedDomains(u)] EXCEPT
               ![req[c].user] = @ \cup {req[c].key}]
      BY <1>1, <1>8 DEF AddDomain, AllowedDomains, SafeInv, TypeOK
    <2>4. ([u \in Users |-> AllowedDomains(u)]')[req[c].user] =
            AllowedDomains(req[c].user) \cup {req[c].key}
      BY <1>1, <2>2
    <2>5. Abstract!Run(c)
      BY <1>1, <1>2, <1>3, <1>5, <1>6, <2>1, <2>2, <2>4
         DEF Abstract!Run, Abstract!User, Abstract!Host, Abstract!Covered
    <2> QED BY <2>5 DEF Abstract!Next
  <1> QED BY <1>7, <1>8

(* Every action maps to a step of Consent or to a stutter. *)
THEOREM RefineStep ==
  SafeInv /\ SafeInv' /\ [Next]_vars => [Abstract!Next]_(Abstract!vars)
  <1> SUFFICES ASSUME SafeInv, SafeInv', [Next]_vars
               PROVE  Abstract!Next \/ UNCHANGED Abstract!vars
    OBVIOUS
  <1>1. ASSUME NEW c \in Calls, Begin(c) \/ End(c) PROVE UNCHANGED Abstract!vars
    <2>1. \A g \in Gates : Verdict(g)' = Verdict(g)
      BY <1>1, GatePairs DEF Begin, End, gateVars, Verdict, SafeInv, TypeOK
    <2> QED BY <1>1, <2>1, Stutter DEF Begin, End
  <1>2. ASSUME NEW c \in Calls, CallTool(c) PROVE Abstract!Next
    BY <1>2, GateOf, GateMaps DEF CallTool, NotAsked
  <1>3. ASSUME NEW c \in Calls, PreFlight(c) PROVE Abstract!Next
    BY <1>3, GateOf, GateMaps DEF PreFlight, NotAsked
  <1>4. ASSUME NEW c \in Calls, DispatchNow(c) \/ AddDomain(c) PROVE Abstract!Next
    BY <1>4, RunMaps
  <1>5. ASSUME NEW g \in Gates, Resume(g) PROVE UNCHANGED Abstract!vars
    <2>1. Verdict(g)' = Verdict(g)
      BY <1>5 DEF Resume, gateVars, Verdict, SafeInv, TypeOK, Outcomes
    <2>2. \A h \in Gates : h # g => Verdict(h)' = Verdict(h)
      BY <1>5 DEF Resume, gateVars, Verdict, SafeInv, TypeOK
    <2> QED BY <1>5, <2>1, <2>2, Stutter DEF Resume
  <1>6. ASSUME NEW g \in Gates, Refuse(g) PROVE UNCHANGED Abstract!vars
    <2>1. \A h \in Gates : phase'[h[1]] = "lost" <=> phase[h[1]] = "lost"
      BY <1>6, GatePairs DEF Refuse, SafeInv, TypeOK, Kinds
    <2>2. \A h \in Gates : Verdict(h)' = Verdict(h)
      BY <1>6, <2>1 DEF Refuse, gateVars, Verdict
    <2> QED BY <1>6, <2>2, Stutter DEF Refuse
  <1>7. ASSUME NEW g \in Gates, Timeout(g) PROVE Abstract!Next
    <2>1. g \in pending /\ Waits(g) /\ store[g] # "absent"
      BY <1>7 DEF Timeout, SafeInv, TrackInv, PendingTracked, Recorded
    <2>2. promise' = [promise EXCEPT ![g] = "rejected"]
      BY <1>7, <2>1 DEF Timeout, Settle, Waits, SafeInv, TypeOK
    <2>3. \A h \in Gates : store[h] # "absent" <=> store'[h] # "absent"
      BY <1>7, <2>1 DEF Timeout, SafeInv, TypeOK
    <2> QED BY <1>7, <2>1, <2>2, <2>3, DecideMaps DEF Timeout
  <1>8. ASSUME NEW g \in Gates, NEW d \in Decisions, ResolveApproval(g, d)
        PROVE Abstract!Next \/ UNCHANGED Abstract!vars
    <2>1. CASE Accept(g, d)
      <3>1. g \in pending /\ Waits(g)
        BY <2>1 DEF Accept, SafeInv, TrackInv, PendingTracked
      <3>2. PICK o \in {"approved", "rejected"} : promise' = [promise EXCEPT ![g] = o]
        BY <2>1, <3>1 DEF Accept, Settle, Waits, Decisions, SafeInv, TypeOK
      <3> QED BY <1>8, <3>1, <3>2, DecideMaps DEF ResolveApproval
    <2>2. CASE UNCHANGED <<gateVars, grants>>
      <3>1. \A h \in Gates : Verdict(h)' = Verdict(h)
        BY <1>8, <2>2 DEF ResolveApproval, gateVars, Verdict
      <3> QED BY <1>8, <3>1, Stutter DEF ResolveApproval
    <2> QED BY <1>8, <2>1, <2>2 DEF ResolveApproval
  <1>9. CASE Sweep
    <2>1. \A h \in Gates : store'[h] # "absent" <=> store[h] # "absent"
      BY <1>9 DEF Sweep, SweepSome
    <2>2. \A h \in Gates : Verdict(h)' = Verdict(h)
      BY <1>9, <2>1 DEF Sweep, SweepSome, gateVars, Verdict
    <2> QED BY <1>9, <2>2, Stutter DEF Sweep, SweepSome
  <1>10. ASSUME (\E u \in Users : Idle(u)) \/ UNCHANGED vars
         PROVE UNCHANGED Abstract!vars
    <2>1. \A h \in Gates : Verdict(h)' = Verdict(h)
      BY <1>10 DEF Idle, vars, gateVars, Verdict
    <2> QED BY <1>10, <2>1, Stutter DEF Idle, vars
  <1>11. CASE Cleanup
    <2> DEFINE gone == {u \in Users : session[u] = "idle"}
    <2>1. [h \in Gates |-> Verdict(h)]' = [h \in Gates |-> Verdict(h)]
      BY <1>11 DEF Cleanup, gateVars, Verdict
    <2>2. Abstract!Forget(gone)
      BY <1>11, <2>1 DEF Cleanup, Abstract!Forget, AllowedDomains
    <2> QED BY <2>2 DEF Abstract!Next
  <1>12. CASE Restart
    <2> DEFINE cut == {c \in Calls : phase'[c] = "lost"} \ ran
    <2>1. \A h \in Gates : Verdict(h)' = IF h[1] \in cut THEN "void" ELSE Verdict(h)
      BY <1>12, GatePairs DEF Restart, Verdict, SafeInv, TypeOK
    <2>2. Abstract!Crash(cut)
      BY <1>12, <2>1, SameGates DEF Restart, Abstract!Crash, AllowedDomains
    <2> QED BY <2>2 DEF Abstract!Next
  <1> QED BY <1>1, <1>2, <1>3, <1>4, <1>5, <1>6, <1>7, <1>8, <1>9, <1>10, <1>11, <1>12
          DEF Next

(* The gate implements Consent. *)
THEOREM GateImplementsConsent == Spec => ImplementsConsent
  <1>1. Init => SafeInv
    <2>1. Init => TypeOK
      BY BoundAssumption DEF Init, TypeOK, Phases, Outcomes, Statuses
    <2> QED BY <2>1, GatePairs, GateOf DEF Init, SafeInv, TrackInv, FreshInv,
       PendingTracked, Waits, Kinds, AnswerInv, ToolFirst, RunInv, ExecutionAccounted,
       Recorded
  <1>2. SafeInv /\ [Next]_vars => SafeInv'
    BY TypeStep, TrackStep, AnswerStep, ToolFirstStep, RunStep, RecordedStep DEF SafeInv
  <1>3. Init => Abstract!Init
    BY GatePairs, SameGates DEF Init, Abstract!Init, Verdict, AllowedDomains
  <1> QED BY <1>1, <1>2, <1>3, RefineStep, PTL DEF Spec, ImplementsConsent, Abstract!Spec
====
