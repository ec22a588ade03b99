---- MODULE HitlGate ----
(***************************************************************************)
(* The human-in-the-loop gate of the gateway and the state it shares with  *)
(* its neighbours: HITLGate (hitl-gate.ts), the SQLite approval store      *)
(* (approval-store.ts), the session table (session.ts), the per-user       *)
(* domain lists (domain-manager.ts), and the part of the agent loop that   *)
(* carries one tool call through them (orchestrator.ts).                   *)
(*                                                                         *)
(* The gateway is one Node process.  A macrotask (a socket line, a timer,  *)
(* an answer of the LLM) runs to its end, then the microtasks it queued    *)
(* run, then the next macrotask.  An await therefore splits a handler into *)
(* two actions.  Quiet says that no microtask is queued; every macrotask   *)
(* waits for it, but for the decisions that arrive in the same chunk of    *)
(* the socket (they are handled in one loop) and for a crash.              *)
(***************************************************************************)
EXTENDS Naturals, FiniteSets

CONSTANTS
  Calls,        \* tool calls of the LLM, each in a turn of its own
  Users,
  Tools,
  Keys,         \* hostnames, directory prefixes and "*": what a grant matches
  AnyKey,          \* the key "*"
  Web,          \* "browse_web"
  Soul,         \* "propose_soul_update"
  DomainTool,   \* "__domain_request", the tool name of a domain card
  Requests,     \* what a tool call may ask for: see RequestType
  DomainTier,   \* the tier classifyAction gives to DomainTool
  BaseAllowed,  \* executors.web.allowedDomains
  BaseTrusted,  \* trustedDomains
  Subdomain,    \* pairs <<host, domain>>, host a proper subdomain of domain
  MaxRestarts   \* bound: crashes of the gateway in one behaviour

Tiers == {"auto-approve", "notify", "require-approval"}
Decisions == {"approved", "rejected", "session-approved"}
Kinds == {"tool", "domain"}

(* A call passes the gate for the tool and, when it browses a host that is *)
(* not allowed yet, a second time for the domain.  A gate stands for one   *)
(* call of gate() and for the approval id it may create.                   *)
Gates == Calls \X Kinds

RequestType ==
  [user : Users, tool : Tools, key : Keys, tier : Tiers,
   explicit : BOOLEAN, mcpTier : Tiers \cup {"none"}]

ASSUME RequestsAssumption == Requests \subseteq RequestType
ASSUME ToolsAssumption == /\ {Web, Soul, DomainTool} \subseteq Tools
                          /\ Web # Soul /\ Soul # DomainTool /\ Web # DomainTool
                          /\ \A r \in Requests : r.tool # DomainTool
ASSUME KeysAssumption == AnyKey \in Keys
ASSUME DomainsAssumption == /\ BaseAllowed \subseteq Keys
                            /\ BaseTrusted \subseteq Keys
                            /\ DomainTier \in Tiers
ASSUME BoundAssumption == MaxRestarts \in Nat

VARIABLES
  req,       \* the request of each call, fixed by the LLM's answer
  phase,     \* where each call is
  pending,   \* HITLGate.pendingDecisions
  timers,    \* the setTimeout of awaitDecision, armed and not cleared
  promise,   \* what the promise of awaitDecision settled to
  result,    \* GateResult.proceed of each call of gate()
  store,     \* status in pending_approvals, "absent" before the insert
  grants,    \* HITLGate.sessionGrants, by user
  domains,   \* DomainManager.sessionDomains, by user
  session,   \* SessionManager.sessions: no session, a fresh one, one past its TTL
  ran,       \* calls handed to an executor or to an in-process tool
  token,     \* allowedDomains in the capability token of a call that ran
  sent,      \* broadcasts of sendToBridge
  first,     \* history: the first answer, or the timeout, each gate met
  restarts   \* number of crashes so far

gateVars == <<pending, timers, promise>>
vars == <<req, phase, gateVars, result, store, grants, domains,
          session, ran, token, sent, first, restarts>>

Phases == {"idle", "called", "tool", "domain", "ran", "refused", "over", "lost"}
Statuses == {"absent", "pending", "approved", "rejected", "expired"}
Outcomes == {"none", "approved", "rejected"}
Broadcasts == {"approval-request", "notification", "approval-expired"}
Grants == [tool : Tools, key : Keys, gate : Gates]

----
(* What a gate is asked, and the tier it ends up with *)

User(g) == req[g[1]].user
Tool(g) == IF g[2] = "tool" THEN req[g[1]].tool ELSE DomainTool

(* extractPatternKey: the key of the request for a tool gate; a domain     *)
(* request falls to the default case                                       *)
PatternKey(g) == IF g[2] = "tool" THEN req[g[1]].key ELSE AnyKey

(* matchesDomainSet *)
Matches(host, D) == \E d \in D : host = d \/ <<host, d>> \in Subdomain

IsDomainAllowed(host, u) == Matches(host, BaseAllowed) \/ Matches(host, domains[u])
IsDomainTrusted(host, u) == Matches(host, BaseTrusted) \/ Matches(host, domains[u])
AllowedDomains(u) == BaseAllowed \cup domains[u]

(* Mutant: the tool of the grant is not compared *)
CheckSessionGrantAnyTool(g) == \E gr \in grants[User(g)] : gr.key \in {AnyKey, PatternKey(g)}

CheckSessionGrant(g) ==
  \E gr \in grants[User(g)] : gr.tool = Tool(g) /\ gr.key \in {AnyKey, PatternKey(g)}

(* The tier before the overrides that lower it: an explicit rule of the    *)
(* configuration, else the MCP server's default; soul updates always ask   *)
BaseTier(g) ==
  IF g[2] = "domain" THEN DomainTier
  ELSE LET r == req[g[1]] IN
       IF r.tool = Soul THEN "require-approval"
       ELSE IF ~r.explicit /\ r.mcpTier # "none" THEN r.mcpTier ELSE r.tier

TrustedTarget(g) ==
  Tool(g) = Web /\ PatternKey(g) # AnyKey /\ IsDomainTrusted(PatternKey(g), User(g))

(* Mutant: soul updates are not excluded from session grants *)
TierSoulGranted(g) ==
  IF BaseTier(g) = "require-approval" /\ (TrustedTarget(g) \/ CheckSessionGrant(g))
  THEN "notify" ELSE BaseTier(g)

Tier(g) ==
  IF /\ BaseTier(g) = "require-approval"
     /\ \/ TrustedTarget(g)
        \/ Tool(g) # Soul /\ CheckSessionGrant(g)
  THEN "notify" ELSE BaseTier(g)

----
Init ==
  /\ req \in [Calls -> Requests]
  /\ phase = [c \in Calls |-> "idle"]
  /\ pending = {} /\ timers = {}
  /\ promise = [g \in Gates |-> "none"]
  /\ result = [g \in Gates |-> "none"]
  /\ store = [g \in Gates |-> "absent"]
  /\ grants = [u \in Users |-> {}]
  /\ domains = [u \in Users |-> {}]
  /\ session = [u \in Users |-> "none"]
  /\ ran = {}
  /\ token = [c \in Calls |-> {}]
  /\ sent = {}
  /\ first = [g \in Gates |-> "none"]
  /\ restarts = 0

(* No continuation is queued: every call that waits at a gate still waits. *)
Quiet == \A g \in Gates : phase[g[1]] = g[2] =>
                            promise[g] = "none" /\ result[g] = "none"

----
(* gate(): returns at once, or creates the record, sends the card and waits *)

PassGate(g) ==
  /\ Tier(g) # "require-approval"
  /\ result' = [result EXCEPT ![g] = "approved"]
  /\ sent' = IF Tier(g) = "notify" THEN sent \cup {<<"notification", g>>} ELSE sent
  /\ UNCHANGED <<gateVars, store>>

AskGate(g) ==
  /\ Tier(g) = "require-approval"
  /\ store' = [store EXCEPT ![g] = "pending"]
  /\ sent' = sent \cup {<<"approval-request", g>>}
  /\ pending' = pending \cup {g}
  /\ timers' = timers \cup {g}
  /\ UNCHANGED <<promise, result>>

Gate(g) ==
  /\ PassGate(g) \/ AskGate(g)
  /\ phase' = [phase EXCEPT ![g[1]] = g[2]]

----
(* The turn around a tool call *)

(* A message arrives: getOrCreate leaves the age of an existing session alone. *)
Begin(c) ==
  /\ Quiet
  /\ phase[c] = "idle"
  /\ phase' = [phase EXCEPT ![c] = "called"]
  /\ session' = [session EXCEPT ![req[c].user] = IF @ = "none" THEN "live" ELSE @]
  /\ UNCHANGED <<req, gateVars, result, store, grants, domains, ran, token,
                 sent, first, restarts>>

(* The LLM's answer holds the tool call: runLoop calls gate(). *)
CallTool(c) ==
  /\ Quiet
  /\ phase[c] = "called"
  /\ Gate(<<c, "tool">>)
  /\ UNCHANGED <<req, grants, domains, session, ran, token, first, restarts>>

(* Mutant: the store is updated only while the record is pending *)
ResumeIfPending(g) ==
  /\ phase[g[1]] = g[2]
  /\ promise[g] # "none" /\ result[g] = "none"
  /\ store' = [store EXCEPT ![g] = IF @ = "pending" THEN promise[g] ELSE @]
  /\ result' = [result EXCEPT ![g] = promise[g]]
  /\ UNCHANGED <<req, phase, gateVars, grants, domains, session, ran, token,
                 sent, first, restarts>>

(* The continuation of gate() after awaitDecision *)
Resume(g) ==
  /\ phase[g[1]] = g[2]
  /\ promise[g] # "none" /\ result[g] = "none"
  /\ store' = [store EXCEPT ![g] = promise[g]]
  /\ result' = [result EXCEPT ![g] = promise[g]]
  /\ UNCHANGED <<req, phase, gateVars, grants, domains, session, ran, token,
                 sent, first, restarts>>

(* gate() said no, to the tool or to the domain: the LLM is told *)
Refuse(g) ==
  /\ phase[g[1]] = g[2]
  /\ result[g] = "rejected"
  /\ phase' = [phase EXCEPT ![g[1]] = "refused"]
  /\ UNCHANGED <<req, gateVars, result, store, grants, domains, session, ran,
                 token, sent, first, restarts>>

NeedsDomain(c) ==
  /\ req[c].tool = Web /\ req[c].key # AnyKey
  /\ ~IsDomainAllowed(req[c].key, req[c].user)

(* gate() let the tool through and handleDomainPreFlight has a domain to ask for *)
PreFlight(c) ==
  /\ phase[c] = "tool" /\ result[<<c, "tool">>] = "approved"
  /\ NeedsDomain(c)
  /\ Gate(<<c, "domain">>)
  /\ UNCHANGED <<req, grants, domains, session, ran, token, first, restarts>>

(* dispatchToolCall, or the in-process tool: the token is minted before any await *)
Dispatch(c) ==
  /\ phase' = [phase EXCEPT ![c] = "ran"]
  /\ ran' = ran \cup {c}
  /\ token' = [token EXCEPT ![c] = IF req[c].tool = Web
                                   THEN BaseAllowed \cup domains'[req[c].user] ELSE {}]
  /\ UNCHANGED <<req, gateVars, result, store, grants, session, sent, first, restarts>>

(* Mutant: no pre-flight for the domain *)
DispatchUnchecked(c) ==
  /\ phase[c] = "tool" /\ result[<<c, "tool">>] = "approved"
  /\ UNCHANGED domains
  /\ Dispatch(c)

DispatchNow(c) ==
  /\ phase[c] = "tool" /\ result[<<c, "tool">>] = "approved"
  /\ ~NeedsDomain(c)
  /\ UNCHANGED domains
  /\ Dispatch(c)

(* Mutant: the token is minted before the domain is added *)
AddDomainLate(c) ==
  /\ phase[c] = "domain" /\ result[<<c, "domain">>] = "approved"
  /\ domains' = [domains EXCEPT ![req[c].user] = @ \cup {req[c].key}]
  /\ phase' = [phase EXCEPT ![c] = "ran"]
  /\ ran' = ran \cup {c}
  /\ token' = [token EXCEPT ![c] = AllowedDomains(req[c].user)]
  /\ UNCHANGED <<req, gateVars, result, store, grants, session, sent, first, restarts>>

(* The domain was let through: addSessionDomain, then dispatch *)
AddDomain(c) ==
  /\ phase[c] = "domain" /\ result[<<c, "domain">>] = "approved"
  /\ domains' = [domains EXCEPT ![req[c].user] = @ \cup {req[c].key}]
  /\ Dispatch(c)

(* The turn ends: with setMessages, which refreshes or recreates the session, *)
(* or without it (heartbeat, task loop, an error)                            *)
End(c) ==
  /\ Quiet
  /\ phase[c] \in {"ran", "refused"}
  /\ phase' = [phase EXCEPT ![c] = "over"]
  /\ \/ session' = [session EXCEPT ![req[c].user] = "live"]
     \/ UNCHANGED session
  /\ UNCHANGED <<req, gateVars, result, store, grants, domains, ran, token, sent,
                 first, restarts>>

----
(* Answers and timeouts *)

FirstAnswer(g, a) ==
  first' = [first EXCEPT ![g] = IF @ = "none" /\ phase[g[1]] # "lost" THEN a ELSE @]

(* A promise settles once: a second resolve() is ignored *)
Settle(g, d) == promise' = [promise EXCEPT ![g] = IF @ = "none" THEN d ELSE @]

GrantOf(g) == [tool |-> Tool(g), key |-> PatternKey(g), gate |-> g]

(* Mutant: the promise gets "session-approved" as it is *)
AcceptRaw(g, d) ==
  /\ g \in pending
  /\ timers' = timers \ {g}
  /\ pending' = pending \ {g}
  /\ grants' = IF d = "session-approved"
               THEN [grants EXCEPT ![User(g)] = @ \cup {GrantOf(g)}] ELSE grants
  /\ Settle(g, d)

(* Mutant: a late "allow for session" still leaves a grant *)
AcceptLate(g, d) ==
  /\ timers' = timers \ {g}
  /\ pending' = pending \ {g}
  /\ grants' = IF d = "session-approved"
               THEN [grants EXCEPT ![User(g)] = @ \cup {GrantOf(g)}] ELSE grants
  /\ Settle(g, IF d = "session-approved" THEN "approved" ELSE d)

(* resolveApproval on an id that is in pendingDecisions *)
Accept(g, d) ==
  /\ g \in pending
  /\ timers' = timers \ {g}
  /\ pending' = pending \ {g}
  /\ grants' = IF d = "session-approved"
               THEN [grants EXCEPT ![User(g)] = @ \cup {GrantOf(g)}] ELSE grants
  /\ Settle(g, IF d = "session-approved" THEN "approved" ELSE d)

(* A decision for any card ever sent, from any bridge or the dashboard, any *)
(* number of times; one that finds nothing pending is only logged            *)
ResolveApproval(g, d) ==
  /\ store[g] # "absent"
  /\ FirstAnswer(g, d)
  /\ \/ Accept(g, d)
     \/ g \notin pending /\ UNCHANGED <<gateVars, grants>>
  /\ UNCHANGED <<req, phase, result, store, domains, session, ran, token, sent,
                 restarts>>

(* Mutant: the timer leaves the gate in pendingDecisions *)
TimeoutKeepsPending(g) ==
  /\ Quiet
  /\ g \in timers
  /\ timers' = timers \ {g}
  /\ store' = [store EXCEPT ![g] = "expired"]
  /\ sent' = sent \cup {<<"approval-expired", g>>}
  /\ Settle(g, "rejected")
  /\ FirstAnswer(g, "timeout")
  /\ UNCHANGED <<req, phase, pending, result, grants, domains, session, ran, token,
                 restarts>>

(* Mutant: the timer expires the record but does not resolve the promise *)
TimeoutUnresolved(g) ==
  /\ Quiet
  /\ g \in timers
  /\ timers' = timers \ {g}
  /\ pending' = pending \ {g}
  /\ store' = [store EXCEPT ![g] = "expired"]
  /\ sent' = sent \cup {<<"approval-expired", g>>}
  /\ FirstAnswer(g, "timeout")
  /\ UNCHANGED <<req, phase, promise, result, grants, domains, session, ran, token,
                 restarts>>

(* The setTimeout callback of awaitDecision *)
Timeout(g) ==
  /\ Quiet
  /\ g \in timers
  /\ timers' = timers \ {g}
  /\ pending' = pending \ {g}
  /\ store' = [store EXCEPT ![g] = "expired"]
  /\ sent' = sent \cup {<<"approval-expired", g>>}
  /\ Settle(g, "rejected")
  /\ FirstAnswer(g, "timeout")
  /\ UNCHANGED <<req, phase, result, grants, domains, session, ran, token, restarts>>

----
(* Time and maintenance *)

(* One tick of the sweep that may find any of the stale records old by now *)
SweepSome(stale) ==
  /\ Quiet
  /\ \E old \in SUBSET stale :
       store' = [g \in Gates |-> IF g \in old THEN "expired" ELSE store[g]]
  /\ UNCHANGED <<req, phase, gateVars, result, grants, domains, session, ran,
                 token, sent, first, restarts>>

(* Mutant: the UPDATE does not look at the status *)
SweepAnyStatus == SweepSome({g \in Gates : store[g] # "absent"})

(* Mutant: only the records the gate still knows are swept *)
SweepTracked == SweepSome({g \in pending : store[g] = "pending"})

(* expireStalePending, every minute: any pending record may be behind the    *)
(* cutoff by now.  created_at is wall-clock time and the timer of the gate   *)
(* counts on the monotonic clock, which a suspended host stops, so a record  *)
(* can be swept before its timer fires.                                      *)
Sweep == SweepSome({g \in Gates : store[g] = "pending"})

(* An hour passes since updatedAt of the session *)
Idle(u) ==
  /\ Quiet
  /\ session[u] = "live"
  /\ session' = [session EXCEPT ![u] = "idle"]
  /\ UNCHANGED <<req, phase, gateVars, result, store, grants, domains, ran, token,
                 sent, first, restarts>>

(* SessionManager.cleanup, every five minutes, with its onSessionExpired callback *)
Cleanup ==
  LET gone == {u \in Users : session[u] = "idle"} IN
  /\ Quiet
  /\ session' = [u \in Users |-> IF u \in gone THEN "none" ELSE session[u]]
  /\ grants' = [u \in Users |-> IF u \in gone THEN {} ELSE grants[u]]
  /\ domains' = [u \in Users |-> IF u \in gone THEN {} ELSE domains[u]]
  /\ UNCHANGED <<req, phase, gateVars, result, store, ran, token, sent, first,
                 restarts>>

(* A crash and a restart: only the database survives.  A crash may fall     *)
(* between any two steps of a call, a stop by signal as well: shutdown does *)
(* not touch what is pending.                                               *)
Restart ==
  /\ restarts < MaxRestarts
  /\ restarts' = restarts + 1
  /\ phase' = [c \in Calls |-> IF phase[c] \in {"idle", "over"} THEN phase[c] ELSE "lost"]
  /\ pending' = {} /\ timers' = {}
  /\ grants' = [u \in Users |-> {}]
  /\ domains' = [u \in Users |-> {}]
  /\ session' = [u \in Users |-> "none"]
  /\ UNCHANGED <<req, promise, result, store, ran, token, sent, first>>

Next ==
  \/ \E c \in Calls : \/ Begin(c) \/ CallTool(c) \/ PreFlight(c)
                      \/ DispatchNow(c) \/ AddDomain(c) \/ End(c)
  \/ \E g \in Gates : \/ Resume(g) \/ Refuse(g) \/ Timeout(g)
                      \/ \E d \in Decisions : ResolveApproval(g, d)
  \/ \E u \in Users : Idle(u)
  \/ Sweep
  \/ Cleanup
  \/ Restart

Spec == Init /\ [][Next]_vars

(* Continuations run, armed timers fire, and the sweep comes back until no  *)
(* record is old and pending.  Nothing obliges a user to answer or a turn to end.               *)
Fairness ==
  /\ \A g \in Gates : /\ WF_vars(Resume(g)) /\ WF_vars(Refuse(g))
                      /\ WF_vars(Timeout(g))
  /\ \A c \in Calls : /\ WF_vars(PreFlight(c)) /\ WF_vars(DispatchNow(c))
                      /\ WF_vars(AddDomain(c))
  /\ WF_vars(Sweep)

FairSpec == Spec /\ Fairness

----
(* Properties *)

(* Every variable has its type. *)
TypeOK ==
  /\ req \in [Calls -> Requests]
  /\ phase \in [Calls -> Phases]
  /\ pending \subseteq Gates /\ timers \subseteq Gates
  /\ promise \in [Gates -> Outcomes]
  /\ result \in [Gates -> Outcomes]
  /\ store \in [Gates -> Statuses]
  /\ grants \in [Users -> SUBSET Grants]
  /\ domains \in [Users -> SUBSET Keys]
  /\ session \in [Users -> {"none", "live", "idle"}]
  /\ ran \subseteq Calls
  /\ token \in [Calls -> SUBSET Keys]
  /\ sent \subseteq Broadcasts \X Gates
  /\ first \in [Gates -> Decisions \cup {"none", "timeout"}]
  /\ restarts \in 0..MaxRestarts

Waits(g) == phase[g[1]] = g[2] /\ promise[g] = "none" /\ result[g] = "none"

(* pendingDecisions holds exactly the gates a call still waits at, and each *)
(* has its timer armed: no call waits for an answer nobody can give any     *)
(* more, and no timer is left to fire on a settled gate.                    *)
PendingTracked ==
  /\ \A g \in Gates : g \in pending <=> Waits(g)
  /\ timers = pending

Approves(g) == first[g] \in {"approved", "session-approved"}
Noticed(g) == <<"notification", g>> \in sent
LetThrough(g) == BaseTier(g) = "auto-approve" \/ Noticed(g) \/ Approves(g)

(* A call runs only if its tool gate, and its domain gate if it was asked,  *)
(* was auto-approved, announced to the user, or approved by the first answer *)
(* to its card; a later answer, a late timeout or a crash cannot turn a     *)
(* refusal round.  A soul update runs only after its own approval.          *)
ExecutionAccounted ==
  \A c \in ran :
    /\ LetThrough(<<c, "tool">>)
    /\ store[<<c, "domain">>] # "absent" => Approves(<<c, "domain">>)
    /\ req[c].tool = Soul => Approves(<<c, "tool">>)

(* Every session grant in force was given by its user, as the first answer  *)
(* to a card of that tool, and carries the key of that card: a timeout or a *)
(* second click never creates one, and no user gets another's.              *)
GrantsConsented ==
  \A u \in Users : \A gr \in grants[u] :
    /\ first[gr.gate] = "session-approved"
    /\ User(gr.gate) = u /\ Tool(gr.gate) = gr.tool /\ PatternKey(gr.gate) = gr.key

(* A domain was opened to u by some call of u whose domain gate let it through *)
OpenedBy(h, u) ==
  \E c \in ran : /\ req[c].user = u /\ req[c].key = h
                  /\ LetThrough(<<c, "domain">>)

(* Every host that a browse call's capability token or the session's domain *)
(* list holds beyond the configuration was opened by that same user; and    *)
(* the token covers the host the call is about to visit.                    *)
CapabilityTraced ==
  /\ \A u \in Users : \A h \in domains[u] : OpenedBy(h, u)
  /\ \A u \in Users, c \in ran :
       req[c].user = u => \A h \in token[c] \ BaseAllowed : OpenedBy(h, u)
  /\ \A c \in ran :
       req[c].tool = Web /\ req[c].key # AnyKey => Matches(req[c].key, token[c])

(* An earlier "allow for session" of the same user and tool whose key matches *)
SessionAllows(g) ==
  /\ Tool(g) # Soul
  /\ \E h \in Gates : /\ first[h] = "session-approved"
                      /\ User(h) = User(g) /\ Tool(h) = Tool(g)
                      /\ PatternKey(h) \in {AnyKey, PatternKey(g)}

(* The host is trusted by the configuration, or opened by u *)
HostTrusted(g, u) ==
  /\ Tool(g) = Web
  /\ Matches(PatternKey(g), BaseTrusted \cup {h \in Keys : OpenedBy(h, u)})

(* A call that should have asked and was only announced had one of these     *)
(* reasons.                                                                  *)
NoticesJustified ==
  \A g \in Gates, u \in Users :
    Noticed(g) /\ BaseTier(g) = "require-approval" /\ User(g) = u =>
      SessionAllows(g) \/ HostTrusted(g, u)

(* The record in the database says what the gate did: once gate() returned, *)
(* the status is its answer, whatever the sweep or the timer wrote before.  *)
RecordAgrees ==
  \A g \in Gates : store[g] # "absent" /\ result[g] # "none" => store[g] = result[g]

(* An approved or rejected record never changes again: not by the sweep, a  *)
(* timer, a second answer or a restart.                                     *)
SettledFinal ==
  [][\A g \in Gates : store[g] \in {"approved", "rejected"} => store'[g] = store[g]]_vars

(* Every call that waits at a gate leaves it: the user answers, the timer   *)
(* rejects, or the process restarts.                                        *)
EveryWaitEnds ==
  \A g \in Gates : phase[g[1]] = g[2] ~> phase[g[1]] # g[2]

(* No record stays pending for ever, not even one whose gate was lost in a  *)
(* crash.                                                                   *)
StalePendingExpires ==
  \A g \in Gates : store[g] = "pending" ~> store[g] # "pending"

(* The refinement mapping to Consent: a verdict is the settled promise, or  *)
(* what gate() returned when it did not ask.  A crash voids what it cut off. *)
Verdict(g) ==
  IF phase[g[1]] = "lost" /\ g[1] \notin ran THEN "void"
  ELSE IF "approved" \in {promise[g], result[g]} THEN "granted"
  ELSE IF promise[g] = "rejected" THEN "refused"
  ELSE IF store[g] # "absent" THEN "open"
  ELSE "none"

Abstract ==
  INSTANCE Consent WITH verdict <- [g \in Gates |-> Verdict(g)],
                        allowed <- [u \in Users |-> AllowedDomains(u)]

(* The gate implements Consent: each card is decided once, and no call runs *)
(* without the verdicts and the allowed host it needs.                      *)
ImplementsConsent == Abstract!Spec

(* What the documentation says and the code does not do: see the README     *)

(* A domain joins the session's list when the user approves a request for   *)
(* it: the comment of addSessionDomain.                                     *)
DomainsConsented ==
  \A u \in Users : \A h \in domains[u] :
    \E c \in Calls : req[c].user = u /\ req[c].key = h /\ Approves(<<c, "domain">>)
====
