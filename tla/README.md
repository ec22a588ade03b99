# ArgusClaw in TLA+

TLA+ models of the ArgusClaw gateway, TLC configurations that check them on small
instances, and TLAPS proofs of what must hold on every instance. Paths are relative to
the repository; file names without a path are under `packages/gateway/src/`.

1. [The system](#1-the-system) - 2. [Modules](#2-modules) - 3. [Runs](#3-runs) -
4. [Proofs](#4-proofs) - 5. [Where the code departs from its documentation](#5-where-the-code-departs-from-its-documentation) -
6. [What is not modelled](#6-what-is-not-modelled) - 7. [Plan](#7-plan)

## 1. The system

One Node process, the gateway, talks to an LLM, runs the tools the LLM asks for in Docker
containers, and asks a person before anything risky happens. Chat bridges (Telegram,
Slack) are processes of their own on a Unix socket; a web dashboard is served by the
gateway. State lives in memory and in SQLite.

| component | state | operations | correct when |
|---|---|---|---|
| HITL gate (`hitl-gate.ts`) | `pendingDecisions`, `sessionGrants`, one timer per card | `gate`, `resolveApproval`, timeout, `clearSessionGrants` | each card is decided once, nothing runs without what it needs, grants come from consent, no call waits for ever |
| Approval store (`approval-store.ts`) | table `pending_approvals` | `create`, `resolve`, `expireStalePending` every minute | a record agrees with what the gate did and is final |
| Domain manager (`domain-manager.ts`) | domains per user | add, clear, queries | a token names only hosts its user opened |
| Session manager (`session.ts`) | history and `updatedAt` per user | `getOrCreate`, `setMessages`, `cleanup` | recent messages are kept; what belongs to a session ends with it |
| Orchestrator (`orchestrator.ts`) | none of its own across awaits | `chat`, `runLoop`, domain pre-flight, dispatch | every call passes its gates in order; loops end |
| Message handling (`index.ts`) | turns in flight | user messages, decisions, stop, heartbeats, auth, shutdown | turns of one user do not lose each other's messages |
| Dashboard (`dashboard.ts`) | `chatBusy` | chat, reset, decide, soul update | one turn at a time, and the lock is always given back |
| Task loop (`loop.ts`, `memory.ts`) | `cancelledSessions`, table `task_sessions` | `execute`, `cancelTask`, `cancelUserSession` | a stop holds, the record tracks the loop, the loop is bounded |
| MCP servers (`mcp/manager.ts`, `mcp/container.ts`) | server table, containers, intervals, restart counts | `startAll`, `startServer`, health check, `handleCrash`, `stopAll` | one container per server, none unwatched, startup ends, shutdown stops all |
| MCP proxy (`mcp/proxy.ts`) | registrations by address | register, unregister, CONNECT | no stale address |
| Dispatcher (`dispatcher.ts`) | one container per execution | `execute` | a container per call, removed on every path; success is told only of a program that succeeded |
| Bridges (`bridge-telegram`, `bridge-slack`) | `approvalMessages`, `resolvedApprovals`, `pendingRequests`, threads | buttons, cards, messages, commands | a decision shown is a decision sent, one per approval; expiries and answers reach the user, in the right thread |
| Socket (`shared/src/socket.ts`) | connections, backoff, line buffer | connect, reconnect, send, broadcast | lines arrive in order while connected, and the client reconnects |
| OAuth (`services/*-oauth.ts`, `services/oauth.ts`) | pending logins, callback server, one refresh, token table | start, complete, refresh, disconnect | one login per user, a code redeemed once, links that lead back, one refresh for all turns |
| Scheduler (`scheduler.ts`) | timer per heartbeat | start, stop, toggle, fire | one timer per enabled heartbeat, which fires again and again |
| Soul manager (`soul.ts`) | file, blessed hash, versions | load, verify, update | the prompt carries what was loaded or approved |
| Skills manager (`skills.ts`) | skills with their hashes | load, verified read, disable | a changed skill is never shown |
| Classifier, capability tokens | none | pure | agree with their rules |
| Audit, configuration, prompts, providers, service clients, executors | rows, files, HTTP | | plain input and output |

**Interactions.** A bridge line or an HTTP request reaches the message handling, which
classifies the task, starts a chat turn or a task loop, and both call the orchestrator.
For each tool call the orchestrator awaits the gate; the gate broadcasts a card through
the socket to all bridges, and as an SSE event to the dashboard, and awaits a promise that
`resolveApproval` or a timer settles. An approved `browse_web` may await a second card
for its domain. Executor tools end in the dispatcher, MCP tools in the MCP manager. The
session manager's `onSessionExpired` clears grants and domains. Health-check intervals
call back from the container manager into the MCP manager.

**What is hard.** Everything is one event loop, so the hazards sit at the awaits: state
copied before an await and written back after it (histories, task records), answers that
race timers, sweeps and session expiry, recoveries that overlap startup and shutdown, and
crashes that lose the memory but not the tables. Between the processes there are lines in
flight, a connection that breaks at either end, and posts that a chat platform refuses. `PROJECT.json` lists each hazard with
its line and the property that watches it.

## 2. Modules

    HitlGate   <-- MCHitlGate          HitlGate_proofs
    Turns      <-- MCTurns             Turns_proofs
    McpServers <-- MCMcpServers        McpServers_proofs

    SocketLink <-- Desk <-- Bridge <-- TelegramBridge, SlackBridge <-- MCBridges <-- Bridges_proofs

    OAuthLogin <-- CodexOAuth, GoogleOAuth  \           OAuthLogin_proofs <-- OAuthTokens_proofs
    Scheduler                                \
    PromptFiles                               > <-- MCServices <-- MCServices_proofs
    Dispatcher                               /          Services_proofs

**Abstract specifications** say what a component promises without the means of the code:

| abstract | implemented by | as the property | says |
|---|---|---|---|
| `Consent` | `HitlGate` | `ImplementsConsent` | each gate is decided once, and a call runs once with the verdicts and the host it needs |
| `Consent` | `Desk`, in `MCBridges` | `DeskConsents` | the approvals a bridge sees keep the same protocol, whatever the link loses |
| `Conversation` | `MCBridges` | `RequestsAnswered` | an accepted request has one outcome at most, for good, and its answer is shown where it was made |
| `BoundedTasks` | `Turns` | `TasksBounded` | a task has a bounded number of rounds, none after a confirmed stop, and one end |
| `LoginLinks` | `OAuthLogin`, in `MCServices` | `LinksUsedOnce` | a link is offered once, redeemed while open, by one exchange at a time |
| `Supervision` | `McpServers` | `Supervised` | a server is launched at the startup or for a death, never beside a container that runs, and given up only by a failed start or the shutdown |

**Granularity.** An action runs from one await to the next. In `HitlGate` microtasks are
explicit: a settled promise makes its continuation runnable (`Resume`), and `Quiet` keeps
every macrotask (a socket line, a timer, an LLM answer) behind it. Two decisions that
arrive in one chunk of the socket are handled in one loop with no microtask between;
`ResolveApproval` is therefore not behind `Quiet`. Nor is a crash. Where one handler writes the
disk twice, the writes that a crash or an error can part have actions of their own (the soul
file and its row in `PromptFiles`, the rows of Gmail and Calendar in `GoogleOAuth`).

### HitlGate: the gate, the store, sessions, domains, and the path of a tool call

| state | code |
|---|---|
| `pending`, `timers`, `promise`, `result` | `pendingDecisions`, the `setTimeout` of `awaitDecision`, its promise, `GateResult.proceed` |
| `store` | `status` in `pending_approvals` |
| `grants`, `domains`, `session` | `sessionGrants`, `DomainManager.sessionDomains`, `SessionManager.sessions` (none, live, past its TTL) |
| `req`, `phase`, `ran`, `token` | the tool call, where it is in `runLoop`, whether a handler was entered, `allowedDomains` of its capability token |
| `sent`, `first` | broadcasts; history: the first answer or timeout of each gate |

`Begin` is a user message up to the await of the LLM, `CallTool` the LLM's answer up to the
first gate, `Gate` the call of `gate()` (`PassGate`, or `AskGate` with its card), `Resume`
the continuation after a settled promise (with `PreFlight`, which may call `gate()` again
for a domain, `AddDomain`, `DispatchNow`, `Refuse`), `ResolveApproval`, `Timeout`, `Sweep`,
`Cleanup`, `End` of a turn, and `Restart`, a crash. `Tier` is the whole tier logic of
`gate()`: classification, the tier of an MCP server, session grants, trusted hosts, the
exception for soul updates.

`Verdict` maps the gate to `Consent`; it reads the promise, the result and the record.

### Turns: messages, histories, the dashboard's lock, the task loop

`user`, `pc`, `base` (the copy of `session.messages` a chat turn starts from), `history`,
`busy` (`chatBusy`), `status`/`iteration`/`created` (`task_sessions`), `cancelled`
(`cancelledSessions`); `stopped` and `log` are history variables. `StartChat`, `StartTask`
and `Refuse` begin a turn, `AnswerChat` and `Iterate` end an await of the LLM with an
answer, `Fail` with an error, `Wake` ends the pause between two iterations; `Stop`,
`Reset`, `Expire` and `Restart` happen around them. A message is its turn's name: what the
properties tell apart is whose messages a history holds and in which order. `Stage` maps a
turn to its task in `BoundedTasks`, which has no histories, no lock and no records: it reads
where the turn is and how it ended; what an error or a crash left behind is "adrift".

### McpServers: containers of MCP servers

A container is named by the call of `startContainer` that makes it; the name also stands
for the flow that made the call and for the interval it arms. `stage` says where that flow
awaits: `removing` the old container, `launching`, `launched` (the inspection for the
address), `handshake`, `answered`. `containers`, `restartCounts`, `intervals`,
`healthChecks`, `status`, `client`, `registrations` are the tables of the code; `alive` and
`address` are Docker's. `lost` holds recoveries whose server state was replaced in the
table when the startup of the same server failed (`manager.ts:89`). `Tick`, `SeenAlive`
and `SeenDead` are the health check before and after its await; `HandleCrash` is
`handleCrash` and `restartContainer` up to their first await; `StopAll` and `Stopped` are
the shutdown before and after Docker.

`Care` maps a server to `Supervision`: it is cared for by the flow on its way to a new
container, by the interval that is armed or awaits an inspection, or by nobody.

Assumed of the surroundings: Docker answers an inspection before the next tick, 30 seconds
later, carries out a stop or a removal, always gives a networked container an address, and
frees the address of a container that died. Closing an MCP client takes only microtasks.

### SocketLink, Desk, Bridge, TelegramBridge, SlackBridge: a bridge and its gateway

`SocketLink` is the connection. `sock`, `timer`, `delay` are the client's socket,
`reconnectTimer` and `reconnectDelay`; `peer` is the server's end (in the backlog, held in
`clients`, or gone), `client` is `nextClientId`, `toGateway` and `toBridge` are the lines
written and not read. Either process may stop and is started again. What the client writes
without a connection is dropped; what was on its way to a process that stops is lost. A
connection that is reset, not ended, emits an `error` that no bridge listens for, which
ends the bridge process (`Reset`).

`Desk` is the gateway as a bridge sees it: approvals asked and expired by broadcast and
decided once (`verdict`; `HitlGate` has the gate itself), commands answered by broadcast,
messages answered on the connection they came by (`serving`), and notices.

`Bridge` is what the two bridges share: `refs`, `resolved`, `pending` and `channel` are
`approvalMessages`, `resolvedApprovals`, `pendingRequests` and `channelThreads`. A handler
runs up to its first post in one step and leaves the rest in `jobs`, with the posts it will
try in turn (`TelegramTries`, `SlackTries`): formatted first, plain after a refusal where the code has such a
fallback. Handlers are not awaited, so the next line is handled while a post is under way. The
platform may take or refuse any post. Some texts it always refuses, because they break the
platform's own markup rules: those tries are called "broken". `cards`, `asked`, `home`,
`shownIn`, `unposted` are what users see and did.

`TelegramBridge` and `SlackBridge` have one action per command, message, button and line.
They differ in `TelegramPress` and `SlackPress` (Slack does not give up without a connection), in threads, in text
commands (Slack only), and in the tries of each post.

### OAuthLogin, CodexOAuth, GoogleOAuth: logins and tokens

`OAuthLogin` is the login flow the two services share, line by line but for names. `flow`
holds `pendingByState`, `stateByUser`, `callbackServer`, `callbackPort` and the sockets that
listen, those of replaced servers included; `starts` are calls of `startLogin` that wait for
`listen`, `exchanges` codes on their way to the issuer, `connected` the logins that
succeeded. `CodexOAuth` adds its row of the token store and the refresh that turns share
(`waiting` on `refreshPromise`, `requests`); `GoogleOAuth` the rows of Gmail and Calendar,
the API clients that write renewed tokens back, and the tools offered. The two rows are two
statements: `WriteBoth` is the pair that is completed, which no other handler can observe half
done, and `WriteFirst` the one that is cut off, by an error of the second (`GoogleStoreFails`,
`RenewalFails`) or by the end of the process (`GoogleCutOff`, also the outcome of an error of
the second deletion, which nobody catches); `torn` remembers it until a pair is completed. Each
of their steps is a step of `OAuthLogin` or leaves it alone. `LoginLinks` has no states, servers, timers and
marks: a login is open, redeemed or connected.

### Scheduler, PromptFiles, Dispatcher

`Scheduler`: `timer` is the table, `armed` the timers that will fire. Time is left out but
for the `hops` of a delay longer than `setTimeout` takes, which the code chains. `runs` are
callbacks in progress; a toggle may start a second one.

`PromptFiles`: `soulFile`, `blessed` and `versions` of the soul manager, `skillFile` and
`skills` of the skills manager, under edits of the files by anybody, failed inserts and
crashes. `standing` and `shown` are history variables. A hash is the content it is of.

`Dispatcher`: `stage` says at which await of `execute` a call is, `box` what Docker has,
`exit` what the program printed and its code. Any call of Docker may fail, the exit races the
timeout, and the gateway may crash.

## 3. Runs

| run | instance | shows |
|---|---|---|
| `hitl_gate` | 2 concurrent calls, 2 users, 8 kinds of request, 4 hosts, 1 crash; 750 thousand states | type invariant and seven safety properties |
| `hitl_fair` | 2 calls of one kind, 1 crash; 81 thousand states | `ImplementsConsent`, `EveryWaitEnds`, `StalePendingExpires` |
| `turns` | 3 turns of 2 users, history limit 3, 2 iterations, 1 crash; 893 thousand states | type invariant, lock, history, records, `TasksBounded` |
| `turns_liveness` | 2 turns, 3 iterations, 1 crash | `TurnsEnd` |
| `mcp_servers` | 2 networked servers, 2 addresses, 2 crashes, 4 containers; 863 thousand states | type invariant, watch, registrations, shutdown, `Supervised` |
| `mcp_liveness` | 2 servers, one networked, 1 crash, 3 containers | `StartupEnds`, `CrashNoticed` |
| `bridges` | Telegram or Slack, cards or requests or notices; 1 approval, 2 requests, 2 notices, 1 stop of the gateway, 1 of the bridge; 244 thousand states | type invariant, one decision, `DeskConsents`, `RequestsAnswered`, and what ends well: reconnection, expiries, answers |
| `services` | one part per behaviour: 2 users and 3 logins (2 with tokens), 2 turns, 3 tokens; 3 heartbeats, one unparsable; 2 soul and skill contents, 2 skills; 1 call of 2 lines; 425 thousand states | type invariant, six safety properties, `LinksUsedOnce`, `FiresAgain` |
| `hitl_domain_wildcard`, `turns_stop`, `turns_lost_update`, `bridges_lost_decision` | the smallest instance that shows it | the violations of section 5 |

**The properties.**
`PendingTracked`: a card is pending exactly while some call waits at it, with its timer
armed. `ExecutionAccounted`: what ran was auto-approved, announced, or approved by the
first answer. `GrantsConsented`, `CapabilityTraced`, `NoticesJustified`: grants, tokens and
passes without a card go back to an answer of the same user. `RecordAgrees`,
`SettledFinal`: the record says what the gate did, for good. `BusyTracked`,
`WebKeepsRecent`: the dashboard's lock and the history it protects. `RecordTracksLoop`: the task
record and its loop. `TasksBounded`: the loop as a whole, over overwritten records, errors,
stops and crashes: no iteration begins after a confirmed stop, and a verdict is final.
`Watched`, `CrashNoticed`: no listed container is left without an interval, and its death
is acted on: the container leaves the table, though its restart may fail. `Supervised`: the whole life of a server's containers, in which overlapping
recoveries, startup and shutdown never run two of them, each recovery answers a death of its
own and the limit of restarts plays no part. `NoStaleRegistration`, `StopsListed`: the proxy's
table and the shutdown.

`DecisionsKept`: a bridge process writes one decision per approval and none after it told of
the expiry, even if the expiry overtook the post of the card; on Telegram a card shows only
decisions that were written. `Reconnects`, `ExpiryTold`, `TurnsAnswered`: the
link comes back, and what the gateway sent over it reaches the user or the platform refused
it. `RequestsAnswered`: no request gets two outcomes, an answer nobody asked for, or one
outside of the thread it was made in, though mentions, lines, turns and posts of several
requests overlap and either process may stop.
`DeskConsents`: an approval is decided once, whichever presses arrive before and after a
stop of the gateway. `LinksUsedOnce`: a user has one open login, and a code is not redeemed
from the browser and from a command both; offer, exchange, success and lapse come in that
order, across timers, replaced servers and restarts. `RedirectsServed`: the link of a pending login leads to a listening
socket. `ServicesTogether`: Gmail and Calendar hold one token, unless a crash or an error fell
between the writes to their rows and no login, renewal or disconnect was completed since; and
neither is offered without a token. `OneRefresh`: one refresh for all turns. `OneTimer`, `FiresAgain`: no heartbeat fires from two timers or never again.
`PromptVerified`: what the model reads was loaded, by the last start, or approved since. `CallsAccounted`: a call that
returned leaves no container and tells a success only of one.

Five properties are stated and proved, but no run checks them on their own, since an error
that breaks one breaks the refinement of the same run: `OneContainer` (a server never has two
running containers; see `Supervised`), `OneLogin` (one pending login of a user, one exchange of
a code; `LinksUsedOnce`), `RepliesInThread` (`RequestsAnswered`), `NoIterationAfterStop`
(`TasksBounded`) and `VerdictFinal` (`TasksBounded` with `RecordTracksLoop`).

**Bounds.** Two calls are enough for one to answer, wait or expire around the other: the
properties relate at most two gates, and the grants of one call are used by the next. The
eight requests reach every branch of `Tier`. Three turns let one turn start before and end
after another while a third reads the result; a history limit of 3 with 2 messages a turn
cuts inside a turn. Two crashes of containers put the second in the recovery from the
first; four containers are the two startups and a recovery for each crash. `MaxRestarts`,
`MaxCrashes`, `MaxContainers` bound counters and are constants, as are `MaxMessages`,
`MaxIterations` and `MaxRestartAttempts`, which are constants of the code (50, 10 and 3).
`Sizes` is {2} in the runs; the proofs leave it free.

In `bridges` a stop of each side gives every order of loss, restart and reconnection of both;
two requests are enough for one to be mentioned while the other is served, and the delay
reaches its limit after two attempts. Approvals share no state, so one is enough for the
race of card, press and expiry. The kinds of traffic meet only in the lines of the link, so a
behaviour has one of them. The parts of `services` share no state, either. Three logins let
a server be replaced while an older one still listens and a third login begins; the tokens
of the services need two. One hop makes a chain; two runs overlap; two toggles disable
and enable. `MaxDowns`, `MaxExits`, `MaxNotices`, `MaxLogins`, `FewLogins`, `MaxTokens`,
`MaxHops`, `MaxRuns`, `MaxToggles`, `MaxUpdates`, `MaxLines` are bounds; `FirstDelay` and
`MaxDelay` are constants of the code (500 ms and 10 s, in the runs 2 s).

**Symmetry** is used in safety runs only: calls, turns, or servers and addresses are
permuted; requests and users are not.

**Deadlock** is checked except in the runs of `McpServers`, where a shut-down system stops,
in `bridges`, where users need do nothing once everything is connected, and in `services`,
where a call that returned is done.

**Fairness.** `HitlGate`: queued continuations run, armed timers fire (the event loop) and the
sweep goes on every minute; nothing makes the LLM or a user answer, a session expire or the
process crash. `Turns`: the LLM answers or throws (its HTTP client has a timeout)
and the pause timer fires. `McpServers`: Docker's calls and the handshake end one way or
the other (the MCP client gives up after a minute), intervals fire, and strong fairness of
`SeenDead` says that inspections of a dead container do not fail for ever; Docker starting
a container or a server answering is not assumed, only that the await ends. `MCBridges`:
the containers restart what stopped (`restart: unless-stopped` in the compose file), timers
fire, connections are accepted, lines are handled, turns end and posts end, taken or refused;
users do nothing they do not want to. `Scheduler`: timers fire and runs end, since the model,
the tools and the gate's wait all have timeouts. The other parts of `services` assume none.

## 4. Proofs

TLAPS proves the following for every value of the constants that meets the assumptions
named in the modules (finite or not, any number of calls, users, turns, servers, crashes).

**HitlGate_proofs.** `TypeCorrect`; then layer by layer. `TrackInv` adds to
`PendingTracked` that a gate not reached yet is fresh in every table (`FreshInv`), without
which a settled promise could be pending again. `RecordInv` adds that a settled record has
a result, hence `RecordsAgree` and `SettledIsFinal`. `AnswerInv` ties promises and results
to `first`; `RunInv` says what a call that ran had passed; `ToolFirst` that a domain is
asked for after the tool. From these follow `ExecutionIsAccounted`, `GrantsAreConsented`,
`CapabilitiesAreTraced` and `NoticesAreJustified`. `GateImplementsConsent` proves the
refinement: under `SafeInv`, the initial states map to initial states and each action to
one step of `Consent` or a stutter.

**Turns_proofs.** `TypeCorrect` needs that a loop in an iteration has not reached its limit
(`Bounded`). `RecordsTrackLoops` and `StoppedLoopsRest` rest on `LoopInv`: a stopped task
that can still run is in `cancelledSessions`. `VerdictsAreFinal` follows because only the
loop itself writes to a record that is not active. `LockIsTracked` is inductive.
`WebHistoryKept` needs that the copy in a dashboard turn is up to date (`BaseKeeps`), which
the lock gives, and lemmas on sequences (`TrimType`, `KeepsAppend`). `LoopImplementsTasks`
rests on `TaskInv`: `LoopInv`, with it that whoever is in `cancelledSessions` was confirmed to
be stopped, and that a loop that runs or ended has a record. `Stages` says what the mapping
makes of each place of a turn; an action then moves one task (`MovesGo`) or none (`MovesStay`).

**McpServers_proofs.** `TypeCorrect`: types, with containers numbered in the order they are
made and given to a server that was started (`MadeInOrder`). The heart is `TokenInv`: of each
server, at most one flow is on its way to a new container or one interval is awake, never
both, because an interval that reports a crash ends before the recovery begins and the
recovery arms the next one. With it `LoneInv` says what a running container may be to each
flow (nothing else runs while one is launched, only the old one while it is removed), from
which `OneContainerRuns` follows: the only step that adds a container is `Launch`.
`ListedAreWatched` needs `CountInv` (a watched server has no restarts counted, so its crash
is never given up) and `PhaseInv` (a server is missing from the table only before its start
or after the shutdown). `RegistrationsAreFresh` needs `RegInv` (a flow on its way works for
a server without a registration), `ShutdownStopsListed` needs `StopInv` (what was listed at
the shutdown is being stopped as long as it runs). `PlaceInv` keeps the tables on containers
of their own server. `ManagerImplementsSupervision` adds `AwakeInv`: an interval inspects the
container it was armed for, does not end under an inspection before the shutdown, and what a
recovery removes has died. `CareOf` reads the state of care off whatever holds the server,
which `TokenInv` makes unique; then each action turns the care of one server (`CareTurns`,
`OthersKept`), except the shutdown, which may turn several. By `CountInv` the branch of
`HandleCrash` that gives up is never taken, so that `Supervision` has no such step.

**OAuthLogin_proofs.** `LoginInv` is `FlowInv`, about the tables (states are unique,
`stateByUser` and `pendingByState` agree in both directions, the port in the table and the
port in every pending link that names one is open), and `Books`, which keeps a login in one
place: waiting for its server, pending, in one exchange (and then marked, if it is still
pending), or connected. Each helper of the flow (`Clear`, `Prune`, `Began`, `Mark`) has a
lemma that it keeps `FlowInv` and whose pending logins it leaves; the actions follow. From
it `LoginsAreSingle` and `LinksLeadBack`. `LoginImplementsLinks` follows the same helpers
through `LoginLinks`: every step may also find the time of some links up, so each lemma names
the users whose links lapsed with it; `Books` says that a login number is new when it is
offered. It needs that `MaxLogins` is a number.

**OAuthTokens_proofs.** `CodexLogsIn` and `GoogleLogsIn`: every
behaviour of the services is one of `LoginSpec`, so they inherit both theorems.
`RefreshIsShared` rests on `RefreshInv` (no turn waits and no request is out, or exactly one
request is), `ServicesStayTogether` on `TokenInv` (both rows hold one token unless a pair of
writes was cut off, an offered service has its token, no client holds an empty one); the lemma
`Writes` says what a completed pair and a first write leave of it.

**Services_proofs.** `OneTimerEach` needs `TableInv`, the types of the tables: `SetTimer`
keeps `OneTimer` only if no other timer of the heartbeat is armed, which holds in
`scheduleNext` because it clears the one in the table, and in a chain because the timer that
fires was that one. `PromptIsVerified`: the blessed hash is that of what stands, and what
was shown has the hash of its skill, which no step of a running gateway changes.
`CallsAreAccounted` rests on `CallsInv`: a call that reads logs has a program that exited by
itself, a container that is gone stays gone, and only `Succeeded` calls are told as such.

**MCServices_proofs.** `ServicesTypeCorrect`, for all parts together, from `Bounds` (the bounds
are numbers, with room for a first version of the soul). The timer numbers need `BeatsInv`,
without which a heartbeat could use them up; a client's token is a login's number because
exchanges are of logins that began. `PartsAreThemselves`: each part of the composition takes
its own steps or none (`PartSteps`), so that a behaviour of `MCServices` is one of `LoginSpec`,
`BeatsSpec`, `FilesSpec` and `CallsSpec`, and what was proved of these holds there:
`ServicesUseLinksOnce`, and `ServicesAreSafe` with the six safety properties that the run
checks and `OneLogin`. The tokens need an invariant of their own (`TokensKept`), since two services share the
login and either may take its steps.

**Bridges_proofs** is about `MCBridges`, both platforms at once. Lemma `Steps` reduces their
actions to a few common forms (`UserStep`, `PressStep`, `HandlerStep`, `Shared`), so that
each invariant is shown once per form. `TypeCorrect`. `DecisionsAreKept` rests on
`DecisionInv`: what was written or told is resolved, so is the approval of an expiry on its
way to the user, and on Telegram the decision a job will show is written.
`SoleInv`: a request is in one place at most (line to the gateway, turn, answer line, or the
handler that posts the answer), once, and only while it has no outcome; it holds
through every loss and stop. `AnswersStayInThread` rests on `ThreadInv`. Its first half, `PlaceInv`, says
that lines, turns, jobs and pending requests belong to a request that was made, and to its
thread. The second, `AwaitInv`, says that as long as nothing stopped, what is on its way is in
`pendingRequests`; with `SoleInv`, taking an answer off that table leaves none that waits. It is
needed because Slack takes the thread of an answer from that table. The two refinements use
the same forms of steps: `DeskImplementsConsent` needs only the types, since the desk keeps
the verdict itself, and `BridgesImplementConversation` needs `SoleInv`, without which a second
copy of an answer would be shown after the outcome, and `ThreadInv` for its place.

**Model-checked only.** Liveness (`EveryWaitEnds`, `StalePendingExpires`, `TurnsEnd`,
`StartupEnds`, `CrashNoticed`, `Reconnects`, `ExpiryTold`, `TurnsAnswered`, `FiresAgain`):
TLAPS handles neither ENABLED nor fairness.

## 5. Where the code departs from its documentation

Each of the first four is a run that TLC ends with a counterexample, and a finding in
`PROJECT.json`.

* `DomainsConsented`: domain cards share the grant key `*`, so one "allow for session"
  lets every later domain in, with a notice.
* `StopHolds`: an iteration in flight overwrites the record of a stopped task.
* `KeepsRecent`: concurrent messages of a bridge user lose one another from the history.
* `DecisionShownWasSent`: a Slack button pressed while the gateway is away edits the card to
  show the decision, which was never written; Telegram says so and keeps the card.

Met while modelling, without a run:

* Grants and domains left by an answer that arrives after the session was cleaned up
  belong to no session (`README.md:314`): a message does not refresh the session's age, so it
  may end while a card of the turn waits, and the next session inherits the grant.
* A record the sweep expires is announced to no bridge (`approval-store.ts:166`).
* The limit of restart attempts of an MCP server is never reached, because the restart
  resets the count (`mcp/container.ts:348`); by `ManagerImplementsSupervision` the step that
  gives a server up is never taken.
* Docker may give the address of a dead container to a new one before the crash is noticed.
  Unregistering the dead container then removes the entry of the other server
  (`mcp/container.ts:319`), which is refused by the proxy until it is restarted. The model
  reaches this in ten steps; `NoStaleRegistration` excludes wrong entries, not missing ones.
* The rows of Gmail and Calendar are written, and deleted, by two statements without a
  transaction (`services/google-oauth.ts:518`, `:200`, `services/gmail.ts:96`,
  `services/calendar.ts:69`, "update both gmail and calendar stores to keep in sync"). A crash
  or an error between them leaves one service with another token than the other, or with
  none. `ServicesTogether` allows this until the next complete pair.
* A heartbeat uses its user's session, while `README.md:202` says it creates a fresh one.
* A recovered MCP server is not offered to the LLM until the tool list is rebuilt for
  another reason.
* A user whose only pending login of the service gives way to a new one stops the callback
  server in doing so, and the new link names a null port (`services/google-oauth.ts:126`,
  the same in `openai-codex-oauth.ts`). `RedirectsServed` leaves this case out.
* A refresh that is rejected late deletes the row of a login made meanwhile, and a client
  that outlives a disconnect writes its token back (`openai-codex-oauth.ts:407`,
  `services/gmail.ts:96`). Both are steps of the models.
* A gateway that starts without a soul file serves any file that appears later, unverified
  (`README.md:328`). `PromptVerified` is about a gateway that had one.
* A soul update by the dashboard is recorded as made by the agent (`soul.ts:207`), and an
  update whose row cannot be inserted stays in force without a version.
* The list of sessions, a triggered heartbeat and the first try of a list of memories are
  markup that Telegram refuses.

## 6. What is not modelled

* **Text.** Cards, prompts, summaries, formatting, logging and the audit table; the contents
  of messages. Histories hold names of turns, so a trim that separates a tool call from its
  result is not seen.
* **Functions of strings.** The rules of the classifier, the suffix match of domains,
  `extractPatternKey`, paths and hosts in the executors, the frontmatter of skills, URLs and
  JWTs of logins: their values are model values, and the match of hosts a relation.
* **Bytes.** `SocketLink` carries whole lines; a multi-byte character split between two chunks
  (`shared/src/socket.ts:21`) is below it.
* **Several bridges on one socket at once.** A bridge sees of another only that a broadcast
  comes whether or not it asked, which `Desk` has.
* **Plain input and output.** Providers, service clients, executors, configuration, audit,
  full-text memory, encryption of the token store, translation of MCP tools and its JSON-RPC
  client, the pipe of the proxy's CONNECT. `refreshTokenIfNeeded` of Google is called by
  nothing.

`PROJECT.json` gives the reason for each component.

## 7. Plan

In this order; the first six are done.

1. `HitlGate` with `Consent`: the behaviour the product is about. With proofs.
2. `Turns`: sessions, dashboard lock, task loop. With proofs.
3. `McpServers`: startup, recovery, shutdown. With proofs.
4. `SocketLink`, `Desk`, `Bridge` and the two bridges. With proofs.
5. `OAuthLogin`, `CodexOAuth`, `GoogleOAuth`. With proofs.
6. `Scheduler`, `PromptFiles`, `Dispatcher`. With proofs.
7. `Algorithms`: `classifyAction` with its rules, `matchesDomainSet`, `extractPatternKey`,
   `truncateUtf8` and the line splitter of the socket, against reference definitions over
   bounded inputs.

Every invariant, action property and refinement that a run checks is also a theorem; what
is left to prove is liveness, which these provers do not handle.
