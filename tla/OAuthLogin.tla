---- MODULE OAuthLogin ----
(***************************************************************************)
(* The login flow that GoogleOAuthService and OpenAICodexOAuthService have  *)
(* in common (services/google-oauth.ts, services/openai-codex-oauth.ts): a   *)
(* pending login per user, a callback server that runs while logins are      *)
(* pending, and the exchange of a code for tokens.  What happens to the      *)
(* tokens is in the modules of the services.                                 *)
(***************************************************************************)
EXTENDS Naturals, FiniteSets

CONSTANTS Users,
          MaxLogins   \* bound: calls of startLogin

VARIABLES
  flow,       \* the tables of the service and the sockets that listen, see FlowInit
  starts,     \* startLogin calls that wait for their callback server: [login, user]
  exchanges,  \* exchanges in flight: [login, via]
  connected,  \* logins whose exchange succeeded
  logins      \* calls of startLogin so far; a login and the server made for it bear its number

login == <<flow, starts, exchanges, connected, logins>>

NoPort == 0          \* null
FixedPort == 1       \* the port of the configuration
Ephemeral(l) == 1 + l
Vias == {"callback", "command"}

FlowInit == [pending |-> {},                    \* pendingByState
             current |-> [u \in Users |-> 0],   \* stateByUser
             server |-> 0, port |-> NoPort,     \* callbackServer, callbackPort
             listening |-> {}]                  \* [server, port], the forgotten ones included

LoginInit == flow = FlowInit /\ starts = {} /\ exchanges = {} /\ connected = {} /\ logins = 0

(* The port is forgotten at once, the socket accepts no more *)
StopCallbackServer(f) ==
  [f EXCEPT !.server = 0, !.port = NoPort, !.listening = {l \in @ : l.server # f.server}]

Without(f, gone) ==
  [f EXCEPT !.pending = @ \ gone,
            !.current = [u \in Users |-> IF \E p \in gone : p.state = @[u] THEN 0 ELSE @[u]]]

(* MUTANT of Clear: every login takes the server with it *)
ClearEagerly(f, S) ==
  LET gone == {p \in f.pending : p.state \in S}
  IN IF gone = {} THEN f ELSE StopCallbackServer(Without(f, gone))
(* clearPendingState of every login in S; the last one takes the server with it *)
Clear(f, S) ==
  LET gone == {p \in f.pending : p.state \in S}
      rest == Without(f, gone)
  IN IF gone # {} /\ rest.pending = {} THEN StopCallbackServer(rest) ELSE rest

Prune(f) == Clear(f, {p.state : p \in {q \in f.pending : q.old}})

Pending(f, l, u) ==
  [f EXCEPT !.pending = @ \cup {[state |-> l, user |-> u, port |-> f.port, busy |-> FALSE, old |-> FALSE]},
            !.current[u] = l]

(* MUTANT of Began: the user's earlier login stays *)
BeganAgain(f, l, u) == Pending(f, l, u)
(* The user's earlier login gives way before the redirect URI is built *)
Began(f, l, u) == Pending(Clear(f, {f.current[u]}), l, u)

(* startLogin: at once if the callback server runs, otherwise after it listens *)
StartLogin(u) ==
  LET f == Prune(flow) l == logins + 1 IN
  /\ logins < MaxLogins /\ logins' = l
  /\ IF f.server # 0 /\ f.port # NoPort
     THEN flow' = Began(f, l, u) /\ UNCHANGED starts
     ELSE flow' = f /\ starts' = starts \cup {[login |-> l, user |-> u]}
  /\ UNCHANGED <<exchanges, connected>>

(* ensureCallbackServer resumes: on the port of the configuration, or on     *)
(* another one if that is taken, be it by a server of this service           *)
Bound(b) ==
  LET free == \A l \in flow.listening : l.port # FixedPort IN
  /\ starts' = starts \ {b}
  /\ \E port \in (IF free THEN {FixedPort} ELSE {}) \cup {Ephemeral(b.login)} :
       flow' = Began([flow EXCEPT !.server = b.login, !.port = port,
                                  !.listening = @ \cup {[server |-> b.login, port |-> port]}],
                     b.login, b.user)
  /\ UNCHANGED <<exchanges, connected, logins>>

(* It cannot listen: the error goes to the user *)
BindFails(b) == starts' = starts \ {b} /\ UNCHANGED <<flow, exchanges, connected, logins>>

Mark(f, l, busy) ==
  [f EXCEPT !.pending = {IF p.state = l THEN [p EXCEPT !.busy = busy] ELSE p : p \in @}]

(* MUTANT of Accepts: an exchange in flight is not noticed *)
AcceptsBusy(f, u, l) == \E p \in f.pending : p.state = l /\ p.user = u /\ ~p.old
(* The checks of completeWithCode *)
Accepts(f, u, l) == \E p \in f.pending : p.state = l /\ p.user = u /\ ~p.old /\ ~p.busy

CompleteWithCode(f, u, l, via) ==
  /\ IF Accepts(f, u, l)
     THEN flow' = Mark(f, l, TRUE) /\ exchanges' = exchanges \cup {[login |-> l, via |-> via]}
     ELSE flow' = Prune(f) /\ UNCHANGED exchanges
  /\ UNCHANGED <<starts, connected, logins>>

(* A socket at the address that the link of a login leads back to; a login *)
(* that is not pending may have led anywhere                               *)
Served(f, l) ==
  \E s \in f.listening : \A p \in f.pending : p.state = l => p.port = s.port

(* The browser comes to the callback server, with any login it once opened *)
Callback(l) ==
  /\ l <= logins /\ Served(flow, l)
  /\ \E u \in Users :
       /\ \A p \in flow.pending : p.state = l => p.user = u
       /\ CompleteWithCode(flow, u, l, "callback")

Denied(l) ==
  /\ l <= logins /\ Served(flow, l)
  /\ flow' = Prune(Clear(flow, {l}))
  /\ UNCHANGED <<starts, exchanges, connected, logins>>

(* The user pastes the callback URL, or a code for the login of now *)
Paste(u, l) == l <= logins /\ CompleteWithCode(Prune(flow), u, l, "command")

(* The exchange succeeds, whatever became of its login meanwhile *)
Exchanged(e) ==
  /\ exchanges' = exchanges \ {e}
  /\ connected' = connected \cup {e.login}
  /\ flow' = LET f == Clear(flow, {e.login}) IN IF e.via = "callback" THEN Prune(f) ELSE f
  /\ UNCHANGED <<starts, logins>>

ExchangeFails(e) ==
  /\ exchanges' = exchanges \ {e}
  /\ flow' = LET f == Mark(flow, e.login, FALSE) IN IF e.via = "callback" THEN Prune(f) ELSE f
  /\ UNCHANGED <<starts, connected, logins>>

(* The time of a login is up, and its timer fires soon after *)
Age(p) ==
  /\ ~p.old
  /\ flow' = [flow EXCEPT !.pending = (@ \ {p}) \cup {[p EXCEPT !.old = TRUE]}]
  /\ UNCHANGED <<starts, exchanges, connected, logins>>
TimedOut(p) ==
  /\ p.old
  /\ flow' = Clear(flow, {p.state})
  /\ UNCHANGED <<starts, exchanges, connected, logins>>

(* The process stops: only the token store survives *)
Restart ==
  /\ flow' = FlowInit /\ starts' = {} /\ exchanges' = {}
  /\ UNCHANGED <<connected, logins>>

(* The flow by itself, whatever the service does with the tokens *)
LoginNext ==
  \/ \E u \in Users : StartLogin(u) \/ \E l \in 1..MaxLogins : Paste(u, l)
  \/ \E b \in starts : Bound(b) \/ BindFails(b)
  \/ \E l \in 1..MaxLogins : Callback(l) \/ Denied(l)
  \/ \E e \in exchanges : Exchanged(e) \/ ExchangeFails(e)
  \/ \E p \in flow.pending : Age(p) \/ TimedOut(p)
  \/ Restart

LoginSpec == LoginInit /\ [][LoginNext]_login

LoginTypeOK ==
  /\ flow.pending \subseteq [state : 1..MaxLogins, user : Users, port : 0..(1 + MaxLogins),
                             busy : BOOLEAN, old : BOOLEAN]
  /\ flow.current \in [Users -> 0..MaxLogins]
  /\ flow.listening \subseteq [server : 1..MaxLogins, port : 1..(1 + MaxLogins)]
  /\ starts \subseteq [login : 1..MaxLogins, user : Users]
  /\ exchanges \subseteq [login : 1..MaxLogins, via : Vias]
  /\ connected \subseteq 1..logins

OneLoginPerUser ==
  \A u \in Users : {p.state : p \in {q \in flow.pending : q.user = u}} = {flow.current[u]} \ {0}
RedeemedOnce ==
  \A e \in exchanges : e.login \notin connected /\ \A d \in exchanges : d.login = e.login => d = e

(* A user has one pending login at most, the one in stateByUser, so that no  *)
(* link of an abandoned login can be completed; and a code is never in two   *)
(* exchanges, from the browser and from a command, nor is a login that       *)
(* succeeded exchanged again                                                 *)
OneLogin == OneLoginPerUser /\ RedeemedOnce

(* Somebody listens at the address that the link of a pending login leads    *)
(* back to, though servers are replaced, overlap and stop.  One case is left *)
(* out: a link made while the last other login gave way names no port at all *)
RedirectsServed == \A p \in flow.pending : p.port # NoPort => Served(flow, p.state)

Links == INSTANCE LoginLinks WITH
           Logins <- 1..MaxLogins, None <- 0, open <- flow.current,
           used <- {l \in 1..logins : \A b \in starts : b.login # l},
           redeeming <- {e.login : e \in exchanges}

(* A link is offered once, to one user, and closes for good: when it is      *)
(* redeemed, when its time is up, or when a newer one takes its place.  What  *)
(* the browser, a pasted callback, timers, replaced servers and restarts do  *)
(* to the tables is what LoginLinks allows                                   *)
LinksUsedOnce == Links!Spec
====
