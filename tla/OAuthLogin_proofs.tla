---- MODULE OAuthLogin_proofs ----
(***************************************************************************)
(* Proofs about the login flow: one pending login per user, no code redeemed *)
(* twice, links that lead back to a socket, and the flow as LoginLinks.      *)
(***************************************************************************)
EXTENDS OAuthLogin, TLAPS

----
(* The tables of the service *)

Entries == [state : Nat \ {0}, user : Users, port : Nat, busy : BOOLEAN, old : BOOLEAN]
Flows == [pending : SUBSET Entries, current : [Users -> Nat], server : Nat, port : Nat,
          listening : SUBSET [server : Nat, port : Nat]]

Open(f, port) == \E s \in f.listening : s.port = port

FlowInv(f) ==
  /\ f \in Flows
  /\ \A p, q \in f.pending : p.state = q.state => p = q
  /\ \A p \in f.pending : f.current[p.user] = p.state
  /\ \A u \in Users : f.current[u] # 0 => \E p \in f.pending : p.user = u /\ p.state = f.current[u]
  /\ \A p \in f.pending : p.port # NoPort => Open(f, p.port)
  /\ f.port # NoPort => Open(f, f.port)

(* Stopping the callback server when no login is pending. *)
LEMMA StopKeeps ==
  ASSUME NEW f, FlowInv(f), f.pending = {}
  PROVE  FlowInv(StopCallbackServer(f)) /\ StopCallbackServer(f).pending = {}
         /\ StopCallbackServer(f).current = f.current
<1> DEFINE g == StopCallbackServer(f)
<1>1. /\ g \in Flows /\ g.pending = {} /\ g.current = f.current /\ g.port = NoPort
  BY DEF FlowInv, Flows, StopCallbackServer, NoPort
<1> HIDE DEF g
<1>2. FlowInv(g)
  BY <1>1 DEF FlowInv
<1> QED BY <1>1, <1>2 DEF g

(* Taking logins out of the tables. *)
LEMMA WithoutKeeps ==
  ASSUME NEW f, FlowInv(f), NEW gone \in SUBSET f.pending
  PROVE  /\ FlowInv(Without(f, gone))
         /\ Without(f, gone).pending = f.pending \ gone
         /\ \A u \in Users : \/ Without(f, gone).current[u] = 0
                             \/ /\ Without(f, gone).current[u] = f.current[u]
                                /\ \A p \in gone : p.state # f.current[u]
<1> DEFINE g == Without(f, gone)
<1>1. /\ g.pending = f.pending \ gone
      /\ g.current = [u \in Users |-> IF \E p \in gone : p.state = f.current[u] THEN 0 ELSE f.current[u]]
      /\ g.port = f.port /\ g.listening = f.listening /\ g.server = f.server
      /\ g \in Flows
  BY DEF FlowInv, Flows, Without
<1> HIDE DEF g
<1>2. \A p \in g.pending : g.current[p.user] = p.state
  <2> TAKE p \in g.pending
  <2>1. p \in f.pending /\ p \notin gone /\ p.user \in Users /\ f.current[p.user] = p.state
    BY <1>1 DEF FlowInv, Flows, Entries
  <2>2. \A q \in gone : q.state # p.state
    BY <2>1 DEF FlowInv
  <2> QED BY <1>1, <2>1, <2>2
<1>3. ASSUME NEW u \in Users, g.current[u] # 0
      PROVE  \E p \in g.pending : p.user = u /\ p.state = g.current[u]
  <2>1. g.current[u] = f.current[u] /\ \A p \in gone : p.state # f.current[u]
    BY <1>1, <1>3
  <2>2. PICK p \in f.pending : p.user = u /\ p.state = f.current[u]
    BY <1>3, <2>1 DEF FlowInv
  <2> QED BY <1>1, <2>1, <2>2
<1>4. FlowInv(g)
  BY <1>1, <1>2, <1>3 DEF FlowInv, Open
<1>5. \A u \in Users : g.current[u] = 0 \/ (g.current[u] = f.current[u] /\ \A p \in gone : p.state # f.current[u])
  BY <1>1
<1> QED BY <1>1, <1>4, <1>5 DEF g

(* clearPendingState: what is left of the tables, with or without a server.   *)
LEMMA ClearKeeps ==
  ASSUME NEW f, FlowInv(f), NEW S
  PROVE  /\ FlowInv(Clear(f, S))
         /\ Clear(f, S).pending = {p \in f.pending : p.state \notin S}
         /\ \A u \in Users : f.current[u] \in S => Clear(f, S).current[u] = 0
<1> DEFINE gone == {p \in f.pending : p.state \in S}
           g == Without(f, gone)
<1>1. gone \in SUBSET f.pending
  OBVIOUS
<1>2. Clear(f, S) = IF gone # {} /\ g.pending = {} THEN StopCallbackServer(g) ELSE g
  BY DEF Clear
<1>3. f.pending \ gone = {p \in f.pending : p.state \notin S}
  OBVIOUS
<1>4. \A u \in Users : f.current[u] \in S /\ f.current[u] # 0 => \E p \in gone : p.state = f.current[u]
  BY DEF FlowInv
<1> HIDE DEF gone
<1>5. /\ FlowInv(g) /\ g.pending = f.pending \ gone
      /\ \A u \in Users : \/ g.current[u] = 0
                          \/ g.current[u] = f.current[u] /\ \A p \in gone : p.state # f.current[u]
  BY <1>1, WithoutKeeps
<1> HIDE DEF g
<1>6. \A u \in Users : f.current[u] \in S => g.current[u] = 0
  BY <1>4, <1>5
<1>7. CASE gone # {} /\ g.pending = {}
  <2>1. Clear(f, S) = StopCallbackServer(g)
    BY <1>2, <1>7
  <2>2. FlowInv(StopCallbackServer(g)) /\ StopCallbackServer(g).pending = {} /\ StopCallbackServer(g).current = g.current
    BY <1>5, <1>7, StopKeeps
  <2> QED BY <1>3, <1>5, <1>6, <1>7, <2>1, <2>2
<1>8. CASE ~(gone # {} /\ g.pending = {})
  BY <1>2, <1>3, <1>5, <1>6, <1>8
<1> QED BY <1>7, <1>8

(* pruneExpiredLogins *)
LEMMA PruneKeeps ==
  ASSUME NEW f, FlowInv(f)
  PROVE  FlowInv(Prune(f)) /\ Prune(f).pending \subseteq f.pending
<1> DEFINE S == {p.state : p \in {q \in f.pending : q.old}}
<1>1. Prune(f) = Clear(f, S)
  BY DEF Prune
<1> HIDE DEF S
<1> QED BY <1>1, ClearKeeps

(* A new login of a user who has none. *)
LEMMA PendingKeeps ==
  ASSUME NEW f, FlowInv(f), NEW l \in Nat \ {0}, NEW u \in Users,
         f.current[u] = 0, \A p \in f.pending : p.state # l
  PROVE  /\ FlowInv(Pending(f, l, u))
         /\ \A p \in Pending(f, l, u).pending : p \in f.pending \/ p.state = l
<1> DEFINE g == Pending(f, l, u)
           new == [state |-> l, user |-> u, port |-> f.port, busy |-> FALSE, old |-> FALSE]
<1>1. new \in Entries
  BY DEF FlowInv, Flows, Entries
<1>2. /\ g.pending = f.pending \cup {new}
      /\ g.current = [f.current EXCEPT ![u] = l]
      /\ g.port = f.port /\ g.listening = f.listening
      /\ g \in Flows
  <2> HIDE DEF new
  <2> QED BY <1>1 DEF FlowInv, Flows, Pending, new
<1>3. new.state = l /\ new.user = u /\ new.port = f.port
  OBVIOUS
<1> HIDE DEF g, new
<1>4. \A p \in f.pending : p.user # u /\ p.user \in Users
  BY DEF FlowInv, Flows, Entries
<1>5. \A p, q \in g.pending : p.state = q.state => p = q
  BY <1>2, <1>3 DEF FlowInv
<1>6. \A p \in g.pending : g.current[p.user] = p.state
  BY <1>2, <1>3, <1>4 DEF FlowInv, Flows
<1>7. \A v \in Users : g.current[v] # 0 => \E p \in g.pending : p.user = v /\ p.state = g.current[v]
  BY <1>2, <1>3 DEF FlowInv, Flows
<1>8. \A p \in g.pending : p.port # NoPort => Open(g, p.port)
  BY <1>2, <1>3 DEF FlowInv, Open
<1>9. FlowInv(g)
  BY <1>2, <1>5, <1>6, <1>7, <1>8 DEF FlowInv, Open
<1> QED BY <1>2, <1>3, <1>9 DEF g

(* A new login takes the place of the user's earlier one. *)
LEMMA BeganKeeps ==
  ASSUME NEW f, FlowInv(f), NEW l \in Nat \ {0}, NEW u \in Users, \A p \in f.pending : p.state # l
  PROVE  /\ FlowInv(Began(f, l, u))
         /\ \A p \in Began(f, l, u).pending : p \in f.pending \/ p.state = l
<1> DEFINE g == Clear(f, {f.current[u]})
<1>1. FlowInv(g) /\ g.pending \subseteq f.pending /\ g.current[u] = 0
  BY ClearKeeps
<1>2. Began(f, l, u) = Pending(g, l, u)
  BY DEF Began
<1> HIDE DEF g
<1> QED BY <1>1, <1>2, PendingKeeps

(* Q is P with the login l marked. *)
Marked(P, Q, l, busy) ==
  \A p \in Q : \E q \in P : /\ q.state = p.state
                            /\ p.state = l => (p.busy <=> busy)
                            /\ p.state # l => (p.busy <=> q.busy)

(* inProgress of a login. *)
LEMMA MarkKeeps ==
  ASSUME NEW f, FlowInv(f), NEW l, NEW busy \in BOOLEAN
  PROVE  /\ FlowInv(Mark(f, l, busy))
         /\ Marked(f.pending, Mark(f, l, busy).pending, l, busy)
<1> DEFINE g == Mark(f, l, busy)
           New(q) == IF q.state = l THEN [q EXCEPT !.busy = busy] ELSE q
<1>1. \A q \in f.pending : /\ New(q) \in Entries
                           /\ New(q).state = q.state /\ New(q).user = q.user /\ New(q).port = q.port
                           /\ q.state = l => (New(q).busy <=> busy)
                           /\ q.state # l => (New(q).busy <=> q.busy)
  BY DEF FlowInv, Flows, Entries
<1>2. /\ g.pending = {New(q) : q \in f.pending}
      /\ g.current = f.current /\ g.port = f.port /\ g.listening = f.listening
      /\ g.server = f.server
  BY DEF FlowInv, Flows, Mark
<1>3. g = [f EXCEPT !.pending = {New(q) : q \in f.pending}]
  BY DEF Mark
<1> HIDE DEF g, New
<1>4. {New(q) : q \in f.pending} \in SUBSET Entries
  BY <1>1
<1>5. g \in Flows
  BY <1>3, <1>4 DEF FlowInv, Flows
<1>6. \A p, q \in g.pending : p.state = q.state => p = q
  BY <1>1, <1>2 DEF FlowInv
<1>7. \A p \in g.pending : g.current[p.user] = p.state /\ (p.port # NoPort => Open(g, p.port))
  BY <1>1, <1>2 DEF FlowInv, Open
<1>8. \A u \in Users : g.current[u] # 0 => \E p \in g.pending : p.user = u /\ p.state = g.current[u]
  BY <1>1, <1>2 DEF FlowInv
<1>9. FlowInv(g)
  BY <1>2, <1>5, <1>6, <1>7, <1>8 DEF FlowInv, Open
<1>10. Marked(f.pending, g.pending, l, busy)
  BY <1>1, <1>2 DEF Marked
<1> QED BY <1>9, <1>10 DEF g
----
(* The tables, the starts, the exchanges and what succeeded *)

(* P, B, X, C, n: pending logins, starts, exchanges, connected, logins *)
Books(P, B, X, C, n) ==
  /\ n \in Nat
  /\ \A b \in B : b.login \in 1..n /\ b.user \in Users
  /\ \A b, c \in B : b.login = c.login => b = c
  /\ \A p \in P : p.state \in 1..n /\ \A b \in B : b.login # p.state
  /\ \A e \in X : /\ e.login \in 1..n /\ e.login \notin C
                  /\ \A b \in B : b.login # e.login
                  /\ \A d \in X : d.login = e.login => d = e
                  /\ \A p \in P : p.state = e.login => p.busy
  /\ \A l \in C : l \in 1..n /\ (\A b \in B : b.login # l) /\ (\A p \in P : p.state # l)

LoginInv == FlowInv(flow) /\ Books(flow.pending, starts, exchanges, connected, logins)

(* The books of fewer pending logins. *)
LEMMA BooksFewer ==
  ASSUME NEW P, NEW Q \in SUBSET P, NEW B, NEW X, NEW C, NEW n, Books(P, B, X, C, n)
  PROVE  Books(Q, B, X, C, n)
BY DEF Books

(* No login has begun. *)
LEMMA LoginInvInit == LoginInit => LoginInv
<1> SUFFICES ASSUME LoginInit PROVE LoginInv
  OBVIOUS
<1>1. flow = FlowInit /\ starts = {} /\ exchanges = {} /\ connected = {} /\ logins = 0
  BY DEF LoginInit
<1>2. FlowInv(FlowInit) /\ FlowInit.pending = {}
  BY DEF FlowInit, FlowInv, Flows, NoPort, Open
<1> QED BY <1>1, <1>2 DEF LoginInv, Books

(* startLogin keeps the invariant: its number is new. *)
LEMMA StartLoginKeeps ==
  ASSUME LoginInv, NEW u \in Users, StartLogin(u)
  PROVE  LoginInv'
<1> DEFINE f == Prune(flow)
           l == logins + 1
<1>1. FlowInv(f) /\ f.pending \subseteq flow.pending
  BY PruneKeeps DEF LoginInv
<1>2. /\ logins' = l /\ exchanges' = exchanges /\ connected' = connected
      /\ \/ flow' = Began(f, l, u) /\ starts' = starts
         \/ flow' = f /\ starts' = starts \cup {[login |-> l, user |-> u]}
  BY DEF StartLogin
<1>3. logins \in Nat /\ l \in Nat \ {0}
  BY DEF LoginInv, Books
<1>4. \A p \in f.pending : p.state # l
  BY <1>1, <1>3 DEF LoginInv, Books
<1> HIDE DEF f
<1>5. CASE flow' = Began(f, l, u) /\ starts' = starts
  <2>1. FlowInv(flow') /\ \A p \in flow'.pending : p \in f.pending \/ p.state = l
    BY <1>1, <1>3, <1>4, <1>5, BeganKeeps
  <2>2. Books(flow'.pending, starts, exchanges, connected, l)
    BY <1>1, <1>3, <2>1 DEF LoginInv, Books
  <2> QED BY <1>2, <1>5, <2>1, <2>2 DEF LoginInv
<1>6. CASE flow' = f /\ starts' = starts \cup {[login |-> l, user |-> u]}
  <2>1. Books(f.pending, starts, exchanges, connected, logins)
    BY <1>1, BooksFewer DEF LoginInv
  <2>2. Books(f.pending, starts', exchanges, connected, l)
    BY <1>3, <1>6, <2>1 DEF Books
  <2> QED BY <1>1, <1>2, <1>6, <2>2 DEF LoginInv
<1> QED BY <1>2, <1>5, <1>6

(* A server that listens at last. *)
LEMMA ListenKeeps ==
  ASSUME NEW f, FlowInv(f), NEW s \in Nat, NEW port \in Nat
  PROVE  LET g == [f EXCEPT !.server = s, !.port = port,
                            !.listening = @ \cup {[server |-> s, port |-> port]}]
         IN  FlowInv(g) /\ g.pending = f.pending /\ g.current = f.current
<1> DEFINE new == [server |-> s, port |-> port]
           L == f.listening \cup {new}
           g == [f EXCEPT !.server = s, !.port = port, !.listening = L]
<1>1. new \in [server : Nat, port : Nat] /\ new.port = port
  OBVIOUS
<1> HIDE DEF new
<1>2. L \in SUBSET [server : Nat, port : Nat] /\ f.listening \subseteq L /\ new \in L
  BY <1>1 DEF FlowInv, Flows
<1> HIDE DEF L
<1>3. /\ g \in Flows /\ g.pending = f.pending /\ g.current = f.current
      /\ g.port = port /\ g.listening = L
  BY <1>2 DEF FlowInv, Flows
<1> HIDE DEF g
<1>4. (\A x : Open(f, x) => Open(g, x)) /\ Open(g, port)
  BY <1>1, <1>2, <1>3 DEF Open
<1>5. FlowInv(g)
  BY <1>3, <1>4 DEF FlowInv
<1> QED BY <1>3, <1>5 DEF g, L, new

(* The login that waited for the server is pending with it. *)
LEMMA BoundKeeps ==
  ASSUME LoginInv, NEW b \in starts, Bound(b)
  PROVE  LoginInv'
<1>1. b.login \in Nat \ {0} /\ b.user \in Users
  BY DEF LoginInv, Books
<1> PICK port \in {FixedPort, Ephemeral(b.login)} :
      flow' = Began([flow EXCEPT !.server = b.login, !.port = port,
                                 !.listening = @ \cup {[server |-> b.login, port |-> port]}],
                    b.login, b.user)
  BY DEF Bound
<1>2. port \in Nat
  BY <1>1 DEF FixedPort, Ephemeral
<1> DEFINE f == [flow EXCEPT !.server = b.login, !.port = port,
                             !.listening = @ \cup {[server |-> b.login, port |-> port]}]
<1>3. FlowInv(f) /\ f.pending = flow.pending
  BY <1>1, <1>2, ListenKeeps DEF LoginInv
<1>4. flow' = Began(f, b.login, b.user)
  OBVIOUS
<1> HIDE DEF f
<1>5. \A p \in f.pending : p.state # b.login
  BY <1>3 DEF LoginInv, Books
<1>6. FlowInv(flow') /\ \A p \in flow'.pending : p \in flow.pending \/ p.state = b.login
  BY <1>1, <1>3, <1>4, <1>5, BeganKeeps
<1>7. starts' = starts \ {b} /\ UNCHANGED <<exchanges, connected, logins>>
  BY DEF Bound
<1>8. Books(flow'.pending, starts', exchanges', connected', logins')
  BY <1>6, <1>7 DEF LoginInv, Books
<1> QED BY <1>6, <1>8 DEF LoginInv

(* A code is taken for a pending login that no other exchange works on. *)
LEMMA CompleteKeeps ==
  ASSUME LoginInv, NEW f, FlowInv(f), f.pending \subseteq flow.pending,
         NEW u, NEW l, NEW via, CompleteWithCode(f, u, l, via)
  PROVE  LoginInv'
<1>1. UNCHANGED <<starts, connected, logins>>
  BY DEF CompleteWithCode
<1>2. Books(f.pending, starts, exchanges, connected, logins)
  BY BooksFewer DEF LoginInv
<1>3. CASE Accepts(f, u, l)
  <2>1. flow' = Mark(f, l, TRUE) /\ exchanges' = exchanges \cup {[login |-> l, via |-> via]}
    BY <1>3 DEF CompleteWithCode
  <2>2. PICK p \in f.pending : p.state = l /\ ~p.busy
    BY <1>3 DEF Accepts
  <2>3. FlowInv(flow') /\ Marked(f.pending, flow'.pending, l, TRUE)
    BY <2>1, MarkKeeps
  <2>4. \A e \in exchanges : e.login # l
    BY <1>2, <2>2 DEF Books
  <2>5. l \in 1..logins /\ l \notin connected /\ \A b \in starts : b.login # l
    BY <1>2, <2>2 DEF Books
  <2>6. \A q \in flow'.pending : \E r \in f.pending : r.state = q.state /\ (r.busy \/ q.state = l => q.busy)
    BY <2>3 DEF Marked
  <2>7. \A q \in flow'.pending : /\ q.state \in 1..logins /\ q.state \notin connected
                                /\ \A b \in starts : b.login # q.state
    BY <1>2, <2>6 DEF Books
  <2>8. \A q \in flow'.pending : q.state = l => q.busy
    BY <2>6
  <2>9. \A e \in exchanges : \A q \in flow'.pending : q.state = e.login => q.busy
    <3> TAKE e \in exchanges
    <3>1. \A r \in f.pending : r.state = e.login => r.busy
      BY <1>2 DEF Books
    <3> QED BY <2>6, <3>1
  <2>10. Books(flow'.pending, starts, exchanges, connected, logins)
    BY <1>2, <2>7, <2>9 DEF Books
  <2>11. Books(flow'.pending, starts, exchanges', connected, logins)
    <3> DEFINE new == [login |-> l, via |-> via]
    <3>1. new.login = l /\ exchanges' = exchanges \cup {new}
      BY <2>1
    <3> HIDE DEF new
    <3> QED BY <2>4, <2>5, <2>8, <2>10, <3>1 DEF Books
  <2> QED BY <1>1, <2>3, <2>11 DEF LoginInv
<1>4. CASE ~Accepts(f, u, l)
  <2>1. flow' = Prune(f) /\ exchanges' = exchanges
    BY <1>4 DEF CompleteWithCode
  <2>2. FlowInv(flow') /\ flow'.pending \subseteq f.pending
    BY <2>1, PruneKeeps
  <2> QED BY <1>1, <1>2, <2>1, <2>2, BooksFewer DEF LoginInv
<1> QED BY <1>3, <1>4

(* An exchange that succeeds takes its login out of the tables. *)
LEMMA ExchangedKeeps ==
  ASSUME LoginInv, NEW e \in exchanges, Exchanged(e)
  PROVE  LoginInv'
<1> DEFINE f == Clear(flow, {e.login})
<1>1. FlowInv(f) /\ f.pending = {p \in flow.pending : p.state \notin {e.login}}
  BY ClearKeeps DEF LoginInv
<1>2. flow' = f \/ flow' = Prune(f)
  BY DEF Exchanged
<1> HIDE DEF f
<1>3. FlowInv(flow') /\ flow'.pending \subseteq {p \in flow.pending : p.state # e.login}
  BY <1>1, <1>2, PruneKeeps
<1>4. /\ exchanges' = exchanges \ {e} /\ connected' = connected \cup {e.login}
      /\ UNCHANGED <<starts, logins>>
  BY DEF Exchanged
<1>5. Books(flow'.pending, starts', exchanges', connected', logins')
  BY <1>3, <1>4 DEF LoginInv, Books
<1> QED BY <1>3, <1>5 DEF LoginInv

(* An exchange that fails gives its login back. *)
LEMMA ExchangeFailsKeeps ==
  ASSUME LoginInv, NEW e \in exchanges, ExchangeFails(e)
  PROVE  LoginInv'
<1> DEFINE f == Mark(flow, e.login, FALSE)
<1>1. FlowInv(f) /\ Marked(flow.pending, f.pending, e.login, FALSE)
  BY MarkKeeps DEF LoginInv
<1>2. flow' = f \/ flow' = Prune(f)
  BY DEF ExchangeFails
<1> HIDE DEF f
<1>3. FlowInv(flow') /\ flow'.pending \subseteq f.pending
  BY <1>1, <1>2, PruneKeeps
<1>4. exchanges' = exchanges \ {e} /\ UNCHANGED <<starts, connected, logins>>
  BY DEF ExchangeFails
<1>5. Books(f.pending, starts', exchanges', connected', logins')
  <2>1. \A q \in f.pending : \E r \in flow.pending : r.state = q.state /\ (q.state # e.login /\ r.busy => q.busy)
    BY <1>1 DEF Marked
  <2>2. Books(flow.pending, starts, exchanges, connected, logins)
    BY DEF LoginInv
  <2>3. \A q \in f.pending : /\ q.state \in 1..logins /\ q.state \notin connected
                            /\ \A b \in starts : b.login # q.state
    BY <2>1, <2>2 DEF Books
  <2>4. \A d \in exchanges \ {e} : \A q \in f.pending : q.state = d.login => q.busy
    BY <2>1, <2>2 DEF Books
  <2> QED BY <1>4, <2>2, <2>3, <2>4 DEF Books
<1> QED BY <1>3, <1>5, BooksFewer DEF LoginInv

(* The time of a pending login is up. *)
LEMMA AgeKeeps ==
  ASSUME LoginInv, NEW p \in flow.pending, Age(p)
  PROVE  LoginInv'
<1> DEFINE late == [p EXCEPT !.old = TRUE]
<1>0. p \in Entries
  BY DEF LoginInv, FlowInv, Flows
<1>1. /\ late \in Entries /\ late.state = p.state /\ late.user = p.user
      /\ late.port = p.port /\ late.busy = p.busy
  BY <1>0 DEF Entries
<1>2. flow' = [flow EXCEPT !.pending = (flow.pending \ {p}) \cup {late}]
      /\ UNCHANGED <<starts, exchanges, connected, logins>>
  BY DEF Age
<1> HIDE DEF late
<1>3. /\ flow'.pending = (flow.pending \ {p}) \cup {late}
      /\ flow'.current = flow.current /\ flow'.port = flow.port /\ flow'.listening = flow.listening
      /\ flow' \in Flows
  BY <1>1, <1>2 DEF LoginInv, FlowInv, Flows
<1>4. FlowInv(flow')
  BY <1>1, <1>3 DEF LoginInv, FlowInv, Open
<1>5. Books(flow'.pending, starts', exchanges', connected', logins')
  BY <1>1, <1>2, <1>3 DEF LoginInv, Books
<1> QED BY <1>4, <1>5 DEF LoginInv

(* Fewer pending logins, and nothing else new. *)
LEMMA FewerPendingKeeps ==
  ASSUME LoginInv, FlowInv(flow'), flow'.pending \subseteq flow.pending,
         UNCHANGED <<exchanges, connected, logins>>, starts' \subseteq starts
  PROVE  LoginInv'
<1>1. Books(flow'.pending, starts', exchanges', connected', logins')
  BY DEF LoginInv, Books
<1> QED BY <1>1 DEF LoginInv

(* Every step of the flow keeps the invariant. *)
LEMMA LoginInvNext == LoginInv /\ [LoginNext]_login => LoginInv'
<1> SUFFICES ASSUME LoginInv, [LoginNext]_login PROVE LoginInv'
  OBVIOUS
<1>0. FlowInv(flow)
  BY DEF LoginInv
<1>1. ASSUME NEW u \in Users, StartLogin(u) PROVE LoginInv'
  BY <1>1, StartLoginKeeps
<1>2. ASSUME NEW u \in Users, NEW l \in 1..MaxLogins, Paste(u, l) PROVE LoginInv'
  <2>1. CompleteWithCode(Prune(flow), u, l, "command")
    BY <1>2 DEF Paste
  <2> QED BY <1>0, <2>1, PruneKeeps, CompleteKeeps
<1>3. ASSUME NEW b \in starts, Bound(b) PROVE LoginInv'
  BY <1>3, BoundKeeps
<1>4. ASSUME NEW b \in starts, BindFails(b) PROVE LoginInv'
  BY <1>0, <1>4, FewerPendingKeeps DEF BindFails
<1>5. ASSUME NEW l \in 1..MaxLogins, Callback(l) PROVE LoginInv'
  <2>1. PICK u \in Users : CompleteWithCode(flow, u, l, "callback")
    BY <1>5 DEF Callback
  <2> QED BY <1>0, <2>1, CompleteKeeps
<1>6. ASSUME NEW l \in 1..MaxLogins, Denied(l) PROVE LoginInv'
  <2>1. flow' = Prune(Clear(flow, {l})) /\ UNCHANGED <<starts, exchanges, connected, logins>>
    BY <1>6 DEF Denied
  <2>2. FlowInv(Clear(flow, {l})) /\ Clear(flow, {l}).pending \subseteq flow.pending
    BY <1>0, ClearKeeps
  <2>3. FlowInv(flow') /\ flow'.pending \subseteq flow.pending
    BY <2>1, <2>2, PruneKeeps
  <2> QED BY <2>1, <2>3, FewerPendingKeeps
<1>7. ASSUME NEW e \in exchanges, Exchanged(e) PROVE LoginInv'
  BY <1>7, ExchangedKeeps
<1>8. ASSUME NEW e \in exchanges, ExchangeFails(e) PROVE LoginInv'
  BY <1>8, ExchangeFailsKeeps
<1>9. ASSUME NEW p \in flow.pending, Age(p) PROVE LoginInv'
  BY <1>9, AgeKeeps
<1>10. ASSUME NEW p \in flow.pending, TimedOut(p) PROVE LoginInv'
  <2>1. flow' = Clear(flow, {p.state}) /\ UNCHANGED <<starts, exchanges, connected, logins>>
    BY <1>10 DEF TimedOut
  <2>2. FlowInv(flow') /\ flow'.pending \subseteq flow.pending
    BY <1>0, <2>1, ClearKeeps
  <2> QED BY <2>1, <2>2, FewerPendingKeeps
<1>11. CASE Restart
  <2>1. flow' = FlowInit /\ starts' = {} /\ exchanges' = {} /\ UNCHANGED <<connected, logins>>
    BY <1>11 DEF Restart
  <2>2. FlowInv(FlowInit) /\ FlowInit.pending = {}
    BY DEF FlowInit, FlowInv, Flows, NoPort, Open
  <2>3. Books({}, {}, {}, connected, logins)
    BY DEF LoginInv, Books
  <2> QED BY <2>1, <2>2, <2>3 DEF LoginInv
<1>12. CASE UNCHANGED login
  BY <1>12 DEF login, LoginInv
<1> QED BY <1>1, <1>2, <1>3, <1>4, <1>5, <1>6, <1>7, <1>8, <1>9, <1>10, <1>11, <1>12 DEF LoginNext

(* A user has one pending login at most, the one of stateByUser, and a code   *)
(* is redeemed once: for any users and any number of logins.                  *)
THEOREM LoginsAreSingle == LoginSpec => []OneLogin
<1>1. LoginInv => OneLogin
  <2> SUFFICES ASSUME LoginInv PROVE OneLogin
    OBVIOUS
  <2>1. OneLoginPerUser
    <3> SUFFICES ASSUME NEW u \in Users
                 PROVE  {p.state : p \in {q \in flow.pending : q.user = u}} = {flow.current[u]} \ {0}
      BY DEF OneLoginPerUser
    <3>1. \A p \in flow.pending : p.user = u => p.state = flow.current[u] /\ p.state # 0
      BY DEF LoginInv, FlowInv, Books
    <3>2. flow.current[u] # 0 => \E p \in flow.pending : p.user = u /\ p.state = flow.current[u]
      BY DEF LoginInv, FlowInv
    <3> QED BY <3>1, <3>2
  <2>2. RedeemedOnce
    BY DEF RedeemedOnce, LoginInv, Books
  <2> QED BY <2>1, <2>2 DEF OneLogin
<1> QED BY LoginInvInit, LoginInvNext, <1>1, PTL DEF LoginSpec

(* The link of a pending login leads back to a socket that listens, but for   *)
(* the link that names no port: through every overlap of logins and servers.  *)
THEOREM LinksLeadBack == LoginSpec => []RedirectsServed
<1>1. LoginInv => RedirectsServed
  BY DEF LoginInv, FlowInv, Open, RedirectsServed, Served
<1> QED BY LoginInvInit, LoginInvNext, <1>1, PTL DEF LoginSpec

----
(* The flow implements LoginLinks *)

(* Users without an open link *)
Gone(f) == {u \in Users : f.current[u] = 0}
Left(f, U) == [u \in Users |-> IF u \in U THEN 0 ELSE f.current[u]]

(* When there are fewer pending logins, some links have lapsed, and nobody    *)
(* has the link of another login.                                             *)
LEMMA FewerLapse ==
  ASSUME NEW f, NEW g, FlowInv(f), FlowInv(g), g.pending \subseteq f.pending
  PROVE  g.current = Left(f, Gone(g))
<1>1. ASSUME NEW u \in Users, g.current[u] # 0 PROVE g.current[u] = f.current[u]
  <2> PICK p \in g.pending : p.user = u /\ p.state = g.current[u]
    BY <1>1 DEF FlowInv
  <2> QED BY DEF FlowInv
<1>2. \A u \in Users : g.current[u] = Left(f, Gone(g))[u]
  BY <1>1 DEF Left, Gone
<1>3. g.current \in [Users -> Nat]
  BY DEF FlowInv, Flows
<1> QED BY <1>2, <1>3 DEF Left

(* A login that begins takes the place of the user's link, and of others      *)
(* whose time was up.                                                         *)
LEMMA BeganOffers ==
  ASSUME NEW h, NEW f, FlowInv(h), FlowInv(f), f.pending \subseteq h.pending,
         NEW l, NEW u \in Users
  PROVE  \E U \in SUBSET Users : Began(f, l, u).current = [Left(h, U) EXCEPT ![u] = l]
<1> DEFINE g == Clear(f, {f.current[u]})
<1>1. FlowInv(g) /\ g.pending \subseteq h.pending
  BY ClearKeeps
<1>2. Began(f, l, u).current = [g.current EXCEPT ![u] = l]
  <2> HIDE DEF g
  <2>1. g \in Flows
    BY <1>1 DEF FlowInv
  <2> QED BY <2>1 DEF Began, Pending, Flows, g
<1> HIDE DEF g
<1>3. g.current = Left(h, Gone(g)) /\ Gone(g) \in SUBSET Users
  BY <1>1, FewerLapse DEF Gone
<1> QED BY <1>2, <1>3

Used == {l \in 1..logins : \A b \in starts : b.login # l}
Redeeming == {e.login : e \in exchanges}

(* A code is taken: of an open link that is not being redeemed; or links      *)
(* lapse and nothing is taken.                                                *)
LEMMA CompleteRedeems ==
  ASSUME LoginInv, NEW f, FlowInv(f), f.pending \subseteq flow.pending,
         NEW u, NEW l, NEW via, CompleteWithCode(f, u, l, via)
  PROVE  \E U \in SUBSET Users : (\E v \in Users : Links!Redeem(v, U)) \/ Links!Lapse(U)
<1>0. UNCHANGED <<starts, connected, logins>>
  BY DEF CompleteWithCode
<1>1. CASE Accepts(f, u, l)
  <2>1. flow' = Mark(f, l, TRUE) /\ exchanges' = exchanges \cup {[login |-> l, via |-> via]}
    BY <1>1 DEF CompleteWithCode
  <2>2. PICK p \in f.pending : p.state = l /\ p.user = u /\ ~p.busy
    BY <1>1 DEF Accepts
  <2>3. u \in Users /\ f.current[u] = l /\ l \in Nat \ {0}
    BY <2>2 DEF FlowInv, Flows, Entries
  <2>4. f.current = Left(flow, Gone(f)) /\ Gone(f) \in SUBSET Users
    BY FewerLapse DEF LoginInv, Gone
  <2>5. flow'.current = f.current
    BY <2>1 DEF Mark, FlowInv, Flows
  <2>6. u \notin Gone(f) /\ flow.current[u] = l
    BY <2>3, <2>4 DEF Gone, Left
  <2>7. l \notin Redeeming
    BY <2>2 DEF LoginInv, Books, Redeeming
  <2>8. Redeeming' = Redeeming \cup {l}
    <3> DEFINE new == [login |-> l, via |-> via]
    <3>1. new.login = l /\ exchanges' = exchanges \cup {new}
      BY <2>1
    <3> HIDE DEF new
    <3> QED BY <3>1 DEF Redeeming
  <2>9. Links!Redeem(u, Gone(f))
    BY <1>0, <2>3, <2>4, <2>5, <2>6, <2>7, <2>8 DEF Links!Redeem, Links!Lapsed, Left, Redeeming
  <2> QED BY <2>3, <2>4, <2>9
<1>2. CASE ~Accepts(f, u, l)
  <2>1. flow' = Prune(f) /\ exchanges' = exchanges
    BY <1>2 DEF CompleteWithCode
  <2>2. flow'.current = Left(flow, Gone(flow')) /\ Gone(flow') \in SUBSET Users
    BY <2>1, PruneKeeps, FewerLapse DEF LoginInv, Gone
  <2>3. Links!Lapse(Gone(flow'))
    BY <1>0, <2>1, <2>2 DEF Links!Lapse, Links!Lapsed, Left
  <2> QED BY <2>2, <2>3
<1> QED BY <1>1, <1>2

(* Fewer logins are pending, and nothing else changed: links lapse. *)
LEMMA FewerPendingLapse ==
  ASSUME LoginInv, FlowInv(flow'), flow'.pending \subseteq flow.pending,
         UNCHANGED <<starts, exchanges, connected, logins>>
  PROVE  \E U \in SUBSET Users : Links!Lapse(U)
<1>1. flow'.current = Left(flow, Gone(flow')) /\ Gone(flow') \in SUBSET Users
  BY FewerLapse DEF LoginInv, Gone
<1>2. Links!Lapse(Gone(flow'))
  BY <1>1 DEF Links!Lapse, Links!Lapsed, Left
<1> QED BY <1>1, <1>2

(* startLogin offers the link at once, or prunes the tables and waits. *)
LEMMA StartOffers ==
  ASSUME LoginInv, MaxLogins \in Nat, NEW u \in Users, StartLogin(u)
  PROVE  \E U \in SUBSET Users : (\E l \in 1..MaxLogins : Links!Offer(u, l, U)) \/ Links!Lapse(U)
<1> DEFINE f == Prune(flow)
<1>0. PICK l : l = logins + 1
  OBVIOUS
<1>1. FlowInv(f) /\ f.pending \subseteq flow.pending
  BY PruneKeeps DEF LoginInv
<1>2. /\ logins < MaxLogins /\ logins' = l /\ UNCHANGED <<exchanges, connected>>
      /\ \/ flow' = Began(f, l, u) /\ starts' = starts
         \/ flow' = f /\ starts' = starts \cup {[login |-> l, user |-> u]}
  BY <1>0 DEF StartLogin
<1>3. logins \in Nat /\ l \in 1..MaxLogins /\ l \notin Used /\ \A b \in starts : b.login # l
  BY <1>0, <1>2 DEF LoginInv, Books, Used
<1>4. 1..l = 1..logins \cup {l}
  BY <1>0, <1>3
<1> HIDE DEF f
<1>5. CASE flow' = Began(f, l, u) /\ starts' = starts
  <2>1. PICK U \in SUBSET Users : flow'.current = [Left(flow, U) EXCEPT ![u] = l]
    BY <1>1, <1>5, BeganOffers DEF LoginInv
  <2>2. Used' = Used \cup {l}
    BY <1>2, <1>3, <1>4, <1>5 DEF Used
  <2>3. Links!Offer(u, l, U)
    BY <1>2, <1>3, <2>1, <2>2 DEF Links!Offer, Links!Lapsed, Left, Used
  <2> QED BY <1>3, <2>3
<1>6. CASE flow' = f /\ starts' = starts \cup {[login |-> l, user |-> u]}
  <2>1. Used' = Used
    <3> DEFINE new == [login |-> l, user |-> u]
    <3>1. new.login = l /\ starts' = starts \cup {new}
      BY <1>6
    <3> HIDE DEF new
    <3> QED BY <1>2, <1>3, <1>4, <3>1 DEF Used
  <2>2. flow'.current = Left(flow, Gone(flow')) /\ Gone(flow') \in SUBSET Users
    BY <1>1, <1>6, FewerLapse DEF LoginInv, Gone
  <2>3. Links!Lapse(Gone(flow'))
    BY <1>2, <2>1, <2>2 DEF Links!Lapse, Links!Lapsed, Left, Used
  <2> QED BY <2>2, <2>3
<1> QED BY <1>2, <1>5, <1>6

(* A server that listens lets the login that waited for it be offered. *)
LEMMA BoundOffers ==
  ASSUME LoginInv, logins <= MaxLogins, MaxLogins \in Nat, NEW b \in starts, Bound(b)
  PROVE  \E U \in SUBSET Users, l \in 1..MaxLogins : Links!Offer(b.user, l, U)
<1>1. b.login \in 1..logins /\ b.login \in Nat /\ b.user \in Users /\ logins \in Nat
  BY DEF LoginInv, Books
<1> PICK port \in {FixedPort, Ephemeral(b.login)} :
      flow' = Began([flow EXCEPT !.server = b.login, !.port = port,
                                 !.listening = @ \cup {[server |-> b.login, port |-> port]}],
                    b.login, b.user)
  BY DEF Bound
<1>2. port \in Nat
  BY <1>1 DEF FixedPort, Ephemeral
<1> DEFINE f == [flow EXCEPT !.server = b.login, !.port = port,
                             !.listening = @ \cup {[server |-> b.login, port |-> port]}]
<1>3. FlowInv(f) /\ f.pending = flow.pending
  BY <1>1, <1>2, ListenKeeps DEF LoginInv
<1>4. flow' = Began(f, b.login, b.user)
  OBVIOUS
<1> HIDE DEF f
<1>5. PICK U \in SUBSET Users : flow'.current = [Left(flow, U) EXCEPT ![b.user] = b.login]
  BY <1>1, <1>3, <1>4, BeganOffers DEF LoginInv
<1>6. starts' = starts \ {b} /\ UNCHANGED <<exchanges, connected, logins>>
  BY DEF Bound
<1>7. b.login \notin Used /\ Used' = Used \cup {b.login}
  BY <1>1, <1>6 DEF Used, LoginInv, Books
<1>8. Links!Offer(b.user, b.login, U)
  BY <1>5, <1>6, <1>7 DEF Links!Offer, Links!Lapsed, Left, Used
<1> QED BY <1>1, <1>8

(* An exchange that succeeds closes its link, one that fails leaves it. *)
LEMMA ExchangeSettles ==
  ASSUME LoginInv, NEW e \in exchanges
  PROVE  /\ Exchanged(e) => \E U \in SUBSET Users : Links!Succeed(e.login, U)
         /\ ExchangeFails(e) => \E U \in SUBSET Users : Links!Fail(e.login, U)
<1>1. e.login \in Redeeming /\ {d.login : d \in exchanges \ {e}} = Redeeming \ {e.login}
  BY DEF Redeeming, LoginInv, Books
<1>2. ASSUME Exchanged(e) PROVE \E U \in SUBSET Users : Links!Succeed(e.login, U)
  <2> DEFINE f == Clear(flow, {e.login})
  <2>1. FlowInv(f) /\ f.pending = {p \in flow.pending : p.state \notin {e.login}}
    BY ClearKeeps DEF LoginInv
  <2>2. flow' = f \/ flow' = Prune(f)
    BY <1>2 DEF Exchanged
  <2> HIDE DEF f
  <2>3. FlowInv(flow') /\ flow'.pending \subseteq {p \in flow.pending : p.state # e.login}
    BY <2>1, <2>2, PruneKeeps
  <2>4. flow'.current = Left(flow, Gone(flow')) /\ Gone(flow') \in SUBSET Users
    BY <2>3, FewerLapse DEF LoginInv, Gone
  <2>5. ASSUME NEW u \in Users, flow.current[u] = e.login PROVE u \in Gone(flow')
    <3>1. flow'.current[u] # 0 => flow'.current[u] = e.login
      BY <2>4, <2>5 DEF Left
    <3>2. flow'.current[u] # 0 => \E p \in flow'.pending : p.state = flow'.current[u]
      BY <2>3 DEF FlowInv
    <3> QED BY <2>3, <3>1, <3>2 DEF Gone
  <2>6. /\ exchanges' = exchanges \ {e} /\ connected' = connected \cup {e.login}
        /\ UNCHANGED <<starts, logins>>
    BY <1>2 DEF Exchanged
  <2> PICK U \in SUBSET Users : U = Gone(flow')
    BY <2>4
  <2>7. Links!Succeed(e.login, U)
    BY <1>1, <2>4, <2>5, <2>6 DEF Links!Succeed, Links!Lapsed, Left, Redeeming
  <2> QED BY <2>7
<1>3. ASSUME ExchangeFails(e) PROVE \E U \in SUBSET Users : Links!Fail(e.login, U)
  <2> DEFINE f == Mark(flow, e.login, FALSE)
  <2>1. FlowInv(f)
    BY MarkKeeps DEF LoginInv
  <2>2. f.current = flow.current
    BY DEF Mark, LoginInv, FlowInv, Flows
  <2>3. flow' = f \/ flow' = Prune(f)
    BY <1>3 DEF ExchangeFails
  <2> HIDE DEF f
  <2>4. FlowInv(flow') /\ flow'.pending \subseteq f.pending
    BY <2>1, <2>3, PruneKeeps
  <2>5. flow'.current = Left(flow, Gone(flow')) /\ Gone(flow') \in SUBSET Users
    BY <2>1, <2>2, <2>4, FewerLapse DEF Gone, Left
  <2>6. exchanges' = exchanges \ {e} /\ UNCHANGED <<starts, connected, logins>>
    BY <1>3 DEF ExchangeFails
  <2> PICK U \in SUBSET Users : U = Gone(flow')
    BY <2>5
  <2>7. Links!Fail(e.login, U)
    BY <1>1, <2>5, <2>6 DEF Links!Fail, Links!Lapsed, Left, Redeeming
  <2> QED BY <2>7
<1> QED BY <1>2, <1>3

(* Every step of the flow is one of LoginLinks, or none. *)
LEMMA LoginLinksNext ==
  ASSUME LoginInv, logins <= MaxLogins, MaxLogins \in Nat, [LoginNext]_login
  PROVE  [Links!Next]_(Links!vars)
<1>0. FlowInv(flow) /\ logins \in Nat
  BY DEF LoginInv, Books
<1>1. ASSUME NEW u \in Users, StartLogin(u) PROVE Links!Next
  BY <1>1, StartOffers DEF Links!Next
<1>2. ASSUME NEW u \in Users, NEW l \in 1..MaxLogins, Paste(u, l) PROVE Links!Next
  <2>1. CompleteWithCode(Prune(flow), u, l, "command")
    BY <1>2 DEF Paste
  <2> QED BY <1>0, <2>1, PruneKeeps, CompleteRedeems DEF Links!Next
<1>3. ASSUME NEW b \in starts, Bound(b) PROVE Links!Next
  <2>1. b.user \in Users
    BY DEF LoginInv, Books
  <2> QED BY <1>3, <2>1, BoundOffers DEF Links!Next
<1>4. ASSUME NEW b \in starts, BindFails(b) PROVE Links!Next
  <2>1. b.login \in 1..logins /\ b.login \in 1..MaxLogins
    BY <1>0 DEF LoginInv, Books
  <2>2. starts' = starts \ {b} /\ UNCHANGED <<flow, exchanges, connected, logins>>
    BY <1>4 DEF BindFails
  <2>3. Used' = Used \cup {b.login}
    BY <2>1, <2>2 DEF Used, LoginInv, Books
  <2>4. Links!GiveUp(b.login)
    BY <2>2, <2>3 DEF Links!GiveUp, Used
  <2> QED BY <2>1, <2>4 DEF Links!Next
<1>5. ASSUME NEW l \in 1..MaxLogins, Callback(l) PROVE Links!Next
  <2>1. PICK u \in Users : CompleteWithCode(flow, u, l, "callback")
    BY <1>5 DEF Callback
  <2> QED BY <1>0, <2>1, CompleteRedeems DEF Links!Next
<1>6. ASSUME NEW l \in 1..MaxLogins, Denied(l) PROVE Links!Next
  <2>1. flow' = Prune(Clear(flow, {l})) /\ UNCHANGED <<starts, exchanges, connected, logins>>
    BY <1>6 DEF Denied
  <2>2. FlowInv(Clear(flow, {l})) /\ Clear(flow, {l}).pending \subseteq flow.pending
    BY <1>0, ClearKeeps
  <2>3. FlowInv(flow') /\ flow'.pending \subseteq flow.pending
    BY <2>1, <2>2, PruneKeeps
  <2> QED BY <2>1, <2>3, FewerPendingLapse DEF Links!Next
<1>7. ASSUME NEW e \in exchanges, Exchanged(e) \/ ExchangeFails(e) PROVE Links!Next
  <2>1. e.login \in 1..MaxLogins
    BY <1>0 DEF LoginInv, Books
  <2> QED BY <1>7, <2>1, ExchangeSettles DEF Links!Next
<1>8. ASSUME NEW p \in flow.pending, Age(p) PROVE UNCHANGED Links!vars
  <2>1. flow'.current = flow.current
    BY <1>0, <1>8 DEF Age, FlowInv, Flows
  <2> QED BY <1>8, <2>1 DEF Age, Links!vars
<1>9. ASSUME NEW p \in flow.pending, TimedOut(p) PROVE Links!Next
  <2>1. flow' = Clear(flow, {p.state}) /\ UNCHANGED <<starts, exchanges, connected, logins>>
    BY <1>9 DEF TimedOut
  <2>2. FlowInv(flow') /\ flow'.pending \subseteq flow.pending
    BY <1>0, <2>1, ClearKeeps
  <2> QED BY <2>1, <2>2, FewerPendingLapse DEF Links!Next
<1>10. CASE Restart
  <2>1. flow' = FlowInit /\ starts' = {} /\ exchanges' = {} /\ UNCHANGED <<connected, logins>>
    BY <1>10 DEF Restart
  <2>2. Used' = Used \cup 1..logins /\ 1..logins \subseteq 1..MaxLogins
    BY <1>0, <2>1 DEF Used
  <2>3. flow'.current = Left(flow, Users)
    BY <2>1 DEF FlowInit, Left
  <2>4. Links!Stop
    BY <2>1, <2>2, <2>3 DEF Links!Stop, Links!Lapsed, Left, Used
  <2> QED BY <2>4 DEF Links!Next
<1>11. CASE UNCHANGED login
  BY <1>11 DEF login, Links!vars
<1> QED BY <1>1, <1>2, <1>3, <1>4, <1>5, <1>6, <1>7, <1>8, <1>9, <1>10, <1>11 DEF LoginNext

(* Links are offered once and close for good, however the browser, the user,  *)
(* timers, servers and restarts interleave: the flow implements LoginLinks.   *)
THEOREM LoginImplementsLinks ==
  ASSUME MaxLogins \in Nat
  PROVE  LoginSpec => LinksUsedOnce
<1> DEFINE I == LoginInv /\ logins <= MaxLogins
<1>1. LoginInit => I /\ Links!Init
  <2>1. LoginInit => LoginInv /\ logins <= MaxLogins
    BY LoginInvInit DEF LoginInit
  <2>2. LoginInit => Links!Init
    BY DEF LoginInit, FlowInit, Links!Init
  <2> QED BY <2>1, <2>2
<1>2. ASSUME I, [LoginNext]_login PROVE I'
  <2>1. logins' <= MaxLogins
    <3>1. ASSUME NEW u \in Users, StartLogin(u) PROVE logins' <= MaxLogins
      BY <1>2, <3>1 DEF StartLogin, LoginInv, Books
    <3>2. (\A u \in Users : ~StartLogin(u)) => logins' = logins
      BY <1>2 DEF LoginNext, login, Paste, CompleteWithCode, Bound, BindFails, Callback, Denied,
                  Exchanged, ExchangeFails, Age, TimedOut, Restart
    <3> QED BY <1>2, <3>1, <3>2
  <2> QED BY <1>2, <2>1, LoginInvNext
<1>3. ASSUME I, [LoginNext]_login PROVE [Links!Next]_(Links!vars)
  BY <1>3, LoginLinksNext
<1> QED BY <1>1, <1>2, <1>3, PTL DEF LoginSpec, LinksUsedOnce, Links!Spec
====
