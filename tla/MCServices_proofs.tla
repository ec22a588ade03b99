---- MODULE MCServices_proofs ----
(***************************************************************************)
(* The parts that run beside the turns, together: their types, for every    *)
(* value of the bounds, and what holds of each part alone.                  *)
(***************************************************************************)
EXTENDS MCServices, Services_proofs, OAuthTokens_proofs, SequenceTheorems

----
(* The login flow: logins are numbered up to the bound, and so are the       *)
(* servers and the ports that are named after them.                          *)

Numbers == 1..MaxLogins
Ports == 0..(1 + MaxLogins)
LinkType == [state : Numbers, user : Users, port : Ports, busy : BOOLEAN, old : BOOLEAN]
SocketType == [server : Numbers, port : 1..(1 + MaxLogins)]
FlowType == [pending : SUBSET LinkType, current : [Users -> 0..MaxLogins],
             server : 0..MaxLogins, port : Ports, listening : SUBSET SocketType]

LoginType ==
  /\ logins \in 0..MaxLogins /\ flow \in FlowType
  /\ starts \subseteq [login : Numbers, user : Users]
  /\ exchanges \subseteq [login : 1..logins, via : Vias]
  /\ connected \subseteq 1..logins

(* The helpers of the flow keep its type: another server, or none. *)
LEMMA ServerType ==
  ASSUME NEW f \in FlowType, NEW s \in 0..MaxLogins, NEW port \in Ports, NEW open \in SUBSET SocketType
  PROVE  [f EXCEPT !.server = s, !.port = port, !.listening = open] \in FlowType
<1> DEFINE Servers == 0..MaxLogins
<1>1. s \in Servers
  OBVIOUS
<1>2. FlowType = [pending : SUBSET LinkType, current : [Users -> Servers],
                  server : Servers, port : Ports, listening : SUBSET SocketType]
  BY DEF FlowType
<1> HIDE DEF Servers
<1> QED BY <1>1, <1>2

(* The server stops. *)
LEMMA StopType ==
  ASSUME MaxLogins \in Nat, NEW f \in FlowType
  PROVE  StopCallbackServer(f) \in FlowType
<1> DEFINE open == {l \in f.listening : l.server # f.server}
<1>1. open \subseteq SocketType
  BY DEF FlowType
<1> HIDE DEF open
<1>2. [f EXCEPT !.server = 0, !.port = 0, !.listening = open] \in FlowType
  <2>1. 0 \in 0..MaxLogins /\ 0 \in Ports
    BY DEF Ports
  <2> QED BY <1>1, <2>1, ServerType
<1> QED BY <1>2 DEF StopCallbackServer, NoPort, open

(* Logins leave the tables. *)
LEMMA WithoutType ==
  ASSUME MaxLogins \in Nat, NEW f \in FlowType, NEW gone
  PROVE  Without(f, gone) \in FlowType
<1> DEFINE rest == f.pending \ gone
           now == [u \in Users |-> IF \E p \in gone : p.state = f.current[u] THEN 0 ELSE f.current[u]]
<1>1. rest \subseteq LinkType
  BY DEF FlowType
<1>2. \A u \in Users : f.current[u] \in 0..MaxLogins
  BY DEF FlowType
<1>3. now \in [Users -> 0..MaxLogins]
  BY <1>2
<1> HIDE DEF rest, now
<1>4. [f EXCEPT !.pending = rest, !.current = now] \in FlowType
  BY <1>1, <1>3 DEF FlowType
<1> QED BY <1>4 DEF Without, rest, now

(* clearPendingState of some logins. *)
LEMMA ClearType ==
  ASSUME MaxLogins \in Nat, NEW f \in FlowType, NEW S
  PROVE  Clear(f, S) \in FlowType
BY StopType, WithoutType DEF Clear

(* The logins whose time is up go. *)
LEMMA PruneType ==
  ASSUME MaxLogins \in Nat, NEW f \in FlowType
  PROVE  Prune(f) \in FlowType
BY ClearType DEF Prune

(* A login begins. *)
LEMMA BeganType ==
  ASSUME MaxLogins \in Nat, NEW f \in FlowType, NEW l \in Numbers, NEW u \in Users
  PROVE  Began(f, l, u) \in FlowType
<1> DEFINE g == Clear(f, {f.current[u]})
           new == [state |-> l, user |-> u, port |-> g.port, busy |-> FALSE, old |-> FALSE]
<1>1. g \in FlowType
  BY ClearType
<1> HIDE DEF g
<1>2. new \in LinkType
  BY <1>1 DEF FlowType, LinkType
<1> HIDE DEF new
<1> DEFINE links == g.pending \cup {new}
           now == [g.current EXCEPT ![u] = l]
<1>3. links \subseteq LinkType /\ now \in [Users -> 0..MaxLogins]
  BY <1>1, <1>2 DEF FlowType, Numbers
<1> HIDE DEF links, now
<1>4. [g EXCEPT !.pending = links, !.current = now] \in FlowType
  BY <1>1, <1>3 DEF FlowType
<1>5. Began(f, l, u) = [g EXCEPT !.pending = links, !.current = now]
  BY <1>1 DEF Began, Pending, g, new, links, now, FlowType
<1> QED BY <1>4, <1>5

(* A login is marked as being exchanged, or no longer. *)
LEMMA MarkType ==
  ASSUME MaxLogins \in Nat, NEW f \in FlowType, NEW l, NEW busy \in BOOLEAN
  PROVE  Mark(f, l, busy) \in FlowType
<1>1. \A p \in f.pending : p \in LinkType /\ [p EXCEPT !.busy = busy] \in LinkType
  BY DEF FlowType, LinkType
<1> DEFINE m == {IF p.state = l THEN [p EXCEPT !.busy = busy] ELSE p : p \in f.pending}
<1>2. m \subseteq LinkType
  BY <1>1
<1> HIDE DEF m
<1>3. [f EXCEPT !.pending = m] \in FlowType
  BY <1>2 DEF FlowType
<1> QED BY <1>3 DEF Mark, m

(* A code that is taken starts an exchange of a login that began. *)
LEMMA CompleteType ==
  ASSUME MaxLogins \in Nat, LoginType, NEW f \in FlowType, NEW u, NEW l \in 1..MaxLogins, l <= logins,
         NEW via \in Vias, CompleteWithCode(f, u, l, via)
  PROVE  LoginType'
<1>1. flow' \in FlowType
  BY MarkType, PruneType DEF CompleteWithCode
<1>2. l \in 1..logins
  BY DEF LoginType
<1>3. exchanges' \subseteq exchanges \cup {[login |-> l, via |-> via]}
  BY DEF CompleteWithCode
<1>4. exchanges' \subseteq [login : 1..logins, via : Vias]
  BY <1>2, <1>3 DEF LoginType
<1> QED BY <1>1, <1>4 DEF CompleteWithCode, LoginType

(* Every step of the login flow keeps its type. *)
LEMMA LoginTypeNext ==
  ASSUME MaxLogins \in Nat, LoginType, [LoginNext]_login
  PROVE  LoginType'
<1>0. flow \in FlowType
  BY DEF LoginType
<1>1. ASSUME NEW u \in Users, StartLogin(u) PROVE LoginType'
  <2> DEFINE l == logins + 1
  <2>1. l \in Numbers /\ logins' = l /\ l \in 0..MaxLogins /\ 1..logins \subseteq 1..l
    BY <1>1 DEF StartLogin, LoginType, Numbers
  <2> HIDE DEF l
  <2>2. Prune(flow) \in FlowType
    BY <1>0, PruneType
  <2>3. Began(Prune(flow), l, u) \in FlowType
    BY <2>1, <2>2, BeganType
  <2>4. /\ flow' \in {Began(Prune(flow), l, u), Prune(flow)}
        /\ starts' \subseteq starts \cup {[login |-> l, user |-> u]}
        /\ UNCHANGED <<exchanges, connected>>
    BY <1>1 DEF StartLogin, l
  <2>5. flow' \in FlowType
    BY <2>2, <2>3, <2>4
  <2>6. starts' \subseteq [login : Numbers, user : Users]
    BY <2>1, <2>4 DEF LoginType
  <2>7. exchanges' \subseteq [login : 1..l, via : Vias] /\ connected' \subseteq 1..l
    BY <2>1, <2>4 DEF LoginType
  <2> QED BY <2>1, <2>5, <2>6, <2>7 DEF LoginType
<1>2. ASSUME NEW b \in starts, Bound(b) PROVE LoginType'
  <2>1. b.login \in Numbers /\ b.user \in Users
    BY DEF LoginType
  <2>2. PICK port \in {FixedPort, Ephemeral(b.login)} :
          flow' = Began([flow EXCEPT !.server = b.login, !.port = port,
                                     !.listening = @ \cup {[server |-> b.login, port |-> port]}],
                        b.login, b.user)
    BY <1>2 DEF Bound
  <2>3. port \in 1..(1 + MaxLogins) /\ port \in Ports
    BY <2>1 DEF FixedPort, Ephemeral, Numbers, Ports
  <2> DEFINE s == [server |-> b.login, port |-> port]
  <2>4. s \in SocketType
    BY <2>1, <2>3 DEF SocketType
  <2> HIDE DEF s
  <2> DEFINE open == flow.listening \cup {s}
  <2>5. open \subseteq SocketType
    BY <1>0, <2>4 DEF FlowType
  <2> HIDE DEF open
  <2>6. [flow EXCEPT !.server = b.login, !.port = port, !.listening = open] \in FlowType
    <3>1. b.login \in 0..MaxLogins
      BY <2>1 DEF Numbers
    <3> QED BY <1>0, <2>3, <2>5, <3>1, ServerType
  <2>7. flow' \in FlowType
    BY <2>1, <2>2, <2>6, BeganType DEF s, open
  <2> QED BY <1>2, <2>7 DEF Bound, LoginType
<1>3. ASSUME NEW b \in starts, BindFails(b) PROVE LoginType'
  BY <1>3 DEF BindFails, LoginType
<1>4. ASSUME NEW l \in 1..MaxLogins, Callback(l) PROVE LoginType'
  BY <1>0, <1>4, CompleteType DEF Callback, Vias
<1>5. ASSUME NEW l \in 1..MaxLogins, Denied(l) PROVE LoginType'
  <2>1. flow' \in FlowType
    BY <1>0, <1>5, ClearType, PruneType DEF Denied
  <2> QED BY <1>5, <2>1 DEF Denied, LoginType
<1>6. ASSUME NEW u \in Users, NEW l \in 1..MaxLogins, Paste(u, l) PROVE LoginType'
  BY <1>0, <1>6, PruneType, CompleteType DEF Paste, Vias
<1>7. ASSUME NEW e \in exchanges, Exchanged(e) PROVE LoginType'
  <2>1. flow' \in FlowType
    BY <1>0, <1>7, ClearType, PruneType DEF Exchanged
  <2>2. e.login \in 1..logins
    BY DEF LoginType
  <2> QED BY <1>7, <2>1, <2>2 DEF Exchanged, LoginType
<1>8. ASSUME NEW e \in exchanges, ExchangeFails(e) PROVE LoginType'
  <2>1. flow' \in FlowType
    BY <1>0, <1>8, MarkType, PruneType DEF ExchangeFails
  <2> QED BY <1>8, <2>1 DEF ExchangeFails, LoginType
<1>9. ASSUME NEW p \in flow.pending, Age(p) PROVE LoginType'
  <2> DEFINE late == [p EXCEPT !.old = TRUE]
  <2>1. late \in LinkType
    BY <1>0 DEF FlowType, LinkType
  <2>2. flow' = [flow EXCEPT !.pending = (@ \ {p}) \cup {late}]
    BY <1>9 DEF Age
  <2> HIDE DEF late
  <2>3. flow' \in FlowType
    BY <1>0, <2>1, <2>2 DEF FlowType
  <2> QED BY <1>9, <2>3 DEF Age, LoginType
<1>10. ASSUME NEW p \in flow.pending, TimedOut(p) PROVE LoginType'
  <2>1. flow' \in FlowType
    BY <1>0, <1>10, ClearType DEF TimedOut
  <2> QED BY <1>10, <2>1 DEF TimedOut, LoginType
<1>11. CASE Restart
  <2>1. FlowInit \in FlowType
    BY DEF FlowInit, FlowType, Ports, NoPort
  <2> QED BY <1>11, <2>1 DEF Restart, LoginType
<1>12. CASE UNCHANGED login
  BY <1>12 DEF login, LoginType
<1> QED BY <1>1, <1>2, <1>3, <1>4, <1>5, <1>6, <1>7, <1>8, <1>9, <1>10, <1>11, <1>12 DEF LoginNext

----
(* The tokens of the services *)

GoogleType == GoogleTypeOK
CodexType == CodexTypeOK /\ tokens \in 0..MaxTokens

(* A token of Google is the number of a login that was exchanged. *)
LEMMA GoogleTypeNext ==
  ASSUME MaxLogins \in Nat, LoginType, GoogleType, [GoogleNext]_<<login, google>>
  PROVE  GoogleType'
<1> USE DEF GoogleType, GoogleTypeOK
<1>0. ASSUME NEW token \in 0..MaxLogins, WriteBoth(token) \/ WriteFirst(token)
      PROVE  rows' \in [Services -> 0..MaxLogins] /\ torn' \in BOOLEAN
  BY <1>0 DEF WriteBoth, WriteFirst, Both
<1>1. ASSUME NEW e \in exchanges, GoogleComplete(e) \/ GoogleStoreFails(e) PROVE GoogleType'
  <2>1. e.login \in 0..MaxLogins
    BY DEF LoginType
  <2> QED BY <1>0, <1>1, <2>1 DEF GoogleComplete, GoogleStoreFails, Rebuild
<1>2. ASSUME NEW s \in Services, GetClient(s) PROVE GoogleType'
  <2>1. rows[s] \in 1..MaxLogins
    BY <1>2 DEF GetClient
  <2> QED BY <1>2, <2>1 DEF GetClient
<1>3. ASSUME NEW c \in clients, Renewed(c) \/ RenewalFails(c) \/ CallEnds(c) PROVE GoogleType'
  <2>1. c.token \in 0..MaxLogins
    OBVIOUS
  <2> QED BY <1>0, <1>3, <2>1 DEF Renewed, RenewalFails, CallEnds
<1>4. CASE GoogleDisconnect
  BY <1>0, <1>4 DEF GoogleDisconnect, Rebuild
<1>5. CASE GoogleCrash
  BY <1>5 DEF GoogleCrash, Rebuild
<1>10. ASSUME NEW token \in InWriting, GoogleCutOff(token) PROVE GoogleType'
  <2>1. token \in 0..MaxLogins
    BY DEF InWriting, LoginType
  <2> QED BY <1>0, <1>10, <2>1 DEF GoogleCutOff, Rebuild
<1>6. ASSUME NEW u \in Users, GoogleConnect(u) PROVE GoogleType'
  BY <1>6 DEF GoogleConnect, google
<1>7. ASSUME NEW e \in exchanges, GoogleExchangeRefused(e) PROVE GoogleType'
  BY <1>7 DEF GoogleExchangeRefused, google
<1>8. ASSUME GoogleEnsureCallbackServer \/ GoogleHandleCallbackRequest \/ GoogleLoginExpires PROVE GoogleType'
  BY <1>8 DEF GoogleEnsureCallbackServer, GoogleHandleCallbackRequest, GoogleLoginExpires, google
<1>9. CASE UNCHANGED <<login, google>>
  BY <1>9 DEF google
<1> QED BY <1>1, <1>2, <1>3, <1>4, <1>5, <1>6, <1>7, <1>8, <1>9, <1>10 DEF GoogleNext

(* The issuer's tokens are numbered up to the bound. *)
LEMMA CodexTypeNext ==
  ASSUME MaxTokens \in Nat, CodexType, [CodexNext]_<<login, codex>>
  PROVE  CodexType'
<1> USE DEF CodexType, CodexTypeOK
<1>1. ASSUME NEW e \in exchanges, CodexComplete(e) PROVE CodexType'
  BY <1>1 DEF CodexComplete, Stored
<1>2. ASSUME NEW e \in exchanges, CodexExchangeRefused(e) PROVE CodexType'
  BY <1>2 DEF CodexExchangeRefused, codex
<1>3. ASSUME NEW c \in Callers, GetCredentials(c) PROVE CodexType'
  <2>1. row \in 1..MaxTokens
    BY <1>3 DEF GetCredentials
  <2>2. requests' \subseteq requests \cup {[caller |-> c, token |-> row]}
    BY <1>3 DEF GetCredentials
  <2>3. requests' \subseteq [caller : Callers, token : 1..MaxTokens]
    BY <2>1, <2>2
  <2> QED BY <1>3, <2>3 DEF GetCredentials
<1>4. ASSUME NEW r \in requests, Refreshed(r) PROVE CodexType'
  BY <1>4 DEF Refreshed, Stored, Ends
<1>5. ASSUME NEW r \in requests, Rejected(r) \/ RefreshFails(r) PROVE CodexType'
  <2>1. /\ row' \in {row, 0} /\ fresh' \in {fresh, FALSE}
        /\ requests' = requests \ {r} /\ waiting' = {} /\ tokens' = tokens
    BY <1>5 DEF Rejected, RefreshFails, Ends
  <2>2. row' \in 0..MaxTokens
    BY <2>1
  <2>3. fresh' \in BOOLEAN
    BY <2>1
  <2> QED BY <2>1, <2>2, <2>3
<1>6. CASE AccessExpires \/ CodexDisconnect
  <2>1. row' \in {row, 0} /\ fresh' = FALSE /\ UNCHANGED <<waiting, requests, tokens>>
    BY <1>6 DEF AccessExpires, CodexDisconnect
  <2>2. row' \in 0..MaxTokens
    BY <2>1
  <2>3. fresh' \in BOOLEAN
    BY <2>1
  <2> QED BY <2>1, <2>2, <2>3
<1>7. CASE CodexCrash
  BY <1>7 DEF CodexCrash
<1>8. ASSUME NEW u \in Users, CodexConnect(u) PROVE CodexType'
  BY <1>8 DEF CodexConnect, BeginLogin, CompleteFromCallbackInput, codex
<1>9. ASSUME CodexEnsureCallbackServer \/ CodexHandleCallbackRequest \/ CodexLoginExpires PROVE CodexType'
  BY <1>9 DEF CodexEnsureCallbackServer, CodexHandleCallbackRequest, CodexLoginExpires, codex
<1>10. CASE UNCHANGED <<login, codex>>
  BY <1>10 DEF codex
<1> QED BY <1>1, <1>2, <1>3, <1>4, <1>5, <1>6, <1>7, <1>8, <1>9, <1>10 DEF CodexNext

----
(* The scheduler *)

Timers == [beat : Heartbeats, id : TimerIds, hops : 0..MaxHops]

(* A new timer finds a free number. *)
LEMMA SetTimerType ==
  ASSUME SchedulerTypeOK, NEW h \in Heartbeats, NEW others \in SUBSET armed, NEW hops \in 0..MaxHops,
         \A t \in others : t.beat # h, SetTimer(h, others, hops)
  PROVE  timer' \in [Heartbeats -> 0..3] /\ armed' \subseteq Timers
<1> DEFINE id == CHOOSE i \in TimerIds : \A t \in others : t.beat = h => t.id # i
           new == [beat |-> h, id |-> id, hops |-> hops]
<1>1. timer' = [timer EXCEPT ![h] = id] /\ armed' = others \cup {new}
  BY DEF SetTimer
<1>2. id \in TimerIds
  <2>1. \E i \in TimerIds : \A t \in others : t.beat = h => t.id # i
    BY DEF TimerIds
  <2> QED BY <2>1
<1> HIDE DEF id
<1>3. new \in Timers
  BY <1>2 DEF Timers
<1>4. id \in 0..3
  BY <1>2 DEF TimerIds
<1> QED BY <1>1, <1>3, <1>4 DEF SchedulerTypeOK, Timers

(* scheduleNext gives a heartbeat one typed timer, or none. *)
LEMMA ScheduleNextType ==
  ASSUME SchedulerTypeOK, BeatsInv, NEW h \in Heartbeats, NEW on \in BOOLEAN, ScheduleNext(h, on)
  PROVE  timer' \in [Heartbeats -> 0..3] /\ armed' \subseteq Timers
<1>1. Cleared(h) \in SUBSET armed /\ \A t \in Cleared(h) : t.beat # h
  BY ClearedHasNone
<1>2. CASE \E hops \in 0..MaxHops : SetTimer(h, Cleared(h), hops)
  BY <1>1, <1>2, SetTimerType
<1>3. CASE armed' \subseteq armed /\ timer' = timer
  BY <1>3 DEF SchedulerTypeOK, Timers
<1> QED BY <1>1, <1>2, <1>3 DEF ScheduleNext

(* Every step of the scheduler keeps its type. *)
LEMMA BeatsTypeNext ==
  ASSUME MaxHops \in Nat, MaxRuns \in Nat, MaxToggles \in Nat,
         SchedulerTypeOK, BeatsInv, [BeatsNext]_beats
  PROVE  SchedulerTypeOK'
<1>1. CASE Start
  <2> PICK hops \in 0..MaxHops :
         /\ enabled' \in [Heartbeats -> BOOLEAN]
         /\ LET on == {h \in Heartbeats \ Unparsable : enabled'[h]} IN
              /\ timer' = [h \in Heartbeats |-> IF h \in on THEN 1 ELSE 0]
              /\ armed' = {[beat |-> h, id |-> 1, hops |-> hops] : h \in on}
    BY <1>1 DEF Start
  <2>1. timer' \in [Heartbeats -> 0..3]
    OBVIOUS
  <2>2. armed' \subseteq Timers
    BY DEF Timers, TimerIds
  <2> QED BY <1>1, <2>1, <2>2 DEF Start, None, SchedulerTypeOK, Timers
<1>2. CASE Stop
  <2>1. None \in [Heartbeats -> 0..3]
    BY DEF None
  <2>2. armed' \subseteq armed /\ timer' = None /\ running' = FALSE /\ UNCHANGED <<enabled, runs, toggles>>
    BY <1>2 DEF Stop
  <2> QED BY <2>1, <2>2 DEF SchedulerTypeOK
<1>3. ASSUME NEW h \in Heartbeats, NEW on \in BOOLEAN, Toggle(h, on) PROVE SchedulerTypeOK'
  <2>1. timer' \in [Heartbeats -> 0..3] /\ armed' \subseteq Timers
    <3>1. CASE on
      BY <1>3, <3>1, ScheduleNextType DEF Toggle
    <3>2. CASE ~on
      <4>1. armed' \subseteq armed /\ timer' = [timer EXCEPT ![h] = 0]
        BY <1>3, <3>2 DEF Toggle, Cleared
      <4> QED BY <4>1 DEF SchedulerTypeOK, Timers
    <3> QED BY <3>1, <3>2
  <2>2. toggles' \in 0..MaxToggles
    BY <1>3 DEF Toggle, SchedulerTypeOK
  <2>3. enabled' \in [Heartbeats -> BOOLEAN]
    BY <1>3 DEF Toggle, SchedulerTypeOK
  <2> QED BY <1>3, <2>1, <2>2, <2>3 DEF Toggle, SchedulerTypeOK, Timers
<1>4. ASSUME NEW h \in Heartbeats, FireEnds(h) PROVE SchedulerTypeOK'
  <2>1. timer' \in [Heartbeats -> 0..3] /\ armed' \subseteq Timers
    BY <1>4, ScheduleNextType DEF FireEnds, SchedulerTypeOK
  <2>2. runs' \in [Heartbeats -> 0..MaxRuns]
    BY <1>4 DEF FireEnds, CallbackEnds, SchedulerTypeOK
  <2> QED BY <1>4, <2>1, <2>2 DEF FireEnds, SchedulerTypeOK, Timers
<1>5. ASSUME NEW t \in armed, Chains(t) PROVE SchedulerTypeOK'
  <2>1. t.beat \in Heartbeats /\ t.hops - 1 \in 0..MaxHops
    BY <1>5 DEF Chains, SchedulerTypeOK
  <2>2. armed \ {t} \in SUBSET armed /\ \A u \in armed \ {t} : u.beat # t.beat
    BY DEF BeatsInv, OneTimer, Armed
  <2>3. timer' \in [Heartbeats -> 0..3] /\ armed' \subseteq Timers
    BY <1>5, <2>1, <2>2, SetTimerType DEF Chains
  <2> QED BY <1>5, <2>3 DEF Chains, SchedulerTypeOK, Timers
<1>6. ASSUME NEW t \in armed, Fire(t) PROVE SchedulerTypeOK'
  <2>1. t.beat \in Heartbeats
    BY DEF SchedulerTypeOK
  <2>2. runs' \in [Heartbeats -> 0..MaxRuns]
    BY <1>6, <2>1 DEF Fire, SchedulerTypeOK
  <2> QED BY <1>6, <2>2 DEF Fire, SchedulerTypeOK
<1>7. CASE UNCHANGED beats
  BY <1>7 DEF beats, SchedulerTypeOK
<1> QED BY <1>1, <1>2, <1>3, <1>4, <1>5, <1>6, <1>7 DEF BeatsNext
----
(* The files of the prompt *)

Files == Contents \cup {NoFile}
Rows == [content : Files, context : {"", "session", "web-dashboard"}]

FilesType ==
  /\ up \in BOOLEAN /\ {soulFile, blessed, standing} \subseteq Files
  /\ versions \in Seq(Rows) /\ Len(versions) <= MaxUpdates
  /\ skillFile \in [Skills -> Files]
  /\ skills \in [Skills -> [hash : Files, enabled : BOOLEAN]]
  /\ shown \subseteq [skill : Skills, content : Contents]

(* A skill is shown only if its file is there. *)
LEMMA ReadsType ==
  ASSUME FilesType, FilesInv, NEW S \in SUBSET Skills, NEW T \in SUBSET Same(S), ReadSkills(S, T)
  PROVE  FilesType'
<1>1. \A s \in T : s \in Skills /\ skillFile[s] \in Contents
  BY DEF Same, GetSkillContent, FilesType, Files
<1>2. shown' = shown \cup {[skill |-> s, content |-> skillFile[s]] : s \in T}
  BY DEF ReadSkills
<1>3. shown' \subseteq [skill : Skills, content : Contents]
  BY <1>1, <1>2 DEF FilesType
<1>4. skills' \in [Skills -> [hash : Files, enabled : BOOLEAN]]
  BY ReadsKeep DEF FilesInv, Files
<1>5. UNCHANGED <<up, skillFile, soul>>
  BY DEF ReadSkills
<1> QED BY <1>3, <1>4, <1>5 DEF FilesType, soul

(* A row is added only below the bound. *)
LEMMA UpdateType ==
  ASSUME MaxUpdates \in Nat, FilesType, NEW c \in Contents, NEW context \in {"session", "web-dashboard"},
         ApplySoulUpdate(c, context)
  PROVE  FilesType'
<1> DEFINE new == [content |-> c, context |-> context]
<1>1. new \in Rows
  BY DEF Rows, Files
<1>2. versions' \in {versions, Append(versions, new)} /\ Len(versions) < MaxUpdates
  BY DEF ApplySoulUpdate
<1> HIDE DEF new
<1>3. versions' \in Seq(Rows) /\ Len(versions') <= MaxUpdates
  <2>1. Append(versions, new) \in Seq(Rows) /\ Len(Append(versions, new)) = Len(versions) + 1
    BY <1>1, AppendProperties DEF FilesType
  <2>2. Len(versions) \in Nat
    BY LenProperties DEF FilesType
  <2> QED BY <1>2, <2>1, <2>2 DEF FilesType
<1>4. {soulFile', blessed', standing'} = {c} /\ UNCHANGED <<up, skill>>
  BY DEF ApplySoulUpdate, Applied
<1> QED BY <1>3, <1>4 DEF FilesType, Files, skill

(* Every step of the files and the gateway keeps their type. *)
LEMMA FilesTypeNext ==
  ASSUME MaxUpdates \in Nat \ {0}, AlwaysLoad \subseteq Skills, FilesType, FilesInv, [FilesNext]_files
  PROVE  FilesType'
<1>1. CASE StartGateway
  <2>1. skills' \in [Skills -> [hash : Files, enabled : BOOLEAN]] /\ shown' = {}
    BY <1>1, FilesInvNext DEF StartGateway, LoadSkills, FilesInv, Files, FilesNext
  <2> DEFINE new == [content |-> soulFile, context |-> ""]
  <2>2. new \in Rows
    BY DEF FilesType, Rows
  <2> HIDE DEF new
  <2>3. versions' \in {versions, <<new>>}
    BY <1>1 DEF StartGateway, LoadSoul, new
  <2>4. <<new>> \in Seq(Rows) /\ Len(<<new>>) = 1
    BY <2>2
  <2>5. versions' \in Seq(Rows) /\ Len(versions') <= MaxUpdates
    <3>1. CASE versions' = versions
      BY <3>1 DEF FilesType
    <3>2. CASE versions' = <<new>>
      <4>1. 1 <= MaxUpdates
        OBVIOUS
      <4> QED BY <2>4, <3>2, <4>1
    <3> QED BY <2>3, <3>1, <3>2
  <2>6. /\ up' = TRUE /\ blessed' = soulFile /\ standing' = soulFile
        /\ UNCHANGED <<soulFile, skillFile>>
    BY <1>1 DEF StartGateway, LoadSoul, LoadSkills
  <2> QED BY <2>1, <2>5, <2>6 DEF FilesType
<1>2. CASE FormatSkillsSection
  BY <1>2, ReadsType DEF FormatSkillsSection
<1>3. ASSUME NEW s \in Skills, HandleSkillTool(s) PROVE FilesType'
  BY <1>3, ReadsType DEF HandleSkillTool
<1>4. CASE Crash
  BY <1>4 DEF Crash, FilesType, Files, Absent
<1>5. ASSUME NEW c \in Contents, HandleSoulTool(c) \/ UpdateSoul(c) PROVE FilesType'
  BY <1>5, UpdateType DEF HandleSoulTool, UpdateSoul
<1>6. ASSUME NEW c \in Contents \cup {NoFile}, EditSoul(c) PROVE FilesType'
  BY <1>6 DEF EditSoul, skill, FilesType, Files
<1>7. ASSUME NEW c \in Contents \cup {NoFile}, NEW s \in Skills, EditSkill(s, c) PROVE FilesType'
  BY <1>7 DEF EditSkill, soul, FilesType, Files
<1>8. CASE UNCHANGED files
  BY <1>8 DEF files, FilesType
<1> QED BY <1>1, <1>2, <1>3, <1>4, <1>5, <1>6, <1>7, <1>8 DEF FilesNext

----
(* All parts *)

AllInv == /\ LoginType /\ GoogleType /\ CodexType
          /\ SchedulerTypeOK /\ BeatsInv /\ FilesType /\ FilesInv /\ CallsInv

(* The bounds are numbers, and there is room for a first version of the soul *)
Bounds == /\ {MaxLogins, MaxTokens, MaxHops, MaxRuns, MaxToggles} \subseteq Nat
          /\ MaxUpdates \in Nat \ {0}
          /\ AlwaysLoad \subseteq Skills

(* What a step of the composition is to each part.  The tokens of a service   *)
(* rest while another part takes the step.                                    *)
LEMMA PartSteps ==
  ASSUME [Next]_allVars
  PROVE  /\ [LoginNext]_login /\ [BeatsNext]_beats /\ [FilesNext]_files /\ [CallsNext]_calls
         /\ [GoogleNext]_<<login, google>> \/ UNCHANGED google
         /\ [CodexNext]_<<login, codex>> \/ UNCHANGED codex
<1>1. [LoginNext]_login
  BY GoogleStep, CodexStep DEF Next, allVars, google, codex
<1>2. [BeatsNext]_beats /\ [FilesNext]_files /\ [CallsNext]_calls
  BY DEF Next, allVars
<1>3. ([GoogleNext]_<<login, google>> \/ UNCHANGED google) /\ ([CodexNext]_<<login, codex>> \/ UNCHANGED codex)
  BY DEF Next, allVars
<1> QED BY <1>1, <1>2, <1>3

(* Every step keeps all of it. *)
LEMMA AllInvNext ==
  ASSUME Bounds, AllInv, [Next]_allVars
  PROVE  AllInv'
<1> USE DEF Bounds, AllInv
<1>1. LoginType'
  BY PartSteps, LoginTypeNext
<1>2. GoogleType'
  <2>1. CASE [GoogleNext]_<<login, google>>
    BY <2>1, GoogleTypeNext
  <2>2. CASE UNCHANGED google
    BY <2>2 DEF google, GoogleType, GoogleTypeOK
  <2> QED BY <2>1, <2>2, PartSteps
<1>3. CodexType'
  <2>1. CASE [CodexNext]_<<login, codex>>
    BY <2>1, CodexTypeNext
  <2>2. CASE UNCHANGED codex
    BY <2>2 DEF codex, CodexType, CodexTypeOK
  <2> QED BY <2>1, <2>2, PartSteps
<1>4. SchedulerTypeOK' /\ BeatsInv'
  BY PartSteps, BeatsTypeNext, BeatsInvNext
<1>5. FilesType' /\ FilesInv'
  BY PartSteps, FilesTypeNext, FilesInvNext
<1>6. CallsInv'
  BY PartSteps, CallsInvNext
<1> QED BY <1>1, <1>2, <1>3, <1>4, <1>5, <1>6

(* Nothing has begun. *)
LEMMA AllInvInit ==
  ASSUME Bounds, Init
  PROVE  AllInv
<1> USE DEF Bounds
<1>1. LoginType
  <2>1. flow = FlowInit /\ starts = {} /\ exchanges = {} /\ connected = {} /\ logins = 0
    BY DEF Init, GoogleInit, LoginInit
  <2>2. FlowInit \in FlowType
    BY DEF FlowInit, FlowType, Ports, NoPort
  <2> QED BY <2>1, <2>2 DEF LoginType
<1>2. GoogleType
  <2>1. rows = [s \in Services |-> 0] /\ clients = {} /\ offered = {}
    BY DEF Init, GoogleInit, Both
  <2>2. torn \in BOOLEAN
    BY DEF Init, GoogleInit
  <2> QED BY <2>1, <2>2 DEF GoogleType, GoogleTypeOK
<1>3. CodexType
  <2>1. row = 0 /\ waiting = {} /\ requests = {} /\ tokens = 0
    BY DEF Init, CodexInit
  <2>2. fresh \in BOOLEAN
    BY DEF Init, CodexInit
  <2> QED BY <2>1, <2>2 DEF CodexType, CodexTypeOK
<1>4. SchedulerTypeOK /\ BeatsInv
  <2>1. None \in [Heartbeats -> 0..3] /\ None \in [Heartbeats -> 0..MaxRuns]
    BY DEF None
  <2>2. enabled \in [Heartbeats -> BOOLEAN] /\ running \in BOOLEAN
    BY DEF Init, BeatsInit
  <2>3. timer = None /\ armed = {} /\ runs = None /\ toggles = 0
    BY DEF Init, BeatsInit
  <2> QED BY <2>1, <2>2, <2>3, BeatsInvInit DEF Init, SchedulerTypeOK
<1>5. FilesInv
  BY FilesInvInit DEF Init
<1>6. FilesType
  <2>1. versions = <<>> /\ <<>> \in Seq(Rows) /\ Len(<<>>) = 0
    BY DEF Init, FilesInit
  <2>2. /\ blessed = NoFile /\ standing = NoFile /\ soulFile \in Files
        /\ skillFile \in [Skills -> Files] /\ shown = {}
    BY DEF Init, FilesInit, Files
  <2>3. skills \in [Skills -> [hash : Files, enabled : BOOLEAN]]
    <3>1. skills = [s \in Skills |-> Absent] /\ Absent \in [hash : Files, enabled : BOOLEAN]
      BY DEF Init, FilesInit, Absent, Files
    <3> QED BY <3>1
  <2>4. up \in BOOLEAN
    BY DEF Init, FilesInit
  <2>5. Len(versions) <= MaxUpdates
    BY <2>1
  <2> QED BY <2>1, <2>2, <2>3, <2>4, <2>5 DEF FilesType, Files
<1>7. CallsInv
  BY CallsInvInit DEF Init
<1> QED BY <1>1, <1>2, <1>3, <1>4, <1>5, <1>6, <1>7 DEF AllInv

(* The state of each part has its type, in every behaviour of the parts      *)
(* together: logins, tokens, timers, files and calls.                        *)
THEOREM ServicesTypeCorrect ==
  ASSUME Bounds
  PROVE  Spec => []TypeOK
<1>1. AllInv => TypeOK
  <2>1. LoginType /\ MaxLogins \in Nat => LoginTypeOK
    BY DEF LoginType, LoginTypeOK, FlowType, LinkType, SocketType, Numbers, Ports
  <2>2. FilesType => PromptTypeOK
    BY DEF FilesType, PromptTypeOK, Files
  <2> QED BY <2>1, <2>2 DEF AllInv, Bounds, GoogleType, CodexType, CallsInv, TypeOK
<1>2. Init => AllInv
  BY AllInvInit
<1>3. AllInv /\ [Next]_allVars => AllInv'
  BY AllInvNext
<1> QED BY <1>1, <1>2, <1>3, PTL DEF Spec

----
(* The parts run beside one another *)

(* Every behaviour of the parts together is a behaviour of each: what is      *)
(* proved of logins, heartbeats, files and calls alone holds of them here.    *)
THEOREM PartsAreThemselves == Spec => LoginSpec /\ BeatsSpec /\ FilesSpec /\ CallsSpec
<1>1. Init => LoginInit /\ BeatsInit /\ FilesInit /\ CallsInit
  BY DEF Init, GoogleInit
<1>2. [Next]_allVars => [LoginNext]_login /\ [BeatsNext]_beats /\ [FilesNext]_files /\ [CallsNext]_calls
  BY PartSteps
<1> QED BY <1>1, <1>2, PTL DEF Spec, LoginSpec, BeatsSpec, FilesSpec, CallsSpec

(* The logins of both services, as they run beside the rest, are used once.   *)
THEOREM ServicesUseLinksOnce ==
  ASSUME MaxLogins \in Nat
  PROVE  Spec => LinksUsedOnce
BY LoginImplementsLinks, PartsAreThemselves, PTL

(* The tokens are not of one service alone, since both log in by one flow:    *)
(* their invariants are kept by every step of the composition.                *)
LEMMA TokensKept == Spec => [](LoginInv /\ TokenInv /\ RefreshInv)
<1>1. Init => LoginInv /\ TokenInv /\ RefreshInv
  <2>1. Init => LoginInv
    BY LoginInvInit DEF Init, GoogleInit
  <2>2. Init => TokenInv
    BY DEF Init, GoogleInit, TokenInv, Both, Services
  <2>3. Init => RefreshInv
    BY DEF Init, CodexInit, RefreshInv
  <2> QED BY <2>1, <2>2, <2>3
<1>2. ASSUME LoginInv, TokenInv, RefreshInv, [Next]_allVars
      PROVE  LoginInv' /\ TokenInv' /\ RefreshInv'
  <2>1. LoginInv'
    BY <1>2, PartSteps, LoginInvNext
  <2>2. TokenInv'
    <3>1. CASE UNCHANGED google
      BY <1>2, <3>1 DEF google, TokenInv
    <3>2. CASE [GoogleNext]_<<login, google>>
      BY <1>2, <3>2, TokenNext
    <3> QED BY <1>2, <3>1, <3>2, PartSteps
  <2>3. RefreshInv'
    <3>1. CASE UNCHANGED codex
      BY <1>2, <3>1 DEF codex, RefreshInv
    <3>2. CASE [CodexNext]_<<login, codex>>
      BY <1>2, <3>2, RefreshNext
    <3> QED BY <1>2, <3>1, <3>2, PartSteps
  <2> QED BY <2>1, <2>2, <2>3
<1> QED BY <1>1, <1>2, PTL DEF Spec

(* Whatever runs beside the turns: logins are single and lead back, Gmail and *)
(* Calendar stay together unless a pair of writes is torn, turns share one    *)
(* refresh, a heartbeat has one timer, the prompt is verified and calls are   *)
(* accounted for.                                                             *)
THEOREM ServicesAreSafe ==
  ASSUME AlwaysLoad \subseteq Skills
  PROVE  Spec => [](/\ OneLogin /\ RedirectsServed /\ ServicesTogether /\ OneRefresh
                    /\ OneTimer /\ PromptVerified /\ CallsAccounted)
<1>1. Spec => [](OneLogin /\ RedirectsServed)
  <2>1. LoginSpec => []OneLogin
    BY LoginsAreSingle
  <2>2. LoginSpec => []RedirectsServed
    BY LinksLeadBack
  <2> QED BY <2>1, <2>2, PartsAreThemselves, PTL
<1>2. Spec => [](ServicesTogether /\ OneRefresh)
  <2>1. TokenInv => ServicesTogether
    BY DEF TokenInv, ServicesTogether
  <2>2. RefreshInv => OneRefresh
    BY FS_EmptySet, FS_Singleton DEF RefreshInv, OneRefresh
  <2> QED BY <2>1, <2>2, TokensKept, PTL
<1>3. Spec => []OneTimer
  BY OneTimerEach, PartsAreThemselves, PTL
<1>4. Spec => []PromptVerified
  BY PromptIsVerified, PartsAreThemselves, PTL
<1>5. Spec => []CallsAccounted
  BY CallsAreAccounted, PartsAreThemselves, PTL
<1> QED BY <1>1, <1>2, <1>3, <1>4, <1>5, PTL
====
