---- MODULE GoogleOAuth ----
(***************************************************************************)
(* GoogleOAuthService with the two services that share its token            *)
(* (services/google-oauth.ts, gmail.ts, calendar.ts) and the tools that the  *)
(* orchestrator offers for them.  A token is the number of the login it came *)
(* from: Google keeps the refresh token when it renews the access token.     *)
(***************************************************************************)
EXTENDS OAuthLogin

Services == {"gmail", "calendar"}

VARIABLES
  rows,      \* the token store: the token of each service, 0 if there is none
  clients,   \* API clients of calls in progress: [service, token]
  offered,   \* services whose tools the orchestrator offers
  torn       \* history: a pair of writes was cut off, and none was completed since

google == <<rows, clients, offered, torn>>

Both(token) == [s \in Services |-> token]

GoogleInit == LoginInit /\ rows = Both(0) /\ clients = {} /\ offered = {} /\ torn = FALSE

(* rebuildToolList asks isConnected of each service *)
Rebuild == offered' = {s \in Services : rows'[s] # 0}

(* /connect google: a new login, or the pasted end of one *)
GoogleConnect(u) == /\ StartLogin(u) \/ \E l \in 1..MaxLogins : Paste(u, l)
              /\ UNCHANGED google

GoogleEnsureCallbackServer == (\E b \in starts : Bound(b) \/ BindFails(b)) /\ UNCHANGED google
GoogleHandleCallbackRequest == (\E l \in 1..MaxLogins : Callback(l) \/ Denied(l)) /\ UNCHANGED google

(* Gmail's row and then Calendar's, each in a transaction of its own: the     *)
(* process may end, or the second write fail, between the two                *)
WriteBoth(token) == rows' = Both(token) /\ torn' = FALSE
WriteFirst(token) == rows' = [rows EXCEPT !["gmail"] = token] /\ torn' = TRUE

(* storeTokenForBothServices, then onConnected *)
GoogleComplete(e) == Exchanged(e) /\ WriteBoth(e.login) /\ Rebuild /\ UNCHANGED clients
(* The catch of completeWithCode, with one row written *)
GoogleStoreFails(e) == ExchangeFails(e) /\ WriteFirst(e.login) /\ UNCHANGED <<clients, offered>>
GoogleExchangeRefused(e) == ExchangeFails(e) /\ UNCHANGED google
GoogleLoginExpires == (\E p \in flow.pending : Age(p) \/ TimedOut(p)) /\ UNCHANGED google

(* A tool call takes a client with the token of now *)
GetClient(s) ==
  /\ rows[s] # 0
  /\ clients' = clients \cup {[service |-> s, token |-> rows[s]]}
  /\ UNCHANGED <<login, rows, offered, torn>>

(* MUTANT of Renewed: each service keeps its own row *)
RenewedOwn(c) ==
  rows' = [rows EXCEPT ![c.service] = c.token] /\ UNCHANGED <<login, clients, offered, torn>>
(* The 'tokens' event: the client writes its copy to both rows *)
Renewed(c) == WriteBoth(c.token) /\ UNCHANGED <<login, clients, offered>>
(* The listener throws, and with it the request of the call *)
RenewalFails(c) == WriteFirst(c.token) /\ UNCHANGED <<login, clients, offered>>

CallEnds(c) == clients' = clients \ {c} /\ UNCHANGED <<login, rows, offered, torn>>

(* MUTANT of GoogleDisconnect: the tool list is not rebuilt *)
GoogleDisconnectKeepsTools == WriteBoth(0) /\ UNCHANGED <<login, clients, offered>>
(* auth-disconnect *)
GoogleDisconnect == WriteBoth(0) /\ Rebuild /\ UNCHANGED <<login, clients>>

(* A start offers what the store holds *)
GoogleCrash == Restart /\ clients' = {} /\ UNCHANGED <<rows, torn>> /\ Rebuild

(* What is being written when the process ends: the token of a login, the     *)
(* copy of a client, or the deletion of a disconnect.  Nothing catches an     *)
(* error of the last, which ends the process, too                             *)
InWriting == {e.login : e \in exchanges} \cup {c.token : c \in clients} \cup {0}
GoogleCutOff(token) == Restart /\ clients' = {} /\ WriteFirst(token) /\ Rebuild

GoogleNext ==
  \/ \E u \in Users : GoogleConnect(u)
  \/ GoogleEnsureCallbackServer \/ GoogleHandleCallbackRequest \/ GoogleLoginExpires
  \/ \E e \in exchanges : GoogleComplete(e) \/ GoogleStoreFails(e) \/ GoogleExchangeRefused(e)
  \/ \E s \in Services : GetClient(s)
  \/ \E c \in clients : Renewed(c) \/ RenewalFails(c) \/ CallEnds(c)
  \/ GoogleDisconnect \/ GoogleCrash \/ \E token \in InWriting : GoogleCutOff(token)

GoogleSpec == GoogleInit /\ [][GoogleNext]_<<login, google>>

GoogleTypeOK == /\ rows \in [Services -> 0..MaxLogins]
                /\ clients \subseteq [service : Services, token : 1..MaxLogins]
                /\ offered \subseteq Services /\ torn \in BOOLEAN

(* Gmail and Calendar hold the same token, unless a pair of writes was cut   *)
(* off by a crash or an error: the next login, renewal or disconnect that is *)
(* completed brings them together, whichever copy it writes.  And the tools  *)
(* of a service are not offered without its token, even when a call that     *)
(* outlives a disconnect or a new login writes its copy of the old one, or   *)
(* one row is gone                                                           *)
ServicesTogether ==
  /\ ~torn => rows["gmail"] = rows["calendar"]
  /\ \A s \in offered : rows[s] # 0
====
