---- MODULE OAuthTokens_proofs ----
(***************************************************************************)
(* Proofs about CodexOAuth and GoogleOAuth: they log in as OAuthLogin says,  *)
(* turns with a stale token share one refresh, and Gmail and Calendar are    *)
(* connected together, except while a pair of writes is torn.                *)
(***************************************************************************)
EXTENDS CodexOAuth, GoogleOAuth, OAuthLogin_proofs, FiniteSetTheorems

(* A step of the service is a step of the login flow, or none *)
LEMMA CodexStep == [CodexNext]_<<login, codex>> => [LoginNext]_login
<1> SUFFICES ASSUME [CodexNext]_<<login, codex>> PROVE [LoginNext]_login
  OBVIOUS
<1>1. ASSUME NEW u \in Users, CodexConnect(u) PROVE LoginNext
  BY <1>1 DEF CodexConnect, BeginLogin, CompleteFromCallbackInput, LoginNext
<1>2. ASSUME CodexEnsureCallbackServer PROVE LoginNext
  BY <1>2 DEF CodexEnsureCallbackServer, LoginNext
<1>3. ASSUME CodexHandleCallbackRequest PROVE LoginNext
  BY <1>3 DEF CodexHandleCallbackRequest, LoginNext
<1>4. ASSUME CodexLoginExpires PROVE LoginNext
  BY <1>4 DEF CodexLoginExpires, LoginNext
<1>5. ASSUME NEW e \in exchanges, CodexComplete(e) \/ CodexExchangeRefused(e) PROVE LoginNext
  BY <1>5 DEF CodexComplete, CodexExchangeRefused, LoginNext
<1>6. ASSUME AccessExpires \/ CodexDisconnect \/ \E c \in Callers : GetCredentials(c) PROVE UNCHANGED login
  BY <1>6 DEF AccessExpires, CodexDisconnect, GetCredentials
<1>7. ASSUME NEW r \in requests, Refreshed(r) \/ Rejected(r) \/ RefreshFails(r) PROVE UNCHANGED login
  BY <1>7 DEF Refreshed, Rejected, RefreshFails, Ends
<1>8. ASSUME CodexCrash PROVE LoginNext
  BY <1>8 DEF CodexCrash, LoginNext
<1>9. CASE UNCHANGED <<login, codex>>
  BY <1>9
<1> QED BY <1>1, <1>2, <1>3, <1>4, <1>5, <1>6, <1>7, <1>8, <1>9 DEF CodexNext

(* Every behaviour of the service is one of the login flow *)
THEOREM CodexLogsIn == CodexSpec => LoginSpec
<1>1. CodexInit => LoginInit
  BY DEF CodexInit
<1> QED BY <1>1, CodexStep, PTL DEF CodexSpec, LoginSpec

(* A user of Codex has one pending login at most, and a code is redeemed once *)
THEOREM CodexLoginsAreSingle == CodexSpec => []OneLogin
BY CodexLogsIn, LoginsAreSingle

(* The link of a pending Codex login leads back to a socket that listens *)
THEOREM CodexLinksLeadBack == CodexSpec => []RedirectsServed
BY CodexLogsIn, LinksLeadBack

----
(* The refresh that turns share *)

(* There is one request as long as some turn waits, and none otherwise *)
RefreshInv == \/ waiting = {} /\ requests = {}
              \/ waiting # {} /\ \E r : requests = {r}

(* Every step keeps the refresh shared. *)
LEMMA RefreshNext == RefreshInv /\ [CodexNext]_<<login, codex>> => RefreshInv'
<1> SUFFICES ASSUME RefreshInv, [CodexNext]_<<login, codex>> PROVE RefreshInv'
  OBVIOUS
<1>1. ASSUME NEW c \in Callers, GetCredentials(c) PROVE RefreshInv'
  <2>1. waiting' # {}
    BY <1>1 DEF GetCredentials
  <2>2. CASE waiting = {}
    BY <1>1, <2>1, <2>2 DEF GetCredentials, RefreshInv
  <2>3. CASE waiting # {}
    BY <1>1, <2>1, <2>3 DEF GetCredentials, RefreshInv
  <2> QED BY <2>2, <2>3
<1>2. ASSUME NEW r \in requests, Refreshed(r) \/ Rejected(r) \/ RefreshFails(r) PROVE RefreshInv'
  <2>1. requests' = requests \ {r} /\ waiting' = {}
    BY <1>2 DEF Refreshed, Rejected, RefreshFails, Ends
  <2> QED BY <1>2, <2>1 DEF RefreshInv
<1>3. CASE CodexCrash
  BY <1>3 DEF CodexCrash, RefreshInv
<1>4. CASE UNCHANGED <<waiting, requests>>
  BY <1>4 DEF RefreshInv
<1>5. ASSUME NEW u \in Users, CodexConnect(u) PROVE UNCHANGED <<waiting, requests>>
  BY <1>5 DEF CodexConnect, BeginLogin, CompleteFromCallbackInput, codex
<1>6. ASSUME CodexEnsureCallbackServer \/ CodexHandleCallbackRequest \/ CodexLoginExpires PROVE UNCHANGED <<waiting, requests>>
  BY <1>6 DEF CodexEnsureCallbackServer, CodexHandleCallbackRequest, CodexLoginExpires, codex
<1>7. ASSUME AccessExpires \/ CodexDisconnect PROVE UNCHANGED <<waiting, requests>>
  BY <1>7 DEF AccessExpires, CodexDisconnect
<1>8. ASSUME NEW e \in exchanges, CodexComplete(e) \/ CodexExchangeRefused(e) PROVE UNCHANGED <<waiting, requests>>
  BY <1>8 DEF CodexComplete, CodexExchangeRefused, codex
<1>9. CASE UNCHANGED <<login, codex>>
  BY <1>4, <1>9 DEF codex
<1> QED BY <1>1, <1>2, <1>3, <1>4, <1>5, <1>6, <1>7, <1>8, <1>9 DEF CodexNext

(* Turns that find a stale token share one refresh, and no turn waits without *)
(* one: for any callers, logins and failures.                                 *)
THEOREM RefreshIsShared == CodexSpec => []OneRefresh
<1>1. CodexInit => RefreshInv
  BY DEF CodexInit, RefreshInv
<1>2. RefreshInv => OneRefresh
  BY FS_EmptySet, FS_Singleton DEF RefreshInv, OneRefresh
<1> QED BY <1>1, <1>2, RefreshNext, PTL DEF CodexSpec

----
(* The login of Google *)

(* A step of the service is a step of the login flow, or none *)
LEMMA GoogleStep == [GoogleNext]_<<login, google>> => [LoginNext]_login
<1> SUFFICES ASSUME [GoogleNext]_<<login, google>> PROVE [LoginNext]_login
  OBVIOUS
<1>1. ASSUME NEW u \in Users, GoogleConnect(u) PROVE LoginNext
  BY <1>1 DEF GoogleConnect, LoginNext
<1>2. ASSUME GoogleEnsureCallbackServer \/ GoogleHandleCallbackRequest \/ GoogleLoginExpires PROVE LoginNext
  BY <1>2 DEF GoogleEnsureCallbackServer, GoogleHandleCallbackRequest, GoogleLoginExpires, LoginNext
<1>3. ASSUME NEW e \in exchanges, GoogleComplete(e) \/ GoogleStoreFails(e) \/ GoogleExchangeRefused(e)
      PROVE  LoginNext
  BY <1>3 DEF GoogleComplete, GoogleStoreFails, GoogleExchangeRefused, LoginNext
<1>4. ASSUME GoogleDisconnect \/ \E s \in Services : GetClient(s) PROVE UNCHANGED login
  BY <1>4 DEF GoogleDisconnect, GetClient
<1>5. ASSUME NEW c \in clients, Renewed(c) \/ RenewalFails(c) \/ CallEnds(c) PROVE UNCHANGED login
  BY <1>5 DEF Renewed, RenewalFails, CallEnds
<1>6. ASSUME GoogleCrash \/ \E token \in InWriting : GoogleCutOff(token) PROVE LoginNext
  BY <1>6 DEF GoogleCrash, GoogleCutOff, LoginNext
<1>7. CASE UNCHANGED <<login, google>>
  BY <1>7
<1> QED BY <1>1, <1>2, <1>3, <1>4, <1>5, <1>6, <1>7 DEF GoogleNext

(* Every behaviour of the service is one of the login flow *)
THEOREM GoogleLogsIn == GoogleSpec => LoginSpec
<1>1. GoogleInit => LoginInit
  BY DEF GoogleInit
<1> QED BY <1>1, GoogleStep, PTL DEF GoogleSpec, LoginSpec

(* A user of Google has one pending login at most, and a code is redeemed once *)
THEOREM GoogleLoginsAreSingle == GoogleSpec => []OneLogin
BY GoogleLogsIn, LoginsAreSingle

(* The link of a pending Google login leads back to a socket that listens *)
THEOREM GoogleLinksLeadBack == GoogleSpec => []RedirectsServed
BY GoogleLogsIn, LinksLeadBack

----
(* The token that Gmail and Calendar share *)

(* The rows hold one token unless a pair of writes is torn; what a client may *)
(* write back is a token; and what is offered has a row that is not empty     *)
TokenInv == /\ DOMAIN rows = Services
            /\ rows = [s \in Services |-> rows[s]]
            /\ ~torn => rows["gmail"] = rows["calendar"]
            /\ \A c \in clients : c.token # 0
            /\ \A s \in offered : s \in Services /\ rows[s] # 0

(* A pair of writes that is completed, and one that is cut off: no row is     *)
(* emptied unless the token is none.                                          *)
LEMMA Writes ==
  ASSUME TokenInv, NEW token, WriteBoth(token) \/ WriteFirst(token)
  PROVE  /\ DOMAIN rows' = Services /\ rows' = [s \in Services |-> rows'[s]]
         /\ ~torn' => rows'["gmail"] = rows'["calendar"]
         /\ token # 0 => \A s \in Services : rows[s] # 0 => rows'[s] # 0
<1>1. CASE WriteBoth(token)
  <2>1. rows' = [s \in Services |-> token]
    BY <1>1 DEF WriteBoth, Both
  <2>2. rows'["gmail"] = rows'["calendar"]
    BY <2>1 DEF Services
  <2> QED BY <2>1, <2>2
<1>2. CASE WriteFirst(token)
  <2>1. rows' = [rows EXCEPT !["gmail"] = token] /\ torn' = TRUE
    BY <1>2 DEF WriteFirst
  <2>2. rows' = [s \in Services |-> IF s = "gmail" THEN token ELSE rows[s]]
    BY <2>1 DEF TokenInv
  <2> QED BY <2>1, <2>2
<1> QED BY <1>1, <1>2

(* Every step keeps the rows together, or tears the pair it writes. *)
LEMMA TokenNext == TokenInv /\ LoginInv /\ [GoogleNext]_<<login, google>> => TokenInv'
<1> SUFFICES ASSUME TokenInv, LoginInv, [GoogleNext]_<<login, google>> PROVE TokenInv'
  OBVIOUS
<1>1. CASE UNCHANGED google
  BY <1>1 DEF google, TokenInv
<1>2. ASSUME NEW u \in Users, GoogleConnect(u) PROVE UNCHANGED google
  BY <1>2 DEF GoogleConnect
<1>3. ASSUME GoogleEnsureCallbackServer \/ GoogleHandleCallbackRequest \/ GoogleLoginExpires PROVE UNCHANGED google
  BY <1>3 DEF GoogleEnsureCallbackServer, GoogleHandleCallbackRequest, GoogleLoginExpires
<1>4. ASSUME NEW e \in exchanges, GoogleExchangeRefused(e) PROVE UNCHANGED google
  BY <1>4 DEF GoogleExchangeRefused
<1>5. ASSUME NEW token, WriteBoth(token) \/ WriteFirst(token), Rebuild, clients' \subseteq clients
      PROVE  TokenInv'
  BY <1>5, Writes DEF Rebuild, TokenInv
<1>6. ASSUME NEW token, token # 0, WriteBoth(token) \/ WriteFirst(token), UNCHANGED <<clients, offered>>
      PROVE  TokenInv'
  BY <1>6, Writes DEF TokenInv
<1>7. ASSUME NEW e \in exchanges, GoogleComplete(e) PROVE TokenInv'
  BY <1>5, <1>7 DEF GoogleComplete
<1>8. ASSUME NEW e \in exchanges, GoogleStoreFails(e) PROVE TokenInv'
  <2>1. e.login # 0
    BY DEF LoginInv, Books
  <2> QED BY <1>6, <1>8, <2>1 DEF GoogleStoreFails
<1>9. ASSUME NEW s \in Services, GetClient(s) PROVE TokenInv'
  <2> DEFINE new == [service |-> s, token |-> rows[s]]
  <2>1. rows[s] # 0 /\ clients' = clients \cup {new} /\ UNCHANGED <<rows, offered, torn>>
    BY <1>9 DEF GetClient
  <2>2. new.token # 0
    BY <2>1
  <2> HIDE DEF new
  <2> QED BY <2>1, <2>2 DEF TokenInv
<1>10. ASSUME NEW c \in clients, Renewed(c) \/ RenewalFails(c) PROVE TokenInv'
  <2>1. c.token # 0
    BY DEF TokenInv
  <2> QED BY <1>6, <1>10, <2>1 DEF Renewed, RenewalFails
<1>11. ASSUME NEW c \in clients, CallEnds(c) PROVE TokenInv'
  BY <1>11 DEF CallEnds, TokenInv
<1>12. CASE GoogleDisconnect
  BY <1>5, <1>12 DEF GoogleDisconnect
<1>13. CASE GoogleCrash
  <2>1. UNCHANGED <<rows, torn>> /\ clients' = {} /\ offered' = {s \in Services : rows'[s] # 0}
    BY <1>13 DEF GoogleCrash, Rebuild
  <2> QED BY <2>1 DEF TokenInv
<1>14. ASSUME NEW token \in InWriting, GoogleCutOff(token) PROVE TokenInv'
  BY <1>5, <1>14 DEF GoogleCutOff
<1>15. CASE UNCHANGED <<login, google>>
  BY <1>1, <1>15
<1> QED BY <1>1, <1>2, <1>3, <1>4, <1>7, <1>8, <1>9, <1>10, <1>11, <1>12, <1>13, <1>14, <1>15 DEF GoogleNext

(* Gmail and Calendar hold one token except while a pair of writes is torn,   *)
(* and their tools are offered with a token only: for any users, logins,      *)
(* crashes, failed writes and calls that write their copies back.             *)
THEOREM ServicesStayTogether == GoogleSpec => []ServicesTogether
<1>1. GoogleInit => TokenInv /\ LoginInv
  <2>1. GoogleInit => TokenInv
    BY DEF GoogleInit, TokenInv, Both, Services
  <2> QED BY <2>1, LoginInvInit DEF GoogleInit
<1>2. TokenInv => ServicesTogether
  BY DEF TokenInv, ServicesTogether
<1> QED BY <1>1, <1>2, TokenNext, GoogleStep, LoginInvNext, PTL DEF GoogleSpec
====
