---- MODULE CodexOAuth ----
(***************************************************************************)
(* OpenAICodexOAuthService (services/openai-codex-oauth.ts): the login flow, *)
(* its row of the token store, and the refresh that concurrent chat turns    *)
(* share.  The issuer rotates refresh tokens: each is good for one refresh.  *)
(***************************************************************************)
EXTENDS OAuthLogin

CONSTANTS Callers,     \* chat turns that ask for credentials
          MaxTokens    \* bound: refresh tokens the issuer gives

VARIABLES
  row,       \* the row of the store: the number of its refresh token, 0 if there is none
  fresh,     \* its access token is not about to expire
  waiting,   \* turns that wait for refreshPromise
  requests,  \* refresh requests in flight: [caller, token]
  tokens     \* refresh tokens given so far

codex == <<row, fresh, waiting, requests, tokens>>

CodexInit == LoginInit /\ row = 0 /\ fresh = FALSE /\ waiting = {} /\ requests = {} /\ tokens = 0

BeginLogin(u) == StartLogin(u) /\ UNCHANGED codex
CompleteFromCallbackInput(u) == (\E l \in 1..MaxLogins : Paste(u, l)) /\ UNCHANGED codex
(* /connect codex: a new login, or the pasted end of one *)
CodexConnect(u) == BeginLogin(u) \/ CompleteFromCallbackInput(u)

CodexEnsureCallbackServer == (\E b \in starts : Bound(b) \/ BindFails(b)) /\ UNCHANGED codex
CodexHandleCallbackRequest == (\E l \in 1..MaxLogins : Callback(l) \/ Denied(l)) /\ UNCHANGED codex

(* storeToken *)
Stored(new) == row' = new /\ fresh' = TRUE

CodexComplete(e) ==
  /\ Exchanged(e)
  /\ tokens < MaxTokens /\ tokens' = tokens + 1
  /\ Stored(tokens')
  /\ UNCHANGED <<waiting, requests>>

CodexExchangeRefused(e) == ExchangeFails(e) /\ UNCHANGED codex
CodexLoginExpires == (\E p \in flow.pending : Age(p) \/ TimedOut(p)) /\ UNCHANGED codex

AccessExpires == row # 0 /\ fresh /\ fresh' = FALSE /\ UNCHANGED <<login, row, waiting, requests, tokens>>

(* MUTANT of GetCredentials: the refresh is not shared *)
GetCredentialsAlone(c) ==
  /\ row # 0 /\ ~fresh /\ c \notin waiting
  /\ waiting' = waiting \cup {c}
  /\ requests' = requests \cup {[caller |-> c, token |-> row]}
  /\ UNCHANGED <<login, row, fresh, tokens>>

(* getValidAccessCredentials of a turn that finds a stale access token *)
GetCredentials(c) ==
  /\ row # 0 /\ ~fresh /\ c \notin waiting
  /\ waiting' = waiting \cup {c}
  /\ requests' = IF waiting = {} THEN {[caller |-> c, token |-> row]} ELSE requests
  /\ UNCHANGED <<login, row, fresh, tokens>>

(* The request ends, and refreshPromise with it *)
Ends(r) == requests' = requests \ {r} /\ waiting' = {} /\ UNCHANGED login

(* The new token is stored, whatever became of the old one meanwhile *)
Refreshed(r) ==
  /\ tokens < MaxTokens /\ tokens' = tokens + 1
  /\ Stored(tokens') /\ Ends(r)

(* 400 and 401 remove the row *)
Rejected(r) == row' = 0 /\ fresh' = FALSE /\ Ends(r) /\ UNCHANGED tokens
RefreshFails(r) == Ends(r) /\ UNCHANGED <<row, fresh, tokens>>

CodexDisconnect == row # 0 /\ row' = 0 /\ fresh' = FALSE /\ UNCHANGED <<login, waiting, requests, tokens>>

CodexCrash == Restart /\ waiting' = {} /\ requests' = {} /\ UNCHANGED <<row, fresh, tokens>>

CodexNext ==
  \/ \E u \in Users : CodexConnect(u)
  \/ CodexEnsureCallbackServer \/ CodexHandleCallbackRequest \/ CodexLoginExpires \/ AccessExpires
  \/ \E e \in exchanges : CodexComplete(e) \/ CodexExchangeRefused(e)
  \/ \E c \in Callers : GetCredentials(c)
  \/ \E r \in requests : Refreshed(r) \/ Rejected(r) \/ RefreshFails(r)
  \/ CodexDisconnect \/ CodexCrash

CodexSpec == CodexInit /\ [][CodexNext]_<<login, codex>>

CodexTypeOK == /\ row \in 0..MaxTokens /\ fresh \in BOOLEAN
               /\ waiting \subseteq Callers
               /\ requests \subseteq [caller : Callers, token : 1..MaxTokens]

(* Turns that find a stale token share one refresh request, since the issuer *)
(* takes a refresh token once; and no turn waits without a request, whoever  *)
(* logged in, disconnected or failed meanwhile                               *)
OneRefresh == Cardinality(requests) = IF waiting = {} THEN 0 ELSE 1
====
