---- MODULE MCBridges ----
(***************************************************************************)
(* The two bridges.  They do not interact, and neither do the three kinds   *)
(* of traffic but through the link, so a behaviour has one bridge and one    *)
(* kind of traffic: approval cards, users' requests, or notices.             *)
(***************************************************************************)
EXTENDS TelegramBridge, SlackBridge, TLC

CONSTANTS a1, r1, r2

VARIABLES which, traffic   \* the bridge and the traffic of this behaviour

scope == <<which, traffic>>
allVars == <<vars, scope>>

Init == /\ BridgeInit
        /\ which \in {"telegram", "slack"}
        /\ traffic \in {"cards", "requests", "notices"}
        /\ traffic # "cards" => chat = [a \in Approvals |-> Platform]

Next == /\ \/ which = "telegram" /\ TelegramNext
           \/ which = "slack" /\ SlackNext
        /\ traffic # "cards" => UNCHANGED verdict
        /\ traffic # "requests" => UNCHANGED asked
        /\ traffic # "notices" => UNCHANGED notices
        /\ UNCHANGED scope

Spec == Init /\ [][Next]_allVars

(* The containers restart what stopped (restart: unless-stopped), timers     *)
(* fire, lines that arrived are handled and turns end; users need do nothing *)
Reconnecting == Established \/ Refused \/ Lost \/ TimerFires
Serving == \/ TakeDecision \/ TakeTurn
           \/ \E full \in BOOLEAN : TakeCommand(full) \/ \E s \in serving : Reply(s, full)
Handling ==
  \/ which = "telegram" /\ (TelegramIgnore \/ TelegramOnMessage \/ TelegramOnExpired \/ TelegramOnResponse)
  \/ which = "slack" /\ (SlackIgnore \/ SlackOnMessage \/ SlackOnExpired \/ SlackOnResponse)

FairSpec ==
  /\ Spec
  /\ WF_allVars(StartBridge /\ UNCHANGED <<desk, memory, screen, scope>>)
  /\ WF_allVars(GatewayUp /\ UNCHANGED <<desk, memory, screen, scope>>)
  /\ WF_allVars(Reconnecting /\ UNCHANGED <<desk, memory, screen, scope>>)
  /\ WF_allVars(Accept /\ UNCHANGED <<desk, memory, screen, scope>>)
  /\ WF_allVars(Serving /\ UNCHANGED <<memory, screen, scope>>)
  /\ WF_allVars(Handling /\ UNCHANGED scope)
  /\ WF_allVars(OfPosts /\ UNCHANGED scope)

(* On Telegram a card shows only decisions that were written; on Slack a     *)
(* press without a connection breaks this, see DecisionShownWasSent          *)
TelegramShowsSent ==
  [][which = "telegram" => \A a \in Approvals, d \in Decisions :
       cards'[a] = d /\ cards[a] # d => d \in written[a]]_allVars

(* An approval is decided once, by a press, a text or an expiry, and on       *)
(* Telegram no card shows a decision that was not written                    *)
DecisionsKept == DecidedOnce /\ TelegramShowsSent
====
