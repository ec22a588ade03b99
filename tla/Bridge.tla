---- MODULE Bridge ----
(***************************************************************************)
(* What the two bridges share: the tables a bridge process keeps in memory,  *)
(* the posts its handlers wait for, and what the users see.  A handler runs  *)
(* up to its first await in one step; the rest of it is a job that tries     *)
(* its posts in order until the platform takes one.                          *)
(***************************************************************************)
EXTENDS Desk

VARIABLES
  refs,      \* approvalMessages: the approvals whose card can be edited
  resolved,  \* resolvedApprovals
  pending,   \* pendingRequests: [id, thread]
  channel,   \* the thread of the last mention in the channel (channelThreads)
  jobs,      \* handlers that wait for a post: [msg, tries, ref, thread]
  cards,     \* what the card of each approval shows
  told,      \* approvals whose expiry this process told without a card
  written,   \* decisions this process wrote to the gateway, by approval
  asked,     \* what became of each request
  home,      \* the thread each request was made in
  shownIn,   \* the thread the answer of each request was shown in
  unposted   \* approvals about which the platform took no post: only logged

memory == <<refs, resolved, pending, channel, jobs, told, written>>
screen == <<cards, asked, home, shownIn, unposted>>
vars == <<link, desk, memory, screen>>

Threads == Requests \cup {"none"}
NoDecisions == [a \in Approvals |-> {}]

BridgeInit ==
  /\ LinkInit /\ DeskInit
  /\ refs = {} /\ resolved = {} /\ pending = {} /\ channel = "none" /\ jobs = {}
  /\ told = {} /\ written = NoDecisions
  /\ cards = [a \in Approvals |-> "none"]
  /\ asked = [r \in Requests |-> "new"]
  /\ home = [r \in Requests |-> "none"]
  /\ shownIn = [r \in Requests |-> "none"]
  /\ unposted = {}

Job(m, tries) == [msg |-> m, tries |-> tries, ref |-> FALSE, thread |-> "none"]
(* A handler that has nothing to post ends at once *)
Begin(j) == IF j.tries = <<>> THEN jobs ELSE jobs \cup {j}

(* The bridge writes one line, if connected *)
Writes(m) == /\ toGateway' = Written(m)
             /\ UNCHANGED <<gateway, bridge, sock, timer, delay, peer, client,
                            toBridge, downs, exits>>

(* The next line is taken off the socket *)
Line == Head(toBridge)
Receives == /\ sock = "open" /\ toBridge # <<>>
            /\ toBridge' = Tail(toBridge)
            /\ UNCHANGED <<gateway, bridge, sock, timer, delay, peer, client,
                           toGateway, downs, exits>>

(* What a message is about *)
OfRequest(m) == m.type \in Lists \cup Actions \cup {"auth-response", "response"}
OfApproval(m) == m.type \in {"approval-request", "approval-decision", "approval-expired"}

(* MUTANT of Posted: a handler goes on to its next attempt after a success *)
PostedAndAgain(j) ==
  /\ Head(j.tries) # "broken"
  /\ jobs' = (jobs \ {j}) \cup (IF Len(j.tries) = 1 THEN {} ELSE {[j EXCEPT !.tries = Tail(@)]})
  /\ asked' = IF OfRequest(j.msg) THEN [asked EXCEPT ![j.msg.id] = "shown"] ELSE asked
  /\ shownIn' = IF OfRequest(j.msg) THEN [shownIn EXCEPT ![j.msg.id] = j.thread] ELSE shownIn
  /\ UNCHANGED <<link, desk, refs, cards, told, resolved, pending, channel, written, home, unposted>>

(* The platform takes the post that the job tries now; a "broken" text      *)
(* violates the platform's own markup rules and is never taken              *)
Posted(j) ==
  /\ Head(j.tries) # "broken"
  /\ jobs' = jobs \ {j}
  /\ LET m == j.msg IN
     /\ cards' = CASE m.type = "approval-request" -> [cards EXCEPT ![m.id] = "live"]
                   [] m.type = "approval-decision" -> [cards EXCEPT ![m.id] = m.decision]
                   [] m.type = "approval-expired" /\ j.ref -> [cards EXCEPT ![m.id] = "expired"]
                   [] OTHER -> cards
     /\ refs' = IF m.type = "approval-request" THEN refs \cup {m.id} ELSE refs
     /\ told' = IF m.type = "approval-expired" /\ ~j.ref THEN told \cup {m.id} ELSE told
     /\ asked' = IF OfRequest(m) THEN [asked EXCEPT ![m.id] = "shown"] ELSE asked
     /\ shownIn' = IF OfRequest(m) THEN [shownIn EXCEPT ![m.id] = j.thread] ELSE shownIn
  /\ UNCHANGED <<link, desk, resolved, pending, channel, written, home, unposted>>

(* The platform refuses it: the next attempt, or the error is logged *)
NotPosted(j) ==
  LET last == Len(j.tries) = 1
      outcome == IF Head(j.tries) = "broken" THEN "refused" ELSE "failed" IN
  /\ jobs' = (jobs \ {j}) \cup (IF last THEN {} ELSE {[j EXCEPT !.tries = Tail(@)]})
  /\ asked' = IF last /\ OfRequest(j.msg)
              THEN [asked EXCEPT ![j.msg.id] = outcome] ELSE asked
  /\ unposted' = IF last /\ OfApproval(j.msg) THEN unposted \cup {j.msg.id} ELSE unposted
  /\ UNCHANGED <<link, desk, refs, resolved, pending, channel, told, written, cards, home, shownIn>>

(* The process dies and with it all it kept in memory *)
Forgotten ==
  /\ refs' = {} /\ resolved' = {} /\ pending' = {} /\ channel' = "none" /\ jobs' = {}
  /\ told' = {} /\ written' = NoDecisions
  /\ UNCHANGED <<desk, screen>>

Die == (Reset \/ Exit) /\ Forgotten

OfLink == (LinkNext \/ (StartBridge /\ UNCHANGED desk)) /\ UNCHANGED <<memory, screen>>
OfDesk == DeskNext /\ UNCHANGED <<memory, screen>>
OfPosts == \E j \in jobs : Posted(j) \/ NotPosted(j)

Shared == OfLink \/ OfDesk \/ OfPosts \/ Die

(***************************************************************************)
(* Properties                                                               *)
(***************************************************************************)
Outcomes == {"shown", "blank", "failed", "refused"}

(* The tables of the bridge, the connection and the screen have their types *)
TypeOK ==
  /\ gateway \in BOOLEAN /\ bridge \in BOOLEAN /\ timer \in BOOLEAN
  /\ sock \in {"none", "opening", "open", "closed"}
  /\ peer \in {"none", "backlog", "held", "gone"}
  /\ delay \in FirstDelay..MaxDelay
  /\ verdict \in [Approvals -> {"idle", "asked", "expired", "void"} \cup Decisions]
  /\ chat \in [Approvals -> Chats]
  /\ refs \subseteq Approvals /\ resolved \subseteq Approvals /\ told \subseteq Approvals
  /\ pending \subseteq [id : Requests, thread : Threads] /\ channel \in Threads
  /\ cards \in [Approvals -> {"none", "live", "expired"} \cup Decisions]
  /\ written \in [Approvals -> SUBSET Decisions]
  /\ asked \in [Requests -> {"new", "usage", "offline", "dropped", "sent"} \cup Outcomes]
  /\ home \in [Requests -> Threads] /\ shownIn \in [Requests -> Threads]

(* A bridge process writes at most one decision per approval, and none once  *)
(* it told the user that the approval expired: also when the expiry was      *)
(* handled before the card was posted (resolvedApprovals)                    *)
DecidedOnce ==
  [][\A a \in Approvals :
       written[a] # {} \/ a \in told => written'[a] \in {written[a], {}}]_vars

(* A card shows a decision only after that decision was written to the       *)
(* gateway ("Send the decision to the gateway", then "Mark as resolved")     *)
DecisionShownWasSent ==
  [][\A a \in Approvals, d \in Decisions :
       cards'[a] = d /\ cards[a] # d => d \in written[a]]_vars

(* An answer is shown in the thread its request was made in, whatever was    *)
(* mentioned since; after a restart of a process it may be outside of it     *)
RepliesInThread ==
  \A r \in Requests : asked[r] = "shown" =>
    shownIn[r] = home[r] \/ (shownIn[r] = "none" /\ downs + exits > 0)

Talk == INSTANCE Conversation WITH stage <- asked, place <- shownIn, stopped <- downs + exits > 0

(* Every request gets one outcome, for good, and an answer is shown in the   *)
(* thread of its request, though posts are refused and tried again, lines    *)
(* are written to connections that are gone, and processes stop: the bridge  *)
(* implements Conversation                                                   *)
RequestsAnswered == Talk!Spec

(* The bridge is connected in the end, whatever stopped and was restarted *)
Reconnects == <>[](sock = "open" /\ peer = "held")

Stops == downs + exits
Arrived(id) == \E i \in DOMAIN toBridge : toBridge[i].id = id

(* The user learns of an expiry the bridge received, on the card or by a     *)
(* notice, unless the platform takes no post or the bridge stops             *)
ExpiryTold ==
  \A a \in Approvals :
    (chat[a] = Platform /\ \E i \in DOMAIN toBridge : toBridge[i] = Expiry(a))
      ~> (cards[a] = "expired" \/ a \in told \cup unposted \/ ~bridge)

(* A turn the gateway serves for the connection of now is answered to the    *)
(* user, unless a process stops                                              *)
Served(r) == peer = "held" /\ \E s \in serving : s.id = r /\ s.client = client
TurnsAnswered ==
  \A r \in Requests, n \in 0..(MaxDowns + MaxExits) :
    ((Served(r) \/ Arrived(r)) /\ Stops = n)
      ~> (asked[r] \in Outcomes \/ Stops > n \/ ~bridge)
====
