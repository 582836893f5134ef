---------------------------- MODULE MoneyTransfer ----------------------------
(***************************************************************************)
(* A sender and a receiver, and the path between them: the money of the    *)
(* sender's streams, from setSendMax to what the peer's streams have       *)
(* received.  MoneySender and Receiver are taken as they are, and joined   *)
(* by the packets: what the one loads the other handles, and what it       *)
(* answers is what the first goes on with.  The receiver has a loop of its *)
(* own, which tells the sender of the limits that its application raises.  *)
(***************************************************************************)
EXTENDS LongArith, FiniteSets, Functions

CONSTANTS
  Streams, SendLimits, ReceiveLimits, PacketLimits, RateNum, RateDen, MaxSequence, ShouldFulfill,
  MaxChanges,      \* bound on calls of setSendMax and setReceiveMax
  MaxFaults        \* bound on packets that the path or the application refuses

\* What the streams may send together fits in a Long: the sender's own total is not what
\* stops a transfer.
ASSUME TransferAssumption ==
  /\ Streams \subseteq Nat /\ IsFiniteSet(Streams)
  /\ SendLimits \subseteq {n \in Long : 2 * n <= MaxLong /\ n * Cardinality(Streams) <= MaxLong}
  /\ ReceiveLimits \subseteq Long /\ PacketLimits \subseteq Long
  /\ {RateNum, RateDen, MaxSequence} \subseteq Nat \ {0}
  /\ ShouldFulfill \in BOOLEAN
  /\ {MaxChanges, MaxFaults} \subseteq Nat

VARIABLES
  loop, sending, connected, destroyed, remoteGone, nextSequence, request, queuedCloses,
  life, sentEnd, sendMax, totalSent, held, holds, remoteReceived, remoteReceiveMax,
  connectionSent, peak, paid,
  stage, packet, response, status, receiveMax, received, remoteClosed,
  totalReceived, incomingHold, peerClosed, peerDestroyed,
  peerLoop,     \* the receiver's loop: "idle", "tick", or "waiting" for an answer
  peerSending,  \* its this.sending
  announced,    \* the StreamMaxMoney frames of the packet it waits for
  changes, faults,
  lost          \* history: an announcement was refused

senderVars   == <<loop, sending, connected, destroyed, remoteGone, nextSequence, request,
                  queuedCloses, life, sentEnd, sendMax, totalSent, held, holds, remoteReceived,
                  remoteReceiveMax, connectionSent, peak, paid>>
receiverVars == <<stage, packet, response, status, receiveMax, received, remoteClosed,
                  totalReceived, incomingHold, peerClosed, peerDestroyed>>
peerVars     == <<peerLoop, peerSending, announced>>
vars         == <<senderVars, receiverVars, peerVars, changes, faults, lost>>

Sender == INSTANCE MoneySender WITH Answers <- {}, PeerLimits <- {}

Receiver == INSTANCE Receiver
  WITH Prepares <- 1 .. MaxSequence, Packets <- {}, closed <- peerClosed, destroyed <- peerDestroyed

Init ==
  /\ Sender!Init /\ Receiver!Init
  /\ peerLoop = "idle" /\ peerSending = FALSE /\ announced = <<>>
  /\ changes = 0 /\ faults = 0 /\ lost = FALSE
-----------------------------------------------------------------------------
(* The sender's packets.                                                    *)

Connect ==
  /\ Sender!setupExchangeRate /\ connected'
  /\ UNCHANGED <<receiverVars, peerVars, changes, faults, lost>>

Load ==
  /\ \/ \E limit \in PacketLimits : Sender!loadAndSendPacket(limit, FALSE)
     \/ Sender!BackoffOver
  /\ UNCHANGED <<receiverVars, peerVars, changes, faults, lost>>

\* prepareAmount: the amount at the exchange rate, less the one percent of slippage.
MinimumAmount(n) == Floor(Floor(n, RateNum, RateDen), 99, 100)

\* Every stream of the sender is open, and every packet has its control frames.
Prepare ==
  [amount |-> Floor(request.amount, RateNum, RateDen), minimum |-> MinimumAmount(request.amount),
   shares |-> request.money, others |-> Streams, fulfillable |-> TRUE]

UnderWay == loop = "waiting" /\ stage[request.seq] = "idle"

Arrive ==
  /\ UnderWay
  /\ Receiver!ControlFrames(request.seq, Prepare)
  /\ UNCHANGED <<senderVars, peerVars, changes, faults, lost>>

\* The receiver goes on with a prepare that has expired meanwhile.
Handle ==
  /\ \E p \in 1 .. MaxSequence : Receiver!Decide(p) \/ Receiver!Accept(p)
  /\ UNCHANGED <<senderVars, peerVars, changes, faults, lost>>

Answered ==
  /\ loop = "waiting"
  /\ LET r == response[request.seq]
     IN  \/ r.code = "fulfill" /\ Sender!Fulfilled(r.limits, r.closes)
         \/ r.code = "F99" /\ Sender!Rejected(r.limits, r.closes)
         \/ r.code = "F00" /\ Sender!RejectedFinally
  /\ UNCHANGED <<sendMax, peak, receiverVars, peerVars, changes, faults, lost>>
-----------------------------------------------------------------------------
(* What goes wrong.                                                         *)

Fault == faults < MaxFaults /\ faults' = faults + 1 /\ UNCHANGED <<sendMax, peak, peerVars, changes, lost>>

\* A connector refuses a packet for the time being.
TemporaryError ==
  /\ Fault /\ UnderWay
  /\ Sender!RejectedTemporarily
  /\ UNCHANGED receiverVars

\* The prepare, or the answer to it, does not come in time: R00 ends the connection,
\* whether or not the receiver has handled the prepare, or goes on handling it.
Expire ==
  /\ Fault /\ loop = "waiting"
  /\ Sender!RejectedFinally
  /\ UNCHANGED receiverVars

Decline ==
  /\ Fault
  /\ \E p \in 1 .. MaxSequence : Receiver!Decline(p)
  /\ UNCHANGED senderVars
-----------------------------------------------------------------------------
(* The applications, and the receiver's loop.                               *)

Change == changes < MaxChanges /\ changes' = changes + 1 /\ UNCHANGED <<faults, lost>>

SetSendMax(s, limit) ==
  /\ Change
  /\ Sender!setSendMax(s, limit) /\ limit # sendMax[s]
  /\ UNCHANGED <<receiverVars, peerVars>>

\* Mutant: the loop is not started.
WakePeerNot == UNCHANGED <<peerLoop, peerSending>>

WakePeer ==
  /\ peerSending' = TRUE
  /\ peerLoop' = IF peerLoop = "idle" THEN "tick" ELSE peerLoop

SetReceiveMax(s, limit) ==
  /\ Change
  /\ Receiver!SetReceiveMax(s, limit) /\ limit # receiveMax[s]
  /\ WakePeer
  /\ UNCHANGED <<senderVars, announced>>

\* loadAndSendPacket of the receiver, which has control frames to send and no money:
\* sending is reset, so that the packet is not sent again.
Announce ==
  /\ peerLoop = "tick"
  /\ announced' = Receiver!MaxMoney({s \in Streams : status[s] = "open"}, received)
  /\ peerLoop' = "waiting" /\ peerSending' = FALSE
  /\ UNCHANGED <<senderVars, receiverVars, changes, faults, lost>>

\* Its loop goes on if it was started meanwhile.
PeerGoesOn ==
  /\ peerLoop = "waiting"
  /\ peerLoop' = IF peerSending THEN "tick" ELSE "idle"
  /\ UNCHANGED <<peerSending, announced>>

AnnouncementArrives ==
  /\ PeerGoesOn
  /\ Sender!PeerAnnounces(announced)
  /\ UNCHANGED <<receiverVars, changes, faults, lost>>

AnnouncementRefused ==
  /\ faults < MaxFaults /\ faults' = faults + 1 /\ lost' = TRUE
  /\ PeerGoesOn
  /\ UNCHANGED <<senderVars, receiverVars, changes>>
-----------------------------------------------------------------------------
SenderStep == Connect \/ Load \/ Answered
PathStep   == Arrive \/ Handle
PeerStep   == Announce \/ AnnouncementArrives
Failure    == TemporaryError \/ Expire \/ Decline \/ AnnouncementRefused

Applications ==
  \E s \in Streams : \/ \E limit \in SendLimits : SetSendMax(s, limit)
                     \/ \E limit \in ReceiveLimits : SetReceiveMax(s, limit)

Next == SenderStep \/ PathStep \/ PeerStep \/ Failure \/ Applications

Spec == Init /\ [][Next]_vars

\* The two event loops go on, and the path answers or lets a packet expire.
FairSpec == Spec /\ WF_vars(SenderStep) /\ WF_vars(PathStep) /\ WF_vars(PeerStep)
-----------------------------------------------------------------------------
(* Properties.                                                              *)

\* What the connection promises: at every step the money that was delivered, and not
\* yet settled, is that of one packet, and every packet is settled as it was delivered.
Promise == INSTANCE Payment
  WITH sendLimit <- peak, receiveLimit <- receiveMax, sent <- totalSent, got <- received,
       pending <- IF (loop = "waiting" \/ destroyed) /\ stage[request.seq] = "fulfilled"
                  THEN request.money ELSE Sender!NoMoney,
       failed <- destroyed

Implements == Promise!Spec

\* What the sender believes of a stream was true once: never more than the receiver
\* has got or allows, however announcements and answers overtake each other.
KnowledgeIsPast ==
  \A s \in Streams :
    /\ remoteReceived[s] <= received[s]
    /\ remoteReceiveMax[s] \in {MaxLong} \cup 0 .. receiveMax[s]

\* When nothing is under way the two ends agree on what was delivered and on what the
\* sender has been told of it.
BooksAgree ==
  loop # "waiting" /\ ~destroyed => \A s \in Streams : remoteReceived[s] = received[s]

Informed(s) == remoteReceived[s] = received[s] /\ remoteReceiveMax[s] = receiveMax[s]

\* What stops a stream: its own limit, or the receiver's.
Complete(s) == sendMax[s] <= totalSent[s] \/ receiveMax[s] <= received[s]

\* "The stream will always attempt to send up to its defined max, but ultimately will
\* only send as much as the receiver is willing to receive" (README.md:194), as far as the
\* sender is told what that is: an announcement that the path refuses is not sent again.
GetsThrough ==
  <>[](destroyed \/ \A s \in Streams : Complete(s) \/ (lost /\ ~Informed(s)))
=============================================================================
