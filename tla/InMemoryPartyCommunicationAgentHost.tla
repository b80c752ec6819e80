---------------- MODULE InMemoryPartyCommunicationAgentHost -----------------
(***************************************************************************)
(* The communication agents of two threads of one process                  *)
(* (fbpcf/engine/communication/InMemoryPartyCommunicationAgentHost.cpp): a *)
(* queue of messages for each direction, with a mutex and a condition      *)
(* variable.  receive collects its bytes message by message and holds the  *)
(* mutex for one message at a time.  Each agent is used by one thread.     *)
(*                                                                         *)
(* split is a history variable: whether a receive has ended inside a       *)
(* message.                                                                *)
(***************************************************************************)
EXTENDS Integers, Sequences
Seqs == INSTANCE SequencesExt

CONSTANTS SendSizes, ReceiveSizes,  \* the sizes the callers use
          MaxBytes                  \* bound on the bytes sent, and on those received

ASSUME HostAssumption ==
  SendSizes \subseteq Nat /\ ReceiveSizes \subseteq Nat /\ MaxBytes \in Nat

Agents == {0, 1}

VARIABLES
  buffers,     \* by sender, the messages sent and not yet taken
  receiving,   \* by receiver, the call of receive under way
  sent, received, got,  \* what PartyCommunicationAgent says of both ends
  split

vars == <<buffers, receiving, sent, received, got, split>>

Bytes(from, n) == [i \in 1..n |-> from + i]
NoCall == [at |-> "no call", size |-> 0, result |-> <<>>]

Init ==
  /\ buffers = [p \in Agents |-> <<>>]
  /\ receiving = [p \in Agents |-> NoCall]
  /\ sent = [p \in Agents |-> 0] /\ received = [p \in Agents |-> 0]
  /\ got = [p \in Agents |-> <<>>] /\ split = FALSE

-----------------------------------------------------------------------------
At(p, place) == receiving[p].at = place

(* Mutation: the receiver is not notified. *)
notifyNobody(p) == receiving
(* notify_one: the only thread that waits for messages of p looks again. *)
notify(p) == IF At(1 - p, "wait") THEN [receiving EXCEPT ![1 - p].at = "loop"]
                                  ELSE receiving

(* sendImpl, with the send of the host. *)
Send(p) ==
  /\ At(p, "no call")
  /\ \E n \in SendSizes :
       /\ sent[p] + n <= MaxBytes
       /\ buffers' = [buffers EXCEPT ![p] = Append(@, Bytes(sent[p], n))]
       /\ sent' = [sent EXCEPT ![p] = @ + n]
  /\ receiving' = notify(p)
  /\ UNCHANGED <<received, got, split>>

Receive(p) ==
  /\ At(p, "no call")
  /\ \E n \in ReceiveSizes :
       /\ received[p] + n <= MaxBytes
       /\ receiving' = [receiving EXCEPT ![p] = [at |-> "loop", size |-> n, result |-> <<>>]]
  /\ UNCHANGED <<buffers, sent, received, got, split>>

missing(p) == receiving[p].size - Len(receiving[p].result)
front(p) == Head(buffers[1 - p])

(* Mutation: the newest message is taken. *)
takeNewest(p) ==
  LET newest == buffers[1 - p][Len(buffers[1 - p])]
  IN  /\ missing(p) >= Len(newest)
      /\ receiving' = [receiving EXCEPT ![p].result = @ \o newest]
      /\ buffers' = [buffers EXCEPT ![1 - p] = SubSeq(@, 1, Len(@) - 1)]
      /\ UNCHANGED split

takeWhole(p) ==
  /\ missing(p) >= Len(front(p))
  /\ receiving' = [receiving EXCEPT ![p].result = @ \o front(p)]
  /\ buffers' = [buffers EXCEPT ![1 - p] = Tail(@)]
  /\ UNCHANGED split

(* Part of a message: by the time the part is to be erased from the        *)
(* message, the result has its full size and nothing is left to erase.     *)
takePart(p) ==
  LET filled == [receiving[p] EXCEPT !.result = @ \o SubSeq(front(p), 1, missing(p))]
      erased == filled.size - Len(filled.result)
  IN  /\ missing(p) < Len(front(p))
      /\ receiving' = [receiving EXCEPT ![p] = filled]
      /\ buffers' = [buffers EXCEPT ![1 - p] =
                       <<SubSeq(front(p), erased + 1, Len(front(p)))>> \o Tail(@)]
      /\ split' = TRUE

(* An iteration of the loop, under the lock; or the wait for a message. *)
Iterate(p) ==
  /\ At(p, "loop") /\ missing(p) > 0
  /\ \/ /\ buffers[1 - p] = <<>>
        /\ receiving' = [receiving EXCEPT ![p].at = "wait"]
        /\ UNCHANGED <<buffers, split>>
     \/ /\ buffers[1 - p] # <<>>
        /\ takeWhole(p) \/ takePart(p)
  /\ UNCHANGED <<sent, received, got>>

(* receive and recvImpl return. *)
Return(p) ==
  /\ At(p, "loop") /\ missing(p) = 0
  /\ got' = [got EXCEPT ![p] = receiving[p].result]
  /\ received' = [received EXCEPT ![p] = @ + receiving[p].size]
  /\ receiving' = [receiving EXCEPT ![p] = NoCall]
  /\ UNCHANGED <<buffers, sent, split>>

WakeSpuriously(p) ==
  /\ At(p, "wait")
  /\ receiving' = [receiving EXCEPT ![p].at = "loop"]
  /\ UNCHANGED <<buffers, sent, received, got, split>>

Next == \E p \in Agents : \/ Send(p) \/ Receive(p)
                          \/ Iterate(p) \/ Return(p) \/ WakeSpuriously(p)

Spec == Init /\ [][Next]_vars

(* The threads run; what they call is up to them. *)
FairSpec == Spec /\ \A p \in Agents : WF_vars(Iterate(p) \/ Return(p))

-----------------------------------------------------------------------------
(* To its callers, the host is a stream of bytes in each direction, as     *)
(* IPartyCommunicationAgent.h promises: until a receive ends inside a      *)
(* message.                                                                *)
Abstract == INSTANCE PartyCommunicationAgent
ImplementsAgent == /\ Abstract!AgentInit
                   /\ [][split' \/ Abstract!AgentNext]_Abstract!agentVars

(* The bytes receive returns are the next ones the partner sent, as        *)
(* IPartyCommunicationAgent.h says: "receive a byte string from the        *)
(* partner".                                                               *)
ReceivesNextBytes ==
  \A p \in Agents : got[p] = Bytes(received[p] - Len(got[p]), Len(got[p]))

(* A receive returns once enough has been sent.                            *)
EnoughSent(p) == received[p] + receiving[p].size <= sent[1 - p]
ReceiveReturns ==
  \A p \in Agents : ~At(p, "no call") /\ EnoughSent(p) ~> At(p, "no call")
=============================================================================
