----------------------- MODULE PartyCommunicationAgent ----------------------
(***************************************************************************)
(* What the network API between two parties promises                       *)
(* (fbpcf/engine/communication/IPartyCommunicationAgent.h): a stream of    *)
(* bytes in each direction.  receive blocks until it has as many bytes as  *)
(* it is asked for, and returns the next ones the partner sent, however    *)
(* the partner split them among its calls of send.                         *)
(*                                                                         *)
(* The bytes a party sends are told apart by their places in its stream:   *)
(* the k-th byte is k.                                                     *)
(***************************************************************************)
EXTENDS Integers, Sequences

CONSTANTS Agents,     \* the two ends, 0 and 1
          SendSizes, ReceiveSizes

VARIABLES sent,       \* by party, how many bytes it sent
          received,   \* by party, how many bytes it received
          got         \* by party, what the last receive returned

agentVars == <<sent, received, got>>

Bytes(from, n) == [i \in 1..n |-> from + i]

AgentInit ==
  /\ sent = [p \in Agents |-> 0] /\ received = [p \in Agents |-> 0]
  /\ got = [p \in Agents |-> <<>>]

send(p, n) ==
  /\ sent' = [sent EXCEPT ![p] = @ + n]
  /\ UNCHANGED <<received, got>>

receive(p, n) ==
  /\ received[p] + n <= sent[1 - p]
  /\ received' = [received EXCEPT ![p] = @ + n]
  /\ got' = [got EXCEPT ![p] = Bytes(received[p], n)]
  /\ UNCHANGED sent

AgentNext == \E p \in Agents : \/ \E n \in SendSizes : send(p, n)
                               \/ \E n \in ReceiveSizes : receive(p, n)

AgentSpec == AgentInit /\ [][AgentNext]_agentVars
=============================================================================
