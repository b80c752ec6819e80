-------------- MODULE InMemoryPartyCommunicationAgentHost_proofs ------------
(***************************************************************************)
(* Proof that the agents of the in-memory host are a stream of bytes in    *)
(* each direction, for messages and receives of every size and however     *)
(* the two threads take turns, until a receive ends inside a message.      *)
(***************************************************************************)
EXTENDS InMemoryPartyCommunicationAgentHost, TLAPS

(* The calls of receive. *)
Call == [at : {"no call", "loop", "wait"}, size : Nat, result : Seq(Nat)]

(* A receive never has more than it was asked for. *)
Fits(c) ==
  /\ Len(c.result) <= c.size
  /\ c.at = "no call" => c = NoCall
  /\ c.at # "no call" => c.size \in ReceiveSizes

(* The types, and what calls of receive look like. *)
TypeOK ==
  /\ sent \in [Agents -> Nat] /\ received \in [Agents -> Nat]
  /\ buffers \in [Agents -> Seq(Seq(Nat))]
  /\ receiving \in [Agents -> Call]
  /\ split \in BOOLEAN
  /\ \A p \in Agents : Fits(receiving[p])

(* The messages ms are the bytes of a stream from one place to another,    *)
(* cut at the places of cuts.                                              *)
Cut(ms, from, to, cuts) ==
  /\ cuts \in [1..Len(ms) + 1 -> 0..to]
  /\ cuts[1] = from /\ cuts[Len(ms) + 1] = to
  /\ \A i \in 1..Len(ms) : /\ cuts[i] <= cuts[i + 1]
                           /\ ms[i] = Bytes(cuts[i], cuts[i + 1] - cuts[i])
Covers(ms, from, to) == \E cuts : Cut(ms, from, to, cuts)

(* How much of the other party's stream p has taken. *)
Taken(p) == received[p] + Len(receiving[p].result)

(* What the other party has sent is what p has received, what p's call has *)
(* taken, and what waits in the buffer, in this order.                     *)
Stream(p) ==
  /\ receiving[p].result = Bytes(received[p], Len(receiving[p].result))
  /\ Covers(buffers[1 - p], Taken(p), sent[1 - p])

(* Until a receive ends inside a message. *)
Streams == ~split => \A p \in Agents : Stream(p)

(* The inductive invariant. *)
IInv == TypeOK /\ Streams

-----------------------------------------------------------------------------
(* Bytes and messages.                                                     *)

(* Bytes are a sequence of as many numbers. *)
LEMMA BytesType ==
  ASSUME NEW from \in Nat, NEW n \in Nat
  PROVE  Bytes(from, n) \in Seq(Nat) /\ Len(Bytes(from, n)) = n
<1>1. Bytes(from, n) \in [1..n -> Nat]
  BY DEF Bytes
<1>2. DOMAIN Bytes(from, n) = 1..n
  BY DEF Bytes
<1> PICK b : b = Bytes(from, n)
  OBVIOUS
<1> QED BY <1>1, <1>2

(* One sequence after another. *)
LEMMA SequencesJoin ==
  ASSUME NEW S, NEW s \in Seq(S), NEW t \in Seq(S)
  PROVE  /\ s \o t \in Seq(S) /\ Len(s \o t) = Len(s) + Len(t)
         /\ \A i \in 1..Len(s) : (s \o t)[i] = s[i]
         /\ \A i \in Len(s) + 1..Len(s) + Len(t) : (s \o t)[i] = t[i - Len(s)]
BY ONLY s \in Seq(S), t \in Seq(S)

(* Bytes that follow each other are bytes. *)
LEMMA BytesJoin ==
  ASSUME NEW from \in Nat, NEW m \in Nat, NEW n \in Nat
  PROVE  Bytes(from, m) \o Bytes(from + m, n) = Bytes(from, m + n)
<1> PICK next \in Nat : next = from + m
  OBVIOUS
<1> PICK size \in Nat : size = m + n
  OBVIOUS
<1>1. /\ Bytes(from, m) \in Seq(Nat) /\ Len(Bytes(from, m)) = m
      /\ Bytes(next, n) \in Seq(Nat) /\ Len(Bytes(next, n)) = n
      /\ Bytes(from, size) \in Seq(Nat) /\ Len(Bytes(from, size)) = size
  BY BytesType
<1>2. /\ \A i \in 1..m : Bytes(from, m)[i] = from + i
      /\ \A i \in 1..n : Bytes(next, n)[i] = next + i
      /\ \A i \in 1..size : Bytes(from, size)[i] = from + i
  BY DEF Bytes
<1> PICK a \in Seq(Nat) : a = Bytes(from, m)
  BY <1>1
<1> PICK b \in Seq(Nat) : b = Bytes(next, n)
  BY <1>1
<1>3. /\ a \o b \in Seq(Nat) /\ Len(a \o b) = Len(a) + Len(b)
      /\ \A i \in 1..Len(a) : (a \o b)[i] = a[i]
      /\ \A i \in Len(a) + 1..Len(a) + Len(b) : (a \o b)[i] = b[i - Len(a)]
  BY SequencesJoin
<1>4. ASSUME NEW ab \in Seq(Nat), Len(ab) = size,
             \A i \in 1..m : ab[i] = a[i],
             \A i \in m + 1..size : ab[i] = b[i - m]
      PROVE  ab = Bytes(from, size)
  <2>1. ASSUME NEW i \in 1..size PROVE ab[i] = Bytes(from, size)[i]
    <3>1. CASE i <= m
      <4>1. i \in 1..m
        BY <3>1
      <4> QED BY <1>2, <1>4, <4>1
    <3>2. CASE i > m
      <4>1. i \in m + 1..size /\ i - m \in 1..n
        BY <3>2
      <4>2. b[i - m] = next + (i - m)
        BY <1>2, <4>1
      <4>3. next + (i - m) = from + i
        OBVIOUS
      <4> QED BY <1>2, <1>4, <4>1, <4>2, <4>3
    <3> QED BY <3>1, <3>2
  <2> QED BY <1>1, <1>4, <2>1
<1>5. /\ Len(a \o b) = size
      /\ \A i \in 1..m : (a \o b)[i] = a[i]
      /\ \A i \in m + 1..size : (a \o b)[i] = b[i - m]
  <2>1. Len(a) = m /\ Len(b) = n
    BY <1>1
  <2> QED BY <1>3, <2>1
<1>6. a \o b = Bytes(from, size)
  BY <1>3, <1>4, <1>5, Zenon
<1> QED BY <1>6

(* A message is put behind those that wait. *)
LEMMA CoversAppend ==
  ASSUME NEW ms \in Seq(Seq(Nat)), NEW from \in Nat, NEW to \in Nat, from <= to,
         Covers(ms, from, to), NEW n \in Nat
  PROVE  Covers(Append(ms, Bytes(to, n)), from, to + n)
<1> PICK cuts : Cut(ms, from, to, cuts)
  BY DEF Covers
<1> PICK k \in Nat : k = Len(ms)
  OBVIOUS
<1> PICK b : b = Bytes(to, n)
  OBVIOUS
<1> PICK new : new = Append(ms, b)
  OBVIOUS
<1> DEFINE more == [i \in 1..k + 2 |-> IF i <= k + 1 THEN cuts[i] ELSE to + n]
<1>1. b \in Seq(Nat) /\ new \in Seq(Seq(Nat)) /\ Len(new) = k + 1
      /\ new[k + 1] = b /\ \A i \in 1..k : new[i] = ms[i]
  BY BytesType
<1>2. /\ cuts \in [1..k + 1 -> 0..to] /\ cuts[1] = from /\ cuts[k + 1] = to
      /\ \A i \in 1..k : cuts[i] <= cuts[i + 1]
                          /\ ms[i] = Bytes(cuts[i], cuts[i + 1] - cuts[i])
  BY DEF Cut
<1>3. \A i \in 1..k + 1 : more[i] = cuts[i] /\ more[i] \in 0..to + n
  <2> TAKE i \in 1..k + 1
  <2>1. cuts[i] \in 0..to
    BY <1>2
  <2> QED BY <2>1
<1>4. more[k + 2] = to + n /\ more[k + 2] \in 0..to + n
  OBVIOUS
<1>5. more \in [1..k + 2 -> 0..to + n]
  <2>1. \A i \in 1..k + 2 : i \in 1..k + 1 \/ i = k + 2
    OBVIOUS
  <2>2. \A i \in 1..k + 2 : more[i] \in 0..to + n
    BY <1>3, <1>4, <2>1
  <2> QED BY <2>2
<1>6. ASSUME NEW i \in 1..k + 1
      PROVE  more[i] <= more[i + 1] /\ new[i] = Bytes(more[i], more[i + 1] - more[i])
  <2>1. CASE i = k + 1
    <3>1. more[i] = to /\ more[i + 1] = to + n
      BY <1>2, <1>3, <1>4, <2>1
    <3>2. to + n - to = n
      OBVIOUS
    <3> QED BY <1>1, <2>1, <3>1, <3>2
  <2>2. CASE i # k + 1
    <3>1. i \in 1..k /\ more[i] = cuts[i] /\ more[i + 1] = cuts[i + 1]
      BY <1>3, <2>2
    <3> QED BY <1>1, <1>2, <3>1
  <2> QED BY <2>1, <2>2
<1>7. more[1] = from /\ Len(new) + 1 = k + 2
  BY <1>1, <1>2, <1>3
<1> HIDE DEF more
<1>8. Cut(new, from, to + n, more)
  BY <1>1, <1>4, <1>5, <1>6, <1>7 DEF Cut
<1> QED BY <1>8 DEF Covers

(* The first message is taken. *)
LEMMA CoversTail ==
  ASSUME NEW ms \in Seq(Seq(Nat)), ms # <<>>, NEW from \in Nat, NEW to \in Nat,
         Covers(ms, from, to)
  PROVE  \E n \in Nat : /\ Head(ms) = Bytes(from, n) /\ from + n <= to
                        /\ Covers(Tail(ms), from + n, to)
<1> PICK cuts : Cut(ms, from, to, cuts)
  BY DEF Covers
<1> PICK k \in Nat \ {0} : k = Len(ms)
  OBVIOUS
<1> PICK rest : rest = Tail(ms)
  OBVIOUS
<1>1. rest \in Seq(Seq(Nat)) /\ Len(rest) = k - 1
      /\ Head(ms) = ms[1] /\ \A i \in 1..k - 1 : rest[i] = ms[i + 1]
  OBVIOUS
<1>2. /\ cuts \in [1..k + 1 -> 0..to] /\ cuts[1] = from /\ cuts[k + 1] = to
      /\ \A i \in 1..k : cuts[i] <= cuts[i + 1]
                          /\ ms[i] = Bytes(cuts[i], cuts[i + 1] - cuts[i])
  BY DEF Cut
<1>3. 1 \in 1..k /\ 2 \in 1..k + 1 /\ cuts[2] \in 0..to /\ cuts[1] <= cuts[2]
  <2>1. 1 \in 1..k /\ 2 \in 1..k + 1 /\ 1 + 1 = 2
    OBVIOUS
  <2> QED BY <1>2, <2>1
<1> PICK n \in Nat : n = cuts[2] - from
  BY <1>2, <1>3
<1>4. Head(ms) = Bytes(from, n) /\ from + n <= to /\ cuts[2] = from + n
  <2>1. ms[1] = Bytes(cuts[1], cuts[1 + 1] - cuts[1])
    BY <1>2, <1>3
  <2> QED BY <1>1, <1>2, <1>3, <2>1
<1> DEFINE less == [i \in 1..k |-> cuts[i + 1]]
<1>5. less \in [1..k -> 0..to]
  BY <1>2
<1>6. \A i \in 1..k : less[i] = cuts[i + 1]
  OBVIOUS
<1> HIDE DEF less
<1>7. ASSUME NEW i \in 1..k - 1
      PROVE  less[i] <= less[i + 1] /\ rest[i] = Bytes(less[i], less[i + 1] - less[i])
  <2> PICK j \in 1..k : j = i + 1
    OBVIOUS
  <2>1. less[i] = cuts[j] /\ less[j] = cuts[j + 1] /\ rest[i] = ms[j]
    BY <1>1, <1>6
  <2> QED BY <1>2, <2>1
<1>8. less[1] = from + n /\ less[k] = to
  <2>1. 1 \in 1..k /\ k \in 1..k /\ 1 + 1 = 2
    OBVIOUS
  <2> QED BY <1>2, <1>4, <1>6, <2>1
<1>9. Cut(rest, from + n, to, less)
  BY <1>1, <1>5, <1>7, <1>8 DEF Cut
<1> QED BY <1>4, <1>9 DEF Covers

(* Nothing that waits is ahead of what was sent. *)
LEMMA CoversBounds ==
  ASSUME NEW ms \in Seq(Seq(Nat)), NEW from, NEW to \in Nat, Covers(ms, from, to)
  PROVE  from \in 0..to /\ (ms = <<>> => from = to)
<1> PICK cuts : Cut(ms, from, to, cuts)
  BY DEF Covers
<1> PICK k \in Nat : k = Len(ms)
  OBVIOUS
<1>1. cuts \in [1..k + 1 -> 0..to] /\ cuts[1] = from /\ cuts[k + 1] = to /\ 1 \in 1..k + 1
  BY DEF Cut
<1> QED BY <1>1

(* No message waits at first. *)
LEMMA CoversNothing == Covers(<<>>, 0, 0)
<1> DEFINE cuts == [i \in 1..1 |-> 0]
<1>1. Cut(<<>>, 0, 0, cuts)
  BY DEF Cut
<1> HIDE DEF cuts
<1> QED BY <1>1 DEF Covers

-----------------------------------------------------------------------------
(* The steps.                                                              *)

(* There are two agents. *)
LEMMA TwoAgents == \A p \in Agents : 1 - p \in Agents /\ 1 - (1 - p) = p /\ 1 - p # p
BY DEF Agents

(* What a call consists of. *)
LEMMA CallType ==
  ASSUME NEW c \in Call
  PROVE  c.result \in Seq(Nat) /\ c.size \in Nat /\ Len(c.result) \in Nat
<1>1. c.result \in Seq(Nat) /\ c.size \in Nat
  BY DEF Call
<1>2. \A r \in Seq(Nat) : Len(r) \in Nat
  OBVIOUS
<1> QED BY ONLY <1>1, <1>2, Zenon

(* No call. *)
LEMMA NoCallType ==
  /\ NoCall \in Call /\ Fits(NoCall)
  /\ NoCall.at = "no call" /\ NoCall.result = <<>> /\ NoCall.size = 0
<1>1. NoCall \in Call /\ NoCall.at = "no call" /\ NoCall.result = <<>> /\ NoCall.size = 0
  BY DEF NoCall, Call
<1>2. \A r \in Seq(Nat) : r = <<>> => Len(r) = 0
  OBVIOUS
<1>3. NoCall.result \in Seq(Nat)
  BY <1>1, CallType
<1>4. Len(NoCall.result) = 0
  BY ONLY <1>1, <1>2, <1>3, Zenon
<1>5. Len(NoCall.result) <= NoCall.size
  <2>1. NoCall.size = 0
    BY <1>1
  <2>2. 0 <= 0
    OBVIOUS
  <2> QED BY ONLY <1>4, <2>1, <2>2, Zenon
<1>6. Fits(NoCall)
  BY ONLY <1>1, <1>5 DEF Fits
<1> QED BY <1>1, <1>6

(* The initial state. *)
LEMMA InitInv == Init => IInv
<1> SUFFICES ASSUME Init PROVE IInv
  OBVIOUS
<1>2. TypeOK
  <2>1. <<>> \in Seq(Seq(Nat))
    OBVIOUS
  <2> QED BY NoCallType, <2>1 DEF Init, TypeOK
<1>3. ASSUME NEW p \in Agents PROVE Stream(p)
  <2>1. /\ receiving[p].result = <<>> /\ received[p] = 0
        /\ buffers[1 - p] = <<>> /\ sent[1 - p] = 0
    BY NoCallType, TwoAgents DEF Init
  <2>2. Bytes(0, 0) = <<>> /\ Len(<<>>) = 0
    BY DEF Bytes
  <2> QED BY <2>1, <2>2, CoversNothing DEF Stream, Taken
<1> QED BY <1>2, <1>3 DEF IInv, Streams

(* A direction in which nothing happens. *)
LEMMA Untouched ==
  ASSUME NEW p \in Agents, Stream(p), receiving'[p].result = receiving[p].result,
         received'[p] = received[p], buffers'[1 - p] = buffers[1 - p],
         sent'[1 - p] = sent[1 - p]
  PROVE  Stream(p)'
BY DEF Stream, Taken

(* A message is sent. *)
LEMMA SendStep == ASSUME IInv, NEW p \in Agents, Send(p) PROVE IInv'
<1> PICK n \in Nat : /\ buffers' = [buffers EXCEPT ![p] = Append(@, Bytes(sent[p], n))]
                     /\ sent' = [sent EXCEPT ![p] = @ + n]
  BY HostAssumption DEF Send
<1> PICK q \in Agents : q = 1 - p /\ p = 1 - q /\ p # q /\ \A r \in Agents : r = p \/ r = q
  BY DEF Agents
<1>1. TypeOK /\ Streams
  BY DEF IInv
<1>2. /\ At(p, "no call") /\ receiving' = notify(p)
      /\ UNCHANGED <<received, got, split>>
  BY DEF Send
<1>3. /\ sent[p] \in Nat /\ sent'[p] = sent[p] + n /\ sent' \in [Agents -> Nat]
      /\ sent'[q] = sent[q]
  <2>1. sent \in [Agents -> Nat]
    BY <1>1 DEF TypeOK
  <2> QED BY <2>1
<1>4. Bytes(sent[p], n) \in Seq(Nat)
  BY <1>3, BytesType
<1>5. /\ buffers' \in [Agents -> Seq(Seq(Nat))] /\ buffers[p] \in Seq(Seq(Nat))
      /\ buffers'[p] = Append(buffers[p], Bytes(sent[p], n)) /\ buffers'[q] = buffers[q]
  <2>1. buffers \in [Agents -> Seq(Seq(Nat))]
    BY <1>1 DEF TypeOK
  <2> QED BY <1>4, <2>1
<1>6. \A r \in Agents : \/ receiving'[r] = receiving[r]
                        \/ /\ receiving[r].at = "wait"
                           /\ receiving'[r] = [receiving[r] EXCEPT !.at = "loop"]
  <2>1. receiving \in [Agents -> Call]
    BY <1>1 DEF TypeOK
  <2> QED BY <1>2, <2>1 DEF notify, At
<1>7. \A r \in Agents : /\ receiving'[r].result = receiving[r].result
                        /\ receiving'[r] \in Call /\ Fits(receiving'[r])
  <2>1. ASSUME NEW c \in Call, Fits(c), c.at = "wait", NEW d, d = [c EXCEPT !.at = "loop"]
        PROVE  d.result = c.result /\ d \in Call /\ Fits(d)
    BY <2>1 DEF Call, Fits
  <2>2. \A r \in Agents : receiving[r] \in Call /\ Fits(receiving[r])
    BY <1>1 DEF TypeOK
  <2> QED BY <1>6, <2>1, <2>2
<1>10. TypeOK'
  <2>1. received \in [Agents -> Nat] /\ split \in BOOLEAN
    BY <1>1 DEF TypeOK
  <2>2. receiving' \in [Agents -> Call]
    <3>1. DOMAIN receiving' = Agents /\ receiving' = [r \in Agents |-> receiving'[r]]
      BY <1>1, <1>2 DEF TypeOK, notify
    <3> QED BY <1>7, <3>1
  <2> QED BY <1>2, <1>3, <1>5, <1>7, <2>1, <2>2 DEF TypeOK
<1>11. Streams'
  <2> SUFFICES ASSUME ~split PROVE Stream(p)' /\ Stream(q)'
    BY <1>2 DEF Streams
  <2>1. Stream(p) /\ Stream(q)
    BY <1>1 DEF Streams
  <2>2. Stream(p)'
    BY <1>2, <1>3, <1>5, <1>7, <2>1, Untouched
  <2>3. Covers(buffers[p], Taken(q), sent[p])
    BY <2>1 DEF Stream
  <2>4. Taken(q) \in 0..sent[p]
    BY <1>3, <1>5, <2>3, CoversBounds
  <2>5. Covers(buffers'[p], Taken(q), sent'[p])
    <3>1. Taken(q) \in Nat /\ Taken(q) <= sent[p]
      BY <1>3, <2>4
    <3> QED BY <1>3, <1>5, <2>3, <3>1, CoversAppend
  <2>6. Taken(q)' = Taken(q)
    BY <1>2, <1>7 DEF Taken
  <2>7. receiving'[q].result = Bytes(received'[q], Len(receiving'[q].result))
    BY <1>2, <1>7, <2>1 DEF Stream
  <2> QED BY <2>2, <2>5, <2>6, <2>7 DEF Stream
<1> QED BY <1>10, <1>11 DEF IInv

(* What a step does to one call of receive. *)
LEMMA OneCall ==
  ASSUME TypeOK, NEW p \in Agents, NEW c \in Call, Fits(c),
         receiving' = [receiving EXCEPT ![p] = c],
         buffers' \in [Agents -> Seq(Seq(Nat))], split' \in BOOLEAN,
         sent' = sent, received' \in [Agents -> Nat]
  PROVE  /\ TypeOK' /\ receiving'[p] = c
         /\ \A r \in Agents : r # p => receiving'[r] = receiving[r]
<1>1. /\ receiving \in [Agents -> Call] /\ sent \in [Agents -> Nat]
      /\ \A r \in Agents : Fits(receiving[r])
  BY DEF TypeOK
<1>2. /\ receiving'[p] = c /\ \A r \in Agents : r # p => receiving'[r] = receiving[r]
      /\ receiving' \in [Agents -> Call]
  BY <1>1
<1>3. \A r \in Agents : Fits(receiving'[r])
  BY <1>1, <1>2
<1> QED BY <1>1, <1>2, <1>3 DEF TypeOK

(* A call goes to another place. *)
LEMMA Placed ==
  ASSUME NEW c \in Call, Fits(c), c.at # "no call", NEW place \in {"wait", "loop"}
  PROVE  /\ [c EXCEPT !.at = place] \in Call /\ Fits([c EXCEPT !.at = place])
         /\ [c EXCEPT !.at = place].result = c.result
BY DEF Call, Fits

(* A call has more of its bytes. *)
LEMMA Extended ==
  ASSUME NEW c \in Call, Fits(c), c.at # "no call",
         NEW all \in Seq(Nat), Len(all) <= c.size
  PROVE  /\ [c EXCEPT !.result = all] \in Call /\ Fits([c EXCEPT !.result = all])
         /\ [c EXCEPT !.result = all].result = all
         /\ [c EXCEPT !.result = all].size = c.size
BY DEF Call, Fits

(* A call of receive begins. *)
LEMMA ReceiveStep == ASSUME IInv, NEW p \in Agents, Receive(p) PROVE IInv'
<1> PICK n \in ReceiveSizes :
      receiving' = [receiving EXCEPT ![p] = [at |-> "loop", size |-> n, result |-> <<>>]]
  BY DEF Receive
<1>1. /\ TypeOK /\ Streams /\ receiving[p] = NoCall /\ n \in Nat
      /\ UNCHANGED <<buffers, sent, received, got, split>>
  BY HostAssumption DEF IInv, Receive, TypeOK, Fits, At
<1> PICK c : c = [at |-> "loop", size |-> n, result |-> <<>>]
  OBVIOUS
<1>2. c \in Call /\ Fits(c) /\ c.result = <<>>
  <2>1. <<>> \in Seq(Nat) /\ Len(<<>>) = 0
    OBVIOUS
  <2> QED BY <1>1, <2>1 DEF Call, Fits
<1>3. /\ receiving'[p] = c /\ \A r \in Agents : r # p => receiving'[r] = receiving[r]
      /\ TypeOK'
  BY <1>1, <1>2, OneCall DEF TypeOK
<1>4. \A r \in Agents : receiving'[r].result = receiving[r].result
  <2>1. receiving[p].result = <<>>
    BY ONLY <1>1, NoCallType
  <2> QED BY <1>2, <1>3, <2>1
<1> QED BY <1>1, <1>3, <1>4, Untouched, TwoAgents DEF IInv, Streams

(* A receive waits for a message, or looks again. *)
LEMMA WaitStep ==
  ASSUME IInv, NEW p \in Agents, NEW place \in {"wait", "loop"}, ~At(p, "no call"),
         receiving' = [receiving EXCEPT ![p].at = place],
         UNCHANGED <<buffers, sent, received, got, split>>
  PROVE  IInv'
<1>1. /\ TypeOK /\ Streams /\ receiving[p] \in Call /\ Fits(receiving[p])
      /\ receiving[p].at # "no call"
  BY DEF IInv, TypeOK, At
<1> PICK c : c = [receiving[p] EXCEPT !.at = place]
  OBVIOUS
<1>2. c \in Call /\ Fits(c) /\ c.result = receiving[p].result
  BY ONLY <1>1, c = [receiving[p] EXCEPT !.at = place], place \in {"wait", "loop"}, Placed
<1>3. /\ receiving'[p] = c /\ \A r \in Agents : r # p => receiving'[r] = receiving[r]
      /\ TypeOK'
  <2>1. receiving' = [receiving EXCEPT ![p] = c]
    BY <1>1 DEF TypeOK
  <2> QED BY <1>1, <1>2, <2>1, OneCall DEF TypeOK
<1>4. \A r \in Agents : receiving'[r].result = receiving[r].result
  BY <1>2, <1>3
<1> QED BY <1>1, <1>3, <1>4, Untouched, TwoAgents DEF IInv, Streams

(* A receive takes a message. *)
LEMMA TakeWholeStep ==
  ASSUME IInv, NEW p \in Agents, At(p, "loop"), missing(p) > 0, buffers[1 - p] # <<>>,
         takeWhole(p), UNCHANGED <<sent, received, got>>
  PROVE  IInv'
<1> PICK q \in Agents : q = 1 - p /\ p = 1 - q /\ p # q /\ \A r \in Agents : r = p \/ r = q
  BY DEF Agents
<1> PICK c : c = receiving[p]
  OBVIOUS
<1> PICK ms : ms = buffers[q]
  OBVIOUS
<1>1. /\ TypeOK /\ Streams /\ c \in Call /\ Fits(c) /\ c.at = "loop"
      /\ ms \in Seq(Seq(Nat)) /\ ms # <<>>
      /\ received[p] \in Nat /\ sent[q] \in Nat
  BY DEF IInv, TypeOK, At
<1>2. Head(ms) \in Seq(Nat) /\ Tail(ms) \in Seq(Seq(Nat))
  BY <1>1
<1> PICK m \in Seq(Nat) : m = Head(ms)
  BY <1>2
<1>3. c.result \in Seq(Nat) /\ c.size \in Nat /\ Len(c.result) \in Nat /\ Len(m) \in Nat
  BY ONLY <1>1, m \in Seq(Nat), CallType
<1>4. c.result \o m \in Seq(Nat) /\ Len(c.result \o m) = Len(c.result) + Len(m)
  BY ONLY <1>3, m \in Seq(Nat), SequencesJoin, Zenon
<1> PICK d : d = [c EXCEPT !.result = c.result \o m]
  OBVIOUS
<1>5. /\ receiving' = [receiving EXCEPT ![p] = d]
      /\ buffers' = [buffers EXCEPT ![q] = Tail(ms)]
      /\ split' = split /\ c.size - Len(c.result) >= Len(m)
  <2>1. receiving \in [Agents -> Call] /\ buffers \in [Agents -> Seq(Seq(Nat))]
    BY <1>1 DEF TypeOK
  <2>2. /\ receiving' = [receiving EXCEPT ![p].result = @ \o m]
        /\ buffers' = [buffers EXCEPT ![q] = Tail(@)]
        /\ split' = split /\ c.size - Len(c.result) >= Len(m)
    BY DEF takeWhole, missing, front
  <2>3. receiving' = [receiving EXCEPT ![p] = [receiving[p] EXCEPT !.result = receiving[p].result \o m]]
    BY ONLY <2>1, <2>2, p \in Agents
  <2>4. buffers' = [buffers EXCEPT ![q] = Tail(buffers[q])]
    BY ONLY <2>1, <2>2, q \in Agents
  <2> QED BY ONLY <2>2, <2>3, <2>4, c = receiving[p], ms = buffers[q],
                  d = [c EXCEPT !.result = c.result \o m]
<1>6. d \in Call /\ Fits(d) /\ d.result = c.result \o m
  <2> PICK join \in Seq(Nat) : join = c.result \o m
    BY <1>4
  <2>1. Len(join) = Len(c.result) + Len(m)
    BY ONLY <1>4, join = c.result \o m
  <2>2. Len(join) <= c.size
    BY ONLY <1>3, <1>5, <2>1
  <2>3. d = [c EXCEPT !.result = join]
    BY ONLY join = c.result \o m, d = [c EXCEPT !.result = c.result \o m]
  <2>4. d \in Call /\ Fits(d) /\ d.result = join
    BY ONLY <1>1, <2>2, <2>3, join \in Seq(Nat), Extended
  <2> QED BY ONLY <2>4, join = c.result \o m
<1>7. /\ receiving'[p] = d /\ receiving'[q] = receiving[q] /\ TypeOK'
      /\ buffers'[q] = Tail(ms) /\ buffers'[p] = buffers[p]
  <2>1. buffers \in [Agents -> Seq(Seq(Nat))]
    BY <1>1 DEF TypeOK
  <2>2. /\ buffers' \in [Agents -> Seq(Seq(Nat))]
        /\ buffers'[q] = Tail(ms) /\ buffers'[p] = buffers[p]
    BY <1>2, <1>5, <2>1
  <2> QED BY <1>1, <1>5, <1>6, <2>2, OneCall DEF TypeOK
<1>8. Streams'
  <2> SUFFICES ASSUME ~split PROVE Stream(p)' /\ Stream(q)'
    BY <1>5 DEF Streams
  <2>1. Stream(p) /\ Stream(q)
    BY <1>1 DEF Streams
  <2>2. Stream(q)'
    BY <1>7, <2>1, Untouched
  <2> PICK from : from = Taken(p)
    OBVIOUS
  <2>3. from \in Nat /\ from = received[p] + Len(c.result)
    BY <1>1, <1>3 DEF Taken
  <2>4. Covers(ms, from, sent[q]) /\ c.result = Bytes(received[p], Len(c.result))
    BY <2>1 DEF Stream
  <2> PICK n \in Nat : /\ m = Bytes(from, n) /\ from + n <= sent[q]
                       /\ Covers(Tail(ms), from + n, sent[q])
    BY <1>1, <2>3, <2>4, CoversTail
  <2>5. Len(m) = n
    BY <2>3, BytesType
  <2>6. c.result \o m = Bytes(received[p], Len(c.result) + n)
    <3> PICK k \in Nat : k = Len(c.result)
      BY <1>3
    <3>1. Bytes(received[p], k) \o Bytes(received[p] + k, n) = Bytes(received[p], k + n)
      <4>1. received[p] \in Nat
        BY <1>1
      <4> QED BY ONLY <4>1, k \in Nat, n \in Nat, BytesJoin, Zenon
    <3> QED BY <2>3, <2>4, <3>1
  <2>7. Len(d.result) = Len(c.result) + n
    BY ONLY <1>4, <1>6, <2>5
  <2>8. d.result = Bytes(received'[p], Len(d.result))
    <3>1. received'[p] = received[p]
      OBVIOUS
    <3> QED BY ONLY <1>6, <2>6, <2>7, <3>1
  <2>9. Taken(p)' = from + n
    <3>1. Taken(p)' = received[p] + Len(d.result)
      BY <1>7 DEF Taken
    <3> QED BY ONLY <1>1, <1>3, <2>3, <2>7, <3>1, n \in Nat
  <2> QED BY <1>7, <2>2, <2>8, <2>9 DEF Stream
<1> QED BY <1>7, <1>8 DEF IInv

(* A receive ends inside a message. *)
LEMMA TakePartStep ==
  ASSUME IInv, NEW p \in Agents, At(p, "loop"), missing(p) > 0, buffers[1 - p] # <<>>,
         takePart(p), UNCHANGED <<sent, received, got>>
  PROVE  IInv' /\ split'
<1> PICK q \in Agents : q = 1 - p /\ p # q
  BY DEF Agents
<1> PICK c : c = receiving[p]
  OBVIOUS
<1> PICK ms : ms = buffers[q]
  OBVIOUS
<1>1. /\ TypeOK /\ c \in Call /\ Fits(c) /\ c.at = "loop"
      /\ ms \in Seq(Seq(Nat)) /\ ms # <<>>
  BY DEF IInv, TypeOK, At
<1>2. Head(ms) \in Seq(Nat) /\ Tail(ms) \in Seq(Seq(Nat))
  BY <1>1
<1> PICK m \in Seq(Nat) : m = Head(ms)
  BY <1>2
<1>3. c.result \in Seq(Nat) /\ c.size \in Nat /\ Len(c.result) \in Nat /\ Len(m) \in Nat
  BY ONLY <1>1, m \in Seq(Nat), CallType
<1> PICK n \in Int : n = c.size - Len(c.result)
  BY <1>3
<1>4. n > 0 /\ n < Len(m)
  BY DEF missing, takePart, front
<1> PICK begin : begin = SubSeq(m, 1, n)
  OBVIOUS
<1>5. begin \in Seq(Nat) /\ Len(begin) = n
  BY ONLY <1>4, begin = SubSeq(m, 1, n), n \in Int, m \in Seq(Nat)
<1> PICK join : join = c.result \o begin
  OBVIOUS
<1>6. join \in Seq(Nat) /\ Len(join) = c.size
  <2>1. join \in Seq(Nat) /\ Len(join) = Len(c.result) + Len(begin)
    BY ONLY <1>3, <1>5, join = c.result \o begin, SequencesJoin
  <2> QED BY ONLY <1>3, <1>5, <2>1, n = c.size - Len(c.result)
<1> PICK d : d = [c EXCEPT !.result = join]
  OBVIOUS
<1>7. d \in Call /\ Fits(d) /\ d.result = join /\ d.size = c.size
  <2>1. Len(join) <= c.size /\ c.at # "no call"
    BY ONLY <1>1, <1>3, <1>6
  <2> QED BY ONLY <1>1, <1>6, <2>1, d = [c EXCEPT !.result = join], Extended
<1>8. /\ receiving' = [receiving EXCEPT ![p] = d] /\ split' = TRUE
      /\ buffers' = [buffers EXCEPT ![q] = <<SubSeq(m, d.size - Len(d.result) + 1, Len(m))>>
                                              \o Tail(ms)]
  BY DEF takePart, missing, front
<1>9. d.size - Len(d.result) + 1 = 1 /\ SubSeq(m, 1, Len(m)) \in Seq(Nat)
  BY ONLY <1>3, <1>6, <1>7, m \in Seq(Nat)
<1> PICK all \in Seq(Nat) : all = SubSeq(m, 1, Len(m))
  BY <1>9
<1>10. <<all>> \o Tail(ms) \in Seq(Seq(Nat))
  <2>1. <<all>> \in Seq(Seq(Nat))
    OBVIOUS
  <2> QED BY <1>2, <2>1, SequencesJoin
<1>11. buffers' \in [Agents -> Seq(Seq(Nat))]
  <2>1. buffers' = [buffers EXCEPT ![q] = <<all>> \o Tail(ms)]
    BY <1>8, <1>9
  <2>2. buffers \in [Agents -> Seq(Seq(Nat))]
    BY <1>1 DEF TypeOK
  <2> QED BY <1>10, <2>1, <2>2
<1>12. TypeOK'
  BY <1>1, <1>7, <1>8, <1>11, OneCall DEF TypeOK
<1> QED BY <1>8, <1>12 DEF IInv, Streams

(* An iteration of the loop. *)
LEMMA IterateStep == ASSUME IInv, NEW p \in Agents, Iterate(p) PROVE IInv'
<1>1. /\ At(p, "loop") /\ missing(p) > 0 /\ ~At(p, "no call")
      /\ UNCHANGED <<sent, received, got>>
  BY DEF Iterate, At
<1>2. CASE /\ receiving' = [receiving EXCEPT ![p].at = "wait"]
           /\ UNCHANGED <<buffers, split>>
  BY <1>1, <1>2, WaitStep
<1>3. CASE buffers[1 - p] # <<>> /\ takeWhole(p)
  BY <1>1, <1>3, TakeWholeStep
<1>4. CASE buffers[1 - p] # <<>> /\ takePart(p)
  BY <1>1, <1>4, TakePartStep
<1> QED BY <1>2, <1>3, <1>4 DEF Iterate

(* What a receive that returns has: as many of the next bytes as it was    *)
(* asked for, and no more than were sent.                                  *)
LEMMA ReturnHas ==
  ASSUME IInv, NEW p \in Agents, Return(p)
  PROVE  /\ receiving[p].size \in ReceiveSizes
         /\ Len(receiving[p].result) = receiving[p].size
         /\ ~split => /\ receiving[p].result = Bytes(received[p], receiving[p].size)
                      /\ received[p] + receiving[p].size <= sent[1 - p]
<1> PICK c \in Call : c = receiving[p]
  BY DEF IInv, TypeOK
<1>1. Fits(c) /\ c.at = "loop" /\ missing(p) = 0
  BY DEF IInv, TypeOK, Return, At
<1>2. c.size \in ReceiveSizes
  BY <1>1 DEF Fits
<1>3. c.size \in Nat /\ Len(c.result) \in Nat
  BY CallType
<1>4. c.size - Len(c.result) = 0
  BY <1>1 DEF missing
<1>5. Len(c.result) = c.size
  BY ONLY <1>3, <1>4
<1>6. ASSUME ~split
      PROVE  c.result = Bytes(received[p], c.size) /\ received[p] + c.size <= sent[1 - p]
  <2>1. Stream(p) /\ 1 - p \in Agents
    BY <1>6, TwoAgents DEF IInv, Streams
  <2>2. c.result = Bytes(received[p], c.size)
    BY <1>5, <2>1 DEF Stream
  <2>3. /\ buffers[1 - p] \in Seq(Seq(Nat)) /\ sent[1 - p] \in Nat
        /\ Covers(buffers[1 - p], Taken(p), sent[1 - p])
    BY <2>1 DEF IInv, TypeOK, Stream
  <2>4. Taken(p) \in 0..sent[1 - p]
    BY ONLY <2>3, CoversBounds
  <2>5. Taken(p) = received[p] + c.size
    BY <1>5 DEF Taken
  <2> QED BY ONLY <2>2, <2>3, <2>4, <2>5
<1> QED BY <1>2, <1>5, <1>6

(* A receive returns. *)
LEMMA ReturnStep == ASSUME IInv, NEW p \in Agents, Return(p) PROVE IInv'
<1> PICK q \in Agents : q = 1 - p /\ p = 1 - q /\ p # q /\ \A r \in Agents : r = p \/ r = q
  BY DEF Agents
<1> PICK n \in Nat : n = receiving[p].size
  BY CallType DEF IInv, TypeOK
<1>1. /\ TypeOK /\ Streams
      /\ received' = [received EXCEPT ![p] = @ + n]
      /\ receiving' = [receiving EXCEPT ![p] = NoCall]
      /\ UNCHANGED <<buffers, sent, split>>
  BY DEF IInv, Return
<1>2. /\ received[p] \in Nat /\ received'[p] = received[p] + n
      /\ received'[q] = received[q] /\ received' \in [Agents -> Nat]
  <2>1. received \in [Agents -> Nat]
    BY <1>1 DEF TypeOK
  <2> QED BY ONLY <1>1, <2>1, n \in Nat, p \in Agents, q \in Agents, p # q
<1>3. /\ TypeOK' /\ receiving'[p] = NoCall
      /\ \A r \in Agents : r # p => receiving'[r] = receiving[r]
  BY <1>1, <1>2, NoCallType, OneCall DEF TypeOK
<1>4. ASSUME ~split PROVE Stream(p)' /\ Stream(q)'
  <2>1. Stream(p) /\ Stream(q)
    BY <1>1, <1>4 DEF Streams
  <2>2. Stream(q)'
    BY <1>1, <1>2, <1>3, <2>1, Untouched
  <2>3. Len(receiving[p].result) = n
    BY ReturnHas
  <2>4. Covers(buffers[q], received[p] + n, sent[q])
    BY <2>1, <2>3 DEF Stream, Taken
  <2>5. receiving'[p].result = <<>>
    BY <1>3, NoCallType
  <2>6. Bytes(received'[p], 0) = <<>> /\ Len(<<>>) = 0
    BY DEF Bytes
  <2>7. Len(receiving'[p].result) = 0
    BY ONLY <2>5, <2>6
  <2>8. receiving'[p].result = Bytes(received'[p], Len(receiving'[p].result))
    BY ONLY <2>5, <2>6, <2>7
  <2>9. Taken(p)' = received[p] + n
    <3>1. Taken(p)' = received'[p] + 0
      BY <2>7 DEF Taken
    <3> QED BY ONLY <1>2, <3>1, n \in Nat
  <2>10. Covers(buffers[q], Taken(p)', sent[q])
    BY <2>4, <2>9
  <2> QED BY <1>1, <2>2, <2>8, <2>10 DEF Stream
<1> QED BY <1>1, <1>3, <1>4 DEF IInv, Streams

(* Every step keeps the invariant. *)
LEMMA NextInv == IInv /\ [Next]_vars => IInv'
<1> SUFFICES ASSUME IInv, [Next]_vars PROVE IInv'
  OBVIOUS
<1>1. CASE UNCHANGED vars
  BY <1>1 DEF vars, IInv, TypeOK, Streams, Stream, Taken, Fits
<1>2. CASE Next
  <2> PICK p \in Agents : \/ Send(p) \/ Receive(p)
                          \/ Iterate(p) \/ Return(p) \/ WakeSpuriously(p)
    BY <1>2 DEF Next
  <2>1. CASE WakeSpuriously(p)
    BY <2>1, WaitStep DEF WakeSpuriously, At
  <2> QED BY <2>1, SendStep, ReceiveStep, IterateStep, ReturnStep
<1> QED BY <1>1, <1>2

-----------------------------------------------------------------------------
(* The stream of bytes.                                                    *)

(* A step of the host is a step of the stream, or none, or it splits a     *)
(* message, or comes after that.                                           *)
LEMMA StepIsStream ==
  ASSUME IInv, [Next]_vars
  PROVE  [split' \/ Abstract!AgentNext]_(Abstract!agentVars)
<1>1. CASE UNCHANGED vars
  BY <1>1 DEF vars, Abstract!agentVars
<1>2. ASSUME NEW p \in Agents, Send(p) PROVE Abstract!AgentNext
  BY <1>2 DEF Send, Abstract!AgentNext, Abstract!send
<1>3. ASSUME NEW p \in Agents, Receive(p) \/ Iterate(p) \/ WakeSpuriously(p)
      PROVE  UNCHANGED Abstract!agentVars
  BY <1>3 DEF Receive, Iterate, WakeSpuriously, Abstract!agentVars
<1>4. ASSUME NEW p \in Agents, Return(p), ~split' PROVE Abstract!AgentNext
  <2> PICK n : n = receiving[p].size
    OBVIOUS
  <2>1. /\ n \in ReceiveSizes /\ receiving[p].result = Abstract!Bytes(received[p], n)
        /\ received[p] + n <= sent[1 - p]
    BY <1>4, ReturnHas DEF Return, Bytes, Abstract!Bytes
  <2>2. /\ got' = [got EXCEPT ![p] = receiving[p].result]
        /\ received' = [received EXCEPT ![p] = @ + n] /\ UNCHANGED sent
    BY <1>4 DEF Return
  <2>3. Abstract!receive(p, n)
    BY <2>1, <2>2 DEF Abstract!receive
  <2> QED BY <2>1, <2>3 DEF Abstract!AgentNext
<1> QED BY <1>1, <1>2, <1>3, <1>4 DEF Next

(* To their callers, the agents of the host are a stream of bytes in each  *)
(* direction: each receive returns the next bytes the partner sent, as     *)
(* many as it was asked for and never before they were sent, until one     *)
(* ends inside a message.                                                  *)
THEOREM HostIsStream == Spec => ImplementsAgent
<1>1. Init => Abstract!AgentInit
  BY DEF Init, Abstract!AgentInit
<1> QED BY <1>1, InitInv, NextInv, StepIsStream, PTL DEF Spec, ImplementsAgent
=============================================================================
