-------------------- MODULE TwoPartyTupleGenerator_proofs -------------------
(***************************************************************************)
(* Proofs about the generation of tuples, for every size of the buffers    *)
(* and every program.                                                      *)
(*                                                                         *)
(* In a party, the queue holds the chunks that are not there yet, the      *)
(* RCOTs are used by one task at a time, and no task misses its turn.      *)
(*                                                                         *)
(* The two parties generate their chunks in the same order, and what they  *)
(* hand out are the halves of the same tuples, each once.  The parties     *)
(* share no order: each main thread appends to its own queue when its own  *)
(* buffers run out.  What makes the orders the same is that the requests   *)
(* say when that is: the chunk that comes i-th is for the kind of the      *)
(* first request that asks for more than the chunks before the i-th can    *)
(* hold.  The invariants say this of the kinds a party has queued so far,  *)
(* which are those its RCOTs have run for and then those in its queue.     *)
(*                                                                         *)
(* From there a tuple is followed from the run of the RCOTs that makes it: *)
(* its number among those handed out tells the chunk it is from and its    *)
(* place there, and the chunks of a kind are those made in the runs for    *)
(* that kind, in order.                                                    *)
(***************************************************************************)
EXTENDS TwoPartyTupleGenerator, Induction, TLAPS

(* What holds of a party's queue s and its tasks t. *)
Sound(s, t) ==
  /\ \A i, j \in DOMAIN s : s[i] = s[j] => i = j
  /\ \A k \in Kinds : (\E i \in DOMAIN s : s[i] = k)
                        <=> t[k] \in {"started", "asleep", "generating"}
  /\ \A k \in Kinds : t[k] = "generating" => Head(s) = k
  /\ \A k \in Kinds : t[k] = "asleep" => Head(s) # k

(* The tasks a main thread has not started yet. *)
NotStarted(p) ==
  /\ At(p, "construct") => \A k \in Kinds : task[p][k] = "none"
  /\ At(p, "constructComposite") => task[p]["Composite"] = "none"

IInv == /\ TypeOK
        /\ \A p \in Party : Sound(toGenerate[p], task[p]) /\ NotStarted(p)

(* The invariant says what the properties say. *)
LEMMA WhatSoundMeans ==
  ASSUME IInv
  PROVE  QueueExact /\ Exclusive /\ NoLostWakeup
BY DEF IInv, Sound, QueueExact, Exclusive, NoLostWakeup

-----------------------------------------------------------------------------
(* What the steps of the queue and the condition variable preserve.        *)

(* Queueing a chunk of a kind that is not in the queue. *)
LEMMA PushKeeps ==
  ASSUME NEW s \in Seq(Kinds), NEW t \in [Kinds -> TaskStates], NEW k \in Kinds,
         Sound(s, t), t[k] \in {"none", "done"}
  PROVE  Sound(Append(s, k), [t EXCEPT ![k] = "started"])
<1> DEFINE u == [t EXCEPT ![k] = "started"]
           r == Append(s, k)
<1>1. \A i \in DOMAIN s : s[i] # k
  BY DEF Sound
<1>2. /\ Len(s) \in Nat /\ DOMAIN s = 1..Len(s)
      /\ DOMAIN r = 1..Len(s) + 1 /\ r[Len(s) + 1] = k
      /\ \A i \in DOMAIN s : r[i] = s[i]
  OBVIOUS
<1>3. \A m \in Kinds : u[m] = IF m = k THEN "started" ELSE t[m]
  OBVIOUS
<1>4. \A i, j \in DOMAIN r : r[i] = r[j] => i = j
  BY <1>1, <1>2 DEF Sound
<1>5. \A m \in Kinds : (\E i \in DOMAIN r : r[i] = m)
                         <=> m = k \/ \E i \in DOMAIN s : s[i] = m
  BY <1>2
<1>6. ASSUME NEW m \in Kinds, m # k, \E i \in DOMAIN s : s[i] = m
      PROVE  Head(r) = Head(s)
  BY <1>2, <1>6
<1>7. \A m \in Kinds : (\E i \in DOMAIN r : r[i] = m)
                         <=> u[m] \in {"started", "asleep", "generating"}
  BY <1>3, <1>5 DEF Sound
<1>8. \A m \in Kinds : u[m] \in {"generating", "asleep"} =>
                         m # k /\ u[m] = t[m] /\ \E i \in DOMAIN s : s[i] = m
  BY <1>3 DEF Sound
<1>9. \A m \in Kinds : /\ u[m] = "generating" => Head(r) = m
                       /\ u[m] = "asleep" => Head(r) # m
  BY <1>6, <1>8 DEF Sound
<1> HIDE DEF u, r
<1>10. Sound(r, u)
  BY <1>4, <1>7, <1>9 DEF Sound
<1> QED BY <1>10 DEF u, r

(* A task looks whether it is its turn, and sleeps if it is not. *)
LEMMA TurnKeeps ==
  ASSUME NEW s \in Seq(Kinds), NEW t \in [Kinds -> TaskStates], NEW k \in Kinds,
         Sound(s, t), t[k] = "started"
  PROVE  Sound(s, [t EXCEPT ![k] = IF Head(s) = k THEN "generating" ELSE "asleep"])
<1> PICK state : state = IF Head(s) = k THEN "generating" ELSE "asleep"
  OBVIOUS
<1> PICK u : u = [t EXCEPT ![k] = state]
  OBVIOUS
<1>1. \A m \in Kinds : u[m] = IF m = k THEN state ELSE t[m]
  OBVIOUS
<1>2. Sound(s, u)
  BY <1>1 DEF Sound
<1> QED BY <1>2

(* A task that wakes up. *)
LEMMA WakeKeeps ==
  ASSUME NEW s \in Seq(Kinds), NEW t \in [Kinds -> TaskStates], NEW k \in Kinds,
         Sound(s, t), t[k] = "asleep"
  PROVE  Sound(s, [t EXCEPT ![k] = "started"])
<1> PICK u : u = [t EXCEPT ![k] = "started"]
  OBVIOUS
<1>1. \A m \in Kinds : u[m] = IF m = k THEN "started" ELSE t[m]
  OBVIOUS
<1>2. Sound(s, u)
  BY <1>1 DEF Sound
<1> QED BY <1>2

(* The chunk in front leaves the queue, and the other task, when it        *)
(* sleeps, is notified.                                                    *)
LEMMA PopKeeps ==
  ASSUME NEW s \in Seq(Kinds), NEW t \in [Kinds -> TaskStates], NEW k \in Kinds,
         Sound(s, t), t[k] = "generating",
         NEW u \in Notified([t EXCEPT ![k] = "done"])
  PROVE  /\ Sound(Tail(s), u) /\ u \in [Kinds -> TaskStates]
         /\ \A m \in Kinds : t[m] = "none" => u[m] = "none"
<1> PICK done : done = [t EXCEPT ![k] = "done"]
  OBVIOUS
<1>1. \A m \in Kinds : done[m] = IF m = k THEN "done" ELSE t[m]
  OBVIOUS
<1>2. done \in [Kinds -> TaskStates]
  BY DEF TaskStates
<1>3. /\ \A m \in Kinds : u[m] = IF done[m] = "asleep" THEN "started" ELSE done[m]
      /\ u \in [Kinds -> TaskStates]
  <2>1. CASE \E m \in Kinds : done[m] = "asleep"
    <3>1. PICK m \in Kinds : done[m] = "asleep" /\ u = [done EXCEPT ![m] = "started"]
      BY <2>1 DEF Notified
    <3>2. \A n \in Kinds : done[n] = "asleep" => n = m
      BY <1>1, <3>1 DEF Kinds
    <3> QED BY <1>2, <3>1, <3>2 DEF TaskStates
  <2>2. CASE ~ \E m \in Kinds : done[m] = "asleep"
    BY <1>2, <2>2 DEF Notified
  <2> QED BY <2>1, <2>2
<1>4. Head(s) = k /\ \E i \in DOMAIN s : s[i] = k
  BY DEF Sound
<1>5. PICK r : r = Tail(s)
  OBVIOUS
<1>6. /\ Len(s) \in Nat \ {0} /\ DOMAIN s = 1..Len(s) /\ s[1] = k
      /\ DOMAIN r = 1..Len(s) - 1
      /\ \A i \in 1..Len(s) - 1 : r[i] = s[i + 1]
  <2>1. s # <<>> /\ Len(s) \in Nat
    BY <1>4
  <2> QED BY <1>4, <1>5, <2>1
<1>7. \A i, j \in DOMAIN s : s[i] = s[j] => i = j
  BY DEF Sound
<1>8. \A i, j \in DOMAIN r : r[i] = r[j] => i = j
  <2> SUFFICES ASSUME NEW i \in 1..Len(s) - 1, NEW j \in 1..Len(s) - 1, r[i] = r[j]
               PROVE  i = j
    BY <1>6
  <2>1. i + 1 \in DOMAIN s /\ j + 1 \in DOMAIN s /\ s[i + 1] = s[j + 1]
    BY <1>6
  <2>2. i + 1 = j + 1
    BY <1>7, <2>1
  <2> QED BY <2>2
<1>9. \A m \in Kinds : (\E i \in DOMAIN r : r[i] = m)
                         <=> m # k /\ \E i \in DOMAIN s : s[i] = m
  <2> TAKE m \in Kinds
  <2>1. ASSUME NEW i \in DOMAIN r, r[i] = m
        PROVE  m # k /\ \E j \in DOMAIN s : s[j] = m
    <3>1. i + 1 \in DOMAIN s /\ s[i + 1] = m /\ i + 1 # 1 /\ 1 \in DOMAIN s
      BY <1>6, <2>1
    <3> QED BY <1>6, <1>7, <3>1
  <2>2. ASSUME m # k, NEW j \in DOMAIN s, s[j] = m
        PROVE  \E i \in DOMAIN r : r[i] = m
    <3>1. j # 1 /\ j - 1 \in DOMAIN r
      BY <1>6, <2>2
    <3>2. r[j - 1] = m
      BY <1>6, <2>2, <3>1
    <3> QED BY <3>1, <3>2
  <2> QED BY <2>1, <2>2
<1>10. \A m \in Kinds : (\E i \in DOMAIN r : r[i] = m)
                          <=> u[m] \in {"started", "asleep", "generating"}
  BY <1>1, <1>3, <1>9 DEF Sound
<1>11. \A m \in Kinds : u[m] \notin {"generating", "asleep"}
  BY <1>1, <1>3, <1>4 DEF Sound
<1>12. Sound(r, u)
  BY <1>8, <1>10, <1>11 DEF Sound
<1> QED BY <1>1, <1>3, <1>5, <1>12

-----------------------------------------------------------------------------
(* The invariant.                                                          *)

(* The invariant holds before the generator is constructed. *)
LEMMA InitStep == ASSUME Init PROVE IInv
<1>1. TypeOK
  BY TupleAssumption DEF Init, TypeOK, Places, Kinds, Roles, TaskStates, Runs, NotMade
<1>2. ASSUME NEW p \in Party PROVE Sound(toGenerate[p], task[p]) /\ NotStarted(p)
  <2>1. toGenerate[p] = <<>> /\ \A k \in Kinds : task[p][k] = "none"
    BY DEF Init
  <2> QED BY <2>1 DEF Sound, NotStarted, Kinds
<1> QED BY <1>1, <1>2 DEF IInv

(* A step that leaves the queue and the tasks alone, and constructs        *)
(* nothing.                                                                *)
LEMMA QuietStep ==
  ASSUME IInv, TypeOK', UNCHANGED <<toGenerate, task>>,
         \A p \in Party : caller'[p].at \in {"construct", "constructComposite"}
                            => caller'[p].at = caller[p].at
  PROVE  IInv'
BY DEF IInv, NotStarted, At

(* A step of party p that changes its queue and its tasks. *)
LEMMA StepOf ==
  ASSUME IInv, TypeOK', NEW p \in Party, NEW s, NEW t,
         toGenerate' = [toGenerate EXCEPT ![p] = s],
         task' = [task EXCEPT ![p] = t],
         Sound(s, t), NotStarted(p)',
         \A q \in Party : q # p => caller'[q] = caller[q]
  PROVE  IInv'
<1>1. toGenerate \in [Party -> Seq(Kinds)] /\ task \in [Party -> [Kinds -> TaskStates]]
  BY DEF IInv, TypeOK
<1>2. /\ toGenerate'[p] = s /\ task'[p] = t
      /\ \A q \in Party : q # p => toGenerate'[q] = toGenerate[q] /\ task'[q] = task[q]
  BY <1>1
<1> QED BY <1>2 DEF IInv, NotStarted, At

(* Types of what generateData changes. *)
LEMMA GenerateDataStep ==
  ASSUME IInv, NEW p \in Party, NEW k \in Kinds, generateData(p, k),
         task[p][k] \in {"none", "done"}
  PROVE  /\ toGenerate' \in [Party -> Seq(Kinds)]
         /\ task' \in [Party -> [Kinds -> TaskStates]]
         /\ run' \in [Party -> [Kinds -> Runs]]
         /\ toGenerate' = [toGenerate EXCEPT ![p] = Append(toGenerate[p], k)]
         /\ task' = [task EXCEPT ![p] = [task[p] EXCEPT ![k] = "started"]]
         /\ Sound(Append(toGenerate[p], k), [task[p] EXCEPT ![k] = "started"])
<1>1. /\ toGenerate \in [Party -> Seq(Kinds)] /\ task \in [Party -> [Kinds -> TaskStates]]
      /\ run \in [Party -> [Kinds -> Runs]] /\ Sound(toGenerate[p], task[p])
  BY DEF IInv, TypeOK
<1>2. NotMade \in Runs
  BY DEF NotMade, Runs
<1>3. Sound(Append(toGenerate[p], k), [task[p] EXCEPT ![k] = "started"])
  BY <1>1, PushKeeps
<1> QED BY <1>1, <1>2, <1>3 DEF generateData, TaskStates

(* What is known of a main thread. *)
Callers == [at : Places, served : Nat, kind : Kinds, rest : Nat]

(* GoesTo moves one main thread to a place, and leaves the rest of it. *)
LEMMA GoesToStep ==
  ASSUME TypeOK, NEW p \in Party, NEW place \in Places, GoesTo(p, place)
  PROVE  /\ caller' \in [Party -> Callers]
         /\ caller'[p].at = place
         /\ \A q \in Party : caller'[q].served = caller[q].served
         /\ \A q \in Party : q # p => caller'[q] = caller[q]
<1>1. caller \in [Party -> Callers]
  BY DEF TypeOK, Callers
<1> PICK c : c = [caller[p] EXCEPT !.at = place]
  OBVIOUS
<1>2. c \in Callers /\ c.at = place /\ c.served = caller[p].served
  BY <1>1 DEF Callers
<1>3. caller' = [caller EXCEPT ![p] = c]
  BY <1>1 DEF GoesTo
<1> QED BY <1>1, <1>2, <1>3

(* Constructing a buffer keeps the invariant. *)
LEMMA ConstructStep == ASSUME IInv, NEW p \in Party, Construct(p) PROVE IInv'
<1>1. TypeOK /\ NotStarted(p)
  BY DEF IInv
<1>2. UNCHANGED <<requests, chunk, bufferIndex, handedOut, rcots, finished>>
  BY DEF Construct, rcotVars
<1>3. PICK k \in Kinds :
        /\ generateData(p, k) /\ task[p][k] = "none"
        /\ \/ k = "Boolean" /\ At(p, "construct") /\ GoesTo(p, "constructComposite")
           \/ k = "Composite" /\ At(p, "constructComposite") /\ GoesTo(p, "idle")
  BY <1>1 DEF Construct, NotStarted, Kinds
<1>4. /\ toGenerate' \in [Party -> Seq(Kinds)]
      /\ task' \in [Party -> [Kinds -> TaskStates]]
      /\ run' \in [Party -> [Kinds -> Runs]]
      /\ toGenerate' = [toGenerate EXCEPT ![p] = Append(toGenerate[p], k)]
      /\ task' = [task EXCEPT ![p] = [task[p] EXCEPT ![k] = "started"]]
      /\ Sound(Append(toGenerate[p], k), [task[p] EXCEPT ![k] = "started"])
  BY <1>3, GenerateDataStep
<1>5. /\ caller' \in [Party -> Callers]
      /\ \A q \in Party : caller'[q].served = caller[q].served
      /\ \A q \in Party : q # p => caller'[q] = caller[q]
      /\ caller'[p].at = IF k = "Boolean" THEN "constructComposite" ELSE "idle"
  BY <1>1, <1>3, GoesToStep DEF Places
<1>6. TypeOK'
  BY <1>1, <1>2, <1>4, <1>5 DEF TypeOK, Callers
<1>7. NotStarted(p)'
  <2>1. CASE k = "Boolean" /\ At(p, "construct") /\ GoesTo(p, "constructComposite")
    <3>1. task[p]["Composite"] = "none" /\ task \in [Party -> [Kinds -> TaskStates]]
      BY <1>1, <2>1 DEF NotStarted, Kinds, TypeOK
    <3>2. task'[p]["Composite"] = "none"
      BY <1>4, <2>1, <3>1
    <3> QED BY <1>5, <2>1, <3>2 DEF NotStarted, At
  <2>2. CASE k = "Composite"
    BY <1>5, <2>2 DEF NotStarted, At
  <2> QED BY <1>3, <2>1, <2>2
<1> QED BY <1>4, <1>5, <1>6, <1>7, StepOf

(* The begin of a request, or of the end, keeps the invariant. *)
LEMMA BeginStep == ASSUME IInv, NEW p \in Party, Begin(p) PROVE IInv'
<1>1. TypeOK
  BY DEF IInv
<1>2. PICK request \in Steps :
       /\ \/ /\ caller[p].served = Len(requests)
             /\ Len(requests) < MaxRequests \/ request.kind = "end"
             /\ requests' = Append(requests, request)
          \/ /\ caller[p].served < Len(requests)
             /\ request = requests[caller[p].served + 1]
             /\ UNCHANGED requests
       /\ caller' = [caller EXCEPT ![p] =
            IF request.kind = "end" THEN [@ EXCEPT !.at = "destroyComposite"]
            ELSE [at |-> "getData", served |-> @.served + 1,
                  kind |-> request.kind, rest |-> request.size]]
  BY DEF Begin
<1>3. UNCHANGED <<chunk, bufferIndex, handedOut, toGenerate, task, run, rcots, finished>>
  BY DEF Begin, rcotVars
<1>4. /\ caller \in [Party -> Callers] /\ requests \in Seq(Steps)
      /\ \A q \in Party : caller[q].served \in Nat /\ caller[q].served <= Len(requests)
  BY <1>1 DEF TypeOK, Callers
<1>5. /\ requests' \in Seq(Steps) /\ Len(requests') \in Nat
      /\ Len(requests) <= Len(requests')
      /\ caller[p].served + 1 <= Len(requests')
  <2>1. Len(requests) \in Nat /\ caller[p].served \in Nat
    BY <1>4
  <2>2. CASE caller[p].served = Len(requests) /\ requests' = Append(requests, request)
    BY <1>4, <2>1, <2>2
  <2>3. CASE caller[p].served < Len(requests) /\ requests' = requests
    BY <1>4, <2>1, <2>3
  <2> QED BY <1>2, <2>2, <2>3
<1> PICK c : c = caller'[p]
  OBVIOUS
<1>6. /\ c \in Callers /\ c.served <= Len(requests')
      /\ c.at \in {"destroyComposite", "getData"}
      /\ caller' = [caller EXCEPT ![p] = c]
  <2>1. CASE request.kind = "end"
    <3>1. c = [caller[p] EXCEPT !.at = "destroyComposite"]
      BY <1>2, <1>4, <2>1
    <3> QED BY <1>2, <1>4, <1>5, <2>1, <3>1 DEF Places, Callers
  <2>2. CASE request.kind # "end"
    <3>1. request.kind \in Kinds /\ request.size \in Nat
      BY <2>2, TupleAssumption DEF Steps
    <3>2. c = [at |-> "getData", served |-> caller[p].served + 1,
               kind |-> request.kind, rest |-> request.size]
      BY <1>2, <1>4, <2>2
    <3> QED BY <1>2, <1>4, <1>5, <2>2, <3>1, <3>2 DEF Places, Callers
  <2> QED BY <2>1, <2>2
<1>7. /\ caller' \in [Party -> Callers]
      /\ \A q \in Party : caller'[q].served <= Len(requests')
  BY <1>4, <1>5, <1>6
<1>8. TypeOK'
  BY <1>1, <1>3, <1>5, <1>7 DEF TypeOK, Callers
<1>9. \A q \in Party : caller'[q].at \in {"construct", "constructComposite"}
                        => caller'[q].at = caller[q].at
  BY <1>4, <1>6
<1> QED BY <1>3, <1>8, <1>9, QuietStep

(* Tuples handed out. *)
TuplesGiven == Seq([chunk : Runs, place : Nat])

(* The tuples of chunk c that come after its first index ones. *)
TuplesAfter(c, index, size) == [i \in 1..size |-> [chunk |-> c, place |-> index + i]]

(* What take hands out. *)
LEMMA TakenTuples ==
  ASSUME NEW s \in TuplesGiven, NEW size \in Nat, NEW c \in Runs, NEW index \in Nat,
         NEW t, t = TuplesAfter(c, index, size)
  PROVE  /\ s \o t \in TuplesGiven
         /\ Len(s \o t) = Len(s) + size
         /\ \A i \in 1..Len(s) : (s \o t)[i] = s[i]
         /\ \A i \in 1..size : (s \o t)[Len(s) + i] = [chunk |-> c, place |-> index + i]
<1> PICK S : S = [chunk : Runs, place : Nat]
  OBVIOUS
<1>1. t \in Seq(S) /\ Len(t) = size /\ s \in Seq(S) /\ Len(s) \in Nat
  BY DEF TuplesGiven, TuplesAfter
<1>2. \A i \in 1..size : t[i] = [chunk |-> c, place |-> index + i]
  BY DEF TuplesAfter
<1>3. /\ s \o t \in Seq(S) /\ Len(s \o t) = Len(s) + Len(t)
      /\ \A i \in 1..Len(s) : (s \o t)[i] = s[i]
      /\ \A i \in Len(s) + 1..Len(s) + Len(t) : (s \o t)[i] = t[i - Len(s)]
  BY ONLY <1>1
<1>4. \A i \in 1..size : Len(s) + i - Len(s) = i /\ Len(s) + i \in Len(s) + 1..Len(s) + size
  BY <1>1
<1> HIDE DEF Runs
<1> QED BY <1>1, <1>2, <1>3, <1>4 DEF TuplesGiven

(* Party p takes size tuples of its chunk of kind k. *)
Takes(p, k, size) ==
  /\ size <= caller[p].rest /\ bufferIndex[p][k] + size <= bufferSize
  /\ \A m \in Kinds : bufferIndex'[p][m] =
                        IF m = k THEN bufferIndex[p][m] + size ELSE bufferIndex[p][m]
  /\ bufferIndex' \in [Party -> [Kinds -> 0..bufferSize]]
  /\ caller' = [caller EXCEPT ![p] = [caller[p] EXCEPT !.rest = caller[p].rest - size]]
  /\ handedOut' \in [Party -> [Kinds -> TuplesGiven]]
  /\ \A m \in Kinds : m # k => handedOut'[p][m] = handedOut[p][m]
  /\ Len(handedOut'[p][k]) = Len(handedOut[p][k]) + size
  /\ \A i \in 1..Len(handedOut[p][k]) : handedOut'[p][k][i] = handedOut[p][k][i]
  /\ \A i \in 1..size : handedOut'[p][k][Len(handedOut[p][k]) + i] =
                           [chunk |-> chunk[p][k], place |-> bufferIndex[p][k] + i]
  /\ \A q \in Party : q # p => bufferIndex'[q] = bufferIndex[q]
                                 /\ handedOut'[q] = handedOut[q]

(* What take does. *)
LEMMA TakeStep ==
  ASSUME TypeOK, NEW p \in Party, NEW k \in Kinds, bufferIndex[p][k] < bufferSize,
         take(p, k)
  PROVE  \E size \in Nat : Takes(p, k, size)
<1> PICK size : size = Least(caller[p].rest, bufferSize - bufferIndex[p][k])
  OBVIOUS
<1>1. /\ bufferIndex \in [Party -> [Kinds -> 0..bufferSize]] /\ bufferSize \in Nat
      /\ chunk \in [Party -> [Kinds -> Runs]] /\ chunk[p][k] \in Runs
      /\ handedOut \in [Party -> [Kinds -> TuplesGiven]]
      /\ caller \in [Party -> Callers]
  <2>1. handedOut \in [Party -> [Kinds -> TuplesGiven]]
    BY Zenon DEF TypeOK, TuplesGiven
  <2>2. /\ bufferIndex \in [Party -> [Kinds -> 0..bufferSize]]
        /\ chunk \in [Party -> [Kinds -> Runs]]
        /\ caller \in [Party -> Callers]
    BY DEF TypeOK, Callers
  <2> HIDE DEF Runs
  <2> QED BY <2>1, <2>2, TupleAssumption
<1>2. /\ size \in Nat /\ size <= caller[p].rest /\ bufferIndex[p][k] + size <= bufferSize
      /\ bufferIndex[p][k] \in Nat
  <2>1. bufferIndex[p][k] \in 0..bufferSize /\ caller[p].rest \in Nat
    BY <1>1 DEF Callers
  <2> QED BY <1>1, <2>1 DEF Least
<1> PICK taken : taken = [i \in 1..size |-> [chunk |-> chunk[p][k],
                                             place |-> bufferIndex[p][k] + i]]
  OBVIOUS
<1>3. /\ handedOut' = [handedOut EXCEPT ![p][k] = handedOut[p][k] \o taken]
      /\ bufferIndex' = [bufferIndex EXCEPT ![p][k] = bufferIndex[p][k] + size]
      /\ caller' = [caller EXCEPT ![p] = [caller[p] EXCEPT !.rest = caller[p].rest - size]]
  BY <1>1 DEF take, Callers
<1> PICK before : before = handedOut[p][k]
  OBVIOUS
<1> PICK c : c = chunk[p][k]
  OBVIOUS
<1> PICK index : index = bufferIndex[p][k]
  OBVIOUS
<1>4. /\ before \o taken \in TuplesGiven
      /\ Len(before \o taken) = Len(before) + size
      /\ \A i \in 1..Len(before) : (before \o taken)[i] = before[i]
      /\ \A i \in 1..size : (before \o taken)[Len(before) + i] =
           [chunk |-> c, place |-> index + i]
  <2>1. before \in TuplesGiven /\ c \in Runs /\ index \in Nat
    BY <1>1, <1>2
  <2>2. taken = TuplesAfter(c, index, size) /\ size \in Nat
    BY <1>2 DEF TuplesAfter
  <2> QED BY ONLY <2>1, <2>2, TakenTuples
<1>5. /\ \A m \in Kinds : handedOut'[p][m] = IF m = k THEN before \o taken
                                             ELSE handedOut[p][m]
      /\ \A q \in Party : q # p => handedOut'[q] = handedOut[q]
      /\ handedOut' \in [Party -> [Kinds -> TuplesGiven]]
  BY <1>1, <1>3, <1>4
<1>6. index + size \in 0..bufferSize
  BY <1>1, <1>2
<1>7. /\ \A m \in Kinds : bufferIndex'[p][m] =
           IF m = k THEN bufferIndex[p][m] + size ELSE bufferIndex[p][m]
      /\ \A q \in Party : q # p => bufferIndex'[q] = bufferIndex[q]
      /\ bufferIndex' \in [Party -> [Kinds -> 0..bufferSize]]
  BY <1>1, <1>3, <1>6
<1>8. Takes(p, k, size)
  BY <1>2, <1>3, <1>4, <1>5, <1>7, ZenonT(40) DEF Takes
<1> QED BY <1>2, <1>8

(* An iteration of getData keeps the invariant: it queues a chunk only     *)
(* when the last one of its kind is there.                                 *)
LEMMA GetDataStep == ASSUME IInv, NEW p \in Party, GetData(p) PROVE IInv'
<1>1. TypeOK /\ At(p, "getData") /\ caller[p].kind \in Kinds /\ caller[p].rest \in Nat
  BY DEF IInv, GetData, TypeOK, Callers
<1> PICK k \in Kinds : k = caller[p].kind
  BY <1>1
<1>2. UNCHANGED <<requests, rcots, finished>>
  BY DEF GetData, rcotVars
<1>3. CASE /\ bufferIndex[p][k] >= bufferSize /\ refill(p, k)
           /\ UNCHANGED <<caller, handedOut>>
  <2>1. generateData(p, k) /\ task[p][k] = "done"
    BY <1>3 DEF refill
  <2>2. /\ toGenerate' \in [Party -> Seq(Kinds)]
        /\ task' \in [Party -> [Kinds -> TaskStates]]
        /\ run' \in [Party -> [Kinds -> Runs]]
        /\ toGenerate' = [toGenerate EXCEPT ![p] = Append(toGenerate[p], k)]
        /\ task' = [task EXCEPT ![p] = [task[p] EXCEPT ![k] = "started"]]
        /\ Sound(Append(toGenerate[p], k), [task[p] EXCEPT ![k] = "started"])
    BY <2>1, GenerateDataStep
  <2>3. chunk' \in [Party -> [Kinds -> Runs]]
    BY <1>1, <1>3 DEF refill, TypeOK
  <2>4. bufferIndex' \in [Party -> [Kinds -> 0..bufferSize]]
    BY <1>1, <1>3, TupleAssumption DEF refill, TypeOK
  <2>5. TypeOK'
    BY <1>1, <1>2, <1>3, <2>2, <2>3, <2>4 DEF TypeOK
  <2>6. NotStarted(p)'
    BY <1>1, <1>3 DEF NotStarted, At
  <2> QED BY <1>3, <2>2, <2>5, <2>6, StepOf
<1>4. CASE /\ bufferIndex[p][k] < bufferSize /\ take(p, k)
           /\ UNCHANGED <<chunk, toGenerate, task, run>>
  <2>1. PICK size \in Nat : Takes(p, k, size)
    BY <1>1, <1>4, TakeStep
  <2>2. caller \in [Party -> Callers]
    BY <1>1 DEF TypeOK, Callers
  <2> PICK c : c = [caller[p] EXCEPT !.rest = caller[p].rest - size]
    OBVIOUS
  <2>3. caller[p].rest - size \in Nat
    BY <1>1, <2>1 DEF Takes
  <2>4. /\ c \in Callers /\ c.at = "getData" /\ c.served = caller[p].served
    BY <1>1, <2>2, <2>3 DEF Callers, At
  <2>5. /\ caller' \in [Party -> Callers]
        /\ \A q \in Party : caller'[q].served = caller[q].served
        /\ \A q \in Party : q # p => caller'[q] = caller[q]
        /\ caller'[p].at = "getData"
    BY <2>1, <2>2, <2>4 DEF Takes
  <2>6. /\ bufferIndex' \in [Party -> [Kinds -> 0..bufferSize]]
        /\ handedOut' \in [Party -> [Kinds -> TuplesGiven]]
    BY <2>1 DEF Takes
  <2>7. TypeOK'
    BY <1>1, <1>2, <1>4, <2>5, <2>6 DEF TypeOK, Callers, TuplesGiven
  <2> QED BY <1>4, <2>5, <2>7, QuietStep
<1>5. CASE /\ GoesTo(p, "idle")
           /\ UNCHANGED <<chunk, bufferIndex, handedOut, toGenerate, task, run>>
  <2>1. /\ caller' \in [Party -> Callers]
        /\ \A q \in Party : caller'[q].served = caller[q].served
        /\ \A q \in Party : q # p => caller'[q] = caller[q]
        /\ caller'[p].at = "idle"
    BY <1>1, <1>5, GoesToStep DEF Places
  <2>2. TypeOK'
    BY <1>1, <1>2, <1>5, <2>1 DEF TypeOK, Callers
  <2> QED BY <1>5, <2>1, <2>2, QuietStep
<1> QED BY <1>3, <1>4, <1>5 DEF GetData

(* A destructor that has waited for its task keeps the invariant. *)
LEMMA DestroyStep == ASSUME IInv, NEW p \in Party, Destroy(p) PROVE IInv'
<1>1. TypeOK
  BY DEF IInv
<1>2. UNCHANGED <<requests, chunk, bufferIndex, handedOut, toGenerate, task, run,
                  rcots, finished>>
  BY DEF Destroy, rcotVars
<1>3. PICK place \in {"destroyBoolean", "destroyed"} : GoesTo(p, place)
  BY DEF Destroy
<1>4. /\ caller' \in [Party -> Callers]
      /\ \A q \in Party : caller'[q].served = caller[q].served
      /\ \A q \in Party : q # p => caller'[q] = caller[q]
      /\ caller'[p].at = place
  BY <1>1, <1>3, GoesToStep DEF Places
<1>5. TypeOK'
  BY <1>1, <1>2, <1>4 DEF TypeOK, Callers
<1> QED BY <1>2, <1>4, <1>5, QuietStep

(* A task that looks at the queue, or wakes up, keeps the invariant. *)
LEMMA CheckTurnStep ==
  ASSUME IInv, NEW p \in Party, NEW k \in Kinds,
         CheckTurn(p, k) \/ WakeSpuriously(p, k)
  PROVE  IInv'
<1>1. /\ TypeOK /\ Sound(toGenerate[p], task[p]) /\ NotStarted(p)
      /\ toGenerate \in [Party -> Seq(Kinds)] /\ task \in [Party -> [Kinds -> TaskStates]]
  BY DEF IInv, TypeOK
<1>2. UNCHANGED <<requests, caller, chunk, bufferIndex, handedOut, toGenerate, run,
                  rcots, finished>>
  BY DEF CheckTurn, WakeSpuriously, callerVars, rcotVars
<1>3. PICK state \in {"generating", "asleep", "started"} :
        /\ task' = [task EXCEPT ![p] = [task[p] EXCEPT ![k] = state]]
        /\ Sound(toGenerate[p], [task[p] EXCEPT ![k] = state])
        /\ task[p][k] # "none"
  <2>1. CASE CheckTurn(p, k)
    <3> PICK state : state = IF Head(toGenerate[p]) = k THEN "generating" ELSE "asleep"
      OBVIOUS
    <3>1. /\ task' = [task EXCEPT ![p] = [task[p] EXCEPT ![k] = state]]
          /\ task[p][k] = "started"
      BY <1>1, <2>1 DEF CheckTurn, checkTurn
    <3>2. Sound(toGenerate[p], [task[p] EXCEPT ![k] = state])
      BY <1>1, <3>1, TurnKeeps
    <3> QED BY <3>1, <3>2
  <2>2. CASE WakeSpuriously(p, k)
    <3>1. /\ task' = [task EXCEPT ![p] = [task[p] EXCEPT ![k] = "started"]]
          /\ task[p][k] = "asleep"
      BY <1>1, <2>2 DEF WakeSpuriously
    <3>2. Sound(toGenerate[p], [task[p] EXCEPT ![k] = "started"])
      BY <1>1, <3>1, WakeKeeps
    <3> QED BY <3>1, <3>2
  <2> QED BY <2>1, <2>2
<1>4. task' \in [Party -> [Kinds -> TaskStates]]
  BY <1>1, <1>3 DEF TaskStates
<1>5. TypeOK'
  BY <1>1, <1>2, <1>4 DEF TypeOK
<1>6. NotStarted(p)'
  BY <1>1, <1>2, <1>3 DEF NotStarted, At
<1>7. toGenerate' = [toGenerate EXCEPT ![p] = toGenerate[p]]
  BY <1>1, <1>2
<1> QED BY <1>2, <1>3, <1>5, <1>6, <1>7, StepOf

(* The runs of the RCOTs keep the invariant. *)
LEMMA RcotStep ==
  ASSUME IInv, NEW p \in Party, NEW role \in Roles,
         EndRcot(p, role) \/ \E k \in Kinds : BeginRcot(p, k, role)
  PROVE  IInv'
<1>1. /\ TypeOK /\ rcots \in [Party -> [Roles -> Seq(Kinds)]]
      /\ finished \in [Party -> [Roles -> Nat]] /\ run \in [Party -> [Kinds -> Runs]]
  BY DEF IInv, TypeOK
<1>2. UNCHANGED <<requests, caller, chunk, bufferIndex, handedOut, toGenerate, task>>
  BY DEF EndRcot, BeginRcot, callerVars
<1>3. /\ rcots' \in [Party -> [Roles -> Seq(Kinds)]]
      /\ finished' \in [Party -> [Roles -> Nat]] /\ run' \in [Party -> [Kinds -> Runs]]
  <2>1. CASE EndRcot(p, role)
    BY <1>1, <2>1 DEF EndRcot
  <2>2. ASSUME NEW k \in Kinds, BeginRcot(p, k, role)
        PROVE  /\ rcots' \in [Party -> [Roles -> Seq(Kinds)]]
               /\ finished' = finished /\ run' \in [Party -> [Kinds -> Runs]]
    <3>1. Len(rcots[p][role]) + 1 \in Nat /\ Append(rcots[p][role], k) \in Seq(Kinds)
      BY <1>1
    <3> QED BY <1>1, <2>2, <3>1 DEF BeginRcot, Runs
  <2> QED BY <1>1, <2>1, <2>2
<1>4. TypeOK'
  BY <1>1, <1>2, <1>3 DEF TypeOK
<1> QED BY <1>2, <1>4, QuietStep

(* The end of a task's turn keeps the invariant: its chunk leaves the      *)
(* queue and the task whose turn it is next is woken up.                   *)
LEMMA EndTurnStep ==
  ASSUME IInv, NEW p \in Party, NEW k \in Kinds, EndTurn(p, k)
  PROVE  IInv'
<1>1. /\ TypeOK /\ Sound(toGenerate[p], task[p]) /\ NotStarted(p)
      /\ toGenerate \in [Party -> Seq(Kinds)] /\ task \in [Party -> [Kinds -> TaskStates]]
      /\ task[p][k] = "generating"
  BY DEF IInv, TypeOK, EndTurn
<1>2. UNCHANGED <<requests, caller, chunk, bufferIndex, handedOut, run, rcots, finished>>
  BY DEF EndTurn, callerVars, rcotVars
<1>3. PICK t \in Notified([task[p] EXCEPT ![k] = "done"]) :
        task' = [task EXCEPT ![p] = t]
  BY DEF EndTurn, endTurn
<1>4. toGenerate' = [toGenerate EXCEPT ![p] = Tail(toGenerate[p])]
  BY <1>1 DEF EndTurn, endTurn
<1>5. toGenerate[p] \in Seq(Kinds) /\ task[p] \in [Kinds -> TaskStates]
  BY <1>1
<1>6. /\ Sound(Tail(toGenerate[p]), t) /\ t \in [Kinds -> TaskStates]
      /\ \A m \in Kinds : task[p][m] = "none" => t[m] = "none"
  <2> PICK s : s = toGenerate[p]
    OBVIOUS
  <2> PICK old : old = task[p]
    OBVIOUS
  <2>1. /\ s \in Seq(Kinds) /\ old \in [Kinds -> TaskStates]
        /\ Sound(s, old) /\ old[k] = "generating"
        /\ t \in Notified([old EXCEPT ![k] = "done"])
    BY <1>1, <1>5
  <2>2. /\ Sound(Tail(s), t) /\ t \in [Kinds -> TaskStates]
        /\ \A m \in Kinds : old[m] = "none" => t[m] = "none"
    BY <2>1, PopKeeps
  <2> QED BY <2>2
<1>7. toGenerate[p] # <<>>
  BY <1>1 DEF Sound
<1>8. TypeOK'
  <2>1. toGenerate' \in [Party -> Seq(Kinds)] /\ task' \in [Party -> [Kinds -> TaskStates]]
    BY <1>1, <1>3, <1>4, <1>5, <1>6, <1>7
  <2> QED BY <1>1, <1>2, <2>1 DEF TypeOK
<1>9. NotStarted(p)'
  <2>1. task'[p] = t
    BY <1>1, <1>3
  <2>2. caller'[p] = caller[p] /\ "Composite" \in Kinds
    BY <1>2 DEF Kinds
  <2> QED BY <1>1, <1>6, <2>1, <2>2 DEF NotStarted, At
<1> QED BY <1>2, <1>3, <1>4, <1>6, <1>8, <1>9, StepOf

(* Every step keeps the invariant. *)
LEMMA NextStep == ASSUME IInv, [Next]_vars PROVE IInv'
<1>1. ASSUME NEW p \in Party, Main(p) \/ Begin(p) PROVE IInv'
  BY <1>1, ConstructStep, BeginStep, GetDataStep, DestroyStep DEF Main
<1>2. ASSUME NEW p \in Party, NEW k \in Kinds, Task(p, k) \/ WakeSpuriously(p, k)
      PROVE  IInv'
  BY <1>2, CheckTurnStep, EndTurnStep DEF Task
<1>3. ASSUME NEW p \in Party, NEW role \in Roles,
             EndRcot(p, role) \/ \E k \in Kinds : BeginRcot(p, k, role)
      PROVE  IInv'
  BY <1>3, RcotStep
<1>4. CASE UNCHANGED vars
  <2>1. TypeOK'
    BY <1>4 DEF IInv, TypeOK, vars, callerVars, rcotVars
  <2>2. UNCHANGED <<toGenerate, task, caller>>
    BY <1>4 DEF vars, callerVars
  <2> QED BY <2>1, <2>2, QuietStep
<1> QED BY <1>1, <1>2, <1>3, <1>4 DEF Next

-----------------------------------------------------------------------------
(* The theorems.                                                           *)

(* The invariant holds in every state of TwoPartyTupleGenerator. *)
LEMMA Invariance == Spec => []IInv
<1>1. Init => IInv
  BY InitStep
<1>2. IInv /\ [Next]_vars => IInv'
  BY NextStep
<1> QED BY <1>1, <1>2, PTL DEF Spec

(* The variables of the tuple generator keep their types. *)
THEOREM TypeCorrect == Spec => []TypeOK
<1>1. IInv => TypeOK
  BY DEF IInv
<1> QED BY <1>1, Invariance, PTL

(* toGenerate_ holds the chunks that are not there yet, each once: the     *)
(* predicate of cv_.wait never looks at the front of an empty deque.       *)
THEOREM QueueIsExact == Spec => []QueueExact
<1>1. IInv => QueueExact
  BY WhatSoundMeans
<1> QED BY <1>1, Invariance, PTL

(* generateNormalTuples and generateRcotResults never use senderRcot_ and  *)
(* receiverRcot_ at the same time.                                         *)
THEOREM RcotsExclusive == Spec => []Exclusive
<1>1. IInv => Exclusive
  BY WhatSoundMeans
<1> QED BY <1>1, Invariance, PTL

(* cv_.notify_one is enough: no task sleeps while its chunk is next.       *)
THEOREM WakeupsKept == Spec => []NoLostWakeup
<1>1. IInv => NoLostWakeup
  BY WhatSoundMeans
<1> QED BY <1>1, Invariance, PTL

-----------------------------------------------------------------------------
(* How often an element comes in the beginning of a sequence.              *)

Found(s, k, i) == {j \in 1..i : s[j] = k}
Count(s, k, i) == Cardinality(Found(s, k, i))

(* A count is a number. *)
LEMMA CountType ==
  ASSUME NEW s, NEW k, NEW i \in Nat
  PROVE  IsFiniteSet(Found(s, k, i)) /\ Count(s, k, i) \in Nat
<1>1. IsFiniteSet(1..i) /\ Found(s, k, i) \in SUBSET (1..i)
  BY FS_Interval DEF Found
<1> QED BY <1>1, FS_Subset, FS_CardinalityType DEF Count

(* Nothing comes in the beginning of length 0. *)
LEMMA CountZero == ASSUME NEW s, NEW k PROVE Count(s, k, 0) = 0
<1>1. Found(s, k, 0) = {}
  BY DEF Found
<1> QED BY <1>1, FS_EmptySet DEF Count

(* The next element counts when it is k. *)
LEMMA CountNext ==
  ASSUME NEW s, NEW k, NEW i \in Nat
  PROVE  Count(s, k, i + 1) = IF s[i + 1] = k THEN Count(s, k, i) + 1 ELSE Count(s, k, i)
<1>1. IsFiniteSet(Found(s, k, i)) /\ i + 1 \notin Found(s, k, i)
  <2>1. i + 1 \notin Found(s, k, i)
    BY DEF Found
  <2> QED BY <2>1, CountType
<1>2. Found(s, k, i + 1) = IF s[i + 1] = k THEN Found(s, k, i) \cup {i + 1}
                             ELSE Found(s, k, i)
  BY DEF Found
<1> QED BY <1>1, <1>2, FS_AddElement DEF Count

(* Sequences that begin in the same way have the same counts. *)
LEMMA CountSame ==
  ASSUME NEW s, NEW t, NEW k, NEW i \in Nat, \A j \in 1..i : s[j] = t[j]
  PROVE  Count(s, k, i) = Count(t, k, i)
<1>1. Found(s, k, i) = Found(t, k, i)
  BY DEF Found
<1> QED BY <1>1 DEF Count

(* A later place of k has a higher count. *)
LEMMA CountRises ==
  ASSUME NEW s, NEW k, NEW i \in Nat, NEW j \in Nat, i < j, s[j] = k
  PROVE  Count(s, k, i) < Count(s, k, j)
<1>1. /\ IsFiniteSet(Found(s, k, j)) /\ Count(s, k, i) \in Nat /\ Count(s, k, j) \in Nat
      /\ Found(s, k, i) \in SUBSET Found(s, k, j)
      /\ j \in Found(s, k, j) /\ j \notin Found(s, k, i)
  <2>1. /\ Found(s, k, i) \in SUBSET Found(s, k, j)
        /\ j \in Found(s, k, j) /\ j \notin Found(s, k, i)
    BY DEF Found
  <2> QED BY <2>1, CountType
<1>2. /\ Cardinality(Found(s, k, i)) <= Cardinality(Found(s, k, j))
      /\ Cardinality(Found(s, k, i)) # Cardinality(Found(s, k, j))
  BY <1>1, FS_Subset
<1> QED BY <1>1, <1>2 DEF Count

(* So the count tells the place. *)
LEMMA CountTells ==
  ASSUME NEW s, NEW k, NEW i \in Nat, NEW j \in Nat, s[i] = k, s[j] = k,
         Count(s, k, i) = Count(s, k, j)
  PROVE  i = j
<1>1. Count(s, k, i) \in Nat /\ Count(s, k, j) \in Nat
  BY CountType
<1>2. CASE i < j
  BY <1>1, <1>2, CountRises
<1>3. CASE j < i
  BY <1>1, <1>3, CountRises
<1> QED BY <1>2, <1>3

-----------------------------------------------------------------------------
(* How many tuples of a kind the first n requests r ask for.               *)

Asked(r, k, n) == UNION {{i} \X (1..r[i].size) : i \in {j \in 1..n : r[j].kind = k}}
Demand(r, k, n) == Cardinality(Asked(r, k, n))

(* No request asks for nothing. *)
LEMMA DemandZero == ASSUME NEW r, NEW k PROVE Demand(r, k, 0) = 0 /\ Asked(r, k, 0) = {}
<1>1. Asked(r, k, 0) = {}
  BY DEF Asked
<1> QED BY <1>1, FS_EmptySet DEF Demand

(* What one more request adds to the tuples asked for. *)
LEMMA AskedNext ==
  ASSUME NEW r, NEW k, NEW n \in Nat
  PROVE  /\ Asked(r, k, n + 1) = Asked(r, k, n) \cup
              (IF r[n + 1].kind = k THEN {n + 1} \X (1..r[n + 1].size) ELSE {})
         /\ Asked(r, k, n) \cap ({n + 1} \X (1..r[n + 1].size)) = {}
<1>1. \A x : x \in Asked(r, k, n + 1)
               <=> \E j \in 1..n + 1 : r[j].kind = k /\ x \in {j} \X (1..r[j].size)
  BY DEF Asked
<1>2. \A x : x \in Asked(r, k, n)
               <=> \E j \in 1..n : r[j].kind = k /\ x \in {j} \X (1..r[j].size)
  BY DEF Asked
<1>3. 1..n + 1 = (1..n) \cup {n + 1}
  OBVIOUS
<1>4. \A x : x \in Asked(r, k, n + 1)
               <=> \/ x \in Asked(r, k, n)
                   \/ r[n + 1].kind = k /\ x \in {n + 1} \X (1..r[n + 1].size)
  BY <1>1, <1>2, <1>3, Zenon
<1>5. \A x \in Asked(r, k, n) : x[1] \in 1..n
  BY <1>2
<1>6. \A x \in {n + 1} \X (1..r[n + 1].size) : x[1] = n + 1
  OBVIOUS
<1>7. n + 1 \notin 1..n
  OBVIOUS
<1> QED BY <1>4, <1>5, <1>6, <1>7

(* The tuples that one request asks for. *)
LEMMA AskedOnce ==
  ASSUME NEW i, NEW m \in Nat
  PROVE  IsFiniteSet({i} \X (1..m)) /\ Cardinality({i} \X (1..m)) = m
<1>1. IsFiniteSet({i}) /\ Cardinality({i}) = 1
  BY FS_Singleton
<1>2. IsFiniteSet(1..m) /\ Cardinality(1..m) = m
  <2>1. 1 \in Int /\ m \in Int
    OBVIOUS
  <2> QED BY <2>1, FS_Interval
<1>3. /\ IsFiniteSet({i} \X (1..m))
      /\ Cardinality({i} \X (1..m)) = Cardinality({i}) * Cardinality(1..m)
  BY ONLY <1>1, <1>2, FS_Product
<1> QED BY <1>1, <1>2, <1>3

(* A demand is a number. *)
LEMMA DemandType ==
  ASSUME NEW r, NEW k, NEW N \in Nat, \A i \in 1..N : r[i].size \in Nat
  PROVE  IsFiniteSet(Asked(r, k, N)) /\ Demand(r, k, N) \in Nat
<1> DEFINE S == {n \in Nat : n <= N => IsFiniteSet(Asked(r, k, n))}
<1>1. 0 \in S
  BY DemandZero, FS_EmptySet
<1>2. ASSUME NEW n \in S PROVE n + 1 \in S
  <2> SUFFICES ASSUME n + 1 <= N PROVE IsFiniteSet(Asked(r, k, n + 1))
    OBVIOUS
  <2> PICK more : more = IF r[n + 1].kind = k THEN {n + 1} \X (1..r[n + 1].size) ELSE {}
    OBVIOUS
  <2>1. n \in Nat /\ IsFiniteSet(Asked(r, k, n)) /\ r[n + 1].size \in Nat
    OBVIOUS
  <2>2. IsFiniteSet(more)
    BY <2>1, AskedOnce, FS_EmptySet
  <2>3. Asked(r, k, n + 1) = Asked(r, k, n) \cup more
    BY <2>1, AskedNext
  <2>4. IsFiniteSet(Asked(r, k, n) \cup more)
    BY ONLY <2>1, <2>2, FS_Union
  <2> QED BY <2>3, <2>4
<1>3. S \in SUBSET Nat
  OBVIOUS
<1>4. \A n \in Nat : n \in S
  <2> HIDE DEF S
  <2> QED BY <1>1, <1>2, <1>3, NatInduct
<1>5. IsFiniteSet(Asked(r, k, N))
  BY <1>4
<1> QED BY <1>5, FS_CardinalityType DEF Demand

(* One more request adds its size to the demand for its kind. *)
LEMMA DemandNext ==
  ASSUME NEW r, NEW k, NEW n \in Nat, \A i \in 1..n + 1 : r[i].size \in Nat
  PROVE  Demand(r, k, n + 1) =
           IF r[n + 1].kind = k THEN Demand(r, k, n) + r[n + 1].size ELSE Demand(r, k, n)
<1>1. IsFiniteSet(Asked(r, k, n)) /\ Demand(r, k, n) \in Nat
  <2>1. \A i \in 1..n : r[i].size \in Nat
    OBVIOUS
  <2> QED BY <2>1, DemandType
<1> PICK more : more = {n + 1} \X (1..r[n + 1].size)
  OBVIOUS
<1>2. IsFiniteSet(more) /\ Cardinality(more) = r[n + 1].size /\ r[n + 1].size \in Nat
  <2>1. r[n + 1].size \in Nat
    OBVIOUS
  <2> QED BY <2>1, AskedOnce
<1>3. /\ Asked(r, k, n + 1) = Asked(r, k, n) \cup (IF r[n + 1].kind = k THEN more ELSE {})
      /\ Asked(r, k, n) \cap more = {}
  BY AskedNext
<1>4. CASE r[n + 1].kind = k
  <2> PICK before : before = Asked(r, k, n)
    OBVIOUS
  <2>1. Cardinality(before \cup more)
          = Cardinality(before) + Cardinality(more) - Cardinality(before \cap more)
    BY <1>1, <1>2, FS_Union
  <2>2. Cardinality(before \cap more) = 0
    BY <1>3, FS_EmptySet
  <2>3. Asked(r, k, n + 1) = before \cup more
    BY <1>3, <1>4
  <2>4. Cardinality(before \cup more) = Cardinality(before) + Cardinality(more)
    BY <1>1, <1>2, <2>1, <2>2 DEF Demand
  <2> QED BY <1>2, <1>4, <2>3, <2>4 DEF Demand
<1>5. CASE r[n + 1].kind # k
  BY <1>3, <1>5 DEF Demand
<1> QED BY <1>4, <1>5

(* More requests ask for more. *)
LEMMA DemandRises ==
  ASSUME NEW r, NEW k, NEW m \in Nat, NEW n \in Nat, m <= n,
         \A i \in 1..n : r[i].size \in Nat
  PROVE  Demand(r, k, m) <= Demand(r, k, n)
<1>1. IsFiniteSet(Asked(r, k, n))
  BY DemandType
<1>2. Asked(r, k, m) \in SUBSET Asked(r, k, n)
  BY DEF Asked
<1> QED BY <1>1, <1>2, FS_Subset DEF Demand

(* What the requests there are ask for does not change when one is added. *)
LEMMA DemandSame ==
  ASSUME NEW r, NEW t, NEW k, NEW n \in Nat, \A i \in 1..n : r[i] = t[i]
  PROVE  Demand(r, k, n) = Demand(t, k, n)
<1>1. Asked(r, k, n) = Asked(t, k, n)
  BY DEF Asked
<1> QED BY <1>1 DEF Demand

-----------------------------------------------------------------------------
(* The chunks a party has queued so far.                                   *)

(* The task whose turn it is has made its run of the RCOT. *)
Begun(p, role) == \E k \in Kinds : task[p][k] = "generating" /\ run[p][k][role] # 0

(* How many chunks have left the queue. *)
Left(p) == IF Begun(p, "sender") THEN Len(rcots[p]["sender"]) - 1
           ELSE Len(rcots[p]["sender"])

(* The kinds of all chunks queued so far, in order, and their number. *)
All(p) == Left(p) + Len(toGenerate[p])
Queued(p) == [i \in 1..All(p) |-> IF i <= Left(p) THEN rcots[p]["sender"][i]
                                  ELSE toGenerate[p][i - Left(p)]]

(* Both RCOTs of a party run once for each chunk, in the order of the      *)
(* queue.  (The beginning of a run is recorded in run, until the next      *)
(* chunk of the kind is queued.)                                           *)
RunsInOrder(p) ==
  /\ Left(p) \in Nat
  /\ \A role \in Roles :
       /\ Len(rcots[p][role]) = IF Begun(p, role) THEN Left(p) + 1 ELSE Left(p)
       /\ \A i \in 1..Len(rcots[p][role]) : rcots[p][role][i] = Queued(p)[i]
  /\ \A k \in Kinds :
       /\ task[p][k] = "generating" =>
            \A role \in Roles : run[p][k][role] \in {0, Left(p) + 1}
       /\ task[p][k] \in {"started", "asleep"} => \A role \in Roles : run[p][k][role] = 0

(* A step that queues nothing at p. *)
QueuesNothing(p) ==
  /\ All(p)' = All(p) /\ Queued(p)' = Queued(p) /\ Left(p) <= Left(p)'

(* A step that queues a chunk at p. *)
Queues(p, k) ==
  /\ All(p)' = All(p) + 1 /\ Left(p)' = Left(p)
  /\ \A i \in 1..All(p) : Queued(p)'[i] = Queued(p)[i]
  /\ Queued(p)'[All(p) + 1] = k

(* The chunks a party has queued are all of some kind. *)
LEMMA QueuedType ==
  ASSUME TypeOK, NEW p \in Party, RunsInOrder(p)
  PROVE  /\ Left(p) \in Nat /\ All(p) \in Nat /\ Left(p) <= All(p)
         /\ DOMAIN Queued(p) = 1..All(p)
         /\ \A i \in 1..All(p) : Queued(p)[i] \in Kinds
<1>1. /\ toGenerate[p] \in Seq(Kinds) /\ Left(p) \in Nat
      /\ rcots[p]["sender"] \in Seq(Kinds)
      /\ Left(p) <= Len(rcots[p]["sender"])
  BY DEF TypeOK, RunsInOrder, Roles
<1>2. Len(toGenerate[p]) \in Nat /\ All(p) \in Nat /\ Left(p) <= All(p)
  BY <1>1 DEF All
<1>3. ASSUME NEW i \in 1..All(p) PROVE Queued(p)[i] \in Kinds
  <2>1. CASE i <= Left(p)
    BY <1>1, <2>1 DEF Queued
  <2>2. CASE i > Left(p)
    <3>1. i - Left(p) \in 1..Len(toGenerate[p])
      BY <1>1, <1>2, <2>2 DEF All
    <3> QED BY <1>1, <1>2, <2>2, <3>1 DEF Queued
  <2> QED BY <1>1, <1>2, <2>1, <2>2
<1> QED BY <1>1, <1>2, <1>3 DEF Queued

(* What p has queued does not change when nothing of p does. *)
LEMMA QueueFrame ==
  ASSUME NEW p \in Party, RunsInOrder(p), TypeOK,
         toGenerate'[p] = toGenerate[p], task'[p] = task[p], run'[p] = run[p],
         rcots'[p] = rcots[p]
  PROVE  RunsInOrder(p)' /\ QueuesNothing(p)
<1>1. \A role \in Roles : Begun(p, role)' = Begun(p, role)
  BY DEF Begun
<1>2. Left(p)' = Left(p)
  BY <1>1 DEF Left, Roles
<1>3. All(p)' = All(p) /\ Queued(p)' = Queued(p)
  BY <1>2 DEF All, Queued
<1>4. RunsInOrder(p)'
  BY <1>1, <1>2, <1>3 DEF RunsInOrder
<1> QED BY <1>2, <1>3, <1>4, QueuedType DEF QueuesNothing

(* A task of p that looks at the queue, or wakes up, queues nothing. *)
LEMMA QueueCheckTurn ==
  ASSUME IInv, NEW p \in Party, RunsInOrder(p), NEW k \in Kinds,
         CheckTurn(p, k) \/ WakeSpuriously(p, k)
  PROVE  RunsInOrder(p)' /\ QueuesNothing(p)
<1>1. TypeOK /\ task[p][k] \in {"started", "asleep"}
  BY DEF IInv, CheckTurn, checkTurn, WakeSpuriously
<1>2. UNCHANGED <<toGenerate, run, rcots>>
  BY DEF CheckTurn, WakeSpuriously, rcotVars
<1>3. PICK state \in {"generating", "asleep", "started"} :
        task' = [task EXCEPT ![p][k] = state]
  BY DEF CheckTurn, checkTurn, WakeSpuriously
<1>4. \A m \in Kinds : task'[p][m] = IF m = k THEN state ELSE task[p][m]
  BY <1>1, <1>3 DEF TypeOK
<1>5. \A role \in Roles : run[p][k][role] = 0
  BY <1>1 DEF RunsInOrder
<1>6. \A role \in Roles : Begun(p, role)' = Begun(p, role)
  BY <1>1, <1>2, <1>4, <1>5 DEF Begun
<1>7. Left(p)' = Left(p)
  BY <1>2, <1>6 DEF Left, Roles
<1>8. All(p)' = All(p) /\ Queued(p)' = Queued(p)
  BY <1>2, <1>7 DEF All, Queued
<1>9. RunsInOrder(p)'
  BY <1>1, <1>2, <1>4, <1>5, <1>6, <1>7, <1>8 DEF RunsInOrder
<1> QED BY <1>1, <1>7, <1>8, <1>9, QueuedType DEF QueuesNothing

(* A task of p that is generating is the only one, and its chunk is the    *)
(* next one.                                                               *)
LEMMA TurnOfOne ==
  ASSUME IInv, NEW p \in Party, RunsInOrder(p), NEW k \in Kinds,
         task[p][k] = "generating"
  PROVE  /\ \A m \in Kinds : task[p][m] = "generating" => m = k
         /\ Len(toGenerate[p]) \in Nat \ {0} /\ toGenerate[p][1] = k
         /\ Left(p) + 1 \in 1..All(p) /\ Queued(p)[Left(p) + 1] = k
         /\ \A role \in Roles : Begun(p, role) <=> run[p][k][role] = Left(p) + 1
<1>1. TypeOK /\ Sound(toGenerate[p], task[p]) /\ toGenerate[p] \in Seq(Kinds)
  BY DEF IInv, TypeOK
<1>2. \A m \in Kinds : task[p][m] = "generating" => m = k
  BY <1>1 DEF Sound
<1>3. Len(toGenerate[p]) \in Nat \ {0} /\ toGenerate[p][1] = k
  <2>1. toGenerate[p] # <<>> /\ Head(toGenerate[p]) = k
    BY <1>1 DEF Sound
  <2> QED BY <1>1, <2>1
<1>4. Left(p) \in Nat /\ All(p) = Left(p) + Len(toGenerate[p])
  BY <1>1, QueuedType DEF All
<1>5. Left(p) + 1 \in 1..All(p) /\ Queued(p)[Left(p) + 1] = k
  BY <1>3, <1>4 DEF Queued
<1>6. \A role \in Roles : Begun(p, role) <=> run[p][k][role] = Left(p) + 1
  BY <1>2, <1>4 DEF Begun, RunsInOrder
<1> QED BY <1>2, <1>3, <1>5, <1>6

(* A run of an RCOT of p queues nothing. *)
LEMMA QueueBeginRcot ==
  ASSUME IInv, NEW p \in Party, RunsInOrder(p), NEW k \in Kinds, NEW role \in Roles,
         BeginRcot(p, k, role)
  PROVE  RunsInOrder(p)' /\ QueuesNothing(p)
<1>1. /\ TypeOK /\ rcots[p] \in [Roles -> Seq(Kinds)]
      /\ task[p][k] = "generating" /\ run[p][k][role] = 0
      /\ UNCHANGED <<toGenerate, task>>
  BY DEF IInv, TypeOK, BeginRcot
<1>2. /\ \A m \in Kinds : task[p][m] = "generating" => m = k
      /\ Left(p) + 1 \in 1..All(p) /\ Queued(p)[Left(p) + 1] = k
      /\ \A x \in Roles : Begun(p, x) <=> run[p][k][x] = Left(p) + 1
  BY <1>1, TurnOfOne
<1>3. Left(p) \in Nat /\ ~Begun(p, role) /\ Len(rcots[p][role]) = Left(p)
  BY <1>1, <1>2 DEF RunsInOrder
<1>4. \A m \in Kinds, x \in Roles :
        run'[p][m][x] = IF m = k /\ x = role THEN Left(p) + 1 ELSE run[p][m][x]
  <2>1. run \in [Party -> [Kinds -> [Roles -> Nat]]]
    BY <1>1 DEF TypeOK, Runs
  <2>2. run' = [run EXCEPT ![p][k][role] = Left(p) + 1]
    BY <1>3 DEF BeginRcot
  <2> HIDE DEF Left
  <2> QED BY <2>1, <2>2
<1>5. \A x \in Roles :
        rcots'[p][x] = IF x = role THEN Append(rcots[p][x], k) ELSE rcots[p][x]
  BY <1>1 DEF BeginRcot, TypeOK
<1>6. \A x \in Roles : Begun(p, x)' <=> (x = role \/ Begun(p, x))
  <2> SUFFICES ASSUME NEW x \in Roles
               PROVE  Begun(p, x)' <=> (x = role \/ Begun(p, x))
    OBVIOUS
  <2>1. Begun(p, x)' <=> run'[p][k][x] # 0
    BY <1>1, <1>2 DEF Begun
  <2>2. Begun(p, x) <=> run[p][k][x] # 0
    BY <1>1, <1>2 DEF Begun
  <2> QED BY <1>3, <1>4, <2>1, <2>2
<1>7. Left(p)' = Left(p)
  <2>1. CASE role = "sender"
    <3>1. Len(rcots'[p]["sender"]) = Left(p) + 1 /\ Begun(p, "sender")'
      BY <1>1, <1>3, <1>5, <1>6, <2>1 DEF Roles
    <3> QED BY <1>3, <3>1 DEF Left
  <2>2. CASE role # "sender"
    BY <1>5, <1>6, <2>2 DEF Left, Roles
  <2> QED BY <2>1, <2>2
<1>8. All(p)' = All(p)
  BY <1>1, <1>7 DEF All
<1>9. \A i \in 1..Left(p) : rcots'[p]["sender"][i] = rcots[p]["sender"][i]
  <2>1. Left(p) <= Len(rcots[p]["sender"]) /\ rcots[p]["sender"] \in Seq(Kinds)
    BY <1>1, <1>3 DEF RunsInOrder, Roles
  <2>2. CASE role = "sender"
    <3>1. rcots'[p]["sender"] = Append(rcots[p]["sender"], k)
      BY <1>5, <2>2 DEF Roles
    <3> QED BY <1>3, <2>1, <3>1
  <2>3. CASE role # "sender"
    BY <1>5, <2>3 DEF Roles
  <2> QED BY <2>2, <2>3
<1>10. Queued(p)' = Queued(p)
  <2>1. \A i \in 1..All(p) : i <= Left(p) => i \in 1..Left(p)
    BY <1>3
  <2> QED BY <1>1, <1>7, <1>8, <1>9, <2>1 DEF Queued
<1>11. ASSUME NEW x \in Roles
       PROVE  /\ Len(rcots'[p][x]) = IF Begun(p, x)' THEN Left(p) + 1 ELSE Left(p)
              /\ \A i \in 1..Len(rcots'[p][x]) : rcots'[p][x][i] = Queued(p)[i]
  <2>1. CASE x = role
    <3>1. rcots'[p][x] = Append(rcots[p][x], k) /\ rcots[p][x] \in Seq(Kinds)
      BY <1>1, <1>5, <2>1
    <3>2. Len(rcots[p][x]) = Left(p) /\ Begun(p, x)'
      BY <1>3, <1>6, <2>1
    <3>3. \A i \in 1..Left(p) : rcots[p][x][i] = Queued(p)[i]
      BY <3>2 DEF RunsInOrder
    <3> QED BY <1>2, <1>3, <3>1, <3>2, <3>3
  <2>2. CASE x # role
    BY <1>5, <1>6, <2>2 DEF RunsInOrder
  <2> QED BY <2>1, <2>2
<1>12. RunsInOrder(p)'
  <2>1. ASSUME NEW m \in Kinds
        PROVE  /\ task'[p][m] = "generating" =>
                    \A x \in Roles : run'[p][m][x] \in {0, Left(p)' + 1}
               /\ task'[p][m] \in {"started", "asleep"} => \A x \in Roles : run'[p][m][x] = 0
    BY <1>1, <1>4, <1>7 DEF RunsInOrder
  <2> QED BY <1>3, <1>7, <1>10, <1>11, <2>1 DEF RunsInOrder
<1> QED BY <1>3, <1>7, <1>8, <1>10, <1>12 DEF QueuesNothing

(* When the turn of a task of p ends, its chunk has left the queue, but    *)
(* stays among those p has queued.                                         *)
LEMMA QueueEndTurn ==
  ASSUME IInv, NEW p \in Party, RunsInOrder(p), NEW k \in Kinds, EndTurn(p, k)
  PROVE  /\ RunsInOrder(p)' /\ QueuesNothing(p) /\ Left(p)' = Left(p) + 1
         /\ task'[p][k] = "done" /\ Queued(p)[Left(p) + 1] = k
         /\ \A role \in Roles : run'[p][k][role] = Left(p) + 1
         /\ \A m \in Kinds \ {k} : task'[p][m] = "done" => task[p][m] = "done"
         /\ \A m \in Kinds : task'[p][m] = "none" <=> task[p][m] = "none"
<1>1. /\ TypeOK /\ Sound(toGenerate[p], task[p]) /\ task[p][k] = "generating"
      /\ toGenerate \in [Party -> Seq(Kinds)] /\ task[p] \in [Kinds -> TaskStates]
      /\ UNCHANGED <<run, rcots>>
  BY DEF IInv, TypeOK, EndTurn, rcotVars
<1>2. /\ \A m \in Kinds : task[p][m] = "generating" => m = k
      /\ Len(toGenerate[p]) \in Nat \ {0} /\ toGenerate[p][1] = k
      /\ Left(p) + 1 \in 1..All(p) /\ Queued(p)[Left(p) + 1] = k
      /\ \A role \in Roles : Begun(p, role) <=> run[p][k][role] = Left(p) + 1
  BY <1>1, TurnOfOne
<1>3. PICK t \in Notified([task[p] EXCEPT ![k] = "done"]) :
        task' = [task EXCEPT ![p] = t]
  BY DEF EndTurn, endTurn
<1>4. \A m \in Kinds : t[m] = IF m = k THEN "done"
                              ELSE IF task[p][m] = "asleep" THEN "started" ELSE task[p][m]
  <2> PICK done : done = [task[p] EXCEPT ![k] = "done"]
    OBVIOUS
  <2>1. \A m \in Kinds : done[m] = IF m = k THEN "done" ELSE task[p][m]
    BY <1>1
  <2>2. CASE \E m \in Kinds : done[m] = "asleep"
    <3>1. PICK m \in Kinds : done[m] = "asleep" /\ t = [done EXCEPT ![m] = "started"]
      BY <2>2 DEF Notified
    <3>2. \A n \in Kinds : done[n] = "asleep" => n = m
      BY <2>1, <3>1 DEF Kinds
    <3>3. DOMAIN done = Kinds
      BY <1>1
    <3> QED BY <2>1, <3>1, <3>2, <3>3
  <2>3. CASE ~ \E m \in Kinds : done[m] = "asleep"
    BY <2>1, <2>3 DEF Notified
  <2> QED BY <2>2, <2>3
<1>5. task'[p] = t
  BY <1>1, <1>3 DEF TypeOK
<1>6. \A role \in Roles : run[p][k][role] = Left(p) + 1 /\ Begun(p, role)
  <2>1. \A role \in Roles : run[p][k][role] \in {0, Left(p) + 1}
    BY <1>1 DEF RunsInOrder
  <2>2. \A role \in Roles : run[p][k][role] # 0
    BY DEF EndTurn
  <2> QED BY <1>2, <2>1, <2>2
<1>7. \A role \in Roles : ~Begun(p, role)'
  BY <1>2, <1>4, <1>5 DEF Begun
<1>8. Left(p) \in Nat /\ \A role \in Roles : Len(rcots[p][role]) = Left(p) + 1
  BY <1>6 DEF RunsInOrder
<1>9. Left(p)' = Left(p) + 1
  BY <1>1, <1>7, <1>8 DEF Left, Roles
<1> PICK s : s = toGenerate[p]
  OBVIOUS
<1>10. /\ s \in Seq(Kinds) /\ toGenerate'[p] = Tail(s) /\ Len(s) \in Nat \ {0}
       /\ Len(Tail(s)) = Len(s) - 1 /\ \A i \in 1..Len(s) - 1 : Tail(s)[i] = s[i + 1]
  <2>1. s \in Seq(Kinds) /\ Len(s) \in Nat \ {0} /\ toGenerate'[p] = Tail(s)
    BY <1>1, <1>2 DEF EndTurn, endTurn
  <2> QED BY <2>1
<1>11. All(p) = Left(p) + Len(s) /\ All(p)' = All(p)
  BY <1>8, <1>9, <1>10 DEF All
<1>12. Queued(p)' = Queued(p)
  <2>1. ASSUME NEW i \in 1..All(p) PROVE Queued(p)'[i] = Queued(p)[i]
    <3>1. CASE i <= Left(p) + 1
      <4>1. i \in 1..Len(rcots[p]["sender"]) /\ "sender" \in Roles
        BY <1>8, <3>1 DEF Roles
      <4>2. rcots[p]["sender"][i] = Queued(p)[i]
        BY <4>1 DEF RunsInOrder
      <4>3. Queued(p)'[i] = rcots'[p]["sender"][i]
        BY <1>9, <1>11, <3>1 DEF Queued
      <4> QED BY <1>1, <4>2, <4>3
    <3>2. CASE i > Left(p) + 1
      <4>1. /\ Queued(p)'[i] = Tail(s)[i - (Left(p) + 1)]
            /\ Queued(p)[i] = s[i - Left(p)]
        BY <1>8, <1>9, <1>10, <1>11, <3>2 DEF Queued
      <4>2. i - (Left(p) + 1) \in 1..Len(s) - 1
        BY <1>8, <1>10, <1>11, <3>2
      <4> QED BY <1>8, <1>10, <4>1, <4>2
    <3> QED BY <1>8, <3>1, <3>2
  <2>2. DOMAIN Queued(p)' = 1..All(p) /\ DOMAIN Queued(p) = 1..All(p)
    BY <1>11 DEF Queued
  <2>3. Queued(p) = [i \in 1..All(p) |-> Queued(p)[i]]
    BY DEF Queued
  <2>4. Queued(p)' = [i \in 1..All(p) |-> Queued(p)'[i]]
    BY <1>11 DEF Queued
  <2> QED BY <2>1, <2>3, <2>4
<1>13. RunsInOrder(p)'
  <2>1. Left(p)' \in Nat
    BY <1>8, <1>9
  <2>2. ASSUME NEW role \in Roles
        PROVE  /\ Len(rcots'[p][role]) = Left(p)'
               /\ \A i \in 1..Len(rcots'[p][role]) : rcots'[p][role][i] = Queued(p)'[i]
    BY <1>1, <1>8, <1>9, <1>12 DEF RunsInOrder
  <2>3. ASSUME NEW m \in Kinds, task'[p][m] \in {"generating", "started", "asleep"}
        PROVE  task'[p][m] = "started" /\ \A role \in Roles : run'[p][m][role] = 0
    <3>1. m # k /\ task[p][m] \in {"started", "asleep"} /\ task'[p][m] = "started"
      BY <1>2, <1>4, <1>5, <2>3
    <3> QED BY <1>1, <3>1 DEF RunsInOrder
  <2> QED BY <1>7, <2>1, <2>2, <2>3 DEF RunsInOrder
<1>14. QueuesNothing(p)
  BY <1>8, <1>9, <1>11, <1>12 DEF QueuesNothing
<1>15. \A m \in Kinds : /\ task'[p][m] = "none" <=> task[p][m] = "none"
                        /\ m # k /\ task'[p][m] = "done" => task[p][m] = "done"
  BY <1>1, <1>4, <1>5
<1> QED BY <1>1, <1>2, <1>4, <1>5, <1>6, <1>9, <1>13, <1>14, <1>15

(* generateData queues one chunk. *)
LEMMA QueueGenerate ==
  ASSUME IInv, NEW p \in Party, RunsInOrder(p), NEW k \in Kinds, generateData(p, k),
         task[p][k] \in {"none", "done"}, UNCHANGED rcots
  PROVE  RunsInOrder(p)' /\ Queues(p, k)
<1>1. /\ TypeOK /\ toGenerate[p] \in Seq(Kinds) /\ toGenerate'[p] = Append(toGenerate[p], k)
  BY DEF IInv, TypeOK, generateData
<1>2. \A m \in Kinds : task'[p][m] = IF m = k THEN "started" ELSE task[p][m]
  BY DEF IInv, TypeOK, generateData
<1>3. \A m \in Kinds, x \in Roles : run'[p][m][x] = IF m = k THEN 0 ELSE run[p][m][x]
  BY DEF IInv, TypeOK, generateData, NotMade
<1>4. \A role \in Roles : Begun(p, role)' <=> Begun(p, role)
  BY <1>2, <1>3 DEF Begun
<1>5. Left(p)' = Left(p) /\ Left(p) \in Nat
  BY <1>4 DEF Left, Roles, RunsInOrder
<1>6. /\ Len(toGenerate[p]) \in Nat /\ All(p) = Left(p) + Len(toGenerate[p])
      /\ All(p)' = All(p) + 1
  BY <1>1, <1>5 DEF All
<1>7. ASSUME NEW i \in 1..All(p) PROVE Queued(p)'[i] = Queued(p)[i]
  <2>1. CASE i <= Left(p)
    BY <1>5, <1>6, <2>1 DEF Queued
  <2>2. CASE i > Left(p)
    <3>1. i - Left(p) \in 1..Len(toGenerate[p])
      BY <1>5, <1>6, <2>2
    <3> QED BY <1>1, <1>5, <1>6, <2>2, <3>1 DEF Queued
  <2> QED BY <1>5, <2>1, <2>2
<1>8. Queued(p)'[All(p) + 1] = k
  BY <1>1, <1>5, <1>6 DEF Queued
<1>9. RunsInOrder(p)'
  <2>1. ASSUME NEW role \in Roles
        PROVE  \A i \in 1..Len(rcots[p][role]) : rcots[p][role][i] = Queued(p)'[i]
    <3>1. Len(rcots[p][role]) <= All(p) /\ Len(rcots[p][role]) \in Nat
      <4>1. CASE Begun(p, role)
        <5>1. PICK m \in Kinds : task[p][m] = "generating"
          BY <4>1 DEF Begun
        <5>2. Left(p) + 1 \in 1..All(p)
          BY <5>1, TurnOfOne
        <5> QED BY <1>5, <4>1, <5>2 DEF RunsInOrder
      <4>2. CASE ~Begun(p, role)
        BY <1>5, <1>6, <4>2 DEF RunsInOrder
      <4> QED BY <4>1, <4>2
    <3> QED BY <1>6, <1>7, <3>1, SMTT(30) DEF RunsInOrder
  <2> QED BY <1>2, <1>3, <1>4, <1>5, <2>1 DEF RunsInOrder
<1> QED BY <1>5, <1>6, <1>7, <1>8, <1>9 DEF Queues

-----------------------------------------------------------------------------
(* When a chunk is due.                                                    *)

(* How many tuples of kind k have been handed out when the chunk after the *)
(* first l of s is queued, and is of kind k: all but those of the last     *)
(* chunk of the kind, which the buffer takes next.                         *)
Used(s, k, l) == (Count(s, k, l) - 1) * bufferSize

(* After the first l chunks of s, the n-th request is the first to ask for *)
(* more than they can give, and it asks for kind k.                        *)
Due(r, s, l, k, n) ==
  /\ r[n].kind = k
  /\ Used(s, k, l) < Demand(r, k, n)
  /\ \A m \in Kinds \ {k} : Demand(r, m, n) <= Used(s, m, l)

(* Numbers of tuples are integers. *)
LEMMA UsedType ==
  ASSUME NEW s, NEW k, NEW l \in Nat
  PROVE  Used(s, k, l) \in Int
<1>1. Count(s, k, l) \in Nat /\ bufferSize \in Nat
  BY CountType, TupleAssumption
<1> QED BY <1>1 DEF Used

(* Only one kind is due at a time. *)
LEMMA DueOfOneKind ==
  ASSUME NEW r, NEW s, NEW l \in Nat, NEW N \in Nat, \A i \in 1..N : r[i].size \in Nat,
         NEW k \in Kinds, NEW m \in Kinds, NEW i \in 1..N, NEW j \in 1..N,
         Due(r, s, l, k, i), Due(r, s, l, m, j)
  PROVE  k = m
<1> SUFFICES ASSUME k # m PROVE FALSE
  OBVIOUS
<1>1. Used(s, k, l) \in Int /\ Used(s, m, l) \in Int
  BY UsedType
<1>2. ASSUME NEW x \in Kinds, NEW n \in 1..N PROVE Demand(r, x, n) \in Nat
  <2>1. n \in Nat /\ \A h \in 1..n : r[h].size \in Nat
    OBVIOUS
  <2> QED BY <2>1, DemandType
<1>3. ASSUME NEW x \in Kinds, NEW n \in 1..N, NEW h \in 1..N, n <= h
      PROVE  Demand(r, x, n) <= Demand(r, x, h)
  <2>1. n \in Nat /\ h \in Nat /\ \A y \in 1..h : r[y].size \in Nat
    OBVIOUS
  <2> QED BY <1>3, <2>1, DemandRises
<1>4. /\ Used(s, k, l) < Demand(r, k, i) /\ Demand(r, m, i) <= Used(s, m, l)
      /\ Used(s, m, l) < Demand(r, m, j) /\ Demand(r, k, j) <= Used(s, k, l)
  BY DEF Due
<1>5. CASE i <= j
  <2>1. Demand(r, k, i) <= Demand(r, k, j)
    BY <1>3, <1>5
  <2> QED BY <1>1, <1>2, <1>4, <2>1
<1>6. CASE j <= i
  <2>1. Demand(r, m, j) <= Demand(r, m, i)
    BY <1>3, <1>6
  <2> QED BY <1>1, <1>2, <1>4, <2>1
<1> QED BY <1>5, <1>6

(* What is due depends on the requests so far and the chunks so far.       *)
LEMMA DueKept ==
  ASSUME NEW r, NEW t, NEW s, NEW u, NEW l \in Nat, NEW k \in Kinds, NEW n \in Nat \ {0},
         \A i \in 1..n : r[i] = t[i], \A i \in 1..l : s[i] = u[i],
         Due(r, s, l, k, n)
  PROVE  Due(t, u, l, k, n)
<1>1. \A m \in Kinds : Demand(r, m, n) = Demand(t, m, n)
  BY DemandSame
<1>2. \A m \in Kinds : Used(s, m, l) = Used(u, m, l)
  BY CountSame DEF Used
<1> QED BY <1>1, <1>2 DEF Due

-----------------------------------------------------------------------------
(* The order of the chunks of a party.                                     *)

(* How many buffers have been constructed. *)
Constructed(p) == IF At(p, "construct") THEN 0
                  ELSE IF At(p, "constructComposite") THEN 1 ELSE 2

(* The buffers' constructors queue the first two chunks.  Each chunk after *)
(* those was due for a request the party has begun to serve.               *)
InOrder(p) ==
  /\ Constructed(p) <= All(p)
  /\ Constructed(p) < 2 => All(p) = Constructed(p) /\ caller[p].served = 0
  /\ All(p) >= 1 => Queued(p)[1] = "Boolean"
  /\ All(p) >= 2 => Queued(p)[2] = "Composite"
  /\ \A l \in 2..All(p) - 1 : \E n \in 1..caller[p].served :
       Due(requests, Queued(p), l, Queued(p)[l + 1], n)

(* How many chunks of kind k have been queued, how many tuples of the kind *)
(* have been handed out, and how many the request under way still wants.   *)
Number(p, k) == Count(Queued(p), k, All(p))
Given(p, k) == Len(handedOut[p][k])
Wanted(p, k) == IF At(p, "getData") /\ caller[p].kind = k THEN caller[p].rest ELSE 0

(* The tuples handed out are what the requests asked for, but for what is  *)
(* still wanted; they are all tuples of the chunks the buffer had, but for *)
(* those left in the buffer.                                               *)
Progress(p) ==
  /\ At(p, "getData") => /\ caller[p].served >= 1
                         /\ requests[caller[p].served].kind = caller[p].kind
  /\ \A k \in Kinds :
       /\ Given(p, k) + Wanted(p, k) = Demand(requests, k, caller[p].served)
       /\ task[p][k] = "none" =>
            Given(p, k) = 0 /\ Number(p, k) = 0 /\ bufferIndex[p][k] = bufferSize
       /\ task[p][k] # "none" =>
            /\ Number(p, k) >= 1
            /\ Given(p, k) = bufferIndex[p][k] + (Number(p, k) - 2) * bufferSize

Ordered(p) == RunsInOrder(p) /\ InOrder(p) /\ Progress(p)

OrderInv == IInv /\ \A p \in Party : Ordered(p)

(* What is known of the requests p has begun to serve. *)
LEMMA ServedType ==
  ASSUME TypeOK, NEW p \in Party
  PROVE  /\ caller[p].served \in Nat /\ caller[p].served <= Len(requests)
         /\ Len(requests) \in Nat /\ requests \in Seq(Steps)
         /\ \A i \in 1..Len(requests) : requests[i].size \in Nat
         /\ \A i \in 1..caller[p].served : i \in 1..Len(requests)
<1>1. /\ caller[p].served \in Nat /\ caller[p].served <= Len(requests)
      /\ requests \in Seq(Steps)
  BY DEF TypeOK
<1>2. \A step \in Steps : step.size \in Nat
  BY TupleAssumption DEF Steps
<1> QED BY <1>1, <1>2

(* A step that leaves a party's queue and its main thread alone keeps the  *)
(* order of its chunks; the other's main thread may add a request.         *)
LEMMA OrderFrame ==
  ASSUME TypeOK, TypeOK', NEW p \in Party, RunsInOrder(p), InOrder(p), Progress(p),
         QueuesNothing(p), caller'[p] = caller[p], bufferIndex'[p] = bufferIndex[p],
         handedOut'[p] = handedOut[p],
         \A i \in 1..Len(requests) : requests'[i] = requests[i],
         \A k \in Kinds : task'[p][k] = "none" <=> task[p][k] = "none"
  PROVE  InOrder(p)' /\ Progress(p)'
<1>1. /\ caller[p].served \in Nat
      /\ \A i \in 1..caller[p].served : requests'[i] = requests[i]
  BY ServedType
<1>2. \A k \in Kinds : Demand(requests', k, caller[p].served)
                         = Demand(requests, k, caller[p].served)
  BY <1>1, DemandSame
<1>3. \A k \in Kinds : Number(p, k)' = Number(p, k)
  BY DEF Number, QueuesNothing
<1>4. Constructed(p)' = Constructed(p)
  BY DEF Constructed, At
<1>5. ASSUME NEW l \in 2..All(p) - 1
      PROVE  \E n \in 1..caller[p].served : Due(requests', Queued(p), l, Queued(p)[l + 1], n)
  <2>1. PICK n \in 1..caller[p].served : Due(requests, Queued(p), l, Queued(p)[l + 1], n)
    BY DEF InOrder
  <2>2. Queued(p)[l + 1] \in Kinds /\ l \in Nat
    BY QueuedType
  <2>3. n \in Nat \ {0} /\ \A i \in 1..n : requests[i] = requests'[i]
    BY <1>1
  <2>4. Due(requests', Queued(p), l, Queued(p)[l + 1], n)
    BY <2>1, <2>2, <2>3, DueKept
  <2> QED BY <2>4
<1>6. InOrder(p)'
  BY <1>4, <1>5 DEF InOrder, QueuesNothing
<1>7. At(p, "getData")' => /\ caller[p].served >= 1
                           /\ requests'[caller[p].served].kind = caller[p].kind
  BY <1>1 DEF Progress, At
<1>8. \A k \in Kinds : Given(p, k)' = Given(p, k) /\ Wanted(p, k)' = Wanted(p, k)
  BY DEF Given, Wanted, At
<1>9. ASSUME NEW k \in Kinds
      PROVE  /\ Given(p, k)' + Wanted(p, k)' = Demand(requests', k, caller'[p].served)
             /\ task'[p][k] = "none" => /\ Given(p, k)' = 0 /\ Number(p, k)' = 0
                                        /\ bufferIndex'[p][k] = bufferSize
             /\ task'[p][k] # "none" =>
                  /\ Number(p, k)' >= 1
                  /\ Given(p, k)' = bufferIndex'[p][k] + (Number(p, k)' - 2) * bufferSize
  <2>1. Given(p, k) + Wanted(p, k) = Demand(requests', k, caller'[p].served)
    BY <1>2 DEF Progress
  <2> QED BY <1>3, <1>8, <2>1 DEF Progress
<1>10. Progress(p)'
  BY <1>7, <1>9 DEF Progress
<1> QED BY <1>6, <1>10

(* What the other party's steps leave alone. *)
LEMMA OtherParty ==
  ASSUME IInv, IInv', NEW p \in Party, Ordered(p),
         toGenerate'[p] = toGenerate[p], task'[p] = task[p], run'[p] = run[p],
         rcots'[p] = rcots[p], caller'[p] = caller[p], bufferIndex'[p] = bufferIndex[p],
         handedOut'[p] = handedOut[p],
         \A i \in 1..Len(requests) : requests'[i] = requests[i]
  PROVE  Ordered(p)' /\ QueuesNothing(p)
<1>1. TypeOK /\ TypeOK' /\ RunsInOrder(p) /\ InOrder(p) /\ Progress(p)
  BY DEF IInv, Ordered
<1>2. RunsInOrder(p)' /\ QueuesNothing(p)
  BY <1>1, QueueFrame
<1>3. InOrder(p)' /\ Progress(p)'
  BY <1>1, <1>2, OrderFrame
<1> QED BY <1>2, <1>3 DEF Ordered

(* The steps of the tasks and the RCOTs of p keep the order. *)
LEMMA TaskOrderStep ==
  ASSUME IInv, IInv', NEW p \in Party, Ordered(p),
         \/ \E k \in Kinds : Task(p, k) \/ WakeSpuriously(p, k)
         \/ \E role \in Roles : EndRcot(p, role) \/ \E k \in Kinds : BeginRcot(p, k, role)
  PROVE  Ordered(p)' /\ QueuesNothing(p)
<1>1. TypeOK /\ TypeOK' /\ RunsInOrder(p) /\ InOrder(p) /\ Progress(p)
  BY DEF IInv, Ordered
<1>2. UNCHANGED <<requests, caller, bufferIndex, handedOut>>
  BY DEF Task, CheckTurn, EndTurn, WakeSpuriously, EndRcot, BeginRcot, callerVars
<1>3. /\ RunsInOrder(p)' /\ QueuesNothing(p)
      /\ \A m \in Kinds : task'[p][m] = "none" <=> task[p][m] = "none"
  <2>1. ASSUME NEW k \in Kinds, CheckTurn(p, k) \/ WakeSpuriously(p, k)
        PROVE  /\ RunsInOrder(p)' /\ QueuesNothing(p)
               /\ \A m \in Kinds : task'[p][m] = "none" <=> task[p][m] = "none"
    <3>1. \A m \in Kinds : task'[p][m] = "none" <=> task[p][m] = "none"
      <4>1. PICK state \in {"generating", "asleep", "started"} :
              task' = [task EXCEPT ![p][k] = state] /\ task[p][k] # "none"
        BY <2>1 DEF CheckTurn, checkTurn, WakeSpuriously
      <4> QED BY <1>1, <4>1 DEF TypeOK
    <3> QED BY <1>1, <2>1, <3>1, QueueCheckTurn
  <2>2. ASSUME NEW k \in Kinds, EndTurn(p, k)
        PROVE  /\ RunsInOrder(p)' /\ QueuesNothing(p)
               /\ \A m \in Kinds : task'[p][m] = "none" <=> task[p][m] = "none"
    BY <1>1, <2>2, QueueEndTurn
  <2>3. ASSUME NEW k \in Kinds, NEW role \in Roles, BeginRcot(p, k, role)
        PROVE  /\ RunsInOrder(p)' /\ QueuesNothing(p)
               /\ \A m \in Kinds : task'[p][m] = "none" <=> task[p][m] = "none"
    <3>1. task' = task
      BY <2>3 DEF BeginRcot
    <3> QED BY <1>1, <2>3, <3>1, QueueBeginRcot
  <2>4. ASSUME NEW role \in Roles, EndRcot(p, role)
        PROVE  /\ RunsInOrder(p)' /\ QueuesNothing(p)
               /\ \A m \in Kinds : task'[p][m] = "none" <=> task[p][m] = "none"
    <3>1. UNCHANGED <<toGenerate, task, run, rcots>>
      BY <2>4 DEF EndRcot
    <3> QED BY <1>1, <3>1, QueueFrame
  <2> QED BY <2>1, <2>2, <2>3, <2>4 DEF Task
<1>4. InOrder(p)' /\ Progress(p)'
  BY <1>1, <1>2, <1>3, OrderFrame
<1> QED BY <1>3, <1>4 DEF Ordered

(* The numbers of a party that has queued a chunk of kind k. *)
LEMMA NumberQueues ==
  ASSUME TypeOK, NEW p \in Party, RunsInOrder(p), NEW k \in Kinds, Queues(p, k)
  PROVE  \A m \in Kinds : /\ Number(p, m) \in Nat
                          /\ Number(p, m)' = IF m = k THEN Number(p, m) + 1 ELSE Number(p, m)
<1> TAKE m \in Kinds
<1>1. All(p) \in Nat /\ All(p)' = All(p) + 1 /\ Queued(p)'[All(p) + 1] = k
  BY QueuedType DEF Queues
<1>2. Number(p, m)' = IF k = m THEN Count(Queued(p)', m, All(p)) + 1
                      ELSE Count(Queued(p)', m, All(p))
  BY <1>1, CountNext DEF Number
<1>3. Count(Queued(p)', m, All(p)) = Count(Queued(p), m, All(p))
  BY <1>1, CountSame DEF Queues
<1>4. Number(p, m) \in Nat
  BY <1>1, CountType DEF Number
<1> QED BY <1>2, <1>3, <1>4 DEF Number

(* A request that p begins to serve keeps the order of p's chunks. *)
LEMMA BeginOrderStep ==
  ASSUME IInv, IInv', NEW p \in Party, Ordered(p), Begin(p)
  PROVE  /\ Ordered(p)' /\ QueuesNothing(p)
         /\ \A i \in 1..Len(requests) : requests'[i] = requests[i]
<1>1. TypeOK /\ TypeOK' /\ RunsInOrder(p) /\ InOrder(p) /\ Progress(p) /\ At(p, "idle")
  BY DEF IInv, Ordered, Begin
<1>2. UNCHANGED <<bufferIndex, handedOut, toGenerate, task, run, rcots>>
  BY DEF Begin, rcotVars
<1>3. RunsInOrder(p)' /\ QueuesNothing(p)
  BY <1>1, <1>2, QueueFrame
<1>4. PICK request \in Steps :
       /\ \/ /\ caller[p].served = Len(requests)
             /\ requests' = Append(requests, request)
          \/ /\ caller[p].served < Len(requests)
             /\ request = requests[caller[p].served + 1]
             /\ UNCHANGED requests
       /\ caller' = [caller EXCEPT ![p] =
            IF request.kind = "end" THEN [@ EXCEPT !.at = "destroyComposite"]
            ELSE [at |-> "getData", served |-> @.served + 1,
                  kind |-> request.kind, rest |-> request.size]]
  BY DEF Begin
<1> PICK served : served = caller[p].served
  OBVIOUS
<1>5. /\ served \in Nat /\ served <= Len(requests) /\ Len(requests) \in Nat
      /\ requests \in Seq(Steps)
      /\ \A i \in 1..Len(requests) : requests[i].size \in Nat
  BY <1>1, ServedType
<1>6. /\ \A i \in 1..Len(requests) : requests'[i] = requests[i]
      /\ requests'[served + 1] = request
  BY <1>4, <1>5
<1>7. request.size \in Nat
  BY TupleAssumption DEF Steps
<1>8. caller \in [Party -> Callers]
  BY <1>1 DEF TypeOK, Callers
<1> PICK c : c = caller'[p]
  OBVIOUS
<1>9. \/ /\ request.kind # "end" /\ c.at = "getData" /\ c.served = served + 1
         /\ c.kind = request.kind /\ c.rest = request.size
      \/ c.at = "destroyComposite" /\ c.served = served
  BY <1>4, <1>8 DEF Callers
<1>10. \A k \in Kinds : Number(p, k)' = Number(p, k) /\ Given(p, k)' = Given(p, k)
  BY <1>2, <1>3 DEF Number, Given, QueuesNothing
<1>11. Constructed(p) = 2 /\ Constructed(p)' = 2
  BY <1>1, <1>9 DEF Constructed, At
<1>12. served <= c.served /\ c.served \in Nat
  BY <1>5, <1>9
<1>13. ASSUME NEW l \in 2..All(p) - 1
       PROVE  \E n \in 1..c.served : Due(requests', Queued(p), l, Queued(p)[l + 1], n)
  <2>1. PICK n \in 1..served : Due(requests, Queued(p), l, Queued(p)[l + 1], n)
    BY <1>1 DEF InOrder
  <2>2. Queued(p)[l + 1] \in Kinds /\ l \in Nat
    BY <1>1, QueuedType
  <2>3. n \in Nat \ {0} /\ \A i \in 1..n : requests[i] = requests'[i]
    <3>1. served \in Nat /\ Len(requests) \in Nat /\ served <= Len(requests)
      BY <1>5
    <3> PICK N : N = Len(requests)
      OBVIOUS
    <3>2. n \in Nat \ {0} /\ \A i \in 1..n : i \in 1..N
      BY ONLY <3>1, n \in 1..served, N = Len(requests)
    <3> QED BY <1>6, <3>2
  <2>4. Due(requests', Queued(p), l, Queued(p)[l + 1], n)
    BY <2>1, <2>2, <2>3, DueKept
  <2> QED BY <1>5, <1>12, <2>4
<1>14. InOrder(p)'
  BY <1>1, <1>3, <1>11, <1>13 DEF InOrder, QueuesNothing
<1>15. ASSUME NEW k \in Kinds
       PROVE  Given(p, k) + Wanted(p, k)' = Demand(requests', k, c.served)
  <2>1. Given(p, k) = Demand(requests, k, served)
    <3>1. Given(p, k) + 0 = Demand(requests, k, served)
      BY <1>1 DEF Progress, Wanted, At
    <3>2. Given(p, k) \in Nat
      BY <1>1 DEF TypeOK, Given
    <3> QED BY <3>1, <3>2
  <2>2. Demand(requests', k, served) = Demand(requests, k, served)
    BY <1>5, <1>6, DemandSame
  <2>3. CASE c.at = "destroyComposite" /\ c.served = served
    <3>1. Wanted(p, k)' = 0
      BY <2>3 DEF Wanted, At
    <3>2. Given(p, k) \in Nat
      BY <1>1 DEF TypeOK, Given
    <3> QED BY <2>1, <2>2, <2>3, <3>1, <3>2
  <2>4. CASE /\ c.at = "getData" /\ c.served = served + 1
             /\ c.kind = request.kind /\ c.rest = request.size
    <3>1. \A i \in 1..served + 1 : requests'[i].size \in Nat
      BY <1>5, <1>6, <1>7
    <3>2. Demand(requests', k, served + 1)
            = IF request.kind = k THEN Demand(requests', k, served) + request.size
              ELSE Demand(requests', k, served)
      <4> PICK r : r = requests'
        OBVIOUS
      <4>1. \A i \in 1..served + 1 : r[i].size \in Nat
        BY <3>1
      <4>2. Demand(r, k, served + 1)
              = IF r[served + 1].kind = k THEN Demand(r, k, served) + r[served + 1].size
                ELSE Demand(r, k, served)
        BY <1>5, <4>1, DemandNext, SMTT(30)
      <4> QED BY <1>6, <4>2
    <3>3. Wanted(p, k)' = IF request.kind = k THEN request.size ELSE 0
      BY <2>4 DEF Wanted, At
    <3>4. Given(p, k) \in Nat
      BY <1>1 DEF TypeOK, Given
    <3> QED BY <1>7, <2>1, <2>2, <2>4, <3>2, <3>3, <3>4
  <2> QED BY <1>9, <2>3, <2>4
<1>16. c.at = "getData" => c.served >= 1 /\ requests'[c.served].kind = c.kind
  BY <1>5, <1>6, <1>9
<1>17. Progress(p)'
  <2>1. At(p, "getData")' <=> c.at = "getData"
    BY DEF At
  <2> QED BY <1>1, <1>2, <1>10, <1>15, <1>16, <2>1 DEF Progress
<1> QED BY <1>3, <1>6, <1>14, <1>17 DEF Ordered

(* Constructing a buffer of p queues the chunk that comes first or second. *)
LEMMA ConstructOrderStep ==
  ASSUME IInv, IInv', NEW p \in Party, Ordered(p), Construct(p)
  PROVE  Ordered(p)' /\ UNCHANGED requests
<1>1. /\ TypeOK /\ TypeOK' /\ RunsInOrder(p) /\ InOrder(p) /\ Progress(p) /\ NotStarted(p)
      /\ UNCHANGED <<requests, bufferIndex, handedOut, rcots>>
  BY DEF IInv, Ordered, Construct, rcotVars
<1>2. PICK k \in Kinds :
        /\ generateData(p, k) /\ task[p][k] = "none"
        /\ \/ k = "Boolean" /\ At(p, "construct") /\ GoesTo(p, "constructComposite")
           \/ k = "Composite" /\ At(p, "constructComposite") /\ GoesTo(p, "idle")
  BY <1>1 DEF Construct, NotStarted, Kinds
<1>3. RunsInOrder(p)' /\ Queues(p, k)
  BY <1>1, <1>2, QueueGenerate
<1>4. /\ caller'[p].at = IF k = "Boolean" THEN "constructComposite" ELSE "idle"
      /\ caller'[p].served = caller[p].served
  BY <1>1, <1>2, GoesToStep DEF Places
<1>5. /\ Constructed(p) = (IF k = "Boolean" THEN 0 ELSE 1)
      /\ Constructed(p)' = Constructed(p) + 1
      /\ All(p) = Constructed(p) /\ All(p)' = All(p) + 1 /\ caller[p].served = 0
  BY <1>1, <1>2, <1>3, <1>4 DEF Constructed, At, InOrder, Queues
<1>6. InOrder(p)'
  <2>1. /\ Queued(p)'[All(p) + 1] = k
        /\ \A i \in 1..All(p) : Queued(p)'[i] = Queued(p)[i]
    BY <1>3 DEF Queues
  <2>2. CASE k = "Boolean"
    BY <1>4, <1>5, <2>1, <2>2 DEF InOrder
  <2>3. CASE k # "Boolean"
    <3>1. k = "Composite" /\ All(p) = 1 /\ All(p)' = 2 /\ Constructed(p)' = 2
      BY <1>2, <1>5, <2>3
    <3>2. Queued(p)'[1] = "Boolean" /\ Queued(p)'[2] = "Composite"
      BY <1>1, <2>1, <3>1 DEF InOrder
    <3> QED BY <3>1, <3>2 DEF InOrder
  <2> QED BY <2>2, <2>3
<1>7. \A m \in Kinds : /\ Number(p, m) \in Nat
                       /\ Number(p, m)' = IF m = k THEN Number(p, m) + 1 ELSE Number(p, m)
  BY <1>1, <1>3, NumberQueues
<1>8. \A m \in Kinds : task'[p][m] = IF m = k THEN "started" ELSE task[p][m]
  BY <1>1, <1>2 DEF TypeOK, generateData
<1>9. Given(p, k) = 0 /\ Number(p, k) = 0 /\ bufferIndex[p][k] = bufferSize
  BY <1>1, <1>2 DEF Progress
<1>10. ASSUME NEW m \in Kinds
       PROVE  /\ Given(p, m)' + Wanted(p, m)' = Demand(requests', m, caller'[p].served)
              /\ task'[p][m] = "none" => /\ Given(p, m)' = 0 /\ Number(p, m)' = 0
                                         /\ bufferIndex'[p][m] = bufferSize
              /\ task'[p][m] # "none" =>
                   /\ Number(p, m)' >= 1
                   /\ Given(p, m)' = bufferIndex'[p][m] + (Number(p, m)' - 2) * bufferSize
  <2>1. Given(p, m)' = Given(p, m)
    BY <1>1 DEF Given
  <2>2. Wanted(p, m)' = 0 /\ Wanted(p, m) = 0
    BY <1>2, <1>4 DEF Wanted, At
  <2>3. Given(p, m)' + Wanted(p, m)' = Demand(requests', m, caller'[p].served)
    BY <1>1, <1>4, <2>1, <2>2 DEF Progress
  <2>4. CASE m = k
    <3>1. bufferSize \in Nat
      BY TupleAssumption
    <3>2. Number(p, m)' = 1 /\ bufferIndex'[p][m] = bufferSize /\ Given(p, m)' = 0
      BY <1>1, <1>7, <1>9, <2>1, <2>4
    <3>3. Given(p, m)' = bufferIndex'[p][m] + (Number(p, m)' - 2) * bufferSize
      BY <3>1, <3>2
    <3>4. task'[p][m] # "none"
      BY <1>8, <2>4
    <3> QED BY <2>3, <2>4, <3>2, <3>3, <3>4
  <2>5. CASE m # k
    BY <1>1, <1>4, <1>7, <1>8, <2>1, <2>2, <2>5 DEF Progress
  <2> QED BY <2>4, <2>5
<1>11. Progress(p)'
  <2>1. ~At(p, "getData")'
    BY <1>4 DEF At
  <2> QED BY <1>10, <2>1 DEF Progress
<1> QED BY <1>1, <1>3, <1>6, <1>11 DEF Ordered

(* A place of k among the chunks of p is counted. *)
LEMMA NumberPositive ==
  ASSUME TypeOK, NEW p \in Party, RunsInOrder(p), NEW k, NEW j \in 1..All(p),
         Queued(p)[j] = k
  PROVE  Number(p, k) >= 1
<1>1. All(p) \in Nat
  BY QueuedType
<1>2. /\ Count(Queued(p), k, 0) = 0 /\ Count(Queued(p), k, j) \in Nat
      /\ Number(p, k) \in Nat
  BY <1>1, CountZero, CountType DEF Number
<1>3. Count(Queued(p), k, 0) < Count(Queued(p), k, j)
  BY CountRises
<1>4. Count(Queued(p), k, j) <= Number(p, k)
  <2>1. Found(Queued(p), k, j) \in SUBSET Found(Queued(p), k, All(p))
    BY <1>1 DEF Found
  <2>2. IsFiniteSet(Found(Queued(p), k, All(p)))
    BY <1>1, CountType
  <2> QED BY <2>1, <2>2, FS_Subset DEF Number, Count
<1> QED BY <1>2, <1>3, <1>4

(* While p serves a request both its buffers are constructed. *)
LEMMA BuffersConstructed ==
  ASSUME TypeOK, NEW p \in Party, RunsInOrder(p), InOrder(p), Progress(p),
         At(p, "getData")
  PROVE  \A m \in Kinds : task[p][m] # "none" /\ Number(p, m) >= 1
<1>1. Constructed(p) = 2 /\ All(p) >= 2 /\ All(p) \in Nat
  BY QueuedType DEF Constructed, At, InOrder
<1>2. Queued(p)[1] = "Boolean" /\ Queued(p)[2] = "Composite"
  BY <1>1 DEF InOrder
<1>3. \A m \in Kinds : Number(p, m) >= 1
  BY <1>1, <1>2, NumberPositive DEF Kinds
<1> QED BY <1>3 DEF Progress

(* A buffer of p that gets its next chunk starts the task for the one      *)
(* after it, which is due.                                                 *)
LEMMA RefillOrderStep ==
  ASSUME IInv, IInv', NEW p \in Party, Ordered(p), NEW k \in Kinds, k = caller[p].kind,
         At(p, "getData"), caller[p].rest > 0, bufferIndex[p][k] >= bufferSize,
         refill(p, k), UNCHANGED <<requests, caller, handedOut, rcots>>
  PROVE  Ordered(p)'
<1>1. /\ TypeOK /\ TypeOK' /\ RunsInOrder(p) /\ InOrder(p) /\ Progress(p)
      /\ generateData(p, k) /\ task[p][k] = "done"
  BY DEF IInv, Ordered, refill
<1>2. RunsInOrder(p)' /\ Queues(p, k)
  BY <1>1, QueueGenerate
<1>3. /\ All(p) \in Nat /\ All(p)' = All(p) + 1 /\ Queued(p)'[All(p) + 1] = k
      /\ \A i \in 1..All(p) : Queued(p)'[i] = Queued(p)[i]
  BY <1>1, <1>2, QueuedType DEF Queues
<1>4. Constructed(p) = 2 /\ Constructed(p)' = 2 /\ All(p) >= 2
  BY <1>1 DEF Constructed, At, InOrder
<1>5. \A m \in Kinds : /\ Number(p, m) \in Nat
                       /\ Number(p, m)' = IF m = k THEN Number(p, m) + 1 ELSE Number(p, m)
  BY <1>1, <1>2, NumberQueues
<1>6. /\ \A m \in Kinds : bufferIndex'[p][m] = IF m = k THEN 0 ELSE bufferIndex[p][m]
      /\ \A m \in Kinds : bufferIndex[p][m] \in 0..bufferSize
      /\ bufferIndex[p][k] = bufferSize
      /\ bufferSize \in Nat \ {0}
  BY <1>1, TupleAssumption DEF refill, TypeOK
<1>7. \A m \in Kinds : task'[p][m] = IF m = k THEN "started" ELSE task[p][m]
  BY <1>1 DEF TypeOK, generateData
<1>8. \A m \in Kinds : /\ Given(p, m) \in Nat /\ Given(p, m)' = Given(p, m)
                       /\ Wanted(p, m)' = Wanted(p, m)
  BY <1>1 DEF TypeOK, Given, Wanted, At
<1>9. \A m \in Kinds : task[p][m] # "none" /\ Number(p, m) >= 1
  BY <1>1, BuffersConstructed
<1>10. \A m \in Kinds : Given(p, m) = bufferIndex[p][m] + (Number(p, m) - 2) * bufferSize
  BY <1>1, <1>9 DEF Progress
<1>11. \A m \in Kinds : /\ Given(p, m) <= Used(Queued(p), m, All(p))
                        /\ m = k => Given(p, m) = Used(Queued(p), m, All(p))
  <2> SUFFICES ASSUME NEW m \in Kinds
               PROVE  /\ Given(p, m) <= Used(Queued(p), m, All(p))
                      /\ m = k => Given(p, m) = Used(Queued(p), m, All(p))
    OBVIOUS
  <2>1. Used(Queued(p), m, All(p)) = (Number(p, m) - 2) * bufferSize + bufferSize
    BY <1>5, <1>6 DEF Used, Number
  <2>2. (Number(p, m) - 2) * bufferSize \in Int
    BY <1>5, <1>6
  <2> QED BY <1>6, <1>10, <2>1, <2>2
<1>12. /\ caller[p].served \in Nat /\ caller[p].served >= 1
       /\ requests[caller[p].served].kind = k
  BY <1>1, ServedType DEF Progress
<1>13. Due(requests, Queued(p), All(p), k, caller[p].served)
  <2>1. \A m \in Kinds : Given(p, m) + Wanted(p, m) = Demand(requests, m, caller[p].served)
    BY <1>1 DEF Progress
  <2>2. Wanted(p, k) > 0 /\ Wanted(p, k) \in Nat /\ \A m \in Kinds \ {k} : Wanted(p, m) = 0
    BY <1>1 DEF Wanted, TypeOK
  <2>3. Used(Queued(p), k, All(p)) < Demand(requests, k, caller[p].served)
    BY <1>8, <1>11, <2>1, <2>2
  <2>4. \A m \in Kinds \ {k} :
          Demand(requests, m, caller[p].served) <= Used(Queued(p), m, All(p))
    BY <1>8, <1>11, <2>1, <2>2
  <2> QED BY <1>12, <2>3, <2>4 DEF Due
<1>14. ASSUME NEW l \in 2..All(p)' - 1
       PROVE  \E n \in 1..caller[p].served : Due(requests, Queued(p)', l, Queued(p)'[l + 1], n)
  <2>1. PICK n \in 1..caller[p].served : Due(requests, Queued(p), l, Queued(p)'[l + 1], n)
    <3>1. CASE l = All(p)
      BY <1>3, <1>12, <1>13, <3>1
    <3>2. CASE l # All(p)
      <4>1. l \in 2..All(p) - 1 /\ Queued(p)'[l + 1] = Queued(p)[l + 1]
        BY <1>3, <3>2
      <4> QED BY <1>1, <4>1 DEF InOrder
    <3> QED BY <3>1, <3>2
  <2>2. l \in Nat /\ l + 1 \in 1..All(p)'
    BY <1>3
  <2>3. Queued(p)'[l + 1] \in Kinds
    <3>1. \A i \in 1..All(p) : Queued(p)[i] \in Kinds
      BY <1>1, QueuedType
    <3> QED BY <1>3, <2>2, <3>1
  <2>4. \A i \in 1..l : Queued(p)[i] = Queued(p)'[i]
    BY <1>3
  <2>5. Due(requests, Queued(p)', l, Queued(p)'[l + 1], n)
    <3> PICK s : s = Queued(p)'
      OBVIOUS
    <3>1. n \in Nat \ {0} /\ \A i \in 1..l : Queued(p)[i] = s[i]
      BY <1>12, <2>4
    <3>2. Due(requests, Queued(p), l, s[l + 1], n) /\ s[l + 1] \in Kinds
      BY <2>1, <2>3
    <3>3. Due(requests, s, l, s[l + 1], n)
      BY ONLY <2>2, <3>1, <3>2, DueKept
    <3> QED BY <3>3
  <2> QED BY <2>5
<1>15. InOrder(p)'
  <2>1. Queued(p)'[1] = "Boolean" /\ Queued(p)'[2] = "Composite"
    BY <1>1, <1>3, <1>4 DEF InOrder
  <2> QED BY <1>3, <1>4, <1>14, <2>1 DEF InOrder
<1>16. ASSUME NEW m \in Kinds
       PROVE  Given(p, m)' = bufferIndex'[p][m] + (Number(p, m)' - 2) * bufferSize
  <2>1. CASE m = k
    <3>1. bufferIndex'[p][m] + (Number(p, m)' - 2) * bufferSize
            = bufferIndex[p][m] + (Number(p, m) - 2) * bufferSize
      BY <1>5, <1>6, <2>1
    <3> QED BY <1>8, <1>10, <3>1
  <2>2. CASE m # k
    BY <1>5, <1>6, <1>8, <1>10, <2>2
  <2> QED BY <2>1, <2>2
<1>17. Progress(p)'
  <2>1. \A m \in Kinds : task'[p][m] # "none" /\ Number(p, m)' >= 1
    BY <1>5, <1>7, <1>9
  <2> QED BY <1>1, <1>8, <1>16, <2>1 DEF Progress, At
<1> QED BY <1>2, <1>15, <1>17 DEF Ordered

(* A step of p's main thread that queues nothing and does not begin to     *)
(* serve a request.                                                        *)
LEMMA InOrderFrame ==
  ASSUME TypeOK, NEW p \in Party, InOrder(p), QueuesNothing(p), UNCHANGED requests,
         caller'[p].served = caller[p].served, Constructed(p)' = Constructed(p)
  PROVE  InOrder(p)'
BY DEF InOrder, QueuesNothing

(* Taking tuples, and the end of a request, keep the order. *)
LEMMA TakeOrderStep ==
  ASSUME IInv, IInv', NEW p \in Party, Ordered(p), NEW k \in Kinds, k = caller[p].kind,
         At(p, "getData"), NEW size \in Nat, Takes(p, k, size),
         UNCHANGED <<requests, toGenerate, task, run, rcots>>
  PROVE  Ordered(p)' /\ QueuesNothing(p)
<1>1. TypeOK /\ TypeOK' /\ RunsInOrder(p) /\ InOrder(p) /\ Progress(p)
  BY DEF IInv, Ordered
<1>2. RunsInOrder(p)' /\ QueuesNothing(p)
  BY <1>1, QueueFrame
<1>3. /\ caller'[p].at = "getData" /\ caller'[p].kind = k
      /\ caller'[p].served = caller[p].served
      /\ caller'[p].rest = caller[p].rest - size
      /\ caller[p].rest \in Nat
  <2>1. caller \in [Party -> Callers]
    BY <1>1 DEF TypeOK, Callers
  <2>2. caller'[p] = [caller[p] EXCEPT !.rest = caller[p].rest - size]
    BY <2>1 DEF Takes
  <2> QED BY <2>1, <2>2 DEF Callers, At
<1>4. InOrder(p)'
  <2>1. Constructed(p)' = Constructed(p)
    BY <1>3 DEF Constructed, At
  <2> QED BY <1>1, <1>2, <1>3, <2>1, InOrderFrame
<1>5. ASSUME NEW m \in Kinds
      PROVE  /\ Given(p, m) \in Nat
             /\ Given(p, m)' = IF m = k THEN Given(p, m) + size ELSE Given(p, m)
             /\ Wanted(p, m)' = IF m = k THEN Wanted(p, m) - size ELSE Wanted(p, m)
             /\ Wanted(p, m) = IF m = k THEN caller[p].rest ELSE 0
             /\ Number(p, m)' = Number(p, m)
             /\ bufferIndex'[p][m] = IF m = k THEN bufferIndex[p][m] + size ELSE bufferIndex[p][m]
             /\ bufferIndex[p][m] \in Nat
  <2>1. /\ Given(p, m) \in Nat /\ bufferIndex[p][m] \in Nat
    BY <1>1 DEF TypeOK, Given
  <2>2. Given(p, m)' = IF m = k THEN Given(p, m) + size ELSE Given(p, m)
    BY DEF Takes, Given
  <2>3. /\ Wanted(p, m)' = IF m = k THEN Wanted(p, m) - size ELSE Wanted(p, m)
        /\ Wanted(p, m) = IF m = k THEN caller[p].rest ELSE 0
    BY <1>3 DEF Wanted, At
  <2> QED BY <1>2, <2>1, <2>2, <2>3 DEF Takes, Number, QueuesNothing
<1>6. \A m \in Kinds : task[p][m] # "none"
  BY <1>1, BuffersConstructed
<1>7. ASSUME NEW m \in Kinds
      PROVE  /\ Given(p, m)' + Wanted(p, m)' = Demand(requests, m, caller[p].served)
             /\ Number(p, m)' >= 1
             /\ Given(p, m)' = bufferIndex'[p][m] + (Number(p, m)' - 2) * bufferSize
  <2>1. /\ Given(p, m) + Wanted(p, m) = Demand(requests, m, caller[p].served)
        /\ Number(p, m) >= 1
        /\ Given(p, m) = bufferIndex[p][m] + (Number(p, m) - 2) * bufferSize
    BY <1>1, <1>6 DEF Progress
  <2>2. (Number(p, m) - 2) * bufferSize \in Int
    <3>1. Number(p, m) \in Nat /\ bufferSize \in Nat
      BY <1>1, QueuedType, CountType, TupleAssumption DEF Number
    <3> QED BY <3>1
  <2> QED BY <1>3, <1>5, <2>1, <2>2
<1>8. Progress(p)'
  <2>1. /\ caller[p].served >= 1 /\ requests[caller[p].served].kind = k
    BY <1>1 DEF Progress
  <2> QED BY <1>3, <1>6, <1>7, <2>1 DEF Progress
<1> QED BY <1>2, <1>4, <1>8 DEF Ordered

(* The main thread of p goes from one place to another, with nothing of a  *)
(* request left.                                                           *)
LEMMA GoOrderStep ==
  ASSUME IInv, IInv', NEW p \in Party, Ordered(p), NEW place \in Places, GoesTo(p, place),
         caller[p].at \notin {"construct", "constructComposite"},
         place \notin {"construct", "constructComposite", "getData"},
         At(p, "getData") => caller[p].rest = 0,
         UNCHANGED <<requests, bufferIndex, handedOut, toGenerate, task, run, rcots>>
  PROVE  Ordered(p)' /\ QueuesNothing(p)
<1>1. TypeOK /\ TypeOK' /\ RunsInOrder(p) /\ InOrder(p) /\ Progress(p)
  BY DEF IInv, Ordered
<1>2. RunsInOrder(p)' /\ QueuesNothing(p)
  BY <1>1, QueueFrame
<1>3. caller'[p].at = place /\ caller'[p].served = caller[p].served
  BY <1>1, GoesToStep
<1>4. InOrder(p)'
  <2>1. Constructed(p)' = Constructed(p)
    BY <1>3 DEF Constructed, At
  <2> QED BY <1>1, <1>2, <1>3, <2>1, InOrderFrame
<1>5. \A m \in Kinds : /\ Wanted(p, m) = 0 /\ Wanted(p, m)' = 0
                       /\ Given(p, m)' = Given(p, m) /\ Number(p, m)' = Number(p, m)
  BY <1>2, <1>3 DEF Wanted, At, Given, Number, QueuesNothing
<1>6. Progress(p)'
  <2>1. ~At(p, "getData")'
    BY <1>3 DEF At
  <2> QED BY <1>1, <1>3, <1>5, <2>1 DEF Progress
<1> QED BY <1>2, <1>4, <1>6 DEF Ordered

(* An iteration of getData keeps the order. *)
LEMMA GetDataOrderStep ==
  ASSUME IInv, IInv', NEW p \in Party, Ordered(p), GetData(p)
  PROVE  Ordered(p)' /\ UNCHANGED requests
<1>1. TypeOK /\ At(p, "getData") /\ caller[p].kind \in Kinds
  BY DEF IInv, GetData, TypeOK
<1>2. UNCHANGED <<requests, rcots>>
  BY DEF GetData, rcotVars
<1> PICK k \in Kinds : k = caller[p].kind
  BY <1>1
<1>3. CASE /\ caller[p].rest > 0 /\ bufferIndex[p][k] >= bufferSize
           /\ refill(p, k)
           /\ UNCHANGED <<caller, handedOut>>
  BY <1>1, <1>2, <1>3, RefillOrderStep
<1>4. CASE /\ bufferIndex[p][k] < bufferSize /\ take(p, k)
           /\ UNCHANGED <<chunk, toGenerate, task, run>>
  <2>1. PICK size \in Nat : Takes(p, k, size)
    BY <1>1, <1>4, TakeStep
  <2> QED BY <1>1, <1>2, <1>4, <2>1, TakeOrderStep
<1>5. CASE /\ caller[p].rest = 0 /\ GoesTo(p, "idle")
           /\ UNCHANGED <<chunk, bufferIndex, handedOut, toGenerate, task, run>>
  <2>1. caller[p].at = "getData" /\ "idle" \in Places
    BY <1>1 DEF At, Places
  <2> QED BY <1>2, <1>5, <2>1, GoOrderStep
<1> QED BY <1>2, <1>3, <1>4, <1>5 DEF GetData

(* A destructor keeps the order. *)
LEMMA DestroyOrderStep ==
  ASSUME IInv, IInv', NEW p \in Party, Ordered(p), Destroy(p)
  PROVE  Ordered(p)' /\ UNCHANGED requests
<1>1. UNCHANGED <<requests, bufferIndex, handedOut, toGenerate, task, run, rcots>>
  BY DEF Destroy, rcotVars
<1>2. PICK place \in {"destroyBoolean", "destroyed"} : GoesTo(p, place)
  BY DEF Destroy
<1>3. caller[p].at \in {"destroyComposite", "destroyBoolean"} /\ place \in Places
  BY DEF Destroy, At, Places
<1> QED BY <1>1, <1>2, <1>3, GoOrderStep DEF At

(* What a step of party p leaves of the other party. *)
LEMMA StepLeaves ==
  ASSUME IInv, NEW p \in Party, NEW q \in Party, q # p,
         \/ Main(p) \/ Begin(p)
         \/ \E k \in Kinds : Task(p, k) \/ WakeSpuriously(p, k)
         \/ \E role \in Roles : EndRcot(p, role) \/ \E k \in Kinds : BeginRcot(p, k, role)
  PROVE  /\ toGenerate'[q] = toGenerate[q] /\ task'[q] = task[q] /\ run'[q] = run[q]
         /\ rcots'[q] = rcots[q] /\ caller'[q] = caller[q] /\ chunk'[q] = chunk[q]
         /\ bufferIndex'[q] = bufferIndex[q] /\ handedOut'[q] = handedOut[q]
<1>1. /\ TypeOK /\ toGenerate \in [Party -> Seq(Kinds)]
      /\ task \in [Party -> [Kinds -> TaskStates]]
      /\ run \in [Party -> [Kinds -> Runs]] /\ rcots \in [Party -> [Roles -> Seq(Kinds)]]
      /\ caller \in [Party -> Callers] /\ chunk \in [Party -> [Kinds -> Runs]]
      /\ bufferIndex \in [Party -> [Kinds -> 0..bufferSize]]
      /\ DOMAIN handedOut = Party
  BY DEF IInv, TypeOK, Callers
<1> HIDE DEF Runs, Callers, Kinds, Roles, TaskStates, Party
<1>2. CASE Construct(p)
  BY <1>1, <1>2 DEF Construct, generateData, GoesTo, rcotVars
<1>3. CASE Begin(p)
  BY <1>1, <1>3 DEF Begin, rcotVars
<1>4. CASE GetData(p)
  BY <1>1, <1>4 DEF GetData, refill, generateData, take, GoesTo, rcotVars
<1>5. CASE Destroy(p)
  BY <1>1, <1>5 DEF Destroy, GoesTo, rcotVars
<1>6. ASSUME NEW k \in Kinds, Task(p, k) \/ WakeSpuriously(p, k)
      PROVE  /\ toGenerate'[q] = toGenerate[q] /\ task'[q] = task[q]
             /\ UNCHANGED <<run, rcots, caller, chunk, bufferIndex, handedOut>>
  BY <1>1, <1>6 DEF Task, CheckTurn, checkTurn, EndTurn, endTurn, WakeSpuriously,
                    callerVars, rcotVars
<1>7. ASSUME NEW role \in Roles, EndRcot(p, role) \/ \E k \in Kinds : BeginRcot(p, k, role)
      PROVE  /\ run'[q] = run[q] /\ rcots'[q] = rcots[q]
             /\ UNCHANGED <<toGenerate, task, caller, chunk, bufferIndex, handedOut>>
  BY <1>1, <1>7 DEF EndRcot, BeginRcot, callerVars
<1> QED BY <1>2, <1>3, <1>4, <1>5, <1>6, <1>7 DEF Main

-----------------------------------------------------------------------------
(* The invariant, and what it says of the two parties together.            *)

(* No party has queued a chunk before it is constructed. *)
LEMMA InitOrder == ASSUME Init PROVE OrderInv
<1>1. IInv
  BY InitStep
<1>2. ASSUME NEW p \in Party PROVE Ordered(p)
  <2>1. /\ toGenerate[p] = <<>> /\ \A k \in Kinds : task[p][k] = "none"
        /\ \A role \in Roles : rcots[p][role] = <<>>
        /\ caller[p].at = "construct" /\ caller[p].served = 0
        /\ \A k \in Kinds : bufferIndex[p][k] = bufferSize /\ handedOut[p][k] = <<>>
    BY DEF Init
  <2>2. \A role \in Roles : ~Begun(p, role)
    BY <2>1 DEF Begun
  <2>3. Left(p) = 0 /\ All(p) = 0
    BY <2>1, <2>2 DEF Left, All, Roles
  <2>4. RunsInOrder(p)
    BY <2>1, <2>2, <2>3 DEF RunsInOrder
  <2>5. InOrder(p)
    BY <2>1, <2>3 DEF InOrder, Constructed, At
  <2>6. \A k \in Kinds : Number(p, k) = 0 /\ Demand(requests, k, 0) = 0
    BY <2>3, CountZero, DemandZero DEF Number
  <2>7. Progress(p)
    BY <2>1, <2>6 DEF Progress, Given, Wanted, At
  <2> QED BY <2>4, <2>5, <2>7 DEF Ordered
<1> QED BY <1>1, <1>2 DEF OrderInv

(* Every step keeps the order of both parties' chunks, and every step that *)
(* is not one of generateData queues nothing.                              *)
LEMMA NextOrder == ASSUME OrderInv, [Next]_vars PROVE OrderInv'
<1>1. IInv /\ IInv' /\ TypeOK
  BY NextStep DEF OrderInv, IInv
<1>2. ASSUME NEW p \in Party,
             \/ Main(p) \/ Begin(p)
             \/ \E k \in Kinds : Task(p, k) \/ WakeSpuriously(p, k)
             \/ \E role \in Roles : EndRcot(p, role) \/ \E k \in Kinds : BeginRcot(p, k, role)
      PROVE  \A q \in Party : Ordered(q)'
  <2>1. Ordered(p)' /\ \A i \in 1..Len(requests) : requests'[i] = requests[i]
    <3>1. CASE Construct(p)
      BY <1>1, <3>1, ConstructOrderStep DEF OrderInv
    <3>2. CASE GetData(p)
      BY <1>1, <3>2, GetDataOrderStep DEF OrderInv
    <3>3. CASE Destroy(p)
      BY <1>1, <3>3, DestroyOrderStep DEF OrderInv
    <3>4. CASE Begin(p)
      BY <1>1, <3>4, BeginOrderStep DEF OrderInv
    <3>5. CASE \/ \E k \in Kinds : Task(p, k) \/ WakeSpuriously(p, k)
               \/ \E role \in Roles :
                    EndRcot(p, role) \/ \E k \in Kinds : BeginRcot(p, k, role)
      <4>1. UNCHANGED requests
        BY <3>5 DEF Task, CheckTurn, EndTurn, WakeSpuriously, EndRcot, BeginRcot, callerVars
      <4> QED BY <1>1, <3>5, <4>1, TaskOrderStep DEF OrderInv
    <3> QED BY <1>2, <3>1, <3>2, <3>3, <3>4, <3>5 DEF Main
  <2>2. ASSUME NEW q \in Party, q # p PROVE Ordered(q)'
    <3>1. /\ toGenerate'[q] = toGenerate[q] /\ task'[q] = task[q] /\ run'[q] = run[q]
          /\ rcots'[q] = rcots[q] /\ caller'[q] = caller[q]
          /\ bufferIndex'[q] = bufferIndex[q] /\ handedOut'[q] = handedOut[q]
      BY <1>1, <1>2, <2>2, StepLeaves
    <3> QED BY <1>1, <2>1, <3>1, OtherParty DEF OrderInv
  <2> QED BY <2>1, <2>2
<1>3. CASE UNCHANGED vars
  <2>1. UNCHANGED <<requests, toGenerate, task, run, rcots, caller, bufferIndex, handedOut>>
    BY <1>3 DEF vars, callerVars, rcotVars
  <2>2. ASSUME NEW q \in Party PROVE Ordered(q)'
    BY <1>1, <2>1, OtherParty DEF OrderInv
  <2> QED BY <1>1, <2>2 DEF OrderInv
<1>4. CASE Next
  <2>1. PICK p \in Party :
          \/ Main(p) \/ Begin(p)
          \/ \E k \in Kinds : Task(p, k) \/ WakeSpuriously(p, k)
          \/ \E role \in Roles : EndRcot(p, role) \/ \E k \in Kinds : BeginRcot(p, k, role)
    BY <1>4 DEF Next
  <2> QED BY <1>1, <1>2, <2>1 DEF OrderInv
<1> QED BY <1>3, <1>4

(* As far as both go, the parties have queued the same chunks: what is due *)
(* next is the same for both, wherever their main threads are.             *)
LEMMA SameChunks ==
  ASSUME OrderInv, NEW p \in Party, NEW q \in Party
  PROVE  \A i \in (1..All(p)) \cap (1..All(q)) : Queued(p)[i] = Queued(q)[i]
<1> DEFINE S == {l \in Nat : \A i \in 1..l : i <= All(p) /\ i <= All(q)
                                              => Queued(p)[i] = Queued(q)[i]}
<1>1. /\ TypeOK /\ RunsInOrder(p) /\ RunsInOrder(q) /\ InOrder(p) /\ InOrder(q)
      /\ All(p) \in Nat /\ All(q) \in Nat
  BY QueuedType DEF OrderInv, IInv, Ordered
<1>2. 0 \in S
  OBVIOUS
<1>3. ASSUME NEW l \in S PROVE l + 1 \in S
  <2> SUFFICES ASSUME l + 1 <= All(p), l + 1 <= All(q)
               PROVE  Queued(p)[l + 1] = Queued(q)[l + 1]
    OBVIOUS
  <2>1. l \in Nat /\ \A i \in 1..l : Queued(p)[i] = Queued(q)[i]
    BY <1>1
  <2>2. CASE l \in {0, 1}
    BY <1>1, <2>2 DEF InOrder
  <2>3. CASE l \notin {0, 1}
    <3>1. l \in 2..All(p) - 1 /\ l \in 2..All(q) - 1
      BY <1>1, <2>1, <2>3
    <3>2. PICK i \in 1..caller[p].served : Due(requests, Queued(p), l, Queued(p)[l + 1], i)
      BY <1>1, <3>1 DEF InOrder
    <3>3. PICK j \in 1..caller[q].served : Due(requests, Queued(q), l, Queued(q)[l + 1], j)
      BY <1>1, <3>1 DEF InOrder
    <3>4. Queued(p)[l + 1] \in Kinds /\ Queued(q)[l + 1] \in Kinds
      BY <1>1, <2>1, QueuedType
    <3>5. /\ i \in 1..Len(requests) /\ j \in 1..Len(requests) /\ Len(requests) \in Nat
          /\ \A n \in 1..Len(requests) : requests[n].size \in Nat
      BY <1>1, ServedType
    <3>6. Due(requests, Queued(p), l, Queued(q)[l + 1], j)
      <4> PICK s : s = Queued(p)
        OBVIOUS
      <4> PICK u : u = Queued(q)
        OBVIOUS
      <4>1. \A m \in Kinds : Used(u, m, l) = Used(s, m, l)
        <5>1. \A n \in 1..l : u[n] = s[n]
          BY <2>1
        <5> QED BY <2>1, <5>1, CountSame DEF Used
      <4>2. Due(requests, s, l, u[l + 1], j)
        BY <3>3, <3>4, <4>1 DEF Due
      <4> QED BY <4>2
    <3> QED BY <2>1, <3>2, <3>4, <3>5, <3>6, DueOfOneKind
  <2> QED BY <2>2, <2>3
<1>4. S \in SUBSET Nat
  OBVIOUS
<1>5. \A l \in Nat : l \in S
  <2> HIDE DEF S
  <2> QED BY <1>2, <1>3, <1>4, NatInduct
<1> SUFFICES ASSUME NEW i \in (1..All(p)) \cap (1..All(q))
             PROVE  Queued(p)[i] = Queued(q)[i]
  OBVIOUS
<1>6. i \in Nat /\ i \in 1..i /\ i <= All(p) /\ i <= All(q)
  BY <1>1
<1> QED BY <1>5, <1>6

(* The runs of RCOTs of a party are for chunks it has queued. *)
LEMMA RunsAreQueued ==
  ASSUME OrderInv, NEW p \in Party, NEW role \in Roles, NEW i \in DOMAIN rcots[p][role]
  PROVE  i \in 1..All(p) /\ rcots[p][role][i] = Queued(p)[i]
<1>1. IInv /\ TypeOK /\ RunsInOrder(p) /\ rcots[p][role] \in Seq(Kinds)
  <2>1. IInv /\ TypeOK /\ RunsInOrder(p)
    BY DEF OrderInv, IInv, Ordered
  <2>2. rcots[p][role] \in Seq(Kinds)
    BY <2>1 DEF TypeOK
  <2> QED BY <2>1, <2>2
<1>2. Left(p) \in Nat /\ All(p) \in Nat /\ Left(p) <= All(p)
  BY <1>1, QueuedType
<1>3. Len(rcots[p][role]) <= All(p)
  <2>1. CASE Begun(p, role)
    <3>1. PICK m \in Kinds : task[p][m] = "generating"
      BY <2>1 DEF Begun
    <3>2. Left(p) + 1 \in 1..All(p)
      BY <1>1, <3>1, TurnOfOne
    <3> QED BY <1>1, <1>2, <2>1, <3>2 DEF RunsInOrder
  <2>2. CASE ~Begun(p, role)
    BY <1>1, <1>2, <2>2 DEF RunsInOrder
  <2> QED BY <2>1, <2>2
<1>4. i \in 1..Len(rcots[p][role])
  BY <1>1
<1> QED BY <1>1, <1>2, <1>3, <1>4 DEF RunsInOrder

(* The order of each party's chunks is what its requests make it. *)
LEMMA OrderInvariance == Spec => []OrderInv
<1>1. Init => OrderInv
  BY InitOrder
<1>2. OrderInv /\ [Next]_vars => OrderInv'
  BY NextOrder
<1> QED BY <1>1, <1>2, PTL DEF Spec

(* The two ends of an RCOT always run for chunks of the same kind, though  *)
(* each party orders its runs by its own queue (toGenerate_ and the        *)
(* conditions of cv_.wait).                                                *)
THEOREM RunsCorrespond == Spec => []SameOrder
<1>1. ASSUME OrderInv PROVE SameOrder
  <2> SUFFICES ASSUME NEW p \in Party, NEW role \in Roles,
                      NEW i \in DOMAIN rcots[p][role] \cap DOMAIN rcots[1 - p][Other(role)]
               PROVE  rcots[p][role][i] = rcots[1 - p][Other(role)][i]
    BY DEF SameOrder
  <2>1. 1 - p \in Party /\ Other(role) \in Roles
    BY DEF Party, Roles, Other
  <2>2. i \in 1..All(p) /\ rcots[p][role][i] = Queued(p)[i]
    BY <1>1, RunsAreQueued
  <2>3. i \in 1..All(1 - p) /\ rcots[1 - p][Other(role)][i] = Queued(1 - p)[i]
    BY <1>1, <2>1, RunsAreQueued
  <2> QED BY <1>1, <2>1, <2>2, <2>3, SameChunks
<1> QED BY <1>1, OrderInvariance, PTL

-----------------------------------------------------------------------------
(* The tuples handed out.                                                  *)

(* c is the chunk made in the runs for the n-th chunk of kind k. *)
Made(p, k, c, n) ==
  \E j \in 1..Left(p) : /\ \A role \in Roles : c[role] = j
                        /\ Queued(p)[j] = k /\ Count(Queued(p), k, j) = n

(* The i-th tuple t of kind k that p hands out is from the right chunk, at *)
(* the right place.                                                        *)
FromChunk(p, k, t, i) ==
  /\ t.place \in 1..bufferSize
  /\ \E n \in 1..Number(p, k) :
       Made(p, k, t.chunk, n) /\ i = (n - 1) * bufferSize + t.place

(* The chunk that is there is the last one queued, and the one in the      *)
(* buffer is the one before it.                                            *)
ChunkOf(p, k) ==
  /\ task[p][k] = "done" => Made(p, k, run[p][k], Number(p, k))
  /\ Number(p, k) >= 2 => Made(p, k, chunk[p][k], Number(p, k) - 1)
  /\ \A i \in 1..Given(p, k) : FromChunk(p, k, handedOut[p][k][i], i)

Paired(p) == \A k \in Kinds : ChunkOf(p, k)

PairInv == OrderInv /\ \A p \in Party : Paired(p)

-----------------------------------------------------------------------------
(* The facts about numbers.                                                *)

(* The number of a tuple tells its chunk and its place there. *)
LEMMA PlaceTells ==
  ASSUME NEW B \in Nat \ {0}, NEW m \in Nat, NEW n \in Nat, NEW x \in 1..B, NEW y \in 1..B,
         (m - 1) * B + x = (n - 1) * B + y
  PROVE  m = n /\ x = y
<1>1. (m - 1) * B \in Int /\ (n - 1) * B \in Int
  OBVIOUS
<1>2. CASE m < n
  <2> PICK d \in Nat : n = m + 1 + d
    <3>1. n - m - 1 \in Nat /\ n = m + 1 + (n - m - 1)
      BY <1>2
    <3> QED BY <3>1
  <2>1. (n - 1) * B = (m - 1) * B + B + d * B /\ d * B \in Nat
    OBVIOUS
  <2> QED BY <1>1, <2>1
<1>3. CASE n < m
  <2> PICK d \in Nat : m = n + 1 + d
    <3>1. m - n - 1 \in Nat /\ m = n + 1 + (m - n - 1)
      BY <1>3
    <3> QED BY <3>1
  <2>1. (m - 1) * B = (n - 1) * B + B + d * B /\ d * B \in Nat
    OBVIOUS
  <2> QED BY <1>1, <2>1
<1>4. CASE m = n
  BY <1>1, <1>4
<1> QED BY <1>2, <1>3, <1>4

(* After the last k the count stays. *)
LEMMA CountLast ==
  ASSUME NEW s, NEW k, NEW i \in Nat, NEW j \in Nat, i <= j, \A x \in i + 1..j : s[x] # k
  PROVE  Count(s, k, i) = Count(s, k, j)
<1>1. Found(s, k, i) = Found(s, k, j)
  BY DEF Found
<1> QED BY <1>1 DEF Count

-----------------------------------------------------------------------------
(* What keeps a chunk where it is.                                         *)

(* A step that queues nothing, and a step that queues a chunk at the end,  *)
(* keep the chunks already made.                                           *)
LEMMA MadeKept ==
  ASSUME TypeOK, NEW p \in Party, RunsInOrder(p), NEW k \in Kinds, NEW c, NEW n,
         QueuesNothing(p) \/ \E m \in Kinds : Queues(p, m),
         Left(p)' \in Nat, Made(p, k, c, n)
  PROVE  Made(p, k, c, n)'
<1>1. Left(p) \in Nat /\ All(p) \in Nat /\ Left(p) <= All(p)
  BY QueuedType
<1>2. Left(p) <= Left(p)' /\ \A i \in 1..All(p) : Queued(p)'[i] = Queued(p)[i]
  BY <1>1 DEF QueuesNothing, Queues
<1>3. PICK j \in 1..Left(p) : /\ \A role \in Roles : c[role] = j
                              /\ Queued(p)[j] = k /\ Count(Queued(p), k, j) = n
  BY DEF Made
<1>4. j \in 1..Left(p)' /\ j \in Nat /\ \A i \in 1..j : Queued(p)[i] = Queued(p)'[i]
  BY <1>1, <1>2
<1>5. j \in 1..j
  BY <1>3
<1> PICK s : s = Queued(p)'
  OBVIOUS
<1>6. Count(s, k, j) = Count(Queued(p), k, j)
  BY <1>4, CountSame
<1> QED BY <1>3, <1>4, <1>5, <1>6 DEF Made

(* A tuple handed out stays from the right chunk. *)
LEMMA FromChunkKept ==
  ASSUME TypeOK, NEW p \in Party, RunsInOrder(p), NEW k \in Kinds, NEW t, NEW i,
         QueuesNothing(p) \/ \E m \in Kinds : Queues(p, m),
         Left(p)' \in Nat, FromChunk(p, k, t, i)
  PROVE  FromChunk(p, k, t, i)'
<1>1. PICK n \in 1..Number(p, k) : Made(p, k, t.chunk, n) /\ i = (n - 1) * bufferSize + t.place
  BY DEF FromChunk
<1> PICK c : c = t.chunk
  OBVIOUS
<1>2. Made(p, k, c, n)'
  BY <1>1, MadeKept
<1>3. n \in 1..Number(p, k)'
  <2>1. CASE QueuesNothing(p)
    BY <1>1, <2>1 DEF Number, QueuesNothing
  <2>2. ASSUME NEW m \in Kinds, Queues(p, m) PROVE n \in 1..Number(p, k)'
    <3>1. Number(p, k) \in Nat /\ Number(p, k)' \in {Number(p, k), Number(p, k) + 1}
      BY <2>2, NumberQueues
    <3> QED BY <1>1, <3>1
  <2> QED BY <2>1, <2>2
<1> QED BY <1>1, <1>2, <1>3 DEF FromChunk

(* A step that queues nothing, hands nothing out, and makes no chunk but   *)
(* the one that is due.                                                    *)
LEMMA PairsFrame ==
  ASSUME TypeOK, NEW p \in Party, RunsInOrder(p), RunsInOrder(p)', QueuesNothing(p),
         Paired(p), chunk'[p] = chunk[p], handedOut'[p] = handedOut[p],
         \A k \in Kinds : task'[p][k] = "done"
                            => \/ task[p][k] = "done" /\ run'[p][k] = run[p][k]
                               \/ Made(p, k, run[p][k], Number(p, k))'
  PROVE  Paired(p)'
<1> SUFFICES ASSUME NEW k \in Kinds PROVE ChunkOf(p, k)'
  BY DEF Paired
<1>1. ChunkOf(p, k) /\ Left(p)' \in Nat
  BY DEF Paired, RunsInOrder
<1>2. Number(p, k)' = Number(p, k) /\ Given(p, k)' = Given(p, k)
  BY DEF Number, Given, QueuesNothing
<1>3. ASSUME task'[p][k] = "done" PROVE Made(p, k, run[p][k], Number(p, k))'
  <2> SUFFICES ASSUME task[p][k] = "done", run'[p][k] = run[p][k]
               PROVE  Made(p, k, run[p][k], Number(p, k))'
    BY <1>3
  <2> PICK c : c = run[p][k]
    OBVIOUS
  <2> PICK n : n = Number(p, k)
    OBVIOUS
  <2>1. Made(p, k, c, n) /\ run'[p][k] = c /\ Number(p, k)' = n
    BY <1>1, <1>2 DEF ChunkOf
  <2>2. Made(p, k, c, n)'
    BY <1>1, <2>1, MadeKept
  <2> QED BY <2>1, <2>2
<1>4. ASSUME Number(p, k)' >= 2 PROVE Made(p, k, chunk[p][k], Number(p, k) - 1)'
  <2> PICK c : c = chunk[p][k]
    OBVIOUS
  <2> PICK n : n = Number(p, k) - 1
    OBVIOUS
  <2>1. Made(p, k, c, n) /\ chunk'[p][k] = c /\ Number(p, k)' - 1 = n
    BY <1>1, <1>2, <1>4 DEF ChunkOf
  <2>2. Made(p, k, c, n)'
    BY <1>1, <2>1, MadeKept
  <2> QED BY <2>1, <2>2
<1>5. ASSUME NEW i \in 1..Given(p, k)' PROVE FromChunk(p, k, handedOut[p][k][i], i)'
  <2> PICK t : t = handedOut[p][k][i]
    OBVIOUS
  <2>1. FromChunk(p, k, t, i) /\ handedOut'[p][k][i] = t
    BY <1>1, <1>2, <1>5 DEF ChunkOf
  <2>2. FromChunk(p, k, t, i)'
    BY <1>1, <2>1, FromChunkKept
  <2> QED BY <2>1, <2>2
<1> QED BY <1>3, <1>4, <1>5 DEF ChunkOf

(* A step that queues a chunk, and may put the one that was the last one   *)
(* queued into the buffer.                                                 *)
LEMMA QueuesPairs ==
  ASSUME TypeOK, NEW p \in Party, RunsInOrder(p), Left(p)' \in Nat, Paired(p),
         NEW k \in Kinds, generateData(p, k), Queues(p, k), UNCHANGED handedOut,
         \A m \in Kinds \ {k} : chunk'[p][m] = chunk[p][m],
         \/ Number(p, k) = 0
         \/ chunk'[p][k] = run[p][k] /\ Made(p, k, run[p][k], Number(p, k))
  PROVE  Paired(p)'
<1> SUFFICES ASSUME NEW m \in Kinds PROVE ChunkOf(p, m)'
  BY DEF Paired
<1>1. /\ ChunkOf(p, m) /\ Given(p, m)' = Given(p, m) /\ Number(p, m) \in Nat
      /\ Number(p, m)' = IF m = k THEN Number(p, m) + 1 ELSE Number(p, m)
  BY NumberQueues DEF Paired, Given
<1>2. /\ task'[p][m] = IF m = k THEN "started" ELSE task[p][m]
      /\ run'[p][m] = IF m = k THEN NotMade ELSE run[p][m]
  BY DEF generateData, TypeOK
<1>3. ASSUME task'[p][m] = "done" PROVE Made(p, m, run[p][m], Number(p, m))'
  <2> PICK c : c = run[p][m]
    OBVIOUS
  <2> PICK n : n = Number(p, m)
    OBVIOUS
  <2>1. Made(p, m, c, n) /\ run'[p][m] = c /\ Number(p, m)' = n
    BY <1>1, <1>2, <1>3 DEF ChunkOf
  <2>2. Made(p, m, c, n)'
    BY <2>1, MadeKept
  <2> QED BY <2>1, <2>2
<1>4. ASSUME Number(p, m)' >= 2 PROVE Made(p, m, chunk[p][m], Number(p, m) - 1)'
  <2> PICK c : c = chunk'[p][m]
    OBVIOUS
  <2> PICK n : n = Number(p, m)' - 1
    OBVIOUS
  <2>1. Made(p, m, c, n)
    BY <1>1, <1>4 DEF ChunkOf
  <2>2. Made(p, m, c, n)'
    BY <2>1, MadeKept
  <2> QED BY <2>2
<1>5. ASSUME NEW i \in 1..Given(p, m)' PROVE FromChunk(p, m, handedOut[p][m][i], i)'
  <2> PICK t : t = handedOut[p][m][i]
    OBVIOUS
  <2>1. FromChunk(p, m, t, i) /\ handedOut'[p][m][i] = t
    BY <1>1, <1>5 DEF ChunkOf
  <2>2. FromChunk(p, m, t, i)'
    BY <2>1, FromChunkKept
  <2> QED BY <2>1, <2>2
<1> QED BY <1>3, <1>4, <1>5 DEF ChunkOf

-----------------------------------------------------------------------------
(* What the steps of a party do to its chunks.                             *)

(* The tasks and the RCOTs of p: when a turn ends, the chunk that is there *)
(* is the last one queued of its kind, for the queue holds a kind once.    *)
LEMMA TaskPairs ==
  ASSUME IInv, IInv', NEW p \in Party, Ordered(p), Ordered(p)', QueuesNothing(p), Paired(p),
         \/ \E k \in Kinds : Task(p, k) \/ WakeSpuriously(p, k)
         \/ \E role \in Roles : EndRcot(p, role) \/ \E k \in Kinds : BeginRcot(p, k, role)
  PROVE  Paired(p)'
<1>1. TypeOK /\ RunsInOrder(p) /\ RunsInOrder(p)'
  BY DEF IInv, Ordered
<1>2. UNCHANGED <<chunk, handedOut>>
  BY DEF Task, CheckTurn, EndTurn, WakeSpuriously, EndRcot, BeginRcot, callerVars
<1>3. ASSUME NEW k \in Kinds, EndTurn(p, k) PROVE Paired(p)'
  <2>1. /\ Left(p)' = Left(p) + 1 /\ Queued(p)[Left(p) + 1] = k
        /\ task'[p][k] = "done" /\ \A role \in Roles : run'[p][k][role] = Left(p) + 1
        /\ \A m \in Kinds \ {k} : task'[p][m] = "done" => task[p][m] = "done"
    BY <1>1, <1>3, QueueEndTurn
  <2>2. UNCHANGED run
    BY <1>3 DEF EndTurn
  <2>3. Left(p) \in Nat /\ All(p) \in Nat /\ Left(p) + 1 \in 1..All(p)
    <3>1. task[p][k] = "generating"
      BY <1>3 DEF EndTurn
    <3> QED BY <1>1, <3>1, QueuedType, TurnOfOne
  <2>4. \A x \in Left(p) + 2..All(p) : Queued(p)[x] # k
    <3> PICK s : s = toGenerate[p]
      OBVIOUS
    <3>1. /\ Len(s) \in Nat \ {0} /\ s[1] = k /\ DOMAIN s = 1..Len(s)
          /\ \A i, j \in DOMAIN s : s[i] = s[j] => i = j
      <4>1. task[p][k] = "generating"
        BY <1>3 DEF EndTurn
      <4>2. Len(s) \in Nat \ {0} /\ s[1] = k
        BY <1>1, <4>1, TurnOfOne
      <4>3. Sound(s, task[p]) /\ s \in Seq(Kinds)
        BY DEF IInv, TypeOK
      <4> QED BY <4>2, <4>3 DEF Sound
    <3> SUFFICES ASSUME NEW x \in Left(p) + 2..All(p) PROVE Queued(p)[x] # k
      OBVIOUS
    <3>2. All(p) = Left(p) + Len(s)
      BY DEF All
    <3>3. x - Left(p) \in 2..Len(s) /\ Queued(p)[x] = s[x - Left(p)]
      BY <2>3, <3>2 DEF Queued
    <3>4. x - Left(p) \in DOMAIN s /\ 1 \in DOMAIN s /\ x - Left(p) # 1
      BY <3>1, <3>3
    <3> QED BY <3>1, <3>3, <3>4
  <2>5. Count(Queued(p), k, Left(p) + 1) = Number(p, k)
    <3> PICK l : l = Left(p) + 1
      OBVIOUS
    <3>1. l \in Nat /\ l <= All(p) /\ \A x \in l + 1..All(p) : Queued(p)[x] # k
      BY <2>3, <2>4
    <3>2. Count(Queued(p), k, l) = Count(Queued(p), k, All(p))
      BY <2>3, <3>1, CountLast
    <3> QED BY <3>2 DEF Number
  <2>6. Queued(p)' = Queued(p) /\ All(p)' = All(p)
    BY DEF QueuesNothing
  <2>7. Made(p, k, run[p][k], Number(p, k))'
    <3>1. Left(p) + 1 \in 1..Left(p)'
      BY <2>1, <2>3
    <3>2. /\ Count(Queued(p)', k, Left(p) + 1) = Number(p, k)'
          /\ Queued(p)'[Left(p) + 1] = k
      BY <2>1, <2>5, <2>6 DEF Number
    <3> QED BY <2>1, <3>1, <3>2 DEF Made
  <2> QED BY <1>1, <1>2, <2>1, <2>2, <2>7, PairsFrame
<1>4. CASE ~\E k \in Kinds : EndTurn(p, k)
  <2>1. ASSUME NEW k \in Kinds, task'[p][k] = "done"
        PROVE  task[p][k] = "done" /\ run'[p][k] = run[p][k]
    <3>1. ASSUME NEW m \in Kinds, CheckTurn(p, m) \/ WakeSpuriously(p, m)
          PROVE  task[p][k] = "done" /\ run'[p][k] = run[p][k]
      <4>1. PICK state \in {"generating", "asleep", "started"} :
              task' = [task EXCEPT ![p][m] = state]
        BY <3>1 DEF CheckTurn, checkTurn, WakeSpuriously
      <4>2. UNCHANGED run
        BY <3>1 DEF CheckTurn, WakeSpuriously
      <4> QED BY <1>1, <2>1, <4>1, <4>2 DEF TypeOK
    <3>2. ASSUME NEW role \in Roles, EndRcot(p, role)
          PROVE  task[p][k] = "done" /\ run'[p][k] = run[p][k]
      BY <2>1, <3>2 DEF EndRcot
    <3>3. ASSUME NEW role \in Roles, NEW m \in Kinds, BeginRcot(p, m, role)
          PROVE  task[p][k] = "done" /\ run'[p][k] = run[p][k]
      <4>1. /\ task' = task /\ task[p][m] = "generating"
            /\ run' = [run EXCEPT ![p][m][role] = Len(rcots[p][role]) + 1]
        BY <3>3 DEF BeginRcot
      <4>2. k # m
        BY <2>1, <4>1
      <4>3. run \in [Party -> [Kinds -> Runs]]
        BY <1>1 DEF TypeOK
      <4> HIDE DEF Runs
      <4> QED BY <2>1, <4>1, <4>2, <4>3
    <3> QED BY <1>4, <3>1, <3>2, <3>3 DEF Task
  <2> QED BY <1>1, <1>2, <2>1, PairsFrame
<1> QED BY <1>3, <1>4

(* Constructing a buffer of p. *)
LEMMA ConstructPairs ==
  ASSUME IInv, NEW p \in Party, Ordered(p), Ordered(p)', Paired(p), Construct(p)
  PROVE  Paired(p)'
<1>1. /\ TypeOK /\ NotStarted(p) /\ RunsInOrder(p) /\ RunsInOrder(p)' /\ Progress(p)
      /\ Left(p)' \in Nat
  BY DEF IInv, Ordered, RunsInOrder
<1>2. UNCHANGED <<chunk, handedOut, rcots>>
  BY DEF Construct, rcotVars
<1>3. PICK k \in Kinds : generateData(p, k) /\ task[p][k] = "none"
  BY <1>1 DEF Construct, NotStarted, Kinds
<1>4. Queues(p, k)
  BY <1>1, <1>2, <1>3, QueueGenerate
<1>5. Number(p, k) = 0
  BY <1>3, <1>1 DEF Progress
<1> QED BY <1>1, <1>2, <1>3, <1>4, <1>5, QueuesPairs

(* A buffer of p gets the chunk that is there, and the next is queued. *)
LEMMA RefillPairs ==
  ASSUME IInv, NEW p \in Party, Ordered(p), Ordered(p)', Paired(p), NEW k \in Kinds,
         refill(p, k), UNCHANGED <<handedOut, rcots>>
  PROVE  Paired(p)'
<1>1. /\ TypeOK /\ RunsInOrder(p) /\ RunsInOrder(p)' /\ Left(p)' \in Nat
      /\ generateData(p, k) /\ task[p][k] = "done"
  BY DEF IInv, Ordered, RunsInOrder, refill
<1>2. Queues(p, k)
  BY <1>1, QueueGenerate
<1>3. /\ \A m \in Kinds : chunk'[p][m] = IF m = k THEN run[p][k] ELSE chunk[p][m]
  BY <1>1 DEF refill, TypeOK
<1>4. Made(p, k, run[p][k], Number(p, k))
  BY <1>1 DEF Paired, ChunkOf
<1> QED BY <1>1, <1>2, <1>3, <1>4, QueuesPairs

(* Tuples that p takes are from the chunk in its buffer, from the first    *)
(* place not taken yet.                                                    *)
LEMMA TakePairs ==
  ASSUME IInv, NEW p \in Party, Ordered(p), Ordered(p)', QueuesNothing(p), Paired(p),
         NEW k \in Kinds, At(p, "getData"), NEW size \in Nat, Takes(p, k, size),
         UNCHANGED <<chunk, toGenerate, task, run, rcots>>
  PROVE  Paired(p)'
<1> SUFFICES ASSUME NEW m \in Kinds PROVE ChunkOf(p, m)'
  BY DEF Paired
<1>1. /\ TypeOK /\ RunsInOrder(p) /\ Left(p)' \in Nat /\ ChunkOf(p, m)
      /\ All(p) \in Nat
  BY QueuedType DEF IInv, Ordered, RunsInOrder, Paired
<1>2. Number(p, m)' = Number(p, m) /\ Number(p, m) \in Nat
  BY <1>1, CountType DEF Number, QueuesNothing
<1>3. ASSUME task'[p][m] = "done" PROVE Made(p, m, run[p][m], Number(p, m))'
  <2> PICK c : c = run[p][m]
    OBVIOUS
  <2> PICK n : n = Number(p, m)
    OBVIOUS
  <2>1. Made(p, m, c, n) /\ run'[p][m] = c /\ Number(p, m)' = n
    BY <1>1, <1>2, <1>3 DEF ChunkOf
  <2>2. Made(p, m, c, n)'
    BY <1>1, <2>1, MadeKept
  <2> QED BY <2>1, <2>2
<1>4. ASSUME Number(p, m)' >= 2 PROVE Made(p, m, chunk[p][m], Number(p, m) - 1)'
  <2> PICK c : c = chunk[p][m]
    OBVIOUS
  <2> PICK n : n = Number(p, m) - 1
    OBVIOUS
  <2>1. Made(p, m, c, n) /\ chunk'[p][m] = c /\ Number(p, m)' - 1 = n
    BY <1>1, <1>2, <1>4 DEF ChunkOf
  <2>2. Made(p, m, c, n)'
    BY <1>1, <2>1, MadeKept
  <2> QED BY <2>1, <2>2
<1>5. /\ Given(p, m) \in Nat
      /\ Given(p, m)' = IF m = k THEN Given(p, m) + size ELSE Given(p, m)
      /\ \A i \in 1..Given(p, m) : handedOut'[p][m][i] = handedOut[p][m][i]
  <2>1. Given(p, m) \in Nat
    BY <1>1 DEF TypeOK, Given
  <2>2. CASE m = k
    BY <2>1, <2>2 DEF Given, Takes
  <2>3. CASE m # k
    BY <2>1, <2>3 DEF Given, Takes
  <2> QED BY <2>1, <2>2, <2>3
<1> PICK g : g = Given(p, m)
  OBVIOUS
<1>6. ASSUME NEW i \in 1..Given(p, m) PROVE FromChunk(p, m, handedOut[p][m][i], i)'
  <2> PICK t : t = handedOut[p][m][i]
    OBVIOUS
  <2>1. FromChunk(p, m, t, i) /\ handedOut'[p][m][i] = t
    BY <1>1, <1>5 DEF ChunkOf
  <2>2. FromChunk(p, m, t, i)'
    BY <1>1, <2>1, FromChunkKept
  <2> QED BY <2>1, <2>2
<1>7. ASSUME m = k, NEW x \in 1..size
      PROVE  FromChunk(p, m, handedOut[p][m][g + x], g + x)'
  <2> PICK index : index = bufferIndex[p][k]
    OBVIOUS
  <2> PICK n : n = Number(p, k) - 1
    OBVIOUS
  <2> PICK c : c = chunk[p][k]
    OBVIOUS
  <2>1. /\ index \in Nat /\ index + size <= bufferSize /\ bufferSize \in Nat \ {0}
        /\ g \in Nat
    BY <1>1, <1>5, <1>7, TupleAssumption DEF TypeOK, Takes
  <2>2. /\ Number(p, k) >= 1 /\ g = index + (n - 1) * bufferSize
    <3>1. Progress(p) /\ \A y \in Kinds : task[p][y] # "none"
      BY <1>1, BuffersConstructed DEF Ordered
    <3> QED BY <1>2, <1>7, <3>1 DEF Progress
  <2>3. n \in Nat /\ n >= 1 /\ n \in 1..Number(p, k)
    <3>1. n # 0
      BY <2>1, <2>2
    <3> QED BY <1>2, <1>7, <2>2, <3>1
  <2>4. Made(p, k, c, n)
    BY <1>1, <1>2, <1>7, <2>3 DEF ChunkOf
  <2>5. Made(p, k, c, n)'
    BY <1>1, <2>4, MadeKept
  <2>6. handedOut'[p][k][g + x] = [chunk |-> c, place |-> index + x]
    BY <1>7 DEF Takes, Given
  <2>7. index + x \in 1..bufferSize /\ g + x = (n - 1) * bufferSize + (index + x)
    <3>1. (n - 1) * bufferSize \in Int
      BY <2>1, <2>3
    <3> QED BY <2>1, <2>2, <3>1
  <2>8. FromChunk(p, k, [chunk |-> c, place |-> index + x], g + x)'
    BY <1>2, <1>7, <2>3, <2>5, <2>7 DEF FromChunk
  <2> QED BY <1>7, <2>6, <2>8
<1>8. ASSUME NEW i \in 1..Given(p, m)' PROVE FromChunk(p, m, handedOut[p][m][i], i)'
  <2>1. CASE i <= Given(p, m)
    BY <1>5, <1>6, <2>1
  <2>2. CASE i > Given(p, m)
    <3>1. m = k
      BY <1>5, <2>2
    <3> PICK x \in 1..size : i = g + x
      <4>1. i - g \in 1..size /\ i = g + (i - g)
        BY <1>5, <2>2, <3>1
      <4> QED BY <4>1
    <3> QED BY <1>7, <3>1
  <2> QED BY <1>5, <2>1, <2>2
<1> QED BY <1>3, <1>4, <1>8 DEF ChunkOf

(* The steps of p's main thread. *)
LEMMA MainPairs ==
  ASSUME IInv, IInv', NEW p \in Party, Ordered(p), Ordered(p)', Paired(p),
         Main(p) \/ Begin(p)
  PROVE  Paired(p)'
<1>1. TypeOK /\ RunsInOrder(p) /\ RunsInOrder(p)'
  BY DEF IInv, Ordered
<1>2. CASE Construct(p)
  BY <1>2, ConstructPairs
<1>3. ASSUME UNCHANGED <<toGenerate, task, run, rcots, chunk, handedOut>> PROVE Paired(p)'
  <2>1. QueuesNothing(p)
    BY <1>1, <1>3, QueueFrame
  <2> QED BY <1>1, <1>3, <2>1, PairsFrame
<1>4. CASE Begin(p) \/ Destroy(p)
  BY <1>3, <1>4 DEF Begin, Destroy, rcotVars
<1>5. CASE GetData(p)
  <2>1. /\ At(p, "getData") /\ caller[p].kind \in Kinds
        /\ UNCHANGED <<requests, rcots>>
    BY <1>1, <1>5 DEF GetData, TypeOK, rcotVars
  <2> PICK k \in Kinds : k = caller[p].kind
    BY <2>1
  <2>2. CASE refill(p, k) /\ UNCHANGED <<caller, handedOut>>
    BY <2>1, <2>2, RefillPairs
  <2>3. CASE /\ bufferIndex[p][k] < bufferSize /\ take(p, k)
             /\ UNCHANGED <<chunk, toGenerate, task, run>>
    <3>1. PICK size \in Nat : Takes(p, k, size)
      BY <1>1, <2>3, TakeStep
    <3>2. QueuesNothing(p)
      BY <1>1, <2>1, <2>3, QueueFrame
    <3> QED BY <2>1, <2>3, <3>1, <3>2, TakePairs
  <2>4. CASE UNCHANGED <<chunk, bufferIndex, handedOut, toGenerate, task, run>>
    BY <1>3, <2>1, <2>4
  <2> QED BY <1>5, <2>2, <2>3, <2>4 DEF GetData
<1> QED BY <1>2, <1>4, <1>5 DEF Main

-----------------------------------------------------------------------------
(* The invariant.                                                          *)

(* No party has handed out anything before it is constructed. *)
LEMMA InitPairs == ASSUME Init PROVE PairInv
<1>1. OrderInv
  BY InitOrder
<1>2. ASSUME NEW p \in Party, NEW k \in Kinds PROVE ChunkOf(p, k)
  <2>1. task[p][k] = "none" /\ Given(p, k) = 0
    BY DEF Init, Given
  <2>2. Number(p, k) = 0
    BY <1>1, <2>1 DEF OrderInv, Ordered, Progress
  <2> QED BY <2>1, <2>2 DEF ChunkOf
<1> QED BY <1>1, <1>2 DEF PairInv, Paired

(* Every step keeps every tuple from the right chunk. *)
LEMMA NextPairs == ASSUME PairInv, [Next]_vars PROVE PairInv'
<1>1. OrderInv /\ OrderInv' /\ IInv /\ IInv' /\ TypeOK
  BY NextOrder DEF PairInv, OrderInv, IInv
<1>2. \A q \in Party : Ordered(q) /\ Ordered(q)' /\ Paired(q)
  BY <1>1 DEF PairInv, OrderInv
<1>3. ASSUME NEW q \in Party,
             toGenerate'[q] = toGenerate[q], task'[q] = task[q], run'[q] = run[q],
             rcots'[q] = rcots[q], chunk'[q] = chunk[q], handedOut'[q] = handedOut[q]
      PROVE  Paired(q)'
  <2>1. RunsInOrder(q) /\ RunsInOrder(q)'
    BY <1>2 DEF Ordered
  <2>2. QueuesNothing(q)
    BY <1>1, <1>3, <2>1, QueueFrame
  <2> QED BY <1>1, <1>2, <1>3, <2>1, <2>2, PairsFrame
<1>4. ASSUME NEW p \in Party,
             \/ Main(p) \/ Begin(p)
             \/ \E k \in Kinds : Task(p, k) \/ WakeSpuriously(p, k)
             \/ \E role \in Roles : EndRcot(p, role) \/ \E k \in Kinds : BeginRcot(p, k, role)
      PROVE  \A q \in Party : Paired(q)'
  <2>1. Paired(p)'
    <3>1. CASE Main(p) \/ Begin(p)
      BY <1>1, <1>2, <3>1, MainPairs
    <3>2. CASE \/ \E k \in Kinds : Task(p, k) \/ WakeSpuriously(p, k)
               \/ \E role \in Roles :
                    EndRcot(p, role) \/ \E k \in Kinds : BeginRcot(p, k, role)
      <4>1. QueuesNothing(p)
        BY <1>1, <1>2, <3>2, TaskOrderStep
      <4> QED BY <1>1, <1>2, <3>2, <4>1, TaskPairs
    <3> QED BY <1>4, <3>1, <3>2
  <2>2. ASSUME NEW q \in Party, q # p PROVE Paired(q)'
    <3>1. /\ toGenerate'[q] = toGenerate[q] /\ task'[q] = task[q] /\ run'[q] = run[q]
          /\ rcots'[q] = rcots[q] /\ chunk'[q] = chunk[q] /\ handedOut'[q] = handedOut[q]
      BY <1>1, <1>4, <2>2, StepLeaves
    <3> QED BY <1>3, <3>1
  <2> QED BY <2>1, <2>2
<1>5. CASE UNCHANGED vars
  <2>1. UNCHANGED <<toGenerate, task, run, rcots, chunk, handedOut>>
    BY <1>5 DEF vars, callerVars, rcotVars
  <2> QED BY <1>1, <1>3, <2>1 DEF PairInv
<1>6. CASE Next
  <2>1. PICK p \in Party :
          \/ Main(p) \/ Begin(p)
          \/ \E k \in Kinds : Task(p, k) \/ WakeSpuriously(p, k)
          \/ \E role \in Roles : EndRcot(p, role) \/ \E k \in Kinds : BeginRcot(p, k, role)
    BY <1>6 DEF Next
  <2> QED BY <1>1, <1>4, <2>1 DEF PairInv
<1> QED BY <1>5, <1>6

(* Every tuple is from the right chunk, in every state. *)
LEMMA PairInvariance == Spec => []PairInv
<1>1. Init => PairInv
  BY InitPairs
<1>2. PairInv /\ [Next]_vars => PairInv'
  BY NextPairs
<1> QED BY <1>1, <1>2, PTL DEF Spec

-----------------------------------------------------------------------------
(* What the invariant says.                                                *)

(* What is known of a tuple that p has handed out: its chunk was made in   *)
(* the runs number j, for the n-th chunk of kind k.                        *)
TupleFrom(p, k, i, j, n) ==
  LET t == handedOut[p][k][i]
  IN  /\ j \in 1..Left(p) /\ \A role \in Roles : t.chunk[role] = j
      /\ Queued(p)[j] = k /\ Count(Queued(p), k, j) = n
      /\ t.place \in 1..bufferSize /\ i = (n - 1) * bufferSize + t.place

(* Every tuple handed out has such runs. *)
LEMMA TuplesFrom ==
  ASSUME PairInv, NEW p \in Party, NEW k \in Kinds, NEW i \in DOMAIN handedOut[p][k]
  PROVE  /\ \E j, n \in Nat : TupleFrom(p, k, i, j, n)
         /\ TypeOK /\ RunsInOrder(p) /\ Left(p) \in Nat /\ All(p) \in Nat /\ Left(p) <= All(p)
<1>1. TypeOK /\ RunsInOrder(p) /\ ChunkOf(p, k) /\ All(p) \in Nat
  BY QueuedType DEF PairInv, OrderInv, IInv, Ordered, Paired
<1>2. i \in 1..Given(p, k)
  BY <1>1 DEF TypeOK, Given
<1>3. FromChunk(p, k, handedOut[p][k][i], i)
  BY <1>1, <1>2 DEF ChunkOf
<1>4. PICK n \in 1..Number(p, k) : /\ Made(p, k, handedOut[p][k][i].chunk, n)
                                   /\ i = (n - 1) * bufferSize + handedOut[p][k][i].place
  BY <1>3 DEF FromChunk
<1>5. PICK j \in 1..Left(p) : /\ \A role \in Roles : handedOut[p][k][i].chunk[role] = j
                              /\ Queued(p)[j] = k /\ Count(Queued(p), k, j) = n
  BY <1>4 DEF Made
<1>6. handedOut[p][k][i].place \in 1..bufferSize
  BY <1>3 DEF FromChunk
<1>7. TupleFrom(p, k, i, j, n)
  BY <1>4, <1>5, <1>6 DEF TupleFrom
<1>8. Left(p) \in Nat /\ Left(p) <= All(p) /\ Number(p, k) \in Nat
  BY <1>1, QueuedType, CountType DEF Number
<1> QED BY <1>1, <1>7, <1>8

(* The i-th tuple of a kind that the one party hands out and the i-th that *)
(* the other hands out are the halves of one: booleanTupleBuffer_ and      *)
(* rcotBuffer_ of the two are filled and emptied at different times, and   *)
(* give the same tuples all the same.                                      *)
THEOREM TuplesCorrelate == Spec => []Correlated
<1>1. ASSUME PairInv PROVE Correlated
  <2> SUFFICES ASSUME NEW k \in Kinds, NEW i \in DOMAIN handedOut[0][k] \cap DOMAIN handedOut[1][k]
               PROVE  /\ handedOut[0][k][i].place = handedOut[1][k][i].place
                      /\ \A role \in Roles : handedOut[0][k][i].chunk[role]
                                               = handedOut[1][k][i].chunk[Other(role)]
    BY DEF Correlated
  <2>1. 0 \in Party /\ 1 \in Party
    BY DEF Party
  <2>2. PICK a, m \in Nat : TupleFrom(0, k, i, a, m)
    BY <1>1, <2>1, TuplesFrom
  <2>3. PICK b, n \in Nat : TupleFrom(1, k, i, b, n)
    BY <1>1, <2>1, TuplesFrom
  <2>4. m = n /\ handedOut[0][k][i].place = handedOut[1][k][i].place
    <3> PICK x : x = handedOut[0][k][i].place
      OBVIOUS
    <3> PICK y : y = handedOut[1][k][i].place
      OBVIOUS
    <3>1. /\ x \in 1..bufferSize /\ y \in 1..bufferSize
          /\ (m - 1) * bufferSize + x = (n - 1) * bufferSize + y
      BY <2>2, <2>3 DEF TupleFrom
    <3>2. bufferSize \in Nat \ {0}
      BY TupleAssumption
    <3>3. m = n /\ x = y
      BY ONLY <3>1, <3>2, PlaceTells, m \in Nat, n \in Nat
    <3> QED BY <3>3
  <2>5. /\ Left(0) \in Nat /\ All(0) \in Nat /\ Left(0) <= All(0)
        /\ Left(1) \in Nat /\ All(1) \in Nat /\ Left(1) <= All(1)
    BY <1>1, <2>1, TuplesFrom
  <2>6. \A h \in (1..All(0)) \cap (1..All(1)) : Queued(0)[h] = Queued(1)[h]
    BY <1>1, <2>1, SameChunks DEF PairInv
  <2>7. a = b
    <3> PICK s : s = Queued(0)
      OBVIOUS
    <3> PICK u : u = Queued(1)
      OBVIOUS
    <3>1. /\ a \in 1..All(0) /\ s[a] = k /\ Count(s, k, a) = n
          /\ b \in 1..All(1) /\ u[b] = k /\ Count(u, k, b) = n
      BY <2>2, <2>3, <2>4, <2>5 DEF TupleFrom
    <3>2. CASE a <= b
      <4>1. \A h \in 1..a : s[h] = u[h]
        BY <2>5, <2>6, <3>1, <3>2
      <4>2. Count(s, k, a) = Count(u, k, a) /\ u[a] = k
        BY <3>1, <4>1, CountSame
      <4> QED BY <3>1, <4>2, CountTells
    <3>3. CASE b <= a
      <4>1. \A h \in 1..b : u[h] = s[h]
        BY <2>5, <2>6, <3>1, <3>3
      <4>2. Count(u, k, b) = Count(s, k, b) /\ s[b] = k
        BY <3>1, <4>1, CountSame
      <4> QED BY <3>1, <4>2, CountTells
    <3> QED BY <3>2, <3>3
  <2>8. \A role \in Roles : Other(role) \in Roles
    BY DEF Roles, Other
  <2> QED BY <2>2, <2>3, <2>4, <2>7, <2>8 DEF TupleFrom
<1> QED BY <1>1, PairInvariance, PTL

(* No tuple is handed out twice, neither by one buffer nor by both, though *)
(* both are filled from the same two RCOTs.                                *)
THEOREM TuplesUsedOnce == Spec => []UsedOnce
<1>1. ASSUME PairInv PROVE UsedOnce
  <2> SUFFICES ASSUME NEW p \in Party, NEW k \in Kinds, NEW m \in Kinds,
                      NEW i \in DOMAIN handedOut[p][k], NEW j \in DOMAIN handedOut[p][m],
                      handedOut[p][k][i].place = handedOut[p][m][j].place,
                      NEW role \in Roles,
                      handedOut[p][k][i].chunk[role] = handedOut[p][m][j].chunk[role]
               PROVE  k = m /\ i = j
    BY DEF UsedOnce
  <2>1. PICK a, x \in Nat : TupleFrom(p, k, i, a, x)
    BY <1>1, TuplesFrom
  <2>2. PICK b, y \in Nat : TupleFrom(p, m, j, b, y)
    BY <1>1, TuplesFrom
  <2>3. a = b
    <3>1. handedOut[p][k][i].chunk[role] = a
      BY <2>1 DEF TupleFrom
    <3>2. handedOut[p][m][j].chunk[role] = b
      BY <2>2 DEF TupleFrom
    <3> QED BY <3>1, <3>2
  <2>4. k = m
    BY <2>1, <2>2, <2>3 DEF TupleFrom
  <2>5. x = y
    BY <2>1, <2>2, <2>3, <2>4 DEF TupleFrom
  <2> QED BY <2>1, <2>2, <2>4, <2>5 DEF TupleFrom
<1> QED BY <1>1, PairInvariance, PTL

=============================================================================
