----------------------- MODULE TwoPartyTupleGenerator -----------------------
(***************************************************************************)
(* The generation of multiplication tuples by two parties, ahead of need   *)
(* (fbpcf/engine/tuple_generator/TwoPartyTupleGenerator.cpp, and           *)
(* fbpcf/engine/util/AsyncBuffer.h, which it has one of for each kind of   *)
(* tuple).                                                                 *)
(*                                                                         *)
(* A party's main thread takes tuples from a buffer.  When the buffer runs *)
(* out it waits for the chunk that a task has been generating in the       *)
(* background and starts a task for the next chunk.  The tasks of the two  *)
(* kinds share the party's two RCOTs, and a tuple is only good when its    *)
(* other half, at the other party, comes from the same run of both: so     *)
(* both parties must generate their chunks in the same order.  They do it  *)
(* in the order of toGenerate_, a queue the main thread appends to, and    *)
(* both main threads make the same requests.                               *)
(*                                                                         *)
(* A thread holds scheduleMutex_ for one step.  A new thread may take its  *)
(* first step at any time, so appending to the queue and starting the task *)
(* are one step.  An RCOT (IRandomCorrelatedObliviousTransfer) is seen     *)
(* from outside: a run of a party's sender is one with the run of the same *)
(* number of the other party's receiver, and waits for it; a receiver may  *)
(* wait, or only send.                                                     *)
(***************************************************************************)
EXTENDS Integers, Sequences

CONSTANTS bufferSize,
          Sizes,        \* how many tuples a request may ask for
          MaxRequests   \* bound on the requests of a program

ASSUME TupleAssumption ==
  bufferSize \in Nat \ {0} /\ Sizes \subseteq Nat /\ MaxRequests \in Nat

Party == {0, 1}
Kinds == {"Boolean", "Composite"}
Roles == {"sender", "receiver"}
Other(role) == IF role = "sender" THEN "receiver" ELSE "sender"

VARIABLES
  requests,     \* the program: what both main threads ask for, in order
  caller,       \* the main threads
  toGenerate,   \* the kinds of the chunks to generate, in order
  task,         \* by party and kind, the task in the background
  run,          \* the runs of the RCOTs a task makes; 0 before it makes one
  rcots,        \* by party and role, the kind of the task that made each run
  finished,     \* by party and role, how many runs have returned
  chunk,        \* by party and kind, the chunk in the buffer: its runs
  bufferIndex,  \* how many of its tuples have been taken
  handedOut     \* the tuples the main thread was given, by kind

callerVars == <<requests, caller, chunk, bufferIndex, handedOut>>
rcotVars == <<rcots, finished>>
vars == <<callerVars, toGenerate, task, run, rcotVars>>

NotMade == [role \in Roles |-> 0]

Init ==
  /\ requests = <<>>
  /\ caller = [p \in Party |-> [at |-> "construct", served |-> 0,
                                kind |-> "Boolean", rest |-> 0]]
  /\ toGenerate = [p \in Party |-> <<>>]
  /\ task = [p \in Party |-> [k \in Kinds |-> "none"]]
  /\ run = [p \in Party |-> [k \in Kinds |-> NotMade]]
  /\ rcots = [p \in Party |-> [role \in Roles |-> <<>>]]
  /\ finished = [p \in Party |-> [role \in Roles |-> 0]]
  /\ chunk = [p \in Party |-> [k \in Kinds |-> NotMade]]
  /\ bufferIndex = [p \in Party |-> [k \in Kinds |-> bufferSize]]
  /\ handedOut = [p \in Party |-> [k \in Kinds |-> <<>>]]

-----------------------------------------------------------------------------
(* The main thread.                                                        *)

(* What both buffers are constructed with: queues a chunk of their kind,   *)
(* and starts the task that generates it.                                  *)
generateData(p, k) ==
  /\ toGenerate' = [toGenerate EXCEPT ![p] = Append(@, k)]
  /\ task' = [task EXCEPT ![p][k] = "started"]
  /\ run' = [run EXCEPT ![p][k] = NotMade]

At(p, place) == caller[p].at = place
GoesTo(p, place) == caller' = [caller EXCEPT ![p].at = place]

(* booleanTupleBuffer_ is constructed first. *)
Construct(p) ==
  /\ \/ /\ At(p, "construct")
        /\ generateData(p, "Boolean") /\ GoesTo(p, "constructComposite")
     \/ /\ At(p, "constructComposite")
        /\ generateData(p, "Composite") /\ GoesTo(p, "idle")
  /\ UNCHANGED <<requests, chunk, bufferIndex, handedOut, rcotVars>>

(* The next step of the program, which the party that gets there first     *)
(* makes up: getBooleanTuple, getCompositeTuple, or the end.               *)
Steps == {[kind |-> k, size |-> n] : k \in Kinds, n \in Sizes}
           \cup {[kind |-> "end", size |-> 0]}

Begin(p) ==
  /\ At(p, "idle")
  /\ \E request \in Steps :
       /\ \/ /\ caller[p].served = Len(requests)
             /\ Len(requests) < MaxRequests \/ request.kind = "end"
             /\ requests' = Append(requests, request)
          \/ /\ caller[p].served < Len(requests)
             /\ request = requests[caller[p].served + 1]
             /\ UNCHANGED requests
       /\ caller' = [caller EXCEPT ![p] =
            IF request.kind = "end" THEN [@ EXCEPT !.at = "destroyComposite"]
            ELSE [at |-> "getData", served |-> @.served + 1,
                  kind |-> request.kind, rest |-> request.size]]
  /\ UNCHANGED <<chunk, bufferIndex, handedOut, toGenerate, task, run, rcotVars>>

Least(m, n) == IF m < n THEN m ELSE n

(* Mutation: the index is not advanced when the request ends. *)
takeWithoutAdvance(p, k) ==
  LET size  == Least(caller[p].rest, bufferSize - bufferIndex[p][k])
      taken == [i \in 1..size |-> [chunk |-> chunk[p][k],
                                   place |-> bufferIndex[p][k] + i]]
  IN  /\ handedOut' = [handedOut EXCEPT ![p][k] = @ \o taken]
      /\ bufferIndex' = [bufferIndex EXCEPT ![p][k] =
                           IF size = caller[p].rest THEN @ ELSE @ + size]
      /\ caller' = [caller EXCEPT ![p].rest = @ - size]

(* Mutation: takes all that is asked for, wherever the buffer ends. *)
takePastEnd(p, k) ==
  LET size  == caller[p].rest
      taken == [i \in 1..size |-> [chunk |-> chunk[p][k],
                                   place |-> bufferIndex[p][k] + i]]
  IN  /\ handedOut' = [handedOut EXCEPT ![p][k] = @ \o taken]
      /\ bufferIndex' = [bufferIndex EXCEPT ![p][k] = @ + size]
      /\ caller' = [caller EXCEPT ![p].rest = @ - size]

(* Takes what is left in the buffer, or what is still asked for. *)
take(p, k) ==
  LET size  == Least(caller[p].rest, bufferSize - bufferIndex[p][k])
      taken == [i \in 1..size |-> [chunk |-> chunk[p][k],
                                   place |-> bufferIndex[p][k] + i]]
  IN  /\ handedOut' = [handedOut EXCEPT ![p][k] = @ \o taken]
      /\ bufferIndex' = [bufferIndex EXCEPT ![p][k] = @ + size]
      /\ caller' = [caller EXCEPT ![p].rest = @ - size]

(* futureBuffer_.get() blocks until the task has its chunk. *)
refill(p, k) ==
  /\ task[p][k] = "done"
  /\ chunk' = [chunk EXCEPT ![p][k] = run[p][k]]
  /\ bufferIndex' = [bufferIndex EXCEPT ![p][k] = 0]
  /\ generateData(p, k)

(* The loop of getData. *)
GetData(p) ==
  LET k == caller[p].kind
  IN  /\ At(p, "getData")
      /\ \/ /\ caller[p].rest > 0 /\ bufferIndex[p][k] >= bufferSize
            /\ refill(p, k)
            /\ UNCHANGED <<caller, handedOut>>
         \/ /\ caller[p].rest > 0 /\ bufferIndex[p][k] < bufferSize
            /\ take(p, k)
            /\ UNCHANGED <<chunk, toGenerate, task, run>>
         \/ /\ caller[p].rest = 0
            /\ GoesTo(p, "idle")
            /\ UNCHANGED <<chunk, bufferIndex, handedOut, toGenerate, task, run>>
      /\ UNCHANGED <<requests, rcotVars>>

(* The destructors wait for the tasks under way, rcotBuffer_'s first. *)
Destroy(p) ==
  /\ \/ /\ At(p, "destroyComposite") /\ task[p]["Composite"] = "done"
        /\ GoesTo(p, "destroyBoolean")
     \/ /\ At(p, "destroyBoolean") /\ task[p]["Boolean"] = "done"
        /\ GoesTo(p, "destroyed")
  /\ UNCHANGED <<requests, chunk, bufferIndex, handedOut, toGenerate, task, run,
                 rcotVars>>

-----------------------------------------------------------------------------
(* The tasks: generateNormalTuples and generateRcotResults.                *)

(* Mutation: nobody waits for the turn. *)
checkTurnNever(p, k) ==
  /\ task[p][k] = "started"
  /\ task' = [task EXCEPT ![p][k] = "generating"]

(* cv_.wait: when the chunk is not the next one, the task sleeps. *)
checkTurn(p, k) ==
  /\ task[p][k] = "started"
  /\ task' = [task EXCEPT ![p][k] =
                IF Head(toGenerate[p]) = k THEN "generating" ELSE "asleep"]

CheckTurn(p, k) ==
  checkTurn(p, k) /\ UNCHANGED <<callerVars, toGenerate, run, rcotVars>>

(* A condition variable may wake up for no reason. *)
WakeSpuriously(p, k) ==
  /\ task[p][k] = "asleep"
  /\ task' = [task EXCEPT ![p][k] = "started"]
  /\ UNCHANGED <<callerVars, toGenerate, run, rcotVars>>

(* The sender's run and the receiver's, in two threads. *)
BeginRcot(p, k, role) ==
  /\ task[p][k] = "generating" /\ run[p][k][role] = 0
  /\ rcots' = [rcots EXCEPT ![p][role] = Append(@, k)]
  /\ run' = [run EXCEPT ![p][k][role] = Len(rcots[p][role]) + 1]
  /\ UNCHANGED <<callerVars, toGenerate, task, finished>>

(* The other party has made the run too. *)
Matched(p, role) == finished[p][role] < Len(rcots[1 - p][Other(role)])

EndRcot(p, role) ==
  /\ finished[p][role] < Len(rcots[p][role])
  /\ role = "receiver" \/ Matched(p, role)
  /\ finished' = [finished EXCEPT ![p][role] = @ + 1]
  /\ UNCHANGED <<callerVars, toGenerate, task, run, rcots>>

(* notify_one: a sleeping task, if there is one, looks again. *)
Notified(t) ==
  IF \E k \in Kinds : t[k] = "asleep"
  THEN {[t EXCEPT ![k] = "started"] : k \in {x \in Kinds : t[x] = "asleep"}}
  ELSE {t}

(* Mutation: nobody is notified. *)
endTurnSilently(p, k) ==
  /\ toGenerate' = [toGenerate EXCEPT ![p] = Tail(@)]
  /\ task' = [task EXCEPT ![p][k] = "done"]
(* Mutation: the queue is emptied. *)
endTurnClearing(p, k) ==
  /\ toGenerate' = [toGenerate EXCEPT ![p] = <<>>]
  /\ \E t \in Notified([task[p] EXCEPT ![k] = "done"]) :
       task' = [task EXCEPT ![p] = t]

(* The chunk leaves the queue; the rest of the task is its own affair.     *)
endTurn(p, k) ==
  /\ toGenerate' = [toGenerate EXCEPT ![p] = Tail(@)]
  /\ \E t \in Notified([task[p] EXCEPT ![k] = "done"]) :
       task' = [task EXCEPT ![p] = t]

EndTurn(p, k) ==
  /\ task[p][k] = "generating"
  /\ \A role \in Roles : run[p][k][role] \in 1..finished[p][role]
  /\ endTurn(p, k)
  /\ UNCHANGED <<callerVars, run, rcotVars>>

-----------------------------------------------------------------------------
Main(p) == Construct(p) \/ GetData(p) \/ Destroy(p)
Task(p, k) == CheckTurn(p, k) \/ EndTurn(p, k)

Next == \E p \in Party :
          \/ Main(p) \/ Begin(p)
          \/ \E k \in Kinds : Task(p, k) \/ WakeSpuriously(p, k)
          \/ \E role \in Roles :
               EndRcot(p, role) \/ \E k \in Kinds : BeginRcot(p, k, role)

Spec == Init /\ [][Next]_vars

(* Threads get to run, and messages arrive; both parties go on until the   *)
(* end of the program, which may go on forever.  A receiver is only sure   *)
(* to return when the sender has run.                                      *)
FairSpec ==
  /\ Spec
  /\ \A p \in Party :
       /\ WF_vars(Main(p)) /\ WF_vars(Begin(p))
       /\ \A k \in Kinds : WF_vars(Task(p, k))
       /\ \A role \in Roles :
            /\ WF_vars(Matched(p, role) /\ EndRcot(p, role))
            /\ \A k \in Kinds : WF_vars(BeginRcot(p, k, role))

-----------------------------------------------------------------------------
(* Properties.                                                             *)

TaskStates == {"none", "started", "asleep", "generating", "done"}
Places == {"construct", "constructComposite", "idle", "getData",
           "destroyComposite", "destroyBoolean", "destroyed"}
Runs == [Roles -> Nat]

TypeOK ==
  /\ requests \in Seq(Steps)
  /\ caller \in [Party -> [at : Places, served : Nat, kind : Kinds, rest : Nat]]
  /\ \A p \in Party : caller[p].served <= Len(requests)
  /\ toGenerate \in [Party -> Seq(Kinds)]
  /\ task \in [Party -> [Kinds -> TaskStates]]
  /\ run \in [Party -> [Kinds -> Runs]] /\ chunk \in [Party -> [Kinds -> Runs]]
  /\ rcots \in [Party -> [Roles -> Seq(Kinds)]]
  /\ finished \in [Party -> [Roles -> Nat]]
  /\ bufferIndex \in [Party -> [Kinds -> 0..bufferSize]]
  /\ handedOut \in [Party -> [Kinds -> Seq([chunk : Runs, place : Nat])]]

(* The queue holds exactly the kinds whose chunk is not there yet, once.   *)
(* So a task that looks at the front of the queue never finds it empty,    *)
(* which would be undefined behaviour.                                     *)
QueueExact ==
  \A p \in Party :
    /\ \A i, j \in DOMAIN toGenerate[p] : toGenerate[p][i] = toGenerate[p][j] => i = j
    /\ \A k \in Kinds : (\E i \in DOMAIN toGenerate[p] : toGenerate[p][i] = k)
                          <=> task[p][k] \in {"started", "asleep", "generating"}

(* A party's RCOTs are used by one task at a time. *)
Exclusive ==
  \A p \in Party, k \in Kinds : task[p][k] = "generating" => Head(toGenerate[p]) = k

(* A task whose turn it is does not sleep. *)
NoLostWakeup ==
  \A p \in Party, k \in Kinds : task[p][k] = "asleep" => Head(toGenerate[p]) # k

(* The runs that two ends of an RCOT make are for chunks of the same kind. *)
SameOrder ==
  \A p \in Party, role \in Roles :
    \A i \in DOMAIN rcots[p][role] \cap DOMAIN rcots[1 - p][Other(role)] :
      rcots[p][role][i] = rcots[1 - p][Other(role)][i]

(* The i-th tuple of a kind that one party is given and the i-th tuple the *)
(* other is given are the two halves of one: the same place of chunks made *)
(* in the same runs.                                                       *)
Correlated ==
  \A k \in Kinds : \A i \in DOMAIN handedOut[0][k] \cap DOMAIN handedOut[1][k] :
    LET mine == handedOut[0][k][i]  yours == handedOut[1][k][i]
    IN  /\ mine.place = yours.place
        /\ \A role \in Roles : mine.chunk[role] = yours.chunk[Other(role)]

(* No tuple is given out twice, as a tuple of either kind: a second use of *)
(* one would reveal the difference of the secrets it hides.                *)
UsedOnce ==
  \A p \in Party, k, m \in Kinds :
    \A i \in DOMAIN handedOut[p][k], j \in DOMAIN handedOut[p][m] :
      LET s == handedOut[p][k][i]  t == handedOut[p][m][j]
      IN  s.place = t.place /\ (\E role \in Roles : s.chunk[role] = t.chunk[role])
            => k = m /\ i = j

(* A request for tuples is answered, and the destructors end. *)
RequestsAnswered ==
  \A p \in Party : /\ At(p, "getData") ~> At(p, "idle")
                   /\ At(p, "destroyComposite") ~> At(p, "destroyed")
=============================================================================
