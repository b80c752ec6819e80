-------------------------- MODULE SecretShareEngine -------------------------
(***************************************************************************)
(* The engines of all parties (fbpcf/engine/SecretShareEngine.cpp) and the *)
(* messages between them (engine/communication/                            *)
(* SecretShareEngineCommunicationAgent.cpp).                               *)
(*                                                                         *)
(* The parties run the same program, a sequence of calls of the engine,    *)
(* each at its own pace; what a party has of a value is its share.  A call *)
(* that needs no message is one step (Call); the others go through the     *)
(* sends and receives of their exchange one at a time.  A wire is a        *)
(* sequence of bits or integers, of length 1 when it is not a batch, and   *)
(* is named by the call that makes it and its place among its results.     *)
(***************************************************************************)
EXTENDS Tuples, SequencesExt

CONSTANTS Settings,    \* the parties' number, program, tuples and randomness
          BufferSize   \* how many values a channel takes before send blocks

VARIABLES
  setting,     \* numberOfParty, supportsCompositeTupleGeneration, program, tape
  position,    \* by party, the number of calls made
  share,       \* by party and call, the party's shares of the call's results
  scheduled,   \* by party and kind, the operations scheduled
  inputPrgs,   \* by party and peer, the two keys and how much was drawn with each
  tuplesTaken, \* by party and stream, how many tuples were taken
  exchange,    \* by party, the exchange under way
  channel,     \* by sender and receiver, the values not yet received
  revealed,    \* by party and call, what revealToParty returned
  meaning      \* history: by call, its results on the secrets, and whether public

vars == <<setting, position, share, scheduled, inputPrgs, tuplesTaken,
          exchange, channel, revealed, meaning>>

Parties == 0..setting.numberOfParty - 1
Program == setting.program
(* The agents of the other parties are visited in the order of their ids.  *)
Peers(p) == SelectSeq([i \in 1..setting.numberOfParty |-> i - 1], LAMBDA q : q # p)

Queues == <<"AND", "batchAND", "compositeAND", "batchCompositeAND">>
IntegerQueues == <<"mult", "batchMult">>
Composite == {"compositeAND", "batchCompositeAND"}
NoOperations == [q \in Range(Queues \o IntegerQueues) |-> <<>>]
Streams == {<<0, 1>>, <<1, 1>>} \cup {<<2, size>> : size \in 1..3}
Normal == <<0, 1>>
IntegerStream == <<1, 1>>
CompositeStream(size) == <<2, size>>

NoExchange == [what |-> "none"]
(* The constructor exchanges keys with every peer. *)
KeyExchange == [what |-> "keys", step |-> 1, values |-> <<>>, sum |-> <<>>]

(* What the program means, computed on the secrets themselves: for each    *)
(* call, the values of its results and whether they are public, as they    *)
(* are when the call is "public" or all of its operands are.               *)
Meaning(program) ==
  FoldLeft(LAMBDA done, c :
    LET operand(n) == done[c.ins[n][1]].values[c.ins[n][2]]
        pointwise(Op(_, _), n) == [j \in DOMAIN operand(1) |->
          Op(operand(1)[j], operand(n)[j]) % Modulus(c.integer)]
        values ==
          CASE c.op \in {"input", "public"} -> <<c.v>>
            [] c.op = "plus" -> <<pointwise(LAMBDA x, y : x + y, 2)>>
            [] c.op = "not" -> <<pointwise(LAMBDA x, y : IF c.integer THEN -x ELSE 1 - x, 1)>>
            [] c.op \in {"free", "schedule", "immediately"} ->
                 [k \in 1..Len(c.ins) - 1 |-> pointwise(LAMBDA x, y : x * y, k + 1)]
            [] c.op \in {"execute", "reveal"} -> <<>>
    IN  Append(done, [values |-> values,
                      public |-> \/ c.op = "public"
                                 \/ /\ c.op \in {"plus", "not", "free"}
                                    /\ \A n \in DOMAIN c.ins : done[c.ins[n][1]].public]),
    <<>>, program)

Init ==
  /\ setting \in Settings
  /\ meaning = Meaning(setting.program)
  /\ position = [p \in Parties |-> 0]
  /\ share = [p \in Parties |-> << >>]
  /\ scheduled = [p \in Parties |-> NoOperations]
  /\ inputPrgs = [p \in Parties |-> << >>]
  /\ tuplesTaken = [p \in Parties |-> [s \in Streams |-> 0]]
  /\ exchange = [p \in Parties |-> KeyExchange]
  /\ channel = [p, q \in Parties |-> <<>>]
  /\ revealed = [p \in Parties |-> << >>]

-----------------------------------------------------------------------------
(* Operations without messages.                                            *)

WireOf(p, w) == share[p][w[1]][w[2]]
isPublic(w) == meaning[w[1]].public
Mod(call, x) == x % Modulus(call.integer)

(* The n-th number of a generator that was seeded with key. *)
Draw(key, n) == Random(setting.tape, <<ForKey>> \o key \o <<n>>)

(* The owner masks its value with what it draws for every peer; each of    *)
(* the others draws the same numbers.                                      *)
setInput(p, call) ==
  LET size == Len(call.v)
      mask(key, drawn) == [j \in 1..size |-> Draw(key, drawn + j)]
  IN  IF p = call.owner
      THEN [j \in 1..size |->
              Mod(call, call.v[j] - MapThenSumSet(LAMBDA q :
                mask(inputPrgs[p][q].mine, inputPrgs[p][q].drawnMine)[j],
                Parties \ {p}))]
      ELSE LET prg == inputPrgs[p][call.owner]
           IN  [j \in 1..size |-> Mod(call, mask(prg.theirs, prg.drawnTheirs)[j])]
inputDrawn(p, call) ==
  LET size == Len(call.v)
  IN  IF p = call.owner
      THEN [q \in Parties \ {p} |-> [inputPrgs[p][q] EXCEPT !.drawnMine = @ + size]]
      ELSE [inputPrgs[p] EXCEPT ![call.owner].drawnTheirs = @ + size]

(* Mutation: every party adds a public value to its share. *)
plusEverywhere(p, call) ==
  LET left == WireOf(p, call.ins[1])
      right == WireOf(p, call.ins[2])
  IN  [j \in DOMAIN left |-> Mod(call, left[j] + right[j])]

(* XOR, or the sum: symmetric when the operands are alike; otherwise the   *)
(* right one is public, and only party 0 adds it.                          *)
computePlus(p, call) ==
  LET left == WireOf(p, call.ins[1])
      right == WireOf(p, call.ins[2])
      symmetric == isPublic(call.ins[1]) = isPublic(call.ins[2])
  IN  IF symmetric \/ p = 0 THEN [j \in DOMAIN left |-> Mod(call, left[j] + right[j])]
                           ELSE left

(* NOT: symmetric on a public value, otherwise party 0's.  The opposite of *)
(* an integer is always symmetric.                                         *)
computeNot(p, call) ==
  LET v == WireOf(p, call.ins[1])
  IN  CASE call.integer -> [j \in DOMAIN v |-> Mod(call, -v[j])]
        [] ~call.integer /\ (isPublic(call.ins[1]) \/ p = 0) ->
             [j \in DOMAIN v |-> 1 - v[j]]
        [] OTHER -> v

(* AND, or the product, with a public value. *)
computeFree(p, call) ==
  LET left == WireOf(p, call.ins[1])
      right == WireOf(p, call.ins[2])
  IN  [j \in DOMAIN left |-> Mod(call, left[j] * right[j])]

-----------------------------------------------------------------------------
(* Operations with tuples: [call, left, rights, integer, queue].           *)

Operation(p, i, call) ==
  [call |-> i, integer |-> call.integer, queue |-> call.queue,
   left |-> WireOf(p, call.ins[1]),
   rights |-> [k \in 1..Len(call.ins) - 1 |-> WireOf(p, call.ins[k + 1])]]

(* The products of one tuple: the element left[j] with all right operands  *)
(* if the tuple is composite, or with one of them.  The order of the       *)
(* elements is the order in which they are opened and tuples are used.     *)
Elements(o) ==
  IF o.queue \in Composite /\ setting.supportsCompositeTupleGeneration
  THEN [j \in DOMAIN o.left |->
          [left |-> o.left[j], rights |-> [k \in DOMAIN o.rights |-> o.rights[k][j]],
           stream |-> CompositeStream(Len(o.rights))]]
  ELSE FlattenSeq([k \in DOMAIN o.rights |-> [j \in DOMAIN o.left |->
          [left |-> o.left[j], rights |-> <<o.rights[k][j]>>,
           stream |-> IF o.integer THEN IntegerStream ELSE Normal]]])
AllElements(ops) == FlattenSeq([i \in DOMAIN ops |-> Elements(ops[i])])

(* How many of the first n elements use this stream. *)
UsesOf(elements, n, stream) ==
  Cardinality({m \in 1..n : elements[m].stream = stream})

(* The party's share of the tuple for each element, the next ones of their *)
(* streams.                                                                *)
TuplesFor(p, elements, integer) ==
  [n \in DOMAIN elements |->
     LET stream == elements[n].stream
         place  == stream \o <<tuplesTaken[p][stream] + UsesOf(elements, n, stream)>>
     IN  IF integer \/ ~setting.supportsCompositeTupleGeneration
         THEN generateTuples(setting.tape, p, place, integer, setting.numberOfParty)
         ELSE expandRCOTResults(setting.tape, p, place, stream[2], stream[1] = 2)]

(* left + a and right + b for each element. *)
computeSecretSharesToOpen(elements, tuples, integer) ==
  FlattenSeq([n \in DOMAIN elements |->
    LET e == elements[n]
    IN  <<(e.left + tuples[n].a) % Modulus(integer)>>
          \o [k \in DOMAIN e.rights |-> (e.rights[k] + tuples[n].b[k]) % Modulus(integer)]])

(* Where the opened values of the n-th element start. *)
OpenedAt(elements, n) ==
  MapThenSumSet(LAMBDA m : 1 + Len(elements[m].rights), 1..n - 1) + 1

(* Mutation: every party adds the product of the opened values. *)
ProductsOfAll(p, elements, tuples, opened, integer) ==
  [n \in DOMAIN elements |->
     LET d == opened[OpenedAt(elements, n)]
     IN  [k \in DOMAIN elements[n].rights |->
            LET e == opened[OpenedAt(elements, n) + k]
            IN  (tuples[n].c[k] - d * tuples[n].b[k] - e * tuples[n].a + d * e)
                  % Modulus(integer)]]

(* c - d b - e a, and at party 0 + d e, for each element. *)
ProductShares(p, elements, tuples, opened, integer) ==
  [n \in DOMAIN elements |->
     LET d == opened[OpenedAt(elements, n)]
     IN  [k \in DOMAIN elements[n].rights |->
            LET e == opened[OpenedAt(elements, n) + k]
                val == tuples[n].c[k] - d * tuples[n].b[k] - e * tuples[n].a
            IN  (IF p = 0 THEN val + d * e ELSE val) % Modulus(integer)]]

(* The results of each operation, put together from the products of its    *)
(* elements: a sequence of wires, one for each right operand.              *)
computeExecutionResults(ops, products) ==
  LET before(i) == Len(AllElements(SubSeq(ops, 1, i - 1)))
      product(i, k, j) ==
        IF Len(Elements(ops[i])) = Len(ops[i].left)
        THEN products[before(i) + j][k]
        ELSE products[before(i) + (k - 1) * Len(ops[i].left) + j][1]
  IN  [i \in DOMAIN ops |->
         [k \in DOMAIN ops[i].rights |->
            [j \in DOMAIN ops[i].left |-> product(i, k, j)]]]

-----------------------------------------------------------------------------
(* Exchanges.                                                              *)

Both(peers, Order(_)) == FlattenSeq([i \in DOMAIN peers |-> Order(peers[i])])
SendFirst(q) == <<<<"send", q>>, <<"receive", q>>>>
ReceiveFirst(q) == <<<<"receive", q>>, <<"send", q>>>>

(* Mutation: every party sends to a peer before it receives from it. *)
StepsSendingFirst(p, x) ==
  CASE x.what = "keys" -> Both(Peers(p), SendFirst)
    [] x.what # "keys" /\ x.values = <<>> -> <<>>
    [] x.what = "reveal" /\ x.values # <<>> ->
         IF p = x.id THEN [i \in DOMAIN Peers(p) |-> <<"receive", Peers(p)[i]>>]
                     ELSE <<<<"send", x.id>>>>
    [] OTHER -> Both(Peers(p), SendFirst)

(* exchangeKeys sends first; openSecretsToAll sends first to parties with  *)
(* lower ids and receives first from others; openSecretsToParty goes one   *)
(* way.  There is nothing to do when there is nothing to open.             *)
Steps(p, x) ==
  CASE x.what = "keys" -> Both(Peers(p), SendFirst)
    [] x.what # "keys" /\ x.values = <<>> -> <<>>
    [] x.what = "reveal" /\ x.values # <<>> ->
         IF p = x.id THEN [i \in DOMAIN Peers(p) |-> <<"receive", Peers(p)[i]>>]
                     ELSE <<<<"send", x.id>>>>
    [] OTHER -> Both(Peers(p), LAMBDA q : IF q < p THEN SendFirst(q)
                                                  ELSE ReceiveFirst(q))

NextStep(p) == Steps(p, exchange[p])[exchange[p].step]
HasStep(p) == exchange[p].what # "none"
                /\ exchange[p].step <= Len(Steps(p, exchange[p]))

(* A call of send returns when the channel has room for what it sent. *)
SendReturned(p) == \A q \in Parties : Len(channel[p, q]) <= BufferSize

Send(p) ==
  /\ HasStep(p) /\ NextStep(p)[1] = "send" /\ SendReturned(p)
  /\ LET q == NextStep(p)[2]
     IN  channel' = [channel EXCEPT ![p, q] = @ \o
                       (IF exchange[p].what = "keys" THEN <<<<p, q>>>>
                                                     ELSE exchange[p].values)]
  /\ exchange' = [exchange EXCEPT ![p].step = @ + 1]
  /\ UNCHANGED <<setting, meaning, position, share, scheduled, inputPrgs, tuplesTaken, revealed>>

Receive(p) ==
  /\ HasStep(p) /\ NextStep(p)[1] = "receive" /\ SendReturned(p)
  /\ LET q == NextStep(p)[2]
         x == exchange[p]
         size == IF x.what = "keys" THEN 1 ELSE Len(x.values)
         received == SubSeq(channel[q, p], 1, size)
     IN  /\ Len(channel[q, p]) >= size
         /\ channel' = [channel EXCEPT ![q, p] = SubSeq(@, size + 1, Len(@))]
         /\ IF x.what = "keys"
            THEN /\ inputPrgs' = [inputPrgs EXCEPT ![p] = @ @@ (q :>
                      [mine |-> <<p, q>>, drawnMine |-> 0,
                       theirs |-> received[1], drawnTheirs |-> 0])]
                 /\ exchange' = [exchange EXCEPT ![p].step = @ + 1]
            ELSE /\ exchange' = [exchange EXCEPT ![p].step = @ + 1,
                      ![p].sum = [j \in 1..size |->
                                    (@[j] + received[j]) % Modulus(x.integer)]]
                 /\ UNCHANGED inputPrgs
  /\ UNCHANGED <<setting, meaning, position, share, scheduled, tuplesTaken, revealed>>

Opening(what, integer, values) ==
  [what |-> what, step |-> 1, values |-> values, sum |-> values, integer |-> integer]

-----------------------------------------------------------------------------
(* The calls.                                                              *)

Idle(p) == ~HasStep(p) /\ exchange[p].what = "none"
call(p) == Program[position[p] + 1]
Calls(p, ops) == Idle(p) /\ position[p] < Len(Program) /\ call(p).op \in ops
(* The call is done, with these shares of its results. *)
Returns(p, results) ==
  /\ share' = [share EXCEPT ![p] = @ @@ (position[p] + 1 :> results)]
  /\ position' = [position EXCEPT ![p] = @ + 1]

Input(p) ==
  /\ Calls(p, {"input"})
  /\ Returns(p, <<setInput(p, call(p))>>)
  /\ inputPrgs' = [inputPrgs EXCEPT ![p] = inputDrawn(p, call(p))]
  /\ UNCHANGED <<setting, meaning, scheduled, tuplesTaken, exchange, channel, revealed>>

Compute(p) ==
  /\ Calls(p, {"public", "plus", "not", "free"})
  /\ Returns(p, <<CASE call(p).op = "public" -> call(p).v
                    [] call(p).op = "plus" -> computePlus(p, call(p))
                    [] call(p).op = "not" -> computeNot(p, call(p))
                    [] call(p).op = "free" -> computeFree(p, call(p))>>)
  /\ UNCHANGED <<setting, meaning, scheduled, inputPrgs, tuplesTaken, exchange, channel, revealed>>

Schedule(p) ==
  /\ Calls(p, {"schedule"})
  /\ scheduled' = [scheduled EXCEPT ![p][call(p).queue] =
                     Append(@, Operation(p, position[p] + 1, call(p)))]
  /\ position' = [position EXCEPT ![p] = @ + 1]
  /\ UNCHANGED <<setting, meaning, share, inputPrgs, tuplesTaken, exchange, channel, revealed>>

Scheduled(p, queues) == FlattenSeq([i \in DOMAIN queues |-> scheduled[p][queues[i]]])

(* What computeAllScheduledOperations is called with: what was scheduled,  *)
(* or the operands of computeBatchANDImmediately and ...MultImmediately.   *)
ToExecute(p) ==
  IF call(p).op = "execute"
  THEN [bits |-> Scheduled(p, Queues), integers |-> Scheduled(p, IntegerQueues)]
  ELSE LET now == <<Operation(p, position[p] + 1, call(p))>>
       IN  IF call(p).integer THEN [bits |-> <<>>, integers |-> now]
                              ELSE [bits |-> now, integers |-> <<>>]

(* Takes the tuples for these operations from their streams, and starts to *)
(* open the operands they mask.                                            *)
StartsOpening(p, what, integer, ops, more) ==
  \E elements \in {AllElements(ops)} :
    \E tuples \in {TuplesFor(p, elements, integer)} :
      /\ tuplesTaken' = [tuplesTaken EXCEPT ![p] =
           [s \in Streams |-> @[s] + UsesOf(elements, Len(elements), s)]]
      /\ exchange' = [exchange EXCEPT ![p] =
           Opening(what, integer, computeSecretSharesToOpen(elements, tuples, integer))
             @@ more @@ [elements |-> elements, tuples |-> tuples]]

(* computeAllScheduledOperations, up to the exchange for the bits. *)
Execute(p) ==
  /\ Calls(p, {"execute", "immediately"})
  /\ \E ops \in {ToExecute(p)} :
       StartsOpening(p, "bits", FALSE, ops.bits, [ops |-> ops])
  /\ UNCHANGED <<setting, meaning, position, share, scheduled, inputPrgs, channel,
                 revealed>>

(* The opened values of an exchange that has ended give the results.       *)
ResultsOf(p, x, ops) ==
  computeExecutionResults(ops, ProductShares(p, x.elements, x.tuples, x.sum, x.integer))

(* The bits are open; the integers are next. *)
OpenIntegers(p) ==
  /\ exchange[p].what = "bits" /\ ~HasStep(p) /\ SendReturned(p)
  /\ \E x \in {exchange[p]} : \E results \in {ResultsOf(p, x, x.ops.bits)} :
       StartsOpening(p, "integers", TRUE, x.ops.integers,
                     [ops |-> x.ops, bitResults |-> results])
  /\ UNCHANGED <<setting, meaning, position, share, scheduled, inputPrgs, channel,
                 revealed>>

(* All is open: the results are there, and what was scheduled is cleared.  *)
FinishExecution(p) ==
  /\ exchange[p].what = "integers" /\ ~HasStep(p) /\ SendReturned(p)
  /\ \E x \in {exchange[p]} :
     \E results \in {x.bitResults \o ResultsOf(p, x, x.ops.integers)} :
       LET ops == x.ops.bits \o x.ops.integers
       IN  share' = [share EXCEPT ![p] = @ @@
                       [i \in {ops[n].call : n \in DOMAIN ops} |->
                          results[CHOOSE n \in DOMAIN ops : ops[n].call = i]]]
  /\ scheduled' = IF call(p).op = "execute"
                  THEN [scheduled EXCEPT ![p] = NoOperations] ELSE scheduled
  /\ exchange' = [exchange EXCEPT ![p] = NoExchange]
  /\ position' = [position EXCEPT ![p] = @ + 1]
  /\ UNCHANGED <<setting, meaning, inputPrgs, tuplesTaken, channel, revealed>>

Reveal(p) ==
  /\ Calls(p, {"reveal"})
  /\ exchange' = [exchange EXCEPT ![p] =
       Opening("reveal", call(p).integer, WireOf(p, call(p).ins[1]))
       @@ [id |-> call(p).id]]
  /\ UNCHANGED <<setting, meaning, position, share, scheduled, inputPrgs, tuplesTaken,
                 channel, revealed>>

(* Only the party asked for gets the sum; the others get zeros.            *)
FinishReveal(p) ==
  /\ exchange[p].what = "reveal" /\ ~HasStep(p) /\ SendReturned(p)
  /\ LET x == exchange[p]
     IN  revealed' = [revealed EXCEPT ![p] = @ @@ (position[p] + 1 :>
                        IF p = x.id THEN x.sum ELSE [j \in DOMAIN x.values |-> 0])]
  /\ exchange' = [exchange EXCEPT ![p] = NoExchange]
  /\ position' = [position EXCEPT ![p] = @ + 1]
  /\ UNCHANGED <<setting, meaning, share, scheduled, inputPrgs, tuplesTaken, channel>>

(* The constructor ends. *)
Constructed(p) ==
  /\ exchange[p].what = "keys" /\ ~HasStep(p) /\ SendReturned(p)
  /\ exchange' = [exchange EXCEPT ![p] = NoExchange]
  /\ UNCHANGED <<setting, meaning, position, share, scheduled, inputPrgs, tuplesTaken,
                 channel, revealed>>

Step(p) ==
  \/ Constructed(p) \/ Send(p) \/ Receive(p)
  \/ Input(p) \/ Compute(p) \/ Schedule(p)
  \/ Execute(p) \/ OpenIntegers(p) \/ FinishExecution(p)
  \/ Reveal(p) \/ FinishReveal(p)

Done == \A p \in Parties : Idle(p) /\ position[p] = Len(Program)
Next == \E p \in Parties : Step(p)
Spec == Init /\ [][Next]_vars
(* As long as some party's thread can run, one does. *)
FairSpec == Spec /\ WF_vars(Next)

-----------------------------------------------------------------------------
(* Properties.                                                             *)

(* Whenever all parties have a result, at whatever pace they got it, their *)
(* shares add up to what the operation means: masks agree with the peers', *)
(* tuples are used for the same operation by all, opened values and        *)
(* results are in the same places.  A public value is the same at all.     *)
SharesSumToSecret ==
  \A i \in UNION {DOMAIN share[p] : p \in Parties} :
    (\A p \in Parties : i \in DOMAIN share[p]) =>
      \A k \in DOMAIN share[0][i] : \A j \in DOMAIN share[0][i][k] :
        IF meaning[i].public THEN \A p \in Parties : share[p][i][k][j] = meaning[i].values[k][j]
        ELSE MapThenSumSet(LAMBDA p : share[p][i][k][j], Parties)
               % Modulus(Program[i].integer) = meaning[i].values[k][j]

(* What is revealed to a party is the secret, and nothing is to others. *)
RevealedIsSecret ==
  \A p \in Parties : \A i \in DOMAIN revealed[p] :
    LET w == Program[i].ins[1]
        value == meaning[w[1]].values[w[2]]
    IN  revealed[p][i] = IF p = Program[i].id THEN value ELSE [j \in DOMAIN value |-> 0]

(* Every program comes to its end at every party, with every message       *)
(* received, although a send of many values blocks until the peer takes    *)
(* them: the parties never all wait for each other.                        *)
ProgramsEnd == <>(Done /\ \A p, q \in Parties : channel[p, q] = <<>>)
=============================================================================
