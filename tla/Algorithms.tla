------------------------------ MODULE Algorithms ------------------------------
(***************************************************************************)
(* The pure algorithms of the library, each compared with what it is to    *)
(* compute: the circuits of the frontend and of AES, the integers of the   *)
(* adapters, the permutations, the ORAMs and their encoder, the oblivious  *)
(* transfers and what is built on them, and the unified data process.      *)
(*                                                                         *)
(* A task is an algorithm and an input; the only step runs it.             *)
(***************************************************************************)
EXTENDS UnifiedDataProcess, Oram, OramEncoder, AesCircuit, Transfers, EditDistance

VARIABLES task, answers  \* none, then the answer

vars == <<task, answers>>

Take(algorithm, inputs) == \E input \in inputs : task = [algorithm |-> algorithm, input |-> input]

Answer(algorithm, answer) ==
  /\ answers = <<>> /\ task.algorithm = algorithm
  /\ answers' = <<answer>>
  /\ UNCHANGED task

Answered(algorithm) == answers # <<>> /\ task.algorithm = algorithm
answerIs(algorithm, right) == Answered(algorithm) => answers[1] = right

Orders(n) == {order \in [1 .. n -> 1 .. n] : IsInjective(order)}
Bits(n) == [1 .. n -> {0, 1}]

(* A sequence of bits that looks random, and a number that does. *)
Noise(n, seed) == (7 * n * n + 13 * seed * n + 5 * seed + n \div 3) % 31
NoisyBlock(width, seed) == [b \in 1 .. width |-> (Noise(b, seed) \div 2) % 2]

-----------------------------------------------------------------------------
(* Circuits and integers.                                                  *)

Numbers(isSigned, width) == kMin(isSigned, width) .. kMax(isSigned, width)

IntInputs ==
  UNION {[isSigned : {s}, width : {w}, a : Numbers(s, w), b : Numbers(s, w)] :
           s \in BOOLEAN, w \in 1 .. 3}

(* The number of this width that is congruent to v. *)
Wrapped(isSigned, width, v) ==
  CHOOSE n \in Numbers(isSigned, width) : (n - v) % 2 ^ width = 0

RunCircuits(i) ==
  LET a == convertIntToBits(i.width, i.a)
      b == convertIntToBits(i.width, i.b)
      number(bits) == convertBitsToInt(i.isSigned, bits)
  IN  [plus |-> number(plus(a, b)), minus |-> number(minus(a, b)),
       negative |-> number(negative(a)),
       less |-> less(i.isSigned, a, b), lessOrEqual |-> lessOrEqual(i.isSigned, a, b),
       equal |-> equalityCheck(a, b),
       max |-> number(maxOf(i.isSigned, a, b)), min |-> number(minOf(i.isSigned, a, b)),
       abs |-> number(absOf(a)),
       wider |-> number(cast(i.isSigned, i.width + 1, a)),
       narrower |-> number(cast(i.isSigned, (i.width + 1) \div 2, a))]

(* Of one bit, the sum is 0 only without a 1, and the difference is 1 only *)
(* of 1 and 0: the carry of the only bit is added to it.                   *)
RightCircuits(i) ==
  LET wrapped(v) == Wrapped(i.isSigned, i.width, v)
      bit(b) == IF b THEN 1 ELSE 0
  IN  [plus  |-> IF i.width = 1 THEN Wrapped(i.isSigned, 1, bit(i.a # 0 \/ i.b # 0))
                 ELSE wrapped(i.a + i.b),
       minus |-> IF i.width = 1 THEN Wrapped(i.isSigned, 1, bit(i.a # 0 /\ i.b = 0))
                 ELSE wrapped(i.a - i.b),
       negative |-> wrapped(-i.a),
       less |-> bit(i.a < i.b), lessOrEqual |-> bit(i.a <= i.b), equal |-> bit(i.a = i.b),
       max |-> IF i.a < i.b THEN i.b ELSE i.a, min |-> IF i.a < i.b THEN i.a ELSE i.b,
       abs |-> IF i.a < 0 \/ (~i.isSigned /\ i.a >= 2 ^ (i.width - 1)) THEN wrapped(-i.a) ELSE i.a,
       wider |-> i.a,
       narrower |-> Wrapped(i.isSigned, (i.width + 1) \div 2, i.a)]

(* Intp of a part and of the whole of its native type. *)
IntpInputs ==
  LET some(s, w) == {kMin(s, w), kMin(s, w) + 1, 0, 1, 2, kMax(s, w) - 1, kMax(s, w)}
  IN  UNION {[isSigned : {s}, width : {w}, a : some(s, w), b : some(s, w)] :
               s \in BOOLEAN, w \in {3, 7, 8}}

RunIntp(i) ==
  [sum |-> add(i.isSigned, i.width, i.a, i.b),
   difference |-> subtract(i.isSigned, i.width, i.a, i.b),
   negative |-> negate(i.isSigned, i.width, i.a),
   kept |-> IF i.a >= 0 \/ Full(i.width)
            THEN convertFromBits(i.isSigned, i.width, convertToBits(i.width, i.a)) ELSE <<>>,
   shared |-> ValueOf(BitsOf(<<i.a % 4, i.b % 4>>))]

(* An unsigned difference below 0 comes out too large, and throws, when    *)
(* more than a bit of the native type is unused; so does the negation of 0 *)
(* when any is.                                                            *)
RightIntp(i) ==
  LET right(v) == <<Wrapped(i.isSigned, i.width, v)>>
  IN  [sum |-> right(i.a + i.b),
       difference |-> IF ~i.isSigned /\ i.width < kNativeWidth - 1 /\ i.a < i.b THEN Throws
                      ELSE right(i.a - i.b),
       negative |-> IF ~i.isSigned /\ ~Full(i.width) /\ i.a = 0 THEN Throws ELSE right(-i.a),
       kept |-> IF i.a >= 0 \/ Full(i.width) THEN right(i.a) ELSE <<>>,
       shared |-> <<i.a % 4, i.b % 4>>]

RunSBox(byte) == <<sBox(byte), inverseSBox(sBox(byte))>>

NoisyRegister(seed) ==
  Four(LAMBDA w : Four(LAMBDA b : ByteOf((97 * seed + 31 * w * w + 7 * b) % 256)))

AesInputs == 1 .. 2

FlatKeys(roundKey) == convertFromWords([n \in 1 .. kRound + 1 |-> roundKey[n - 1]])

(* Two blocks under a key, and one of a stream under a mask. *)
AesAnswer(encKey, decKey, plain, part, mask, cipher) ==
  [cipher |-> cipher, plain |-> decrypt(cipher, decKey) = plain,
   stream |-> encryptCtr(encryptCtr(part, encKey, mask), encKey, mask) = part,
   short  |-> encryptCtr(plain, encKey, mask)]

RunAes(seed) ==
  LET key    == NoisyRegister(seed)
      plain  == convertFromWords(<<NoisyRegister(seed + 2), NoisyRegister(seed + 3)>>)
      encKey == FlatKeys(expandEncryptionKey(key))
  IN  AesAnswer(encKey, FlatKeys(expandDecryptionKey(key)), plain, SubSeq(plain, 1, 128),
                convertFromWords(<<NoisyRegister(9)>>), encrypt(plain, encKey))

RightCipher(roundKey, seed) ==
  convertFromWords([n \in 1 .. 2 |-> encryptInPlace(roundKey, NoisyRegister(seed + n + 1))])
RightAes(seed) ==
  [cipher |-> RightCipher(expandEncryptionKey(NoisyRegister(seed)), seed),
   plain |-> TRUE, stream |-> TRUE, short |-> Throws]

(* The example: words and guesses over three letters, or of three letters. *)
Words == UNION {[1 .. n -> {1, 2, 5}] : n \in 0 .. 2} \cup [1 .. 3 -> {1, 5}]

DistanceInputs ==
  [word : Words, guess : Words, deleteCost : {1, 3}, threshold : {1, 3}]
  \cup [word : {<<1, 2, 4, 5>>, <<6, 2>>}, guess : {<<3>>, <<3, 3, 2, 1>>},
        deleteCost : {1, 2}, threshold : {2, 4}]

RunDistance(i) ==
  LET parameters == [threshold |-> i.threshold, delete_cost |-> i.deleteCost, insert_cost |-> 2]
      files(delete) ==
        << EditDistanceInputReader(<< [word |-> i.word, sender_message |-> <<4, 5, 6>>],
                                      [word |-> <<1, 2>>, sender_message |-> i.word] >>,
                                   << parameters >>),
           EditDistanceInputReader(<< [guess |-> i.guess], [guess |-> <<2>>] >>,
                                   << parameters, [parameters EXCEPT !.delete_cost = delete] >>) >>
      mask == [distance |-> NoisyBlock(DistanceWidth, 3), letter |-> NoisyBlock(LetterWidth, 4)]
      game(delete) == play(files(delete)[1], files(delete)[2], mask)
      shares == game(i.deleteCost)
  IN  [refused |-> game(i.deleteCost + 1) = Throws,
       results |-> IF shares = Throws THEN Throws ELSE EditDistanceResults(shares),
       uneven  |-> shares = Throws \/ EditDistanceResults(<<shares[1], Tail(shares[2])>>) = Throws,
       capitals |-> IF Len(i.word) > maxStringLength THEN Throws
                   ELSE getValue(toUpperCase(AsciiString(i.word)))]

(* The cheapest way to match letters of the word with letters of the guess *)
(* in order, deleting and inserting the others.                            *)
CheapestMatch(word, guess, insertCost, deleteCost) ==
  LET inOrder(m) == \A p, q \in m : p # q => (p[1] < q[1] <=> p[2] < q[2]) /\ p[1] # q[1]
      matchings == {m \in SUBSET ((DOMAIN word) \X (DOMAIN guess)) : inOrder(m)}
      distance(p) == IF word[p[1]] < guess[p[2]] THEN guess[p[2]] - word[p[1]]
                     ELSE word[p[1]] - guess[p[2]]
      cost(m) == insertCost * (Len(word) - Cardinality(m))
                 + deleteCost * (Len(guess) - Cardinality(m))
                 + FoldSet(LAMBDA p, sum : sum + distance(p), 0, m)
  IN  Min({cost(m) : m \in matchings})

RightDistances(i) ==
  LET row(word, guess, message) ==
        LET distance == CheapestMatch(word, guess, 2, i.deleteCost)
        IN  [distance |-> distance,
             message  |-> CASE distance < i.threshold -> message
                            [] distance \in i.threshold .. 2 * i.threshold ->
                                 SubSeq(message, 1, Len(message) \div 2)
                            [] OTHER -> <<>>]
  IN  IF Len(i.word) > maxStringLength \/ Len(i.guess) > maxStringLength THEN Throws
      ELSE << row(i.word, i.guess, <<4, 5, 6>>), row(<<1, 2>>, <<2>>, i.word) >>

DistancesRight(i, got) ==
  /\ got.refused /\ got.uneven
  /\ got.results = RightDistances(i)
  /\ got.results # Throws =>
       /\ validate(got.results, RightDistances(i)) = "SUCCESS"
       /\ validate(got.results, Tail(got.results)) = "SIZE_MISMATCH"
       /\ validate(got.results, [got.results EXCEPT ![2].distance = @ + 1]) = "RESULT_MISMATCH"
  /\ Len(i.word) <= maxStringLength =>
       got.capitals = [n \in DOMAIN i.word |-> IF i.word[n] > 3 THEN i.word[n] - 3 ELSE i.word[n]]

(* The circuits compute what the operators of their numbers do, modulo the *)
(* range of the type; Intp does the same, or throws; the S-box circuits    *)
(* and the rounds on secret bits agree with the AES of the processor, and  *)
(* decryption and the counter mode undo what they did.  The example gives  *)
(* each row the distance of the cheapest match, and the guesser the whole  *)
(* message, half of it or nothing by that distance.                        *)
CircuitsExact ==
  /\ answerIs("circuits", RightCircuits(task.input))
  /\ answerIs("intp", RightIntp(task.input))
  /\ answerIs("sBox", <<SubBytes[task.input], task.input>>)
  /\ answerIs("aes", RightAes(task.input))
  /\ Answered("distance") => DistancesRight(task.input, answers[1])

-----------------------------------------------------------------------------
(* Permutations.                                                           *)

OrderInputs == UNION {Orders(n) : n \in 1 .. 5}

(* Distinct values of three bits. *)
ValuesTo(n) == [i \in 1 .. n |-> convertIntToBits(3, i)]

RunPermute(order) ==
  LET n == Len(order)
  IN  [values |-> permute(ValuesTo(n), n, order),
       dummy  |-> dummyPermute(ValuesTo(n), order),
       string |-> permuteBitString(ValuesTo(n), order),
       inputs |-> <<permuteInOrder(ValuesTo(n), order).inputs, inputsOfOther(n)>>,
       twice  |-> permute(ValuesTo(n), n, [order EXCEPT ![1] = order[n]])]

ShuffleInputs == [orders : Orders(3) \X Orders(3), labels : Bits(3)]

RunShuffle(i) ==
  [shuffled |-> shuffle(ValuesTo(3), i.orders),
   kept     |-> compaction(ValuesTo(3), i.labels, TRUE, i.orders),
   hidden   |-> compaction(ValuesTo(3), i.labels, FALSE, i.orders),
   dummy    |-> dummyCompaction(ValuesTo(3), i.labels)]

(* Every list of draws, each below the number of places left. *)
DrawsOf(n) == {draws \in [1 .. n - 1 -> 0 .. n - 1] : \A k \in DOMAIN draws : draws[k] <= n - k}

RunDraws(n) == {<<draws, secureRandomPermutation(n, draws)>> : draws \in DrawsOf(n)}

PermutedInOrder(order, got) ==
  LET right == [i \in DOMAIN order |-> ValuesTo(Len(order))[order[i]]]
  IN  /\ got.values = right /\ got.dummy = right /\ got.string = right
      /\ got.inputs[1] = got.inputs[2]
      /\ Len(order) > 1 => got.twice = Throws

KeptOnce(labels, got) ==
  LET kept == {ValuesTo(3)[i] : i \in {j \in 1 .. 3 : labels[j] = 1}}
      holds(values, set) == Len(values) = Cardinality(set) /\ Range(values) = set
  IN  /\ holds(got.shuffled, Range(ValuesTo(3)))
      /\ IF kept = {} THEN got.kept = Throws
         ELSE got.kept # Throws /\ holds(got.kept[1], kept)
      /\ got.hidden = Throws
      /\ holds(got.dummy, kept)

(* A permutation puts in each place what its order names there, on bits,   *)
(* on BitStrings and in the clear, with private inputs of the same sizes   *)
(* at both parties, and an order that is none throws.  A shuffle loses and *)
(* doubles nothing, a compaction keeps the values whose label is 1, and    *)
(* throws when it would keep none (in the clear it keeps none), or when    *)
(* their number is to stay secret.  Each order comes from one list of      *)
(* draws.                                                                  *)
PermutationsExact ==
  /\ Answered("permute") => PermutedInOrder(task.input, answers[1])
  /\ Answered("shuffle") => KeptOnce(task.input.labels, answers[1])
  /\ Answered("draws") =>
       \A order \in Orders(task.input) :
         Cardinality({pair \in answers[1] : pair[2] = order}) = 1

-----------------------------------------------------------------------------
(* ORAMs, of values of two fields of two bits, and keys of four bits.      *)

OramInputs == UNION {[size : {n}, first : 0 .. n - 1, second : 0 .. n - 1] : n \in 2 .. 5}

kIndicatorSumWidth == 4

(* What the shares of the parties stand for. *)
Shares(p, size) == [j \in 1 .. size |-> <<(j + p) % 4, (j * p) % 4>>]
Start(size) == [j \in 1 .. size |-> Minus(Shares(1, size)[j], Shares(2, size)[j])]

(* The powers of 3 modulo 17 are 1 to 16, in some order. *)
Expander == [key \in Bits(4) |->
  LET n == (3 ^ convertBitsToInt(FALSE, key)) % 17
  IN  <<convertIntToBits(4, n - 1), convertIntToBits(4, ((11 * n) % 17) - 1)>>]

(* The first keys add up to an odd one: delta's last bit is 1. *)
EntryOf(index, n) ==
  LET key == NoisyBlock(4, n)
  IN  [index |-> convertIntToBits(3, index), value |-> <<n, 3 - n>>,
       keys  |-> <<key, [NoisyBlock(4, n + 5) EXCEPT ![1] = Not(key[1])]>>]

OramAnswer(i, after, dummy, linear) ==
  LET secret(m, read(_, _, _), j) == Plus(read(m, j, 1), read(m, j, 2))
  IN  [alice  |-> [j \in 1 .. i.size |-> publicRead(after, j - 1, 1)],
       bob    |-> [j \in 1 .. i.size |-> publicRead(after, j - 1, 2)],
       secret |-> [j \in 1 .. i.size |-> secret(after, secretRead, j - 1)],
       dummy  |-> [j \in 1 .. i.size |-> publicRead(dummy, j - 1, 1)],
       linear |-> [j \in 1 .. i.size |-> linearPublicRead(linear, j - 1)],
       linearSecret |-> [j \in 1 .. i.size |-> secret(linear, linearSecretRead, j - 1)],
       beyond |-> <<publicRead(after, i.size, 1), linearPublicRead(linear, i.size)>>]

RunOrams(i, memories, batch) ==
  LET arrays == [k \in 1 .. 2 |->
                   generateSinglePointArrays(batch[k].index, i.size, batch[k].keys, Expander)]
      dummyArrays == [k \in 1 .. 2 |->
                        dummySinglePointArrays(batch[k].index, i.size, batch[k].keys)]
      calculator(dummy) == [isDummy |-> dummy, indicatorSumWidth |-> kIndicatorSumWidth]
      negated == <<memories[1], [j \in 1 .. i.size |-> Negative(memories[2][j])]>>
      draws == [k \in 1 .. 2 |-> [j \in 1 .. i.size |-> <<(j * k) % 4, (j + k) % 4>>]]
  IN  OramAnswer(i, obliviousAddBatch(memories, batch, arrays, calculator(FALSE)),
                    obliviousAddBatch(memories, batch, dummyArrays, calculator(TRUE)),
                    linearObliviousAddBatch(negated, batch, draws))

RunOram(i) ==
  RunOrams(i, <<Shares(1, i.size), Shares(2, i.size)>>,
           <<EntryOf(i.first, 1), EntryOf(i.second, 3)>>)

HeldAfter(i, got) ==
  LET added(j) == Plus(IF j = i.first + 1 THEN <<1, 2>> ELSE <<0, 0>>,
                       IF j = i.second + 1 THEN <<3, 0>> ELSE <<0, 0>>)
      right == [j \in 1 .. i.size |-> Plus(Start(i.size)[j], added(j))]
  IN  /\ {got.alice, got.bob, got.secret, got.dummy, got.linear, got.linearSecret} = {right}
      /\ got.beyond = <<Throws, Throws>>

-----------------------------------------------------------------------------
(* The encoder, called twice.                                              *)

Tuples == {<<a, b>> : a \in 0 .. 1, b \in 0 .. 1}
Calls == UNION {[1 .. n -> Tuples] : n \in 0 .. 2}

Filters ==
  { <<>>,
    <<[type |-> "GT", columnIndex |-> 1, value |-> 0]>>,
    <<[type |-> "SUBSET_OF", columnIndex |-> 2, values |-> {0}],
      [type |-> "NEQ", columnIndex |-> 1, value |-> 1]>> }

EncoderInputs == [filters : Filters, calls : Calls \X Calls]

RunEncoder(i) ==
  LET first   == generateORAMIndexes(InitialEncoder, i.filters, i.calls[1])
      second  == generateORAMIndexes(first.encoder, i.filters, i.calls[2])
      indexes == first.rst \o second.rst
  IN  [indexes |-> indexes, decoded |-> decodeORAMIndexes(OramDecoder(second.encoder), indexes)]

IndexedApart(i, got) ==
  LET tuples == i.calls[1] \o i.calls[2]
      passes(t) == \A f \in DOMAIN i.filters : apply(i.filters[f], t)
  IN  /\ Len(got.indexes) = Len(tuples)
      /\ Range(got.indexes) = 0 .. Cardinality(Range(got.indexes)) - 1
      /\ \A m, n \in DOMAIN tuples :
           got.indexes[m] = got.indexes[n] <=>
             \/ tuples[m] = tuples[n]
             \/ ~passes(tuples[m]) /\ ~passes(tuples[n])
      /\ got.decoded = [n \in DOMAIN tuples |-> IF passes(tuples[n]) THEN tuples[n] ELSE <<>>]

(* After a batch each place of an ORAM holds the sum of what it held and   *)
(* of the values that were added at it, whoever reads it and in whichever  *)
(* way, and there are no other places.  Over all calls of the encoder, two *)
(* tuples get the same index if and only if they are equal or both are     *)
(* filtered, the indices are the first numbers, and the decoder gives back *)
(* each tuple that was not filtered.                                       *)
MemoryExact ==
  /\ Answered("oram") => HeldAfter(task.input, answers[1])
  /\ Answered("encoder") => IndexedApart(task.input, answers[1])

-----------------------------------------------------------------------------
(* Transfers.  The receiver of a random correlated transfer has what the   *)
(* sender has, plus delta where its choice is 1.                           *)

AreCorrelated(delta, sender, receiver, choices) ==
  /\ Len(sender) = Len(receiver)
  /\ \A i \in DOMAIN sender :
       /\ lsb(sender[i]) = 0
       /\ receiver[i] = IF choices[i] = 1 THEN XorEach(sender[i], delta) ELSE sender[i]

(* A delta, and results of the sender and the receiver for these choices.  *)
Delta(width, seed) == <<1>> \o Tail(NoisyBlock(width, seed))
SenderOf(width, seed, n) == [i \in 1 .. n |-> setLsbTo0(NoisyBlock(width, seed + i))]
ReceiverOf(sender, delta, choices) ==
  [i \in DOMAIN sender |-> IF choices[i] = 1 THEN XorEach(sender[i], delta) ELSE sender[i]]

NpInputs == [globalM : 0 .. 4, r : [1 .. 2 -> {1, 3}], d : [1 .. 2 -> {0, 2}], choice : Bits(2)]

RunNp(i) ==
  LET points == pointsOf(5, i.globalM, i.d, i.choice)
  IN  <<npSend(5, i.globalM, i.r, points), npReceive(5, i.r, i.d, i.choice)>>

IknpInputs == [width : {8, 16}, size : {1, 8, 19, 33}, seed : 1 .. 3]

RunIknp(i) ==
  LET blocks  == 1 .. BlockCount(i.size, i.width)
      delta   == Delta(i.width, i.seed)
      prg(s)  == [j \in 1 .. i.width - 1 |-> [b \in blocks |-> NoisyBlock(i.width, s + 3 * j + b)]]
      prg0    == prg(i.seed)
      prg1    == prg(i.seed + 11)
      choices == [b \in blocks |-> NoisyBlock(i.width, i.seed + 7 * b)]
      u       == correctionsOf(choices, prg0, prg1)
      based   == [j \in DOMAIN prg0 |-> IF delta[j + 1] = 1 THEN prg1[j] ELSE prg0[j]]
  IN  [delta |-> delta, sender |-> iknpSend(i.size, i.width, delta, based, u),
       receiver |-> iknpReceive(i.size, i.width, choices, prg0), choices |-> FlattenSeq(choices)]

(* Keys and hashes of three bits. *)
kKey == 3
Grow == [key \in Bits(kKey) |->
  LET n == convertBitsToInt(FALSE, key) IN <<NoisyBlock(kKey, n), NoisyBlock(kKey, n + 17)>>]
HashOf == [key \in Bits(kKey) |-> NoisyBlock(kKey, convertBitsToInt(FALSE, key) + 5)]

PointInputs == [seed : 1 .. 5, choices : Bits(4)]

(* One point, two points after each other, and both with a matrix. *)
PointsAnswer(delta, sender, receiver, keys, others) ==
  LET draws == [k \in 1 .. 4 |-> [j \in 1 .. 10 |-> Noise(j, k)]]
      positions == {j \in 1 .. 4 : keys[1][j] # others[1][j]}
  IN  [delta |-> delta, sender |-> sender, receiver |-> receiver,
       one    |-> <<keys[1], others[1]>>,
       dummy  |-> <<keys[1], dummySpcotReceive(Slices(receiver, 2)[1], keys[1], delta)>>,
       dummies |-> <<keys[1], dummyMpcotReceive(positions, keys[1], delta)>>,
       extended |-> <<extendRcot(sender, 2, draws, keys[2]),
                      extendRcot(receiver, 2, draws, others[2])>>,
       around |-> <<dummyExtend(6, sender), dummyExtend(6, receiver)>>]

PointsReceived(delta, sender, receiver, sent) ==
  PointsAnswer(delta, sender, receiver, [p \in 1 .. 2 |-> sent[p].keys],
               [p \in 1 .. 2 |-> spcotReceive(Slices(receiver, 2)[p], sent[p], Grow, HashOf)])

PointsSent(seed, delta, sender, choices) ==
  PointsReceived(delta, sender, ReceiverOf(sender, delta, choices),
                 [p \in 1 .. 2 |-> spcotSend(NoisyBlock(kKey, seed + 9), Slices(sender, 2)[p],
                                            delta, Grow, HashOf)])

RunPoints(i) == PointsSent(i.seed, Delta(kKey, i.seed), SenderOf(kKey, i.seed, 4), i.choices)

(* The choices of a receiver are the last bits of its results. *)
Agree(delta, pair) ==
  AreCorrelated(delta, pair[1], pair[2], [j \in DOMAIN pair[2] |-> lsb(pair[2][j])])

(* A buffer whose extensions are numbered results. *)
BufferInputs == [1 .. 3 -> 0 .. 4]

RunBuffer(sizes) ==
  LET extend == [n \in Nat, base \in Seq(Nat \X Nat) |-> [k \in 1 .. 5 |-> <<n, k>>]]
      first  == rcot(setBaseRcotResults(<<<<0, 1>>, <<0, 2>>>>, extend), sizes[1], 2, extend)
      second == rcot(first, sizes[2], 2, extend)
  IN  first.rst \o second.rst \o rcot(second, sizes[3], 2, extend).rst

BidirectionInputs == [seed : 1 .. 6, choices : Bits(2), choicesOfPeer : Bits(2), results : Bits(2)]

Party(seed, choices, numbers, resultsOfPeer, peerSeed, results) ==
  LET delta == Delta(kKey, seed)
      base  == SenderOf(kKey, seed, 2)
      peer  == SenderOf(kKey, peerSeed, 2)
  IN  [input0 |-> [k \in 1 .. 2 |-> Noise(k, seed) % numbers],
       input1 |-> [k \in 1 .. 2 |-> Noise(k + 2, seed) % numbers],
       choice |-> choices, sender0 |-> base, delta |-> delta,
       received |-> ReceiverOf(peer, Delta(kKey, peerSeed), results)]

RunBidirection(i) ==
  LET parties(numbers) ==
        << Party(i.seed, i.choices, numbers, i.results, i.seed + 6, i.results),
           Party(i.seed + 6, i.choicesOfPeer, numbers, i.results, i.seed, NotAll(i.results)) >>
      bits    == parties(2)
      ints    == parties(2 ^ kNumberBits)
      both(ps, ot(_, _)) == <<ot(ps[1], ps[2]), ot(ps[2], ps[1])>>
  IN  [bits |-> both(bits, LAMBDA p, q : biDirectionOTOfBits(p, q, HashOf)),
       right |-> both(bits, dummyBiDirectionOT),
       numbers |-> both(ints, LAMBDA p, q : biDirectionOTOfNumbers(p, q, HashOf)),
       rightNumbers |-> both(ints, dummyBiDirectionOT)]
(* Labels shared by their owner's and the features' owner's bits.          *)
MatrixInputs == [labels : Bits(2), choice : Bits(2), features : [1 .. 2 -> {-6, 1, 7}],
                 dpNoise : {-3, 2}, received : Bits(2)]

kDivisor == 3

RunMatrix(i) ==
  LET delta    == Delta(kKey, 2)
      sender   == SenderOf(kKey, 4, 2)
      received == ReceiverOf(sender, delta, i.received)
      features == [k \in 1 .. 2 |-> <<i.features[k], 2 - i.features[k]>>]
      noise    == <<i.dpNoise, i.dpNoise + 1>>
      prg      == [key \in Bits(kKey) |-> LET n == convertBitsToInt(FALSE, key)
                                          IN  <<37 * n % kFixed, (55 * n + 90) % kFixed>>]
      messages == sendRandomMessage(sender, delta, maskedChoice(received, i.choice))
      sent     == sendFeatures(features, i.labels, messages, prg, kDivisor)
      masked   == sumLabelled(i.choice, received, sent.corrections, noise, prg, kDivisor)
  IN  [result |-> removeNoise(masked, sent.totalNoise),
       exact  |-> dummyMatrixVectorMultiplication(features, XorEach(i.labels, i.choice), noise)]

(* An oblivious transfer gives the receiver the message of its choice; a   *)
(* correlated one leaves both parties with results that differ by delta    *)
(* where the choice is 1, at one place of a tree, and stays so through     *)
(* every extension, which hands out each of its results once and keeps the *)
(* last ones; and the product of a shared vector is off by less than the   *)
(* rounding of its terms.                                                  *)
TransfersCorrect ==
  LET got == answers[1]
  IN  /\ Answered("np") =>
           \A k \in DOMAIN task.input.choice : got[2][k] = got[1][task.input.choice[k] + 1][k]
      /\ Answered("iknp") =>
           /\ AreCorrelated(got.delta, got.sender, got.receiver, got.choices)
           /\ Len(got.sender) = task.input.size
      /\ Answered("points") =>
           /\ \A pair \in {got.one, got.dummy, got.dummies, got.extended, got.around} :
                Agree(got.delta, pair)
           /\ Cardinality({k \in 1 .. 4 : got.one[1][k] # got.one[2][k]}) = 1
           /\ Cardinality({k \in 1 .. 4 : got.dummy[1][k] # got.dummy[2][k]}) = 1
      /\ Answered("buffer") =>
           LET n == task.input[1] + task.input[2] + task.input[3]
           IN  got = [k \in 1 .. n |-> <<(k - 1) \div 3 + 1, ((k - 1) % 3) + 1>>]
      /\ Answered("bidirection") => got.bits = got.right /\ got.numbers = got.rightNumbers
      /\ Answered("matrix") =>
           \A f \in DOMAIN got.exact :
             LET error == got.result[f] * kUnit - got.exact[f] * kDivisor
             IN  error \in -3 * (kUnit - 1) .. 3 * (kUnit - 1)

-----------------------------------------------------------------------------
(* The unified data process.  Each party knows some of the union, at least *)
(* one of them each element.                                               *)

UnionMaps(n) == {m \in [1 .. n -> -1 .. n - 1] : validUnionMap(m)}
Known(maps) == \A i \in DOMAIN maps[1] : maps[1][i] # -1 \/ maps[2][i] # -1
AdapterInputs ==
  UNION {[maps : {maps \in UnionMaps(n) \X UnionMaps(n) : Known(maps)},
          orders : Orders(n) \X {[i \in 1 .. n |-> (i % n) + 1]}] : n \in 1 .. 3}

(* Two sessions of one party, each with some of the peer's rows, which     *)
(* come in two batches under different nonces.  In the first session one   *)
(* of them may not come.                                                   *)
Rows == <<<<1, 0, 0, 1, 1, 1>>, <<0, 1, 1, 1, 0, 1>>, <<1, 1, 0, 0, 1, 0>>>>
Wanted == UNION {{s \in [1 .. n -> 0 .. 2] : IsInjective(s)} : n \in 1 .. 3}
RowsOfBatch == <<<<0, 1>>, <<2>>>>
InAnyOrder == {<<1, 2>>, <<2, 1>>}
SessionInputs == [first : Wanted, came : InAnyOrder \cup {<<1>>, <<2>>},
                  second : Wanted, next : InAnyOrder, nonce : {3, 14}]

Sent(batches) == UNION {Range(RowsOfBatch[b]) : b \in Range(batches)}

Cipher == [counter \in 0 .. 2 ^ kBlockBits - 1 |-> NoisyBlock(kBlockBits, counter)]

RunSessions(i) ==
  LET batches == [b \in DOMAIN RowsOfBatch |->
                    localEncryption([k \in DOMAIN RowsOfBatch[b] |-> Rows[RowsOfBatch[b][k] + 1]],
                                    Cipher, i.nonce + 5 * b, RowsOfBatch[b])]
      session(s, order) ==
        FoldLeft(LAMBDA t, b : IF t = Throws THEN t ELSE processPeerData(t, batches[b]), s, order)
      idle   == [status |-> "idle", indexToOrderMap |-> << >>, picked |-> <<>>]
      first  == session(prepareToProcessPeerData(idle, i.first), i.came)
      second == session(prepareToProcessPeerData(getProcessedData(first), i.second), i.next)
      came(picked) == SelectSeq(picked, LAMBDA row : row # Unpicked)
      decrypted(picked) == IF picked = <<>> THEN <<>> ELSE decryptPeerData(picked, Cipher)
      mine   == prepareToProcessMyData([status |-> "idle"], Len(Rows[1]))
  IN  [first  |-> decrypted(came(first.picked)),
       places |-> {k \in DOMAIN i.first : first.picked[k] # Unpicked},
       second |-> IF second = Throws THEN Throws ELSE decrypted(came(second.picked)),
       whole  |-> processPeersData(idle, processMyData(Rows, Cipher, i.nonce), i.first, Cipher),
       dummy  |-> dummyProcessPeersData(Rows, i.first),
       shards |-> splitEncryptionResults(first.picked, 2),
       picked |-> first.picked,
       refused |-> << prepareToProcessPeerData(first, i.second), processPeerData(idle, batches[1]),
                      getProcessedData(idle), getProcessedData(getProcessedData(first)),
                      prepareToProcessMyData(mine, 6),
                      processMyBatch(getExpandedKey(mine), Rows, <<0, 1, 2>>, Cipher, i.nonce),
                      processMyBatch(mine, <<>>, <<>>, Cipher, i.nonce),
                      processMyBatch(mine, <<Tail(Rows[1])>>, <<0>>, Cipher, i.nonce),
                      processMyBatch(mine, <<Rows[1], Tail(Rows[2])>>, <<0, 1>>, Cipher, i.nonce),
                      processMyBatch(mine, Rows, <<0, 1>>, Cipher, i.nonce),
                      getExpandedKey(getExpandedKey(mine)), processMyData(<<>>, Cipher, 0) >>]

(* Columns of every type, and as many bits as fill a byte or do not.       *)
Columns(n) ==
  << [name |-> "a", type |-> Array(TRUE, 1)] >>
  \o SubSeq(<< [name |-> "b1", type |-> Bit], [name |-> "b2", type |-> Bit],
               [name |-> "b3", type |-> Bit] >>, 1, n)
  \o << [name |-> "i", type |-> Integer(FALSE, 2)] >>

DataInputs ==
  [bits : 1 .. 3, a : {<<-2, 1>>, <<0, -1>>}, i : {0, 6, 15}, b : Bits(3), rows : 1 .. 2]

RunRows(i) ==
  LET structure == RowStructureDefinition(Columns(i.bits), 2)
      names == {Columns(i.bits)[k].name : k \in DOMAIN Columns(i.bits)}
      of(name, row) == CASE name = "a"  -> IF row = 1 THEN i.a ELSE <<1, 1>>
                         [] name = "i"  -> IF row = 1 THEN i.i ELSE 9
                         [] name = "b1" -> Xor(i.b[1], row % 2)
                         [] name = "b2" -> Xor(i.b[2], row % 2)
                         [] name = "b3" -> i.b[3]
      data == [name \in names |-> [row \in 1 .. i.rows |-> of(name, row)]]
      bytes == serializeDataAsBytesForUDP(structure, data, i.rows)
  IN  [same   |-> deserializeUDPOutputIntoMPCTypes(structure, bytes) = data,
       sizes  |-> {Len(bytes[k]) : k \in DOMAIN bytes} = {kByteBits * getRowSizeBytes(structure)},
       uneven |-> serializeDataAsBytesForUDP(structure, data, i.rows + 1)]

(* The adapter gives both parties the individuals they have in common, in  *)
(* one order, each with the index of the peer's row, and each once; the    *)
(* rows picked by these indexes are the peer's, in their order, whatever   *)
(* the order of the batches and however many sessions there were.  Of a    *)
(* session that lacks a batch the other rows are right and in their        *)
(* places; only the sessions after it are not spoken of.  A session cannot *)
(* be entered twice or left out; and columns come out of a row as they     *)
(* went into it.                                                           *)
RowsMatched ==
  LET got == answers[1]
      i   == task.input
      rowsOf(indexes) == [k \in DOMAIN indexes |-> Rows[indexes[k] + 1]]
  IN  /\ Answered("adapter") =>
           LET common == {k \in DOMAIN i.maps[1] : i.maps[1][k] # -1 /\ i.maps[2][k] # -1}
           IN  /\ Len(got[1]) = Cardinality(common) /\ Len(got[2]) = Cardinality(common)
               /\ {<<got[2][k], got[1][k]>> : k \in DOMAIN got[1]}
                    = {<<i.maps[1][k], i.maps[2][k]>> : k \in common}
      /\ Answered("sessions") =>
           /\ got.first = rowsOf(SelectSeq(i.first, LAMBDA index : index \in Sent(i.came)))
           /\ got.places = {k \in DOMAIN i.first : i.first[k] \in Sent(i.came)}
           /\ Range(i.first) \subseteq Sent(i.came) => got.second = rowsOf(i.second)
           /\ got.whole = rowsOf(i.first) /\ got.dummy = rowsOf(i.first)
           /\ FlattenSeq(got.shards) = got.picked
           /\ Len(got.shards[2]) - Len(got.shards[1]) \in 0 .. 1
           /\ \A k \in DOMAIN got.refused : got.refused[k] = Throws
      /\ Answered("rows") => got.same /\ got.sizes /\ got.uneven = Throws
-----------------------------------------------------------------------------
Init ==
  /\ answers = <<>>
  /\ \/ Take("aes", AesInputs)      \/ Take("sBox", Bytes)
     \/ Take("circuits", IntInputs) \/ Take("intp", IntpInputs)
     \/ Take("permute", OrderInputs) \/ Take("shuffle", ShuffleInputs) \/ Take("draws", 1 .. 4)
     \/ Take("oram", OramInputs)    \/ Take("encoder", EncoderInputs)
     \/ Take("np", NpInputs)        \/ Take("iknp", IknpInputs)
     \/ Take("points", PointInputs) \/ Take("buffer", BufferInputs)
     \/ Take("bidirection", BidirectionInputs) \/ Take("matrix", MatrixInputs)
     \/ Take("adapter", AdapterInputs) \/ Take("sessions", SessionInputs)
     \/ Take("rows", DataInputs) \/ Take("distance", DistanceInputs)

Next ==
  \/ Answer("circuits", RunCircuits(task.input))
  \/ Answer("intp", RunIntp(task.input))
  \/ Answer("sBox", RunSBox(task.input))
  \/ Answer("aes", RunAes(task.input))
  \/ Answer("permute", RunPermute(task.input))
  \/ Answer("shuffle", RunShuffle(task.input))
  \/ Answer("draws", RunDraws(task.input))
  \/ Answer("oram", RunOram(task.input))
  \/ Answer("encoder", RunEncoder(task.input))
  \/ Answer("np", RunNp(task.input))
  \/ Answer("iknp", RunIknp(task.input))
  \/ Answer("points", RunPoints(task.input))
  \/ Answer("buffer", RunBuffer(task.input))
  \/ Answer("bidirection", RunBidirection(task.input))
  \/ Answer("matrix", RunMatrix(task.input))
  \/ Answer("adapter", adapt(task.input.maps, task.input.orders))
  \/ Answer("sessions", RunSessions(task.input))
  \/ Answer("rows", RunRows(task.input))
  \/ Answer("distance", RunDistance(task.input))

Spec == Init /\ [][Next]_vars
===============================================================================
