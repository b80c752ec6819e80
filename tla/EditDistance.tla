---------------------------- MODULE EditDistance ----------------------------
(***************************************************************************)
(* The larger example application (src/example/edit_distance): secret      *)
(* strings, padded with zeros to one width, the edit distance of a word    *)
(* and a guess that is computed on the padding too, and the message that   *)
(* the distance allows the guesser to read.                                *)
(*                                                                         *)
(* The Ints it is built from are numbers here, and far from their limits;  *)
(* what their circuits do to the bits is in Circuits.  A letter is a       *)
(* number: 1 to 3 stand for the capitals and 4 to 6 for the small letters. *)
(***************************************************************************)
EXTENDS Circuits

maxStringLength == 3  \* 15 in the code
LetterWidth == 3      \* 8 in the code
DistanceWidth == 5    \* 32 in the code

Letters == 1 .. maxStringLength
firstSmall == 4
lastSmall == 6
toCapital == -3

choose(choice, a, b) == IF choice THEN b ELSE a

-----------------------------------------------------------------------------
(* Strings.                                                                *)

AsciiString(data) ==
  IF Len(data) > maxStringLength THEN Throws
  ELSE [i \in Letters |-> IF i <= Len(data) THEN data[i] ELSE 0]

(* Its size as a secret: the number of its letters. *)
privateSize(s) == FoldLeft(LAMBDA size, c : choose(c = 0, size + 1, size), 0, s)

(* Its size when it is opened: of the letters before the first zero. *)
knownSize(s) == SelectInSeq(s \o <<0>>, LAMBDA c : c = 0) - 1

getValue(s) == SelectSeq(s, LAMBDA c : c # 0)

toUpperCase(s) ==
  [i \in Letters |->
     s[i] + choose(s[i] >= firstSmall /\ s[i] <= lastSmall, 0, toCapital)]

chooseString(choice, a, b) == [i \in Letters |-> choose(choice, a[i], b[i])]

-----------------------------------------------------------------------------
(* Inputs.  A file is a sequence of lines, each a record of its columns; a *)
(* column that a player does not have is a column of empty strings, and    *)
(* the last line of the parameters is the one that counts.                 *)

Column(lines, name) ==
  [k \in DOMAIN lines |-> IF name \in DOMAIN lines[k] THEN lines[k][name] ELSE <<>>]

EditDistanceInputReader(lines, parameters) ==
  [numRows |-> Len(lines), words |-> Column(lines, "word"),
   guesses |-> Column(lines, "guess"), senderMessages |-> Column(lines, "sender_message"),
   threshold |-> Last(parameters).threshold, deleteCost |-> Last(parameters).delete_cost,
   insertCost |-> Last(parameters).insert_cost]

(* Each player sends its number of rows and its parameters to the other,   *)
(* and both throw unless they are the same.                                *)
validated(player0, player1) ==
  \A field \in {"numRows", "threshold", "deleteCost", "insertCost"} :
    player0[field] = player1[field]

(* The words and the messages are player 0's, the guesses player 1's; its  *)
(* own strings that are too long make a player throw.                      *)
InputProcessor(player0, player1) ==
  LET strings(data) == [k \in DOMAIN data |-> AsciiString(data[k])]
      inputs == [words |-> strings(player0.words), guesses |-> strings(player1.guesses),
                 senderMessages |-> strings(player0.senderMessages),
                 threshold |-> player0.threshold, deleteCost |-> player0.deleteCost,
                 insertCost |-> player0.insertCost]
      given == inputs.words \o inputs.guesses \o inputs.senderMessages
  IN  IF validated(player0, player1) /\ Throws \notin Range(given) THEN inputs ELSE Throws

-----------------------------------------------------------------------------
(* The distance and the message of one row.                                *)

(* Where the word, the guess or both have ended, the distance so far is    *)
(* copied.                                                                 *)
calculateEditDistances(word, guess, insertCost, deleteCost) ==
  LET wordSize  == privateSize(word)
      guessSize == privateSize(guess)
      inWord(i)  == i - 1 < wordSize
      inGuess(j) == j - 1 < guessSize
      asciiDist(c, d) == choose(c < d, c - d, d - c)
      least(a, b) == choose(b < a, a, b)
      distances[i \in 0 .. maxStringLength, j \in 0 .. maxStringLength] ==
        CASE i = 0 /\ j = 0 -> 0
          [] i = 0 /\ j > 0 -> distances[0, j - 1] + choose(inGuess(j), 0, deleteCost)
          [] i > 0 /\ j = 0 -> distances[i - 1, 0] + choose(inWord(i), 0, insertCost)
          [] OTHER ->
               LET replaceSol == distances[i - 1, j - 1] + asciiDist(word[i], guess[j])
                   insertSol  == distances[i - 1, j] + insertCost
                   deleteSol  == distances[i, j - 1] + deleteCost
                   minSol     == least(least(replaceSol, insertSol), deleteSol)
               IN  choose(inGuess(j),
                          choose(inWord(i), distances[i - 1, j - 1], distances[i, j - 1]),
                          choose(inWord(i) /\ inGuess(j), distances[i - 1, j], minSol))
  IN  distances[maxStringLength, maxStringLength]

calculateMessages(distance, threshold, senderMessage) ==
  LET messageLength == privateSize(senderMessage)
      halfMessage == [i \in Letters |->
                        choose((i - 1) + (i - 1) + 1 < messageLength, 0, senderMessage[i])]
  IN  chooseString(distance < threshold,
                   chooseString(distance <= threshold + threshold, AsciiString(<<>>), halfMessage),
                   senderMessage)

-----------------------------------------------------------------------------
(* What the players write, one share each of every row, and what is read   *)
(* from it.  A mask is the share of the second player.                     *)

toJson(results, mask) ==
  LET share(width, v, p, m) ==
        IF p = 1 THEN XorEach(convertIntToBits(width, v), m) ELSE m
  IN  [p \in 1 .. 2 |->
         [k \in DOMAIN results |->
            [distance |-> share(DistanceWidth, results[k].distance, p, mask.distance),
             message  |-> [i \in Letters |->
                             share(LetterWidth, results[k].message[i], p, mask.letter)]]]]

(* The shares are added up, and a message ends before its first zero. *)
EditDistanceResults(shares) ==
  LET opened(bits(_)) == convertBitsToInt(FALSE, XorEach(bits(shares[1]), bits(shares[2])))
  IN  IF Len(shares[1]) # Len(shares[2]) THEN Throws
      ELSE [k \in DOMAIN shares[1] |->
              LET letters == [i \in Letters |-> opened(LAMBDA share : share[k].message[i])]
              IN  [distance |-> opened(LAMBDA share : share[k].distance),
                   message  |-> SubSeq(letters, 1, knownSize(letters))]]

(* The validator compares the results with the lines it expects. *)
validate(actual, expected) ==
  CASE Len(actual) # Len(expected) -> "SIZE_MISMATCH"
    [] Len(actual) = Len(expected) /\ actual # expected -> "RESULT_MISMATCH"
    [] actual = expected -> "SUCCESS"

(* The game, from the files of both players to the shares they write. *)
play(player0, player1, mask) ==
  LET inputs == InputProcessor(player0, player1)
      result(k) ==
        LET distance == calculateEditDistances(inputs.words[k], inputs.guesses[k],
                                               inputs.insertCost, inputs.deleteCost)
        IN  [distance |-> distance,
             message  |-> calculateMessages(distance, inputs.threshold, inputs.senderMessages[k])]
  IN  IF inputs = Throws THEN Throws
      ELSE toJson([k \in 1 .. player0.numRows |-> result(k)], mask)
=============================================================================
