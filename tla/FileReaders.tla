----------------------------- MODULE FileReaders ----------------------------
(***************************************************************************)
(* BufferedReader (fbpcf/io/api/BufferedReader.cpp) over a LocalFileReader *)
(* or a CloudFileReader, as operators on a record:                         *)
(*   file               the contents of the file                           *)
(*   cloud              whether the base reader is a CloudFileReader       *)
(*   position           how much of the file the base reader has read      *)
(*   failed             the local stream has read past the end             *)
(*   buffer             BufferedReader::buffer_                            *)
(*   currentPosition, lastPosition                                         *)
(* The loops of read and readLine are taken one chunk at a time.           *)
(***************************************************************************)
EXTENDS Integers, Sequences, SequencesExt

CONSTANTS Newline, Stale   \* a new line, and what a buffer has at first

Reader(file, cloud, chunkSize) ==
  [file |-> file, cloud |-> cloud, position |-> 0, failed |-> FALSE,
   buffer |-> [i \in 1..chunkSize |-> Stale], currentPosition |-> 0, lastPosition |-> 0]

(* CloudFileReader::eof; LocalFileReader::eof looks at the next character. *)
baseEof(r) == r.position >= Len(r.file)

(* S3FileReader::readBytes: the store cuts a range off at the end. *)
readBytes(file, start, end) == SubSeq(file, start + 1, Min({end, Len(file)}))

(* CloudFileReader::read also makes the buffer as short as what it read. *)
cloudRead(r) ==
  LET bytes == readBytes(r.file, r.position, r.position + Len(r.buffer))
  IN  [r EXCEPT !.position = @ + Len(bytes), !.buffer = bytes]

(* LocalFileReader::read fills what it can of the buffer; the stream fails *)
(* when there is less in the file than was asked for.                      *)
localRead(r) ==
  LET bytes == SubSeq(r.file, r.position + 1, Min({r.position + Len(r.buffer), Len(r.file)}))
      rest  == SubSeq(r.buffer, Len(bytes) + 1, Len(r.buffer))
  IN  [r EXCEPT !.position = @ + Len(bytes), !.buffer = bytes \o rest, !.failed = rest # <<>>]

baseRead(r) == IF r.cloud THEN cloudRead(r) ELSE localRead(r)

loadNextChunk(r) ==
  LET read == baseRead(r)
  IN  [read EXCEPT !.lastPosition = read.position - r.position, !.currentPosition = 0]

(* Mutation: the end of the file is where the base reader is. *)
eofOfBase(r) == baseEof(r)
eof(r) == baseEof(r) /\ r.currentPosition = r.lastPosition

loaded(r) == SubSeq(r.buffer, r.currentPosition + 1, r.lastPosition)

(* readLine's first step loads a chunk if all was read. *)
startOfLine(r) == IF r.currentPosition = r.lastPosition THEN loadNextChunk(r) ELSE r

(* Its last step does too, when there is more in the file.                 *)
endOfLine(r) ==
  IF r.currentPosition = r.lastPosition /\ ~eof(r) THEN loadNextChunk(r) ELSE r

(* One chunk's part of a line: the reader after it, the characters, and    *)
(* whether the line ends there, at a new line or at the end of the file.   *)
lineChunk(r) ==
  LET chars == loaded(r)
      ends  == SelectInSeq(chars, LAMBDA c : c = Newline)
      taken == [r EXCEPT !.currentPosition = IF ends = 0 THEN @ + Len(chars) ELSE @ + ends]
  IN  CASE ends # 0 -> [reader |-> endOfLine(taken), chars |-> SubSeq(chars, 1, ends - 1),
                        done |-> TRUE]
        [] ends = 0 /\ baseEof(r) -> [reader |-> endOfLine(taken), chars |-> chars, done |-> TRUE]
        [] OTHER -> [reader |-> loadNextChunk(taken), chars |-> chars, done |-> FALSE]

(* One chunk's part of read: remaining is what the caller's buffer still   *)
(* has room for.                                                           *)
readChunk(r, remaining) ==
  LET chars == loaded(r)
      enough == Len(chars) >= remaining
      taken == [r EXCEPT !.currentPosition = IF enough THEN @ + remaining ELSE r.lastPosition]
  IN  CASE enough -> [reader |-> taken, chars |-> SubSeq(chars, 1, remaining), done |-> TRUE]
        [] ~enough /\ baseEof(r) -> [reader |-> taken, chars |-> chars, done |-> TRUE]
        [] OTHER -> [reader |-> loadNextChunk(taken), chars |-> chars, done |-> FALSE]
=============================================================================
