-------------------------------- MODULE Files -------------------------------
(***************************************************************************)
(* Files read and written through buffers, as                              *)
(* FileIOWrappers::transferFileInParts and readFile do (fbpcf/io/api):     *)
(* BufferedReader at one end; at the other BufferedWriter over a           *)
(* CloudFileWriter with the multipart upload of S3FileUploader or the      *)
(* stream of GCSFileUploader (io/cloud_util).  Requests to the store fail, *)
(* or their answers are lost; reads fail; and an exception unwinds through *)
(* the destructors, which close what is still open.                        *)
(***************************************************************************)
EXTENDS FileReaders, FiniteSetsExt

CONSTANTS Setups,            \* source, cloud, readSize, call, storage, writeSize
          ReadSizes,         \* the sizes read is called with
          MAX_RETRY_COUNT    \* of S3FileUploader: 3

ASSUME FilesAssumption ==
  \A s \in Setups :
    /\ s.source \in Seq(ToSet(s.source)) /\ s.cloud \in BOOLEAN
    /\ s.readSize \in Nat /\ s.writeSize \in Nat /\ ReadSizes \subseteq Nat
    /\ s.storage \in {"local", "S3", "GCS"}

VARIABLES
  setup,
  pc,          \* where the thread is
  reader,      \* the BufferedReader
  place,       \* history: where in the file the next call should read
  last,        \* history: the last call of the reader that returned
  answer,      \* what the call under way has read
  remaining,   \* what the caller's buffer of read has room for
  toWrite,     \* buffers the caller has still to write, the first in part
  given,       \* history: all that was passed to BufferedWriter::write
  buffer,      \* BufferedWriter::buffer_ up to currentPosition_
  part,        \* the part being uploaded
  retryCount,  \* requests for it that failed
  isClosed,    \* CloudFileWriter::isClosed_
  completedParts, \* S3FileUploader::completedParts_, by number
  store,       \* the store: the upload's state, its parts, the object
  thrown,      \* an exception is under way, or was
  closed,      \* what the caller's close returned
  after        \* where to go when the flush under way has succeeded

vars == <<setup, pc, reader, place, last, answer, remaining, toWrite, given, buffer, part,
          retryCount, isClosed, completedParts, store, thrown, closed, after>>
readerVars == <<reader, place, last, answer, remaining>>
writerVars == <<toWrite, given, buffer, part, retryCount, isClosed, completedParts, store,
                closed, after>>

NotClosed == -100

Init ==
  /\ setup \in Setups
  /\ pc = "next"
  /\ reader = Reader(setup.source, setup.cloud, setup.readSize)
  /\ place = 0 /\ last = [call |-> "none"] /\ answer = <<>> /\ remaining = 0
  /\ toWrite = <<>> /\ given = <<>> /\ buffer = <<>> /\ part = <<>> /\ retryCount = 0
  /\ isClosed = FALSE /\ completedParts = << >>
  /\ store = [upload |-> "active", parts |-> << >>,
              published |-> setup.storage = "local", object |-> <<>>]
  /\ thrown = FALSE /\ closed = NotClosed /\ after = "none"

Transfers == setup.call = "transferFileInParts"

-----------------------------------------------------------------------------
(* Reading.                                                                *)

(* while (!eof()) readLine(): the loop of the wrappers. *)
ReadLine ==
  /\ pc = "next" /\ ~eof(reader)
  /\ pc' = "readLine" /\ answer' = <<>> /\ remaining' = 0
  /\ reader' = startOfLine(reader)
  /\ UNCHANGED <<setup, place, last, writerVars, thrown>>

(* A caller that also reads blocks of bytes. *)
Read(size) ==
  /\ pc = "next" /\ ~eof(reader) /\ ~Transfers
  /\ pc' = "read" /\ answer' = <<>> /\ remaining' = size
  /\ UNCHANGED <<setup, reader, place, last, writerVars, thrown>>

(* What the file has for a call at this place: up to a new line or to the  *)
(* end, or as much as was asked for; and the place after it.               *)
Expected(call, asked) ==
  LET rest == SubSeq(setup.source, place + 1, Len(setup.source))
      line == SelectInSeq(rest, LAMBDA c : c = Newline)
      size == CASE call = "readLine" /\ line # 0 -> line - 1
                [] call = "readLine" /\ line = 0 -> Len(rest)
                [] OTHER -> Min({asked, Len(rest)})
  IN  [answer |-> SubSeq(rest, 1, size),
       place |-> place + (IF call = "readLine" /\ line # 0 THEN line ELSE size)]

(* A chunk's part; at the end the call returns, and the line is written.   *)
ReadChunk ==
  /\ pc \in {"readLine", "read"}
  /\ \E chunk \in {IF pc = "readLine" THEN lineChunk(reader) ELSE readChunk(reader, remaining)} :
       /\ reader' = chunk.reader
       /\ answer' = answer \o chunk.chars
       /\ remaining' = IF pc = "read" THEN remaining - Len(chunk.chars) ELSE 0
       /\ IF ~chunk.done
          THEN UNCHANGED <<pc, place, last, toWrite>>
          ELSE LET expected == Expected(pc, Len(answer') + remaining')
               IN  /\ last' = [call |-> pc, answer |-> answer', expected |-> expected.answer]
                   /\ place' = expected.place
                   /\ toWrite' = IF Transfers THEN <<answer', <<Newline>>>> ELSE <<>>
                   /\ pc' = IF Transfers THEN "write" ELSE "next"
  /\ given' = IF pc' = "write" THEN given \o answer' ELSE given
  /\ UNCHANGED <<setup, buffer, part, retryCount, isClosed, completedParts, store, thrown,
                 closed, after>>

(* The source cannot be read: an exception leaves the wrapper. *)
ReadFails ==
  /\ pc \in {"readLine", "read"} /\ reader.cloud
  /\ thrown' = TRUE /\ pc' = IF Transfers THEN "destroy" ELSE "gone"
  /\ UNCHANGED <<setup, readerVars, writerVars>>

-----------------------------------------------------------------------------
(* Writing.                                                                *)

(* One round of BufferedWriter::write: what fits is copied, and the buffer *)
(* is flushed only when something is left.                                 *)
WriteRound ==
  /\ pc = "write"
  /\ LET buf  == Head(toWrite)
         fits == Min({setup.writeSize - Len(buffer), Len(buf)})
         rest == SubSeq(buf, fits + 1, Len(buf))
         all  == buffer \o SubSeq(buf, 1, fits)
     IN  IF rest = <<>>
         THEN /\ buffer' = all
              /\ toWrite' = Tail(toWrite)
              /\ pc' = IF toWrite' = <<>> THEN "next" ELSE "write"
              /\ given' = IF toWrite' = <<>> THEN given ELSE given \o Head(toWrite')
              /\ UNCHANGED <<part, retryCount, after>>
         ELSE /\ toWrite' = <<rest>> \o Tail(toWrite)
              /\ part' = all /\ buffer' = <<>> /\ retryCount' = 0
              /\ pc' = "upload" /\ after' = "write"
              /\ UNCHANGED given
  /\ UNCHANGED <<setup, readerVars, isClosed, completedParts, store, thrown, closed>>

(* BufferedWriter::close, by the caller at the end and by the destructor:  *)
(* flush, which does nothing when the buffer is empty, then the base's.    *)
Close ==
  /\ \/ pc = "next" /\ eof(reader) /\ Transfers
     \/ pc = "destroy"
  /\ after' = IF pc = "next" THEN "close" ELSE "closeInDestructor"
  /\ IF buffer = <<>>
     THEN pc' = after' /\ UNCHANGED <<part, buffer, retryCount>>
     ELSE pc' = "upload" /\ part' = buffer /\ buffer' = <<>> /\ retryCount' = 0
  /\ UNCHANGED <<setup, readerVars, toWrite, given, isClosed, completedParts, store, thrown,
                 closed>>

partNumber == Len(completedParts) + 1

(* A part that the store gets replaces what it had under the number. *)
partsWith(parts, number, new) ==
  [n \in DOMAIN parts \cup {number} |-> IF n = number THEN new ELSE parts[n]]

(* The part was stored, and the answer came.  A local file has it at once. *)
UploadPart ==
  /\ pc = "upload" /\ store.upload = "active"
  /\ store' = IF setup.storage = "local" THEN [store EXCEPT !.object = @ \o part]
              ELSE [store EXCEPT !.parts = partsWith(@, partNumber, part)]
  /\ completedParts' = Append(completedParts, partNumber)
  /\ pc' = after
  /\ UNCHANGED <<setup, readerVars, toWrite, given, buffer, part, retryCount, isClosed, thrown,
                 closed, after>>

(* The request failed, or its answer was lost: it is tried again, then the *)
(* upload is given up.                                                     *)
UploadPartFails ==
  /\ pc = "upload" /\ setup.storage = "S3"
  /\ \/ UNCHANGED store
     \/ /\ store.upload = "active"
        /\ store' = [store EXCEPT !.parts = partsWith(@, partNumber, part)]
  /\ IF retryCount < MAX_RETRY_COUNT
     THEN retryCount' = retryCount + 1 /\ UNCHANGED pc
     ELSE pc' = "abort" /\ UNCHANGED retryCount
  /\ UNCHANGED <<setup, readerVars, toWrite, given, buffer, part, isClosed, completedParts,
                 thrown, closed, after>>

(* flush throws when a part was not written; in a destructor that ends the *)
(* program.                                                                *)
flushThrows ==
  /\ thrown' = TRUE
  /\ pc' = IF after = "closeInDestructor" THEN "terminated" ELSE "destroy"

(* The stream of GCS or the local one fails, and stays bad; the local file *)
(* may have some of the part.                                              *)
StreamFails ==
  /\ pc = "upload" /\ setup.storage # "S3"
  /\ \E n \in 0..Len(part) :
       store' = [store EXCEPT !.upload = "bad",
                   !.object = IF setup.storage = "local" /\ store.upload = "active"
                              THEN @ \o SubSeq(part, 1, n) ELSE @]
  /\ IF setup.storage = "local" THEN flushThrows
                                ELSE pc' = "abort" /\ UNCHANGED thrown
  /\ UNCHANGED <<setup, readerVars, toWrite, given, buffer, part, retryCount, isClosed,
                 completedParts, closed, after>>

(* Mutation: flush does not look at what the base writer returned. *)
UploadGivenUpUnseen == pc' = after /\ UNCHANGED thrown

(* upload returns 0 after it aborted: flush sees that less was written.    *)
UploadGivenUp == flushThrows

(* complete failed: close returns -1, or the code of GCS. *)
CompleteGivenUp ==
  /\ pc' = IF after = "close" THEN "destroy" ELSE "gone"
  /\ closed' = CASE after # "close" -> closed
                 [] after = "close" /\ setup.storage = "GCS" -> 1
                 [] OTHER -> -1

(* abortUpload; when it fails the upload lives on. *)
Abort ==
  /\ pc = "abort"
  /\ \E done \in BOOLEAN :
       store' = IF done /\ store.upload # "completed"
                THEN [store EXCEPT !.upload = "aborted"] ELSE store
  /\ IF part # <<>> THEN UploadGivenUp /\ UNCHANGED closed
                    ELSE CompleteGivenUp /\ UNCHANGED thrown
  /\ UNCHANGED <<setup, readerVars, toWrite, given, buffer, part, retryCount, isClosed,
                 completedParts, after>>

(* FileWriter::close passes it on to CloudFileWriter::close, which calls   *)
(* complete once, or to LocalFileWriter::close.                            *)
BaseClose ==
  /\ pc \in {"close", "closeInDestructor"}
  /\ isClosed' = TRUE
  /\ pc' = IF isClosed THEN "gone" ELSE "complete"
  /\ part' = <<>>
  /\ UNCHANGED <<setup, readerVars, toWrite, given, buffer, retryCount, completedParts, store,
                 thrown, closed, after>>

(* The store puts the parts listed together, in the order of their numbers. *)
objectOf(parts) == FlattenSeq([i \in DOMAIN parts |-> store.parts[parts[i]]])

(* The upload is completed, and the answer comes or is lost. *)
Complete ==
  /\ pc = "complete" /\ store.upload = "active"
  /\ store' = IF setup.storage = "local" THEN store
              ELSE [store EXCEPT !.upload = "completed", !.published = TRUE,
                                     !.object = objectOf(completedParts)]
  /\ \/ /\ pc' = IF after = "close" THEN "destroy" ELSE "gone"
        /\ closed' = IF after = "close" THEN 0 ELSE closed
     \/ setup.storage # "local" /\ pc' = "abort" /\ UNCHANGED closed
  /\ UNCHANGED <<setup, readerVars, toWrite, given, buffer, part, retryCount, isClosed,
                 completedParts, thrown, after>>
CompleteFails ==
  /\ pc = "complete"
  /\ IF setup.storage = "local" THEN CompleteGivenUp
                                ELSE pc' = "abort" /\ UNCHANGED closed
  /\ UNCHANGED <<setup, readerVars, toWrite, given, buffer, part, retryCount, isClosed,
                 completedParts, store, thrown, after>>

Next ==
  \/ ReadLine \/ (\E size \in ReadSizes : Read(size)) \/ ReadChunk \/ ReadFails
  \/ WriteRound \/ Close \/ UploadPart \/ UploadPartFails \/ StreamFails \/ Abort
  \/ BaseClose \/ Complete \/ CompleteFails
Spec == Init /\ [][Next]_vars

-----------------------------------------------------------------------------
(* Properties.                                                             *)

(* Whatever the chunks, and however calls of readLine and of read          *)
(* alternate, every answer is what the file has at the place the calls     *)
(* have come to, and eof is reported there and nowhere else; no read fails *)
(* the stream that is asked for more.                                      *)
AnswersFollowFile ==
  /\ last.call # "none" => last.answer = last.expected
  /\ pc = "next" => (eof(reader) <=> place = Len(setup.source))
  /\ reader.failed => baseEof(reader)

(* A line break after every line: what a transfer should store. *)
Normalized(text) == IF text = <<>> \/ Last(text) = Newline THEN text ELSE Append(text, Newline)

(* The object in the store is what was written from its start on,          *)
(* whichever part failed, and however often, whether its requests or only  *)
(* their answers were lost, and whether the upload could be aborted; and   *)
(* it is all of it when the writer could be closed.                        *)
StoredIsWritten ==
  /\ store.published => IsPrefix(store.object, given)
  /\ closed = 0 => ~thrown /\ store.published /\ store.object = Normalized(setup.source)

(* A transfer that returns has uploaded the entire file. *)
UploadsEntireFile ==
  pc = "gone" /\ Transfers /\ ~thrown => store.published /\ store.object = Normalized(setup.source)
=============================================================================
