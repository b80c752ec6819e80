-------------------------- MODULE UnifiedDataProcess --------------------------
(***************************************************************************)
(* The unified data process (fbpcf/mpc_std_lib/unified_data_process): two  *)
(* parties, each with rows of data about its own individuals, make the     *)
(* rows of those they have in common secret values.  An adapter finds each *)
(* party the peer's rows, a data processor encrypts all rows, picks those  *)
(* wanted and decrypts them in the circuit, and a row structure lays the   *)
(* columns of a row out in bytes and back.  A row is the sequence of its   *)
(* bits, the lowest of each byte first.                                    *)
(***************************************************************************)
EXTENDS Permuter

kByteBits  == 2  \* 8
kBlockSize == 2  \* 16 bytes
kBlockBits == kByteBits * kBlockSize

-----------------------------------------------------------------------------
(* Adapter.                                                                *)

(* -1, or an index that comes once: indices count from 0. *)
validUnionMap(unionMap) ==
  /\ \A i \in DOMAIN unionMap : unionMap[i] \in -1 .. Len(unionMap) - 1
  /\ \A i, j \in DOMAIN unionMap : unionMap[i] = unionMap[j] /\ unionMap[i] # -1 => i = j

(* To each party, the other's part. *)
openIndexes(matched, indexWidth) ==
  LET share(p, id) == SubSeq(id, 2 + (p - 1) * indexWidth, 1 + p * indexWidth)
  IN  [p \in 1 .. 2 |-> [k \in DOMAIN matched |->
         convertBitsToInt(FALSE, share(3 - p, matched[k]))]]

(* Each union element is whether both parties or neither know it, and what *)
(* each has for it.  The elements are shuffled, those of both are kept,    *)
(* and each party is opened the indices of the other.                      *)
adapt(unionMaps, orders) ==
  LET size == Len(unionMaps[1])
      indexWidth == CHOOSE w \in 0 .. size :
                      2 ^ w >= size /\ (w = 0 \/ 2 ^ (w - 1) < size)
      hasValue(p, i) == IF unionMaps[p][i] >= 0 THEN 1 ELSE 0
      myMap(p, i) == convertIntToBits(indexWidth, unionMaps[p][i] * hasValue(p, i))
      ids == [i \in 1 .. size |->
                <<Not(Xor(hasValue(1, i), hasValue(2, i)))>> \o myMap(1, i) \o myMap(2, i)]
  IN  IF size = 0 \/ \E p \in 1 .. 2 : ~validUnionMap(unionMaps[p]) THEN Throws
      ELSE openIndexes(SelectSeq(shuffle(ids, orders), LAMBDA id : id[1] = 1), indexWidth)

-----------------------------------------------------------------------------
(* Encryption.  A cipher is what AES with one key makes of each counter.   *)

BlocksOf(size) == (size + kBlockBits - 1) \div kBlockBits

generateCounterBlocks(nonce, startingIndex, size) ==
  [j \in 1 .. size |-> (nonce + startingIndex + j - 1) % 2 ^ kBlockBits]

(* A batch: its nonce and, row by row, its index and ciphertext, of as     *)
(* many bits as the first row has.  A shorter row throws.                  *)
localEncryption(plaintextData, cipher, nonce, indexes) ==
  LET rowSize   == Len(plaintextData[1])
      rowBlocks == BlocksOf(rowSize)
      mask(i) == LET counters == generateCounterBlocks(nonce, indexes[i] * rowBlocks, rowBlocks)
                 IN  FlattenSeq([j \in DOMAIN counters |-> cipher[counters[j]]])
  IN  IF \/ Len(indexes) # Len(plaintextData) \/ plaintextData = <<>>
         \/ \E i \in DOMAIN plaintextData : Len(plaintextData[i]) < rowSize
      THEN Throws
      ELSE [nonce |-> nonce,
            rows  |-> [i \in DOMAIN plaintextData |->
                         [index |-> indexes[i],
                          ciphertext |-> XorEach(SubSeq(plaintextData[i], 1, rowSize), mask(i))]]]

(* UdpEncryption of one's own rows, in sessions.  A batch is sent, when    *)
(* its first row has the width that was announced.                         *)
prepareToProcessMyData(s, myDataWidth) ==
  IF s.status # "idle" THEN Throws ELSE [status |-> "inProgress", myDataWidth |-> myDataWidth]

processMyBatch(s, plaintextData, indexes, cipher, nonce) ==
  IF s.status # "inProgress" \/ plaintextData = <<>> \/ Len(plaintextData[1]) # s.myDataWidth
  THEN Throws ELSE localEncryption(plaintextData, cipher, nonce, indexes)

getExpandedKey(s) == IF s.status # "inProgress" THEN Throws ELSE [s EXCEPT !.status = "idle"]

(* UdpEncryption of the peer's rows: indexToOrderMap_ has the indexes not  *)
(* yet received, each at the first place it was asked for.                 *)
Unpicked == [ciphertext |-> <<>>, nonce |-> 0, index |-> 0]

prepareToProcessPeerData(s, indexes) ==
  LET first(index) == CHOOSE k \in DOMAIN indexes :
                        indexes[k] = index /\ \A n \in 1 .. k - 1 : indexes[n] # index
  IN  IF s.status = "inProgress" THEN Throws
      ELSE [status |-> "inProgress",
            indexToOrderMap |-> s.indexToOrderMap
                                @@ [index \in Range(indexes) |-> first(index)],
            picked |-> [k \in DOMAIN indexes |-> Unpicked]]

\* The rows are kept in the order in which they come.
processPeerDataAsReceived(s, batch) ==
  LET pick(t, row) ==
        LET at == Cardinality(DOMAIN s.indexToOrderMap)
                  - Cardinality(DOMAIN t.indexToOrderMap) + 1
        IN  IF row.index \notin DOMAIN t.indexToOrderMap THEN t
            ELSE [t EXCEPT !.picked[at] = [ciphertext |-> row.ciphertext, nonce |-> batch.nonce,
                                           index |-> row.index],
                           !.indexToOrderMap = [i \in DOMAIN @ \ {row.index} |-> @[i]]]
  IN  FoldLeft(pick, s, batch.rows)

(* A place that this session does not have throws. *)
processPeerData(s, batch) ==
  LET pick(t, row) ==
        IF t = Throws \/ row.index \notin DOMAIN t.indexToOrderMap THEN t
        ELSE IF t.indexToOrderMap[row.index] \notin DOMAIN t.picked THEN Throws
        ELSE [t EXCEPT !.picked[t.indexToOrderMap[row.index]] =
                         [ciphertext |-> row.ciphertext, nonce |-> batch.nonce,
                          index |-> row.index],
                       !.indexToOrderMap = [i \in DOMAIN @ \ {row.index} |-> @[i]]]
  IN  IF s.status # "inProgress" THEN Throws ELSE FoldLeft(pick, s, batch.rows)

(* Rows that have not come stay in indexToOrderMap_. *)
getProcessedData(s) == IF s.status # "inProgress" THEN Throws ELSE [s EXCEPT !.status = "idle"]

(* The shards of what was picked, for as many workers. *)
getShardSize(totalCount, shardIndex, totalShard) ==
  (totalCount * (shardIndex + 1)) \div totalShard - (totalCount * shardIndex) \div totalShard

splitEncryptionResults(results, count) ==
  FoldLeft(LAMBDA s, i :
             LET size == getShardSize(Len(results), i - 1, count)
             IN  [rst |-> Append(s.rst, SubSeq(results, s.from + 1, s.from + size)),
                  from |-> s.from + size],
           [rst |-> <<>>, from |-> 0], [i \in 1 .. count |-> i]).rst

-----------------------------------------------------------------------------
(* Decryption, on secrets: in the circuit the highest bit of a byte comes  *)
(* first.                                                                  *)

reverseBytes(bits) ==
  [i \in DOMAIN bits |-> bits[((i - 1) \div kByteBits) * kByteBits
                               + kByteBits - ((i - 1) % kByteBits)]]

privatelyShareByteStream(row) ==
  reverseBytes(row) \o [i \in 1 .. BlocksOf(Len(row)) * kBlockBits - Len(row) |-> 0]

privatelyShareM128iStream(counters) ==
  reverseBytes(FlattenSeq([j \in DOMAIN counters |-> convertIntToBits(kBlockBits, counters[j])]))

(* AesCircuitCtr. *)
decryptBlocks(ciphertext, cipher, counters) ==
  FlattenSeq([b \in 1 .. Len(ciphertext) \div kBlockBits |->
    LET block(bits) == SubSeq(bits, (b - 1) * kBlockBits + 1, b * kBlockBits)
    IN  XorEach(block(ciphertext),
                reverseBytes(cipher[convertBitsToInt(FALSE, reverseBytes(block(counters)))]))])

generatingOutput(decryptionResult, width) == reverseBytes(SubSeq(decryptionResult, 1, width))

decryptPeerData(picked, cipher) ==
  LET outputWidth  == Len(picked[1].ciphertext)
      cipherBlocks == BlocksOf(outputWidth)
      counters(k) == generateCounterBlocks(picked[k].nonce, picked[k].index * cipherBlocks,
                                           cipherBlocks)
      decrypted(k) == decryptBlocks(privatelyShareByteStream(picked[k].ciphertext), cipher,
                                    privatelyShareM128iStream(counters(k)))
  IN  IF \E k \in DOMAIN picked : Len(picked[k].ciphertext) < outputWidth THEN Throws
      ELSE [k \in DOMAIN picked |-> generatingOutput(decrypted(k), outputWidth)]

(* DataProcessor: all rows in one batch, and what was picked decrypted. *)
processMyData(plaintextData, cipher, nonce) ==
  IF plaintextData = <<>> THEN Throws
  ELSE processMyBatch(prepareToProcessMyData([status |-> "idle"], Len(plaintextData[1])),
                      plaintextData, [i \in DOMAIN plaintextData |-> i - 1], cipher, nonce)

processPeersData(s, batch, indexes, cipher) ==
  decryptPeerData(processPeerData(prepareToProcessPeerData(s, indexes), batch).picked, cipher)

(* DummyDataProcessor: the rows are sent as they are. *)
dummyProcessPeersData(plaintextData, indexes) ==
  [k \in DOMAIN indexes |-> plaintextData[indexes[k] + 1]]

-----------------------------------------------------------------------------
(* RowStructureDefinition.  A column has a name and a type: a Bit, an      *)
(* Integer of some bytes, or an Array of such, of a common length.         *)

Bit == [kind |-> "Bit"]
Integer(isSigned, bytes) == [kind |-> "Integer", isSigned |-> isSigned, bytes |-> bytes]
Array(isSigned, bytes)   == [kind |-> "Array", isSigned |-> isSigned, bytes |-> bytes]

(* The columns in the order of their names.  Bits are packed, as many as   *)
(* fit into a byte, which is placed when the next bit finds it full.       *)
RowStructureDefinition(columns, paddingSize) ==
  LET Packed(names) == [names |-> names, type |-> Bit, length |-> 1]
      place(s, column) ==
        IF column.type # Bit
        THEN [s EXCEPT !.definitions = Append(@,
                [names |-> <<column.name>>, type |-> column.type,
                 length |-> IF column.type.kind = "Array" THEN paddingSize ELSE 1])]
        ELSE IF Len(s.bitColumns) = kByteBits
        THEN [definitions |-> Append(s.definitions, Packed(s.bitColumns)),
              bitColumns  |-> <<column.name>>]
        ELSE [s EXCEPT !.bitColumns = Append(@, column.name)]
      all == FoldLeft(place, [definitions |-> <<>>, bitColumns |-> <<>>], columns)
  IN  IF all.bitColumns = <<>> THEN all.definitions
      ELSE Append(all.definitions, Packed(all.bitColumns))

getColumnSizeBytes(column) == IF column.type = Bit THEN 1 ELSE column.length * column.type.bytes

getRowSizeBytes(structure) ==
  FoldLeft(LAMBDA s, column : s + getColumnSizeBytes(column), 0, structure)

(* The bytes of one row: the values of data are by column and row. *)
PackedBits(column, data, row) ==
  [b \in 1 .. kByteBits |-> IF b <= Len(column.names) THEN data[column.names[b]][row] ELSE 0]
IntegerBytes(type, value) == convertIntToBits(type.bytes * kByteBits, value)
ArrayBytes(type, values) == FlattenSeq([k \in DOMAIN values |-> IntegerBytes(type, values[k])])

serializeColumnAsPlaintextBytes(column, data, row) ==
  LET value == data[column.names[1]][row]
  IN  CASE column.type.kind = "Bit"     -> PackedBits(column, data, row)
        [] column.type.kind = "Integer" -> IntegerBytes(column.type, value)
        [] column.type.kind = "Array"   -> ArrayBytes(column.type, value)

serializeDataAsBytesForUDP(structure, data, numRows) ==
  LET names == UNION {Range(structure[d].names) : d \in DOMAIN structure}
      invalid(column) ==
        \/ \E n \in DOMAIN column.names : Len(data[column.names[n]]) # numRows
        \/ /\ column.type.kind = "Array"
           /\ \E row \in 1 .. numRows : Len(data[column.names[1]][row]) # column.length
  IN  IF DOMAIN data # names \/ \E d \in DOMAIN structure : invalid(structure[d]) THEN Throws
      ELSE [row \in 1 .. numRows |->
              FlattenSeq([d \in DOMAIN structure |->
                serializeColumnAsPlaintextBytes(structure[d], data, row)])]

deserializeSharesToMPCType(column, bytes) ==
  LET integer(k) == convertBitsToInt(column.type.isSigned,
                      SubSeq(bytes, (k - 1) * column.type.bytes * kByteBits + 1,
                                    k * column.type.bytes * kByteBits))
  IN  CASE column.type.kind = "Bit"     -> SubSeq(bytes, 1, Len(column.names))
        [] column.type.kind = "Integer" -> <<integer(1)>>
        [] column.type.kind = "Array"   -> << [k \in 1 .. column.length |-> integer(k)] >>

(* By column and row again. *)
deserializeUDPOutputIntoMPCTypes(structure, rows) ==
  LET next(s, column) ==
        LET size == getColumnSizeBytes(column) * kByteBits
            values(row) == deserializeSharesToMPCType(column,
                             SubSeq(row, s.offset + 1, s.offset + size))
        IN  [offset |-> s.offset + size,
             data   |-> [name \in Range(column.names) |->
                           LET n == CHOOSE n \in DOMAIN column.names : column.names[n] = name
                           IN  [k \in DOMAIN rows |-> values(rows[k])[n]]] @@ s.data]
  IN  FoldLeft(next, [offset |-> 0, data |-> << >>], structure).data
===============================================================================
