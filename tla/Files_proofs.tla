---------------------------- MODULE Files_proofs ----------------------------
(***************************************************************************)
(* Proofs about files, for every file, every size of the buffers and every *)
(* way in which reads and uploads fail: the readers answer with what the   *)
(* file has, and the store has what was written.                           *)
(***************************************************************************)
EXTENDS Files, SequenceTheorems, Induction, TLAPS

-----------------------------------------------------------------------------
(* Parts of a file.                                                        *)

(* What is between two places. *)
Part(f, i, j) == SubSeq(f, i + 1, j)

(* Sub-sequences and concatenation, under names. *)
Slice(t, m, j) == SubSeq(t, m, j)
Joined(s, t) == s \o t

(* From m to j, what t has is what f has a places further on. *)
Shifted(t, m, j, f, a) == \A k \in m..j : t[k] = f[a + k]

(* A slice has the characters of what it is of. *)
LEMMA SliceIs ==
  ASSUME NEW C, NEW t, NEW j \in Nat, NEW m \in Int, 1 <= m, m <= j + 1,
         \A k \in m..j : t[k] \in C
  PROVE  /\ SubSeq(t, m, j) \in Seq(C) /\ Len(SubSeq(t, m, j)) = j - m + 1
         /\ \A k \in 1..j - m + 1 : SubSeq(t, m, j)[k] = t[m + k - 1]
<1> PICK s : s = SubSeq(t, m, j)
  OBVIOUS
<1>1. /\ s \in Seq(C) /\ Len(s) = IF m <= j THEN j - m + 1 ELSE 0
      /\ \A k \in 1..j - m + 1 : s[k] = t[m + k - 1]
  BY SubSeqProperties
<1>2. (IF m <= j THEN j - m + 1 ELSE 0) = j - m + 1
  OBVIOUS
<1> QED BY ONLY <1>1, <1>2, s = SubSeq(t, m, j), Zenon

(* A part has the characters of the file from its place on. *)
LEMMA PartType ==
  ASSUME NEW C, NEW f \in Seq(C), NEW i \in Nat, NEW j \in Nat, i <= j, j <= Len(f)
  PROVE  /\ Part(f, i, j) \in Seq(C) /\ Len(Part(f, i, j)) = j - i
         /\ \A k \in 1..j - i : Part(f, i, j)[k] = f[i + k]
<1>1. ASSUME NEW k \in i + 1..j PROVE f[k] \in C
  <2>1. k \in 1..Len(f)
    OBVIOUS
  <2> QED BY <2>1, ElementOfSeq
<1> PICK m \in Int : m = i + 1
  OBVIOUS
<1>2. 1 <= m /\ m <= j + 1 /\ \A k \in m..j : f[k] \in C
  BY <1>1
<1> PICK s : s = SubSeq(f, m, j)
  OBVIOUS
<1>3. /\ s \in Seq(C) /\ Len(s) = j - m + 1
      /\ \A k \in 1..j - m + 1 : s[k] = f[m + k - 1]
  BY ONLY <1>2, m \in Int, j \in Nat, s = SubSeq(f, m, j), SliceIs
<1>4. j - m + 1 = j - i
  OBVIOUS
<1>5. ASSUME NEW k \in 1..j - i PROVE s[k] = f[i + k]
  <2>1. k \in 1..j - m + 1 /\ m + k - 1 = i + k
    OBVIOUS
  <2> QED BY ONLY <1>3, <2>1, Zenon
<1> QED BY ONLY <1>3, <1>4, <1>5, m = i + 1, s = SubSeq(f, m, j), Zenon DEF Part

(* Its length alone. *)
LEMMA PartLen ==
  ASSUME NEW C, NEW f \in Seq(C), NEW i \in Nat, NEW j \in Nat, i <= j, j <= Len(f)
  PROVE  Len(Part(f, i, j)) = j - i
BY ONLY PartType, f \in Seq(C), i <= j, j <= Len(f)

(* What has these characters is the part. *)
LEMMA PartIs ==
  ASSUME NEW C, NEW f \in Seq(C), NEW i \in Nat, NEW j \in Nat, i <= j, j <= Len(f),
         NEW s \in Seq(C), Len(s) = j - i, \A k \in 1..j - i : s[k] = f[i + k]
  PROVE  s = Part(f, i, j)
<1> PICK t : t = Part(f, i, j)
  OBVIOUS
<1>1. t \in Seq(C) /\ Len(t) = j - i /\ \A k \in 1..j - i : t[k] = f[i + k]
  <2>1. /\ Part(f, i, j) \in Seq(C) /\ Len(Part(f, i, j)) = j - i
        /\ \A k \in 1..j - i : Part(f, i, j)[k] = f[i + k]
    BY ONLY PartType, f \in Seq(C), i \in Nat, j \in Nat, i <= j, j <= Len(f)
  <2> QED BY ONLY <2>1, t = Part(f, i, j), Zenon
<1>2. Len(s) = Len(t) /\ \A k \in 1..Len(s) : s[k] = t[k]
  BY ONLY <1>1, Len(s) = j - i, \A k \in 1..j - i : s[k] = f[i + k]
<1>3. s = t
  <2>1. t \in Seq(C)
    BY ONLY <1>1
  <2> QED BY ONLY <1>2, <2>1, s \in Seq(C), SeqEqual, SMTT(30)
<1> QED BY ONLY <1>3, t = Part(f, i, j)

(* Parts that follow each other are a part. *)
LEMMA PartJoin ==
  ASSUME NEW C, NEW f \in Seq(C), NEW i \in Nat, NEW j \in Nat, NEW k \in Nat,
         i <= j, j <= k, k <= Len(f)
  PROVE  Part(f, i, j) \o Part(f, j, k) = Part(f, i, k)
<1>1. i + 1 \in 1..Len(f) + 1 /\ j \in (i + 1) - 1..Len(f) /\ k \in j..Len(f)
  OBVIOUS
<1> QED BY ONLY <1>1, f \in Seq(C), ConcatAdjacentSubSeq, Zenon DEF Part

(* A slice of something whose characters are those of the file is a part. *)
LEMMA SliceIsPart ==
  ASSUME NEW C, NEW f \in Seq(C), NEW t, NEW a \in Nat, NEW j \in Nat, NEW m \in Int,
         NEW x \in Nat, x = a + m - 1, NEW y \in Nat, y = a + j,
         1 <= m, m <= j + 1, y <= Len(f), Shifted(t, m, j, f, a)
  PROVE  Slice(t, m, j) = Part(f, x, y)
<1>1. ASSUME NEW k \in m..j PROVE t[k] \in C
  <2>1. a + k \in 1..Len(f) /\ t[k] = f[a + k]
    BY DEF Shifted
  <2>2. f[a + k] \in C
    BY <2>1, ElementOfSeq
  <2> QED BY ONLY <2>1, <2>2
<1> PICK s : s = SubSeq(t, m, j)
  OBVIOUS
<1>2. \A k \in m..j : t[k] \in C
  BY <1>1
<1>3. s \in Seq(C) /\ Len(s) = j - m + 1 /\ \A k \in 1..j - m + 1 : s[k] = t[m + k - 1]
  BY ONLY <1>2, m \in Int, j \in Nat, 1 <= m, m <= j + 1, s = SubSeq(t, m, j), SliceIs
<1>4. x <= y /\ y <= Len(f) /\ y - x = j - m + 1
  OBVIOUS
<1>5. ASSUME NEW k \in 1..y - x PROVE s[k] = f[x + k]
  <2>1. k \in 1..j - m + 1 /\ m + k - 1 \in m..j /\ a + (m + k - 1) = x + k
    OBVIOUS
  <2> QED BY <1>3, <2>1 DEF Shifted
<1>6. s = Part(f, x, y)
  <2>1. Len(s) = y - x /\ \A k \in 1..y - x : s[k] = f[x + k]
    BY <1>3, <1>4, <1>5
  <2> QED BY ONLY <1>3, <1>4, <2>1, f \in Seq(C), x \in Nat, y \in Nat, PartIs
<1> QED BY ONLY <1>6, s = SubSeq(t, m, j), Zenon DEF Slice

(* The beginning of a part. *)
LEMMA PartStart ==
  ASSUME NEW C, NEW f \in Seq(C), NEW i \in Nat, NEW j \in Nat, i <= j, j <= Len(f),
         NEW n \in Nat, n <= j - i, NEW y \in Nat, y = i + n
  PROVE  Slice(Part(f, i, j), 1, n) = Part(f, i, y)
<1> PICK t : t = Part(f, i, j)
  OBVIOUS
<1>1. t \in Seq(C) /\ Len(t) = j - i /\ \A k \in 1..j - i : t[k] = f[i + k]
  <2>1. /\ Part(f, i, j) \in Seq(C) /\ Len(Part(f, i, j)) = j - i
        /\ \A k \in 1..j - i : Part(f, i, j)[k] = f[i + k]
    BY ONLY f \in Seq(C), i \in Nat, j \in Nat, i <= j, j <= Len(f), PartType
  <2> QED BY ONLY <2>1, t = Part(f, i, j), Zenon
<1>2. Shifted(t, 1, n, f, i)
  BY <1>1 DEF Shifted
<1>3. y <= Len(f) /\ 1 \in Int /\ 1 <= 1 /\ 1 <= n + 1 /\ i = i + 1 - 1
  OBVIOUS
<1>4. Slice(t, 1, n) = Part(f, i, y)
  BY ONLY <1>2, <1>3, f \in Seq(C), i \in Nat, n \in Nat, y \in Nat, y = i + n, SliceIsPart
<1> QED BY ONLY <1>4, t = Part(f, i, j), Zenon

(* The smaller of two numbers. *)
LEMMA MinOfTwo ==
  ASSUME NEW a \in Int, NEW b \in Int
  PROVE  Min({a, b}) = IF a <= b THEN a ELSE b
<1>1. \E x \in {a, b} : \A y \in {a, b} : x <= y
  OBVIOUS
<1> QED BY <1>1 DEF Min

(* Where the first new line is. *)
LEMMA FirstNewline ==
  ASSUME NEW C, NEW s \in Seq(C), NEW n, n = SelectInSeq(s, LAMBDA c : c = Newline)
  PROVE  \/ n = 0 /\ \A i \in 1..Len(s) : s[i] # Newline
         \/ n \in 1..Len(s) /\ s[n] = Newline /\ \A i \in 1..n - 1 : s[i] # Newline
<1> DEFINE I == {i \in 1..Len(s) : s[i] = Newline}
<1>1. n = IF I # {} THEN Min(I) ELSE 0
  BY DEF SelectInSeq
<1>2. CASE I = {}
  BY <1>1, <1>2
<1>3. CASE I # {}
  <2>1. \E x \in I : \A y \in I : x <= y
    <3>1. I \in SUBSET Nat
      OBVIOUS
    <3> HIDE DEF I
    <3> QED BY <1>3, <3>1, Smallest
  <2>2. n \in I /\ \A y \in I : n <= y
    <3> HIDE DEF I
    <3> QED BY <1>1, <1>3, <2>1 DEF Min
  <2>3. n \in 1..Len(s) /\ s[n] = Newline
    BY <2>2
  <2>4. ASSUME NEW i \in 1..n - 1 PROVE s[i] # Newline
    <3>1. i \in 1..Len(s) /\ ~(n <= i)
      BY <2>3
    <3> QED BY <2>2, <3>1
  <2> QED BY <2>3, <2>4
<1> QED BY <1>2, <1>3

-----------------------------------------------------------------------------
(* The reader.                                                             *)

(* Where in the file the next call of the reader reads. *)
ReadTo(r) == r.position - (r.lastPosition - r.currentPosition)

(* A reader of file f, whose characters are in C. *)
ReaderType(f, C) ==
  [file : {f}, cloud : BOOLEAN, position : 0..Len(f), failed : BOOLEAN,
   buffer : Seq(C \cup {Stale}), currentPosition : Nat, lastPosition : Nat]

(* What is loaded is what the base reader has read last. *)
ReaderOk(r, f, C) ==
  /\ r \in ReaderType(f, C)
  /\ r.currentPosition <= r.lastPosition /\ r.lastPosition <= r.position
  /\ r.lastPosition <= Len(r.buffer)
  /\ Shifted(r.buffer, 1, r.lastPosition, f, r.position - r.lastPosition)
  /\ r.failed => baseEof(r)

(* How far a chunk goes. *)
LEMMA ChunkEnd ==
  ASSUME NEW p \in Nat, NEW l \in Nat, NEW n \in Nat, p <= n, NEW e, e = Min({p + l, n})
  PROVE  e \in Nat /\ p <= e /\ e <= n /\ e - p <= l /\ (e - p < l => e = n)
<1> PICK a \in Nat : a = p + l
  OBVIOUS
<1>1. e = IF a <= n THEN a ELSE n
  BY ONLY a \in Nat, a = p + l, n \in Nat, e = Min({p + l, n}), MinOfTwo
<1> QED BY <1>1

(* A chunk before what is left in the buffer. *)
LEMMA ChunkBefore ==
  ASSUME NEW D, NEW f, NEW p, NEW bytes \in Seq(D), Shifted(bytes, 1, Len(bytes), f, p),
         NEW rest \in Seq(D)
  PROVE  /\ Joined(bytes, rest) \in Seq(D) /\ Len(Joined(bytes, rest)) = Len(bytes) + Len(rest)
         /\ Shifted(Joined(bytes, rest), 1, Len(bytes), f, p)
<1> PICK new : new = Joined(bytes, rest)
  OBVIOUS
<1>1. /\ new \in Seq(D) /\ Len(new) = Len(bytes) + Len(rest)
      /\ \A i \in 1..Len(bytes) + Len(rest) :
           new[i] = IF i <= Len(bytes) THEN bytes[i] ELSE rest[i - Len(bytes)]
  BY ONLY bytes \in Seq(D), rest \in Seq(D), new = Joined(bytes, rest), ConcatProperties
     DEF Joined
<1>2. Len(rest) \in Nat /\ Len(bytes) \in Nat
  BY LenProperties
<1>3. ASSUME NEW k \in 1..Len(bytes) PROVE new[k] = f[p + k]
  <2>1. k \in 1..Len(bytes) + Len(rest) /\ k <= Len(bytes)
    BY <1>2
  <2>2. new[k] = bytes[k]
    BY ONLY <1>1, <2>1
  <2>3. bytes[k] = f[p + k]
    BY DEF Shifted
  <2> QED BY ONLY <2>2, <2>3
<1> QED BY ONLY <1>1, <1>3, new = Joined(bytes, rest) DEF Shifted

(* What the base reader reads comes to the front of the buffer. *)
LEMMA BaseRead ==
  ASSUME NEW C, NEW f \in Seq(C), NEW r \in ReaderType(f, C), r.failed => baseEof(r),
         NEW d, d = baseRead(r), NEW n, n = d.position - r.position
  PROVE  /\ d \in ReaderType(f, C) /\ n \in Nat /\ n <= Len(d.buffer)
         /\ d.currentPosition = r.currentPosition /\ d.lastPosition = r.lastPosition
         /\ Shifted(d.buffer, 1, n, f, r.position)
         /\ d.failed => baseEof(d)
<1> PICK p, b : p = r.position /\ b = r.buffer
  OBVIOUS
<1> PICK D : D = C \cup {Stale}
  OBVIOUS
<1> PICK N : N = Len(f)
  OBVIOUS
<1> PICK l : l = Len(b)
  OBVIOUS
<1> PICK e : e = Min({p + l, N})
  OBVIOUS
<1> PICK bytes : bytes = SubSeq(f, p + 1, e)
  OBVIOUS
<1> PICK k : k = Len(bytes)
  OBVIOUS
<1>1. /\ p \in 0..N /\ b \in Seq(D) /\ r.file = f /\ r.failed \in BOOLEAN /\ r.cloud \in BOOLEAN
  BY ONLY r \in ReaderType(f, C), p = r.position, b = r.buffer, N = Len(f), D = C \cup {Stale}
     DEF ReaderType
<1>2. p \in Nat /\ N \in Nat /\ p <= N /\ l \in Nat
  <2>1. N \in Nat /\ l \in Nat
    BY ONLY <1>1, f \in Seq(C), N = Len(f), l = Len(b), LenProperties
  <2> QED BY ONLY <1>1, <2>1
<1>3. e \in Nat /\ p <= e /\ e <= N /\ e - p <= l /\ (e - p < l => e = N)
  BY ONLY <1>2, e = Min({p + l, N}), ChunkEnd
<1>4. bytes \in Seq(C) /\ Len(bytes) = e - p /\ \A i \in 1..e - p : bytes[i] = f[p + i]
  <2>1. bytes = Part(f, p, e)
    BY ONLY bytes = SubSeq(f, p + 1, e) DEF Part
  <2>2. e <= Len(f)
    BY ONLY <1>3, N = Len(f)
  <2> QED BY ONLY <1>2, <1>3, <2>1, <2>2, f \in Seq(C), PartType
<1>5. k \in Nat /\ k = e - p /\ p + k = e /\ p + k \in 0..N
  BY ONLY <1>2, <1>3, <1>4, k = Len(bytes)
<1>6. C \subseteq D
  BY ONLY D = C \cup {Stale}
<1>7. CASE r.cloud
  <2>1. d = [r EXCEPT !.position = p + k, !.buffer = bytes]
    BY ONLY <1>1, <1>7, d = baseRead(r), p = r.position, b = r.buffer, l = Len(b), N = Len(f),
            e = Min({p + l, N}), bytes = SubSeq(f, p + 1, e), k = Len(bytes)
       DEF baseRead, cloudRead, readBytes
  <2>2. bytes \in Seq(D)
    BY ONLY <1>4, <1>6, SeqMonotonic
  <2>3. /\ d \in ReaderType(f, C)
        /\ d.file = f /\ d.position = p + k /\ d.buffer = bytes /\ d.failed = r.failed
        /\ d.currentPosition = r.currentPosition /\ d.lastPosition = r.lastPosition
    BY ONLY <1>1, <1>5, <2>1, <2>2, r \in ReaderType(f, C), D = C \cup {Stale}, N = Len(f)
       DEF ReaderType
  <2>4. n = k
    BY ONLY <1>2, <1>5, <2>3, p = r.position, n = d.position - r.position
  <2>5. Shifted(bytes, 1, n, f, p)
    BY ONLY <1>4, <1>5, <2>4 DEF Shifted
  <2>6. n <= Len(bytes)
    BY ONLY <1>5, <2>4, k = Len(bytes)
  <2>7. d.failed => baseEof(d)
    <3>1. d.failed => p >= N
      BY ONLY <1>1, <2>3, r.failed => baseEof(r), p = r.position, N = Len(f) DEF baseEof
    <3>2. d.failed => p + k >= N
      BY ONLY <1>2, <1>5, <3>1
    <3> QED BY ONLY <2>3, <3>2, N = Len(f) DEF baseEof
  <2> QED BY ONLY <1>5, <2>3, <2>4, <2>5, <2>6, <2>7, p = r.position
<1>8. CASE ~r.cloud
  <2> PICK rest : rest = SubSeq(b, k + 1, l)
    OBVIOUS
  <2> PICK new : new = bytes \o rest
    OBVIOUS
  <2> PICK z : z = (rest # <<>>)
    OBVIOUS
  <2>1. d = [r EXCEPT !.position = p + k, !.buffer = new, !.failed = z]
    BY ONLY <1>1, <1>8, d = baseRead(r), p = r.position, b = r.buffer, l = Len(b), N = Len(f),
            e = Min({p + l, N}), bytes = SubSeq(f, p + 1, e), k = Len(bytes),
            rest = SubSeq(b, k + 1, l), new = bytes \o rest, z = (rest # <<>>)
       DEF baseRead, localRead
  <2>2. rest \in Seq(D) /\ Len(rest) = l - k
    <3>1. rest = Part(b, k, l)
      BY ONLY rest = SubSeq(b, k + 1, l) DEF Part
    <3>2. k <= l /\ l <= Len(b) /\ k \in Nat /\ l \in Nat /\ b \in Seq(D)
      BY ONLY <1>1, <1>2, <1>3, <1>5, l = Len(b)
    <3>3. Part(b, k, l) \in Seq(D) /\ Len(Part(b, k, l)) = l - k
      BY ONLY <3>2, PartType
    <3> QED BY ONLY <3>1, <3>3
  <2>3. new \in Seq(D) /\ Len(new) = k + Len(rest) /\ Shifted(new, 1, k, f, p)
    <3>1. Len(bytes) = k /\ Shifted(bytes, 1, k, f, p)
      BY ONLY <1>4, <1>5 DEF Shifted
    <3>2. bytes \in Seq(D)
      BY ONLY <1>4, <1>6, SeqMonotonic
    <3>3. /\ Joined(bytes, rest) \in Seq(D)
          /\ Len(Joined(bytes, rest)) = Len(bytes) + Len(rest)
          /\ Shifted(Joined(bytes, rest), 1, Len(bytes), f, p)
      <4>1. Shifted(bytes, 1, Len(bytes), f, p)
        BY ONLY <3>1
      <4>2. rest \in Seq(D)
        BY ONLY <2>2
      <4> QED BY ONLY <4>2, <3>2, <4>1, ChunkBefore
    <3>4. new = Joined(bytes, rest)
      BY ONLY new = bytes \o rest DEF Joined
    <3> QED BY ONLY <3>1, <3>3, <3>4
  <2>4. z \in BOOLEAN
    BY ONLY z = (rest # <<>>)
  <2>5. /\ d \in ReaderType(f, C)
        /\ d.file = f /\ d.position = p + k /\ d.buffer = new /\ d.failed = z
        /\ d.currentPosition = r.currentPosition /\ d.lastPosition = r.lastPosition
    BY ONLY <1>5, <2>1, <2>3, <2>4, r \in ReaderType(f, C), D = C \cup {Stale}, N = Len(f)
       DEF ReaderType
  <2>6. n = k
    BY ONLY <1>2, <1>5, <2>5, p = r.position, n = d.position - r.position
  <2>7. n <= Len(new)
    BY ONLY <1>2, <1>3, <1>5, <2>2, <2>3, <2>6
  <2>8. d.failed => baseEof(d)
    <3>1. z => Len(rest) # 0
      BY ONLY <2>2, z = (rest # <<>>), EmptySeq
    <3>2. z => p + k >= N
      BY ONLY <1>2, <1>3, <1>5, <2>2, <3>1
    <3> QED BY ONLY <2>5, <3>2, N = Len(f) DEF baseEof
  <2> QED BY ONLY <1>5, <2>3, <2>5, <2>6, <2>7, <2>8, p = r.position
<1> QED BY ONLY <1>7, <1>8

(* What a reader's numbers are. *)
LEMMA ReaderNumbers ==
  ASSUME NEW C, NEW f \in Seq(C), NEW r, ReaderOk(r, f, C)
  PROVE  /\ Len(f) \in Nat /\ Len(r.buffer) \in Nat /\ r.file = f /\ r.failed \in BOOLEAN
         /\ r.position \in Nat /\ r.position <= Len(f)
         /\ r.currentPosition \in Nat /\ r.lastPosition \in Nat
         /\ r.currentPosition <= r.lastPosition /\ r.lastPosition <= r.position
         /\ ReadTo(r) \in Nat /\ ReadTo(r) <= r.position
<1>1. r \in ReaderType(f, C)
  BY DEF ReaderOk
<1>2. Len(f) \in Nat /\ r.buffer \in Seq(C \cup {Stale})
  BY <1>1, LenProperties DEF ReaderType
<1>3. Len(r.buffer) \in Nat
  BY ONLY <1>2, LenProperties
<1> QED BY <1>1, <1>2, <1>3 DEF ReaderOk, ReaderType, ReadTo

(* The next chunk is the one from where the base reader was. *)
LEMMA LoadNext ==
  ASSUME NEW C, NEW f \in Seq(C), NEW r, ReaderOk(r, f, C), NEW d, d = loadNextChunk(r)
  PROVE  /\ ReaderOk(d, f, C) /\ ReadTo(d) = r.position /\ r.position <= d.position
<1> PICK p \in Nat : p = r.position
  BY ReaderNumbers
<1> PICK b : b = baseRead(r)
  OBVIOUS
<1> PICK n : n = b.position - p
  OBVIOUS
<1>1. r \in ReaderType(f, C) /\ (r.failed => baseEof(r))
  BY DEF ReaderOk
<1>2. /\ b \in ReaderType(f, C) /\ n \in Nat /\ n <= Len(b.buffer)
      /\ Shifted(b.buffer, 1, n, f, p) /\ (b.failed => baseEof(b))
  <2>1. n = b.position - r.position
    BY ONLY n = b.position - p, p = r.position
  <2>2. /\ b \in ReaderType(f, C) /\ n \in Nat /\ n <= Len(b.buffer)
        /\ Shifted(b.buffer, 1, n, f, r.position) /\ (b.failed => baseEof(b))
    BY ONLY <1>1, <2>1, f \in Seq(C), b = baseRead(r), BaseRead
  <2> QED BY ONLY <2>2, p = r.position
<1>3. d = [b EXCEPT !.lastPosition = n, !.currentPosition = 0]
  BY ONLY d = loadNextChunk(r), b = baseRead(r), n = b.position - p, p = r.position
     DEF loadNextChunk
<1>4. /\ d \in ReaderType(f, C) /\ d.file = b.file /\ d.failed = b.failed
      /\ d.position = b.position /\ d.buffer = b.buffer
      /\ d.lastPosition = n /\ d.currentPosition = 0
  BY ONLY <1>2, <1>3 DEF ReaderType
<1>5. b.position \in Nat
  <2>1. b.position \in 0..Len(f) /\ Len(f) \in Nat
    BY ONLY <1>2, f \in Seq(C), LenProperties DEF ReaderType
  <2> QED BY ONLY <2>1
<1>6. b.position - n = p /\ n <= b.position /\ p <= b.position
  BY ONLY <1>2, <1>5, n = b.position - p, p \in Nat
<1>7. ReadTo(d) = p
  BY ONLY <1>2, <1>4, <1>5, <1>6, p \in Nat DEF ReadTo
<1>8. d.failed => baseEof(d)
  BY ONLY <1>2, <1>4 DEF baseEof
<1>9. Shifted(d.buffer, 1, d.lastPosition, f, d.position - d.lastPosition)
  BY ONLY <1>2, <1>4, <1>6
<1>10. ReaderOk(d, f, C)
  BY ONLY <1>2, <1>4, <1>6, <1>8, <1>9 DEF ReaderOk
<1> QED BY ONLY <1>4, <1>6, <1>7, <1>10, p = r.position

(* What is loaded and not read is the file up to where the base reader is. *)
LEMMA LoadedIs ==
  ASSUME NEW C, NEW f \in Seq(C), NEW r, ReaderOk(r, f, C)
  PROVE  loaded(r) = Part(f, ReadTo(r), r.position)
<1> PICK p \in Nat, j \in Nat, c \in Nat : p = r.position /\ j = r.lastPosition /\ c = r.currentPosition
  BY ReaderNumbers
<1> PICK t : t = r.buffer
  OBVIOUS
<1> PICK m \in Int, a \in Nat, x \in Nat : m = c + 1 /\ a = p - j /\ x = ReadTo(r)
  BY ReaderNumbers
<1>1. 1 <= m /\ m <= j + 1 /\ x = a + m - 1 /\ p = a + j /\ p <= Len(f)
  <2>1. x = p - (j - c) /\ c <= j /\ j <= p /\ p <= Len(f)
    BY ReaderNumbers DEF ReadTo
  <2> QED BY ONLY <2>1, p \in Nat, j \in Nat, c \in Nat, m = c + 1, a = p - j
<1>2. Shifted(t, 1, j, f, a)
  BY ONLY ReaderOk(r, f, C), p = r.position, j = r.lastPosition, a = p - j, t = r.buffer DEF ReaderOk
<1>3. Shifted(t, m, j, f, a)
  BY ONLY <1>1, <1>2, m \in Int, j \in Nat DEF Shifted
<1>4. Slice(t, m, j) = Part(f, x, p)
  BY ONLY <1>1, <1>3, f \in Seq(C), a \in Nat, j \in Nat, m \in Int, x \in Nat, p \in Nat,
          SliceIsPart
<1>5. loaded(r) = Slice(t, m, j)
  BY ONLY m = c + 1, t = r.buffer, c = r.currentPosition, j = r.lastPosition DEF loaded, Slice
<1> QED BY ONLY <1>4, <1>5, x = ReadTo(r), p = r.position

(* Reading some of what is loaded. *)
LEMMA TakeLoaded ==
  ASSUME NEW C, NEW f \in Seq(C), NEW r, ReaderOk(r, f, C), NEW c \in Nat, c <= r.lastPosition,
         NEW d, d = [r EXCEPT !.currentPosition = c]
  PROVE  /\ ReaderOk(d, f, C) /\ ReadTo(d) = r.position - (r.lastPosition - c)
         /\ d.position = r.position /\ d.lastPosition = r.lastPosition /\ d.currentPosition = c
<1>1. r \in ReaderType(f, C)
  BY DEF ReaderOk
<1>2. /\ d \in ReaderType(f, C) /\ d.file = r.file /\ d.position = r.position
      /\ d.failed = r.failed /\ d.buffer = r.buffer /\ d.lastPosition = r.lastPosition
      /\ d.currentPosition = c
  BY ONLY <1>1, c \in Nat, d = [r EXCEPT !.currentPosition = c] DEF ReaderType
<1>3. ReaderOk(d, f, C)
  BY ONLY <1>2, ReaderOk(r, f, C), c <= r.lastPosition DEF ReaderOk, baseEof
<1> QED BY ONLY <1>2, <1>3 DEF ReadTo

(* The end of the file is where all of it has been read. *)
LEMMA EofIs ==
  ASSUME NEW C, NEW f \in Seq(C), NEW r, ReaderOk(r, f, C)
  PROVE  /\ eof(r) <=> ReadTo(r) = Len(f)
         /\ baseEof(r) <=> r.position = Len(f)
         /\ r.currentPosition = r.lastPosition => ReadTo(r) = r.position
BY ReaderNumbers DEF eof, baseEof, ReadTo

(* A line's first and last steps do not change what is read next. *)
LEMMA LineEnds ==
  ASSUME NEW C, NEW f \in Seq(C), NEW r, ReaderOk(r, f, C)
  PROVE  /\ ReaderOk(startOfLine(r), f, C) /\ ReadTo(startOfLine(r)) = ReadTo(r)
         /\ ReaderOk(endOfLine(r), f, C) /\ ReadTo(endOfLine(r)) = ReadTo(r)
<1>1. ReaderOk(loadNextChunk(r), f, C) /\ ReadTo(loadNextChunk(r)) = r.position
  BY LoadNext
<1>2. r.currentPosition = r.lastPosition => ReadTo(r) = r.position
  BY EofIs
<1> QED BY ONLY <1>1, <1>2, ReaderOk(r, f, C) DEF startOfLine, endOfLine

(* No new line is between two places. *)
NoNewline(f, i, j) == \A k \in i + 1..j : f[k] # Newline

(* The chunk c has a line's part from place s on. *)
LinePart(c, f, s) ==
  \E e \in Nat :
    /\ s <= e /\ e <= Len(f) /\ c.chars = Part(f, s, e) /\ NoNewline(f, s, e)
    /\ \/ c.done = TRUE /\ e < Len(f) /\ f[e + 1] = Newline /\ ReadTo(c.reader) = e + 1
       \/ c.done = TRUE /\ e = Len(f) /\ ReadTo(c.reader) = e
       \/ c.done = FALSE /\ e < Len(f) /\ ReadTo(c.reader) = e

(* A chunk of a line: up to a new line, to the end, or all that is loaded. *)
LEMMA LineChunkIs ==
  ASSUME NEW C, NEW f \in Seq(C), NEW r, ReaderOk(r, f, C), NEW c, c = lineChunk(r)
  PROVE  /\ ReaderOk(c.reader, f, C)
         /\ LinePart(c, f, ReadTo(r))
<1> PICK s \in Nat, p \in Nat : s = ReadTo(r) /\ p = r.position
  BY ReaderNumbers
<1> PICK chars : chars = loaded(r)
  OBVIOUS
<1> PICK ends : ends = SelectInSeq(chars, LAMBDA x : x = Newline)
  OBVIOUS
<1> PICK v : v = IF ends = 0 THEN r.currentPosition + Len(chars) ELSE r.currentPosition + ends
  OBVIOUS
<1> PICK taken : taken = [r EXCEPT !.currentPosition = v]
  OBVIOUS
<1>1. s <= p /\ p <= Len(f) /\ Len(f) \in Nat
  BY ReaderNumbers
<1>2. chars = Part(f, s, p)
  BY LoadedIs
<1>3. chars \in Seq(C) /\ Len(chars) = p - s /\ \A k \in 1..p - s : chars[k] = f[s + k]
  <2>1. s <= p /\ p <= Len(f)
    BY ONLY <1>1
  <2>2. /\ Part(f, s, p) \in Seq(C) /\ Len(Part(f, s, p)) = p - s
        /\ \A k \in 1..p - s : Part(f, s, p)[k] = f[s + k]
    BY ONLY <2>1, f \in Seq(C), s \in Nat, p \in Nat, PartType
  <2> QED BY ONLY <1>2, <2>2, Zenon
<1>4. \/ ends = 0 /\ \A i \in 1..Len(chars) : chars[i] # Newline
      \/ ends \in 1..Len(chars) /\ chars[ends] = Newline /\ \A i \in 1..ends - 1 : chars[i] # Newline
  BY ONLY <1>3, ends = SelectInSeq(chars, LAMBDA x : x = Newline), FirstNewline
<1>5. c = CASE ends # 0 -> [reader |-> endOfLine(taken), chars |-> SubSeq(chars, 1, ends - 1),
                            done |-> TRUE]
            [] ends = 0 /\ baseEof(r) -> [reader |-> endOfLine(taken), chars |-> chars, done |-> TRUE]
            [] OTHER -> [reader |-> loadNextChunk(taken), chars |-> chars, done |-> FALSE]
  <2>1. taken = [r EXCEPT !.currentPosition = IF ends = 0 THEN @ + Len(chars) ELSE @ + ends]
    BY ONLY ReaderOk(r, f, C), taken = [r EXCEPT !.currentPosition = v],
            v = IF ends = 0 THEN r.currentPosition + Len(chars) ELSE r.currentPosition + ends
       DEF ReaderOk, ReaderType
  <2> QED BY ONLY <2>1, c = lineChunk(r), chars = loaded(r),
                  ends = SelectInSeq(chars, LAMBDA x : x = Newline), Zenon DEF lineChunk
<1> PICK cur \in Nat, last_ \in Nat : cur = r.currentPosition /\ last_ = r.lastPosition
  BY ReaderNumbers
<1>6. s = p - (last_ - cur) /\ cur <= last_
  BY ReaderNumbers DEF ReadTo
<1>7. /\ v \in Nat /\ v <= last_ /\ v <= r.lastPosition
      /\ ends = 0 => p - (last_ - v) = p
      /\ ends # 0 => ends \in Nat /\ 1 <= ends /\ ends <= p - s /\ p - (last_ - v) = s + ends
  <2>1. CASE ends = 0
    <3>1. v = cur + (p - s)
      BY ONLY <1>3, <2>1, cur = r.currentPosition,
         v = IF ends = 0 THEN r.currentPosition + Len(chars) ELSE r.currentPosition + ends
    <3>2. v \in Nat /\ v <= last_ /\ p - (last_ - v) = p
      BY ONLY <1>1, <1>6, <3>1, s \in Nat, p \in Nat, cur \in Nat, last_ \in Nat
    <3> QED BY ONLY <2>1, <3>2, last_ = r.lastPosition
  <2>2. CASE ends # 0
    <3> PICK n : n = ends
      OBVIOUS
    <3>1. n \in 1..Len(chars)
      BY ONLY <1>4, <2>2, n = ends
    <3>2. n \in 1..p - s
      BY ONLY <1>3, <3>1
    <3>3. v = cur + n
      BY ONLY <2>2, cur = r.currentPosition, n = ends,
         v = IF ends = 0 THEN r.currentPosition + Len(chars) ELSE r.currentPosition + ends
    <3>4. v \in Nat /\ v <= last_ /\ n \in Nat /\ 1 <= n /\ n <= p - s /\ p - (last_ - v) = s + n
      BY ONLY <1>1, <1>6, <3>2, <3>3, s \in Nat, p \in Nat, cur \in Nat, last_ \in Nat
    <3> QED BY ONLY <2>2, <3>4, n = ends, last_ = r.lastPosition
  <2> QED BY ONLY <2>1, <2>2
<1>8. /\ ReaderOk(taken, f, C) /\ ReadTo(taken) = p - (last_ - v)
      /\ taken.position = p
  <2>1. /\ ReaderOk(taken, f, C) /\ ReadTo(taken) = r.position - (r.lastPosition - v)
        /\ taken.position = r.position
    BY ONLY <1>7, f \in Seq(C), ReaderOk(r, f, C), taken = [r EXCEPT !.currentPosition = v],
            TakeLoaded
  <2> QED BY ONLY <2>1, p = r.position, last_ = r.lastPosition
<1>9. /\ ReaderOk(endOfLine(taken), f, C) /\ ReadTo(endOfLine(taken)) = ReadTo(taken)
      /\ ReaderOk(loadNextChunk(taken), f, C) /\ ReadTo(loadNextChunk(taken)) = p
  <2>1. ReaderOk(taken, f, C)
    BY <1>8
  <2>2. /\ ReaderOk(endOfLine(taken), f, C) /\ ReadTo(endOfLine(taken)) = ReadTo(taken)
    BY ONLY <2>1, f \in Seq(C), LineEnds
  <2>3. ReaderOk(loadNextChunk(taken), f, C) /\ ReadTo(loadNextChunk(taken)) = taken.position
    BY ONLY <2>1, f \in Seq(C), LoadNext
  <2> QED BY ONLY <1>8, <2>2, <2>3
<1>10. CASE ends # 0
  <2> PICK e \in Nat : e = s + ends - 1
    BY ONLY <1>7, <1>10, s \in Nat
  <2>1. s <= e /\ e < p /\ ends - 1 \in Nat /\ ends - 1 <= p - s /\ e = s + (ends - 1)
    BY ONLY <1>1, <1>7, <1>10, s \in Nat, p \in Nat, e = s + ends - 1
  <2>2. Slice(chars, 1, ends - 1) = Part(f, s, e)
    BY ONLY <1>1, <1>2, <2>1, f \in Seq(C), s \in Nat, p \in Nat, e \in Nat, PartStart
  <2>3. c = [reader |-> endOfLine(taken), chars |-> SubSeq(chars, 1, ends - 1), done |-> TRUE]
    BY ONLY <1>5, <1>10
  <2>4. /\ c.reader = endOfLine(taken) /\ c.chars = Part(f, s, e) /\ c.done = TRUE
    BY ONLY <2>2, <2>3 DEF Slice
  <2>5. ReadTo(c.reader) = e + 1
    <3>1. ReadTo(c.reader) = s + ends
      BY ONLY <1>7, <1>8, <1>9, <1>10, <2>4
    <3>2. s + ends = e + 1
      BY ONLY <1>7, <1>10, s \in Nat, e = s + ends - 1
    <3> QED BY ONLY <3>1, <3>2
  <2>6. f[e + 1] = Newline
    <3>1. ends \in 1..p - s /\ chars[ends] = Newline /\ e + 1 = s + ends
      BY ONLY <1>3, <1>4, <1>10, <2>1, s \in Nat
    <3> QED BY ONLY <1>3, <3>1
  <2>7. NoNewline(f, s, e)
    <3>1. ASSUME NEW k \in s + 1..e PROVE f[k] # Newline
      <4>1. k - s \in 1..ends - 1 /\ k - s \in 1..p - s /\ s + (k - s) = k
        BY ONLY <2>1, k \in s + 1..e, s \in Nat, p \in Nat, e \in Nat
      <4>2. chars[k - s] # Newline
        BY ONLY <1>4, <1>10, <4>1
      <4> QED BY ONLY <1>3, <4>1, <4>2
    <3> QED BY ONLY <3>1 DEF NoNewline
  <2>8. e < Len(f) /\ e <= Len(f)
    BY ONLY <1>1, <2>1, p \in Nat, e \in Nat
  <2>9. LinePart(c, f, s)
    BY ONLY <2>1, <2>4, <2>5, <2>6, <2>7, <2>8, e \in Nat DEF LinePart
  <2> QED BY ONLY <1>9, <2>4, <2>9, s = ReadTo(r)
<1>11. CASE ends = 0
  <2>1. NoNewline(f, s, p)
    <3>1. ASSUME NEW k \in s + 1..p PROVE f[k] # Newline
      <4>1. k - s \in 1..Len(chars) /\ k - s \in 1..p - s /\ s + (k - s) = k
        BY ONLY <1>3, k \in s + 1..p, s \in Nat, p \in Nat
      <4>2. chars[k - s] # Newline
        BY ONLY <1>4, <1>11, <4>1
      <4> QED BY ONLY <1>3, <4>1, <4>2
    <3> QED BY ONLY <3>1 DEF NoNewline
  <2>2. ReadTo(taken) = p
    BY ONLY <1>7, <1>8, <1>11
  <2>3. baseEof(r) <=> p = Len(f)
    BY EofIs
  <2>4. CASE baseEof(r)
    <3>1. c = [reader |-> endOfLine(taken), chars |-> chars, done |-> TRUE]
      BY ONLY <1>5, <1>11, <2>4
    <3>2. c.reader = endOfLine(taken) /\ c.chars = Part(f, s, p) /\ c.done = TRUE
      BY ONLY <1>2, <3>1
    <3>3. LinePart(c, f, s)
      BY ONLY <1>1, <1>9, <2>1, <2>2, <2>3, <2>4, <3>2, p \in Nat DEF LinePart
    <3> QED BY ONLY <1>9, <3>2, <3>3, s = ReadTo(r)
  <2>5. CASE ~baseEof(r)
    <3>1. c = [reader |-> loadNextChunk(taken), chars |-> chars, done |-> FALSE]
      BY ONLY <1>5, <1>11, <2>5
    <3>2. c.reader = loadNextChunk(taken) /\ c.chars = Part(f, s, p) /\ c.done = FALSE
      BY ONLY <1>2, <3>1
    <3>3. p < Len(f)
      BY ONLY <1>1, <2>3, <2>5, p \in Nat
    <3>4. LinePart(c, f, s)
      BY ONLY <1>1, <1>9, <2>1, <3>2, <3>3, p \in Nat DEF LinePart
    <3> QED BY ONLY <1>9, <3>2, <3>4, s = ReadTo(r)
  <2> QED BY ONLY <2>4, <2>5
<1> QED BY ONLY <1>10, <1>11

(* A chunk of a block: as much as is asked for, to the end, or all that is *)
(* loaded.                                                                 *)
BlockPart(c, f, s, m) ==
  \E e \in Nat :
    /\ s <= e /\ e <= Len(f) /\ c.chars = Part(f, s, e)
    /\ ReadTo(c.reader) = e /\ e - s <= m
    /\ \/ c.done = TRUE /\ (e = s + m \/ e = Len(f))
       \/ c.done = FALSE /\ e < Len(f)

(* What a chunk of a block is. *)
LEMMA ReadChunkIs ==
  ASSUME NEW C, NEW f \in Seq(C), NEW r, ReaderOk(r, f, C), NEW m \in Nat,
         NEW c, c = readChunk(r, m)
  PROVE  /\ ReaderOk(c.reader, f, C)
         /\ BlockPart(c, f, ReadTo(r), m)
<1> PICK s \in Nat, p \in Nat : s = ReadTo(r) /\ p = r.position
  BY ReaderNumbers
<1> PICK chars : chars = loaded(r)
  OBVIOUS
<1> PICK v : v = IF Len(chars) >= m THEN r.currentPosition + m ELSE r.lastPosition
  OBVIOUS
<1> PICK taken : taken = [r EXCEPT !.currentPosition = v]
  OBVIOUS
<1>1. s <= p /\ p <= Len(f) /\ Len(f) \in Nat
  BY ReaderNumbers
<1>2. chars = Part(f, s, p)
  BY LoadedIs
<1>3. Len(chars) = p - s
  <2>1. s <= p /\ p <= Len(f)
    BY ONLY <1>1
  <2>2. Len(Part(f, s, p)) = p - s
    BY ONLY <2>1, f \in Seq(C), s \in Nat, p \in Nat, PartType
  <2> QED BY ONLY <1>2, <2>2, Zenon
<1>4. c = CASE Len(chars) >= m -> [reader |-> taken, chars |-> SubSeq(chars, 1, m), done |-> TRUE]
            [] ~(Len(chars) >= m) /\ baseEof(r) -> [reader |-> taken, chars |-> chars, done |-> TRUE]
            [] OTHER -> [reader |-> loadNextChunk(taken), chars |-> chars, done |-> FALSE]
  <2>1. taken = [r EXCEPT !.currentPosition = IF Len(chars) >= m THEN @ + m ELSE r.lastPosition]
    BY ONLY ReaderOk(r, f, C), taken = [r EXCEPT !.currentPosition = v],
            v = IF Len(chars) >= m THEN r.currentPosition + m ELSE r.lastPosition
       DEF ReaderOk, ReaderType
  <2> QED BY ONLY <2>1, c = readChunk(r, m), chars = loaded(r), Zenon DEF readChunk
<1> PICK cur \in Nat, last_ \in Nat : cur = r.currentPosition /\ last_ = r.lastPosition
  BY ReaderNumbers
<1>5. s = p - (last_ - cur) /\ cur <= last_
  BY ReaderNumbers DEF ReadTo
<1>6. /\ v \in Nat /\ v <= r.lastPosition
      /\ Len(chars) >= m => m <= p - s /\ p - (last_ - v) = s + m
      /\ ~(Len(chars) >= m) => p - s <= m /\ p - (last_ - v) = p
  <2>1. v = IF p - s >= m THEN cur + m ELSE last_
    BY ONLY <1>3, cur = r.currentPosition, last_ = r.lastPosition,
       v = IF Len(chars) >= m THEN r.currentPosition + m ELSE r.lastPosition
  <2>2. /\ v \in Nat /\ v <= last_
        /\ p - s >= m => m <= p - s /\ p - (last_ - v) = s + m
        /\ ~(p - s >= m) => p - s <= m /\ p - (last_ - v) = p
    BY ONLY <1>1, <1>5, <2>1, s \in Nat, p \in Nat, m \in Nat, cur \in Nat, last_ \in Nat
  <2> QED BY ONLY <1>3, <2>2, last_ = r.lastPosition
<1>7. /\ ReaderOk(taken, f, C) /\ ReadTo(taken) = p - (last_ - v)
      /\ taken.position = p
  <2>2. v \in Nat /\ v <= r.lastPosition
    BY ONLY <1>6
  <2>1. /\ ReaderOk(taken, f, C) /\ ReadTo(taken) = r.position - (r.lastPosition - v)
        /\ taken.position = r.position
    BY ONLY <2>2, f \in Seq(C), ReaderOk(r, f, C), taken = [r EXCEPT !.currentPosition = v],
            TakeLoaded
  <2> QED BY ONLY <2>1, p = r.position, last_ = r.lastPosition
<1>8. ReaderOk(loadNextChunk(taken), f, C) /\ ReadTo(loadNextChunk(taken)) = p
  <2>1. ReaderOk(taken, f, C)
    BY <1>7
  <2>2. ReaderOk(loadNextChunk(taken), f, C) /\ ReadTo(loadNextChunk(taken)) = taken.position
    BY ONLY <2>1, f \in Seq(C), LoadNext
  <2> QED BY ONLY <1>7, <2>2
<1>9. CASE Len(chars) >= m
  <2> PICK e \in Nat : e = s + m
    OBVIOUS
  <2>1. s <= e /\ e <= p /\ m <= p - s /\ e <= Len(f) /\ e - s <= m
    BY ONLY <1>1, <1>6, <1>9, s \in Nat, p \in Nat, m \in Nat, e = s + m
  <2>2. Slice(chars, 1, m) = Part(f, s, e)
    BY ONLY <1>1, <1>2, <2>1, f \in Seq(C), s \in Nat, p \in Nat, e \in Nat, m \in Nat, e = s + m,
            PartStart
  <2>3. c = [reader |-> taken, chars |-> SubSeq(chars, 1, m), done |-> TRUE]
    BY ONLY <1>4, <1>9
  <2>4. c.reader = taken /\ c.chars = Part(f, s, e) /\ c.done = TRUE
    BY ONLY <2>2, <2>3 DEF Slice
  <2>5. ReadTo(c.reader) = e
    BY ONLY <1>6, <1>7, <1>9, <2>4, e = s + m
  <2> QED BY ONLY <1>7, <2>1, <2>4, <2>5, e \in Nat, e = s + m, s = ReadTo(r) DEF BlockPart
<1>10. CASE ~(Len(chars) >= m)
  <2>1. ReadTo(taken) = p /\ p - s <= m
    BY ONLY <1>6, <1>7, <1>10
  <2>2. baseEof(r) <=> p = Len(f)
    BY EofIs
  <2>3. CASE baseEof(r)
    <3>1. c = [reader |-> taken, chars |-> chars, done |-> TRUE]
      BY ONLY <1>4, <1>10, <2>3
    <3>2. c.reader = taken /\ c.chars = Part(f, s, p) /\ c.done = TRUE
      BY ONLY <1>2, <3>1
    <3> QED BY ONLY <1>1, <1>7, <2>1, <2>2, <2>3, <3>2, p \in Nat, s = ReadTo(r)
                 DEF BlockPart
  <2>4. CASE ~baseEof(r)
    <3>1. c = [reader |-> loadNextChunk(taken), chars |-> chars, done |-> FALSE]
      BY ONLY <1>4, <1>10, <2>4
    <3>2. c.reader = loadNextChunk(taken) /\ c.chars = Part(f, s, p) /\ c.done = FALSE
      BY ONLY <1>2, <3>1
    <3>3. p < Len(f)
      BY ONLY <1>1, <2>2, <2>4, p \in Nat
    <3> QED BY ONLY <1>1, <1>8, <2>1, <3>2, <3>3, p \in Nat, s = ReadTo(r)
                 DEF BlockPart
  <2> QED BY ONLY <2>3, <2>4
<1> QED BY ONLY <1>9, <1>10

-----------------------------------------------------------------------------
(* What a call should answer.                                              *)

(* The rest of the file, and its characters. *)
LEMMA RestIs ==
  ASSUME NEW C, NEW f \in Seq(C), NEW p \in Nat, p <= Len(f), NEW rest,
         rest = SubSeq(f, p + 1, Len(f))
  PROVE  /\ rest = Part(f, p, Len(f)) /\ rest \in Seq(C) /\ Len(rest) = Len(f) - p
         /\ \A k \in 1..Len(f) - p : rest[k] = f[p + k]
<1>1. rest = Part(f, p, Len(f))
  BY ONLY rest = SubSeq(f, p + 1, Len(f)) DEF Part
<1> PICK n \in Nat : n = Len(f)
  BY LenProperties
<1>2. p <= n /\ n <= Len(f)
  OBVIOUS
<1>3. /\ Part(f, p, n) \in Seq(C) /\ Len(Part(f, p, n)) = n - p
      /\ \A k \in 1..n - p : Part(f, p, n)[k] = f[p + k]
  BY ONLY <1>2, f \in Seq(C), p \in Nat, n \in Nat, PartType
<1> QED BY ONLY <1>1, <1>3, n = Len(f), Zenon

(* What readLine is to answer from p: up to the line's end e, and it goes past the new line. *)
IsLine(asked, f, p, e) ==
  /\ Expected("readLine", asked).answer = Part(f, p, e)
  /\ Expected("readLine", asked).place = IF e = Len(f) THEN e ELSE e + 1

(* A line ends before the first new line, or with the file. *)
LEMMA ExpectedLine ==
  ASSUME NEW C, NEW f \in Seq(C), f = setup.source, NEW p \in Nat, NEW e \in Nat, p <= e,
         e <= Len(f), NoNewline(f, p, e), e = Len(f) \/ f[e + 1] = Newline, NEW asked, place = p
  PROVE  IsLine(asked, f, p, e)
<1> PICK N \in Nat : N = Len(f)
  BY LenProperties
<1> PICK rest : rest = SubSeq(f, p + 1, Len(f))
  OBVIOUS
<1> PICK line : line = SelectInSeq(rest, LAMBDA c : c = Newline)
  OBVIOUS
<1> PICK size : size = IF line # 0 THEN line - 1 ELSE Len(rest)
  OBVIOUS
<1>1. /\ Expected("readLine", asked).answer = SubSeq(rest, 1, size)
      /\ Expected("readLine", asked).place = p + (IF line # 0 THEN line ELSE size)
  BY ONLY f = setup.source, rest = SubSeq(f, p + 1, Len(f)), place = p,
          line = SelectInSeq(rest, LAMBDA c : c = Newline),
          size = IF line # 0 THEN line - 1 ELSE Len(rest) DEF Expected
<1>2. /\ rest = Part(f, p, N) /\ rest \in Seq(C) /\ Len(rest) = N - p
      /\ \A k \in 1..N - p : rest[k] = f[p + k]
  <2>1. p <= N /\ N <= Len(f)
    BY ONLY p <= e, e <= Len(f), p \in Nat, e \in Nat, N = Len(f), N \in Nat
  <2>2. rest = Part(f, p, N)
    BY ONLY rest = SubSeq(f, p + 1, Len(f)), N = Len(f) DEF Part
  <2>3. /\ Part(f, p, N) \in Seq(C) /\ Len(Part(f, p, N)) = N - p
        /\ \A k \in 1..N - p : Part(f, p, N)[k] = f[p + k]
    BY ONLY <2>1, f \in Seq(C), p \in Nat, N \in Nat, PartType
  <2> QED BY ONLY <2>2, <2>3, Zenon
<1>3. \/ line = 0 /\ \A i \in 1..Len(rest) : rest[i] # Newline
      \/ line \in 1..Len(rest) /\ rest[line] = Newline /\ \A i \in 1..line - 1 : rest[i] # Newline
  BY ONLY <1>2, line = SelectInSeq(rest, LAMBDA c : c = Newline), FirstNewline
<1>4. p <= e /\ e <= N /\ p <= N
  BY ONLY p <= e, e <= Len(f), p \in Nat, e \in Nat, N = Len(f), N \in Nat
<1>5. ASSUME NEW k \in 1..e - p PROVE rest[k] # Newline
  <2>1. k \in 1..N - p /\ p + k \in p + 1..e
    BY ONLY <1>4, k \in 1..e - p, p \in Nat, e \in Nat, N \in Nat
  <2> QED BY ONLY <1>2, <2>1, NoNewline(f, p, e) DEF NoNewline
<1>6. line = IF e = N THEN 0 ELSE e + 1 - p
  <2>1. CASE e = N
    <3>1. ASSUME NEW n, n \in 1..Len(rest) PROVE rest[n] # Newline
      BY ONLY <1>2, <1>5, <2>1, <3>1
    <3> QED BY ONLY <1>3, <2>1, <3>1
  <2>2. CASE e # N
    <3> PICK n \in Nat : n = e + 1 - p
      BY ONLY <1>4, p \in Nat, e \in Nat
    <3>1. n \in 1..N - p /\ p + n = e + 1 /\ e - p = n - 1
      BY ONLY <1>4, <2>2, n = e + 1 - p, p \in Nat, e \in Nat, N \in Nat
    <3>2. rest[n] = Newline
      BY ONLY <1>2, <2>2, <3>1, e = Len(f) \/ f[e + 1] = Newline, N = Len(f)
    <3>3. n \in 1..Len(rest)
      BY ONLY <1>2, <3>1
    <3>4. line \in 1..Len(rest) /\ rest[line] = Newline /\ \A i \in 1..line - 1 : rest[i] # Newline
      BY ONLY <1>3, <3>2, <3>3
    <3> PICK m \in Nat : m = line
      BY ONLY <1>2, <3>4, <1>4, N \in Nat, p \in Nat
    <3>5. ~(n < m)
      <4>1. n < m => n \in 1..m - 1
        BY ONLY <3>1, n \in Nat, m \in Nat
      <4> QED BY ONLY <3>2, <3>4, <4>1, m = line
    <3>6. ~(m < n)
      <4>1. 1 <= m
        BY ONLY <3>4, m = line
      <4>2. m < n => m \in 1..e - p
        BY ONLY <3>1, <4>1, n \in Nat, m \in Nat
      <4> QED BY ONLY <1>5, <3>4, <4>2, m = line
    <3>7. m = n
      BY ONLY <3>5, <3>6, n \in Nat, m \in Nat
    <3> QED BY ONLY <2>2, <3>7, m = line, n = e + 1 - p
  <2> QED BY ONLY <2>1, <2>2
<1>7. size = e - p /\ size \in Nat /\ size <= N - p /\ p + (IF line # 0 THEN line ELSE size) = IF e = N THEN e ELSE e + 1
  <2>1. size = IF line # 0 THEN line - 1 ELSE N - p
    BY ONLY <1>2, size = IF line # 0 THEN line - 1 ELSE Len(rest)
  <2> QED BY ONLY <1>4, <1>6, <2>1, p \in Nat, e \in Nat, N \in Nat
<1>8. SubSeq(rest, 1, size) = Part(f, p, e)
  <2> PICK n \in Nat : n = e - p
    BY ONLY <1>7
  <2>1. p <= N /\ N <= Len(f) /\ n <= N - p /\ e = p + n
    BY ONLY <1>4, n = e - p, p \in Nat, e \in Nat, N \in Nat, N = Len(f)
  <2>2. Slice(Part(f, p, N), 1, n) = Part(f, p, e)
    BY ONLY <2>1, f \in Seq(C), p \in Nat, N \in Nat, e \in Nat, n \in Nat, PartStart
  <2>3. rest = Part(f, p, N) /\ size = n
    BY ONLY <1>2, <1>7, n = e - p
  <2> QED BY ONLY <2>2, <2>3, Zenon DEF Slice
<1>9. Expected("readLine", asked).answer = Part(f, p, e)
  BY ONLY <1>1, <1>8, Zenon
<1>10. Expected("readLine", asked).place = IF e = Len(f) THEN e ELSE e + 1
  BY ONLY <1>1, <1>7, N = Len(f), Zenon
<1> QED BY ONLY <1>9, <1>10, Zenon DEF IsLine

(* A block is as long as was asked for, or ends with the file. *)
LEMMA ExpectedBlock ==
  ASSUME NEW C, NEW f \in Seq(C), f = setup.source, NEW p \in Nat, NEW e \in Nat, p <= e,
         e <= Len(f), NEW asked \in Nat, place = p,
         asked = e - p \/ (e = Len(f) /\ e - p <= asked)
  PROVE  /\ Expected("read", asked).answer = Part(f, p, e)
         /\ Expected("read", asked).place = e
<1> PICK N \in Nat : N = Len(f)
  BY LenProperties
<1> PICK rest : rest = SubSeq(f, p + 1, Len(f))
  OBVIOUS
<1> PICK size : size = Min({asked, Len(rest)})
  OBVIOUS
<1>1. /\ Expected("read", asked).answer = SubSeq(rest, 1, size)
      /\ Expected("read", asked).place = p + size
  BY ONLY f = setup.source, rest = SubSeq(f, p + 1, Len(f)), place = p,
          size = Min({asked, Len(rest)}) DEF Expected
<1>2. rest = Part(f, p, N) /\ Len(rest) = N - p
  <2>1. p <= Len(f)
    BY ONLY p <= e, e <= Len(f), p \in Nat, e \in Nat, N = Len(f), N \in Nat
  <2>2. rest = Part(f, p, Len(f)) /\ Len(rest) = Len(f) - p
    BY ONLY <2>1, f \in Seq(C), p \in Nat, rest = SubSeq(f, p + 1, Len(f)), RestIs
  <2> QED BY ONLY <2>2, N = Len(f), Zenon
<1>3. p <= e /\ e <= N /\ p <= N
  BY ONLY p <= e, e <= Len(f), p \in Nat, e \in Nat, N = Len(f), N \in Nat
<1> PICK n \in Nat : n = e - p
  BY ONLY <1>3, p \in Nat, e \in Nat
<1> PICK l \in Nat : l = N - p
  BY ONLY <1>3, p \in Nat, N \in Nat
<1>4. size = n
  <2>1. size = Min({asked, l})
    BY ONLY <1>2, size = Min({asked, Len(rest)}), l = N - p
  <2>2. asked \in Int /\ l \in Int
    BY ONLY asked \in Nat, l \in Nat
  <2>3. size = IF asked <= l THEN asked ELSE l
    BY ONLY <2>1, <2>2, MinOfTwo
  <2>4. asked = n \/ (e = N /\ n <= asked)
    BY ONLY asked = e - p \/ (e = Len(f) /\ e - p <= asked), n = e - p, N = Len(f)
  <2> QED BY ONLY <1>3, <2>3, <2>4, n = e - p, l = N - p, p \in Nat, e \in Nat, N \in Nat,
                  asked \in Nat
<1>5. p <= N /\ N <= Len(f) /\ n <= N - p /\ e = p + n
  BY ONLY <1>3, n = e - p, p \in Nat, e \in Nat, N \in Nat, N = Len(f)
<1>6. Slice(Part(f, p, N), 1, n) = Part(f, p, e)
  BY ONLY <1>5, f \in Seq(C), p \in Nat, N \in Nat, e \in Nat, n \in Nat, PartStart
<1>7. SubSeq(rest, 1, size) = Part(f, p, e)
  BY ONLY <1>2, <1>4, <1>6, Zenon DEF Slice
<1> QED BY ONLY <1>1, <1>4, <1>5, <1>7

-----------------------------------------------------------------------------
(* Reading: what the call under way has is the file from its place to      *)
(* where the reader is; between calls the reader is at the place.          *)

Reading == pc \in {"readLine", "read"}
Between == pc \in {"next", "write"} \/ (pc = "upload" /\ after = "write")
ReaderInv ==
  /\ setup \in Setups
  /\ ReaderOk(reader, setup.source, ToSet(setup.source))
  /\ place \in Nat /\ place <= Len(setup.source)
CallInv ==
  Reading =>
    /\ place < Len(setup.source) /\ place <= ReadTo(reader)
    /\ answer = Part(setup.source, place, ReadTo(reader)) /\ remaining \in Nat
    /\ pc = "readLine" => NoNewline(setup.source, place, ReadTo(reader))
ReadingInv ==
  /\ ReaderInv /\ CallInv
  /\ after \in {"none", "write", "close", "closeInDestructor"}
  /\ Between => place = ReadTo(reader)
  /\ last.call # "none" => last.answer = last.expected

(* The file is a sequence of its characters. *)
LEMMA SourceType ==
  ASSUME setup \in Setups
  PROVE  setup.source \in Seq(ToSet(setup.source)) /\ Len(setup.source) \in Nat
<1>1. setup.source \in Seq(ToSet(setup.source))
  BY FilesAssumption
<1> QED BY ONLY <1>1, LenProperties

(* A new reader is at the start of its file. *)
LEMMA NewReader ==
  ASSUME NEW C, NEW f \in Seq(C), NEW cloud \in BOOLEAN, NEW n \in Nat,
         NEW r, r = Reader(f, cloud, n)
  PROVE  ReaderOk(r, f, C) /\ ReadTo(r) = 0
<1> PICK b : b = [i \in 1..n |-> Stale]
  OBVIOUS
<1>1. b \in Seq(C \cup {Stale}) /\ Len(b) = n
  BY ONLY b = [i \in 1..n |-> Stale], n \in Nat
<1>2. Len(f) \in Nat
  BY LenProperties
<1>3. r = [file |-> f, cloud |-> cloud, position |-> 0, failed |-> FALSE, buffer |-> b,
           currentPosition |-> 0, lastPosition |-> 0]
  BY ONLY r = Reader(f, cloud, n), b = [i \in 1..n |-> Stale] DEF Reader
<1>4. r \in ReaderType(f, C)
  BY ONLY <1>1, <1>2, <1>3, cloud \in BOOLEAN DEF ReaderType
<1>5. /\ r.position = 0 /\ r.failed = FALSE /\ r.buffer = b /\ r.currentPosition = 0
      /\ r.lastPosition = 0
  BY ONLY <1>3
<1>6. Shifted(b, 1, 0, f, 0)
  BY DEF Shifted
<1> QED BY ONLY <1>1, <1>4, <1>5, <1>6, n \in Nat DEF ReaderOk, ReadTo

LEMMA ReadingInit ==
  ASSUME Init
  PROVE  ReadingInv
<1>1. setup \in Setups /\ reader = Reader(setup.source, setup.cloud, setup.readSize)
  BY DEF Init
<1>2. setup.cloud \in BOOLEAN /\ setup.readSize \in Nat
  BY <1>1, FilesAssumption
<1>3. setup.source \in Seq(ToSet(setup.source)) /\ Len(setup.source) \in Nat
  BY <1>1, SourceType
<1>4. ReaderOk(reader, setup.source, ToSet(setup.source)) /\ ReadTo(reader) = 0
  BY <1>1, <1>2, <1>3, NewReader
<1>5. pc = "next" /\ place = 0 /\ last = [call |-> "none"] /\ after = "none"
  BY DEF Init
<1> QED BY ONLY <1>1, <1>3, <1>4, <1>5
        DEF ReadingInv, ReaderInv, CallInv, Reading, Between

(* Steps that do not read. *)
LEMMA NotReading ==
  ASSUME ReadingInv, setup' = setup, reader' = reader, place' = place, last' = last,
         ~Reading', Between' => Between, after' \in {"none", "write", "close", "closeInDestructor"}
  PROVE  ReadingInv'
<1>1. ReaderInv'
  BY DEF ReadingInv, ReaderInv
<1>2. CallInv'
  BY DEF CallInv
<1> QED BY <1>1, <1>2 DEF ReadingInv

LEMMA ReadLineReading ==
  ASSUME ReadingInv, ReadLine
  PROVE  ReadingInv'
<1> PICK f, C : f = setup.source /\ C = ToSet(setup.source)
  OBVIOUS
<1>1. f \in Seq(C) /\ Len(f) \in Nat /\ ReaderOk(reader, f, C) /\ place \in Nat /\ place <= Len(f)
  BY SourceType DEF ReadingInv, ReaderInv
<1>2. /\ pc = "next" /\ ~eof(reader) /\ reader' = startOfLine(reader)
      /\ pc' = "readLine" /\ answer' = <<>> /\ remaining' = 0
      /\ setup' = setup /\ place' = place /\ last' = last /\ after' = after
  BY DEF ReadLine, writerVars
<1>3. ReaderOk(reader', f, C) /\ ReadTo(reader') = ReadTo(reader)
  BY ONLY <1>1, <1>2, LineEnds
<1>4. place = ReadTo(reader) /\ ReadTo(reader) # Len(f)
  <2>1. place = ReadTo(reader)
    BY <1>2 DEF ReadingInv, Between
  <2>2. ReadTo(reader) # Len(f)
    BY ONLY <1>1, <1>2, EofIs
  <2> QED BY ONLY <2>1, <2>2
<1>5. place < Len(f)
  BY ONLY <1>1, <1>4
<1>6. Part(f, place, place) = <<>> /\ NoNewline(f, place, place)
  BY ONLY <1>1 DEF Part, NoNewline
<1>7. ReaderInv'
  BY <1>1, <1>2, <1>3 DEF ReadingInv, ReaderInv
<1>8. CallInv'
  BY ONLY <1>1, <1>2, <1>3, <1>4, <1>5, <1>6, f = setup.source DEF CallInv, Reading
<1> QED BY <1>2, <1>7, <1>8 DEF ReadingInv, Between

LEMMA ReadReading ==
  ASSUME ReadingInv, NEW size \in ReadSizes, Read(size)
  PROVE  ReadingInv'
<1> PICK f, C : f = setup.source /\ C = ToSet(setup.source)
  OBVIOUS
<1>1. f \in Seq(C) /\ Len(f) \in Nat /\ ReaderOk(reader, f, C) /\ place \in Nat /\ place <= Len(f)
  BY SourceType DEF ReadingInv, ReaderInv
<1>2. /\ pc = "next" /\ ~eof(reader) /\ reader' = reader
      /\ pc' = "read" /\ answer' = <<>> /\ remaining' = size
      /\ setup' = setup /\ place' = place /\ last' = last /\ after' = after
  BY DEF Read, writerVars
<1>3. size \in Nat
  BY FilesAssumption DEF ReadingInv, ReaderInv
<1>4. place = ReadTo(reader) /\ ReadTo(reader) # Len(f)
  <2>1. place = ReadTo(reader)
    BY <1>2 DEF ReadingInv, Between
  <2>2. ReadTo(reader) # Len(f)
    BY ONLY <1>1, <1>2, EofIs
  <2> QED BY ONLY <2>1, <2>2
<1>5. place < Len(f)
  BY ONLY <1>1, <1>4
<1>6. Part(f, place, place) = <<>>
  BY ONLY <1>1 DEF Part
<1>7. ReaderInv'
  BY <1>1, <1>2 DEF ReadingInv, ReaderInv
<1>8. CallInv'
  BY ONLY <1>1, <1>2, <1>3, <1>4, <1>5, <1>6, f = setup.source DEF CallInv, Reading
<1> QED BY <1>2, <1>7, <1>8 DEF ReadingInv, Between

(* Where a chunk leads to, when it is the part from where the reader was   *)
(* to place e.                                                             *)
LEMMA ChunkReading ==
  ASSUME ReadingInv, Reading, NEW C, NEW f \in Seq(C), f = setup.source, C = ToSet(f),
         NEW e \in Nat, ReadTo(reader) <= e, e <= Len(f), answer' = Part(f, place, e),
         setup' = setup, after' = after, ReaderOk(reader', f, C), remaining' \in Nat,
         \/ /\ pc' \in {"next", "write"} /\ last'.answer = last'.expected
            /\ place' \in Nat /\ place' <= Len(f) /\ ReadTo(reader') = place'
         \/ /\ pc' = pc /\ last' = last /\ place' = place /\ ReadTo(reader') = e
            /\ pc = "readLine" => NoNewline(f, ReadTo(reader), e)
  PROVE  ReadingInv'
<1>1. /\ place \in Nat /\ place <= Len(f) /\ Len(f) \in Nat /\ ReadTo(reader) \in Nat
  BY SourceType, ReaderNumbers DEF ReadingInv, ReaderInv
<1>2. /\ place < Len(f) /\ place <= ReadTo(reader)
      /\ pc = "readLine" => NoNewline(f, place, ReadTo(reader))
  BY DEF ReadingInv, CallInv
<1>3. CASE /\ pc' \in {"next", "write"} /\ last'.answer = last'.expected
           /\ place' \in Nat /\ place' <= Len(f) /\ ReadTo(reader') = place'
  <2>1. ReaderInv'
    BY <1>3 DEF ReadingInv, ReaderInv
  <2>2. CallInv'
    BY <1>3 DEF CallInv, Reading
  <2> QED BY <1>3, <2>1, <2>2 DEF ReadingInv
<1>4. CASE /\ pc' = pc /\ last' = last /\ place' = place /\ ReadTo(reader') = e
           /\ pc = "readLine" => NoNewline(f, ReadTo(reader), e)
  <2>1. ReaderInv'
    BY <1>4 DEF ReadingInv, ReaderInv
  <2>2. pc = "readLine" => NoNewline(f, place, e)
    BY ONLY <1>1, <1>2, <1>4, e \in Nat DEF NoNewline
  <2>3. place <= e
    BY ONLY <1>1, <1>2, ReadTo(reader) <= e, e \in Nat
  <2>4. CallInv'
    BY ONLY <1>2, <1>4, <2>2, <2>3, f = setup.source, setup' = setup, remaining' \in Nat,
            answer' = Part(f, place, e) DEF CallInv, Reading
  <2>5. ~Between'
    BY <1>4 DEF Reading, Between
  <2> QED BY <1>4, <2>1, <2>4, <2>5 DEF ReadingInv
<1> QED BY ONLY <1>3, <1>4,
           \/ /\ pc' \in {"next", "write"} /\ last'.answer = last'.expected
              /\ place' \in Nat /\ place' <= Len(f) /\ ReadTo(reader') = place'
           \/ /\ pc' = pc /\ last' = last /\ place' = place /\ ReadTo(reader') = e
              /\ pc = "readLine" => NoNewline(f, ReadTo(reader), e)

LEMMA ReadChunkReading ==
  ASSUME ReadingInv, ReadChunk
  PROVE  ReadingInv'
<1> PICK f, C : f = setup.source /\ C = ToSet(f)
  OBVIOUS
<1>1. f \in Seq(C) /\ Len(f) \in Nat /\ ReaderOk(reader, f, C)
  BY SourceType DEF ReadingInv, ReaderInv
<1> PICK s \in Nat, p \in Nat, N \in Nat : s = ReadTo(reader) /\ p = place /\ N = Len(f)
  <2>1. ReadTo(reader) \in Nat
    BY ONLY <1>1, ReaderNumbers
  <2> QED BY <1>1, <2>1 DEF ReadingInv, ReaderInv
<1>2. pc \in {"readLine", "read"} /\ Reading
  BY DEF ReadChunk, Reading
<1>3. /\ p < N /\ p <= s /\ answer = Part(f, p, s) /\ remaining \in Nat
      /\ pc = "readLine" => NoNewline(f, p, s)
  BY <1>2 DEF ReadingInv, CallInv
<1>0. PICK chunk \in {IF pc = "readLine" THEN lineChunk(reader) ELSE readChunk(reader, remaining)} :
        /\ reader' = chunk.reader
        /\ answer' = answer \o chunk.chars
        /\ remaining' = IF pc = "read" THEN remaining - Len(chunk.chars) ELSE 0
        /\ IF ~chunk.done
           THEN UNCHANGED <<pc, place, last, toWrite>>
           ELSE LET expected == Expected(pc, Len(answer') + remaining')
                IN  /\ last' = [call |-> pc, answer |-> answer', expected |-> expected.answer]
                    /\ place' = expected.place
                    /\ toWrite' = IF Transfers THEN <<answer', <<Newline>>>> ELSE <<>>
                    /\ pc' = IF Transfers THEN "write" ELSE "next"
  BY ONLY ReadChunk, Zenon DEF ReadChunk
<1>4. /\ chunk = (IF pc = "readLine" THEN lineChunk(reader) ELSE readChunk(reader, remaining))
      /\ reader' = chunk.reader /\ answer' = answer \o chunk.chars
      /\ remaining' = IF pc = "read" THEN remaining - Len(chunk.chars) ELSE 0
      /\ \/ ~chunk.done /\ pc' = pc /\ place' = place /\ last' = last
         \/ /\ chunk.done /\ pc' \in {"next", "write"}
            /\ last'.answer = answer'
            /\ last'.expected = Expected(pc, Len(answer') + remaining').answer
            /\ place' = Expected(pc, Len(answer') + remaining').place
  <2>1. chunk = (IF pc = "readLine" THEN lineChunk(reader) ELSE readChunk(reader, remaining))
    OBVIOUS
  <2>2. CASE ~chunk.done
    <3>1. pc' = pc /\ place' = place /\ last' = last
      BY ONLY <1>0, <2>2
    <3> QED BY ONLY <1>0, <2>1, <2>2, <3>1, Zenon
  <2>3. CASE chunk.done
    <3> PICK expected : expected = Expected(pc, Len(answer') + remaining')
      OBVIOUS
    <3>1. /\ last' = [call |-> pc, answer |-> answer', expected |-> expected.answer]
          /\ place' = expected.place /\ pc' = IF Transfers THEN "write" ELSE "next"
      BY ONLY <1>0, <2>3, expected = Expected(pc, Len(answer') + remaining'), Zenon
    <3>2. last'.answer = answer' /\ last'.expected = expected.answer
      BY ONLY <3>1
    <3>3. pc' \in {"next", "write"}
      BY ONLY <3>1
    <3> QED BY ONLY <1>0, <2>1, <2>3, <3>1, <3>2, <3>3,
                    expected = Expected(pc, Len(answer') + remaining'), Zenon
  <2> QED BY ONLY <2>2, <2>3
<1>5. setup' = setup /\ after' = after
  BY DEF ReadChunk
<1>6. ASSUME NEW e \in Nat, s <= e, e <= N, chunk.chars = Part(f, s, e)
      PROVE  answer' = Part(f, p, e) /\ Len(answer') = e - p /\ Len(chunk.chars) = e - s
  <2>1. e <= Len(f) /\ p <= e
    BY ONLY <1>3, <1>6, N = Len(f), s \in Nat, p \in Nat, e \in Nat
  <2>2. Part(f, p, s) \o Part(f, s, e) = Part(f, p, e)
    <3>1. f \in Seq(C) /\ p <= s /\ s <= e
      BY ONLY <1>1, <1>3, <1>6
    <3> QED BY ONLY <2>1, <3>1, s \in Nat, p \in Nat, e \in Nat, PartJoin
  <2>6. f \in Seq(C) /\ s <= e
    BY ONLY <1>1, <1>6
  <2>3. Len(Part(f, p, e)) = e - p
    BY ONLY <2>1, <2>6, p \in Nat, e \in Nat, PartLen
  <2>4. Len(Part(f, s, e)) = e - s
    BY ONLY <2>1, <2>6, s \in Nat, e \in Nat, PartLen
  <2>5. answer' = Part(f, p, e)
    BY ONLY <1>3, <1>4, <1>6, <2>2, Zenon
  <2> QED BY ONLY <1>6, <2>3, <2>4, <2>5
<1>7. CASE pc = "readLine"
  <2>1. chunk = lineChunk(reader)
    BY ONLY <1>4, <1>7
  <2>2. ReaderOk(chunk.reader, f, C) /\ LinePart(chunk, f, ReadTo(reader))
    <3>1. f \in Seq(C) /\ ReaderOk(reader, f, C)
      BY ONLY <1>1
    <3> QED BY ONLY <2>1, <3>1, LineChunkIs
  <2>3. PICK e \in Nat :
          /\ s <= e /\ e <= N /\ chunk.chars = Part(f, s, e) /\ NoNewline(f, s, e)
          /\ \/ chunk.done = TRUE /\ e < N /\ f[e + 1] = Newline /\ ReadTo(chunk.reader) = e + 1
             \/ chunk.done = TRUE /\ e = N /\ ReadTo(chunk.reader) = e
             \/ chunk.done = FALSE /\ e < N /\ ReadTo(chunk.reader) = e
    BY ONLY <2>2, s = ReadTo(reader), N = Len(f) DEF LinePart
  <2>4. answer' = Part(f, p, e) /\ remaining' = 0
    BY ONLY <1>4, <1>6, <1>7, <2>3
  <2>5. NoNewline(f, p, e) /\ p <= e
    BY ONLY <1>3, <1>7, <2>3, s \in Nat, p \in Nat DEF NoNewline
  <2>6. CASE chunk.done = TRUE
    <3>1. e = Len(f) \/ f[e + 1] = Newline
      BY ONLY <2>3, <2>6, N = Len(f)
    <3> PICK asked : asked = Len(answer') + remaining'
      OBVIOUS
    <3>2. /\ Expected("readLine", asked).answer = Part(f, p, e)
          /\ Expected("readLine", asked).place = IF e = Len(f) THEN e ELSE e + 1
      <4>1. e <= Len(f)
        BY ONLY <2>3, N = Len(f)
      <4>2. f \in Seq(C)
        BY ONLY <1>1
      <4>3. place = p
        OBVIOUS
      <4>4. NoNewline(f, p, e)
        BY ONLY <2>5
      <4>5. p <= e
        BY ONLY <2>5
      <4>6. IsLine(asked, f, p, e)
        BY ONLY <3>1, <4>1, <4>2, <4>3, <4>4, <4>5, f = setup.source, p \in Nat, e \in Nat,
                ExpectedLine
      <4> QED BY ONLY <4>6, Zenon DEF IsLine
    <3>3. /\ pc' \in {"next", "write"} /\ last'.answer = Part(f, p, e)
          /\ last'.expected = Part(f, p, e) /\ place' = IF e = Len(f) THEN e ELSE e + 1
      BY ONLY <1>4, <1>7, <2>4, <2>6, <3>2, asked = Len(answer') + remaining'
    <3>4. place' = ReadTo(reader') /\ place' \in Nat /\ place' <= Len(f)
      BY ONLY <1>4, <2>3, <2>6, <3>3, N = Len(f), N \in Nat
    <3>5. /\ ReadTo(reader) <= e /\ e <= Len(f) /\ answer' = Part(f, place, e)
          /\ ReaderOk(reader', f, C) /\ remaining' \in Nat
          /\ pc' \in {"next", "write"} /\ last'.answer = last'.expected
      BY ONLY <1>4, <2>2, <2>3, <2>4, <3>3, p = place, s = ReadTo(reader), N = Len(f)
    <3> QED BY ONLY <1>1, <1>2, <1>5, <3>4, <3>5, ReadingInv, f = setup.source, C = ToSet(f),
                    e \in Nat, ChunkReading
  <2>7. CASE chunk.done = FALSE
    <3>1. pc' = pc /\ last' = last /\ place' = place /\ ReadTo(reader') = e
      BY ONLY <1>4, <2>3, <2>7
    <3>5. /\ ReadTo(reader) <= e /\ e <= Len(f) /\ answer' = Part(f, place, e)
          /\ ReaderOk(reader', f, C) /\ remaining' \in Nat
          /\ pc = "readLine" => NoNewline(f, ReadTo(reader), e)
      BY ONLY <1>4, <2>2, <2>3, <2>4, p = place, s = ReadTo(reader), N = Len(f)
    <3> QED BY ONLY <1>1, <1>2, <1>5, <3>1, <3>5, ReadingInv, f = setup.source, C = ToSet(f),
                    e \in Nat, ChunkReading
  <2> QED BY ONLY <2>3, <2>6, <2>7
<1>8. CASE pc = "read"
  <2> PICK m \in Nat : m = remaining
    BY <1>3
  <2>1. chunk = readChunk(reader, m)
    BY ONLY <1>4, <1>8, m = remaining
  <2>2. /\ ReaderOk(chunk.reader, f, C)
        /\ BlockPart(chunk, f, ReadTo(reader), m)
    <3>1. f \in Seq(C) /\ ReaderOk(reader, f, C)
      BY ONLY <1>1
    <3> QED BY ONLY <2>1, <3>1, m \in Nat, ReadChunkIs, Zenon
  <2>3. PICK e \in Nat :
          /\ s <= e /\ e <= N /\ chunk.chars = Part(f, s, e)
          /\ ReadTo(chunk.reader) = e /\ e - s <= m
          /\ \/ chunk.done = TRUE /\ (e = s + m \/ e = N)
             \/ chunk.done = FALSE /\ e < N
    BY ONLY <2>2, s = ReadTo(reader), N = Len(f) DEF BlockPart
  <2>4. answer' = Part(f, p, e) /\ Len(answer') = e - p /\ remaining' = m - (e - s)
    BY ONLY <1>4, <1>6, <1>8, <2>3, m = remaining
  <2>5. p <= e /\ remaining' \in Nat
    BY ONLY <1>3, <2>3, <2>4, s \in Nat, p \in Nat, m \in Nat, e \in Nat
  <2>6. CASE chunk.done = TRUE
    <3> PICK asked \in Nat : asked = Len(answer') + remaining'
      BY ONLY <2>4, <2>5, p \in Nat, e \in Nat
    <3>1. asked = e - p \/ (e = Len(f) /\ e - p <= asked)
      <4>1. e = s + m \/ e = N
        BY ONLY <2>3, <2>6
      <4>2. asked = (e - p) + (m - (e - s))
        BY ONLY <2>4, asked = Len(answer') + remaining'
      <4> QED BY ONLY <2>3, <2>5, <4>1, <4>2, s \in Nat, p \in Nat, m \in Nat, e \in Nat, N = Len(f)
    <3>2. /\ Expected("read", asked).answer = Part(f, p, e)
          /\ Expected("read", asked).place = e
      <4>1. e <= Len(f) /\ p <= e
        BY ONLY <2>3, <2>5, N = Len(f)
      <4> QED BY ONLY <1>1, <3>1, <4>1, f = setup.source, p \in Nat, e \in Nat, p = place,
                      asked \in Nat, ExpectedBlock
    <3>3. /\ pc' \in {"next", "write"} /\ last'.answer = Part(f, p, e)
          /\ last'.expected = Part(f, p, e) /\ place' = e
      BY ONLY <1>4, <1>8, <2>4, <2>6, <3>2, asked = Len(answer') + remaining'
    <3>4. place' = ReadTo(reader') /\ place' \in Nat /\ place' <= Len(f)
      BY ONLY <1>4, <2>3, <3>3, N = Len(f)
    <3>5. /\ ReadTo(reader) <= e /\ e <= Len(f) /\ answer' = Part(f, place, e)
          /\ ReaderOk(reader', f, C) /\ remaining' \in Nat
          /\ pc' \in {"next", "write"} /\ last'.answer = last'.expected
      BY ONLY <1>4, <2>2, <2>3, <2>4, <2>5, <3>3, p = place, s = ReadTo(reader), N = Len(f)
    <3> QED BY ONLY <1>1, <1>2, <1>5, <3>4, <3>5, ReadingInv, f = setup.source, C = ToSet(f),
                    e \in Nat, ChunkReading
  <2>7. CASE chunk.done = FALSE
    <3>1. pc' = pc /\ last' = last /\ place' = place /\ ReadTo(reader') = e
      BY ONLY <1>4, <2>3, <2>7
    <3>5. /\ ReadTo(reader) <= e /\ e <= Len(f) /\ answer' = Part(f, place, e)
          /\ ReaderOk(reader', f, C) /\ remaining' \in Nat
          /\ pc = "readLine" => NoNewline(f, ReadTo(reader), e)
      BY ONLY <1>4, <1>8, <2>5, <2>2, <2>3, <2>4, p = place, s = ReadTo(reader), N = Len(f)
    <3> QED BY ONLY <1>1, <1>2, <1>5, <3>1, <3>5, ReadingInv, f = setup.source, C = ToSet(f),
                    e \in Nat, ChunkReading
  <2> QED BY ONLY <2>3, <2>6, <2>7
<1> QED BY ONLY <1>2, <1>7, <1>8

(* Every step keeps it. *)
LEMMA ReadingStep ==
  ASSUME ReadingInv, [Next]_vars
  PROVE  ReadingInv'
<1>0. after \in {"none", "write", "close", "closeInDestructor"}
  BY DEF ReadingInv
<1>1. CASE ReadLine
  BY <1>1, ReadLineReading
<1>2. ASSUME NEW size \in ReadSizes, Read(size) PROVE ReadingInv'
  BY <1>2, ReadReading
<1>3. CASE ReadChunk
  BY <1>3, ReadChunkReading
<1>4. CASE ReadFails
  <2>1. /\ setup' = setup /\ reader' = reader /\ place' = place /\ last' = last /\ after' = after
        /\ pc' \in {"destroy", "gone"}
    BY <1>4 DEF ReadFails, readerVars, writerVars
  <2> QED BY <1>0, <2>1, NotReading DEF Reading, Between
<1>5. CASE WriteRound
  <2>1. /\ setup' = setup /\ reader' = reader /\ place' = place /\ last' = last
        /\ pc = "write" /\ pc' \in {"next", "write", "upload"} /\ after' \in {after, "write"}
    BY <1>5 DEF WriteRound, readerVars
  <2> QED BY <1>0, <2>1, NotReading DEF Reading, Between
<1>6. CASE Close
  <2>1. /\ setup' = setup /\ reader' = reader /\ place' = place /\ last' = last
        /\ pc' \in {after', "upload"} /\ after' \in {"close", "closeInDestructor"}
    BY <1>6 DEF Close, readerVars
  <2> QED BY <2>1, NotReading DEF Reading, Between
<1>7. CASE UploadPart
  <2>1. /\ setup' = setup /\ reader' = reader /\ place' = place /\ last' = last /\ after' = after
        /\ pc = "upload" /\ pc' = after
    BY <1>7 DEF UploadPart, readerVars
  <2> QED BY <1>0, <2>1, NotReading DEF Reading, Between
<1>8. CASE UploadPartFails
  <2>1. /\ setup' = setup /\ reader' = reader /\ place' = place /\ last' = last /\ after' = after
        /\ pc = "upload" /\ pc' \in {"upload", "abort"}
    BY <1>8 DEF UploadPartFails, readerVars
  <2> QED BY <1>0, <2>1, NotReading DEF Reading, Between
<1>9. CASE StreamFails
  <2>1. /\ setup' = setup /\ reader' = reader /\ place' = place /\ last' = last /\ after' = after
        /\ pc' \in {"abort", "terminated", "destroy"}
    BY <1>9 DEF StreamFails, flushThrows, readerVars
  <2> QED BY <1>0, <2>1, NotReading DEF Reading, Between
<1>10. CASE Abort
  <2>1. /\ setup' = setup /\ reader' = reader /\ place' = place /\ last' = last /\ after' = after
        /\ pc' \in {"gone", "terminated", "destroy"}
    BY <1>10 DEF Abort, UploadGivenUp, flushThrows, CompleteGivenUp, readerVars
  <2> QED BY <1>0, <2>1, NotReading DEF Reading, Between
<1>11. CASE BaseClose
  <2>1. /\ setup' = setup /\ reader' = reader /\ place' = place /\ last' = last /\ after' = after
        /\ pc' \in {"gone", "complete"}
    BY <1>11 DEF BaseClose, readerVars
  <2> QED BY <1>0, <2>1, NotReading DEF Reading, Between
<1>12. CASE Complete
  <2>1. /\ setup' = setup /\ reader' = reader /\ place' = place /\ last' = last /\ after' = after
        /\ pc' \in {"gone", "abort", "destroy"}
    BY <1>12 DEF Complete, readerVars
  <2> QED BY <1>0, <2>1, NotReading DEF Reading, Between
<1>13. CASE CompleteFails
  <2>1. /\ setup' = setup /\ reader' = reader /\ place' = place /\ last' = last /\ after' = after
        /\ pc' \in {"gone", "abort", "destroy"}
    BY <1>13 DEF CompleteFails, CompleteGivenUp, readerVars
  <2> QED BY <1>0, <2>1, NotReading DEF Reading, Between
<1>14. CASE UNCHANGED vars
  BY <1>14 DEF vars, ReadingInv, ReaderInv, CallInv, Reading, Between
<1> QED BY <1>1, <1>2, <1>3, <1>4, <1>5, <1>6, <1>7, <1>8, <1>9, <1>10, <1>11, <1>12, <1>13, <1>14
        DEF Next

LEMMA ReadingAlways == Spec => []ReadingInv
<1>1. Init => ReadingInv
  BY ReadingInit
<1>2. ReadingInv /\ [Next]_vars => ReadingInv'
  BY ReadingStep
<1> QED BY <1>1, <1>2, PTL DEF Spec

(* Whatever the sizes of the buffers, the chunks the base reader returns   *)
(* and the calls of readLine and read, every answer is what the file has   *)
(* at the place the calls have come to; eof is reported at the end of the  *)
(* file and nowhere else; and no stream fails before it has come there.    *)
THEOREM AnswersFollow == Spec => []AnswersFollowFile
<1>1. ReadingInv => AnswersFollowFile
  <2> SUFFICES ASSUME ReadingInv PROVE AnswersFollowFile
    OBVIOUS
  <2> PICK f, C : f = setup.source /\ C = ToSet(f)
    OBVIOUS
  <2>1. f \in Seq(C) /\ ReaderOk(reader, f, C)
    BY SourceType DEF ReadingInv, ReaderInv
  <2>2. eof(reader) <=> ReadTo(reader) = Len(f)
    BY ONLY <2>1, EofIs
  <2>3. reader.failed => baseEof(reader)
    BY ONLY <2>1 DEF ReaderOk
  <2> QED BY <2>2, <2>3 DEF AnswersFollowFile, ReadingInv, Between
<1> QED BY <1>1, ReadingAlways, PTL

-----------------------------------------------------------------------------
(* What starts a sequence.                                                 *)

(* Sequence g, with elements of A, starts with x. *)
StartsWith(x, g, A) == x \in Seq(A) /\ \E z \in Seq(A) : g = Joined(x, z)

(* What concatenation does, under its name. *)
LEMMA JoinedIs ==
  ASSUME NEW A, NEW x \in Seq(A), NEW y \in Seq(A)
  PROVE  /\ Joined(x, y) \in Seq(A) /\ Len(Joined(x, y)) = Len(x) + Len(y)
         /\ Joined(x, <<>>) = x /\ Joined(<<>>, x) = x
         /\ \A i \in 1..Len(x) : Joined(x, y)[i] = x[i]
         /\ \A i \in 1..Len(y) : Joined(x, y)[Len(x) + i] = y[i]
<1> PICK s : s = x \o y
  OBVIOUS
<1>1. /\ s \in Seq(A) /\ Len(s) = Len(x) + Len(y)
      /\ \A i \in 1..Len(x) + Len(y) : s[i] = IF i <= Len(x) THEN x[i] ELSE y[i - Len(x)]
  BY ONLY x \in Seq(A), y \in Seq(A), s = x \o y, ConcatProperties
<1>2. Len(x) \in Nat /\ Len(y) \in Nat
  BY LenProperties
<1>3. x \o <<>> = x /\ <<>> \o x = x
  BY ONLY x \in Seq(A), ConcatEmptySeq, Zenon
<1>4. ASSUME NEW i \in 1..Len(x) PROVE s[i] = x[i]
  <2>1. i \in 1..Len(x) + Len(y) /\ i <= Len(x)
    BY <1>2
  <2> QED BY ONLY <1>1, <2>1
<1>5. ASSUME NEW i \in 1..Len(y) PROVE s[Len(x) + i] = y[i]
  <2> PICK k \in Int : k = Len(x) + i
    BY <1>2
  <2>1. k \in 1..Len(x) + Len(y) /\ ~(k <= Len(x)) /\ k - Len(x) = i
    BY ONLY <1>2, k \in Int, k = Len(x) + i, i \in 1..Len(y)
  <2>2. s[k] = y[i]
    BY ONLY <1>1, <2>1
  <2> QED BY ONLY <2>2, k = Len(x) + i
<1> QED BY ONLY <1>1, <1>3, <1>4, <1>5, s = x \o y, Zenon DEF Joined

LEMMA JoinedAssociative ==
  ASSUME NEW A, NEW x \in Seq(A), NEW y \in Seq(A), NEW z \in Seq(A)
  PROVE  Joined(Joined(x, y), z) = Joined(x, Joined(y, z))
<1>1. (x \o y) \o z = x \o (y \o z)
  BY ONLY x \in Seq(A), y \in Seq(A), z \in Seq(A), ConcatAssociative
<1> QED BY ONLY <1>1, Zenon DEF Joined

(* What a sequence starts with is a prefix of it. *)
LEMMA StartIsPrefix ==
  ASSUME NEW A, NEW x, NEW g, StartsWith(x, g, A)
  PROVE  IsPrefix(x, g)
<1>1. x \in Seq(A)
  BY DEF StartsWith
<1> PICK z \in Seq(A) : g = Joined(x, z)
  BY DEF StartsWith
<1>2. /\ g \in Seq(A) /\ Len(g) = Len(x) + Len(z) /\ \A i \in 1..Len(x) : g[i] = x[i]
  <2>1. /\ Joined(x, z) \in Seq(A) /\ Len(Joined(x, z)) = Len(x) + Len(z)
        /\ \A i \in 1..Len(x) : Joined(x, z)[i] = x[i]
    BY ONLY <1>1, z \in Seq(A), JoinedIs
  <2> QED BY ONLY <2>1, g = Joined(x, z), Zenon
<1>3. Len(x) \in Nat /\ Len(z) \in Nat
  BY ONLY <1>1, z \in Seq(A), LenProperties
<1> PICK n \in Nat : n = Len(x)
  BY <1>3
<1>4. Shifted(x, 1, n, x, 0) /\ Shifted(g, 1, n, x, 0)
  BY ONLY <1>2, n = Len(x), n \in Nat DEF Shifted
<1>5. /\ 0 \in Nat /\ 1 \in Int /\ 0 = 0 + 1 - 1 /\ n = 0 + n /\ 1 <= 1 /\ 1 <= n + 1 /\ n <= Len(x)
  BY ONLY n = Len(x), n \in Nat
<1>6. Slice(x, 1, n) = Part(x, 0, n)
  BY ONLY <1>1, <1>4, <1>5, n \in Nat, SliceIsPart
<1>7. Slice(g, 1, n) = Part(x, 0, n)
  BY ONLY <1>1, <1>4, <1>5, n \in Nat, SliceIsPart
<1>8. SubSeq(x, 1, Len(x)) = SubSeq(g, 1, Len(x))
  BY ONLY <1>6, <1>7, n = Len(x), Zenon DEF Slice
<1>9. Len(x) <= Len(g)
  BY ONLY <1>2, <1>3
<1> QED BY ONLY <1>8, <1>9 DEF IsPrefix

(* A start starts what is longer, and what starts it starts it too. *)
LEMMA StartGrows ==
  ASSUME NEW A, NEW x, NEW g, StartsWith(x, g, A), NEW w \in Seq(A)
  PROVE  StartsWith(x, Joined(g, w), A)
<1>1. x \in Seq(A)
  BY DEF StartsWith
<1> PICK z \in Seq(A) : g = Joined(x, z)
  BY DEF StartsWith
<1>2. Joined(g, w) = Joined(x, Joined(z, w))
  BY ONLY <1>1, z \in Seq(A), w \in Seq(A), g = Joined(x, z), JoinedAssociative
<1>3. Joined(z, w) \in Seq(A)
  BY ONLY z \in Seq(A), w \in Seq(A), JoinedIs
<1> QED BY ONLY <1>1, <1>2, <1>3 DEF StartsWith

LEMMA StartOfStart ==
  ASSUME NEW A, NEW x \in Seq(A), NEW y \in Seq(A), NEW g, StartsWith(Joined(x, y), g, A)
  PROVE  StartsWith(x, g, A)
<1> PICK z \in Seq(A) : g = Joined(Joined(x, y), z)
  BY DEF StartsWith
<1>1. g = Joined(x, Joined(y, z))
  BY ONLY x \in Seq(A), y \in Seq(A), z \in Seq(A), g = Joined(Joined(x, y), z), JoinedAssociative
<1>2. Joined(y, z) \in Seq(A)
  BY ONLY y \in Seq(A), z \in Seq(A), JoinedIs
<1> QED BY ONLY x \in Seq(A), <1>1, <1>2 DEF StartsWith

(* A sequence is its beginning and the rest. *)
LEMMA CutInTwo ==
  ASSUME NEW A, NEW x \in Seq(A), NEW n \in Nat, n <= Len(x), NEW m \in Nat, m = n + 1
  PROVE  /\ Slice(x, 1, n) \in Seq(A) /\ Slice(x, m, Len(x)) \in Seq(A)
         /\ Len(Slice(x, 1, n)) = n /\ Len(Slice(x, m, Len(x))) = Len(x) - n
         /\ Joined(Slice(x, 1, n), Slice(x, m, Len(x))) = x
<1> PICK l \in Nat : l = Len(x)
  BY LenProperties
<1>1. 0 \in Nat /\ 0 <= n /\ n <= l /\ l <= Len(x) /\ 0 <= l /\ n <= Len(x)
  BY ONLY n \in Nat, l \in Nat, n <= Len(x), l = Len(x)
<1>2. Part(x, 0, n) \in Seq(A) /\ Len(Part(x, 0, n)) = n - 0
  BY ONLY <1>1, x \in Seq(A), n \in Nat, PartType
<1>3. Part(x, n, l) \in Seq(A) /\ Len(Part(x, n, l)) = l - n
  BY ONLY <1>1, x \in Seq(A), n \in Nat, l \in Nat, PartType
<1>4. Part(x, 0, n) \o Part(x, n, l) = Part(x, 0, l)
  BY ONLY <1>1, x \in Seq(A), n \in Nat, l \in Nat, PartJoin
<1>5. Part(x, 0, l) = x
  <2>1. SubSeq(x, 1, Len(x)) = x
    BY ONLY x \in Seq(A), SubSeqFull
  <2>2. 0 + 1 = 1
    OBVIOUS
  <2> QED BY ONLY <2>1, <2>2, l = Len(x), Zenon DEF Part
<1>6. Slice(x, 1, n) = Part(x, 0, n)
  <2>1. 0 + 1 = 1
    OBVIOUS
  <2> QED BY ONLY <2>1, Zenon DEF Part, Slice
<1>7. Slice(x, m, Len(x)) = Part(x, n, l)
  BY ONLY m = n + 1, l = Len(x), Zenon DEF Part, Slice
<1>8. n - 0 = n
  OBVIOUS
<1> QED BY ONLY <1>2, <1>3, <1>4, <1>5, <1>6, <1>7, <1>8, l = Len(x), Zenon DEF Joined

-----------------------------------------------------------------------------
(* Parts that are put together.                                            *)

(* The first n parts, and these together. *)
FirstParts(parts, n) == [i \in 1..n |-> parts[i]]
Flat(parts, n) == FlattenSeq(FirstParts(parts, n))

(* J puts the first elements of g together, up to each of n. *)
IsJoin(J, g, n) == J = [i \in 1..n |-> IF i = 1 THEN g[i] ELSE J[i - 1] \o g[i]]

(* The recursive function that puts parts together. *)
LEMMA FlatIs ==
  ASSUME NEW parts, NEW n \in Nat
  PROVE  /\ IsJoin(Joins(FirstParts(parts, n)), FirstParts(parts, n), n)
         /\ n # 0 => Flat(parts, n) = Joins(FirstParts(parts, n))[n]
         /\ n = 0 => Flat(parts, n) = <<>>
<1> PICK g : g = FirstParts(parts, n)
  OBVIOUS
<1>1. Len(g) = n
  BY LenProperties DEF FirstParts
<1>2. IsJoin(Joins(g), g, n)
  BY ONLY <1>1, n \in Nat, JoinsExist DEF IsJoin
<1>3. Flat(parts, n) = IF Len(g) = 0 THEN g ELSE Joins(g)[Len(g)]
  BY ONLY g = FirstParts(parts, n) DEF Flat, FlattenSeq, Joins
<1>4. n = 0 => g = <<>>
  BY DEF FirstParts
<1> QED BY ONLY <1>1, <1>2, <1>3, <1>4, g = FirstParts(parts, n), Zenon

(* What the function has is what the parts so far have. *)
LEMMA FlatType ==
  ASSUME NEW A, NEW parts, NEW n \in Nat, \A i \in 1..n : parts[i] \in Seq(A)
  PROVE  Flat(parts, n) \in Seq(A)
<1> PICK g : g = FirstParts(parts, n)
  OBVIOUS
<1> PICK J : J = Joins(g)
  OBVIOUS
<1>1. /\ IsJoin(J, g, n)
      /\ n # 0 => Flat(parts, n) = J[n]
      /\ n = 0 => Flat(parts, n) = <<>>
  BY ONLY n \in Nat, g = FirstParts(parts, n), J = Joins(g), FlatIs, Zenon
<1>2. \A i \in 1..n : g[i] \in Seq(A)
  BY DEF FirstParts
<1> DEFINE M == {m \in Nat : m \in 1..n => J[m] \in Seq(A)}
<1>3. M \in SUBSET Nat /\ 0 \in M
  OBVIOUS
<1>4. ASSUME NEW m \in M PROVE m + 1 \in M
  <2>1. m \in Nat /\ (m \in 1..n => J[m] \in Seq(A))
    BY <1>4
  <2> PICK k \in Nat : k = m + 1
    BY <2>1
  <2>2. ASSUME k \in 1..n PROVE J[k] \in Seq(A)
    <3>1. J[k] = IF k = 1 THEN g[k] ELSE J[k - 1] \o g[k]
      BY ONLY <1>1, <2>2 DEF IsJoin
    <3>2. g[k] \in Seq(A)
      BY ONLY <1>2, <2>2
    <3>3. k # 1 => k - 1 = m /\ m \in 1..n
      BY ONLY <2>1, <2>2, k = m + 1, n \in Nat
    <3>4. k # 1 => J[m] \in Seq(A)
      BY ONLY <2>1, <3>3
    <3>5. k # 1 => J[m] \o g[k] \in Seq(A)
      BY ONLY <3>2, <3>4, ConcatProperties
    <3> QED BY ONLY <3>1, <3>2, <3>3, <3>5
  <2> QED BY ONLY <2>2, k = m + 1, k \in Nat
<1>5. \A m \in Nat : m \in M
  <2> HIDE DEF M
  <2> QED BY ONLY <1>3, <1>4, NatInduct
<1>6. n # 0 => J[n] \in Seq(A)
  BY <1>5
<1>7. <<>> \in Seq(A)
  OBVIOUS
<1> QED BY ONLY <1>1, <1>6, <1>7

(* Only the parts that are put together count. *)
LEMMA FlatSame ==
  ASSUME NEW p, NEW q, NEW n \in Nat, \A i \in 1..n : p[i] = q[i]
  PROVE  Flat(p, n) = Flat(q, n)
<1>1. FirstParts(p, n) = FirstParts(q, n)
  BY DEF FirstParts
<1> QED BY ONLY <1>1, Zenon DEF Flat

(* The next part comes after what is put together. *)
LEMMA FlatNext ==
  ASSUME NEW A, NEW parts, NEW n \in Nat, NEW m \in Nat, m = n + 1,
         \A i \in 1..m : parts[i] \in Seq(A)
  PROVE  Flat(parts, m) = Joined(Flat(parts, n), parts[m])
<1> PICK g, h : g = FirstParts(parts, n) /\ h = FirstParts(parts, m)
  OBVIOUS
<1> PICK G, H : G = Joins(g) /\ H = Joins(h)
  OBVIOUS
<1>1. /\ IsJoin(G, g, n)
      /\ n # 0 => Flat(parts, n) = G[n]
      /\ n = 0 => Flat(parts, n) = <<>>
  BY ONLY n \in Nat, g = FirstParts(parts, n), G = Joins(g), FlatIs, Zenon
<1>2. /\ IsJoin(H, h, m)
      /\ m # 0 => Flat(parts, m) = H[m]
  BY ONLY m \in Nat, h = FirstParts(parts, m), H = Joins(h), FlatIs, Zenon
<1>3. \A i \in 1..n : i \in 1..m /\ g[i] = h[i]
  BY DEF FirstParts
<1> DEFINE M == {k \in Nat : k \in 1..n => G[k] = H[k]}
<1>4. M \in SUBSET Nat /\ 0 \in M
  OBVIOUS
<1>5. ASSUME NEW j \in M PROVE j + 1 \in M
  <2>1. j \in Nat /\ (j \in 1..n => G[j] = H[j])
    BY <1>5
  <2> PICK k \in Nat : k = j + 1
    BY <2>1
  <2>2. ASSUME k \in 1..n PROVE G[k] = H[k]
    <3>1. G[k] = IF k = 1 THEN g[k] ELSE G[k - 1] \o g[k]
      BY ONLY <1>1, <2>2 DEF IsJoin
    <3>2. H[k] = IF k = 1 THEN h[k] ELSE H[k - 1] \o h[k]
      BY ONLY <1>2, <1>3, <2>2 DEF IsJoin
    <3>3. g[k] = h[k]
      BY ONLY <1>3, <2>2
    <3>4. k # 1 => k - 1 = j /\ j \in 1..n
      BY ONLY <2>1, <2>2, k = j + 1, n \in Nat
    <3>5. k # 1 => G[k - 1] = H[k - 1]
      BY ONLY <2>1, <3>4
    <3> QED BY ONLY <3>1, <3>2, <3>3, <3>5, Zenon
  <2> QED BY ONLY <2>2, k = j + 1, k \in Nat
<1>6. \A k \in Nat : k \in M
  <2> HIDE DEF M
  <2> QED BY ONLY <1>4, <1>5, NatInduct
<1>7. m \in 1..m /\ m # 0 /\ m - 1 = n /\ (n = 0 <=> m = 1) /\ (n # 0 => n \in 1..n)
  OBVIOUS
<1>8. H[m] = IF m = 1 THEN h[m] ELSE H[m - 1] \o h[m]
  BY ONLY <1>2, <1>7 DEF IsJoin
<1>9. h[m] = parts[m] /\ parts[m] \in Seq(A)
  BY <1>7 DEF FirstParts
<1>10. CASE n = 0
  <2>1. Joined(<<>>, parts[m]) = parts[m]
    BY ONLY <1>9, ConcatEmptySeq, Zenon DEF Joined
  <2> QED BY ONLY <1>1, <1>2, <1>7, <1>8, <1>9, <1>10, <2>1
<1>11. CASE n # 0
  <2>1. G[n] = H[n]
    BY <1>6, <1>7, <1>11
  <2>2. Flat(parts, m) = H[n] \o parts[m]
    BY ONLY <1>2, <1>7, <1>8, <1>9, <1>11
  <2> QED BY ONLY <1>1, <1>11, <2>1, <2>2, Zenon DEF Joined
<1> QED BY ONLY <1>10, <1>11

-----------------------------------------------------------------------------
(* Lines.                                                                  *)

(* One character more. *)
LEMMA OneMore ==
  ASSUME NEW A, NEW f \in Seq(A), NEW e \in Nat, e < Len(f), NEW y \in Nat, y = e + 1
  PROVE  Part(f, e, y) = <<f[y]>>
<1>1. e <= y /\ y <= Len(f) /\ y - e = 1
  BY LenProperties
<1>2. y \in 1..Len(f)
  BY LenProperties
<1>3. f[y] \in A
  BY ONLY <1>2, f \in Seq(A), ElementOfSeq
<1> PICK s : s = <<f[y]>>
  OBVIOUS
<1>4. s \in Seq(A) /\ Len(s) = 1 /\ s[1] = f[y]
  BY ONLY <1>3, s = <<f[y]>>
<1>5. \A k \in 1..y - e : s[k] = f[e + k]
  BY ONLY <1>1, <1>4, y = e + 1
<1>6. Len(s) = y - e
  BY ONLY <1>1, <1>4
<1>7. s = Part(f, e, y)
  BY ONLY <1>1, <1>4, <1>5, <1>6, f \in Seq(A), e \in Nat, y \in Nat, PartIs
<1> QED BY ONLY <1>7, s = <<f[y]>>

(* All of a file, and nothing of it. *)
LEMMA PartAll ==
  ASSUME NEW A, NEW f \in Seq(A)
  PROVE  Part(f, 0, Len(f)) = f /\ Part(f, 0, 0) = <<>>
<1>1. SubSeq(f, 1, Len(f)) = f
  BY SubSeqFull
<1>2. 0 + 1 = 1
  OBVIOUS
<1>3. SubSeq(f, 1, 0) = <<>>
  OBVIOUS
<1> QED BY ONLY <1>1, <1>2, <1>3, Zenon DEF Part

(* A part from the start on. *)
LEMMA StartType ==
  ASSUME NEW A, NEW f \in Seq(A), NEW p \in Nat, p <= Len(f)
  PROVE  /\ Part(f, 0, p) \in Seq(A) /\ Len(Part(f, 0, p)) = p
         /\ p # 0 => Part(f, 0, p)[p] = f[p]
<1> PICK z \in Nat : z = 0
  OBVIOUS
<1> PICK s : s = Part(f, z, p)
  OBVIOUS
<1>1. z <= p
  OBVIOUS
<1>2. /\ s \in Seq(A) /\ Len(s) = p - z /\ \A k \in 1..p - z : s[k] = f[z + k]
  <2>1. /\ Part(f, z, p) \in Seq(A) /\ Len(Part(f, z, p)) = p - z
        /\ \A k \in 1..p - z : Part(f, z, p)[k] = f[z + k]
    BY ONLY <1>1, f \in Seq(A), p \in Nat, z \in Nat, p <= Len(f), PartType
  <2> QED BY ONLY <2>1, s = Part(f, z, p), Zenon
<1>3. p - z = p /\ z + p = p /\ (p # 0 => p \in 1..p - z)
  OBVIOUS
<1>4. p # 0 => s[p] = f[z + p]
  BY ONLY <1>2, <1>3, Zenon
<1> QED BY ONLY <1>2, <1>3, <1>4, z = 0, s = Part(f, z, p), Zenon

LEMMA StartJoin ==
  ASSUME NEW A, NEW f \in Seq(A), NEW i \in Nat, NEW j \in Nat, i <= j, j <= Len(f)
  PROVE  Joined(Part(f, 0, i), Part(f, i, j)) = Part(f, 0, j)
<1> PICK z \in Nat : z = 0
  OBVIOUS
<1>1. z <= i
  OBVIOUS
<1>2. Part(f, z, i) \o Part(f, i, j) = Part(f, z, j)
  BY ONLY <1>1, f \in Seq(A), i \in Nat, j \in Nat, z \in Nat, i <= j, j <= Len(f), PartJoin
<1> QED BY ONLY <1>2, z = 0, Zenon DEF Joined

(* What ends with a line break is normalized. *)
LEMMA NormalLines ==
  ASSUME NEW A, NEW f \in Seq(A), NEW p \in Nat, p <= Len(f), p = 0 \/ f[p] = Newline
  PROVE  Normalized(Part(f, 0, p)) = Part(f, 0, p)
<1> PICK s : s = Part(f, 0, p)
  OBVIOUS
<1>1. s \in Seq(A) /\ Len(s) = p /\ (p # 0 => s[p] = f[p])
  BY ONLY f \in Seq(A), p \in Nat, p <= Len(f), s = Part(f, 0, p), StartType
<1>2. CASE p = 0
  <2>1. s = <<>>
    BY ONLY <1>1, <1>2
  <2> QED BY ONLY <2>1, s = Part(f, 0, p) DEF Normalized
<1>3. CASE p # 0 /\ f[p] = Newline
  <2>2. s[Len(s)] = Newline
    BY ONLY <1>1, <1>3
  <2> QED BY ONLY <2>2, s = Part(f, 0, p) DEF Normalized, Last
<1> QED BY ONLY <1>2, <1>3, p = 0 \/ f[p] = Newline

(* To what does not end with one, one is added. *)
LEMMA NormalEnd ==
  ASSUME NEW A, NEW f \in Seq(A), NEW p \in Nat, p <= Len(f), p # 0, f[p] # Newline,
         Newline \in A
  PROVE  Normalized(Part(f, 0, p)) = Joined(Part(f, 0, p), <<Newline>>)
<1> PICK s : s = Part(f, 0, p)
  OBVIOUS
<1>1. s \in Seq(A) /\ Len(s) = p /\ (p # 0 => s[p] = f[p])
  BY ONLY f \in Seq(A), p \in Nat, p <= Len(f), s = Part(f, 0, p), StartType
<1>3. s[Len(s)] # Newline
  BY ONLY <1>1, p # 0, f[p] # Newline
<1>4. s # <<>>
  BY ONLY <1>1, p # 0
<1>5. Append(s, Newline) = s \o <<Newline>>
  BY ONLY <1>1, Newline \in A, AppendIsConcat
<1>6. Normalized(s) = Append(s, Newline)
  BY ONLY <1>3, <1>4 DEF Normalized, Last
<1> QED BY ONLY <1>5, <1>6, s = Part(f, 0, p), Zenon DEF Joined

(* From any place there is an end of the line. *)
LineEnd(f, p, e) ==
  /\ p <= e /\ e <= Len(f) /\ NoNewline(f, p, e) /\ (e = Len(f) \/ f[e + 1] = Newline)

LEMMA LineHasEnd ==
  ASSUME NEW A, NEW f \in Seq(A), NEW p \in Nat, p <= Len(f)
  PROVE  \E e \in Nat : LineEnd(f, p, e)
<1> PICK N \in Nat : N = Len(f)
  BY LenProperties
<1> DEFINE S == {e \in Nat : p <= e /\ e <= N /\ (e = N \/ f[e + 1] = Newline)}
<1>1. S \in SUBSET Nat /\ N \in S
  OBVIOUS
<1>2. PICK e \in S : \A m \in S : e <= m
  <2> HIDE DEF S
  <2> QED BY ONLY <1>1, Smallest
<1>3. e \in Nat /\ p <= e /\ e <= N /\ (e = N \/ f[e + 1] = Newline)
  BY <1>2
<1>4. ASSUME NEW i \in p + 1..e PROVE f[i] # Newline
  <2> PICK m \in Nat : m = i - 1
    OBVIOUS
  <2>1. p <= m /\ m <= N /\ m + 1 = i /\ ~(e <= m)
    BY ONLY <1>3, m = i - 1, i \in p + 1..e, p \in Nat, N \in Nat
  <2>2. m \notin S
    BY ONLY <1>2, <2>1
  <2> QED BY ONLY <2>1, <2>2, m \in Nat
<1>5. NoNewline(f, p, e)
  BY ONLY <1>4 DEF NoNewline
<1>6. LineEnd(f, p, e)
  BY ONLY <1>3, <1>5, N = Len(f) DEF LineEnd
<1> QED BY ONLY <1>3, <1>6

(* With the line that starts there and a line break, all of the file up to *)
(* the place after the line has been given.                                *)
LEMMA LineGiven ==
  ASSUME NEW A, NEW f \in Seq(A), Newline \in A, NEW p \in Nat, p < Len(f),
         p = 0 \/ f[p] = Newline, NEW e \in Nat, LineEnd(f, p, e),
         NEW y \in Nat, y = IF e = Len(f) THEN e ELSE e + 1
  PROVE  /\ Joined(Joined(Normalized(Part(f, 0, p)), Part(f, p, e)), <<Newline>>)
               = Normalized(Part(f, 0, y))
         /\ y < Len(f) => y = 0 \/ f[y] = Newline
<1> PICK N \in Nat : N = Len(f)
  BY LenProperties
<1>1. p < N /\ p <= e /\ e <= N /\ p <= N /\ NoNewline(f, p, e) /\ (e = N \/ f[e + 1] = Newline)
  BY ONLY N = Len(f), p < Len(f), p \in Nat, LineEnd(f, p, e) DEF LineEnd
<1>2. Normalized(Part(f, 0, p)) = Part(f, 0, p)
  <2>1. p <= Len(f)
    BY ONLY <1>1, N = Len(f)
  <2> QED BY ONLY <2>1, f \in Seq(A), p \in Nat, p = 0 \/ f[p] = Newline, NormalLines
<1>3. Joined(Part(f, 0, p), Part(f, p, e)) = Part(f, 0, e)
  <2>1. e <= Len(f)
    BY ONLY <1>1, N = Len(f)
  <2> QED BY ONLY <1>1, <2>1, f \in Seq(A), p \in Nat, e \in Nat, StartJoin
<1>4. CASE e = N
  <2>1. y = N /\ e # 0 /\ e <= Len(f) /\ e \in p + 1..e
    BY ONLY <1>1, <1>4, N = Len(f), y = IF e = Len(f) THEN e ELSE e + 1, p \in Nat, e \in Nat
  <2>2. f[e] # Newline
    BY ONLY <1>1, <2>1 DEF NoNewline
  <2>3. Normalized(Part(f, 0, e)) = Joined(Part(f, 0, e), <<Newline>>)
    BY ONLY <2>1, <2>2, f \in Seq(A), e \in Nat, Newline \in A, NormalEnd
  <2>4. y = e /\ ~(y < Len(f))
    BY ONLY <1>4, <2>1, N = Len(f), N \in Nat
  <2> QED BY ONLY <1>2, <1>3, <2>3, <2>4
<1>5. CASE e # N
  <2>1. y = e + 1 /\ e < Len(f) /\ y <= Len(f)
    BY ONLY <1>1, <1>5, N = Len(f), y = IF e = Len(f) THEN e ELSE e + 1, e \in Nat, N \in Nat
  <2>2. f[y] = Newline
    BY ONLY <1>1, <1>5, <2>1
  <2>3. Part(f, e, y) = <<f[y]>>
    BY ONLY <2>1, f \in Seq(A), e \in Nat, y \in Nat, OneMore
  <2>4. Joined(Part(f, 0, e), Part(f, e, y)) = Part(f, 0, y)
    <3>1. e <= y
      BY ONLY <2>1, e \in Nat
    <3> QED BY ONLY <2>1, <3>1, f \in Seq(A), e \in Nat, y \in Nat, StartJoin
  <2>5. Joined(Part(f, 0, e), <<Newline>>) = Part(f, 0, y)
    BY ONLY <2>2, <2>3, <2>4, Zenon
  <2>6. Normalized(Part(f, 0, y)) = Part(f, 0, y)
    BY ONLY <2>1, <2>2, f \in Seq(A), y \in Nat, NormalLines
  <2> QED BY ONLY <1>2, <1>3, <2>2, <2>5, <2>6
<1> QED BY ONLY <1>4, <1>5

-----------------------------------------------------------------------------
(* Writing: what was given to the writer is in the store, in the buffer or *)
(* still in the caller's line, in this order.                              *)

Chars == ToSet(setup.source) \cup {Newline}

(* What the store has of the upload, what the writer has, the line under   *)
(* way, and the line break that is still to be given.                      *)
Uploaded == IF setup.storage = "local" THEN store.object
            ELSE Flat(store.parts, Len(completedParts))
Held == IF pc = "upload" THEN part ELSE buffer
Line == IF toWrite = <<>> THEN <<>> ELSE Head(toWrite)
LineBreak == IF Len(toWrite) = 2 THEN <<Newline>> ELSE <<>>

(* The caller writes; has not come to the end; is closing.                 *)
Writing == pc = "write" \/ (pc = "upload" /\ after = "write")
Ending == pc = "close" \/ (pc \in {"upload", "complete"} /\ after = "close")
Good == pc \in {"next", "readLine", "read"} \/ Writing \/ Ending

StoreInv ==
  /\ completedParts \in Seq(Nat) /\ \A i \in 1..Len(completedParts) : completedParts[i] = i
  /\ store = [upload |-> store.upload, parts |-> store.parts, published |-> store.published,
              object |-> store.object]
  /\ store.object \in Seq(Chars)
  /\ setup.storage = "local" => store.published
  /\ setup.storage # "local" =>
       \A i \in 1..Len(completedParts) : i \in DOMAIN store.parts /\ store.parts[i] \in Seq(Chars)
LineInv ==
  \/ toWrite = <<>>
  \/ \E x \in Seq(Chars) : toWrite = <<x>> \/ toWrite = <<x, <<Newline>>>>
QueueInv ==
  /\ given \in Seq(Chars) /\ buffer \in Seq(Chars) /\ part \in Seq(Chars) /\ LineInv
  /\ Len(buffer) <= setup.writeSize
PcInv ==
  /\ Writing => toWrite # <<>>
  /\ Good /\ ~Writing => toWrite = <<>>
  /\ pc \in {"upload", "abort", "close", "closeInDestructor", "complete"} => buffer = <<>>
  /\ pc = "upload" => after \in {"write", "close", "closeInDestructor"}
  /\ pc \in {"close", "closeInDestructor"} => after = pc
  /\ pc = "read" => ~Transfers
  /\ pc = "complete" => isClosed
WholeInv ==
  Good => given = Joined(Joined(Uploaded, Held), Line) /\ ~thrown /\ closed = NotClosed
PrefixInv ==
  /\ StartsWith(Joined(Uploaded, Held), given, Chars)
  /\ store.published => StartsWith(store.object, given, Chars)
ContentInv ==
  /\ Good /\ Transfers =>
       /\ Joined(given, LineBreak) = Normalized(Part(setup.source, 0, place))
       /\ place < Len(setup.source) => place = 0 \/ setup.source[place] = Newline
  /\ Ending => Transfers /\ place = Len(setup.source)
ClosedInv ==
  closed = 0 =>
    /\ ~thrown /\ store.published /\ store.object = Normalized(setup.source)
    /\ isClosed /\ buffer = <<>> /\ pc \in {"destroy", "closeInDestructor", "gone"}
WriterInv == StoreInv /\ QueueInv /\ PcInv /\ WholeInv /\ PrefixInv /\ ContentInv /\ ClosedInv

(* What the store, the writer and the line under way have are sequences. *)
LEMMA StoreTypes ==
  ASSUME StoreInv, QueueInv
  PROVE  Uploaded \in Seq(Chars) /\ Held \in Seq(Chars) /\ Line \in Seq(Chars)
<1>1. Uploaded \in Seq(Chars)
  <2>1. CASE setup.storage = "local"
    BY <2>1 DEF StoreInv, Uploaded
  <2>2. CASE setup.storage # "local"
    <3>1. Len(completedParts) \in Nat
      BY LenProperties DEF StoreInv
    <3>2. \A i \in 1..Len(completedParts) : store.parts[i] \in Seq(Chars)
      BY <2>2 DEF StoreInv
    <3>3. Flat(store.parts, Len(completedParts)) \in Seq(Chars)
      BY ONLY <3>1, <3>2, FlatType
    <3> QED BY ONLY <2>2, <3>3 DEF Uploaded
  <2> QED BY ONLY <2>1, <2>2
<1>2. Held \in Seq(Chars)
  BY DEF QueueInv, Held
<1>3. Line \in Seq(Chars)
  <2>1. LineInv
    BY DEF QueueInv
  <2>2. CASE toWrite = <<>>
    BY ONLY <2>2 DEF Line
  <2>3. ASSUME NEW x \in Seq(Chars), toWrite = <<x>> \/ toWrite = <<x, <<Newline>>>>
        PROVE  Line \in Seq(Chars)
    BY ONLY <2>3 DEF Line
  <2> QED BY ONLY <2>1, <2>2, <2>3 DEF LineInv
<1> QED BY ONLY <1>1, <1>2, <1>3

(* Steps that change of the store what is not in the upload. *)
LEMMA StoreKept ==
  ASSUME StoreInv, setup' = setup, completedParts' = completedParts,
         NEW u, NEW p, NEW o \in Seq(Chars),
         store' = [upload |-> u, parts |-> store.parts, published |-> p, object |-> o],
         setup.storage = "local" => p /\ o = store.object
  PROVE  StoreInv' /\ Uploaded' = Uploaded
<1>1. Chars' = Chars
  BY DEF Chars
<1>2. store'.upload = u /\ store'.parts = store.parts /\ store'.published = p /\ store'.object = o
  OBVIOUS
<1>3. StoreInv'
  <2>1. completedParts' \in Seq(Nat) /\ \A i \in 1..Len(completedParts') : completedParts'[i] = i
    BY DEF StoreInv
  <2>2. store' = [upload |-> store'.upload, parts |-> store'.parts, published |-> store'.published,
                  object |-> store'.object]
    BY <1>2
  <2>3. setup'.storage # "local" => \A i \in 1..Len(completedParts') :
           i \in DOMAIN store'.parts /\ store'.parts[i] \in Seq(Chars')
    BY <1>1, <1>2 DEF StoreInv
  <2>4. store'.object \in Seq(Chars')
    BY <1>1, <1>2
  <2>5. setup'.storage = "local" => store'.published
    BY <1>2
  <2> QED BY ONLY <2>1, <2>2, <2>3, <2>4, <2>5, Zenon DEF StoreInv
<1>4. Uploaded' = Uploaded
  BY ONLY <1>2, setup' = setup, completedParts' = completedParts,
          setup.storage = "local" => p /\ o = store.object, Zenon DEF Uploaded
<1> QED BY ONLY <1>3, <1>4

LEMMA StoreSame ==
  ASSUME StoreInv, setup' = setup, completedParts' = completedParts, store' = store
  PROVE  StoreInv' /\ Uploaded' = Uploaded
BY DEF StoreInv, Uploaded, Chars

(* Steps after which the store and the writer have the same, together. *)
LEMMA Quiet ==
  ASSUME WholeInv, PrefixInv, ContentInv,
         setup' = setup, given' = given, toWrite' = toWrite, place' = place \/ ~Transfers,
         Joined(Uploaded', Held') = Joined(Uploaded, Held),
         Good' => Good /\ thrown' = thrown /\ closed' = closed,
         Ending' => Transfers /\ place = Len(setup.source),
         store'.published => StartsWith(store'.object, given, Chars)
  PROVE  WholeInv' /\ PrefixInv' /\ ContentInv'
<1>1. Chars' = Chars /\ Transfers' = Transfers /\ Line' = Line /\ LineBreak' = LineBreak
  BY DEF Chars, Transfers, Line, LineBreak
<1>2. WholeInv'
  BY ONLY <1>1, WholeInv, given' = given, Joined(Uploaded', Held') = Joined(Uploaded, Held),
          Good' => Good /\ thrown' = thrown /\ closed' = closed, Zenon DEF WholeInv, NotClosed
<1>3. PrefixInv'
  BY ONLY <1>1, PrefixInv, given' = given, Joined(Uploaded', Held') = Joined(Uploaded, Held),
          store'.published => StartsWith(store'.object, given, Chars), Zenon DEF PrefixInv
<1>4. ContentInv'
  BY ONLY <1>1, ContentInv, given' = given, setup' = setup, place' = place \/ ~Transfers,
          Good' => Good /\ thrown' = thrown /\ closed' = closed,
          Ending' => Transfers /\ place = Len(setup.source), Zenon DEF ContentInv
<1> QED BY ONLY <1>2, <1>3, <1>4

(* What was given is still given, with what the writer has yet to take. *)
LEMMA QueueKept ==
  ASSUME QueueInv, setup' = setup, given' = given, toWrite' = toWrite,
         buffer' \in {buffer, <<>>}, part' \in {part, buffer, <<>>}, setup \in Setups
  PROVE  QueueInv'
<1>1. Chars' = Chars
  BY DEF Chars
<1>2. LineInv'
  BY ONLY <1>1, QueueInv, toWrite' = toWrite, Zenon DEF QueueInv, LineInv
<1>3. buffer' \in Seq(Chars) /\ part' \in Seq(Chars)
  <2>1. buffer \in Seq(Chars) /\ part \in Seq(Chars)
    BY DEF QueueInv
  <2>2. <<>> \in Seq(Chars)
    OBVIOUS
  <2> QED BY ONLY <2>1, <2>2, buffer' \in {buffer, <<>>}, part' \in {part, buffer, <<>>}, Zenon
<1>4. Len(buffer') <= setup.writeSize
  <2>1. Len(<<>>) = 0 /\ setup.writeSize \in Nat
    BY FilesAssumption
  <2>2. Len(buffer) <= setup.writeSize
    BY DEF QueueInv
  <2>3. CASE buffer' = buffer
    BY ONLY <2>2, <2>3
  <2>4. CASE buffer' = <<>>
    BY ONLY <2>1, <2>4
  <2> QED BY <2>3, <2>4
<1> QED BY ONLY <1>1, <1>2, <1>3, <1>4, QueueInv, given' = given, setup' = setup, Zenon
        DEF QueueInv

(* Steps of a caller that reads, and of one whose read failed. *)
LEMMA ReaderWriting ==
  ASSUME WriterInv, setup \in Setups, setup' = setup, given' = given, toWrite' = toWrite,
         buffer' = buffer, part' = part, completedParts' = completedParts, store' = store,
         isClosed' = isClosed, closed' = closed, after' = after,
         pc \in {"next", "readLine", "read"}, place' = place \/ ~Transfers,
         \/ pc' \in {"next", "readLine", "read"} /\ thrown' = thrown /\ (pc' = "read" => ~Transfers)
         \/ pc' \in {"destroy", "gone"}
  PROVE  WriterInv'
<1>1. StoreInv' /\ Uploaded' = Uploaded
  BY StoreSame DEF WriterInv
<1>2. QueueInv'
  BY QueueKept DEF WriterInv
<1>3. Good /\ ~Writing /\ ~Writing' /\ ~Ending' /\ pc # "upload" /\ pc' # "upload"
  BY DEF Good, Writing, Ending
<1>4. Held' = Held
  BY ONLY <1>3, buffer' = buffer DEF Held
<1>5. toWrite = <<>> /\ closed # 0
  BY <1>3 DEF WriterInv, PcInv, WholeInv, NotClosed
<1>6. PcInv'
  BY <1>3, <1>5 DEF PcInv, Transfers
<1>7. Good' => thrown' = thrown
  BY <1>3 DEF Good
<1>8. store'.published => StartsWith(store'.object, given, Chars)
  BY DEF WriterInv, PrefixInv
<1>9. WholeInv' /\ PrefixInv' /\ ContentInv'
  <2>1. WholeInv /\ PrefixInv /\ ContentInv
    BY DEF WriterInv
  <2> QED BY ONLY <1>1, <1>3, <1>4, <1>7, <1>8, <2>1, setup' = setup, given' = given,
                  toWrite' = toWrite, place' = place \/ ~Transfers, closed' = closed, Quiet
<1>10. ClosedInv'
  BY ONLY <1>5, closed' = closed DEF ClosedInv
<1> QED BY ONLY <1>1, <1>2, <1>6, <1>9, <1>10 DEF WriterInv

(* A line was read: it is given to the writer. *)
LEMMA LineWriting ==
  ASSUME WriterInv, ReadingInv, ReadingInv', ReadChunk, pc' = "write"
  PROVE  WriterInv'
<1> PICK f, A : f = setup.source /\ A = Chars
  OBVIOUS
<1>1. /\ pc \in {"readLine", "read"} /\ Transfers /\ toWrite' = <<answer', <<Newline>>>>
      /\ last' = [call |-> pc, answer |-> answer',
                   expected |-> Expected(pc, Len(answer') + remaining').answer]
      /\ place' = Expected(pc, Len(answer') + remaining').place
      /\ given' = given \o answer'
      /\ setup' = setup /\ buffer' = buffer /\ part' = part /\ completedParts' = completedParts
      /\ store' = store /\ isClosed' = isClosed /\ closed' = closed /\ after' = after
      /\ thrown' = thrown
  BY DEF ReadChunk
<1>2. pc = "readLine"
  BY <1>1 DEF WriterInv, PcInv
<1>3. setup \in Setups /\ place \in Nat /\ place < Len(f)
  BY <1>2 DEF ReadingInv, ReaderInv, CallInv, Reading
<1>4. f \in Seq(A) /\ Newline \in A /\ Len(f) \in Nat /\ place <= Len(f)
  <2>1. f \in Seq(ToSet(f)) /\ Len(f) \in Nat
    BY <1>3, SourceType
  <2>2. ToSet(f) \subseteq A /\ Newline \in A
    BY DEF Chars
  <2>3. f \in Seq(A)
    BY ONLY <2>1, <2>2
  <2> QED BY ONLY <1>3, <2>1, <2>2, <2>3
<1>5. PICK e \in Nat : LineEnd(f, place, e)
  BY ONLY <1>3, <1>4, LineHasEnd
<1> PICK y \in Nat : y = IF e = Len(f) THEN e ELSE e + 1
  OBVIOUS
<1>6. answer' = Part(f, place, e) /\ place' = y
  <2> PICK asked : asked = Len(answer') + remaining'
    OBVIOUS
  <2> PICK p \in Nat : p = place
    BY <1>3
  <2>1. /\ p <= e /\ e <= Len(f) /\ NoNewline(f, p, e)
        /\ e = Len(f) \/ f[e + 1] = Newline
    BY ONLY <1>5, p = place DEF LineEnd
  <2>2. /\ Expected("readLine", asked).answer = Part(f, p, e)
        /\ Expected("readLine", asked).place = IF e = Len(f) THEN e ELSE e + 1
    <3>1. f \in Seq(A)
      BY ONLY <1>4
    <3>2. place = p /\ p <= e
      BY ONLY <2>1, p = place
    <3>3. e <= Len(f)
      BY ONLY <2>1
    <3>4. NoNewline(f, p, e)
      BY ONLY <2>1
    <3>5. e = Len(f) \/ f[e + 1] = Newline
      BY ONLY <2>1
    <3>6. IsLine(asked, f, p, e)
      BY ONLY <3>1, <3>2, <3>3, <3>4, <3>5, p \in Nat, e \in Nat, f = setup.source, ExpectedLine
    <3> QED BY ONLY <3>6, Zenon DEF IsLine
  <2>3. last'.call = "readLine" /\ last'.answer = answer' /\ last'.expected = Part(f, p, e)
    BY ONLY <1>1, <1>2, <2>2, asked = Len(answer') + remaining'
  <2>4. last'.answer = last'.expected
    BY ONLY <2>3, ReadingInv' DEF ReadingInv
  <2> QED BY ONLY <1>1, <1>2, <2>2, <2>3, <2>4, asked = Len(answer') + remaining', p = place,
                  y = IF e = Len(f) THEN e ELSE e + 1
<1>7. answer' \in Seq(A)
  <2>1. place <= e /\ e <= Len(f)
    BY ONLY <1>5 DEF LineEnd
  <2> QED BY ONLY <1>3, <1>4, <1>6, <2>1, e \in Nat, PartType
<1>8. Good /\ ~Writing /\ ~Ending /\ Good' /\ Writing' /\ ~Ending' /\ pc # "upload" /\ pc' # "upload"
  BY <1>2 DEF Good, Writing, Ending
<1>9. toWrite = <<>> /\ ~thrown /\ closed = NotClosed /\ given \in Seq(A)
  BY <1>8 DEF WriterInv, PcInv, WholeInv, QueueInv
<1>10. StoreInv' /\ Uploaded' = Uploaded /\ Chars' = A
  BY <1>1, StoreSame DEF WriterInv, Chars
<1>11. Held' = Held /\ Line = <<>> /\ LineBreak = <<>>
  BY <1>1, <1>8, <1>9 DEF Held, Line, LineBreak
<1>12. Line' = answer' /\ LineBreak' = <<Newline>> /\ toWrite' # <<>>
  BY ONLY <1>1 DEF Line, LineBreak
<1>13. Uploaded \in Seq(A) /\ Held \in Seq(A) /\ Joined(Uploaded, Held) \in Seq(A)
  <2>1. Uploaded \in Seq(A) /\ Held \in Seq(A)
    BY StoreTypes DEF WriterInv
  <2> QED BY ONLY <2>1, JoinedIs
<1>14. given = Joined(Uploaded, Held) /\ given' = Joined(given, answer')
  <2>1. given = Joined(Joined(Uploaded, Held), <<>>)
    BY <1>8, <1>11 DEF WriterInv, WholeInv
  <2>2. Joined(Joined(Uploaded, Held), <<>>) = Joined(Uploaded, Held)
    BY ONLY <1>13, <1>7, JoinedIs
  <2> QED BY ONLY <1>1, <2>1, <2>2, Zenon DEF Joined
<1>15. WholeInv'
  BY ONLY <1>1, <1>9, <1>10, <1>11, <1>12, <1>14, Zenon DEF WholeInv, NotClosed
<1>16. PrefixInv'
  <2>1. StartsWith(Joined(Uploaded, Held), given', A)
    BY ONLY <1>7, <1>13, <1>14 DEF StartsWith
  <2>2. store.published => StartsWith(store.object, given, A)
    BY DEF WriterInv, PrefixInv
  <2>3. store.published => StartsWith(store.object, given', A)
    BY ONLY <1>7, <1>14, <2>2, StartGrows
  <2> QED BY ONLY <1>1, <1>10, <1>11, <2>1, <2>3, Zenon DEF PrefixInv
<1>17. ContentInv'
  <2>1. /\ Joined(given, <<>>) = Normalized(Part(f, 0, place))
        /\ place = 0 \/ f[place] = Newline
    BY <1>1, <1>3, <1>8, <1>11 DEF WriterInv, ContentInv
  <2>2. Joined(given, <<>>) = given
    BY ONLY <1>7, <1>9, JoinedIs
  <2>3. /\ Joined(Joined(Normalized(Part(f, 0, place)), Part(f, place, e)), <<Newline>>)
               = Normalized(Part(f, 0, y))
        /\ y < Len(f) => y = 0 \/ f[y] = Newline
    BY ONLY <1>3, <1>4, <1>5, <2>1, e \in Nat, y \in Nat,
            y = IF e = Len(f) THEN e ELSE e + 1, LineGiven
  <2>4. Joined(given', LineBreak') = Normalized(Part(f, 0, y))
    BY ONLY <1>6, <1>12, <1>14, <2>1, <2>2, <2>3, Zenon
  <2> QED BY ONLY <1>1, <1>6, <1>8, <2>3, <2>4, f = setup.source, Zenon DEF ContentInv
<1>18. QueueInv'
  <2>1. given' \in Seq(A)
    BY ONLY <1>7, <1>9, <1>14, JoinedIs
  <2>2. buffer \in Seq(A) /\ part \in Seq(A) /\ Len(buffer) <= setup.writeSize
    BY DEF WriterInv, QueueInv
  <2>3. LineInv'
    BY ONLY <1>1, <1>7, <1>10 DEF LineInv
  <2> QED BY ONLY <1>1, <1>10, <2>1, <2>2, <2>3, Zenon DEF QueueInv
<1>19. PcInv'
  BY <1>8, <1>12 DEF PcInv
<1>20. ClosedInv'
  BY ONLY <1>1, <1>9 DEF ClosedInv, NotClosed
<1> QED BY ONLY <1>10, <1>15, <1>16, <1>17, <1>18, <1>19, <1>20 DEF WriterInv

(* A sequence of two is one before another. *)
LEMMA OneAndOne ==
  ASSUME NEW a, NEW b
  PROVE  <<a>> \o <<b>> = <<a, b>>
<1> PICK S : S = {a, b}
  OBVIOUS
<1>1. <<a>> \in Seq(S) /\ <<b>> \in Seq(S) /\ <<a, b>> \in Seq(S)
  BY ONLY S = {a, b}
<1> PICK s, t : s = <<a>> \o <<b>> /\ t = <<a, b>>
  OBVIOUS
<1>2. s \in Seq(S) /\ Len(s) = 2 /\ s[1] = a /\ s[2] = b
  BY ONLY <1>1, s = <<a>> \o <<b>>
<1>3. t \in Seq(S) /\ Len(t) = 2 /\ t[1] = a /\ t[2] = b
  BY ONLY <1>1, t = <<a, b>>
<1>4. \A i \in 1..Len(s) : s[i] = t[i]
  <2>1. \A i \in 1..2 : i = 1 \/ i = 2
    OBVIOUS
  <2> QED BY ONLY <1>2, <1>3, <2>1
<1>5. s = t
  BY ONLY <1>2, <1>3, <1>4, SeqEqual
<1> QED BY ONLY <1>5, s = <<a>> \o <<b>>, t = <<a, b>>

(* What the caller has to write is a line, its break after it, or nothing. *)
LEMMA LineForms ==
  ASSUME LineInv, toWrite # <<>>
  PROVE  \E x \in Seq(Chars) :
            /\ Head(toWrite) = x
            /\ \/ /\ toWrite = <<x>> /\ Tail(toWrite) = <<>> /\ LineBreak = <<>>
                  /\ \A r : <<r>> \o Tail(toWrite) = <<r>>
               \/ /\ toWrite = <<x, <<Newline>>>> /\ Tail(toWrite) = <<<<Newline>>>>
                  /\ LineBreak = <<Newline>>
                  /\ \A r : <<r>> \o Tail(toWrite) = <<r, <<Newline>>>>
<1> PICK x \in Seq(Chars) : toWrite = <<x>> \/ toWrite = <<x, <<Newline>>>>
  BY DEF LineInv
<1>1. CASE toWrite = <<x>>
  <2>1. Head(toWrite) = x /\ Tail(toWrite) = <<>> /\ Len(toWrite) = 1
    BY ONLY <1>1
  <2>2. \A r : <<r>> \o <<>> = <<r>>
    OBVIOUS
  <2> QED BY ONLY <1>1, <2>1, <2>2, x \in Seq(Chars) DEF LineBreak
<1>2. CASE toWrite = <<x, <<Newline>>>>
  <2>1. Head(toWrite) = x /\ Tail(toWrite) = <<<<Newline>>>> /\ Len(toWrite) = 2
    BY ONLY <1>2
  <2>2. \A r : <<r>> \o <<<<Newline>>>> = <<r, <<Newline>>>>
    BY ONLY OneAndOne, Zenon
  <2> QED BY ONLY <1>2, <2>1, <2>2, x \in Seq(Chars) DEF LineBreak
<1> QED BY ONLY <1>1, <1>2, toWrite = <<x>> \/ toWrite = <<x, <<Newline>>>>

(* A round of write. *)
LEMMA RoundWriting ==
  ASSUME WriterInv, setup \in Setups, WriteRound
  PROVE  WriterInv'
<1> PICK A : A = Chars
  OBVIOUS
<1>1. /\ pc = "write" /\ setup' = setup /\ place' = place /\ completedParts' = completedParts
      /\ store' = store /\ isClosed' = isClosed /\ closed' = closed /\ thrown' = thrown
  BY DEF WriteRound, readerVars
<1>2. Good /\ Writing /\ pc # "upload"
  BY <1>1 DEF Good, Writing
<1>3. /\ toWrite # <<>> /\ ~thrown /\ closed = NotClosed /\ given \in Seq(A) /\ buffer \in Seq(A)
      /\ part \in Seq(A) /\ LineInv /\ Len(buffer) <= setup.writeSize
  BY <1>2 DEF WriterInv, PcInv, WholeInv, QueueInv
<1>4. StoreInv' /\ Uploaded' = Uploaded /\ Chars' = A
  BY <1>1, StoreSame DEF WriterInv, Chars
<1>5. Uploaded \in Seq(A) /\ Newline \in A /\ <<>> \in Seq(A) /\ <<Newline>> \in Seq(A)
  <2>1. Uploaded \in Seq(A)
    BY StoreTypes DEF WriterInv
  <2>2. Newline \in A
    BY DEF Chars
  <2> QED BY ONLY <2>1, <2>2
<1>6. PICK x \in Seq(A) :
        /\ Head(toWrite) = x
        /\ \/ /\ toWrite = <<x>> /\ Tail(toWrite) = <<>> /\ LineBreak = <<>>
              /\ \A r : <<r>> \o Tail(toWrite) = <<r>>
           \/ /\ toWrite = <<x, <<Newline>>>> /\ Tail(toWrite) = <<<<Newline>>>>
              /\ LineBreak = <<Newline>>
              /\ \A r : <<r>> \o Tail(toWrite) = <<r, <<Newline>>>>
  BY <1>3, LineForms
<1> PICK fits : fits = Min({setup.writeSize - Len(buffer), Len(x)})
  OBVIOUS
<1> PICK rest, all : rest = SubSeq(x, fits + 1, Len(x)) /\ all = buffer \o SubSeq(x, 1, fits)
  OBVIOUS
<1>7. fits \in Nat /\ fits <= Len(x) /\ fits <= setup.writeSize - Len(buffer)
  <2>1. setup.writeSize \in Nat /\ Len(buffer) \in Nat /\ Len(x) \in Nat
    BY <1>3, FilesAssumption, LenProperties
  <2> PICK room \in Int : room = setup.writeSize - Len(buffer)
    BY <2>1
  <2> PICK l \in Int : l = Len(x)
    BY <2>1
  <2>2. fits = IF room <= l THEN room ELSE l
    BY ONLY fits = Min({setup.writeSize - Len(buffer), Len(x)}), room = setup.writeSize - Len(buffer),
            l = Len(x), room \in Int, l \in Int, MinOfTwo
  <2> QED BY ONLY <1>3, <2>1, <2>2, room = setup.writeSize - Len(buffer), l = Len(x)
<1> PICK s : s = Slice(x, 1, fits)
  OBVIOUS
<1>8. /\ s \in Seq(A) /\ rest \in Seq(A) /\ Len(s) = fits /\ Len(rest) = Len(x) - fits
      /\ Joined(s, rest) = x /\ all = Joined(buffer, s)
  <2> PICK m \in Nat : m = fits + 1
    BY <1>7
  <2>1. /\ Slice(x, 1, fits) \in Seq(A) /\ Slice(x, m, Len(x)) \in Seq(A)
        /\ Len(Slice(x, 1, fits)) = fits /\ Len(Slice(x, m, Len(x))) = Len(x) - fits
        /\ Joined(Slice(x, 1, fits), Slice(x, m, Len(x))) = x
    BY ONLY <1>7, x \in Seq(A), m \in Nat, m = fits + 1, CutInTwo
  <2>2. rest = Slice(x, m, Len(x)) /\ all = Joined(buffer, s)
    BY ONLY rest = SubSeq(x, fits + 1, Len(x)), all = buffer \o SubSeq(x, 1, fits), m = fits + 1,
            s = Slice(x, 1, fits), Zenon DEF Slice, Joined
  <2> QED BY ONLY <2>1, <2>2, s = Slice(x, 1, fits), Zenon
<1>9. all \in Seq(A) /\ Len(all) <= setup.writeSize
  <2>1. all \in Seq(A) /\ Len(all) = Len(buffer) + fits
    BY ONLY <1>3, <1>8, JoinedIs
  <2>2. Len(buffer) \in Nat /\ setup.writeSize \in Nat
    BY <1>3, FilesAssumption, LenProperties
  <2> QED BY ONLY <1>7, <2>1, <2>2
(* What was given is what is uploaded, and what is now held, and the rest. *)
<1>10. given = Joined(Joined(Uploaded, all), rest)
  <2>1. Held = buffer /\ Line = x
    BY ONLY <1>2, <1>3, <1>6 DEF Held, Line
  <2>2. given = Joined(Joined(Uploaded, buffer), x)
    BY <1>2, <2>1 DEF WriterInv, WholeInv
  <2>3. Joined(Joined(Uploaded, buffer), x) = Joined(Uploaded, Joined(buffer, x))
    BY ONLY <1>3, <1>5, x \in Seq(A), JoinedAssociative
  <2>4. Joined(Joined(buffer, s), rest) = Joined(buffer, Joined(s, rest))
    BY ONLY <1>3, <1>8, JoinedAssociative
  <2>5. Joined(Joined(Uploaded, all), rest) = Joined(Uploaded, Joined(all, rest))
    BY ONLY <1>5, <1>8, <1>9, JoinedAssociative
  <2> QED BY ONLY <1>8, <2>2, <2>3, <2>4, <2>5, Zenon
<1>11. CASE rest = <<>>
  <2>1. /\ buffer' = all /\ toWrite' = Tail(toWrite) /\ part' = part /\ after' = after
        /\ pc' = IF toWrite' = <<>> THEN "next" ELSE "write"
        /\ given' = IF toWrite' = <<>> THEN given ELSE given \o Head(toWrite')
    BY <1>6, <1>11 DEF WriteRound
  <2>2. pc' # "upload" /\ Good' /\ ~Ending' /\ (Writing' <=> toWrite' # <<>>)
    BY ONLY <2>1 DEF Good, Ending, Writing
  <2>3. Held' = all
    BY ONLY <2>1, <2>2 DEF Held
  <2>4. /\ given' = Joined(given, Line') /\ Line' \in Seq(A)
        /\ Joined(given', LineBreak') = Joined(given, LineBreak) /\ LineInv'
    <3>1. CASE Tail(toWrite) = <<>> /\ LineBreak = <<>>
      <4>1. Line' = <<>> /\ LineBreak' = <<>> /\ given' = given
        <5>1. Len(<<>>) # 2
          OBVIOUS
        <5> QED BY ONLY <2>1, <3>1, <5>1 DEF Line, LineBreak
      <4>2. Joined(given, <<>>) = given
        BY ONLY <1>3, <1>5, JoinedIs
      <4>3. LineInv'
        BY ONLY <2>1, <3>1 DEF LineInv
      <4> QED BY ONLY <1>5, <3>1, <4>1, <4>2, <4>3
    <3>2. CASE Tail(toWrite) = <<<<Newline>>>> /\ LineBreak = <<Newline>>
      <4>1. Line' = <<Newline>> /\ LineBreak' = <<>> /\ given' = given \o <<Newline>>
        <5> PICK b, t : b = <<Newline>> /\ t = toWrite'
          OBVIOUS
        <5>1. t = <<b>>
          BY ONLY <2>1, <3>2, b = <<Newline>>, t = toWrite', Zenon
        <5>2. Len(t) = 1 /\ t # <<>> /\ Head(t) = b /\ ~(Len(t) = 2)
          BY ONLY <5>1
        <5> QED BY ONLY <2>1, <5>2, b = <<Newline>>, t = toWrite', Zenon DEF Line, LineBreak
      <4>2. Joined(given, <<Newline>>) \in Seq(A)
        BY ONLY <1>3, <1>5, JoinedIs
      <4>3. Joined(Joined(given, <<Newline>>), <<>>) = Joined(given, <<Newline>>)
        BY ONLY <1>5, <4>2, JoinedIs
      <4>4. given' = Joined(given, <<Newline>>)
        BY ONLY <4>1, Zenon DEF Joined
      <4>5. LineInv'
        BY ONLY <1>4, <1>5, <2>1, <3>2 DEF LineInv
      <4> QED BY ONLY <1>5, <3>2, <4>1, <4>3, <4>4, <4>5
    <3> QED BY ONLY <1>6, <3>1, <3>2
  <2>5. given = Joined(Uploaded, all) /\ Joined(Uploaded, all) \in Seq(A)
    <3>1. Joined(Uploaded, all) \in Seq(A)
      BY ONLY <1>5, <1>9, JoinedIs
    <3>2. Joined(Joined(Uploaded, all), <<>>) = Joined(Uploaded, all)
      BY ONLY <1>5, <3>1, JoinedIs
    <3> QED BY ONLY <1>10, <1>11, <3>1, <3>2
  <2>6. WholeInv'
    BY ONLY <1>1, <1>3, <1>4, <2>3, <2>4, <2>5, Zenon DEF WholeInv, NotClosed
  <2>7. PrefixInv'
    <3>1. StartsWith(Joined(Uploaded, all), given', A)
      BY ONLY <2>4, <2>5 DEF StartsWith
    <3>2. store.published => StartsWith(store.object, given, A)
      BY DEF WriterInv, PrefixInv
    <3>3. store.published => StartsWith(store.object, given', A)
      BY ONLY <2>4, <3>2, StartGrows
    <3> QED BY ONLY <1>1, <1>4, <2>3, <3>1, <3>3, Zenon DEF PrefixInv
  <2>8. ContentInv'
    <3>1. ContentInv /\ Transfers' = Transfers
      BY <1>1 DEF WriterInv, Transfers
    <3> QED BY ONLY <1>1, <1>2, <2>2, <2>4, <3>1, Zenon DEF ContentInv
  <2>9. QueueInv'
    <3>1. given' \in Seq(A)
      BY ONLY <1>3, <2>4, JoinedIs
    <3> QED BY ONLY <1>1, <1>3, <1>4, <1>9, <2>1, <2>4, <3>1, Zenon DEF QueueInv
  <2>10. PcInv'
    BY ONLY <2>1, <2>2 DEF PcInv
  <2>11. ClosedInv'
    BY ONLY <1>1, <1>3 DEF ClosedInv, NotClosed
  <2> QED BY ONLY <1>4, <2>6, <2>7, <2>8, <2>9, <2>10, <2>11 DEF WriterInv
<1>12. CASE rest # <<>>
  <2>1. /\ buffer' = <<>> /\ toWrite' = <<rest>> \o Tail(toWrite) /\ part' = all /\ after' = "write"
        /\ pc' = "upload" /\ given' = given
    BY <1>6, <1>12 DEF WriteRound
  <2>2. Good' /\ ~Ending' /\ Writing' /\ Held' = all
    BY ONLY <2>1 DEF Good, Ending, Writing, Held
  <2>3. Line' = rest /\ LineBreak' = LineBreak /\ LineInv' /\ toWrite' # <<>>
    <3>1. CASE toWrite' = <<rest>> /\ LineBreak = <<>>
      <4>1. Line' = rest /\ LineBreak' = <<>>
        BY ONLY <3>1 DEF Line, LineBreak
      <4>2. LineInv'
        BY ONLY <1>4, <1>8, <3>1 DEF LineInv
      <4> QED BY ONLY <3>1, <4>1, <4>2
    <3>2. CASE toWrite' = <<rest, <<Newline>>>> /\ LineBreak = <<Newline>>
      <4>1. Line' = rest /\ LineBreak' = <<Newline>>
        BY ONLY <3>2 DEF Line, LineBreak
      <4>2. LineInv'
        BY ONLY <1>4, <1>8, <3>2 DEF LineInv
      <4> QED BY ONLY <3>2, <4>1, <4>2
    <3> QED BY ONLY <1>6, <2>1, <3>1, <3>2
  <2>4. WholeInv'
    BY ONLY <1>1, <1>3, <1>4, <1>10, <2>1, <2>2, <2>3, Zenon DEF WholeInv, NotClosed
  <2>5. PrefixInv'
    <3>1. Joined(Uploaded, all) \in Seq(A)
      BY ONLY <1>5, <1>9, JoinedIs
    <3>2. StartsWith(Joined(Uploaded, all), given, A)
      BY ONLY <1>8, <1>10, <3>1 DEF StartsWith
    <3>3. store.published => StartsWith(store.object, given, A)
      BY DEF WriterInv, PrefixInv
    <3> QED BY ONLY <1>1, <1>4, <2>1, <2>2, <3>2, <3>3, Zenon DEF PrefixInv
  <2>6. ContentInv'
    <3>1. ContentInv /\ Transfers' = Transfers
      BY <1>1 DEF WriterInv, Transfers
    <3> QED BY ONLY <1>1, <1>2, <2>1, <2>2, <2>3, <3>1, Zenon DEF ContentInv
  <2>7. QueueInv'
    <3>1. Len(buffer') <= setup.writeSize
      <4>1. Len(<<>>) = 0 /\ setup.writeSize \in Nat
        BY FilesAssumption
      <4> QED BY ONLY <2>1, <4>1
    <3> QED BY ONLY <1>1, <1>3, <1>4, <1>5, <1>9, <2>1, <2>3, <3>1, Zenon DEF QueueInv
  <2>8. PcInv'
    BY ONLY <2>1, <2>2, <2>3 DEF PcInv
  <2>9. ClosedInv'
    BY ONLY <1>1, <1>3 DEF ClosedInv, NotClosed
  <2> QED BY ONLY <1>4, <2>4, <2>5, <2>6, <2>7, <2>8, <2>9 DEF WriterInv
<1> QED BY ONLY <1>11, <1>12

(* Steps of the writer that give it nothing, and after which it and the    *)
(* store have the same together.                                           *)
LEMMA WriterKept ==
  ASSUME WriterInv, setup \in Setups, setup' = setup, given' = given, toWrite' = toWrite,
         place' = place, StoreInv', Joined(Uploaded', Held') = Joined(Uploaded, Held),
         buffer' \in {buffer, <<>>}, part' \in {part, buffer, <<>>},
         Good' => Good /\ thrown' = thrown /\ closed' = closed,
         Ending' => Transfers /\ place = Len(setup.source),
         store'.published => StartsWith(store'.object, given, Chars),
         PcInv', ClosedInv'
  PROVE  WriterInv'
<1>1. WholeInv /\ PrefixInv /\ ContentInv /\ QueueInv
  BY DEF WriterInv
<1>2. QueueInv'
  BY ONLY <1>1, setup \in Setups, setup' = setup, given' = given, toWrite' = toWrite,
          buffer' \in {buffer, <<>>}, part' \in {part, buffer, <<>>}, QueueKept
<1>3. WholeInv' /\ PrefixInv' /\ ContentInv'
  BY ONLY <1>1, setup' = setup, given' = given, toWrite' = toWrite, place' = place,
          Joined(Uploaded', Held') = Joined(Uploaded, Held),
          Good' => Good /\ thrown' = thrown /\ closed' = closed,
          Ending' => Transfers /\ place = Len(setup.source),
          store'.published => StartsWith(store'.object, given, Chars), Quiet
<1> QED BY ONLY <1>2, <1>3, StoreInv', PcInv', ClosedInv' DEF WriterInv

LEMMA CloseWriting ==
  ASSUME WriterInv, ReadingInv, Close
  PROVE  WriterInv'
<1>1. /\ setup' = setup /\ given' = given /\ toWrite' = toWrite /\ place' = place
      /\ completedParts' = completedParts /\ store' = store /\ thrown' = thrown /\ closed' = closed
      /\ isClosed' = isClosed
      /\ \/ pc = "next" /\ eof(reader) /\ Transfers /\ after' = "close"
         \/ pc = "destroy" /\ after' = "closeInDestructor"
      /\ \/ buffer = <<>> /\ pc' = after' /\ part' = part /\ buffer' = buffer
         \/ buffer # <<>> /\ pc' = "upload" /\ part' = buffer /\ buffer' = <<>>
  BY DEF Close, readerVars
<1>2. setup \in Setups
  BY DEF ReadingInv, ReaderInv
<1>3. StoreInv' /\ Uploaded' = Uploaded
  BY <1>1, StoreSame DEF WriterInv
<1>4. pc # "upload" /\ ~Writing /\ ~Ending /\ ~Writing' /\ (pc' # "upload" => pc' = after')
  BY ONLY <1>1 DEF Writing, Ending
<1>5. Held' = Held
  BY ONLY <1>1, <1>4 DEF Held
<1>6. pc = "next" => Good /\ toWrite = <<>> /\ closed = NotClosed /\ ~thrown
  BY <1>4 DEF Good, WriterInv, PcInv, WholeInv
<1>7. Good' => Good /\ pc = "next"
  BY ONLY <1>1, <1>4, <1>6 DEF Good, Writing, Ending
<1>8. Ending' => Transfers /\ place = Len(setup.source)
  <2>1. CASE pc = "next"
    <3>1. place = ReadTo(reader) /\ ReaderOk(reader, setup.source, ToSet(setup.source))
      BY <2>1 DEF ReadingInv, ReaderInv, Between
    <3>2. setup.source \in Seq(ToSet(setup.source))
      BY <1>2, SourceType
    <3>3. ReadTo(reader) = Len(setup.source)
      BY ONLY <1>1, <2>1, <3>1, <3>2, EofIs
    <3> QED BY ONLY <1>1, <2>1, <3>1, <3>3
  <2>2. CASE pc # "next"
    BY ONLY <1>1, <2>2 DEF Ending
  <2> QED BY ONLY <2>1, <2>2
<1>9. PcInv'
  BY ONLY <1>1, <1>4, <1>6, <1>7 DEF PcInv
<1>10. ClosedInv'
  <2>1. closed = 0 => /\ ~thrown /\ store.published /\ store.object = Normalized(setup.source)
                      /\ isClosed /\ buffer = <<>> /\ pc # "next"
    BY <1>6 DEF WriterInv, ClosedInv, NotClosed
  <2> QED BY ONLY <1>1, <2>1 DEF ClosedInv
<1>11. store'.published => StartsWith(store'.object, given, Chars)
  BY <1>1 DEF WriterInv, PrefixInv
<1>12. Joined(Uploaded', Held') = Joined(Uploaded, Held)
  BY ONLY <1>3, <1>5, Zenon
<1>13. buffer' \in {buffer, <<>>} /\ part' \in {part, buffer, <<>>}
  BY ONLY <1>1
<1> QED BY ONLY WriterInv, <1>1, <1>2, <1>3, <1>7, <1>8, <1>9, <1>10, <1>11, <1>12, <1>13, WriterKept

(* The part that was uploaded is in the store, after what was there.       *)
LEMMA UploadPartWriting ==
  ASSUME WriterInv, setup \in Setups, UploadPart
  PROVE  WriterInv'
<1> PICK A : A = Chars
  OBVIOUS
<1> PICK k : k = partNumber
  OBVIOUS
<1>1. /\ pc = "upload" /\ pc' = after /\ completedParts' = Append(completedParts, k)
      /\ store' = IF setup.storage = "local" THEN [store EXCEPT !.object = store.object \o part]
                  ELSE [store EXCEPT !.parts = partsWith(store.parts, k, part)]
      /\ setup' = setup /\ given' = given /\ toWrite' = toWrite /\ place' = place
      /\ buffer' = buffer /\ part' = part /\ isClosed' = isClosed /\ thrown' = thrown
      /\ closed' = closed /\ after' = after
  BY DEF UploadPart, readerVars
<1>2. /\ buffer = <<>> /\ after \in {"write", "close", "closeInDestructor"} /\ part \in Seq(A)
      /\ StoreInv /\ Uploaded \in Seq(A)
  <2>1. Uploaded \in Seq(A)
    BY StoreTypes DEF WriterInv
  <2> QED BY <1>1, <2>1 DEF WriterInv, PcInv, QueueInv
<1>3. /\ completedParts \in Seq(Nat) /\ \A i \in 1..Len(completedParts) : completedParts[i] = i
      /\ store = [upload |-> store.upload, parts |-> store.parts, published |-> store.published,
                  object |-> store.object]
      /\ store.object \in Seq(A)
      /\ setup.storage = "local" => store.published
      /\ setup.storage # "local" =>
           \A i \in 1..Len(completedParts) : i \in DOMAIN store.parts /\ store.parts[i] \in Seq(A)
  BY ONLY <1>2, A = Chars DEF StoreInv
<1> PICK n \in Nat : n = Len(completedParts)
  BY <1>3, LenProperties
<1>4. /\ k = n + 1 /\ k \in Nat /\ completedParts' \in Seq(Nat) /\ Len(completedParts') = k
      /\ \A i \in 1..k : completedParts'[i] = i
  <2>1. k = n + 1 /\ k \in Nat
    BY ONLY k = partNumber, n = Len(completedParts), n \in Nat DEF partNumber
  <2>2. /\ completedParts' \in Seq(Nat) /\ Len(completedParts') = n + 1
        /\ \A i \in 1..n : completedParts'[i] = completedParts[i]
        /\ completedParts'[n + 1] = k
    BY ONLY <1>1, <1>3, <2>1, n = Len(completedParts), AppendProperties
  <2>3. \A i \in 1..k : i \in 1..n \/ i = k
    BY ONLY <2>1, n \in Nat
  <2> QED BY ONLY <1>3, <2>1, <2>2, <2>3, n = Len(completedParts)
<1>5. Chars' = A
  BY <1>1 DEF Chars
<1>6. StoreInv' /\ Uploaded' = Joined(Uploaded, part) /\ store'.published = store.published
      /\ store'.object = IF setup.storage = "local" THEN Uploaded' ELSE store.object
  <2>1. CASE setup.storage = "local"
    <3>1. store' = [upload |-> store.upload, parts |-> store.parts, published |-> store.published,
                    object |-> store.object \o part]
      BY ONLY <1>1, <1>3, <2>1
    <3> PICK o : o = store.object \o part
      OBVIOUS
    <3>2. /\ store'.upload = store.upload /\ store'.parts = store.parts
          /\ store'.published = store.published /\ store'.object = o
      BY ONLY <3>1, o = store.object \o part
    <3>3. o \in Seq(A)
      BY ONLY <1>2, <1>3, o = store.object \o part, ConcatProperties
    <3>4. StoreInv'
      <4>1. store' = [upload |-> store'.upload, parts |-> store'.parts,
                      published |-> store'.published, object |-> store'.object]
        BY ONLY <3>1, <3>2, o = store.object \o part, Zenon
      <4> QED BY ONLY <1>1, <1>3, <1>4, <1>5, <2>1, <3>2, <3>3, <4>1, Zenon DEF StoreInv
    <3>5. Uploaded' = o /\ Uploaded = store.object
      BY ONLY <1>1, <2>1, <3>2 DEF Uploaded
    <3> QED BY ONLY <2>1, <3>2, <3>4, <3>5, o = store.object \o part, Zenon DEF Joined
  <2>2. CASE setup.storage # "local"
    <3> PICK q : q = partsWith(store.parts, k, part)
      OBVIOUS
    <3>1. store' = [upload |-> store.upload, parts |-> q, published |-> store.published,
                    object |-> store.object]
      BY ONLY <1>1, <1>3, <2>2, q = partsWith(store.parts, k, part)
    <3>2. /\ store'.upload = store.upload /\ store'.parts = q
          /\ store'.published = store.published /\ store'.object = store.object
      BY ONLY <3>1
    <3>3. /\ q[k] = part /\ k \in DOMAIN q
          /\ \A i \in DOMAIN store.parts : i \in DOMAIN q /\ (i # k => q[i] = store.parts[i])
      BY ONLY q = partsWith(store.parts, k, part) DEF partsWith
    <3>4. \A i \in 1..n : i # k /\ q[i] = store.parts[i] /\ i \in DOMAIN q /\ q[i] \in Seq(A)
      <4>1. \A i \in 1..n : i # k
        BY ONLY <1>4, n \in Nat
      <4> QED BY ONLY <1>3, <2>2, <3>3, <4>1, n = Len(completedParts)
    <3>5. \A i \in 1..k : i \in DOMAIN q /\ q[i] \in Seq(A)
      <4>1. \A i \in 1..k : i \in 1..n \/ i = k
        BY ONLY <1>4, n \in Nat
      <4> QED BY ONLY <1>2, <3>3, <3>4, <4>1
    <3>6. StoreInv'
      <4>1. store' = [upload |-> store'.upload, parts |-> store'.parts,
                      published |-> store'.published, object |-> store'.object]
        BY ONLY <3>1, <3>2, Zenon
      <4> QED BY ONLY <1>1, <1>3, <1>4, <1>5, <2>2, <3>2, <3>5, <4>1, Zenon DEF StoreInv
    <3>7. Uploaded' = Flat(q, k) /\ Uploaded = Flat(store.parts, n)
      BY ONLY <1>1, <1>4, <2>2, <3>2, n = Len(completedParts) DEF Uploaded
    <3>8. Flat(q, k) = Joined(Flat(q, n), q[k])
      BY ONLY <1>4, <3>5, n \in Nat, FlatNext
    <3>9. Flat(q, n) = Flat(store.parts, n)
      BY ONLY <3>4, n \in Nat, FlatSame
    <3> QED BY ONLY <2>2, <3>2, <3>3, <3>6, <3>7, <3>8, <3>9
  <2> QED BY ONLY <2>1, <2>2
<1>7. Held = part /\ Held' = <<>>
  BY ONLY <1>1, <1>2 DEF Held
<1>8. Joined(Uploaded', Held') = Joined(Uploaded, Held)
  <2>1. Joined(Uploaded, part) \in Seq(A)
    BY ONLY <1>2, JoinedIs
  <2>2. Joined(Joined(Uploaded, part), <<>>) = Joined(Uploaded, part)
    BY ONLY <1>2, <2>1, JoinedIs
  <2> QED BY ONLY <1>6, <1>7, <2>2, Zenon
<1>9. (Good' => Good) /\ (Ending' => Ending) /\ (Writing' => Writing) /\ (Writing <=> after = "write")
  BY ONLY <1>1, <1>2 DEF Good, Ending, Writing
<1>10. Ending' => Transfers /\ place = Len(setup.source)
  BY <1>9 DEF WriterInv, ContentInv
<1>11. store'.published => StartsWith(store'.object, given, Chars)
  <2>1. StartsWith(Joined(Uploaded, part), given, A) /\ (store.published => StartsWith(store.object, given, A))
    BY <1>7 DEF WriterInv, PrefixInv
  <2> QED BY ONLY <1>6, <2>1, A = Chars, Zenon
<1>12. PcInv'
  <2>1. PcInv
    BY DEF WriterInv
  <2>2. (Writing => toWrite # <<>>) /\ (Good /\ ~Writing => toWrite = <<>>)
    BY ONLY <2>1 DEF PcInv
  <2>3. Writing' <=> after = "write"
    BY ONLY <1>1, <1>2 DEF Writing
  <2> QED BY ONLY <1>1, <1>2, <1>9, <2>2, <2>3 DEF PcInv
<1>13. ClosedInv'
  BY <1>1 DEF WriterInv, ClosedInv
<1>14. buffer' \in {buffer, <<>>} /\ part' \in {part, buffer, <<>>}
  BY ONLY <1>1
<1> QED BY ONLY WriterInv, setup \in Setups, <1>1, <1>6, <1>8, <1>9, <1>10, <1>11, <1>12, <1>13,
                <1>14, WriterKept

(* A part was given up: the store has what it had, or a start of the part  *)
(* too.                                                                    *)
LEMMA UploadLost ==
  ASSUME WriterInv, setup \in Setups, pc = "upload", pc' \in {"abort", "destroy", "terminated"},
         setup' = setup, given' = given, toWrite' = toWrite, buffer' = buffer, part' = part,
         closed' = closed, StoreInv', StartsWith(Uploaded', given, Chars),
         store'.published => StartsWith(store'.object, given, Chars)
  PROVE  WriterInv'
<1> PICK A : A = Chars
  OBVIOUS
<1>1. buffer = <<>>
  BY DEF WriterInv, PcInv
<1>2. ~Good' /\ ~Ending' /\ ~Writing' /\ Held' = <<>>
  BY ONLY <1>1, pc' \in {"abort", "destroy", "terminated"}, buffer' = buffer
          DEF Good, Ending, Writing, Held
<1>3. Chars' = A
  BY DEF Chars
<1>4. QueueInv'
  <2>1. QueueInv /\ buffer' \in {buffer, <<>>} /\ part' \in {part, buffer, <<>>}
    BY DEF WriterInv
  <2> QED BY ONLY <2>1, setup \in Setups, setup' = setup, given' = given, toWrite' = toWrite, QueueKept
<1>5. PcInv'
  BY ONLY <1>1, <1>2, buffer' = buffer, pc' \in {"abort", "destroy", "terminated"} DEF PcInv
<1>6. WholeInv' /\ ContentInv'
  BY ONLY <1>2 DEF WholeInv, ContentInv
<1>7. PrefixInv'
  <2>1. Uploaded' \in Seq(A)
    BY ONLY StartsWith(Uploaded', given, Chars), A = Chars DEF StartsWith
  <2>2. Joined(Uploaded', <<>>) = Uploaded'
    BY ONLY <2>1, JoinedIs
  <2> QED BY ONLY <1>2, <1>3, <2>2, StartsWith(Uploaded', given, Chars), A = Chars, given' = given,
                  store'.published => StartsWith(store'.object, given, Chars), Zenon DEF PrefixInv
<1>8. ClosedInv'
  <2>1. closed # 0
    BY DEF WriterInv, ClosedInv
  <2> QED BY ONLY <2>1, closed' = closed DEF ClosedInv
<1> QED BY ONLY <1>4, <1>5, <1>6, <1>7, <1>8, StoreInv' DEF WriterInv

(* A request that failed may have left the part in the store, under a      *)
(* number that is not yet among those that were completed.                 *)
LEMMA UploadFailsWriting ==
  ASSUME WriterInv, setup \in Setups, UploadPartFails
  PROVE  WriterInv'
<1> PICK A : A = Chars
  OBVIOUS
<1> PICK k : k = partNumber
  OBVIOUS
<1>1. /\ pc = "upload" /\ pc' \in {"upload", "abort"} /\ setup.storage = "S3"
      /\ store' = store \/ store' = [store EXCEPT !.parts = partsWith(store.parts, k, part)]
      /\ setup' = setup /\ given' = given /\ toWrite' = toWrite /\ place' = place
      /\ buffer' = buffer /\ part' = part /\ isClosed' = isClosed /\ thrown' = thrown
      /\ completedParts' = completedParts /\ closed' = closed /\ after' = after
  BY DEF UploadPartFails, readerVars
<1>2. /\ buffer = <<>> /\ after \in {"write", "close", "closeInDestructor"} /\ part \in Seq(A)
      /\ StoreInv /\ Uploaded \in Seq(A)
  <2>1. Uploaded \in Seq(A)
    BY StoreTypes DEF WriterInv
  <2> QED BY <1>1, <2>1 DEF WriterInv, PcInv, QueueInv
<1>3. /\ completedParts \in Seq(Nat) /\ \A i \in 1..Len(completedParts) : completedParts[i] = i
      /\ store = [upload |-> store.upload, parts |-> store.parts, published |-> store.published,
                  object |-> store.object]
      /\ store.object \in Seq(A)
      /\ setup.storage # "local" =>
           \A i \in 1..Len(completedParts) : i \in DOMAIN store.parts /\ store.parts[i] \in Seq(A)
  BY ONLY <1>2, A = Chars DEF StoreInv
<1>4. Chars' = A
  BY <1>1 DEF Chars
<1>5. StoreInv' /\ Uploaded' = Uploaded /\ store'.published = store.published
      /\ store'.object = store.object
  <2>1. CASE store' = store
    BY ONLY <1>1, <1>2, <2>1, StoreSame
  <2>2. CASE store' = [store EXCEPT !.parts = partsWith(store.parts, k, part)]
    <3> PICK q : q = partsWith(store.parts, k, part)
      OBVIOUS
    <3> PICK n \in Nat : n = Len(completedParts)
      BY <1>3, LenProperties
    <3>1. store' = [upload |-> store.upload, parts |-> q, published |-> store.published,
                    object |-> store.object]
      BY ONLY <1>3, <2>2, q = partsWith(store.parts, k, part)
    <3>2. /\ store'.upload = store.upload /\ store'.parts = q
          /\ store'.published = store.published /\ store'.object = store.object
      BY ONLY <3>1
    <3>3. \A i \in DOMAIN store.parts : i \in DOMAIN q /\ (i # k => q[i] = store.parts[i])
      BY ONLY q = partsWith(store.parts, k, part) DEF partsWith
    <3>4. \A i \in 1..n : i \in DOMAIN q /\ q[i] = store.parts[i] /\ q[i] \in Seq(A)
      <4>1. \A i \in 1..n : i # k
        BY ONLY k = partNumber, n = Len(completedParts), n \in Nat DEF partNumber
      <4> QED BY ONLY <1>1, <1>3, <3>3, <4>1, n = Len(completedParts)
    <3>5. setup.storage # "local"
      BY <1>1
    <3>6. StoreInv'
      <4>1. store' = [upload |-> store'.upload, parts |-> store'.parts,
                      published |-> store'.published, object |-> store'.object]
        BY ONLY <3>1, <3>2, Zenon
      <4> QED BY ONLY <1>1, <1>3, <1>4, <3>2, <3>4, <3>5, <4>1, n = Len(completedParts), Zenon
              DEF StoreInv
    <3>7. Uploaded' = Flat(q, n) /\ Uploaded = Flat(store.parts, n)
      BY ONLY <1>1, <3>2, <3>5, n = Len(completedParts), Zenon DEF Uploaded
    <3>8. Flat(q, n) = Flat(store.parts, n)
      BY ONLY <3>4, n \in Nat, FlatSame
    <3> QED BY ONLY <3>2, <3>6, <3>7, <3>8
  <2> QED BY ONLY <1>1, <2>1, <2>2
<1>6. Held = part /\ Held' = IF pc' = "upload" THEN part ELSE <<>>
  BY ONLY <1>1, <1>2 DEF Held
<1>7. CASE pc' = "upload"
  <2>1. Joined(Uploaded', Held') = Joined(Uploaded, Held)
    BY ONLY <1>5, <1>6, <1>7, Zenon
  <2>2. (Good' => Good) /\ (Ending' => Ending) /\ (Writing' <=> Writing)
    BY ONLY <1>1, <1>7 DEF Good, Ending, Writing
  <2>3. Ending' => Transfers /\ place = Len(setup.source)
    BY <2>2 DEF WriterInv, ContentInv
  <2>4. store'.published => StartsWith(store'.object, given, Chars)
    BY <1>5 DEF WriterInv, PrefixInv
  <2>5. PcInv'
    <3>1. PcInv
      BY DEF WriterInv
    <3> QED BY ONLY <1>1, <1>2, <1>7, <2>2, <3>1 DEF PcInv
  <2>6. ClosedInv'
    BY <1>1 DEF WriterInv, ClosedInv
  <2>7. buffer' \in {buffer, <<>>} /\ part' \in {part, buffer, <<>>}
    BY ONLY <1>1
  <2> QED BY ONLY WriterInv, setup \in Setups, <1>1, <1>5, <2>1, <2>2, <2>3, <2>4, <2>5, <2>6, <2>7,
                  WriterKept
<1>8. CASE pc' = "abort"
  <2>1. StartsWith(Joined(Uploaded, part), given, A) /\ (store.published => StartsWith(store.object, given, A))
    BY <1>6 DEF WriterInv, PrefixInv
  <2>2. StartsWith(Uploaded, given, A)
    BY ONLY <1>2, <2>1, StartOfStart
  <2>3. StartsWith(Uploaded', given, Chars)
    BY ONLY <1>5, <2>2, A = Chars
  <2>4. store'.published => StartsWith(store'.object, given, Chars)
    BY ONLY <1>5, <2>1, A = Chars
  <2>5. pc' \in {"abort", "destroy", "terminated"}
    BY ONLY <1>8
  <2> QED BY ONLY WriterInv, setup \in Setups, <1>1, <1>5, <2>3, <2>4, <2>5, UploadLost
<1> QED BY ONLY <1>1, <1>7, <1>8

(* A stream that fails may have taken some of the part. *)
LEMMA StreamFailsWriting ==
  ASSUME WriterInv, setup \in Setups, StreamFails
  PROVE  WriterInv'
<1> PICK A : A = Chars
  OBVIOUS
<1>1. /\ pc = "upload" /\ pc' \in {"abort", "destroy", "terminated"}
      /\ setup' = setup /\ given' = given /\ toWrite' = toWrite
      /\ buffer' = buffer /\ part' = part /\ completedParts' = completedParts /\ closed' = closed
  BY DEF StreamFails, flushThrows, readerVars
<1>2. PICK n \in 0..Len(part) :
        store' = [store EXCEPT !.upload = "bad",
                    !.object = IF setup.storage = "local" /\ store.upload = "active"
                               THEN store.object \o SubSeq(part, 1, n) ELSE store.object]
  BY DEF StreamFails
<1>3. part \in Seq(A) /\ StoreInv /\ Uploaded \in Seq(A)
  <2>1. Uploaded \in Seq(A)
    BY StoreTypes DEF WriterInv
  <2> QED BY <2>1 DEF WriterInv, QueueInv
<1>4. /\ completedParts \in Seq(Nat) /\ \A i \in 1..Len(completedParts) : completedParts[i] = i
      /\ store = [upload |-> store.upload, parts |-> store.parts, published |-> store.published,
                  object |-> store.object]
      /\ store.object \in Seq(A)
      /\ setup.storage = "local" => store.published
  BY ONLY <1>3, A = Chars DEF StoreInv
<1>5. StartsWith(Joined(Uploaded, part), given, A) /\ (store.published => StartsWith(store.object, given, A))
  BY <1>1 DEF WriterInv, PrefixInv, Held
<1>6. CASE setup.storage = "local" /\ store.upload = "active"
  <2> PICK s, o : s = Slice(part, 1, n) /\ o = store.object \o SubSeq(part, 1, n)
    OBVIOUS
  <2>1. store' = [upload |-> "bad", parts |-> store.parts, published |-> store.published, object |-> o]
    BY ONLY <1>2, <1>4, <1>6, o = store.object \o SubSeq(part, 1, n)
  <2>2. store'.published = store.published /\ store'.object = o /\ store'.upload = "bad"
        /\ store'.parts = store.parts
    BY ONLY <2>1
  <2>3. Uploaded = store.object /\ Uploaded' = o /\ o = Joined(Uploaded, s)
    <3>1. Uploaded = store.object /\ Uploaded' = o
      BY ONLY <1>1, <1>6, <2>2 DEF Uploaded
    <3> QED BY ONLY <3>1, s = Slice(part, 1, n), o = store.object \o SubSeq(part, 1, n), Zenon
            DEF Slice, Joined
  <2>4. PICK r \in Seq(A) : s \in Seq(A) /\ part = Joined(s, r)
    <3>1. n \in Nat /\ n <= Len(part)
      BY <1>2, <1>3, LenProperties
    <3> PICK m \in Nat : m = n + 1
      BY <3>1
    <3>2. /\ Slice(part, 1, n) \in Seq(A) /\ Slice(part, m, Len(part)) \in Seq(A)
          /\ Joined(Slice(part, 1, n), Slice(part, m, Len(part))) = part
      BY ONLY <1>3, <3>1, m \in Nat, m = n + 1, CutInTwo
    <3> QED BY ONLY <3>2, s = Slice(part, 1, n)
  <2>5. o \in Seq(A) /\ StartsWith(o, given, A)
    <3>1. o \in Seq(A)
      BY ONLY <1>3, <2>3, <2>4, JoinedIs
    <3>2. Joined(Joined(Uploaded, s), r) = Joined(Uploaded, Joined(s, r))
      BY ONLY <1>3, <2>4, JoinedAssociative
    <3>3. StartsWith(Joined(o, r), given, A)
      BY ONLY <1>5, <2>3, <2>4, <3>2
    <3> QED BY ONLY <2>4, <3>1, <3>3, StartOfStart
  <2>6. StoreInv'
    <3>1. store' = [upload |-> store'.upload, parts |-> store'.parts,
                    published |-> store'.published, object |-> store'.object]
      BY ONLY <2>1, <2>2, Zenon
    <3>2. Chars' = A /\ setup'.storage = "local"
      BY <1>1, <1>6 DEF Chars
    <3> QED BY ONLY <1>1, <1>4, <1>6, <2>2, <2>5, <3>1, <3>2, Zenon DEF StoreInv
  <2>7. StartsWith(Uploaded', given, Chars) /\ (store'.published => StartsWith(store'.object, given, Chars))
    BY ONLY <2>2, <2>3, <2>5, A = Chars
  <2> QED BY ONLY WriterInv, setup \in Setups, <1>1, <2>6, <2>7, UploadLost
<1>7. CASE ~(setup.storage = "local" /\ store.upload = "active")
  <2>1. store' = [upload |-> "bad", parts |-> store.parts, published |-> store.published,
                  object |-> store.object]
    BY ONLY <1>2, <1>4, <1>7
  <2>2. store'.published = store.published /\ store'.object = store.object
    BY ONLY <2>1
  <2>3. StoreInv' /\ Uploaded' = Uploaded
    BY ONLY <1>1, <1>3, <1>4, <2>1, A = Chars, StoreKept
  <2>4. StartsWith(Uploaded, given, A)
    BY ONLY <1>3, <1>5, StartOfStart
  <2>5. StartsWith(Uploaded', given, Chars) /\ (store'.published => StartsWith(store'.object, given, Chars))
    BY ONLY <1>5, <2>2, <2>3, <2>4, A = Chars
  <2> QED BY ONLY WriterInv, setup \in Setups, <1>1, <2>3, <2>5, UploadLost
<1> QED BY ONLY <1>6, <1>7

(* What the steps of closing have in common: the buffer is empty, and the  *)
(* upload as it was.                                                       *)
LEMMA EndWriting ==
  ASSUME WriterInv, setup \in Setups,
         pc \in {"abort", "close", "closeInDestructor", "complete"},
         pc' \in {"abort", "complete", "destroy", "gone", "terminated"},
         pc' = "complete" => pc \in {"close", "closeInDestructor"} /\ isClosed',
         after' = after, setup' = setup, given' = given, toWrite' = toWrite, place' = place,
         buffer' = buffer, part' \in {part, <<>>}, pc' = "complete" => thrown' = thrown /\ closed' = closed,
         StoreInv', Uploaded' = Uploaded, store'.published => StartsWith(store'.object, given, Chars),
         ClosedInv'
  PROVE  WriterInv'
<1>1. buffer = <<>> /\ PcInv
  BY DEF WriterInv, PcInv
<1>2. Held' = Held
  BY ONLY buffer' = buffer, pc \in {"abort", "close", "closeInDestructor", "complete"},
          pc' \in {"abort", "complete", "destroy", "gone", "terminated"} DEF Held
<1>3. Joined(Uploaded', Held') = Joined(Uploaded, Held)
  BY ONLY <1>2, Uploaded' = Uploaded, Zenon
<1>4. /\ Good' => pc' = "complete" /\ after = "close"
      /\ Good' => Good /\ Ending
      /\ ~Writing' /\ ~Writing
  BY ONLY <1>1, after' = after, pc \in {"abort", "close", "closeInDestructor", "complete"},
          pc' \in {"abort", "complete", "destroy", "gone", "terminated"},
          pc' = "complete" => pc \in {"close", "closeInDestructor"} /\ isClosed'
          DEF PcInv, Good, Ending, Writing
<1>5. Good' => Good /\ thrown' = thrown /\ closed' = closed
  BY ONLY <1>4, pc' = "complete" => thrown' = thrown /\ closed' = closed
<1>6. Ending' => Transfers /\ place = Len(setup.source)
  <2>1. Ending' => Good'
    BY DEF Good
  <2>2. Ending => Transfers /\ place = Len(setup.source)
    BY DEF WriterInv, ContentInv
  <2> QED BY ONLY <1>4, <2>1, <2>2
<1>7. PcInv'
  <2>1. Good /\ ~Writing => toWrite = <<>>
    BY ONLY <1>1 DEF PcInv
  <2> QED BY ONLY <1>1, <1>4, <2>1, buffer' = buffer, toWrite' = toWrite,
                  pc' \in {"abort", "complete", "destroy", "gone", "terminated"},
                  pc' = "complete" => pc \in {"close", "closeInDestructor"} /\ isClosed'
          DEF PcInv
<1>8. buffer' \in {buffer, <<>>} /\ part' \in {part, buffer, <<>>}
  BY ONLY buffer' = buffer, part' \in {part, <<>>}
<1> QED BY ONLY WriterInv, setup \in Setups, setup' = setup, given' = given, toWrite' = toWrite,
                place' = place, StoreInv', <1>3, <1>5, <1>6, <1>7, <1>8, ClosedInv',
                store'.published => StartsWith(store'.object, given, Chars), WriterKept

LEMMA AbortWriting ==
  ASSUME WriterInv, setup \in Setups, Abort
  PROVE  WriterInv'
<1>1. /\ pc = "abort" /\ pc' \in {"destroy", "gone", "terminated"} /\ after' = after
      /\ setup' = setup /\ given' = given /\ toWrite' = toWrite /\ place' = place
      /\ buffer' = buffer /\ part' = part /\ completedParts' = completedParts
      /\ closed' \in {closed, 1, -1}
      /\ store' = store \/ store' = [store EXCEPT !.upload = "aborted"]
  BY DEF Abort, UploadGivenUp, flushThrows, CompleteGivenUp, readerVars
<1>2. /\ store = [upload |-> store.upload, parts |-> store.parts, published |-> store.published,
                  object |-> store.object]
      /\ store.object \in Seq(Chars) /\ StoreInv
      /\ setup.storage = "local" => store.published
  BY DEF WriterInv, StoreInv
<1>3. StoreInv' /\ Uploaded' = Uploaded /\ store'.published = store.published
      /\ store'.object = store.object
  <2>1. CASE store' = store
    BY ONLY <1>1, <1>2, <2>1, StoreSame
  <2>2. CASE store' = [store EXCEPT !.upload = "aborted"]
    <3>1. store' = [upload |-> "aborted", parts |-> store.parts, published |-> store.published,
                    object |-> store.object]
      BY ONLY <1>2, <2>2
    <3>2. store'.published = store.published /\ store'.object = store.object
      BY ONLY <3>1
    <3>3. StoreInv' /\ Uploaded' = Uploaded
      BY ONLY <1>1, <1>2, <3>1, StoreKept
    <3> QED BY ONLY <3>2, <3>3
  <2> QED BY ONLY <1>1, <2>1, <2>2
<1>4. store'.published => StartsWith(store'.object, given, Chars)
  BY <1>3 DEF WriterInv, PrefixInv
<1>5. ClosedInv'
  <2>1. closed # 0
    BY <1>1 DEF WriterInv, ClosedInv
  <2> QED BY ONLY <1>1, <2>1 DEF ClosedInv
<1>6. /\ pc \in {"abort", "close", "closeInDestructor", "complete"}
      /\ pc' \in {"abort", "complete", "destroy", "gone", "terminated"} /\ pc' # "complete"
      /\ part' \in {part, <<>>}
  BY ONLY <1>1
<1> QED BY ONLY WriterInv, setup \in Setups, <1>1, <1>3, <1>4, <1>5, <1>6, EndWriting

LEMMA BaseCloseWriting ==
  ASSUME WriterInv, setup \in Setups, BaseClose
  PROVE  WriterInv'
<1>1. /\ pc \in {"close", "closeInDestructor"} /\ pc' = IF isClosed THEN "gone" ELSE "complete"
      /\ isClosed' = TRUE /\ part' = <<>> /\ after' = after
      /\ setup' = setup /\ given' = given /\ toWrite' = toWrite /\ place' = place
      /\ buffer' = buffer /\ completedParts' = completedParts /\ closed' = closed
      /\ thrown' = thrown /\ store' = store
  BY DEF BaseClose, readerVars
<1>2. StoreInv' /\ Uploaded' = Uploaded
  BY <1>1, StoreSame DEF WriterInv
<1>3. store'.published => StartsWith(store'.object, given, Chars)
  BY <1>1 DEF WriterInv, PrefixInv
<1>4. ClosedInv'
  <2>1. ClosedInv
    BY DEF WriterInv
  <2> QED BY ONLY <1>1, <2>1 DEF ClosedInv
<1>5. /\ pc \in {"abort", "close", "closeInDestructor", "complete"}
      /\ pc' \in {"abort", "complete", "destroy", "gone", "terminated"}
      /\ part' \in {part, <<>>}
  BY ONLY <1>1
<1> QED BY ONLY WriterInv, setup \in Setups, <1>1, <1>2, <1>3, <1>4, <1>5, EndWriting

LEMMA CompleteFailsWriting ==
  ASSUME WriterInv, setup \in Setups, CompleteFails
  PROVE  WriterInv'
<1>1. /\ pc = "complete" /\ pc' \in {"abort", "destroy", "gone"} /\ after' = after
      /\ setup' = setup /\ given' = given /\ toWrite' = toWrite /\ place' = place
      /\ buffer' = buffer /\ part' = part /\ completedParts' = completedParts
      /\ closed' \in {closed, 1, -1} /\ store' = store
  BY DEF CompleteFails, CompleteGivenUp, readerVars
<1>2. StoreInv' /\ Uploaded' = Uploaded
  BY <1>1, StoreSame DEF WriterInv
<1>3. store'.published => StartsWith(store'.object, given, Chars)
  BY <1>1 DEF WriterInv, PrefixInv
<1>4. ClosedInv'
  <2>1. closed # 0
    BY <1>1 DEF WriterInv, ClosedInv
  <2> QED BY ONLY <1>1, <2>1 DEF ClosedInv
<1>5. /\ pc \in {"abort", "close", "closeInDestructor", "complete"}
      /\ pc' \in {"abort", "complete", "destroy", "gone", "terminated"} /\ pc' # "complete"
      /\ part' \in {part, <<>>}
  BY ONLY <1>1
<1> QED BY ONLY WriterInv, setup \in Setups, <1>1, <1>2, <1>3, <1>4, <1>5, EndWriting

(* When the upload is completed, the object is what was uploaded; and if   *)
(* the caller closed, that is all of the file.                             *)
LEMMA CompleteWriting ==
  ASSUME WriterInv, setup \in Setups, Complete
  PROVE  WriterInv'
<1> PICK A : A = Chars
  OBVIOUS
<1>1. /\ pc = "complete" /\ pc' \in {"abort", "destroy", "gone"} /\ after' = after
      /\ setup' = setup /\ given' = given /\ toWrite' = toWrite /\ place' = place
      /\ buffer' = buffer /\ part' = part /\ completedParts' = completedParts
      /\ isClosed' = isClosed /\ thrown' = thrown
      /\ store' = IF setup.storage = "local" THEN store
                  ELSE [store EXCEPT !.upload = "completed", !.published = TRUE,
                                     !.object = objectOf(completedParts)]
      /\ closed' = closed \/ (after = "close" /\ pc' = "destroy")
  BY DEF Complete, readerVars
<1>2. /\ completedParts \in Seq(Nat) /\ \A i \in 1..Len(completedParts) : completedParts[i] = i
      /\ store = [upload |-> store.upload, parts |-> store.parts, published |-> store.published,
                  object |-> store.object]
      /\ store.object \in Seq(A) /\ StoreInv
      /\ setup.storage = "local" => store.published
  BY DEF WriterInv, StoreInv
<1>3. Uploaded \in Seq(A) /\ Line \in Seq(A)
  BY StoreTypes DEF WriterInv
<1>4. buffer = <<>> /\ isClosed /\ closed # 0 /\ Held = <<>>
  BY <1>1 DEF WriterInv, PcInv, ClosedInv, Held
<1>5. StoreInv' /\ Uploaded' = Uploaded /\ store'.published /\ store'.object = Uploaded
  <2>1. CASE setup.storage = "local"
    <3>1. store' = store /\ Uploaded = store.object
      BY ONLY <1>1, <2>1 DEF Uploaded
    <3>2. StoreInv' /\ Uploaded' = Uploaded
      BY ONLY <1>1, <1>2, <3>1, StoreSame
    <3> QED BY ONLY <1>2, <2>1, <3>1, <3>2
  <2>2. CASE setup.storage # "local"
    <3> PICK n \in Nat : n = Len(completedParts)
      BY <1>2, LenProperties
    <3>1. objectOf(completedParts) = Flat(store.parts, n)
      <4>1. DOMAIN completedParts = 1..n
        BY ONLY <1>2, n = Len(completedParts), LenProperties
      <4>2. [i \in DOMAIN completedParts |-> store.parts[completedParts[i]]] = FirstParts(store.parts, n)
        BY ONLY <1>2, <4>1, n = Len(completedParts) DEF FirstParts
      <4> QED BY ONLY <4>2, Zenon DEF objectOf, Flat
    <3>2. Uploaded = Flat(store.parts, n)
      BY ONLY <2>2, n = Len(completedParts) DEF Uploaded
    <3>3. store' = [upload |-> "completed", parts |-> store.parts, published |-> TRUE,
                    object |-> Uploaded]
      BY ONLY <1>1, <1>2, <2>2, <3>1, <3>2
    <3>4. store'.published /\ store'.object = Uploaded
      BY ONLY <3>3
    <3>5. StoreInv' /\ Uploaded' = Uploaded
      BY ONLY <1>1, <1>2, <1>3, <2>2, <3>3, A = Chars, StoreKept
    <3> QED BY ONLY <3>4, <3>5
  <2> QED BY ONLY <2>1, <2>2
<1>6. store'.published => StartsWith(store'.object, given, Chars)
  <2>1. StartsWith(Joined(Uploaded, <<>>), given, A)
    BY <1>4 DEF WriterInv, PrefixInv
  <2>2. <<>> \in Seq(A)
    OBVIOUS
  <2>3. StartsWith(Uploaded, given, A)
    BY ONLY <1>3, <2>1, <2>2, StartOfStart
  <2> QED BY ONLY <1>5, <2>3, A = Chars
<1>7. ASSUME after = "close", pc' = "destroy" PROVE ClosedInv'
  <2>1. Good /\ Ending /\ ~Writing
    BY ONLY <1>1, <1>7 DEF Good, Ending, Writing
  <2>2. /\ given = Joined(Joined(Uploaded, Held), Line) /\ ~thrown /\ Transfers
        /\ place = Len(setup.source) /\ toWrite = <<>>
        /\ Joined(given, LineBreak) = Normalized(Part(setup.source, 0, place))
    BY <2>1 DEF WriterInv, WholeInv, ContentInv, PcInv
  <2>3. Line = <<>> /\ LineBreak = <<>>
    BY ONLY <2>2 DEF Line, LineBreak
  <2>4. Joined(Uploaded, <<>>) = Uploaded
    BY ONLY <1>3, JoinedIs
  <2>5. given = Uploaded /\ Joined(given, LineBreak) = Uploaded
    BY ONLY <1>4, <2>2, <2>3, <2>4
  <2>6. Part(setup.source, 0, place) = setup.source
    <3>1. setup.source \in Seq(ToSet(setup.source))
      BY SourceType
    <3> QED BY ONLY <2>2, <3>1, PartAll
  <2>7. store'.object = Normalized(setup'.source)
    BY ONLY <1>1, <1>5, <2>2, <2>5, <2>6
  <2> QED BY ONLY <1>1, <1>4, <1>5, <1>7, <2>2, <2>7, Zenon DEF ClosedInv
<1>8. ASSUME closed' = closed PROVE ClosedInv'
  BY ONLY <1>4, <1>8 DEF ClosedInv
<1>9. /\ pc \in {"abort", "close", "closeInDestructor", "complete"}
      /\ pc' \in {"abort", "complete", "destroy", "gone", "terminated"} /\ pc' # "complete"
      /\ part' \in {part, <<>>}
  BY ONLY <1>1
<1>10. ClosedInv'
  BY ONLY <1>1, <1>7, <1>8
<1> QED BY ONLY WriterInv, setup \in Setups, <1>1, <1>5, <1>6, <1>9, <1>10, EndWriting

LEMMA ChunkWriting ==
  ASSUME WriterInv, ReadingInv, ReadingInv', ReadChunk
  PROVE  WriterInv'
<1>1. /\ pc \in {"readLine", "read"} /\ setup' = setup /\ buffer' = buffer /\ part' = part
      /\ completedParts' = completedParts /\ store' = store /\ isClosed' = isClosed
      /\ closed' = closed /\ after' = after /\ thrown' = thrown
      /\ given' = IF pc' = "write" THEN given \o answer' ELSE given
      /\ \/ pc' = pc /\ place' = place /\ toWrite' = toWrite
         \/ pc' = "write" /\ Transfers
         \/ pc' = "next" /\ ~Transfers /\ toWrite' = <<>>
  BY DEF ReadChunk
<1>2. setup \in Setups
  BY DEF ReadingInv, ReaderInv
<1>3. toWrite = <<>> /\ (pc = "read" => ~Transfers)
  BY <1>1 DEF WriterInv, PcInv, Good, Writing
<1>4. CASE pc' = "write"
  BY ONLY WriterInv, ReadingInv, ReadingInv', ReadChunk, <1>4, LineWriting
<1>5. CASE pc' # "write"
  <2>1. /\ pc' \in {"next", "readLine", "read"} /\ thrown' = thrown /\ (pc' = "read" => ~Transfers)
        /\ given' = given /\ toWrite' = toWrite /\ (place' = place \/ ~Transfers)
        /\ pc \in {"next", "readLine", "read"}
    BY ONLY <1>1, <1>3, <1>5
  <2> QED BY ONLY WriterInv, <1>1, <1>2, <2>1, ReaderWriting
<1> QED BY ONLY <1>4, <1>5

LEMMA WriterInit ==
  ASSUME Init
  PROVE  WriterInv
<1>1. /\ setup \in Setups /\ pc = "next" /\ place = 0 /\ toWrite = <<>> /\ given = <<>>
      /\ buffer = <<>> /\ part = <<>> /\ isClosed = FALSE /\ completedParts = <<>>
      /\ thrown = FALSE /\ closed = NotClosed /\ after = "none"
      /\ store = [upload |-> "active", parts |-> <<>>,
                  published |-> setup.storage = "local", object |-> <<>>]
  BY DEF Init
<1> PICK f, A : f = setup.source /\ A = Chars
  OBVIOUS
<1>2. setup.source \in Seq(ToSet(setup.source)) /\ setup.writeSize \in Nat
  BY <1>1, SourceType, FilesAssumption
<1>3. <<>> \in Seq(A) /\ Len(<<>>) = 0 /\ completedParts \in Seq(Nat) /\ Len(completedParts) = 0
  BY ONLY <1>1
<1>4. /\ store.upload = "active" /\ store.parts = <<>> /\ store.object = <<>>
      /\ store.published = (setup.storage = "local")
  BY ONLY <1>1
<1>5. Good /\ ~Writing /\ ~Ending /\ Held = <<>> /\ Line = <<>> /\ LineBreak = <<>>
  BY ONLY <1>1, <1>3 DEF Good, Writing, Ending, Held, Line, LineBreak
<1>6. Uploaded = <<>>
  <2>1. CASE setup.storage = "local"
    BY ONLY <1>4, <2>1 DEF Uploaded
  <2>2. CASE setup.storage # "local"
    <3> PICK z \in Nat : z = 0
      OBVIOUS
    <3>1. Flat(store.parts, z) = <<>>
      BY ONLY z = 0, z \in Nat, FlatIs
    <3> QED BY ONLY <1>3, <2>2, <3>1, z = 0 DEF Uploaded
  <2> QED BY ONLY <2>1, <2>2
<1>7. StoreInv
  <2>1. store = [upload |-> store.upload, parts |-> store.parts, published |-> store.published,
                 object |-> store.object]
    BY ONLY <1>1
  <2>2. \A i \in 1..Len(completedParts) : FALSE
    BY ONLY <1>3
  <2> QED BY ONLY <1>3, <1>4, <2>1, <2>2, A = Chars DEF StoreInv
<1>8. QueueInv
  <2>1. LineInv
    BY ONLY <1>1 DEF LineInv
  <2>2. Len(buffer) <= setup.writeSize
    BY ONLY <1>1, <1>2, <1>3
  <2> QED BY ONLY <1>1, <1>3, <2>1, <2>2, A = Chars DEF QueueInv
<1>9. PcInv
  BY ONLY <1>1, <1>5 DEF PcInv
<1>10. Joined(<<>>, <<>>) = <<>>
  BY ONLY <1>3, JoinedIs
<1>11. WholeInv
  BY ONLY <1>1, <1>5, <1>6, <1>10 DEF WholeInv
<1>12. StartsWith(<<>>, <<>>, A)
  BY ONLY <1>3, <1>10 DEF StartsWith
<1>13. PrefixInv
  BY ONLY <1>1, <1>4, <1>5, <1>6, <1>10, <1>12, A = Chars DEF PrefixInv
<1>14. ContentInv
  <2>1. Part(f, 0, 0) = <<>>
    BY ONLY <1>2, f = setup.source, PartAll
  <2>2. Normalized(<<>>) = <<>>
    BY DEF Normalized
  <2> QED BY ONLY <1>1, <1>5, <1>10, <2>1, <2>2, f = setup.source DEF ContentInv
<1>15. ClosedInv
  BY ONLY <1>1 DEF ClosedInv, NotClosed
<1> QED BY ONLY <1>7, <1>8, <1>9, <1>11, <1>13, <1>14, <1>15 DEF WriterInv

(* Every step keeps it. *)
LEMMA WriterStep ==
  ASSUME WriterInv, ReadingInv, ReadingInv', [Next]_vars
  PROVE  WriterInv'
<1>0. setup \in Setups
  BY DEF ReadingInv, ReaderInv
<1>1. ASSUME ReadLine \/ \E size \in ReadSizes : Read(size) PROVE WriterInv'
  <2>1. /\ setup' = setup /\ given' = given /\ toWrite' = toWrite /\ buffer' = buffer
        /\ part' = part /\ completedParts' = completedParts /\ store' = store
        /\ isClosed' = isClosed /\ closed' = closed /\ after' = after /\ thrown' = thrown
        /\ place' = place /\ pc = "next"
        /\ pc' = "readLine" \/ (pc' = "read" /\ ~Transfers)
    BY <1>1 DEF ReadLine, Read, writerVars
  <2> QED BY ONLY WriterInv, <1>0, <2>1, ReaderWriting
<1>2. CASE ReadChunk
  BY <1>2, ChunkWriting
<1>3. CASE ReadFails
  <2>1. /\ setup' = setup /\ given' = given /\ toWrite' = toWrite /\ buffer' = buffer
        /\ part' = part /\ completedParts' = completedParts /\ store' = store
        /\ isClosed' = isClosed /\ closed' = closed /\ after' = after
        /\ place' = place /\ pc \in {"readLine", "read"} /\ pc' \in {"destroy", "gone"}
    BY <1>3 DEF ReadFails, readerVars, writerVars
  <2> QED BY ONLY WriterInv, <1>0, <2>1, ReaderWriting
<1>4. CASE WriteRound
  BY <1>0, <1>4, RoundWriting
<1>5. CASE Close
  BY <1>5, CloseWriting
<1>6. CASE UploadPart
  BY <1>0, <1>6, UploadPartWriting
<1>7. CASE UploadPartFails
  BY <1>0, <1>7, UploadFailsWriting
<1>8. CASE StreamFails
  BY <1>0, <1>8, StreamFailsWriting
<1>9. CASE Abort
  BY <1>0, <1>9, AbortWriting
<1>10. CASE BaseClose
  BY <1>0, <1>10, BaseCloseWriting
<1>11. CASE Complete
  BY <1>0, <1>11, CompleteWriting
<1>12. CASE CompleteFails
  BY <1>0, <1>12, CompleteFailsWriting
<1>13. CASE UNCHANGED vars
  <2>1. Uploaded' = Uploaded /\ Held' = Held /\ Line' = Line /\ LineBreak' = LineBreak /\ Chars' = Chars
    BY <1>13 DEF vars, Uploaded, Held, Line, LineBreak, Chars
  <2> QED BY <1>13, <2>1 DEF vars, WriterInv, StoreInv, QueueInv, LineInv, PcInv, WholeInv, PrefixInv,
             ContentInv, ClosedInv, Good, Writing, Ending, Transfers
<1> QED BY <1>1, <1>2, <1>3, <1>4, <1>5, <1>6, <1>7, <1>8, <1>9, <1>10, <1>11, <1>12, <1>13 DEF Next

(* Whichever requests fail, or only lose their answers, whichever reads    *)
(* fail and however the lines and the parts overlap: what the store        *)
(* publishes is a beginning of what was written, and when the writer could *)
(* be closed it is all of the file, its last line ended by a line break.   *)
THEOREM StoredWritten == Spec => []StoredIsWritten
<1>1. Init => WriterInv
  BY WriterInit
<1>2. WriterInv /\ ReadingInv /\ ReadingInv' /\ [Next]_vars => WriterInv'
  BY WriterStep
<1>3. WriterInv => StoredIsWritten
  <2> SUFFICES ASSUME WriterInv PROVE StoredIsWritten
    OBVIOUS
  <2>1. store.published => IsPrefix(store.object, given)
    BY StartIsPrefix DEF WriterInv, PrefixInv
  <2> QED BY <2>1 DEF WriterInv, ClosedInv, StoredIsWritten
<1> QED BY <1>1, <1>2, <1>3, ReadingAlways, PTL DEF Spec
=============================================================================
