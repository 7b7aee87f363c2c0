-------------------------- MODULE EchoCanceller3Proofs --------------------------
(***************************************************************************)
(* Theorems about EchoCanceller3, for any number of frames, any queue size *)
(* and any fixed delay.  Arithmetic and sequences first, then the delay    *)
(* line, the capture signal, the render signal, the buffer checks, the     *)
(* jitter metrics and the saturation flag.                                 *)
(***************************************************************************)
EXTENDS EchoCanceller3, SequenceTheorems, FiniteSetTheorems, WellFoundedInduction, TLAPS

\* The sizes in chunks.
LEMMA Sizes == BlockChunks = 4 /\ SubFrameChunks = 5 /\ FrameChunks = 10
  BY DEF Chunk, BlockChunks, SubFrameChunks, FrameChunks

-----------------------------------------------------------------------------
(* Remainders.                                                             *)

\* A remainder is below the divisor, and the rest a multiple of it.
LEMMA Division ==
  ASSUME NEW d \in Nat \ {0}, NEW a \in Nat
  PROVE  a % d \in 0 .. d - 1 /\ \E q \in Int : a = d * q + (a % d)
  <1>1. a % d \in 0 .. d - 1
    OBVIOUS
  <1>2. a \div d \in Int
    OBVIOUS
  <1>3. a = d * (a \div d) + (a % d)
    OBVIOUS
  <1>. QED  BY <1>1, <1>2, <1>3

\* The remainder is the only such number.
LEMMA RemainderIs ==
  ASSUME NEW d \in Nat \ {0}, NEW q \in Int, NEW r \in 0 .. d - 1, NEW a \in Nat, a = d * q + r
  PROVE  a % d = r
  OBVIOUS

\* No multiple of d lies strictly between 0 and d.
LEMMA NoMultipleBetween ==
  ASSUME NEW d \in Nat \ {0}, NEW q \in Int, d * q > 0, d * q < d
  PROVE  FALSE
  OBVIOUS

\* Numbers less than d apart have different remainders.
LEMMA ModApart ==
  ASSUME NEW d \in Nat \ {0}, NEW a \in Nat, NEW b \in Nat, a < b, b < a + d
  PROVE  a % d # b % d
  <1>1. PICK q \in Int : a = d * q + (a % d)
    BY Division
  <1>2. PICK r \in Int : b = d * r + (b % d)
    BY Division
  <1>3. a % d \in Int /\ b % d \in Int
    BY Division
  <1>. SUFFICES ASSUME a % d = b % d PROVE FALSE
    OBVIOUS
  <1>4. d * r - d * q = b - a
    BY <1>1, <1>2, <1>3
  <1>5. d * (r - q) = d * r - d * q
    OBVIOUS
  <1>. QED  BY <1>4, <1>5, NoMultipleBetween

\* A whole turn of a ring leads back to the same place.
LEMMA ModAgain ==
  ASSUME NEW d \in Nat \ {0}, NEW a \in Nat
  PROVE  (a + d) % d = a % d
  <1>1. PICK m \in 0 .. d - 1 : m = a % d
    BY Division
  <1>2. PICK q \in Int : a = d * q + m
    BY <1>1, Division
  <1>3. a + d = d * (q + 1) + m /\ q + 1 \in Int /\ a + d \in Nat
    BY <1>2
  <1>4. \A p \in Int, n \in Nat : n = d * p + m => n % d = m
    BY RemainderIs
  <1>. QED  BY <1>1, <1>3, <1>4

\* Going on from a place of a ring, or from the number that led there.
LEMMA ModOfMod ==
  ASSUME NEW d \in Nat \ {0}, NEW a \in Nat, NEW b \in Nat
  PROVE  ((a % d) + b) % d = (a + b) % d
  <1>. DEFINE m == a % d
              s == (m + b) % d
  <1>1. m \in 0 .. d - 1
    BY Division
  <1>2. PICK q \in Int : a = d * q + m
    BY Division
  <1>3. s \in 0 .. d - 1 /\ \E r \in Int : m + b = d * r + s
    BY <1>1, Division, m + b \in Nat
  <1>4. PICK r \in Int : m + b = d * r + s
    BY <1>3
  <1>. HIDE DEF m, s
  <1>5. a + b = d * (q + r) + s
    BY <1>1, <1>2, <1>3, <1>4
  <1>6. (a + b) % d = s
    BY <1>3, <1>5, RemainderIs, q + r \in Int, a + b \in Nat
  <1>. QED  BY <1>6 DEF m, s

-----------------------------------------------------------------------------
(* Framing: what is in the block, the sub-frame and the buffer afterwards. *)

\* Length and type of a concatenation.
LEMMA JoinLength ==
  ASSUME NEW s \in Seq(Int), NEW t \in Seq(Int)
  PROVE  s \o t \in Seq(Int) /\ Len(s \o t) = Len(s) + Len(t)
  OBVIOUS

\* Its items.
LEMMA JoinItem ==
  ASSUME NEW s \in Seq(Int), NEW t \in Seq(Int), NEW i \in 1 .. Len(s) + Len(t)
  PROVE  (s \o t)[i] = IF i <= Len(s) THEN s[i] ELSE t[i - Len(s)]
  OBVIOUS

\* Length and type of the first items.
LEMMA FirstLength ==
  ASSUME NEW items \in Seq(Int), NEW m \in Nat, m <= Len(items)
  PROVE  SubSeq(items, 1, m) \in Seq(Int) /\ Len(SubSeq(items, 1, m)) = m
  OBVIOUS

\* Those items.
LEMMA FirstItem ==
  ASSUME NEW items \in Seq(Int), NEW m \in Nat, m <= Len(items), NEW i \in 1 .. m
  PROVE  SubSeq(items, 1, m)[i] = items[i]
  OBVIOUS

\* Length and type of the items after the first m.
LEMMA RestLength ==
  ASSUME NEW items \in Seq(Int), NEW m \in Nat, m <= Len(items)
  PROVE  SubSeq(items, m + 1, Len(items)) \in Seq(Int) /\ Len(SubSeq(items, m + 1, Len(items))) = Len(items) - m
  OBVIOUS

\* Those items.
LEMMA RestItem ==
  ASSUME NEW items \in Seq(Int), NEW m \in Nat, m <= Len(items), NEW i \in 1 .. Len(items) - m
  PROVE  SubSeq(items, m + 1, Len(items))[i] = items[m + i]
  OBVIOUS

\* With b chunks held and a sub-frame coming in, the block and the b + 1 chunks kept.
LEMMA BlockerStep ==
  ASSUME NEW buffer \in Seq(Int), NEW subFrame \in Seq(Int),
         NEW b \in 0 .. 3, Len(subFrame) = SubFrameChunks, Len(buffer) = b
  PROVE  LET r == InsertSubFrameAndExtractBlock(buffer, subFrame) IN
         /\ r.block \in Seq(Int) /\ Len(r.block) = BlockChunks
         /\ \A i \in 1 .. b : r.block[i] = buffer[i]
         /\ \A i \in b + 1 .. BlockChunks : r.block[i] = subFrame[i - b]
         /\ r.buffer \in Seq(Int) /\ Len(r.buffer) = b + 1
         /\ \A i \in 1 .. b + 1 : r.buffer[i] = subFrame[BlockChunks - b + i]
  <1>1. PICK m \in Nat : m = BlockChunks - b /\ m <= Len(subFrame) /\ b + m = BlockChunks /\ SubFrameChunks - m = b + 1
    BY Sizes
  <1>2. PICK front, back : front = SubSeq(subFrame, 1, m) /\ back = SubSeq(subFrame, m + 1, Len(subFrame))
    OBVIOUS
  <1>3. /\ InsertSubFrameAndExtractBlock(buffer, subFrame).block = buffer \o front
        /\ InsertSubFrameAndExtractBlock(buffer, subFrame).buffer = back
    BY <1>1, <1>2 DEF InsertSubFrameAndExtractBlock
  <1>4. front \in Seq(Int) /\ Len(front) = m
    BY <1>1, <1>2, FirstLength, Zenon
  <1>5. buffer \o front \in Seq(Int) /\ Len(buffer \o front) = BlockChunks
    <2>1. buffer \o front \in Seq(Int) /\ Len(buffer \o front) = Len(buffer) + Len(front)
      BY <1>4, JoinLength, Zenon
    <2>. QED  BY <1>1, <1>4, <2>1, Zenon
  <1>6. ASSUME NEW i \in 1 .. b PROVE (buffer \o front)[i] = buffer[i]
    <2>1. i \in 1 .. Len(buffer) + Len(front) /\ i <= Len(buffer)
      BY <1>1, <1>4, <1>6
    <2>. QED  BY <1>4, <2>1, JoinItem
  <1>9. ASSUME NEW i \in b + 1 .. BlockChunks PROVE (buffer \o front)[i] = subFrame[i - b]
    <2>1. i \in 1 .. Len(buffer) + Len(front) /\ ~(i <= Len(buffer)) /\ i - b \in 1 .. m
      BY <1>1, <1>4, <1>9
    <2>2. (buffer \o front)[i] = front[i - b]
      BY <1>4, <2>1, JoinItem
    <2>3. front[i - b] = subFrame[i - b]
      BY <1>1, <1>2, <2>1, FirstItem, Zenon
    <2>. QED  BY <2>2, <2>3
  <1>7. back \in Seq(Int) /\ Len(back) = b + 1
    <2>1. back \in Seq(Int) /\ Len(back) = Len(subFrame) - m
      BY <1>1, <1>2, RestLength, Zenon
    <2>. QED  BY <1>1, <2>1, Zenon
  <1>8. ASSUME NEW i \in 1 .. b + 1 PROVE back[i] = subFrame[BlockChunks - b + i]
    <2>1. i \in 1 .. Len(subFrame) - m
      BY <1>1, <1>8, Zenon
    <2>2. back[i] = subFrame[m + i]
      BY <1>1, <1>2, <2>1, RestItem, Zenon
    <2>. QED  BY <1>1, <2>2, Zenon
  <1>. QED  BY <1>3, <1>5, <1>6, <1>7, <1>8, <1>9, Zenon

\* With b chunks held and a block coming in, the sub-frame and the b - 1 chunks kept.
LEMMA FramerStep ==
  ASSUME NEW buffer \in Seq(Int), NEW block \in Seq(Int),
         NEW b \in 1 .. 4, Len(block) = BlockChunks, Len(buffer) = b
  PROVE  LET r == InsertBlockAndExtractSubFrame(buffer, block) IN
         /\ r.subFrame \in Seq(Int) /\ Len(r.subFrame) = SubFrameChunks
         /\ \A i \in 1 .. b : r.subFrame[i] = buffer[i]
         /\ \A i \in b + 1 .. SubFrameChunks : r.subFrame[i] = block[i - b]
         /\ r.buffer \in Seq(Int) /\ Len(r.buffer) = b - 1
         /\ \A i \in 1 .. b - 1 : r.buffer[i] = block[SubFrameChunks - b + i]
  <1>1. PICK m \in Nat : m = SubFrameChunks - b /\ m <= Len(block) /\ b + m = SubFrameChunks /\ BlockChunks - m = b - 1
    BY Sizes
  <1>2. PICK front, back : front = SubSeq(block, 1, m) /\ back = SubSeq(block, m + 1, Len(block))
    OBVIOUS
  <1>3. /\ InsertBlockAndExtractSubFrame(buffer, block).subFrame = buffer \o front
        /\ InsertBlockAndExtractSubFrame(buffer, block).buffer = back
    BY <1>1, <1>2 DEF InsertBlockAndExtractSubFrame
  <1>4. front \in Seq(Int) /\ Len(front) = m
    BY <1>1, <1>2, FirstLength, Zenon
  <1>5. buffer \o front \in Seq(Int) /\ Len(buffer \o front) = SubFrameChunks
    <2>1. buffer \o front \in Seq(Int) /\ Len(buffer \o front) = Len(buffer) + Len(front)
      BY <1>4, JoinLength, Zenon
    <2>. QED  BY <1>1, <1>4, <2>1, Zenon
  <1>6. ASSUME NEW i \in 1 .. b PROVE (buffer \o front)[i] = buffer[i]
    <2>1. i \in 1 .. Len(buffer) + Len(front) /\ i <= Len(buffer)
      BY <1>1, <1>4, <1>6
    <2>. QED  BY <1>4, <2>1, JoinItem
  <1>9. ASSUME NEW i \in b + 1 .. SubFrameChunks PROVE (buffer \o front)[i] = block[i - b]
    <2>1. i \in 1 .. Len(buffer) + Len(front) /\ ~(i <= Len(buffer)) /\ i - b \in 1 .. m
      BY <1>1, <1>4, <1>9
    <2>2. (buffer \o front)[i] = front[i - b]
      BY <1>4, <2>1, JoinItem
    <2>3. front[i - b] = block[i - b]
      BY <1>1, <1>2, <2>1, FirstItem, Zenon
    <2>. QED  BY <2>2, <2>3
  <1>7. back \in Seq(Int) /\ Len(back) = b - 1
    <2>1. back \in Seq(Int) /\ Len(back) = Len(block) - m
      BY <1>1, <1>2, RestLength, Zenon
    <2>. QED  BY <1>1, <2>1, Zenon
  <1>8. ASSUME NEW i \in 1 .. b - 1 PROVE back[i] = block[SubFrameChunks - b + i]
    <2>1. i \in 1 .. Len(block) - m
      BY <1>1, <1>8, Zenon
    <2>2. back[i] = block[m + i]
      BY <1>1, <1>2, <2>1, RestItem, Zenon
    <2>. QED  BY <1>1, <2>2, Zenon
  <1>. QED  BY <1>3, <1>5, <1>6, <1>7, <1>8, <1>9, Zenon

\* The two sub-frames of a frame.
LEMMA FrameParts ==
  ASSUME NEW f \in [1 .. 10 -> Int], NEW i \in {0, 1}
  PROVE  /\ SubFrame(f, i) \in Seq(Int) /\ Len(SubFrame(f, i)) = 5
         /\ \A c \in 1 .. 5 : SubFrame(f, i)[c] = f[5 * i + c]
  <1>1. /\ SubFrame(f, i) \in Seq(Int)
        /\ Len(SubFrame(f, i)) = IF 5 * i + 1 <= 5 * (i + 1) THEN 5 * (i + 1) - (5 * i + 1) + 1 ELSE 0
        /\ \A c \in 1 .. 5 * (i + 1) - (5 * i + 1) + 1 : SubFrame(f, i)[c] = f[5 * i + 1 + c - 1]
    <2>1. \A k \in 5 * i + 1 .. 5 * (i + 1) : f[k] \in Int
      OBVIOUS
    <2>. QED  BY <2>1, SubSeqProperties, Sizes DEF SubFrame
  <1>2. 5 * (i + 1) - (5 * i + 1) + 1 = 5 /\ 5 * i + 1 <= 5 * (i + 1)
    OBVIOUS
  <1>3. \A c \in 1 .. 5 : 5 * i + 1 + c - 1 = 5 * i + c
    OBVIOUS
  <1>. QED  BY <1>1, <1>2, <1>3

-----------------------------------------------------------------------------
(* The delay line.                                                         *)

\* Chunk n of a stream delayed by d chunks.
DelayedBy(d, n) == IF n > d THEN n - d ELSE 0

\* Rings of length d.
Ring(d) == [buf : [0 .. d - 1 -> Int], last_insert_ : 0 .. d - 1]

\* The ring holds what comes out with the chunks after the first n.
HoldsAfter(b, d, n) == \A k \in 1 .. d : b.buf[Place(b, d, k)] = DelayedBy(d, n + k)

\* An upper bound that is a member is the maximum.
LEMMA GreatestIs ==
  ASSUME NEW S, S \subseteq Int, NEW m \in S, \A j \in S : j <= m
  PROVE  Max(S) = m
  <1>1. \A x \in S : (\A y \in S : x >= y) => x = m
    OBVIOUS
  <1>2. m \in S /\ \A y \in S : m >= y
    OBVIOUS
  <1>. QED  BY <1>1, <1>2 DEF Max

\* A non-empty set of places in a frame has a maximum, as the set of the numbers
\* left to the end of the frame has a minimum.
LEMMA GreatestExists ==
  ASSUME NEW S, S \subseteq 1 .. FrameChunks, S # {}
  PROVE  Max(S) \in 1 .. FrameChunks
  <1>. DEFINE Later == OpToRel(<, Nat)
              Gap == {FrameChunks - x : x \in S}
  <1>1. IsWellFoundedOn(Later, Nat)
    BY NatLessThanWellFounded
  <1>2. \A x, y \in Nat : y < x => <<y, x>> \in Later
    BY DEF OpToRel
  <1>3. Gap \subseteq Nat
    BY Sizes
  <1>4. Gap # {}
    OBVIOUS
  <1>. HIDE DEF Later
  <1>5. \E g \in Gap : \A h \in Gap : ~(<<h, g>> \in Later)
    <2>. HIDE DEF Gap
    <2>. QED  BY <1>1, <1>3, <1>4, WFMin
  <1>6. PICK x \in S : \A h \in Gap : ~(<<h, FrameChunks - x>> \in Later)
    BY <1>5
  <1>7. ASSUME NEW y \in S PROVE x >= y
    <2>1. FrameChunks - y \in Gap /\ FrameChunks - y \in Nat /\ FrameChunks - x \in Nat
      BY <1>7, Sizes
    <2>2. ~(FrameChunks - y < FrameChunks - x)
      BY <1>2, <1>6, <2>1
    <2>3. x \in Int /\ y \in Int
      BY <1>7, Sizes
    <2>. QED  BY <2>2, <2>3, Sizes
  <1>. QED  BY <1>7 DEF Max

\* A frame passed through the ring comes out d chunks late, and leaves the ring holding
\* what comes out next.
LEMMA DelaySignalEffect ==
  ASSUME NEW d \in Nat \ {0}, NEW n \in Nat, NEW b \in Ring(d), HoldsAfter(b, d, n),
         NEW f \in [1 .. FrameChunks -> Int], \A k \in 1 .. FrameChunks : f[k] = n + k
  PROVE  LET r == DelaySignal(b, f) IN
         /\ r.frame \in [1 .. FrameChunks -> Int]
         /\ \A k \in 1 .. FrameChunks : r.frame[k] = DelayedBy(d, n + k)
         /\ r.buffer \in Ring(d) /\ HoldsAfter(r.buffer, d, n + FrameChunks)
  <1>. DEFINE r == DelaySignal(b, f)
              at(i) == {k \in 1 .. FrameChunks : Place(b, d, k) = i}
  <1>1. b.buf \in [0 .. d - 1 -> Int] /\ b.last_insert_ \in 0 .. d - 1
    BY DEF Ring
  <1>0. PICK li \in 0 .. d - 1 : li = b.last_insert_
    BY <1>1
  <1>2. DOMAIN b.buf = 0 .. d - 1 /\ Cardinality(DOMAIN b.buf) = d
    <2>1. Cardinality(0 .. d - 1) = d
      <3>1. Cardinality(0 .. d - 1) = IF 0 > d - 1 THEN 0 ELSE d - 1 - 0 + 1
        BY FS_Interval, d - 1 \in Int
      <3>. QED  BY <3>1
    <2>. QED  BY <1>1, <2>1
  <1>3. /\ r.frame = [k \in 1 .. FrameChunks |->
                        IF k <= d THEN b.buf[Place(b, d, k)] ELSE f[k - d]]
        /\ r.buffer = [buf |-> [i \in 0 .. d - 1 |-> IF at(i) = {} THEN b.buf[i] ELSE f[Max(at(i))]],
                       last_insert_ |-> Place(b, d, FrameChunks + 1)]
    BY <1>2 DEF DelaySignal
  <1>. HIDE DEF r
  <1>4. \A k \in Nat \ {0} : Place(b, d, k) \in 0 .. d - 1
    <2>. TAKE k \in Nat \ {0}
    <2>1. li + k - 1 \in Nat
      OBVIOUS
    <2>2. Place(b, d, k) = (li + k - 1) % d
      BY <1>0 DEF Place
    <2>. QED  BY <2>1, <2>2, Division
  <1>5. ASSUME NEW k \in 1 .. FrameChunks
        PROVE  r.frame[k] = DelayedBy(d, n + k) /\ r.frame[k] \in Int
    <2>1. r.frame[k] = IF k <= d THEN b.buf[Place(b, d, k)] ELSE f[k - d]
      BY <1>3, <1>5
    <2>2. k <= d => b.buf[Place(b, d, k)] = DelayedBy(d, n + k)
      BY <1>5, Sizes DEF HoldsAfter
    <2>3. ~(k <= d) => f[k - d] = n + (k - d)
      BY <1>5, Sizes
    <2>. QED  BY <1>5, <2>1, <2>2, <2>3, Sizes DEF DelayedBy
  <1>6. r.frame \in [1 .. FrameChunks -> Int]
    BY <1>3, <1>5
  <1>7. \A i \in 0 .. d - 1 : at(i) \subseteq 1 .. FrameChunks
    OBVIOUS
  <1>8. r.buffer \in Ring(d)
    <2>1. ASSUME NEW i \in 0 .. d - 1
          PROVE  (IF at(i) = {} THEN b.buf[i] ELSE f[Max(at(i))]) \in Int
      <3>1. CASE at(i) = {}
        BY <1>1, <2>1, <3>1
      <3>2. CASE at(i) # {}
        BY <1>7, <2>1, <3>2, GreatestExists
      <3>. QED  BY <3>1, <3>2
    <2>2. Place(b, d, FrameChunks + 1) \in 0 .. d - 1
      BY <1>4, Sizes
    <2>3. /\ r.buffer.buf = [i \in 0 .. d - 1 |-> IF at(i) = {} THEN b.buf[i] ELSE f[Max(at(i))]]
          /\ r.buffer.last_insert_ = Place(b, d, FrameChunks + 1)
          /\ r.buffer = [buf |-> r.buffer.buf, last_insert_ |-> r.buffer.last_insert_]
      BY <1>3
    <2>4. r.buffer.buf \in [0 .. d - 1 -> Int]
      BY <2>1, <2>3
    <2>5. [buf |-> r.buffer.buf, last_insert_ |-> r.buffer.last_insert_] \in Ring(d)
      BY <2>2, <2>3, <2>4 DEF Ring
    <2>. QED  BY <2>3, <2>5
  <1>9. ASSUME NEW k \in 1 .. d
        PROVE  r.buffer.buf[Place(r.buffer, d, k)] = DelayedBy(d, n + FrameChunks + k)
    <2>1. PICK i \in 0 .. d - 1 : i = Place(b, d, FrameChunks + k)
      BY <1>4, <1>9, Sizes
    <2>2. Place(r.buffer, d, k) = i
      <3>1. r.buffer.last_insert_ = (li + FrameChunks) % d
        <4>1. li + (FrameChunks + 1) - 1 = li + FrameChunks
          BY Sizes
        <4>. QED  BY <1>0, <1>3, <4>1, Sizes DEF Place
      <3>2. (((li + FrameChunks) % d) + (k - 1)) % d = ((li + FrameChunks) + (k - 1)) % d
        <4>1. li + FrameChunks \in Nat /\ k - 1 \in Nat
          BY <1>9, Sizes
        <4>. QED  BY <4>1, ModOfMod
      <3>3. (li + FrameChunks) + (k - 1) = li + (FrameChunks + k) - 1
        BY <1>9, Sizes
      <3>4. Place(r.buffer, d, k) = (((li + FrameChunks) % d) + (k - 1)) % d
        <4>1. \A x \in Int : x + k - 1 = x + (k - 1)
          BY <1>9
        <4>2. (li + FrameChunks) % d \in Int
          BY Division, Sizes, li + FrameChunks \in Nat
        <4>. QED  BY <3>1, <4>1, <4>2 DEF Place
      <3>5. Place(b, d, FrameChunks + k) = (li + (FrameChunks + k) - 1) % d
        BY <1>0 DEF Place
      <3>. QED  BY <2>1, <3>2, <3>3, <3>4, <3>5
    <2>3. r.buffer.buf[i] = IF at(i) = {} THEN b.buf[i] ELSE f[Max(at(i))]
      BY <1>3
    <2>4. CASE FrameChunks + k <= d
      <3>1. ASSUME NEW j \in 1 .. FrameChunks PROVE Place(b, d, j) # i
        <4>1. /\ li + j - 1 \in Nat /\ li + (FrameChunks + k) - 1 \in Nat
              /\ li + j - 1 < li + (FrameChunks + k) - 1
              /\ li + (FrameChunks + k) - 1 < (li + j - 1) + d
          BY <1>9, <2>4, <3>1, Sizes
        <4>. QED  BY <1>0, <2>1, <4>1, ModApart DEF Place
      <3>2. at(i) = {}
        BY <3>1
      <3>3. b.buf[i] = DelayedBy(d, n + (FrameChunks + k))
        BY <1>9, <2>1, <2>4, Sizes DEF HoldsAfter
      <3>. QED  BY <1>9, <2>2, <2>3, <3>2, <3>3, Sizes
    <2>5. CASE ~(FrameChunks + k <= d)
      <3>1. PICK m \in 1 .. FrameChunks : m = FrameChunks + k - d
        BY <1>9, <2>5, Sizes
      <3>2. Place(b, d, m) = i
        <4>1. li + m - 1 \in Nat /\ (li + m - 1) + d = li + (FrameChunks + k) - 1
          BY <1>9, <3>1, Sizes
        <4>. QED  BY <1>0, <2>1, <4>1, ModAgain DEF Place
      <3>3. ASSUME NEW j \in at(i) PROVE j <= m
        <4>. SUFFICES ASSUME j > m PROVE FALSE
          BY <3>1, <3>3, Sizes
        <4>1. j \in 1 .. FrameChunks /\ Place(b, d, j) = i
          BY <3>3
        <4>2. /\ li + j - 1 \in Nat /\ li + (FrameChunks + k) - 1 \in Nat
              /\ li + j - 1 < li + (FrameChunks + k) - 1
              /\ li + (FrameChunks + k) - 1 < (li + j - 1) + d
          BY <1>9, <3>1, <4>1, Sizes
        <4>. QED  BY <1>0, <2>1, <4>1, <4>2, ModApart DEF Place
      <3>4. m \in at(i) /\ at(i) \subseteq Int /\ at(i) # {}
        BY <3>1, <3>2, Sizes
      <3>. HIDE DEF at
      <3>5. Max(at(i)) = m
        BY <3>3, <3>4, GreatestIs
      <3>6. f[m] = n + m
        OBVIOUS
      <3>. QED  BY <1>9, <2>2, <2>3, <3>1, <3>4, <3>5, <3>6, Sizes DEF DelayedBy
    <2>. QED  BY <2>4, <2>5
  <1>. QED  BY <1>5, <1>6, <1>8, <1>9 DEF HoldsAfter, r

-----------------------------------------------------------------------------
(* The capture signal.  After n chunks of it went into the blocker, what   *)
(* the framer and the blocker hold are its last BlockChunks chunks.        *)

Repacked(d, blocker, framer, n) ==
  /\ blocker \in Seq(Int) /\ framer \in Seq(Int)
  /\ Len(framer) = BlockChunks - Len(blocker)
  /\ \A i \in 1 .. Len(blocker) : blocker[i] = DelayedBy(d, n - Len(blocker) + i)
  /\ \A i \in 1 .. Len(framer) : framer[i] = DelayedBy(d, n - BlockChunks + i)

\* The next chunks of the delayed signal after the first n.
Continues(d, n, subFrame) ==
  /\ subFrame \in Seq(Int) /\ Len(subFrame) = SubFrameChunks
  /\ \A i \in 1 .. SubFrameChunks : subFrame[i] = DelayedBy(d, n + i)

\* What comes of them, b chunks having been in the blocker.
SubFrameDone(d, n, b, in, out) ==
  /\ Repacked(d, in.buffer, out.buffer, n + SubFrameChunks)
  /\ Len(in.buffer) = b + 1
  /\ in.block \in Seq(Int) /\ Len(in.block) = BlockChunks
  /\ \A i \in 1 .. BlockChunks : in.block[i] = DelayedBy(d, n - b + i)
  /\ out.subFrame \in Seq(Int) /\ Len(out.subFrame) = SubFrameChunks
  /\ \A i \in 1 .. SubFrameChunks : out.subFrame[i] = DelayedBy(d, n - BlockChunks + i)

\* A sub-frame leaves both buffers repacked, one chunk further apart.
LEMMA SubFrameRepacked ==
  ASSUME NEW d \in Nat, NEW n \in Int, NEW blocker, NEW framer, Repacked(d, blocker, framer, n),
         NEW b \in 0 .. 3, Len(blocker) = b, NEW subFrame, Continues(d, n, subFrame)
  PROVE  LET in  == InsertSubFrameAndExtractBlock(blocker, subFrame)
             out == InsertBlockAndExtractSubFrame(framer, in.block)
         IN SubFrameDone(d, n, b, in, out)
  <1>0. /\ subFrame \in Seq(Int) /\ Len(subFrame) = SubFrameChunks
        /\ \A i \in 1 .. SubFrameChunks : subFrame[i] = DelayedBy(d, n + i)
    BY DEF Continues
  <1>1. /\ blocker \in Seq(Int) /\ framer \in Seq(Int)
        /\ \A i \in 1 .. b : blocker[i] = DelayedBy(d, n - b + i)
        /\ Len(framer) = BlockChunks - b
        /\ \A i \in 1 .. BlockChunks - b : framer[i] = DelayedBy(d, n - BlockChunks + i)
    BY DEF Repacked
  <1>2. PICK g \in 1 .. 4 : g = BlockChunks - b
    BY Sizes
  <1>3. PICK in : in = InsertSubFrameAndExtractBlock(blocker, subFrame)
    OBVIOUS
  <1>4. /\ in.block \in Seq(Int) /\ Len(in.block) = BlockChunks
        /\ \A i \in 1 .. b : in.block[i] = blocker[i]
        /\ \A i \in b + 1 .. BlockChunks : in.block[i] = subFrame[i - b]
        /\ in.buffer \in Seq(Int) /\ Len(in.buffer) = b + 1
        /\ \A i \in 1 .. b + 1 : in.buffer[i] = subFrame[BlockChunks - b + i]
    <2>1. LET r == InsertSubFrameAndExtractBlock(blocker, subFrame) IN
          /\ r.block \in Seq(Int) /\ Len(r.block) = BlockChunks
          /\ \A i \in 1 .. b : r.block[i] = blocker[i]
          /\ \A i \in b + 1 .. BlockChunks : r.block[i] = subFrame[i - b]
          /\ r.buffer \in Seq(Int) /\ Len(r.buffer) = b + 1
          /\ \A i \in 1 .. b + 1 : r.buffer[i] = subFrame[BlockChunks - b + i]
      BY <1>0, <1>1, BlockerStep
    <2>. QED  BY <1>3, <2>1, Zenon
  <1>5. PICK out : out = InsertBlockAndExtractSubFrame(framer, in.block)
    OBVIOUS
  <1>6. /\ out.subFrame \in Seq(Int) /\ Len(out.subFrame) = SubFrameChunks
        /\ \A i \in 1 .. g : out.subFrame[i] = framer[i]
        /\ \A i \in g + 1 .. SubFrameChunks : out.subFrame[i] = in.block[i - g]
        /\ out.buffer \in Seq(Int) /\ Len(out.buffer) = g - 1
        /\ \A i \in 1 .. g - 1 : out.buffer[i] = in.block[SubFrameChunks - g + i]
    <2>1. framer \in Seq(Int) /\ in.block \in Seq(Int) /\ Len(in.block) = BlockChunks /\ Len(framer) = g
      BY <1>1, <1>2, <1>4
    <2>2. LET r == InsertBlockAndExtractSubFrame(framer, in.block) IN
          /\ r.subFrame \in Seq(Int) /\ Len(r.subFrame) = SubFrameChunks
          /\ \A i \in 1 .. g : r.subFrame[i] = framer[i]
          /\ \A i \in g + 1 .. SubFrameChunks : r.subFrame[i] = in.block[i - g]
          /\ r.buffer \in Seq(Int) /\ Len(r.buffer) = g - 1
          /\ \A i \in 1 .. g - 1 : r.buffer[i] = in.block[SubFrameChunks - g + i]
      BY <1>2, <2>1, FramerStep
    <2>. QED  BY <1>5, <2>2, Zenon
  <1>7. ASSUME NEW i \in 1 .. BlockChunks PROVE in.block[i] = DelayedBy(d, n - b + i)
    <2>1. CASE i \in 1 .. b
      BY <1>1, <1>4, <2>1
    <2>2. CASE i \in b + 1 .. BlockChunks
      <3>1. i - b \in 1 .. SubFrameChunks /\ n + (i - b) = n - b + i
        BY <2>2, Sizes
      <3>. QED  BY <1>0, <1>4, <2>2, <3>1
    <2>. QED  BY <1>7, <2>1, <2>2, Sizes
  <1>8. ASSUME NEW i \in 1 .. b + 1
        PROVE  in.buffer[i] = DelayedBy(d, (n + SubFrameChunks) - (b + 1) + i)
    <2>1. /\ BlockChunks - b + i \in 1 .. SubFrameChunks
          /\ n + (BlockChunks - b + i) = (n + SubFrameChunks) - (b + 1) + i
      BY <1>8, Sizes
    <2>. QED  BY <1>0, <1>4, <1>8, <2>1
  <1>9. ASSUME NEW i \in 1 .. SubFrameChunks
        PROVE  out.subFrame[i] = DelayedBy(d, n - BlockChunks + i)
    <2>1. CASE i \in 1 .. g
      BY <1>1, <1>2, <1>6, <2>1
    <2>2. CASE i \in g + 1 .. SubFrameChunks
      <3>1. i - g \in 1 .. BlockChunks /\ n - b + (i - g) = n - BlockChunks + i
        BY <1>2, <2>2, Sizes
      <3>. QED  BY <1>6, <1>7, <2>2, <3>1
    <2>. QED  BY <1>2, <1>9, <2>1, <2>2, Sizes
  <1>10. ASSUME NEW i \in 1 .. g - 1
         PROVE  out.buffer[i] = DelayedBy(d, (n + SubFrameChunks) - BlockChunks + i)
    <2>1. /\ SubFrameChunks - g + i \in 1 .. BlockChunks
          /\ n - b + (SubFrameChunks - g + i) = (n + SubFrameChunks) - BlockChunks + i
      BY <1>2, <1>10, Sizes
    <2>. QED  BY <1>6, <1>7, <1>10, <2>1
  <1>11. Repacked(d, in.buffer, out.buffer, n + SubFrameChunks)
    <2>1. g - 1 = BlockChunks - (b + 1)
      BY <1>2, Sizes
    <2>2. \A i \in 1 .. Len(in.buffer) :
            in.buffer[i] = DelayedBy(d, (n + SubFrameChunks) - Len(in.buffer) + i)
      BY <1>4, <1>8
    <2>3. \A i \in 1 .. Len(out.buffer) :
            out.buffer[i] = DelayedBy(d, (n + SubFrameChunks) - BlockChunks + i)
      BY <1>6, <1>10
    <2>4. Len(out.buffer) = BlockChunks - Len(in.buffer)
      BY <1>4, <1>6, <2>1
    <2>. QED  BY <1>4, <1>6, <2>2, <2>3, <2>4, Zenon DEF Repacked
  <1>12. SubFrameDone(d, n, b, in, out)
    BY <1>4, <1>6, <1>7, <1>9, <1>11, Zenon DEF SubFrameDone
  <1>. QED  BY <1>3, <1>5, <1>12

-----------------------------------------------------------------------------
(* The calls and the delayed frame.                                        *)

Locations == {"idle", "empty_queue", "sub_frame_0", "sub_frame_1", "remaining"}

\* Every capture frame is analysed once and then processed.
CallsInv ==
  /\ captured \in Nat /\ analyzed \in Nat /\ fixed_delay \in Nat /\ pc \in Locations
  /\ aborted \in BOOLEAN
  /\ pc = "idle" => analyzed \in {captured, captured + 1}
  /\ pc # "idle" => analyzed = captured /\ captured > 0

\* The ring and the frame in process hold the delayed capture signal.
DelayInv ==
  /\ fixed_delay > 0 => /\ block_delay_buffer_ \in Ring(fixed_delay)
                        /\ HoldsAfter(block_delay_buffer_, fixed_delay, FrameChunks * captured)
  /\ pc # "idle" => /\ frame \in [1 .. FrameChunks -> Int]
                    /\ \A k \in 1 .. FrameChunks :
                         frame[k] = DelayedBy(fixed_delay, FrameChunks * (captured - 1) + k)

\* The calls, initially.
LEMMA CallsInit == Init => CallsInv
  <1>. SUFFICES ASSUME Init PROVE CallsInv
    OBVIOUS
  <1>1. captured = 0 /\ analyzed = 0 /\ aborted = FALSE /\ pc = "idle"
    BY DEF Init
  <1>2. fixed_delay \in Nat
    BY OptionsAssumption DEF Init
  <1>. QED  BY <1>1, <1>2 DEF CallsInv, Locations

\* AnalyzeCapture and ProcessCapture alternate.
LEMMA CallsNext ==
  ASSUME CallsInv, [Next]_vars
  PROVE  CallsInv'
  <1>. USE DEF CallsInv, Locations
  <1>1. CASE AnalyzeRender
    BY <1>1 DEF AnalyzeRender, frameVars, saturationVars
  <1>2. ASSUME NEW saturation \in BOOLEAN, AnalyzeCapture(saturation) PROVE CallsInv'
    BY <1>2 DEF AnalyzeCapture, frameVars
  <1>3. ASSUME NEW linear, ProcessCapture(linear) PROVE CallsInv'
    BY <1>3 DEF ProcessCapture, saturationVars
  <1>4. CASE BufferRenderFrame
    <2>1. aborted' \in BOOLEAN
      BY <1>4 DEF BufferRenderFrame, SubFrameFits
    <2>2. UNCHANGED <<captured, analyzed, fixed_delay, pc>>
      BY <1>4 DEF BufferRenderFrame, frameVars, saturationVars
    <2>. QED  BY <2>1, <2>2
  <1>5. CASE QueueEmptied
    BY <1>5 DEF QueueEmptied, frameVars, saturationVars
  <1>6. ASSUME NEW i, NEW at, NEW next \in Locations \ {"idle"}, at # "idle",
               ProcessCaptureFrameContent(i, at, next)
        PROVE  CallsInv'
    <2>1. aborted' \in BOOLEAN
      BY <1>6 DEF ProcessCaptureFrameContent, SubFrameFits, BlockCompletesSubFrame
    <2>2. UNCHANGED <<captured, analyzed, fixed_delay>> /\ pc = at /\ pc' = next
      BY <1>6 DEF ProcessCaptureFrameContent, frameVars, saturationVars
    <2>. QED  BY <1>6, <2>1, <2>2
  <1>7. CASE ProcessRemainingCaptureFrameContent
    <2>1. aborted' \in BOOLEAN
      BY <1>7 DEF ProcessRemainingCaptureFrameContent, BlockFits
    <2>2. UNCHANGED <<captured, analyzed, fixed_delay>> /\ pc = "remaining" /\ pc' = "idle"
      BY <1>7 DEF ProcessRemainingCaptureFrameContent, frameVars, saturationVars
    <2>. QED  BY <2>1, <2>2
  <1>8. CASE UNCHANGED vars
    BY <1>8 DEF vars, frameVars, saturationVars
  <1>. QED  BY <1>1, <1>2, <1>3, <1>4, <1>5, <1>6, <1>7, <1>8
            DEF Next, CaptureStep, ProcessFirstSubFrame, ProcessSecondSubFrame

\* The new ring holds silence.
LEMMA DelayInit == Init => DelayInv
  <1>. SUFFICES ASSUME Init, fixed_delay > 0
                PROVE  /\ block_delay_buffer_ \in Ring(fixed_delay)
                       /\ HoldsAfter(block_delay_buffer_, fixed_delay, FrameChunks * captured)
    BY DEF Init, DelayInv
  <1>1. /\ fixed_delay \in Nat \ {0} /\ captured = 0
        /\ block_delay_buffer_ = [buf |-> [i \in 0 .. fixed_delay - 1 |-> 0], last_insert_ |-> 0]
    BY OptionsAssumption DEF Init, NewDelayBuffer
  <1>2. block_delay_buffer_ \in Ring(fixed_delay)
    BY <1>1 DEF Ring
  <1>3. ASSUME NEW k \in 1 .. fixed_delay
        PROVE  block_delay_buffer_.buf[Place(block_delay_buffer_, fixed_delay, k)]
                 = DelayedBy(fixed_delay, FrameChunks * captured + k)
    <2>1. Place(block_delay_buffer_, fixed_delay, k) = (0 + k - 1) % fixed_delay
      BY <1>1 DEF Place
    <2>2. 0 + k - 1 \in Nat
      BY <1>1, <1>3
    <2>3. Place(block_delay_buffer_, fixed_delay, k) \in 0 .. fixed_delay - 1
      BY <1>1, <2>1, <2>2, Division
    <2>4. FrameChunks * captured + k = k
      BY <1>1, <1>3, Sizes
    <2>5. DelayedBy(fixed_delay, k) = 0
      BY <1>1, <1>3 DEF DelayedBy
    <2>. QED  BY <1>1, <2>3, <2>4, <2>5
  <1>. QED  BY <1>2, <1>3 DEF HoldsAfter

\* The chunks of a frame.
LEMMA FrameItems ==
  ASSUME NEW n \in Nat
  PROVE  /\ Frame(n) \in [1 .. FrameChunks -> Int]
         /\ \A k \in 1 .. FrameChunks : Frame(n)[k] = FrameChunks * (n - 1) + k
  BY Sizes DEF Frame

\* Every frame goes through the ring once.
LEMMA DelayNext ==
  ASSUME CallsInv, DelayInv, [Next]_vars
  PROVE  DelayInv'
  <1>1. ASSUME UNCHANGED frameVars, pc # "idle" \/ pc' = "idle" PROVE DelayInv'
    BY <1>1 DEF DelayInv, frameVars
  <1>2. ASSUME NEW linear, ProcessCapture(linear) PROVE DelayInv'
    <2>1. captured \in Nat /\ fixed_delay \in Nat
      BY DEF CallsInv
    <2>2. captured' = captured + 1 /\ fixed_delay' = fixed_delay
      BY <1>2 DEF ProcessCapture
    <2>3. PICK f : f = Frame(captured + 1)
      OBVIOUS
    <2>4. /\ f \in [1 .. FrameChunks -> Int]
          /\ \A k \in 1 .. FrameChunks : f[k] = FrameChunks * captured + k
      <3>1. /\ f \in [1 .. FrameChunks -> Int]
            /\ \A k \in 1 .. FrameChunks : f[k] = FrameChunks * ((captured + 1) - 1) + k
        BY <2>1, <2>3, FrameItems
      <3>2. (captured + 1) - 1 = captured
        BY <2>1
      <3>. QED  BY <3>1, <3>2
    <2>5. FrameChunks * (captured' - 1) = FrameChunks * captured
          /\ FrameChunks * captured' = FrameChunks * captured + FrameChunks
          /\ FrameChunks * captured \in Nat
      BY <2>1, <2>2, Sizes
    <2>6. CASE fixed_delay > 0
      <3>1. PICK r : r = DelaySignal(block_delay_buffer_, f)
        OBVIOUS
      <3>2. frame' = r.frame /\ block_delay_buffer_' = r.buffer
        BY <1>2, <2>3, <2>6, <3>1 DEF ProcessCapture
      <3>3. /\ block_delay_buffer_ \in Ring(fixed_delay)
            /\ HoldsAfter(block_delay_buffer_, fixed_delay, FrameChunks * captured)
            /\ fixed_delay \in Nat \ {0}
        BY <2>1, <2>6 DEF DelayInv
      <3>4. /\ r.frame \in [1 .. FrameChunks -> Int]
            /\ \A k \in 1 .. FrameChunks :
                 r.frame[k] = DelayedBy(fixed_delay, FrameChunks * captured + k)
            /\ r.buffer \in Ring(fixed_delay)
            /\ HoldsAfter(r.buffer, fixed_delay, FrameChunks * captured + FrameChunks)
        <4>1. LET s == DelaySignal(block_delay_buffer_, f) IN
              /\ s.frame \in [1 .. FrameChunks -> Int]
              /\ \A k \in 1 .. FrameChunks :
                   s.frame[k] = DelayedBy(fixed_delay, FrameChunks * captured + k)
              /\ s.buffer \in Ring(fixed_delay)
              /\ HoldsAfter(s.buffer, fixed_delay, FrameChunks * captured + FrameChunks)
          BY <2>4, <2>5, <3>3, DelaySignalEffect
        <4>. QED  BY <3>1, <4>1
      <3>. QED  BY <2>2, <2>5, <3>2, <3>4 DEF DelayInv
    <2>7. CASE ~(fixed_delay > 0)
      <3>1. frame' = f
        BY <1>2, <2>3, <2>7 DEF ProcessCapture
      <3>2. \A k \in 1 .. FrameChunks : f[k] = DelayedBy(fixed_delay, FrameChunks * captured + k)
        BY <2>1, <2>4, <2>5, <2>7, Sizes DEF DelayedBy
      <3>. QED  BY <2>2, <2>4, <2>5, <2>7, <3>1, <3>2 DEF DelayInv
    <2>. QED  BY <2>6, <2>7
  <1>. QED  BY <1>1, <1>2 DEF Next, CaptureStep, AnalyzeRender, AnalyzeCapture, BufferRenderFrame,
              QueueEmptied, ProcessFirstSubFrame, ProcessSecondSubFrame, ProcessCaptureFrameContent,
              ProcessRemainingCaptureFrameContent, vars, frameVars

-----------------------------------------------------------------------------
(* The blocks.                                                             *)

\* The number of capture chunks that went into the blocker.
Given == IF pc \in {"empty_queue", "sub_frame_0"} THEN FrameChunks * (captured - 1)
         ELSE IF pc = "sub_frame_1" THEN FrameChunks * (captured - 1) + SubFrameChunks
         ELSE FrameChunks * captured

\* The phase of the blocks: a frame is two and a half of them.
Phase == IF pc = "sub_frame_1" THEN {1, 3} ELSE IF pc = "remaining" THEN {2, 4} ELSE {0, 2}

\* What holds until a buffer check fails.
BlocksInv ==
  ~aborted =>
    /\ Repacked(fixed_delay, capture_blocker_, output_framer_, Given)
    /\ Len(capture_blocker_) \in Phase
    /\ pc \in {"sub_frame_1", "remaining"} =>
         /\ output \in Seq(Int) /\ Len(output) = SubFrameChunks
         /\ \A i \in 1 .. SubFrameChunks :
              output[i] = DelayedBy(fixed_delay, (Given - SubFrameChunks) - BlockChunks + i)

\* The framer starts with a block of silence.
LEMMA BlocksInit == Init => BlocksInv
  <1>. SUFFICES ASSUME Init PROVE BlocksInv
    OBVIOUS
  <1>1. /\ capture_blocker_ = <<>> /\ output_framer_ = [i \in 1 .. BlockChunks |-> 0]
        /\ captured = 0 /\ pc = "idle" /\ fixed_delay \in Nat
    BY OptionsAssumption DEF Init, SilentBlock
  <1>2. Given = 0 /\ Phase = {0, 2}
    BY <1>1, Sizes DEF Given, Phase
  <1>3. capture_blocker_ \in Seq(Int) /\ Len(capture_blocker_) = 0
    BY <1>1
  <1>4. output_framer_ \in Seq(Int) /\ Len(output_framer_) = BlockChunks
    BY <1>1, Sizes
  <1>5. \A i \in 1 .. BlockChunks : output_framer_[i] = DelayedBy(fixed_delay, 0 - BlockChunks + i)
    BY <1>1, Sizes DEF DelayedBy
  <1>6. Repacked(fixed_delay, capture_blocker_, output_framer_, 0)
    BY <1>3, <1>4, <1>5, Sizes DEF Repacked
  <1>. QED  BY <1>1, <1>2, <1>3, <1>6 DEF BlocksInv

\* A step that leaves the blocks and the frame in process alone.
LEMMA BlocksKept ==
  ASSUME BlocksInv, UNCHANGED <<captureVars, fixed_delay>>, Given' = Given, Phase' = Phase,
         aborted' \/ ~aborted, pc' \notin {"sub_frame_1", "remaining"} \/ pc' = pc
  PROVE  BlocksInv'
  BY DEF BlocksInv, captureVars, Repacked

\* The sub-frame that comes next, and where it ends up.
LEMMA SubFrameStep ==
  ASSUME CallsInv, DelayInv, BlocksInv, NEW i \in {0, 1}, NEW at, NEW next,
         \/ i = 0 /\ at = "sub_frame_0" /\ next = "sub_frame_1"
         \/ i = 1 /\ at = "sub_frame_1" /\ next = "remaining",
         ProcessCaptureFrameContent(i, at, next)
  PROVE  LET in  == InsertSubFrameAndExtractBlock(capture_blocker_, SubFrame(frame, i))
             out == InsertBlockAndExtractSubFrame(output_framer_, in.block)
         IN /\ Given' = Given + SubFrameChunks
            /\ Len(capture_blocker_) \in 0 .. 3 /\ Len(output_framer_) \in 1 .. 4
            /\ Len(capture_blocker_) + 1 \in Phase'
            /\ SubFrameDone(fixed_delay, Given, Len(capture_blocker_), in, out)
  <1>1. ~aborted /\ pc = at /\ pc' = next /\ captured' = captured
    BY DEF ProcessCaptureFrameContent, frameVars
  <1>2. captured \in Nat /\ fixed_delay \in Nat
    BY DEF CallsInv
  <1>3. Given = FrameChunks * (captured - 1) + SubFrameChunks * i
    BY <1>1, <1>2, Sizes DEF Given
  <1>4. Given \in Int /\ Given' = Given + SubFrameChunks
    BY <1>1, <1>2, <1>3, Sizes DEF Given
  <1>5. /\ Repacked(fixed_delay, capture_blocker_, output_framer_, Given)
        /\ Len(capture_blocker_) \in Phase
    BY <1>1 DEF BlocksInv
  <1>6. PICK b \in 0 .. 3 : b = Len(capture_blocker_) /\ b + 1 \in Phase'
    BY <1>1, <1>5 DEF Phase
  <1>7. Len(output_framer_) \in 1 .. 4
    <2>1. Len(output_framer_) = BlockChunks - b
      BY <1>5, <1>6 DEF Repacked
    <2>. QED  BY <2>1, Sizes
  <1>8. Continues(fixed_delay, Given, SubFrame(frame, i))
    <2>1. /\ frame \in [1 .. FrameChunks -> Int]
          /\ \A k \in 1 .. FrameChunks :
               frame[k] = DelayedBy(fixed_delay, FrameChunks * (captured - 1) + k)
      BY <1>1 DEF DelayInv
    <2>2. /\ SubFrame(frame, i) \in Seq(Int) /\ Len(SubFrame(frame, i)) = 5
          /\ \A c \in 1 .. 5 : SubFrame(frame, i)[c] = frame[5 * i + c]
      BY <2>1, FrameParts, Sizes
    <2>3. ASSUME NEW k \in 1 .. SubFrameChunks
          PROVE  SubFrame(frame, i)[k] = DelayedBy(fixed_delay, Given + k)
      <3>1. /\ k \in 1 .. 5 /\ 5 * i + k \in 1 .. FrameChunks
            /\ FrameChunks * (captured - 1) + (5 * i + k) = Given + k
        BY <1>2, <1>3, <2>3, Sizes
      <3>. QED  BY <2>1, <2>2, <3>1
    <2>. QED  BY <2>2, <2>3, Sizes DEF Continues
  <1>9. LET in  == InsertSubFrameAndExtractBlock(capture_blocker_, SubFrame(frame, i))
            out == InsertBlockAndExtractSubFrame(output_framer_, in.block)
        IN SubFrameDone(fixed_delay, Given, b, in, out)
    BY <1>2, <1>4, <1>5, <1>6, <1>8, SubFrameRepacked
  <1>. QED  BY <1>4, <1>6, <1>7, <1>9, Zenon

\* A block that is left fills the framer, which is empty.
LEMMA BlockRepacked ==
  ASSUME NEW d, NEW n, NEW blocker, NEW framer, Repacked(d, blocker, framer, n),
         Len(blocker) = BlockChunks
  PROVE  framer = <<>> /\ Repacked(d, <<>>, InsertBlock(framer, blocker), n)
  <1>1. /\ blocker \in Seq(Int) /\ framer \in Seq(Int) /\ Len(framer) = BlockChunks - BlockChunks
        /\ \A i \in 1 .. BlockChunks : blocker[i] = DelayedBy(d, n - BlockChunks + i)
    BY DEF Repacked
  <1>2. framer = <<>>
    BY <1>1, EmptySeq, Sizes
  <1>3. InsertBlock(framer, blocker) = blocker
    BY <1>1, <1>2, ConcatEmptySeq DEF InsertBlock
  <1>4. <<>> \in Seq(Int) /\ Len(<<>>) = 0
    OBVIOUS
  <1>5. Repacked(d, <<>>, blocker, n)
    BY <1>1, <1>4, Sizes DEF Repacked
  <1>. QED  BY <1>2, <1>3, <1>5

\* Every step keeps the capture signal repacked.
LEMMA BlocksNext ==
  ASSUME CallsInv, DelayInv, BlocksInv, [Next]_vars
  PROVE  BlocksInv'
  <1>0. captured \in Nat /\ fixed_delay \in Nat
    BY DEF CallsInv
  <1>1. CASE AnalyzeRender
    <2>1. UNCHANGED <<captureVars, fixed_delay, pc, captured, aborted>>
      BY <1>1 DEF AnalyzeRender, frameVars
    <2>. QED  BY <2>1, BlocksKept DEF Given, Phase
  <1>2. ASSUME NEW saturation \in BOOLEAN, AnalyzeCapture(saturation) PROVE BlocksInv'
    <2>1. UNCHANGED <<captureVars, fixed_delay, pc, captured, aborted>>
      BY <1>2 DEF AnalyzeCapture, frameVars
    <2>. QED  BY <2>1, BlocksKept DEF Given, Phase
  <1>3. ASSUME NEW linear, ProcessCapture(linear) PROVE BlocksInv'
    <2>1. /\ UNCHANGED <<captureVars, fixed_delay, aborted>> /\ captured' = captured + 1
          /\ pc = "idle" /\ pc' = "empty_queue"
      BY <1>3 DEF ProcessCapture
    <2>2. Given' = Given /\ Phase' = Phase
      BY <1>0, <2>1, Sizes DEF Given, Phase
    <2>. QED  BY <2>1, <2>2, BlocksKept
  <1>4. CASE BufferRenderFrame
    <2>1. UNCHANGED <<captureVars, fixed_delay, pc, captured>> /\ ~aborted /\ pc = "empty_queue"
      BY <1>4 DEF BufferRenderFrame, frameVars
    <2>. QED  BY <2>1, BlocksKept DEF Given, Phase
  <1>5. CASE QueueEmptied
    <2>1. /\ UNCHANGED <<captureVars, fixed_delay, captured, aborted>>
          /\ pc = "empty_queue" /\ pc' = "sub_frame_0"
      BY <1>5 DEF QueueEmptied, frameVars
    <2>. QED  BY <2>1, BlocksKept DEF Given, Phase
  <1>6. ASSUME NEW i \in {0, 1}, NEW at, NEW next,
               \/ i = 0 /\ at = "sub_frame_0" /\ next = "sub_frame_1"
               \/ i = 1 /\ at = "sub_frame_1" /\ next = "remaining",
               ProcessCaptureFrameContent(i, at, next)
        PROVE  BlocksInv'
    <2>. SUFFICES ASSUME ~aborted' PROVE BlocksInv'
      BY DEF BlocksInv
    <2>1. PICK in : in = InsertSubFrameAndExtractBlock(capture_blocker_, SubFrame(frame, i))
      OBVIOUS
    <2>2. PICK out : out = InsertBlockAndExtractSubFrame(output_framer_, in.block)
      OBVIOUS
    <2>3. /\ capture_blocker_' = in.buffer /\ output_framer_' = out.buffer
          /\ output' = out.subFrame
      BY <1>6, <2>1, <2>2 DEF ProcessCaptureFrameContent
    <2>4. fixed_delay' = fixed_delay
      BY <1>6 DEF ProcessCaptureFrameContent, frameVars
    <2>5. /\ Given' = Given + SubFrameChunks
          /\ Len(capture_blocker_) + 1 \in Phase'
          /\ SubFrameDone(fixed_delay, Given, Len(capture_blocker_), in, out)
      <3>1. LET s == InsertSubFrameAndExtractBlock(capture_blocker_, SubFrame(frame, i))
                t == InsertBlockAndExtractSubFrame(output_framer_, s.block)
            IN /\ Given' = Given + SubFrameChunks
               /\ Len(capture_blocker_) + 1 \in Phase'
               /\ SubFrameDone(fixed_delay, Given, Len(capture_blocker_), s, t)
        BY <1>6, SubFrameStep
      <3>. QED  BY <2>1, <2>2, <3>1
    <2>6. Given \in Int /\ (Given + SubFrameChunks) - SubFrameChunks = Given
      BY <1>0, Sizes DEF Given
    <2>7. /\ Repacked(fixed_delay', capture_blocker_', output_framer_', Given')
          /\ Len(capture_blocker_') \in Phase'
          /\ output' \in Seq(Int) /\ Len(output') = SubFrameChunks
      BY <2>3, <2>4, <2>5 DEF SubFrameDone
    <2>8. \A k \in 1 .. SubFrameChunks :
            output'[k] = DelayedBy(fixed_delay', (Given' - SubFrameChunks) - BlockChunks + k)
      BY <2>3, <2>4, <2>5, <2>6 DEF SubFrameDone
    <2>. QED  BY <2>7, <2>8 DEF BlocksInv
  <1>7. CASE ProcessRemainingCaptureFrameContent
    <2>. SUFFICES ASSUME ~aborted' PROVE BlocksInv'
      BY DEF BlocksInv
    <2>1. /\ ~aborted /\ pc = "remaining" /\ pc' = "idle" /\ captured' = captured
          /\ fixed_delay' = fixed_delay
      BY <1>7 DEF ProcessRemainingCaptureFrameContent, frameVars
    <2>2. /\ Repacked(fixed_delay, capture_blocker_, output_framer_, Given)
          /\ Len(capture_blocker_) \in {2, 4} /\ Given' = Given /\ Phase' = {0, 2}
      BY <2>1 DEF BlocksInv, Given, Phase
    <2>3. CASE Len(capture_blocker_) = BlockChunks
      <3>1. /\ capture_blocker_' = <<>>
            /\ output_framer_' = InsertBlock(output_framer_, capture_blocker_)
        BY <1>7, <2>3 DEF ProcessRemainingCaptureFrameContent, IsBlockAvailable
      <3>2. Repacked(fixed_delay, capture_blocker_', output_framer_', Given)
        BY <2>2, <2>3, <3>1, BlockRepacked
      <3>3. Len(capture_blocker_') = 0
        BY <3>1
      <3>. QED  BY <2>1, <2>2, <3>2, <3>3 DEF BlocksInv
    <2>4. CASE Len(capture_blocker_) # BlockChunks
      <3>1. UNCHANGED <<capture_blocker_, output_framer_>>
        BY <1>7, <2>4 DEF ProcessRemainingCaptureFrameContent, IsBlockAvailable
      <3>. QED  BY <2>1, <2>2, <2>4, <3>1, Sizes DEF BlocksInv
    <2>. QED  BY <2>3, <2>4
  <1>8. CASE UNCHANGED vars
    <2>1. UNCHANGED <<captureVars, fixed_delay, pc, captured, aborted>>
      BY <1>8 DEF vars, frameVars
    <2>. QED  BY <2>1, BlocksKept DEF Given, Phase
  <1>. QED  BY <1>1, <1>2, <1>3, <1>4, <1>5, <1>6, <1>7, <1>8
            DEF Next, CaptureStep, ProcessFirstSubFrame, ProcessSecondSubFrame

-----------------------------------------------------------------------------
(* The render signal.                                                      *)

\* Concatenation is associative.
LEMMA Associative ==
  ASSUME NEW x \in Seq(Int), NEW y \in Seq(Int), NEW z \in Seq(Int)
  PROVE  (x \o y) \o z = x \o (y \o z)
  BY ConcatAssociative

\* The blocker loses nothing: block and rest are what it held and what came in.
LEMMA BlockerConserves ==
  ASSUME NEW buffer, NEW subFrame, NEW b \in 0 .. 3
  PROVE  buffer \in Seq(Int) /\ Len(buffer) = b
         /\ subFrame \in Seq(Int) /\ Len(subFrame) = SubFrameChunks =>
           LET r == InsertSubFrameAndExtractBlock(buffer, subFrame) IN
           r.block \o r.buffer = buffer \o subFrame
  <1>0. SUFFICES ASSUME buffer \in Seq(Int), Len(buffer) = b,
                        subFrame \in Seq(Int), Len(subFrame) = SubFrameChunks
                 PROVE  LET r == InsertSubFrameAndExtractBlock(buffer, subFrame) IN
                        r.block \o r.buffer = buffer \o subFrame
    OBVIOUS
  <1>1. PICK m \in 1 .. SubFrameChunks : m = BlockChunks - b
    BY Sizes
  <1>2. PICK front, back : front = SubSeq(subFrame, 1, m) /\ back = SubSeq(subFrame, m + 1, Len(subFrame))
    OBVIOUS
  <1>3. /\ InsertSubFrameAndExtractBlock(buffer, subFrame).block = buffer \o front
        /\ InsertSubFrameAndExtractBlock(buffer, subFrame).buffer = back
    BY <1>0, <1>1, <1>2 DEF InsertSubFrameAndExtractBlock
  <1>4. /\ m \in Nat /\ m <= SubFrameChunks
        /\ 1 \in 1 .. SubFrameChunks + 1 /\ m \in 1 - 1 .. SubFrameChunks
        /\ SubFrameChunks \in m .. SubFrameChunks
    BY Sizes
  <1>5. front \in Seq(Int) /\ back \in Seq(Int)
    BY <1>0, <1>2, <1>4, FirstLength, RestLength, Zenon
  <1>6. front \o back = subFrame
    <2>1. SubSeq(subFrame, 1, m) \o SubSeq(subFrame, m + 1, SubFrameChunks)
            = SubSeq(subFrame, 1, SubFrameChunks)
      BY <1>0, <1>4, ConcatAdjacentSubSeq, Zenon
    <2>2. SubSeq(subFrame, 1, Len(subFrame)) = subFrame
      BY <1>0, SubSeqFull, Zenon
    <2>. QED  BY <1>0, <1>2, <2>1, <2>2, Zenon
  <1>7. (buffer \o front) \o back = buffer \o (front \o back)
    BY <1>0, <1>5, Associative, Zenon
  <1>. QED  BY <1>3, <1>6, <1>7, Zenon

\* What the blocker makes of a buffer of b chunks and a sub-frame.
Blocked(r, buffer, subFrame, b) ==
  /\ r.block \in Seq(Int) /\ r.buffer \in Seq(Int) /\ Len(r.buffer) = b + 1
  /\ r.block \o r.buffer = buffer \o subFrame

\* Both facts about the blocker that the render signal needs.
LEMMA BlockerLeaves ==
  ASSUME NEW buffer \in Seq(Int), NEW subFrame \in Seq(Int),
         NEW b \in 0 .. 3, Len(subFrame) = SubFrameChunks, Len(buffer) = b
  PROVE  Blocked(InsertSubFrameAndExtractBlock(buffer, subFrame), buffer, subFrame, b)
  <1>1. LET x == InsertSubFrameAndExtractBlock(buffer, subFrame) IN
        /\ x.block \in Seq(Int) /\ Len(x.block) = BlockChunks
        /\ \A i \in 1 .. b : x.block[i] = buffer[i]
        /\ \A i \in b + 1 .. BlockChunks : x.block[i] = subFrame[i - b]
        /\ x.buffer \in Seq(Int) /\ Len(x.buffer) = b + 1
        /\ \A i \in 1 .. b + 1 : x.buffer[i] = subFrame[BlockChunks - b + i]
    BY BlockerStep, Zenon
  <1>2. LET x == InsertSubFrameAndExtractBlock(buffer, subFrame) IN
        x.block \o x.buffer = buffer \o subFrame
    BY BlockerConserves, Zenon
  <1>. QED  BY <1>1, <1>2, Zenon DEF Blocked

\* A frame is its two sub-frames.
LEMMA SubFramesConserve ==
  ASSUME NEW f \in Seq(Int), Len(f) = FrameChunks
  PROVE  SubFrame(f, 0) \o SubFrame(f, 1) = f
  <1>1. SubFrame(f, 0) = SubSeq(f, 1, 5) /\ SubFrame(f, 1) = SubSeq(f, 5 + 1, 10)
    BY Sizes DEF SubFrame
  <1>2. 1 \in 1 .. Len(f) + 1 /\ 5 \in 1 - 1 .. Len(f) /\ 10 \in 5 .. Len(f)
    BY Sizes
  <1>3. SubSeq(f, 1, 5) \o SubSeq(f, 5 + 1, 10) = SubSeq(f, 1, 10)
    BY <1>2, ConcatAdjacentSubSeq, Zenon
  <1>. QED  BY <1>1, <1>3, SubSeqFull, Sizes

\* Concatenation, opaque.
Join(x, y) == x \o y

\* The same, of an operator the provers do not look into.
LEMMA JoinAssociates ==
  ASSUME NEW x \in Seq(Int), NEW y \in Seq(Int), NEW z \in Seq(Int)
  PROVE  Join(x, y) \in Seq(Int) /\ Join(Join(x, y), z) = Join(x, Join(y, z))
  BY Associative, JoinLength DEF Join

\* Blocks x1 and x2 made of b, f and g, with y1 and y2 = r \o t held in between.
Chain(x1, y1, b, f, x2, y2, g, r, t) ==
  /\ x1 \in Seq(Int) /\ y1 \in Seq(Int) /\ b \in Seq(Int) /\ f \in Seq(Int)
  /\ x2 \in Seq(Int) /\ y2 \in Seq(Int) /\ g \in Seq(Int) /\ r \in Seq(Int) /\ t \in Seq(Int)
  /\ Join(x1, y1) = Join(b, f) /\ Join(x2, y2) = Join(y1, g) /\ Join(r, t) = y2

\* Equality, opaque.
Follows(x, y) == x = y

\* Two sub-frames through the blocker, and the block that is left, after s.
LEMMA Regrouped ==
  ASSUME NEW s \in Seq(Int), NEW b, NEW f, NEW g, NEW x1, NEW y1, NEW x2, NEW y2, NEW r, NEW t,
         Chain(x1, y1, b, f, x2, y2, g, r, t)
  PROVE  Follows(Join(Join(Join(Join(s, x1), x2), r), t), Join(Join(s, b), Join(f, g)))
  <1>0. /\ Join(x1, y1) = Join(b, f) /\ Join(x2, y2) = Join(y1, g) /\ Join(r, t) = y2
        /\ x1 \in Seq(Int) /\ y1 \in Seq(Int) /\ b \in Seq(Int) /\ f \in Seq(Int)
        /\ x2 \in Seq(Int) /\ y2 \in Seq(Int) /\ g \in Seq(Int) /\ r \in Seq(Int) /\ t \in Seq(Int)
    BY DEF Chain
  <1>1. Join(s, x1) \in Seq(Int) /\ Join(Join(s, x1), x2) \in Seq(Int) /\ Join(s, b) \in Seq(Int)
    BY <1>0, JoinAssociates
  <1>2. Join(Join(Join(Join(s, x1), x2), r), t) = Join(Join(Join(s, x1), x2), y2)
    BY <1>0, <1>1, JoinAssociates
  <1>3. Join(Join(Join(s, x1), x2), y2) = Join(Join(s, x1), Join(y1, g))
    BY <1>0, <1>1, JoinAssociates
  <1>4. Join(Join(s, x1), Join(y1, g)) = Join(Join(Join(s, x1), y1), g)
    BY <1>0, <1>1, JoinAssociates
  <1>5. Join(Join(s, x1), y1) = Join(Join(s, b), f)
    <2>1. Join(Join(s, x1), y1) = Join(s, Join(x1, y1))
      BY <1>0, JoinAssociates
    <2>2. Join(Join(s, b), f) = Join(s, Join(b, f))
      BY <1>0, JoinAssociates
    <2>. QED  BY <1>0, <2>1, <2>2, Zenon
  <1>6. Join(Join(Join(s, b), f), g) = Join(Join(s, b), Join(f, g))
    BY <1>0, <1>1, JoinAssociates
  <1>. QED  BY <1>2, <1>3, <1>4, <1>5, <1>6, Zenon DEF Follows

\* Between frames the blocker holds nothing or half a block.
LEMMA EvenLength ==
  ASSUME NEW b \in {0, 2}
  PROVE  b \in 0 .. 3 /\ b + 1 \in 0 .. 3 /\ (b + 1) + 1 = b + 2 /\ b <= 3 /\ b + 1 <= 3
  OBVIOUS

\* A render frame: it fits, and it follows what was there.
RenderRepacked(done, blocker, f) ==
  LET first  == InsertSubFrameAndExtractBlock(blocker, SubFrame(f, 0))
      second == InsertSubFrameAndExtractBlock(first.buffer, SubFrame(f, 1))
      rest   == IF IsBlockAvailable(second.buffer) THEN second.buffer ELSE <<>>
      blocks == done \o first.block \o second.block \o rest
      left   == IF rest = <<>> THEN second.buffer ELSE <<>>
  IN /\ SubFrameFits(blocker) /\ SubFrameFits(first.buffer)
     /\ blocks \in Seq(Int) /\ left \in Seq(Int) /\ Len(left) \in {0, 2}
     /\ blocks \o left = (done \o blocker) \o f

\* The loop body of EmptyRenderQueue on one frame.
LEMMA RenderFrameRepacked ==
  ASSUME NEW done \in Seq(Int), NEW blocker \in Seq(Int), NEW b \in {0, 2}, Len(blocker) = b,
         NEW f \in [1 .. FrameChunks -> Int]
  PROVE  RenderRepacked(done, blocker, f)
  <1>1. f \in Seq(Int) /\ Len(f) = FrameChunks
    <2>1. \A n \in Nat : \A s \in [1 .. n -> Int] : s \in Seq(Int) /\ Len(s) = n
      OBVIOUS
    <2>. QED  BY <2>1, Sizes
  <1>2. PICK f0, f1 : f0 = SubFrame(f, 0) /\ f1 = SubFrame(f, 1)
    OBVIOUS
  <1>3. /\ f0 \in Seq(Int) /\ Len(f0) = SubFrameChunks
        /\ f1 \in Seq(Int) /\ Len(f1) = SubFrameChunks
    BY <1>2, FrameParts, Sizes
  <1>4. PICK c \in 0 .. 3 : c = b + 1
    BY EvenLength, Zenon
  <1>5. PICK first : first = InsertSubFrameAndExtractBlock(blocker, f0)
    OBVIOUS
  <1>6. PICK second : second = InsertSubFrameAndExtractBlock(first.buffer, f1)
    OBVIOUS
  <1>7. PICK x1, y1, x2, y2 : /\ x1 = first.block /\ y1 = first.buffer
                              /\ x2 = second.block /\ y2 = second.buffer
    OBVIOUS
  <1>8. PICK rest, left : /\ rest = IF IsBlockAvailable(y2) THEN y2 ELSE <<>>
                          /\ left = IF rest = <<>> THEN y2 ELSE <<>>
    OBVIOUS
  <1>9. x1 \in Seq(Int) /\ y1 \in Seq(Int) /\ Len(y1) = b + 1 /\ x1 \o y1 = blocker \o f0
    <2>1. b \in 0 .. 3
      BY EvenLength, Zenon
    <2>2. Blocked(InsertSubFrameAndExtractBlock(blocker, f0), blocker, f0, b)
      BY <1>3, <2>1, BlockerLeaves, Zenon
    <2>. QED  BY <1>5, <1>7, <2>2, Zenon DEF Blocked
  <1>10. x2 \in Seq(Int) /\ y2 \in Seq(Int) /\ Len(y2) = b + 2 /\ x2 \o y2 = y1 \o f1
    <2>1. Len(y1) = c /\ second = InsertSubFrameAndExtractBlock(y1, f1)
      BY <1>4, <1>6, <1>7, <1>9
    <2>4. y1 \in Seq(Int)
      BY <1>9
    <2>5. Blocked(InsertSubFrameAndExtractBlock(y1, f1), y1, f1, c)
      BY <1>3, <2>1, <2>4, BlockerLeaves, Zenon
    <2>2. x2 \in Seq(Int) /\ y2 \in Seq(Int) /\ Len(y2) = c + 1 /\ x2 \o y2 = y1 \o f1
      BY <1>7, <2>1, <2>5, Zenon DEF Blocked
    <2>3. c + 1 = b + 2
      BY <1>4, EvenLength, Zenon
    <2>. QED  BY <2>2, <2>3, Zenon
  <1>11. /\ rest \in Seq(Int) /\ left \in Seq(Int) /\ Len(left) \in {0, 2}
         /\ rest \o left = y2
    <2>0. <<>> \in Seq(Int) /\ Len(<<>>) = 0
      OBVIOUS
    <2>1. CASE b = 2
      <3>1. Len(y2) = BlockChunks /\ Len(y2) # 0
        BY <1>10, <2>1, Sizes
      <3>2. y2 # <<>>
        BY <2>0, <3>1, Zenon
      <3>3. rest = y2 /\ left = <<>>
        BY <1>8, <3>1, <3>2 DEF IsBlockAvailable
      <3>4. y2 \o <<>> = y2
        BY <1>10, ConcatEmptySeq, Zenon
      <3>. QED  BY <1>10, <2>0, <3>3, <3>4
    <2>2. CASE b = 0
      <3>1. Len(y2) # BlockChunks /\ Len(y2) = 2
        BY <1>10, <2>2, Sizes
      <3>2. rest = <<>> /\ left = y2
        BY <1>8, <3>1 DEF IsBlockAvailable
      <3>3. <<>> \o y2 = y2
        BY <1>10, ConcatEmptySeq, Zenon
      <3>. QED  BY <1>10, <2>0, <3>1, <3>2, <3>3
    <2>. QED  BY <2>1, <2>2
  <1>12. done \o x1 \o x2 \o rest \in Seq(Int)
    BY <1>9, <1>10, <1>11, JoinLength, Zenon
  <1>13. (done \o x1 \o x2 \o rest) \o left = (done \o blocker) \o f
    <2>1. Chain(x1, y1, blocker, f0, x2, y2, f1, rest, left)
      BY <1>3, <1>9, <1>10, <1>11 DEF Chain, Join
    <2>2. Join(Join(Join(Join(done, x1), x2), rest), left) = Join(Join(done, blocker), Join(f0, f1))
      <3>1. Follows(Join(Join(Join(Join(done, x1), x2), rest), left), Join(Join(done, blocker), Join(f0, f1)))
        BY <2>1, Regrouped, Zenon
      <3>. QED  BY <3>1 DEF Follows
    <2>3. Join(f0, f1) = f
      BY <1>1, <1>2, SubFramesConserve, Zenon DEF Join
    <2>4. Join(Join(Join(Join(done, x1), x2), rest), left) = Join(Join(done, blocker), f)
      BY <2>2, <2>3, Zenon
    <2>. QED  BY <2>4, Zenon DEF Join
  <1>14. SubFrameFits(blocker) /\ SubFrameFits(y1)
    <2>1. Len(blocker) <= 3 /\ Len(y1) <= 3
      BY <1>9, EvenLength, Zenon
    <2>. QED  BY <2>1, Sizes DEF SubFrameFits
  <1>. QED  BY <1>2, <1>5, <1>6, <1>7, <1>8, <1>11, <1>12, <1>13, <1>14, Zenon
            DEF RenderRepacked

\* Two neighbours of the render stream, and the whole of it.
Neighbours(x, y) == \/ y = x + 1
                    \/ /\ FrameOf(y) > FrameOf(x)
                       /\ x % FrameChunks = 0 /\ y % FrameChunks = 1

InOrder(stream) == \A i \in 1 .. Len(stream) - 1 : Neighbours(stream[i], stream[i + 1])

\* The stream ends with the whole of frame k.
EndsWith(stream, k) == stream # <<>> => stream[Len(stream)] = FrameChunks * k

\* The last chunk of a frame and the first of a later one.
LEMMA FrameBorders ==
  ASSUME NEW j \in Nat, NEW k \in Nat, j < k
  PROVE  Neighbours(FrameChunks * j, FrameChunks * (k - 1) + 1)
  <1>1. (10 * j) % 10 = 0 /\ (10 * (k - 1) + 1) % 10 = 1
    OBVIOUS
  <1>2. (10 * j - 1) \div 10 = j - 1 /\ ((10 * (k - 1) + 1) - 1) \div 10 = k - 1
    OBVIOUS
  <1>3. (j - 1) + 1 < (k - 1) + 1
    OBVIOUS
  <1>4. FrameOf(10 * j) = (j - 1) + 1 /\ FrameOf(10 * (k - 1) + 1) = (k - 1) + 1
    BY <1>2, Sizes DEF FrameOf
  <1>. QED  BY <1>1, <1>3, <1>4, Sizes DEF Neighbours

\* A later frame after whole frames leaves the stream in order.
LEMMA FrameFollows ==
  ASSUME NEW s \in Seq(Int), NEW j \in Nat, NEW k \in Nat, j < k, EndsWith(s, j), InOrder(s)
  PROVE  /\ s \o Frame(k) \in Seq(Int) /\ Len(s \o Frame(k)) = Len(s) + FrameChunks
         /\ EndsWith(s \o Frame(k), k) /\ InOrder(s \o Frame(k))
  <1>1. PICK f : f = Frame(k)
    OBVIOUS
  <1>2. /\ f \in Seq(Int) /\ Len(f) = FrameChunks
        /\ \A i \in 1 .. FrameChunks : f[i] = FrameChunks * (k - 1) + i
    BY <1>1, Sizes DEF Frame
  <1>3. PICK n \in Nat : n = Len(s)
    BY LenProperties
  <1>4. PICK t : t = s \o f
    OBVIOUS
  <1>5. t \in Seq(Int) /\ Len(t) = n + FrameChunks
    BY <1>2, <1>3, <1>4, JoinLength, Zenon
  <1>6. ASSUME NEW i \in 1 .. n PROVE t[i] = s[i]
    <2>1. i \in 1 .. Len(s) + Len(f) /\ i <= Len(s)
      BY <1>2, <1>3, <1>6, Sizes
    <2>. QED  BY <1>2, <1>4, <2>1, JoinItem
  <1>7. ASSUME NEW c \in 1 .. FrameChunks PROVE t[n + c] = FrameChunks * (k - 1) + c
    <2>0. n + c \in 1 .. n + FrameChunks /\ ~(n + c <= n) /\ (n + c) - n = c
      BY <1>7, Sizes
    <2>1. n + c \in 1 .. Len(s) + Len(f) /\ ~(n + c <= Len(s)) /\ (n + c) - Len(s) = c
      BY <1>2, <1>3, <2>0, Zenon
    <2>2. (s \o f)[n + c] = f[(n + c) - Len(s)]
      BY <1>2, <2>1, JoinItem
    <2>. QED  BY <1>2, <1>4, <1>7, <2>1, <2>2, Zenon
  <1>8. EndsWith(t, k)
    <2>1. t[n + FrameChunks] = FrameChunks * (k - 1) + FrameChunks
      BY <1>7, Sizes
    <2>2. FrameChunks * (k - 1) + FrameChunks = FrameChunks * k
      BY Sizes
    <2>. QED  BY <1>5, <2>1, <2>2, Zenon DEF EndsWith
  <1>9. ASSUME NEW i \in 1 .. Len(t) - 1 PROVE Neighbours(t[i], t[i + 1])
    <2>0. i \in 1 .. n - 1 \/ (i = n /\ n > 0) \/ i \in n + 1 .. (n + FrameChunks) - 1
      BY <1>3, <1>5, <1>9, Sizes
    <2>1. CASE i \in 1 .. n - 1
      <3>1. i \in 1 .. n /\ i + 1 \in 1 .. n /\ i \in 1 .. Len(s) - 1
        BY <1>3, <2>1
      <3>2. Neighbours(s[i], s[i + 1])
        BY <3>1, Zenon DEF InOrder
      <3>. QED  BY <1>6, <3>1, <3>2, Zenon
    <2>2. CASE i = n /\ n > 0
      <3>1. i \in 1 .. n /\ s # <<>>
        BY <1>3, <2>2
      <3>2. t[i] = FrameChunks * j
        BY <1>3, <1>6, <2>2, <3>1 DEF EndsWith
      <3>3. t[n + 1] = FrameChunks * (k - 1) + 1
        BY <1>7, Sizes
      <3>. QED  BY <2>2, <3>2, <3>3, FrameBorders, Zenon
    <2>3. CASE i \in n + 1 .. (n + FrameChunks) - 1
      <3>1. PICK c \in 1 .. FrameChunks : c = i - n
        BY <2>3, Sizes
      <3>2. c + 1 \in 1 .. FrameChunks /\ i = n + c /\ i + 1 = n + (c + 1)
        BY <2>3, <3>1, Sizes
      <3>3. t[i] = FrameChunks * (k - 1) + c /\ t[i + 1] = FrameChunks * (k - 1) + (c + 1)
        BY <1>7, <3>2, Zenon
      <3>4. FrameChunks * (k - 1) + (c + 1) = (FrameChunks * (k - 1) + c) + 1
        BY <3>1, Sizes
      <3>. QED  BY <3>3, <3>4 DEF Neighbours
    <2>. QED  BY <2>0, <2>1, <2>2, <2>3
  <1>. QED  BY <1>1, <1>3, <1>4, <1>5, <1>8, <1>9, Zenon DEF InOrder
\* All of the render signal so far that was taken from the queue.
Stream == buffered \o render_blocker_

\* The queue holds later and later frames, all later than those that were buffered.
QueueInv ==
  /\ rendered \in Nat /\ sinceEmpty \in Nat
  /\ render_transfer_queue_ \in Seq(Int)
  /\ Len(render_transfer_queue_) <= sinceEmpty
  /\ \A i \in 1 .. Len(render_transfer_queue_) : render_transfer_queue_[i] \in 1 .. rendered
  /\ \A i, j \in 1 .. Len(render_transfer_queue_) :
       i < j => render_transfer_queue_[i] < render_transfer_queue_[j]

\* The stream is in order and goes on with what is queued.
StreamInv ==
  /\ buffered \in Seq(Int) /\ render_blocker_ \in Seq(Int) /\ Len(render_blocker_) \in {0, 2}
  /\ InOrder(Stream)
  /\ \E k \in 0 .. rendered :
       /\ EndsWith(Stream, k)
       /\ \A i \in 1 .. Len(render_transfer_queue_) : k < render_transfer_queue_[i]

RenderInv == QueueInv /\ StreamInv

\* Nothing rendered yet.
LEMMA RenderInit == Init => RenderInv
  <1>. SUFFICES ASSUME Init PROVE RenderInv
    OBVIOUS
  <1>1. /\ rendered = 0 /\ sinceEmpty = 0 /\ render_transfer_queue_ = <<>>
        /\ buffered = <<>> /\ render_blocker_ = <<>>
    BY DEF Init
  <1>2. <<>> \in Seq(Int) /\ Len(<<>>) = 0 /\ <<>> \o <<>> = <<>>
    OBVIOUS
  <1>3. Stream = <<>>
    BY <1>1, <1>2 DEF Stream
  <1>4. QueueInv
    BY <1>1, <1>2 DEF QueueInv
  <1>5. InOrder(Stream) /\ EndsWith(Stream, 0)
    BY <1>2, <1>3 DEF InOrder, EndsWith
  <1>. QED  BY <1>1, <1>2, <1>4, <1>5 DEF StreamInv, RenderInv

\* A frame is analysed: it joins the queue, or is lost.
LEMMA RenderAnalysed ==
  ASSUME RenderInv, AnalyzeRender
  PROVE  RenderInv'
  <1>. DEFINE q == render_transfer_queue_
  <1>1. /\ rendered' = rendered + 1 /\ sinceEmpty' = sinceEmpty + 1
        /\ UNCHANGED <<buffered, render_blocker_>>
        /\ q' = Append(q, rendered + 1) \/ q' = q
    BY DEF AnalyzeRender, renderVars
  <1>2. rendered \in Nat /\ sinceEmpty \in Nat /\ q \in Seq(Int) /\ Len(q) <= sinceEmpty
    BY DEF RenderInv, QueueInv
  <1>3. Len(q) \in Nat
    BY <1>2, LenProperties
  <1>4. PICK k \in 0 .. rendered : EndsWith(Stream, k) /\ \A i \in 1 .. Len(q) : k < q[i]
    BY DEF RenderInv, StreamInv
  <1>5. StreamInv' <=> /\ buffered \in Seq(Int) /\ render_blocker_ \in Seq(Int)
                       /\ Len(render_blocker_) \in {0, 2} /\ InOrder(Stream)
                       /\ \E l \in 0 .. rendered' :
                            EndsWith(Stream, l) /\ \A i \in 1 .. Len(q') : l < q'[i]
    BY <1>1 DEF StreamInv, Stream
  <1>6. CASE q' = q
    <2>1. QueueInv'
      BY <1>1, <1>2, <1>3, <1>6 DEF RenderInv, QueueInv
    <2>2. StreamInv'
      BY <1>1, <1>2, <1>4, <1>5, <1>6 DEF RenderInv, StreamInv
    <2>. QED  BY <2>1, <2>2 DEF RenderInv
  <1>7. CASE q' = Append(q, rendered + 1)
    <2>1. /\ q' \in Seq(Int) /\ Len(q') = Len(q) + 1 /\ q'[Len(q) + 1] = rendered + 1
          /\ \A i \in 1 .. Len(q) : q'[i] = q[i]
      BY <1>2, <1>7, AppendProperties
    <2>2. \A i \in 1 .. Len(q') : i \in 1 .. Len(q) \/ i = Len(q) + 1
      BY <1>3, <2>1
    <2>3. \A i \in 1 .. Len(q) : q[i] \in 1 .. rendered
      BY DEF RenderInv, QueueInv
    <2>4. \A i \in 1 .. Len(q') : q'[i] \in 1 .. rendered' /\ k < q'[i]
      <3>. TAKE i \in 1 .. Len(q')
      <3>1. CASE i \in 1 .. Len(q)
        <4>1. q'[i] = q[i] /\ q[i] \in 1 .. rendered /\ k < q[i]
          BY <1>4, <2>1, <2>3, <3>1
        <4>. QED  BY <1>1, <1>2, <4>1
      <3>2. CASE i = Len(q) + 1
        BY <1>1, <1>2, <2>1, <3>2
      <3>. QED  BY <2>2, <3>1, <3>2
    <2>5. ASSUME NEW i \in 1 .. Len(q'), NEW j \in 1 .. Len(q'), i < j
          PROVE  q'[i] < q'[j]
      <3>1. i \in 1 .. Len(q) /\ q'[i] = q[i]
        BY <1>3, <2>1, <2>2, <2>5
      <3>2. CASE j \in 1 .. Len(q)
        BY <2>1, <2>5, <3>1, <3>2 DEF RenderInv, QueueInv
      <3>3. CASE j = Len(q) + 1
        BY <1>2, <2>1, <2>3, <3>1, <3>3
      <3>. QED  BY <2>2, <3>2, <3>3
    <2>6. QueueInv'
      BY <1>1, <1>2, <1>3, <2>1, <2>4, <2>5 DEF QueueInv
    <2>7. StreamInv'
      <3>1. k \in 0 .. rendered'
        BY <1>1, <1>2
      <3>2. \E l \in 0 .. rendered' : EndsWith(Stream, l) /\ \A i \in 1 .. Len(q') : l < q'[i]
        BY <1>4, <2>4, <3>1
      <3>. QED  BY <1>5, <3>2 DEF RenderInv, StreamInv
    <2>. QED  BY <2>6, <2>7 DEF RenderInv
  <1>. QED  BY <1>1, <1>6, <1>7

\* A frame is taken from the queue: it fits, and the stream goes on with it.
LEMMA RenderBuffered ==
  ASSUME RenderInv, BufferRenderFrame
  PROVE  /\ RenderInv' /\ ~aborted'
         /\ Len(render_transfer_queue_') = Len(render_transfer_queue_) - 1
         /\ Len(Stream') = Len(Stream) + FrameChunks
  <1>. DEFINE q == render_transfer_queue_
  <1>1. q # <<>> /\ q' = Tail(q) /\ rendered' = rendered /\ sinceEmpty' = sinceEmpty
    BY DEF BufferRenderFrame
  <1>2. rendered \in Nat /\ sinceEmpty \in Nat /\ q \in Seq(Int) /\ Len(q) <= sinceEmpty
    BY DEF RenderInv, QueueInv
  <1>3. PICK n \in Nat : n = Len(q) /\ n > 0
    BY <1>1, <1>2, EmptySeq, LenProperties
  <1>4. /\ q' \in Seq(Int) /\ Len(q') = n - 1
        /\ \A i \in 1 .. n - 1 : q'[i] = q[i + 1]
        /\ Head(q) = q[1]
    BY <1>1, <1>2, <1>3, HeadTailProperties
  <1>5. /\ \A i \in 1 .. n : q[i] \in 1 .. rendered
        /\ \A i, j \in 1 .. n : i < j => q[i] < q[j]
    BY <1>3 DEF RenderInv, QueueInv
  <1>6. PICK h \in Nat : h = Head(q) /\ h \in 0 .. rendered /\ h = q[1]
    BY <1>2, <1>3, <1>4, <1>5
  <1>7. \A i \in 1 .. n - 1 : i + 1 \in 1 .. n /\ q'[i] \in 1 .. rendered /\ h < q'[i]
    BY <1>3, <1>4, <1>5, <1>6
  <1>8. QueueInv'
    <2>1. \A i, j \in 1 .. n - 1 : i < j => q'[i] < q'[j]
      BY <1>3, <1>4, <1>5, <1>7
    <2>. QED  BY <1>1, <1>2, <1>3, <1>4, <1>7, <2>1 DEF QueueInv
  <1>9. PICK b \in {0, 2} : b = Len(render_blocker_)
    BY DEF RenderInv, StreamInv
  <1>10. PICK j \in 0 .. rendered : EndsWith(Stream, j) /\ j < h
    BY <1>3, <1>6 DEF RenderInv, StreamInv
  <1>11. PICK f : f = Frame(h) /\ f \in [1 .. FrameChunks -> Int]
    BY <1>6, FrameItems
  <1>12. buffered \in Seq(Int) /\ render_blocker_ \in Seq(Int)
    BY DEF RenderInv, StreamInv
  <1>13. /\ ~aborted'
         /\ buffered' \in Seq(Int) /\ render_blocker_' \in Seq(Int)
         /\ Len(render_blocker_') \in {0, 2}
         /\ Stream' = Stream \o f
    <2>1. LET first  == InsertSubFrameAndExtractBlock(render_blocker_, SubFrame(f, 0))
              second == InsertSubFrameAndExtractBlock(first.buffer, SubFrame(f, 1))
              rest   == IF IsBlockAvailable(second.buffer) THEN second.buffer ELSE <<>>
              blocks == buffered \o first.block \o second.block \o rest
              left   == IF rest = <<>> THEN second.buffer ELSE <<>>
          IN /\ SubFrameFits(render_blocker_) /\ SubFrameFits(first.buffer)
             /\ blocks \in Seq(Int) /\ left \in Seq(Int) /\ Len(left) \in {0, 2}
             /\ blocks \o left = (buffered \o render_blocker_) \o f
      <3>1. Len(render_blocker_) = b
        BY <1>9
      <3>2. RenderRepacked(buffered, render_blocker_, f)
        BY <1>11, <1>12, <3>1, RenderFrameRepacked
      <3>. QED  BY <3>2, Zenon DEF RenderRepacked
    <2>2. PICK first : first = InsertSubFrameAndExtractBlock(render_blocker_, SubFrame(f, 0))
      OBVIOUS
    <2>3. PICK second : second = InsertSubFrameAndExtractBlock(first.buffer, SubFrame(f, 1))
      OBVIOUS
    <2>4. PICK rest : rest = IF IsBlockAvailable(second.buffer) THEN second.buffer ELSE <<>>
      OBVIOUS
    <2>5. SubFrameFits(render_blocker_) /\ SubFrameFits(first.buffer)
      BY <2>1, <2>2, Zenon
    <2>6. /\ aborted' = FALSE
          /\ buffered' = buffered \o first.block \o second.block \o rest
          /\ render_blocker_' = IF rest = <<>> THEN second.buffer ELSE <<>>
      BY <1>6, <1>11, <2>2, <2>3, <2>4, <2>5, Zenon DEF BufferRenderFrame
    <2>. QED  BY <2>1, <2>2, <2>3, <2>4, <2>6, Zenon DEF Stream
  <1>14. PICK s \in Seq(Int) : s = Stream
    BY <1>12, JoinLength DEF Stream
  <1>15. /\ Len(Stream') = Len(Stream) + FrameChunks
         /\ EndsWith(Stream', h) /\ InOrder(Stream')
    <2>1. EndsWith(s, j) /\ InOrder(s)
      BY <1>10, <1>14 DEF RenderInv, StreamInv
    <2>3. j \in Nat /\ j < h
      BY <1>2, <1>10
    <2>2. /\ Len(s \o Frame(h)) = Len(s) + FrameChunks
          /\ EndsWith(s \o Frame(h), h) /\ InOrder(s \o Frame(h))
      BY <2>1, <2>3, FrameFollows, Zenon
    <2>. QED  BY <1>11, <1>13, <1>14, <2>2, Zenon
  <1>16. StreamInv'
    <2>1. \A i \in 1 .. Len(q') : h < q'[i]
      BY <1>4, <1>7
    <2>. QED  BY <1>1, <1>6, <1>13, <1>15, <2>1, Zenon DEF StreamInv
  <1>. QED  BY <1>3, <1>4, <1>8, <1>13, <1>15, <1>16 DEF RenderInv

\* Only those steps touch the render signal, but for finding the queue empty.
LEMMA RenderNext ==
  ASSUME RenderInv, [Next]_vars
  PROVE  RenderInv'
  <1>1. CASE UNCHANGED <<render_transfer_queue_, rendered, renderVars>> /\ sinceEmpty' = sinceEmpty
    BY <1>1 DEF RenderInv, QueueInv, StreamInv, Stream, renderVars
  <1>2. CASE QueueEmptied
    <2>1. /\ UNCHANGED <<render_transfer_queue_, rendered, renderVars>> /\ sinceEmpty' = 0
          /\ render_transfer_queue_ = <<>>
      BY <1>2 DEF QueueEmptied
    <2>. QED  BY <2>1 DEF RenderInv, QueueInv, StreamInv, Stream, renderVars
  <1>. QED  BY <1>1, <1>2, RenderAnalysed, RenderBuffered
            DEF Next, CaptureStep, AnalyzeCapture, ProcessCapture, ProcessFirstSubFrame,
                ProcessSecondSubFrame, ProcessCaptureFrameContent,
                ProcessRemainingCaptureFrameContent, vars, renderVars

\* The buffered render signal is in order, whatever the number of frames that were lost
\* to a full queue in between (RenderWriter::Insert ignores a full queue; EmptyRenderQueue).
THEOREM AlwaysInOrder == Spec => []RenderInOrder
  <1>1. RenderInv => RenderInOrder
    BY DEF RenderInv, StreamInv, InOrder, Neighbours, Stream, RenderInOrder
  <1>. QED  BY <1>1, RenderInit, RenderNext, PTL DEF Spec

\* Counting whole frames.
LEMMA OneFrameMore ==
  ASSUME NEW n \in Nat
  PROVE  (n + FrameChunks) \div FrameChunks = n \div FrameChunks + 1 /\ n \div FrameChunks \in Int
  <1>1. (n + 10) \div 10 = n \div 10 + 1 /\ n \div 10 \in Int
    OBVIOUS
  <1>. QED  BY <1>1, Sizes

\* Every step that loses a render frame meets a queue that has filled up since the
\* capture thread last emptied it.
THEOREM OnlyAFullQueueLoses == Spec => LostOnlyToAFullQueue
  <1>1. ASSUME RenderInv, [Next]_vars, LostFrames' > LostFrames
        PROVE  sinceEmpty >= QueueSize
    <2>. DEFINE q == render_transfer_queue_
                n == Len(buffered) + Len(render_blocker_)
    <2>1. /\ rendered \in Nat /\ Len(q) \in Nat /\ n \in Nat /\ sinceEmpty \in Nat
          /\ Len(q) <= sinceEmpty
      BY <1>1, LenProperties DEF RenderInv, QueueInv, StreamInv
    <2>2. Len(Stream) = n
      BY <1>1, JoinLength DEF RenderInv, StreamInv, Stream
    <2>3. (Len(Stream) = n)'
      <3>1. buffered' \in Seq(Int) /\ render_blocker_' \in Seq(Int)
        BY <1>1, RenderNext DEF RenderInv, StreamInv
      <3>. QED  BY <3>1, JoinLength DEF Stream
    <2>. HIDE DEF n
    <2>4. LostFrames = (rendered - Len(q)) - n \div FrameChunks
      BY DEF LostFrames, n
    <2>5. LostFrames' = (rendered' - Len(q')) - n' \div FrameChunks
      BY DEF LostFrames, n
    <2>6. CASE BufferRenderFrame
      <3>1. rendered' = rendered /\ Len(q') = Len(q) - 1 /\ n' = n + FrameChunks
        BY <1>1, <2>2, <2>3, <2>6, RenderBuffered DEF BufferRenderFrame
      <3>. QED  BY <1>1, <2>1, <2>4, <2>5, <3>1, OneFrameMore
    <2>7. CASE AnalyzeRender
      <3>1. rendered' = rendered + 1 /\ n' = n
        BY <2>7 DEF AnalyzeRender, renderVars, n
      <3>2. CASE Len(q) < QueueSize
        <4>1. q' = Append(q, rendered + 1)
          BY <2>7, <3>2 DEF AnalyzeRender
        <4>2. Len(q') = Len(q) + 1
          BY <1>1, <4>1, AppendProperties DEF RenderInv, QueueInv
        <4>. QED  BY <1>1, <2>1, <2>4, <2>5, <3>1, <4>2, OneFrameMore
      <3>. QED  BY <2>1, <3>2, BoundsAssumption
    <2>8. CASE UNCHANGED <<render_transfer_queue_, rendered, renderVars>>
      <3>1. LostFrames' = LostFrames
        BY <2>8 DEF LostFrames, renderVars
      <3>2. LostFrames \in Int
        BY <2>1, <2>4, OneFrameMore
      <3>. QED  BY <1>1, <3>1, <3>2
    <2>. QED  BY <1>1, <2>6, <2>7, <2>8
              DEF Next, CaptureStep, AnalyzeCapture, ProcessCapture, QueueEmptied,
                  ProcessFirstSubFrame, ProcessSecondSubFrame, ProcessCaptureFrameContent,
                  ProcessRemainingCaptureFrameContent, vars, renderVars
  <1>2. UNCHANGED vars => LostFrames' = LostFrames
    BY DEF vars, renderVars, LostFrames
  <1>. QED  BY <1>1, RenderInit, RenderNext, PTL DEF Spec, LostOnlyToAFullQueue

-----------------------------------------------------------------------------
(* The linear output and the buffer checks.                                *)

\* Every call asks for the linear output when it is exported.  (A call that does not
\* leaves the linear output framer behind, and a later check fails.)
AlwaysAsked == LinearRequests \subseteq {TRUE}

\* The linear output framer is the twin of the output framer.
LinearInv ==
  /\ export_linear \in BOOLEAN
  /\ pc # "idle" => linear_output = export_linear
  /\ export_linear => linear_output_framer_ = output_framer_
  /\ pc \in {"sub_frame_1", "remaining"} /\ linear_output => linearOutput = output

\* Everything the buffer checks rest on.
ChecksInv == /\ CallsInv /\ DelayInv /\ BlocksInv /\ RenderInv
             /\ LinearInv /\ ~aborted

\* Initially both output framers hold a block of silence.
LEMMA ChecksInit == Init => ChecksInv
  <1>. SUFFICES ASSUME Init PROVE LinearInv /\ ~aborted
    BY CallsInit, DelayInit, BlocksInit, RenderInit DEF ChecksInv
  <1>. QED  BY DEF Init, LinearInv

\* A sub-frame passes its checks and keeps the linear output in step.
LEMMA SubFrameChecks ==
  ASSUME ChecksInv, NEW i \in {0, 1}, NEW at, NEW next,
         \/ i = 0 /\ at = "sub_frame_0" /\ next = "sub_frame_1"
         \/ i = 1 /\ at = "sub_frame_1" /\ next = "remaining",
         ProcessCaptureFrameContent(i, at, next)
  PROVE  ~aborted' /\ LinearInv'
  <1>1. PICK in, out, linear :
          /\ in = InsertSubFrameAndExtractBlock(capture_blocker_, SubFrame(frame, i))
          /\ out = InsertBlockAndExtractSubFrame(output_framer_, in.block)
          /\ linear = InsertBlockAndExtractSubFrame(linear_output_framer_, in.block)
    OBVIOUS
  <1>2. Len(capture_blocker_) \in 0 .. 3 /\ Len(output_framer_) \in 1 .. 4
    <2>1. CallsInv /\ DelayInv /\ BlocksInv
      BY DEF ChecksInv
    <2>2. LET block == InsertSubFrameAndExtractBlock(capture_blocker_, SubFrame(frame, i))
              sub   == InsertBlockAndExtractSubFrame(output_framer_, block.block)
          IN /\ Given' = Given + SubFrameChunks
             /\ Len(capture_blocker_) \in 0 .. 3 /\ Len(output_framer_) \in 1 .. 4
             /\ Len(capture_blocker_) + 1 \in Phase'
             /\ SubFrameDone(fixed_delay, Given, Len(capture_blocker_), block, sub)
      BY <2>1, SubFrameStep, Zenon
    <2>. QED  BY <2>2, Zenon
  <1>3. SubFrameFits(capture_blocker_) /\ BlockCompletesSubFrame(output_framer_)
    <2>1. PICK b \in 0 .. 3, g \in 1 .. 4 : b = Len(capture_blocker_) /\ g = Len(output_framer_)
      BY <1>2
    <2>2. b <= BlockChunks - 1 /\ g \in SubFrameChunks - BlockChunks .. BlockChunks
      BY Sizes
    <2>. QED  BY <2>1, <2>2, Zenon DEF SubFrameFits, BlockCompletesSubFrame
  <1>4. pc = at /\ at # "idle" /\ next # "idle" /\ pc' = next
    BY DEF ProcessCaptureFrameContent
  <1>5. linear_output = export_linear /\ export_linear \in BOOLEAN
        /\ (export_linear => linear_output_framer_ = output_framer_)
    BY <1>4 DEF ChecksInv, LinearInv
  <1>6. linear_output => BlockCompletesSubFrame(linear_output_framer_)
    BY <1>3, <1>5, Zenon
  <1>7. linear_output => linear = out
    BY <1>1, <1>5, Zenon
  <1>8. UNCHANGED <<linear_output, export_linear>>
    BY DEF ProcessCaptureFrameContent, linearVars
  <1>9. /\ aborted' = FALSE
        /\ output_framer_' = out.buffer /\ output' = out.subFrame
        /\ linear_output => /\ linear_output_framer_' = linear.buffer
                            /\ linearOutput' = linear.subFrame
    BY <1>1, <1>3, <1>6, Zenon DEF ProcessCaptureFrameContent
  <1>. QED  BY <1>5, <1>7, <1>8, <1>9, Zenon DEF LinearInv

\* So does the block that is left: it is whole only when the framers are empty.
LEMMA RemainingChecks ==
  ASSUME ChecksInv, ProcessRemainingCaptureFrameContent
  PROVE  ~aborted' /\ LinearInv'
  <1>1. /\ ~aborted /\ pc = "remaining" /\ pc' = "idle" /\ UNCHANGED <<linear_output, export_linear>>
        /\ UNCHANGED <<output, linearOutput>>
    BY DEF ProcessRemainingCaptureFrameContent, linearVars
  <1>2. /\ export_linear \in BOOLEAN
        /\ (export_linear => linear_output_framer_ = output_framer_)
    BY DEF ChecksInv, LinearInv
  <1>3. CASE Len(capture_blocker_) = BlockChunks
    <2>1. output_framer_ = <<>>
      <3>1. Repacked(fixed_delay, capture_blocker_, output_framer_, Given)
        BY <1>1 DEF ChecksInv, BlocksInv
      <3>2. output_framer_ \in Seq(Int) /\ Len(output_framer_) = BlockChunks - BlockChunks
        BY <1>3, <3>1 DEF Repacked
      <3>. QED  BY <3>2, EmptySeq, Sizes
    <2>2. BlockFits(output_framer_) /\ (export_linear => BlockFits(linear_output_framer_))
      BY <1>2, <2>1 DEF BlockFits
    <2>3. /\ aborted' = FALSE
          /\ output_framer_' = InsertBlock(output_framer_, capture_blocker_)
          /\ linear_output_framer_' =
               IF export_linear THEN InsertBlock(linear_output_framer_, capture_blocker_)
               ELSE linear_output_framer_
      BY <1>3, <2>2, Zenon DEF ProcessRemainingCaptureFrameContent, IsBlockAvailable
    <2>. QED  BY <1>1, <1>2, <2>3 DEF LinearInv
  <1>4. CASE Len(capture_blocker_) # BlockChunks
    <2>1. UNCHANGED <<output_framer_, linear_output_framer_, aborted>>
      BY <1>4 DEF ProcessRemainingCaptureFrameContent, IsBlockAvailable
    <2>. QED  BY <1>1, <1>2, <2>1 DEF LinearInv
  <1>. QED  BY <1>3, <1>4

\* No step fails a check.
LEMMA ChecksNext ==
  ASSUME AlwaysAsked, ChecksInv, [Next]_vars
  PROVE  ChecksInv'
  <1>1. CallsInv' /\ DelayInv' /\ BlocksInv' /\ RenderInv'
    BY CallsNext, DelayNext, BlocksNext, RenderNext DEF ChecksInv
  <1>. SUFFICES ~aborted' /\ LinearInv'
    BY <1>1 DEF ChecksInv
  <1>2. ASSUME UNCHANGED <<captureVars, linearVars>>, ~aborted',
               pc' = pc \/ pc' = "idle" \/ (pc = "empty_queue" /\ pc' = "sub_frame_0")
        PROVE  ~aborted' /\ LinearInv'
    BY <1>2 DEF ChecksInv, LinearInv, captureVars, linearVars
  <1>3. CASE AnalyzeRender \/ (\E saturation \in BOOLEAN : AnalyzeCapture(saturation))
             \/ QueueEmptied \/ UNCHANGED vars
    <2>1. ~aborted
      BY DEF ChecksInv
    <2>. QED  BY <1>2, <1>3, <2>1 DEF AnalyzeRender, AnalyzeCapture, QueueEmptied, vars
  <1>4. CASE BufferRenderFrame
    <2>1. ~aborted'
      BY <1>4, RenderBuffered DEF ChecksInv
    <2>. QED  BY <1>2, <1>4, <2>1 DEF BufferRenderFrame
  <1>5. ASSUME NEW linear \in IF export_linear THEN LinearRequests ELSE {FALSE},
               ProcessCapture(linear)
        PROVE  ~aborted' /\ LinearInv'
    <2>1. linear = export_linear
      BY <1>5 DEF AlwaysAsked, ChecksInv, LinearInv
    <2>2. /\ UNCHANGED <<captureVars, export_linear, aborted>> /\ linear_output' = linear
          /\ pc' = "empty_queue"
      BY <1>5 DEF ProcessCapture
    <2>. QED  BY <2>1, <2>2 DEF ChecksInv, LinearInv, captureVars
  <1>6. CASE ProcessFirstSubFrame \/ ProcessSecondSubFrame
    BY <1>6, SubFrameChecks DEF ChecksInv, ProcessFirstSubFrame, ProcessSecondSubFrame
  <1>. QED  BY <1>3, <1>4, <1>5, <1>6, RemainingChecks DEF Next, CaptureStep

\* No RTC_DCHECK on a buffer size of FrameBlocker or BlockFramer ever fails, on the
\* render side or the capture side, as long as the linear output is always asked for.
THEOREM ChecksHold == AlwaysAsked /\ Spec => []NoFailedCheck
  <1>. SUFFICES ASSUME AlwaysAsked PROVE Spec => []NoFailedCheck
    OBVIOUS
  <1>2. ChecksInv /\ [Next]_vars => ChecksInv'
    BY ChecksNext
  <1>1. ChecksInv => NoFailedCheck
    BY DEF ChecksInv, NoFailedCheck
  <1>. QED  BY <1>1, <1>2, ChecksInit, PTL DEF Spec

\* The processed signal is the capture signal, a block and the fixed delay late, and the
\* linear output is in step with it (EchoCanceller3::ProcessCapture).
THEOREM OutputAlwaysDelayed == AlwaysAsked /\ Spec => []OutputIsDelayedInput
  <1>. SUFFICES ASSUME AlwaysAsked PROVE Spec => []OutputIsDelayedInput
    OBVIOUS
  <1>2. ChecksInv /\ [Next]_vars => ChecksInv'
    BY ChecksNext
  <1>1. ASSUME ChecksInv PROVE OutputIsDelayedInput
    <2>. SUFFICES ASSUME pc \in {"sub_frame_1", "remaining"}
                  PROVE  /\ output = [c \in 1 .. SubFrameChunks |->
                                        Late(SubFrame(Frame(captured), SubFrameIndex)[c])]
                         /\ linear_output => linearOutput = output
      BY DEF OutputIsDelayedInput
    <2>1. linear_output => linearOutput = output
      BY <1>1 DEF ChecksInv, LinearInv
    <2>2. /\ output \in Seq(Int) /\ Len(output) = SubFrameChunks
          /\ \A i \in 1 .. SubFrameChunks :
               output[i] = DelayedBy(fixed_delay, (Given - SubFrameChunks) - BlockChunks + i)
      BY <1>1 DEF ChecksInv, BlocksInv
    <2>3. captured \in Nat /\ fixed_delay \in Nat
      BY <1>1 DEF ChecksInv, CallsInv
    <2>4. PICK i \in {0, 1} : i = SubFrameIndex
      BY DEF SubFrameIndex
    <2>5. Given - SubFrameChunks = FrameChunks * (captured - 1) + SubFrameChunks * i
      BY <2>3, <2>4, Sizes DEF Given, SubFrameIndex
    <2>6. /\ Frame(captured) \in [1 .. FrameChunks -> Int]
          /\ \A k \in 1 .. FrameChunks : Frame(captured)[k] = FrameChunks * (captured - 1) + k
      BY <2>3, FrameItems
    <2>7. ASSUME NEW c \in 1 .. SubFrameChunks
          PROVE  output[c] = Late(SubFrame(Frame(captured), i)[c])
      <3>1. \A e \in 1 .. 5 : SubFrame(Frame(captured), i)[e] = Frame(captured)[5 * i + e]
        BY <2>6, FrameParts, Sizes
      <3>2. c \in 1 .. 5 /\ 5 * i + c \in 1 .. FrameChunks
        BY <2>7, Sizes
      <3>3. SubFrame(Frame(captured), i)[c] = FrameChunks * (captured - 1) + (5 * i + c)
        BY <2>6, <3>1, <3>2
      <3>4. PICK n \in Int : n = FrameChunks * (captured - 1) + (5 * i + c)
        BY <2>3, <2>7, Sizes
      <3>5. (Given - SubFrameChunks) - BlockChunks + c = n - BlockChunks
        BY <2>3, <2>5, <3>4, Sizes
      <3>6. Late(n) = DelayedBy(fixed_delay, n - BlockChunks)
        BY <2>3, Sizes DEF Late, DelayedBy
      <3>. QED  BY <2>2, <3>3, <3>4, <3>5, <3>6
    <2>8. \A s \in Seq(Int) : s = [c \in 1 .. Len(s) |-> s[c]]
      OBVIOUS
    <2>9. output = [c \in 1 .. SubFrameChunks |-> output[c]]
      BY <2>2, <2>8, Zenon
    <2>. QED  BY <2>1, <2>4, <2>7, <2>9, Zenon
  <1>. QED  BY <1>1, <1>2, ChecksInit, PTL DEF Spec

-----------------------------------------------------------------------------
(* The jitter metrics.                                                     *)

\* The types of the metrics.
Jitter == [min : Int, max : Int]
Metrics == [render : Jitter, capture : Jitter, num_api_calls_in_a_row : Nat,
            frames_since_last_report : Nat, last_call_was_render : BOOLEAN,
            proper_call_observed : BOOLEAN]

\* The metrics know of a run of calls once they saw it begin; before the first turn
\* after a report they count something else.
CountsRun(m, kind, calls) ==
  /\ m \in Metrics /\ calls \in Nat /\ kind \in {"none", "render", "capture"}
  /\ m.last_call_was_render <=> kind = "render"
  /\ m.proper_call_observed \/ m.last_call_was_render => m.num_api_calls_in_a_row = calls
  /\ m.proper_call_observed => kind # "none"

JitterInv == CountsRun(api_call_metrics_, lastCall, callsInARow)

\* A record with fields of the right type is one of metrics.
LEMMA MetricsFields ==
  ASSUME NEW c, NEW r \in Jitter, NEW p \in Jitter, NEW n \in Nat, NEW f \in Nat,
         NEW last \in BOOLEAN, NEW proper \in BOOLEAN,
         c = [render |-> r, capture |-> p, num_api_calls_in_a_row |-> n,
              frames_since_last_report |-> f, last_call_was_render |-> last,
              proper_call_observed |-> proper]
  PROVE  c \in Metrics
  BY DEF Metrics

\* A render call counts on, or ends a run of capture calls.
LEMMA RenderCallCounted ==
  ASSUME NEW m, NEW kind, NEW calls, CountsRun(m, kind, calls), NEW c, c = ReportRenderCall(m)
  PROVE  /\ CountsRun(c, "render", IF kind = "render" THEN calls + 1 ELSE 1)
         /\ c.render = m.render
         /\ c.capture # m.capture => kind = "capture" /\ c.capture = UpdateJitter(m.capture, calls)
  <1>. DEFINE turn == ~m.last_call_was_render
  <1>1. /\ m \in Metrics /\ calls \in Nat /\ kind \in {"none", "render", "capture"}
        /\ m.last_call_was_render <=> kind = "render"
        /\ m.proper_call_observed \/ m.last_call_was_render => m.num_api_calls_in_a_row = calls
        /\ m.proper_call_observed => kind # "none"
    BY DEF CountsRun
  <1>2. PICK n \in Nat : n = m.num_api_calls_in_a_row
    BY <1>1 DEF Metrics
  <1>3. /\ c.render = m.render
        /\ c.capture = IF turn /\ m.proper_call_observed THEN UpdateJitter(m.capture, n)
                       ELSE m.capture
        /\ c.num_api_calls_in_a_row = IF turn THEN 1 ELSE n + 1
        /\ c.frames_since_last_report = m.frames_since_last_report
        /\ c.last_call_was_render = TRUE
        /\ c.proper_call_observed = m.proper_call_observed
    BY <1>1, <1>2 DEF ReportRenderCall, Metrics
  <1>4. UpdateJitter(m.capture, n) \in Jitter
    BY <1>1, <1>2 DEF UpdateJitter, Metrics, Jitter
  <1>5. c.capture \in Jitter
    BY <1>1, <1>3, <1>4 DEF Metrics
  <1>6. c = [render |-> c.render, capture |-> c.capture,
             num_api_calls_in_a_row |-> c.num_api_calls_in_a_row,
             frames_since_last_report |-> c.frames_since_last_report,
             last_call_was_render |-> c.last_call_was_render,
             proper_call_observed |-> c.proper_call_observed]
    BY <1>1 DEF ReportRenderCall, Metrics
  <1>7. c \in Metrics
    <2>1. /\ c.render \in Jitter /\ c.frames_since_last_report \in Nat
          /\ c.num_api_calls_in_a_row \in Nat
      BY <1>1, <1>2, <1>3 DEF Metrics
    <2>2. c.last_call_was_render \in BOOLEAN
      BY <1>3
    <2>3. c.proper_call_observed \in BOOLEAN
      <3>1. m.proper_call_observed \in BOOLEAN
        BY <1>1 DEF Metrics
      <3>. QED  BY <1>3, <3>1, Zenon
    <2>. QED  BY <1>5, <1>6, <2>1, <2>2, <2>3, MetricsFields, Zenon
  <1>8. c.num_api_calls_in_a_row = IF kind = "render" THEN calls + 1 ELSE 1
    BY <1>1, <1>2, <1>3
  <1>9. c.capture # m.capture => kind = "capture" /\ c.capture = UpdateJitter(m.capture, calls)
    BY <1>1, <1>2, <1>3
  <1>. QED  BY <1>1, <1>3, <1>7, <1>8, <1>9 DEF CountsRun

\* A capture call counts on, ends a run of render calls, or reports.
LEMMA CaptureCallCounted ==
  ASSUME NEW m, NEW kind, NEW calls, CountsRun(m, kind, calls), NEW c, c = ReportCaptureCall(m)
  PROVE  /\ CountsRun(c, "capture", IF kind = "capture" THEN calls + 1 ELSE 1)
         /\ c.capture \in {m.capture, NoJitter}
         /\ c.render \notin {m.render, NoJitter} =>
              kind = "render" /\ c.render = UpdateJitter(m.render, calls)
  <1>. DEFINE turn == m.last_call_was_render
              proper == m.proper_call_observed \/ turn
              since == m.frames_since_last_report + (IF proper THEN 1 ELSE 0)
  <1>1. /\ m \in Metrics /\ calls \in Nat /\ kind \in {"none", "render", "capture"}
        /\ m.last_call_was_render <=> kind = "render"
        /\ m.proper_call_observed \/ m.last_call_was_render => m.num_api_calls_in_a_row = calls
        /\ m.proper_call_observed => kind # "none"
    BY DEF CountsRun
  <1>2. PICK n \in Nat : n = m.num_api_calls_in_a_row
    BY <1>1 DEF Metrics
  <1>3. CASE proper /\ since = ReportingInterval
    <2>1. c = NewMetrics
      BY <1>3 DEF ReportCaptureCall, ResetMetrics
    <2>2. NewMetrics \in Metrics
      BY DEF NewMetrics, NoJitter, IntMax, Metrics, Jitter
    <2>. QED  BY <1>1, <2>1, <2>2 DEF CountsRun, NewMetrics
  <1>4. CASE ~(proper /\ since = ReportingInterval)
    <2>1. c = [m EXCEPT !.render = IF turn /\ m.proper_call_observed
                                   THEN UpdateJitter(@, m.num_api_calls_in_a_row) ELSE @,
                        !.num_api_calls_in_a_row = IF turn THEN 1 ELSE @ + 1,
                        !.last_call_was_render = FALSE,
                        !.proper_call_observed = proper,
                        !.frames_since_last_report = since]
      BY <1>4 DEF ReportCaptureCall
    <2>. HIDE DEF since
    <2>3. /\ c.capture = m.capture
          /\ c.render = IF turn /\ m.proper_call_observed THEN UpdateJitter(m.render, n)
                        ELSE m.render
          /\ c.num_api_calls_in_a_row = IF turn THEN 1 ELSE n + 1
          /\ c.frames_since_last_report = since
          /\ c.last_call_was_render = FALSE
          /\ c.proper_call_observed = proper
      BY <1>1, <1>2, <2>1 DEF Metrics
    <2>4. UpdateJitter(m.render, n) \in Jitter
      BY <1>1, <1>2 DEF UpdateJitter, Metrics, Jitter
    <2>5. c.render \in Jitter /\ since \in Nat
      BY <1>1, <2>3, <2>4 DEF Metrics, since
    <2>6. c = [render |-> c.render, capture |-> c.capture,
               num_api_calls_in_a_row |-> c.num_api_calls_in_a_row,
               frames_since_last_report |-> c.frames_since_last_report,
               last_call_was_render |-> c.last_call_was_render,
               proper_call_observed |-> c.proper_call_observed]
      BY <1>1, <2>1 DEF Metrics
    <2>7. c \in Metrics
      <3>1. /\ c.capture \in Jitter /\ c.frames_since_last_report \in Nat
            /\ c.num_api_calls_in_a_row \in Nat
        BY <1>1, <1>2, <2>3, <2>5 DEF Metrics
      <3>2. c.last_call_was_render \in BOOLEAN
        BY <2>3
      <3>3. c.proper_call_observed \in BOOLEAN
        BY <2>3, Zenon
      <3>. QED  BY <2>5, <2>6, <3>1, <3>2, <3>3, MetricsFields, Zenon
    <2>8. proper => c.num_api_calls_in_a_row = IF kind = "capture" THEN calls + 1 ELSE 1
      BY <1>1, <1>2, <2>3
    <2>9. c.render # m.render => kind = "render" /\ c.render = UpdateJitter(m.render, calls)
      BY <1>1, <1>2, <2>3
    <2>10. c.last_call_was_render <=> FALSE
      BY <2>3, Zenon
    <2>11. c.proper_call_observed => proper
      BY <2>3, Zenon
    <2>. HIDE DEF proper, turn
    <2>12. CountsRun(c, "capture", IF kind = "capture" THEN calls + 1 ELSE 1)
      <3>1. (IF kind = "capture" THEN calls + 1 ELSE 1) \in Nat
        BY <1>1
      <3>. QED  BY <2>7, <2>8, <2>10, <2>11, <3>1 DEF CountsRun
    <2>. QED  BY <2>3, <2>9, <2>12, Zenon
  <1>. QED  BY <1>3, <1>4

\* New metrics have seen no call.
LEMMA JitterInit == Init => JitterInv
  <1>1. NewMetrics \in Metrics
    BY DEF NewMetrics, NoJitter, IntMax, Metrics, Jitter
  <1>. QED  BY <1>1 DEF Init, JitterInv, CountsRun, NewMetrics

\* Every call is reported once.
LEMMA CallsCounted ==
  ASSUME JitterInv, [Next]_vars
  PROVE  \/ UNCHANGED callVars
         \/ api_call_metrics_' = ReportRenderCall(api_call_metrics_) /\ CountCall("render")
         \/ api_call_metrics_' = ReportCaptureCall(api_call_metrics_) /\ CountCall("capture")
  BY DEF Next, CaptureStep, AnalyzeRender, AnalyzeCapture, ProcessCapture, BufferRenderFrame,
         QueueEmptied, ProcessFirstSubFrame, ProcessSecondSubFrame, ProcessCaptureFrameContent,
         ProcessRemainingCaptureFrameContent, vars

\* Every step keeps the metrics in touch with the run.
LEMMA JitterNext ==
  ASSUME JitterInv, [Next]_vars
  PROVE  JitterInv'
  <1>1. CASE UNCHANGED callVars
    BY <1>1 DEF JitterInv, callVars
  <1>2. CASE api_call_metrics_' = ReportRenderCall(api_call_metrics_) /\ CountCall("render")
    BY <1>2, RenderCallCounted DEF JitterInv, CountCall
  <1>3. CASE api_call_metrics_' = ReportCaptureCall(api_call_metrics_) /\ CountCall("capture")
    BY <1>3, CaptureCallCounted DEF JitterInv, CountCall
  <1>. QED  BY <1>1, <1>2, <1>3, CallsCounted

\* What goes into the jitter metrics is the length of a whole run of calls, with a
\* report in the middle of a run as well (ApiCallJitterMetrics::ReportCaptureCall).
THEOREM OnlyWholeRunsCount == Spec => JitterCountsWholeRuns
  <1>. DEFINE Counted(m, c) ==
         /\ c.render \notin {m.render, NoJitter} =>
              lastCall = "render" /\ c.render = UpdateJitter(m.render, callsInARow)
         /\ c.capture \notin {m.capture, NoJitter} =>
              lastCall = "capture" /\ c.capture = UpdateJitter(m.capture, callsInARow)
  <1>1. ASSUME JitterInv, [Next]_vars
        PROVE  Counted(api_call_metrics_, api_call_metrics_')
    <2>1. CASE UNCHANGED callVars
      BY <2>1 DEF callVars
    <2>2. CASE api_call_metrics_' = ReportRenderCall(api_call_metrics_)
      BY <1>1, <2>2, RenderCallCounted DEF JitterInv
    <2>3. CASE api_call_metrics_' = ReportCaptureCall(api_call_metrics_)
      BY <1>1, <2>3, CaptureCallCounted DEF JitterInv
    <2>. QED  BY <1>1, <2>1, <2>2, <2>3, CallsCounted
  <1>. QED  BY <1>1, JitterInit, JitterNext, PTL DEF Spec, JitterCountsWholeRuns

-----------------------------------------------------------------------------
(* The saturation flag.                                                    *)

\* Less than a block before the end of its frame.
AtFrameEnd(chunk) == FrameChunks * FrameOf(chunk) - chunk < BlockChunks - 1

\* The flag is that of the frame analysed last.
SaturationInv ==
  /\ saturated \subseteq 1 .. analyzed
  /\ saturated_microphone_signal_ <=> analyzed \in saturated
  /\ fixed_delay = 0 => \A chunk \in unflagged : AtFrameEnd(chunk)

\* Nothing is saturated yet.
LEMMA SaturationInit == Init => SaturationInv
  BY DEF Init, SaturationInv

\* A block that begins less than a block before the frame in process.
LEMMA BlockFlagged ==
  ASSUME CallsInv, SaturationInv, pc # "idle", NEW block,
         \A i \in DOMAIN block : /\ block[i] \in Int
                                 /\ block[i] > 0 => block[i] + 3 > FrameChunks * (captured - 1)
  PROVE  \A chunk \in WithoutFlag(block) : AtFrameEnd(chunk)
  <1>1. SUFFICES ASSUME NEW chunk \in WithoutFlag(block) PROVE AtFrameEnd(chunk)
    OBVIOUS
  <1>2. captured \in Nat /\ analyzed = captured
    BY DEF CallsInv
  <1>3. /\ ~saturated_microphone_signal_ /\ chunk \in ToSet(block) /\ chunk > 0
        /\ FrameOf(chunk) \in saturated
    BY <1>1 DEF WithoutFlag
  <1>4. PICK c \in 1 .. captured : c = FrameOf(chunk) /\ c # captured
    <2>1. captured \notin saturated
      BY <1>2, <1>3, Zenon DEF SaturationInv
    <2>2. FrameOf(chunk) \in 1 .. captured
      BY <1>2, <1>3 DEF SaturationInv
    <2>. QED  BY <1>3, <2>1, <2>2
  <1>5. PICK i \in DOMAIN block : chunk = block[i]
    BY <1>3 DEF ToSet
  <1>6. chunk \in Int /\ chunk + 3 > FrameChunks * (captured - 1)
    BY <1>3, <1>5
  <1>7. FrameChunks * c - chunk < BlockChunks - 1
    BY <1>2, <1>4, <1>6, Sizes
  <1>. QED  BY <1>4, <1>7 DEF AtFrameEnd

\* A sub-frame is processed under the flag of its frame, the first of them together
\* with what the blocker held of the frame before.
LEMMA SubFrameFlagged ==
  ASSUME CallsInv, DelayInv, BlocksInv, SaturationInv, NEW i \in {0, 1}, NEW at, NEW next,
         \/ i = 0 /\ at = "sub_frame_0" /\ next = "sub_frame_1"
         \/ i = 1 /\ at = "sub_frame_1" /\ next = "remaining",
         ProcessCaptureFrameContent(i, at, next)
  PROVE  SaturationInv'
  <1>1. /\ UNCHANGED <<saturated, analyzed, saturated_microphone_signal_, fixed_delay>>
        /\ ~aborted /\ pc = at
    BY DEF ProcessCaptureFrameContent, saturationVars, frameVars
  <1>. SUFFICES ASSUME fixed_delay = 0 PROVE \A chunk \in unflagged' : AtFrameEnd(chunk)
    BY <1>1 DEF SaturationInv
  <1>2. PICK in : in = InsertSubFrameAndExtractBlock(capture_blocker_, SubFrame(frame, i))
    OBVIOUS
  <1>3. \/ unflagged' = unflagged
        \/ unflagged' = unflagged \cup WithoutFlag(in.block)
    BY <1>2 DEF ProcessCaptureFrameContent
  <1>4. PICK b \in 0 .. 3 : /\ b = Len(capture_blocker_)
                            /\ pc = "sub_frame_0" => b <= 2
    BY <1>1, Sizes DEF BlocksInv, Phase
  <1>5. captured \in Nat
    BY DEF CallsInv
  <1>6. PICK n \in Int : /\ n = Given /\ n - b + 1 > FrameChunks * (captured - 1) - 3
    <2>1. CASE pc = "sub_frame_0"
      <3>1. Given = 10 * (captured - 1) /\ b <= 2
        BY <1>4, <2>1, Sizes DEF Given
      <3>. QED  BY <1>5, <3>1, Sizes
    <2>2. CASE pc = "sub_frame_1"
      <3>1. Given = 10 * (captured - 1) + 5
        BY <2>2, Sizes DEF Given
      <3>. QED  BY <1>5, <3>1, Sizes
    <2>. QED  BY <1>1, <2>1, <2>2
  <1>7. /\ in.block \in Seq(Int) /\ Len(in.block) = BlockChunks
        /\ \A k \in 1 .. BlockChunks : in.block[k] = DelayedBy(fixed_delay, n - b + k)
    <2>1. LET block == InsertSubFrameAndExtractBlock(capture_blocker_, SubFrame(frame, i))
              sub   == InsertBlockAndExtractSubFrame(output_framer_, block.block)
          IN /\ Given' = Given + SubFrameChunks
             /\ Len(capture_blocker_) \in 0 .. 3 /\ Len(output_framer_) \in 1 .. 4
             /\ Len(capture_blocker_) + 1 \in Phase'
             /\ SubFrameDone(fixed_delay, Given, Len(capture_blocker_), block, sub)
      BY SubFrameStep, Zenon
    <2>. QED  BY <1>2, <1>4, <1>6, <2>1, Zenon DEF SubFrameDone
  <1>8. ASSUME NEW k \in DOMAIN in.block
        PROVE  /\ in.block[k] \in Int
               /\ in.block[k] > 0 => in.block[k] + 3 > FrameChunks * (captured - 1)
    <2>1. k \in 1 .. BlockChunks
      BY <1>7, <1>8, LenProperties
    <2>2. in.block[k] = IF n - b + k > 0 THEN n - b + k - 0 ELSE 0
      BY <1>7, <2>1 DEF DelayedBy
    <2>. QED  BY <1>5, <1>6, <2>1, <2>2, Sizes
  <1>9. pc # "idle"
    BY <1>1
  <1>10. \A chunk \in WithoutFlag(in.block) : AtFrameEnd(chunk)
    BY <1>8, <1>9, BlockFlagged
  <1>. QED  BY <1>3, <1>10 DEF SaturationInv

\* The block that is left is all of one frame.
LEMMA RemainingFlagged ==
  ASSUME CallsInv, BlocksInv, SaturationInv, ProcessRemainingCaptureFrameContent
  PROVE  SaturationInv'
  <1>1. /\ UNCHANGED <<saturated, analyzed, saturated_microphone_signal_, fixed_delay>>
        /\ ~aborted /\ pc = "remaining"
    BY DEF ProcessRemainingCaptureFrameContent, saturationVars, frameVars
  <1>. SUFFICES ASSUME fixed_delay = 0 PROVE \A chunk \in unflagged' : AtFrameEnd(chunk)
    BY <1>1 DEF SaturationInv
  <1>2. CASE Len(capture_blocker_) # BlockChunks
    BY <1>2 DEF ProcessRemainingCaptureFrameContent, IsBlockAvailable, SaturationInv
  <1>3. CASE Len(capture_blocker_) = BlockChunks
    <2>1. unflagged' = unflagged \cup WithoutFlag(capture_blocker_)
      BY <1>3 DEF ProcessRemainingCaptureFrameContent, IsBlockAvailable
    <2>2. captured \in Nat
      BY DEF CallsInv
    <2>3. /\ capture_blocker_ \in Seq(Int)
          /\ \A k \in 1 .. BlockChunks :
               capture_blocker_[k] = DelayedBy(0, FrameChunks * captured - BlockChunks + k)
      BY <1>1, <1>3 DEF BlocksInv, Repacked, Given
    <2>4. ASSUME NEW k \in DOMAIN capture_blocker_
          PROVE  /\ capture_blocker_[k] \in Int
                 /\ capture_blocker_[k] > 0 =>
                      capture_blocker_[k] + 3 > FrameChunks * (captured - 1)
      <3>1. k \in 1 .. BlockChunks
        BY <1>3, <2>3, <2>4, LenProperties
      <3>2. PICK n \in Int : n = FrameChunks * captured - BlockChunks + k
        BY <2>2, <3>1, Sizes
      <3>3. capture_blocker_[k] = IF n > 0 THEN n - 0 ELSE 0
        BY <2>3, <3>1, <3>2 DEF DelayedBy
      <3>. QED  BY <2>2, <3>1, <3>2, <3>3, Sizes
    <2>5. \A chunk \in WithoutFlag(capture_blocker_) : AtFrameEnd(chunk)
      BY <1>1, <2>4, BlockFlagged
    <2>. QED  BY <2>1, <2>5 DEF SaturationInv
  <1>. QED  BY <1>2, <1>3

\* Every step keeps the flag that of the frame analysed last.
LEMMA SaturationNext ==
  ASSUME CallsInv, DelayInv, BlocksInv, SaturationInv, [Next]_vars
  PROVE  SaturationInv'
  <1>1. ASSUME NEW saturation \in BOOLEAN, AnalyzeCapture(saturation) PROVE SaturationInv'
    <2>1. /\ analyzed' = analyzed + 1 /\ saturated_microphone_signal_' = saturation
          /\ saturated' = IF saturation THEN saturated \cup {analyzed + 1} ELSE saturated
          /\ UNCHANGED <<fixed_delay, unflagged>>
      BY <1>1 DEF AnalyzeCapture, frameVars
    <2>2. analyzed \in Nat /\ saturated \subseteq 1 .. analyzed
      BY DEF CallsInv, SaturationInv
    <2>3. analyzed + 1 \notin saturated
      BY <2>2
    <2>4. saturated' \subseteq 1 .. analyzed'
      BY <2>1, <2>2
    <2>5. saturated_microphone_signal_' <=> analyzed' \in saturated'
      BY <2>1, <2>3, Zenon
    <2>. QED  BY <2>1, <2>4, <2>5 DEF SaturationInv
  <1>2. CASE UNCHANGED <<saturationVars, unflagged>> /\ fixed_delay' = fixed_delay
    BY <1>2 DEF SaturationInv, saturationVars
  <1>3. CASE ProcessFirstSubFrame \/ ProcessSecondSubFrame
    BY <1>3, SubFrameFlagged DEF ProcessFirstSubFrame, ProcessSecondSubFrame
  <1>. QED  BY <1>1, <1>2, <1>3, RemainingFlagged
            DEF Next, CaptureStep, AnalyzeRender, ProcessCapture, BufferRenderFrame, QueueEmptied,
                vars, frameVars

\* Without a fixed delay, all of a saturated frame is processed under its flag but the
\* last chunks that wait in the blocker (EchoCanceller3::AnalyzeCapture, ProcessCapture).
THEOREM SaturationAlwaysFlagged == Spec => []SaturatedFrameIsFlagged
  <1>1. SaturationInv => SaturatedFrameIsFlagged
    BY DEF SaturationInv, AtFrameEnd, SaturatedFrameIsFlagged
  <1>. QED  BY <1>1, CallsInit, CallsNext, DelayInit, DelayNext, BlocksInit, BlocksNext,
               SaturationInit, SaturationNext, PTL DEF Spec
=============================================================================
